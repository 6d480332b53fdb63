---------------------------- MODULE CliSessions ----------------------------
(* The queue of one-shot CLI turns behind the grok and agy adapters          *)
(* (CliSessionManager). A turn is queued under a session key: turns that     *)
(* resume one vendor session share a key and must never run two children at  *)
(* once, every other turn has a key of its own. JavaScript runs each method  *)
(* to completion, so one action is one call or one callback: startRun, kill, *)
(* dispose, the kill fallback timer, the end of a child process.             *)
(*                                                                           *)
(* A session's state object outlives its entry in the sessions map in        *)
(* principle, because turns keep a reference to it. Objects are therefore    *)
(* named, by the turn whose startRun created them.                           *)
EXTENDS SequencesExt

CONSTANTS Runs,    \* the turns handed to startRun
          Keys,    \* the session keys
          KeyOf,   \* KeyOf[r]: the key session() computes for turn r
          NoRun    \* undefined

ASSUME RunsAssumption ==
    /\ KeyOf \in [Runs -> Keys]
    /\ NoRun \notin Runs

VARIABLES
    sessions,   \* sessions[k]: the state object the map holds under k
    queue,      \* queue[s]: turns waiting in state object s
    active,     \* active[s]: the turn state object s has given a child to
    stateOf,    \* stateOf[r]: the state object of turn r, NoRun before startRun
    killed,     \* turns kill() was called on
    fallback,   \* turns whose kill fallback timer is armed
    outcome,    \* outcome[r]: what the completion promise resolved to
    child       \* child[r]: the child process of turn r

vars == <<sessions, queue, active, stateOf, killed, fallback, outcome, child>>

Outcomes == {"ok", "failed", "killed"}

TypeOK ==
    /\ sessions \in [Keys -> Runs \cup {NoRun}]
    /\ queue \in [Runs -> Seq(Runs)]
    /\ active \in [Runs -> Runs \cup {NoRun}]
    /\ stateOf \in [Runs -> Runs \cup {NoRun}]
    /\ killed \in SUBSET Runs
    /\ fallback \in SUBSET Runs
    /\ outcome \in [Runs -> Outcomes \cup {"pending"}]
    /\ child \in [Runs -> {"none", "live", "closed"}]

Init ==
    /\ sessions = [k \in Keys |-> NoRun]
    /\ queue = [s \in Runs |-> <<>>]
    /\ active = [s \in Runs |-> NoRun]
    /\ stateOf = [r \in Runs |-> NoRun]
    /\ killed = {}
    /\ fallback = {}
    /\ outcome = [r \in Runs |-> "pending"]
    /\ child = [r \in Runs |-> "none"]

-----------------------------------------------------------------------------
(* Faulty variants, named Bad<Definition>, each a bug the manager could have *)
(* and a property must notice. Nothing below uses them.                      *)

(* The map without state object s, if it holds s.                            *)
Without(map, s) ==
    [k \in Keys |-> IF k = KeyOf[s] /\ map[k] = s THEN NoRun ELSE map[k]]

(* startNext on state object s, idle, with turns q waiting, when the first   *)
(* `refused` of them cannot be spawned: each of these is settled as failed   *)
(* and released, which calls startNext again. Then a turn gets the child, or *)
(* a killed one is settled and nothing is started, or the queue is empty and *)
(* the map forgets s. map, told and kids are the values the calling method   *)
(* has given sessions, outcome and child before the call.                    *)
StartAfter(refused, s, q, map, told, kids) ==
    LET rest   == SubSeq(q, refused + 2, Len(q))
        next   == IF refused = Len(q) THEN NoRun ELSE q[refused + 1]
        starts == next # NoRun /\ next \notin killed
    IN
    /\ \A i \in 1..refused : q[i] \notin killed
    /\ queue' = [queue EXCEPT ![s] = rest]
    /\ active' = [active EXCEPT ![s] = IF starts THEN next ELSE NoRun]
    /\ child' = [r \in Runs |-> IF starts /\ r = next THEN "live" ELSE kids[r]]
    /\ outcome' = [r \in Runs |->
         IF \E i \in 1..refused : q[i] = r THEN "failed"
         ELSE IF r = next /\ r \in killed THEN "killed"
         ELSE told[r]]
    /\ sessions' = IF ~starts /\ rest = <<>> THEN Without(map, s) ELSE map

StartNext(s, q, map, told, kids) ==
    \E refused \in 0..Len(q) : StartAfter(refused, s, q, map, told, kids)

(* A new turn jumps the queue of its session.                                *)
BadStartRun(r) ==
    LET k   == KeyOf[r]
        s   == IF sessions[k] = NoRun THEN r ELSE sessions[k]
        map == [sessions EXCEPT ![k] = s]
    IN
    /\ stateOf[r] = NoRun
    /\ stateOf' = [stateOf EXCEPT ![r] = s]
    /\ IF active[s] = NoRun
         THEN StartNext(s, Append(queue[s], r), map, outcome, child)
         ELSE /\ queue' = [queue EXCEPT ![s] = <<r>> \o @]
              /\ sessions' = map
              /\ UNCHANGED <<active, outcome, child>>
    /\ UNCHANGED <<killed, fallback>>

(* startRun: session() finds or creates the state object, the turn is        *)
(* queued, and an idle object starts it synchronously.                       *)
StartRun(r) ==
    LET k   == KeyOf[r]
        s   == IF sessions[k] = NoRun THEN r ELSE sessions[k]
        map == [sessions EXCEPT ![k] = s]
    IN
    /\ stateOf[r] = NoRun
    /\ stateOf' = [stateOf EXCEPT ![r] = s]
    /\ IF active[s] = NoRun
         THEN StartNext(s, Append(queue[s], r), map, outcome, child)
         ELSE /\ queue' = [queue EXCEPT ![s] = Append(@, r)]
              /\ sessions' = map
              /\ UNCHANGED <<active, outcome, child>>
    /\ UNCHANGED <<killed, fallback>>

(* kill's early return: only a turn still owed an answer can be killed.      *)
Killable(r) ==
    /\ stateOf[r] # NoRun
    /\ r \notin killed
    /\ outcome[r] = "pending"

(* kill of a turn without a child: spliced out of its queue and settled; an  *)
(* idle object left with an empty queue leaves the map.                      *)
KillQueued(r) ==
    LET s == stateOf[r] IN
    /\ Killable(r)
    /\ active[s] # r
    /\ killed' = killed \cup {r}
    /\ \E i \in DOMAIN queue[s] :
         /\ queue[s][i] = r
         /\ queue' = [queue EXCEPT ![s] = RemoveAt(@, i)]
    /\ outcome' = [outcome EXCEPT ![r] = "killed"]
    /\ sessions' = IF active[s] = NoRun /\ queue'[s] = <<>>
                     THEN Without(sessions, s) ELSE sessions
    /\ UNCHANGED <<active, stateOf, fallback, child>>

(* No fallback timer is armed: the kill relies on the child obeying SIGTERM. *)
BadKillActive(r) ==
    /\ Killable(r)
    /\ active[stateOf[r]] = r
    /\ killed' = killed \cup {r}
    /\ UNCHANGED <<sessions, queue, active, stateOf, fallback, outcome, child>>

(* kill of the turn with the child: SIGTERM, whose effect is the child's own *)
(* later end, and a timer in case that end never comes.                      *)
KillActive(r) ==
    /\ Killable(r)
    /\ active[stateOf[r]] = r
    /\ killed' = killed \cup {r}
    /\ fallback' = fallback \cup {r}
    /\ UNCHANGED <<sessions, queue, active, stateOf, outcome, child>>

(* dispose: kill every active and queued turn the map can reach.             *)
Dispose ==
    LET reached == {sessions[k] : k \in Keys} \ {NoRun}
        doomed  == {r \in Runs : Killable(r) /\ stateOf[r] \in reached}
        running == {r \in doomed : active[stateOf[r]] = r}
    IN
    /\ doomed # {}
    /\ killed' = killed \cup doomed
    /\ fallback' = fallback \cup running
    /\ queue' = [s \in Runs |-> IF s \in reached THEN <<>> ELSE queue[s]]
    /\ outcome' = [r \in Runs |-> IF r \in doomed \ running
                                    THEN "killed" ELSE outcome[r]]
    /\ sessions' = [k \in Keys |->
         IF sessions[k] # NoRun /\ active[sessions[k]] = NoRun
           THEN NoRun ELSE sessions[k]]
    /\ UNCHANGED <<active, stateOf, child>>

(* The fallback frees the session along with answering the caller.           *)
BadKillFallback(r) ==
    /\ r \in fallback
    /\ fallback' = fallback \ {r}
    /\ StartNext(stateOf[r], queue[stateOf[r]], sessions,
                 [outcome EXCEPT ![r] = "killed"], child)
    /\ UNCHANGED <<stateOf, killed>>

(* The kill fallback timer: the caller is answered, the session stays        *)
(* occupied by the old child.                                                *)
KillFallback(r) ==
    /\ r \in fallback
    /\ fallback' = fallback \ {r}
    /\ outcome' = [outcome EXCEPT ![r] = "killed"]
    /\ UNCHANGED <<sessions, queue, active, stateOf, killed, child>>

(* finishTransport: the child ended, well (result "ok"), badly or with a     *)
(* rejected completion ("failed"). An unanswered turn is settled, the timer  *)
(* goes, and release starts the next turn.                                   *)
FinishTransport(r, result) ==
    LET s    == stateOf[r]
        told == IF outcome[r] # "pending" THEN outcome
                ELSE [outcome EXCEPT ![r] = IF r \in killed THEN "killed" ELSE result]
        kids == [child EXCEPT ![r] = "closed"]
    IN
    /\ child[r] = "live"
    /\ fallback' = fallback \ {r}
    /\ IF active[s] = r
         THEN StartNext(s, queue[s], sessions, told, kids)
         ELSE /\ outcome' = told
              /\ child' = kids
              /\ UNCHANGED <<sessions, queue, active>>
    /\ UNCHANGED <<stateOf, killed>>

Next ==
    \/ \E r \in Runs :
         \/ StartRun(r)
         \/ KillQueued(r)
         \/ KillActive(r)
         \/ KillFallback(r)
         \/ \E result \in {"ok", "failed"} : FinishTransport(r, result)
    \/ Dispose

Spec == Init /\ [][Next]_vars

(* Node timers fire. That a child ever ends is not assumed.                  *)
FairSpec == Spec /\ \A r \in Runs : WF_vars(KillFallback(r))

-----------------------------------------------------------------------------
(* Two turns that resume one vendor session never have a child each, not     *)
(* even when the kill fallback has answered for the older one: the session   *)
(* stays occupied until its transport closes (finishTransport's comment).    *)
OneChildPerKey ==
    \A q, r \in Runs :
        child[q] = "live" /\ child[r] = "live" /\ KeyOf[q] = KeyOf[r] => q = r

(* The sessions map holds exactly the sessions with a child: an entry is     *)
(* neither leaked when its last turn goes (queue drained, killed, or never   *)
(* spawned) nor dropped while a turn still uses or waits for its object.     *)
MapHoldsLiveSessions ==
    /\ \A k \in Keys : sessions[k] # NoRun => \E r \in Runs :
         child[r] = "live" /\ stateOf[r] = sessions[k] /\ KeyOf[r] = k
    /\ \A r \in Runs :
         stateOf[r] # NoRun /\ (child[r] = "live" \/ outcome[r] = "pending")
           => sessions[KeyOf[r]] = stateOf[r]

(* A turn's answer is final, and a killed turn that has no child is never    *)
(* given one by a later release of its session.                              *)
AnswerOnce ==
    [][\A r \in Runs :
         /\ outcome[r] # "pending" => outcome'[r] = outcome[r]
         /\ child[r] = "none" /\ outcome[r] # "pending" => child'[r] = "none"]_vars

(* kill() is answered within the fallback even if the child ignores SIGTERM  *)
(* for ever.                                                                 *)
KilledIsAnswered ==
    \A r \in Runs : r \in killed ~> outcome[r] # "pending"

(* Seen key by key, the manager is a line served in order of arrival: the    *)
(* line of a key is the queue of the object the map holds for it.            *)
LineOf(k)   == IF sessions[k] = NoRun THEN <<>> ELSE queue[sessions[k]]
HolderOf(k) == IF sessions[k] = NoRun THEN NoRun ELSE active[sessions[k]]

Fifo == INSTANCE SessionFifo WITH
          arrived <- {r \in Runs : stateOf[r] # NoRun},
          line    <- [k \in Keys |-> LineOf(k)],
          holder  <- [k \in Keys |-> HolderOf(k)],
          answer  <- outcome

(* The sessions map, the state objects and their references implement the    *)
(* line per key that callers rely on (FIFO coordinator, manager.ts).         *)
ImplementsFifo == Fifo!Spec
=============================================================================
