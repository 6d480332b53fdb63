---------------------------- MODULE ClaudeSessions ----------------------------
(* The session runtime of claude (providers/claude/runtime.ts) and the live  *)
(* queries it keeps warm (live-query.ts): the turns of a session run one     *)
(* after the other over one SDK query, which outlives its turn, is killed by *)
(* interrupting it, and is given up when the claude runtime is replaced.     *)
(*                                                                           *)
(* A step is the code between two macrotasks. A query has the name of the    *)
(* turn that built it. The SDK, the clock and the installer are the          *)
(* environment; the SDK gives one result for a message, and its stream fails *)
(* with an abort only after its controller was aborted.                      *)
EXTENDS Naturals, Sequences, FiniteSets

CONSTANTS Turns,      \* calls of startRun
          SessionOf,  \* the key each of them resumes, or its own
          NoTurn,     \* no turn, no query
          MaxGen      \* bound: replacements of the claude runtime

ASSUME ClaudeAssumption ==
    NoTurn \notin Turns /\ MaxGen \in Nat /\ DOMAIN SessionOf = Turns

VARIABLES
    run,      \* run[t]: the promise chain of turn t
    sess,     \* sess[s]: SessionState
    open,     \* the queries that are not closed
    asked,    \* asked[t]: the query that has not answered the interrupt of t
    changes,  \* the generation of the installed runtime
    changed,  \* runtimeChanged
    struck    \* history: see Load and Strike

claudeVars == <<run, sess, open, asked, changes, changed, struck>>

Sessions == {SessionOf[t] : t \in Turns}
Ends == {"done", "error", "killed"}

ClaudeTypeOK ==
    /\ run \in [Turns -> [
         ph     : {"new", "queued", "loading", "resolving", "pushed", "resulted", "over"},
         killed : BOOLEAN,          \* killFlag.requested
         out    : Ends \cup {"none"},
         on     : Turns \cup {NoTurn},
         timer  : Turns \cup {NoTurn}]]  \* the query the fallback would close
    /\ sess \in [Sessions -> [
         active  : Turns \cup {NoTurn},  \* activeIo
         queue   : Seq(Turns),
         live    : Turns \cup {NoTurn},
         intr    : BOOLEAN,              \* interruptRequested
         aborted : BOOLEAN]]             \* abortController
    /\ open \subseteq Turns
    /\ asked \in [Turns -> Turns \cup {NoTurn}]
    /\ changes \in 0..MaxGen /\ changed \in BOOLEAN /\ struck \subseteq Turns

NewRun == [ph |-> "new", killed |-> FALSE, out |-> "none", on |-> NoTurn,
           timer |-> NoTurn]
Over(killed, out) == [NewRun EXCEPT !.ph = "over", !.killed = killed, !.out = out]
NewState == [active |-> NoTurn, queue |-> <<>>, live |-> NoTurn,
             intr |-> FALSE, aborted |-> FALSE]
ClaudeInit ==
    /\ run = [t \in Turns |-> NewRun]
    /\ sess = [s \in Sessions |-> NewState]
    /\ open = {} /\ asked = [t \in Turns |-> NoTurn]
    /\ changes = 0 /\ changed = FALSE /\ struck = {}

-----------------------------------------------------------------------------
At(t, ph) == run[t].ph = ph
Leaving(x, n) == IF x.live = n THEN [x EXCEPT !.live = NoTurn] ELSE x

(* closeLive, on the record x of a session.                                  *)
Closed(x) == [x EXCEPT !.live = NoTurn, !.aborted = TRUE]

(* Every session is without a turn and without a query: the change of the    *)
(* runtime is dealt with (resetChangeIfRecycled).                            *)
Recycled(all) == \A s \in Sessions : all[s].active = NoTurn /\ all[s].live = NoTurn

(* The head of a queue: killed turns are answered and skipped.               *)
Doomed(queue) == {i \in DOMAIN queue : \A j \in 1..i : run[queue[j]].killed}

(* The end of turn t, for which the session has the record x and o is open:  *)
(* `finally` of runTurn, then the chain goes on with the next turn.          *)
CarelessAfter(x) == [x EXCEPT !.active = NoTurn]
After(x) == [x EXCEPT !.intr = FALSE, !.active = NoTurn]
Retired(x) == IF changed THEN Closed(After(x)) ELSE After(x)
Finish(t, out, x, o) ==
    LET s    == SessionOf[t]
        y    == Retired(x)
        skip == Doomed(x.queue)
        k    == Cardinality(skip) + 1
        more == k <= Len(x.queue)
    IN /\ open' = IF changed THEN o \ {x.live} ELSE o
       /\ changed' = (changed /\ ~Recycled([sess EXCEPT ![s] = y]))
       /\ sess' = [sess EXCEPT ![s] = [y EXCEPT
             !.active = IF more THEN x.queue[k] ELSE NoTurn,
             !.queue  = SubSeq(x.queue, k + 1, Len(x.queue))]]
       /\ run' = [u \in Turns |->
             IF u = t THEN Over(run[u].killed, out)
             ELSE IF \E i \in skip : x.queue[i] = u THEN Over(TRUE, "killed")
             ELSE IF more /\ u = x.queue[k]
               THEN [run[u] EXCEPT !.ph = "loading"]
             ELSE run[u]]

(* Nothing but the session of t and t itself moves.                          *)
Move(t, ph, n) ==
    /\ run' = [run EXCEPT ![t].ph = ph, ![t].on = n]
    /\ UNCHANGED <<open, changed>>

-----------------------------------------------------------------------------
(* startRun: the turn joins the chain of its session.                        *)
StartRun(t) ==
    LET s == SessionOf[t] IN
    /\ At(t, "new")
    /\ IF sess[s].active = NoTurn
         THEN /\ run' = [run EXCEPT ![t].ph = "loading"]
              /\ sess' = [sess EXCEPT ![s].active = t]
         ELSE /\ run' = [run EXCEPT ![t].ph = "queued"]
              /\ sess' = [sess EXCEPT ![s].queue = Append(@, t)]
    /\ UNCHANGED <<open, asked, changes, changed, struck>>

(* The SDK is there, or not: a warm query is used at once, even if the       *)
(* refusal of an earlier turn's interrupt has aborted its controller.        *)
Load(t) ==
    LET x == sess[SessionOf[t]]
        warm == x.live \in open
    IN
    /\ At(t, "loading")
    /\ \/ /\ Finish(t, IF run[t].killed THEN "killed" ELSE "error", x, open)
          /\ UNCHANGED struck
       \/ /\ ~run[t].killed /\ UNCHANGED sess
          /\ IF warm THEN Move(t, "pushed", x.live) ELSE Move(t, "resolving", NoTurn)
          /\ struck' = IF warm /\ x.aborted THEN struck \cup {t} ELSE struck
    /\ UNCHANGED <<asked, changes>>

(* buildLive has looked up the executable, or that fails. A killed turn      *)
(* closes its new query.                                                     *)
Build(t) ==
    LET s == SessionOf[t]
        x == [sess[s] EXCEPT !.live = t, !.aborted = FALSE]
    IN
    /\ At(t, "resolving")
    /\ \/ Finish(t, IF run[t].killed THEN "killed" ELSE "error", sess[s], open)
       \/ run[t].killed /\ Finish(t, "killed", Closed(x), open)
       \/ /\ ~run[t].killed
          /\ sess' = [sess EXCEPT ![s] = x] /\ open' = open \cup {t}
          /\ run' = [run EXCEPT ![t].ph = "pushed", ![t].on = t]
          /\ UNCHANGED changed
    /\ UNCHANGED <<asked, changes, struck>>

(* A result frame settles the push; the turn goes on after setImmediate.     *)
Result(t) ==
    /\ At(t, "pushed") /\ Move(t, "resulted", run[t].on)
    /\ UNCHANGED <<sess, asked, changes, struck>>
Settled(t) ==
    LET x == sess[SessionOf[t]]
        n == run[t].on
    IN
    /\ At(t, "resulted")
    /\ \E out \in IF x.intr THEN {"killed"} ELSE {"done", "error"} :
          Finish(t, out, IF n \in open THEN x ELSE Leaving(x, n), open)
    /\ UNCHANGED <<asked, changes, struck>>

(* Query n of the session of t is closed. The turn that waits for a result   *)
(* of it fails: it counts as killed after an interrupt or an abort. Without  *)
(* such a turn the closed query stays in its place.                          *)
Shut(s, n, x) ==
    LET t == x.active IN
    IF t # NoTurn /\ At(t, "pushed") /\ run[t].on = n
      THEN Finish(t, IF x.intr \/ x.aborted THEN "killed" ELSE "error",
                  Leaving(x, n), open \ {n})
      ELSE /\ sess' = [sess EXCEPT ![s] = x] /\ open' = open \ {n}
           /\ UNCHANGED <<run, changed>>

(* The stream of query n ends or throws.                                     *)
QueryDies(n) ==
    LET s == SessionOf[n] IN
    /\ n \in open /\ Shut(s, n, sess[s])
    /\ UNCHANGED <<asked, changes, struck>>

-----------------------------------------------------------------------------
(* kill: the flag; for the turn at work also the interrupt of the query, if  *)
(* there is one, and the timer. A closed query refuses the interrupt at once,*)
(* which aborts the controller.                                              *)
Unarmed(cuts, n) == NoTurn
Armed(cuts, n) == IF cuts THEN n ELSE NoTurn
Kill(t) ==
    LET s == SessionOf[t]
        n == sess[s].live
        mine == sess[s].active = t
        cuts == mine /\ n # NoTurn
    IN
    /\ run[t].ph \notin {"new", "over"} /\ ~run[t].killed
    /\ run' = [run EXCEPT ![t].killed = TRUE, ![t].timer = Armed(cuts, n)]
    /\ sess' = IF ~mine THEN sess
                 ELSE [sess EXCEPT ![s].intr = TRUE,
                                   ![s].aborted = @ \/ (cuts /\ n \notin open)]
    /\ asked' = IF cuts /\ n \in open THEN [asked EXCEPT ![t] = n] ELSE asked
    /\ UNCHANGED <<open, changes, changed, struck>>

(* The interrupt of t is refused, be t over or not: its query is closed and  *)
(* the controller of the session aborted, whoever works there by now.        *)
Strike(t, n) ==
    LET s == SessionOf[t] IN
    /\ Shut(s, n, [sess[s] EXCEPT !.aborted = TRUE])
    /\ struck' = struck \cup {u \in Turns \ {t} : u = sess[s].active /\ At(u, "pushed")}
InterruptFails(t) ==
    /\ asked[t] # NoTurn /\ Strike(t, asked[t])
    /\ asked' = [asked EXCEPT ![t] = NoTurn]
    /\ UNCHANGED changes
InterruptAccepted(t) ==
    /\ asked[t] # NoTurn /\ asked' = [asked EXCEPT ![t] = NoTurn]
    /\ UNCHANGED <<run, sess, open, changes, changed, struck>>

(* The fallback, which does nothing once t is over.                          *)
Fallback(t) ==
    /\ run[t].timer # NoTurn /\ sess[SessionOf[t]].active = t
    /\ Strike(t, run[t].timer)
    /\ UNCHANGED <<asked, changes>>

-----------------------------------------------------------------------------
(* The claude runtime is replaced: idle sessions give up their query now,    *)
(* the others when their turn ends.                                          *)
RuntimeChange ==
    LET idle == {s \in Sessions : sess[s].active = NoTurn}
        all  == [s \in Sessions |-> IF s \in idle THEN Closed(sess[s]) ELSE sess[s]]
    IN
    /\ changes < MaxGen /\ changes' = changes + 1
    /\ sess' = all /\ open' = open \ {sess[s].live : s \in idle}
    /\ changed' = ~Recycled(all)
    /\ UNCHANGED <<run, asked, struck>>

(* reapIdle, for a session that has been idle long enough.                   *)
ReapSession(s) ==
    /\ sess[s].active = NoTurn /\ sess[s].live # NoTurn
    /\ sess' = [sess EXCEPT ![s] = Closed(@)]
    /\ open' = open \ {sess[s].live}
    /\ UNCHANGED <<run, asked, changes, changed, struck>>

ClaudeNext ==
    \/ \E t \in Turns :
         \/ StartRun(t) \/ Load(t) \/ Build(t) \/ Result(t) \/ Settled(t)
         \/ Kill(t) \/ InterruptFails(t) \/ InterruptAccepted(t) \/ Fallback(t)
         \/ QueryDies(t)
    \/ \E s \in Sessions : ReapSession(s)
    \/ RuntimeChange
ClaudeSpec == ClaudeInit /\ [][ClaudeNext]_claudeVars

(* Lookups end, setImmediate comes, the fallback is a timer. A result may    *)
(* never come.                                                               *)
Own(t) == Load(t) \/ Build(t) \/ Settled(t) \/ Fallback(t)
ClaudeFairness == \A t \in Turns : WF_claudeVars(Own(t))

-----------------------------------------------------------------------------
(* "a leftover interrupt flag is stale and must not classify the next turn   *)
(* on this session as killed" (runTurn): who ends killed was killed, or has  *)
(* sent its message to a query that the refused interrupt of an earlier turn *)
(* aborts, before the message or after it.                                   *)
OnlyKilledEndKilled ==
    /\ ClaudeTypeOK
    /\ \A t \in Turns : run[t].out = "killed" => run[t].killed \/ t \in struck

(* A turn killed at work ends as killed, although the SDK may accept the     *)
(* interrupt and never give a result (the fallback of kill).                 *)
Unanswered ==
    \E t \in Turns : /\ run[t].killed /\ run[t].out # "killed"
                     /\ sess[SessionOf[t]].active = t \/ At(t, "over")
KilledClaudeTurnEnds == Unanswered ~> ~Unanswered
=============================================================================
