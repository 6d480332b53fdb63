---------------------------- MODULE CodexThreads ----------------------------
(* Turns of Codex on a shared app-server: CodexThreadManager (threads.ts)    *)
(* and the session runtime around it (runtime.ts). The runtime creates a     *)
(* pair, a connection and the manager on top of it, lazily and replaces it   *)
(* when the managed runtime or the account changes. A session holds the      *)
(* conversation of one vendor thread; its operations go through a queue, and *)
(* a turn that starts while another one runs interrupts that one first.      *)
(*                                                                           *)
(* CodexConnection models the connection by itself. Here a request is joined *)
(* (it waits for the handshake), sent, or answered and not yet looked at. A  *)
(* step is the code between two macrotasks, or one promise reaction; timers, *)
(* exits and calls wait until all reactions are done (Quiet), while further  *)
(* lines of the same chunk do not.                                           *)
EXTENDS Integers, SequencesExt

CONSTANTS Turns,      \* the calls of startRun
          Sessions,   \* the session keys
          SessionOf,  \* SessionOf[t]: the session of turn t
          Resumed,    \* sessions whose key is a vendor thread to resume
          KillTargets, \* the turns that may be killed
          EarlyRetire, \* may the account change while a pair is being created?
          None,
          MaxPairs,   \* bound: pairs created
          MaxFaults,  \* bound: lost children, errors and runtime changes
          MaxTries    \* attempts of turn/interrupt (6 in the code)

ASSUME CodexAssumption ==
    /\ SessionOf \in [Turns -> Sessions] /\ Resumed \subseteq Sessions
    /\ None \notin Turns /\ EarlyRetire \in BOOLEAN
    /\ MaxPairs \in Nat /\ MaxFaults \in Nat /\ MaxTries \in Nat \ {0, 1}

Pairs == 1..MaxPairs

VARIABLES
    turn,     \* turn[t]: the run and RunningTurn of t, with its coroutines
    ses,      \* ses[p][s]: SessionState of s in the manager of pair p
    conn,     \* conn[p]: the connection of pair p
    stale,    \* stale[p]: staleTurns, the wire ids of interrupted turns
    wire,     \* wire[p]: what child and connection have written
    child,    \* child[p][s]: external: the thread of s in the app-server
    faults,   \* how many of the bounded events happened
    rt        \* the fields of SessionRuntime

vars == <<turn, ses, conn, stale, wire, child, faults, rt>>

Outcomes == {"completed", "interrupted", "failed"}
Requests == {"none", "joined", "sent", "ok", "missing", "idle", "error"}

ASSUME TurnsAssumption == Turns \cap Requests = {}   \* an answer may name a turn

TurnState == [
    ph     : {"new", "setup", "queued", "load", "start", "reload", "restart", "open"},
              \* load and reload: thread/start or thread/resume is outstanding;
              \* start and restart: turn/start; open: beginTurn has returned
    pair   : 0..MaxPairs,          \* the pair it awaits or was started on
    rq     : Requests,             \* beginTurn's request
    dq     : Requests \cup Turns,  \* the interrupt driver's request
    drv    : {"none", "live", "ask", "again"},  \* the interrupt driver
    tries  : 0..MaxTries,
    settle : BOOLEAN,              \* an interrupt() is in its settle wait
    abort  : BOOLEAN,              \* abortRequested
    pid    : BOOLEAN,              \* pendingId is known
    lid    : Turns \cup {None},    \* liveId
    out    : Outcomes \cup {"none"},
    by     : Turns \cup {None},    \* whose message or request settled it
    killed : -1..MaxPairs,         \* the setup a kill waits for; 0: no kill, -1: done
    gone   : BOOLEAN ]             \* the run's completion was handled

SessionState == [
    owned   : BOOLEAN,             \* sessions has the key
    thread  : BOOLEAN,             \* threadId is set
    gen     : Int,
    running : Turns \cup {None},
    block   : Turns \cup {None},   \* the turn the head of the queue waits for
    drives  : BOOLEAN,             \* ... and whether it is that turn's driver
    queue   : Seq(Turns \cup {None}) ]   \* what is queued, None for an abort

CodexTypeOK ==
    /\ turn \in [Turns -> TurnState]
    /\ ses \in [Pairs -> [Sessions -> SessionState]]
    /\ conn \in [Pairs -> [st : {"none", "starting", "ready"}, gen : Nat,
                       reaper : BOOLEAN, slow : BOOLEAN]]
    /\ stale \in [Pairs -> SUBSET Turns]
    /\ child \in [Pairs -> [Sessions -> [loaded : BOOLEAN, active : Turns \cup {None}]]]
    /\ faults \in 0..MaxFaults
    /\ rt \in [cur : 0..MaxPairs, setup : 0..MaxPairs, made : SUBSET Pairs,
               failed : SUBSET Pairs, last : 0..MaxPairs, changed : BOOLEAN,
               runs : [Sessions -> Turns \cup {None}], waits : Seq(Turns),
               chunk : 0..MaxPairs]

NewSession == [owned |-> FALSE, thread |-> FALSE, gen |-> 0,
               running |-> None, block |-> None, drives |-> FALSE, queue |-> <<>>]
NewChild   == [s \in Sessions |-> [loaded |-> FALSE, active |-> None]]
NoLines    == [in |-> {}, out |-> <<>>]

CodexInit ==
    /\ turn = [t \in Turns |->
         [ph |-> "new", pair |-> 0, rq |-> "none", dq |-> "none", drv |-> "none",
          tries |-> 0, settle |-> FALSE, abort |-> FALSE, pid |-> FALSE, lid |-> None,
          out |-> "none", by |-> None, killed |-> 0, gone |-> FALSE]]
    /\ ses = [p \in Pairs |-> [s \in Sessions |-> NewSession]]
    /\ conn = [p \in Pairs |-> [st |-> "none", gen |-> 0, reaper |-> TRUE,
                             slow |-> FALSE]]
    /\ stale = [p \in Pairs |-> {}]
    /\ wire = [p \in Pairs |-> NoLines]
    /\ child = [p \in Pairs |-> NewChild]
    /\ faults = 0
    /\ rt = [cur |-> 0, setup |-> 0, made |-> {}, failed |-> {}, last |-> 0,
             changed |-> FALSE, runs |-> [s \in Sessions |-> None], waits |-> <<>>,
             chunk |-> 0]

-----------------------------------------------------------------------------
Answered == {"ok", "missing", "idle", "error"} \cup Turns  \* y: "but found y"
Pending  == {"joined", "sent"}

RunningIn(p) == {ses[p][s].running : s \in Sessions} \ {None}

(* A promise reaction that is due, and a queue whose head can start.         *)
BeginDue(t)  == turn[t].rq \in Answered
DriveDue(t)  == turn[t].dq \in Answered
EnterDue(t)  ==
    /\ turn[t].ph = "setup" /\ turn[t].pair \in rt.made \cup rt.failed
    /\ \E i \in DOMAIN rt.waits :
         /\ rt.waits[i] = t
         /\ \A j \in 1..(i - 1) : turn[rt.waits[j]].pair # turn[t].pair
HastyKillDue(t) == turn[t].killed \in rt.made \cup rt.failed
KillDue(t)   == /\ turn[t].killed \in rt.made \cup rt.failed
                /\ ~(turn[t].ph = "setup" /\ turn[t].pair = turn[t].killed)
SettleDue(t) == turn[t].out # "none" /\ ~turn[t].gone
HeadDue(p, s) == ses[p][s].queue # <<>> /\ ses[p][s].block = None
Quiet == /\ rt.chunk = 0
         /\ \A t \in Turns : ~(BeginDue(t) \/ DriveDue(t) \/ EnterDue(t)
                               \/ KillDue(t) \/ SettleDue(t))
         /\ \A p \in Pairs, s \in Sessions : ~HeadDue(p, s)

Fault == faults < MaxFaults /\ faults' = faults + 1

(* busy() of the manager and of the connection below it.                     *)
BusyPair(p) ==
    \/ conn[p].st = "starting" \/ RunningIn(p) # {}
    \/ \E t \in Turns : turn[t].pair = p /\ {turn[t].rq, turn[t].dq} \cap Pending # {}

(* interrupt(r) for the running turn r of f: its caller becomes the driver,  *)
(* or falls through to the settle wait if there is a driver already.         *)
Interrupted(f, r) ==
    IF f[r].drv = "none"
      THEN [f EXCEPT ![r].abort = TRUE, ![r].drv = "live", ![r].tries = 0]
      ELSE [f EXCEPT ![r].abort = TRUE, ![r].settle = TRUE]

(* finish: the turn that runs in the session now is settled, because of what *)
(* `who` sent or did; the wire id of an interrupted turn is remembered.      *)
Settle(f, r, out, who) == [f EXCEPT ![r].out = out, ![r].by = who, ![r].settle = FALSE]
ForgetfulStaleAfter(p, r, out) == stale[p]
StaleAfter(p, r, out) ==
    IF out # "interrupted" THEN stale[p]
    ELSE IF turn[r].lid # None THEN stale[p] \cup {turn[r].lid}
    ELSE IF turn[r].pid THEN stale[p] \cup {r} ELSE stale[p]

(* connection.request for turn t of f, by beginTurn (field "rq") or by the   *)
(* driver ("dq"), over pair p; m is the line for the child.                  *)
Issue(p, f, t, field, m) ==
    \/ /\ conn[p].st = "ready"
       /\ turn' = [f EXCEPT ![t][field] = "sent"]
       /\ wire' = [wire EXCEPT ![p].in = @ \cup {m}]
       /\ UNCHANGED <<conn, child, faults>>
    \/ /\ conn[p].st = "starting" /\ turn' = [f EXCEPT ![t][field] = "joined"]
       /\ UNCHANGED <<conn, wire, child, faults>>
    \/ /\ conn[p].st = "none"
       /\ turn' = [f EXCEPT ![t][field] = "joined"]
       /\ conn' = [conn EXCEPT ![p].st = "starting"]
       /\ UNCHANGED <<wire, child, faults>>
    \/ /\ conn[p].st = "none" /\ Fault
       /\ turn' = [f EXCEPT ![t][field] = "error"]
       /\ UNCHANGED <<conn, wire, child>>

Line(t, what, x) == [for |-> t, what |-> what, on |-> x, open |-> TRUE]
LoadLine(t)  == Line(t, "load", t)
StartLine(t) == Line(t, "turn", t)

(* What a joined request writes once the handshake is done.                  *)
JoinedLines(p) ==
    {IF turn[t].ph \in {"load", "reload"} THEN LoadLine(t) ELSE StartLine(t) :
        t \in {u \in Turns : turn[u].pair = p /\ turn[u].rq = "joined"}}
    \cup {Line(t, "interrupt", IF turn[t].lid # None THEN turn[t].lid ELSE t) :
        t \in {u \in Turns : turn[u].pair = p /\ turn[u].dq = "joined"}}

-----------------------------------------------------------------------------
(* The session runtime.                                                      *)

(* The connection of p loses its child (lose, noteConnectionLost): requests  *)
(* are rejected, the generation is bumped, and running turns are settled.    *)
Orphaned(p, f) ==
    [t \in Turns |->
       LET g == [f[t] EXCEPT !.rq = IF f[t].pair = p /\ @ \in Pending THEN "error" ELSE @,
                             !.dq = IF f[t].pair = p /\ @ \in Pending THEN "error" ELSE @]
       IN IF t \in RunningIn(p)
            THEN [g EXCEPT !.out = IF f[t].abort THEN "interrupted" ELSE "failed",
                           !.by = t, !.settle = FALSE]
            ELSE g]
SilentLose(p, f, reaps) ==
    /\ conn' = [conn EXCEPT ![p] = [st |-> "none", gen |-> @.gen, reaper |-> reaps,
                                      slow |-> FALSE]]
    /\ turn' = Orphaned(p, f)
    /\ stale' = [stale EXCEPT ![p] = @ \cup UNION
         {StaleAfter(p, t, IF f[t].abort THEN "interrupted" ELSE "failed") :
            t \in RunningIn(p)}]
    /\ ses' = [ses EXCEPT ![p] = [s \in Sessions |-> [ses[p][s] EXCEPT !.running = None]]]
    /\ wire' = [wire EXCEPT ![p] = NoLines]
    /\ child' = [child EXCEPT ![p] = NewChild]
Lose(p, f, reaps) ==
    /\ conn' = [conn EXCEPT ![p] = [st |-> "none", gen |-> @.gen + 1, reaper |-> reaps,
                                      slow |-> FALSE]]
    /\ turn' = Orphaned(p, f)
    /\ stale' = [stale EXCEPT ![p] = @ \cup UNION
         {StaleAfter(p, t, IF f[t].abort THEN "interrupted" ELSE "failed") :
            t \in RunningIn(p)}]
    /\ ses' = [ses EXCEPT ![p] = [s \in Sessions |-> [ses[p][s] EXCEPT !.running = None]]]
    /\ wire' = [wire EXCEPT ![p] = NoLines]
    /\ child' = [child EXCEPT ![p] = NewChild]

KeepPair == UNCHANGED <<ses, conn, stale, wire, child>>

(* retirePair: connection, manager and setup are forgotten at once; disposal *)
(* stops the reaper and ends the child. r is the rest of the runtime.        *)
RetirePair(f, r) ==
    /\ rt' = [r EXCEPT !.cur = 0, !.setup = 0, !.changed = FALSE]
    /\ IF rt.cur # 0 /\ conn[rt.cur].st # "none"
         THEN Lose(rt.cur, f, FALSE)
         ELSE /\ turn' = f
              /\ conn' = IF rt.cur = 0 THEN conn
                           ELSE [conn EXCEPT ![rt.cur].reaper = FALSE]
              /\ UNCHANGED <<ses, stale, wire, child>>

(* startRun, up to the await of ensureSetup.                                 *)
StartRun(t) ==
    /\ Quiet /\ turn[t].ph = "new"
    /\ rt.setup # 0 \/ rt.last < MaxPairs
    /\ LET p == IF rt.setup # 0 THEN rt.setup ELSE rt.last + 1
       IN /\ rt' = [rt EXCEPT !.setup = p, !.last = IF p > @ THEN p ELSE @,
                              !.runs[SessionOf[t]] = t, !.waits = Append(@, t)]
          /\ turn' = [turn EXCEPT ![t].ph = "setup", ![t].pair = p]
    /\ KeepPair /\ UNCHANGED faults

(* createPair resolves, whatever became of this.setup meanwhile, or rejects. *)
CreatePair(p) ==
    /\ Quiet /\ p <= rt.last /\ p \notin rt.made \cup rt.failed
    /\ \/ rt' = [rt EXCEPT !.made = @ \cup {p}, !.cur = p] /\ UNCHANGED faults
       \/ /\ rt' = [rt EXCEPT !.failed = @ \cup {p}, !.setup = IF @ = p THEN 0 ELSE @]
          /\ Fault
    /\ KeepPair /\ UNCHANGED turn

(* run after ensureSetup: the turn goes to the manager that is current now,  *)
(* into the queue of its session, which is adopted if it is resumed.         *)
EnterManager(t) ==
    /\ EnterDue(t)
    /\ LET p == rt.cur
           s == SessionOf[t]
           o == ses[p][s]
           q == Append(o.queue, t)
       IN IF turn[t].pair \in rt.failed \/ p = 0
            THEN /\ turn' = [turn EXCEPT ![t].ph = "open", ![t].out = "failed", ![t].by = t]
                 /\ UNCHANGED ses
            ELSE /\ turn' = [turn EXCEPT ![t].ph = "queued", ![t].pair = p]
                 /\ ses' = [ses EXCEPT ![p][s] =
                      IF s \in Resumed /\ ~o.owned
                        THEN [o EXCEPT !.owned = TRUE, !.thread = TRUE,
                                       !.gen = conn[p].gen - 1, !.queue = q]
                        ELSE [o EXCEPT !.owned = TRUE, !.queue = q]]
    /\ \E i \in DOMAIN rt.waits :
         rt.waits[i] = t /\ rt' = [rt EXCEPT !.waits = RemoveAt(@, i)]
    /\ UNCHANGED <<conn, stale, wire, child, faults>>

(* The run's completion: its entry goes, and a changed runtime retires the   *)
(* pair with the last run. It is some promises further away from the turn    *)
(* than the reaction to a response is from its request.                      *)
CompleteRun(t) ==
    /\ SettleDue(t) /\ \A u \in Turns : ~BeginDue(u) /\ ~DriveDue(u)
    /\ LET f == [turn EXCEPT ![t].gone = TRUE, ![t].by = None]
           r == IF rt.runs[SessionOf[t]] = t
                  THEN [rt EXCEPT !.runs[SessionOf[t]] = None] ELSE rt
       IN IF rt.changed /\ \A s \in Sessions : r.runs[s] = None
            THEN RetirePair(f, r)
            ELSE turn' = f /\ rt' = r /\ KeepPair
    /\ UNCHANGED faults

(* The node kills its run: an abort follows an existing setup only.          *)
Kill(t) ==
    /\ Quiet /\ t \in KillTargets /\ turn[t].ph # "new" /\ turn[t].killed = 0 /\ ~turn[t].gone
    /\ turn' = [turn EXCEPT ![t].killed = IF rt.setup = 0 THEN -1 ELSE rt.setup]
    /\ KeepPair /\ UNCHANGED <<faults, rt>>

(* setup.then: abort on the manager that is current now, which gets a        *)
(* session of that key if it has none. None in a queue is an abort.          *)
AbortAfterSetup(t) ==
    /\ KillDue(t)
    /\ turn' = [turn EXCEPT ![t].killed = -1]
    /\ ses' = IF rt.cur = 0 \/ turn[t].killed \in rt.failed THEN ses
                ELSE [ses EXCEPT ![rt.cur][SessionOf[t]].owned = TRUE,
                                 ![rt.cur][SessionOf[t]].queue = Append(@, None)]
    /\ UNCHANGED <<conn, stale, wire, child, faults, rt>>

(* The managed runtime changed: an idle runtime drops its pair, a busy one   *)
(* recycles the child if that is idle (recycleIfIdle).                       *)
RuntimeChanged ==
    /\ Quiet /\ ~rt.changed /\ rt.last # 0
    /\ IF \A s \in Sessions : rt.runs[s] = None
         THEN RetirePair(turn, rt)
         ELSE /\ rt' = [rt EXCEPT !.changed = TRUE]
              /\ IF rt.cur # 0 /\ conn[rt.cur].st # "none" /\ ~BusyPair(rt.cur)
                   THEN Lose(rt.cur, turn, conn[rt.cur].reaper)
                   ELSE UNCHANGED turn /\ KeepPair
    /\ Fault

(* recycleForAccountChange and dispose.                                      *)
AccountChanged ==
    /\ Quiet /\ (rt.cur # 0 \/ rt.setup # 0)
    /\ rt.setup \in {0, rt.cur} \/ EarlyRetire
    /\ RetirePair(turn, rt) /\ Fault

-----------------------------------------------------------------------------
(* The queue of a session.                                                   *)

(* beginTurn up to its first request (ensureThread): a thread is started, or *)
(* resumed if it was left in an earlier child; otherwise the turn starts.    *)
BeginTurn(p, t, state) ==
    LET s == SessionOf[t]
        load == ~state.thread \/ state.gen # conn[p].gen
    IN /\ ses' = [ses EXCEPT ![p][s] = [state EXCEPT !.running = t]]
       /\ Issue(p, [turn EXCEPT ![t].ph = IF load THEN "load" ELSE "start"], t, "rq",
                IF load THEN LoadLine(t) ELSE StartLine(t))

(* The head of the queue starts: an abort without a running turn is over at  *)
(* once, a begin starts the turn; both interrupt a running turn first.       *)
HeadStarts(p, s) ==
    /\ HeadDue(p, s)
    /\ LET q == ses[p][s]
           r == q.running
           next == [q EXCEPT !.queue = Tail(@)]
       IN \/ /\ r # None
             /\ ses' = [ses EXCEPT ![p][s].block = r,
                                   ![p][s].drives = (turn[r].drv = "none")]
             /\ turn' = Interrupted(turn, r)
             /\ UNCHANGED <<conn, wire, child, faults>>
          \/ /\ r = None /\ Head(q.queue) = None
             /\ ses' = [ses EXCEPT ![p][s] = next]
             /\ UNCHANGED <<turn, conn, wire, child, faults>>
          \/ /\ r = None /\ Head(q.queue) # None
             /\ BeginTurn(p, Head(q.queue), next)
    /\ UNCHANGED <<stale, rt>>

(* interrupt() returned to the queue: the turn it waited for has finished.   *)
HeadResumes(p, s) ==
    /\ Quiet
    /\ LET q == ses[p][s]
           next == [q EXCEPT !.queue = Tail(@), !.block = None, !.drives = FALSE]
       IN /\ q.block # None /\ turn[q.block].out # "none"
          /\ q.drives => turn[q.block].drv = "none"
          /\ IF Head(q.queue) = None
               THEN /\ ses' = [ses EXCEPT ![p][s] = next]
                    /\ UNCHANGED <<turn, conn, wire, child, faults>>
               ELSE BeginTurn(p, Head(q.queue), next)
    /\ UNCHANGED <<stale, rt>>

(* finish(sessionKey, state, ...) in the session of t.                       *)
FinishRunning(p, t, out, who) ==
    LET r == ses[p][SessionOf[t]].running
    IN IF r = None THEN UNCHANGED <<ses, stale>>
         ELSE /\ stale' = [stale EXCEPT ![p] = StaleAfter(p, r, out)]
              /\ ses' = [ses EXCEPT ![p][SessionOf[t]].running = None]

(* beginTurn goes on after a request. A request that fails finishes the turn *)
(* that runs in the session, and an answer to turn/start after an abort      *)
(* interrupts it: both mean state.running, which need not be t any more.     *)
BeginContinues(t) ==
    /\ BeginDue(t)
    /\ LET p == turn[t].pair
           s == SessionOf[t]
           r == ses[p][s].running
           a == turn[t].rq
           ph == turn[t].ph
           f == [turn EXCEPT ![t].rq = "none"]
       IN \/ /\ a = "ok" /\ ph \in {"load", "reload"}
             /\ ses' = [ses EXCEPT ![p][s].thread = TRUE, ![p][s].gen = conn[p].gen]
             /\ Issue(p, [f EXCEPT ![t].ph = IF ph = "load" THEN "start" ELSE "restart"],
                      t, "rq", StartLine(t))
             /\ UNCHANGED stale
          \/ /\ a = "ok" /\ ph \in {"start", "restart"}
             /\ LET g == [f EXCEPT ![t].ph = "open", ![t].pid = TRUE]
                IN turn' = IF turn[t].abort /\ r # None THEN Interrupted(g, r) ELSE g
             /\ UNCHANGED <<ses, stale, conn, wire, child, faults>>
          \/ /\ a = "missing" /\ ph = "start"
             /\ Issue(p, [f EXCEPT ![t].ph = "reload"], t, "rq", LoadLine(t))
             /\ UNCHANGED <<ses, stale>>
          \/ /\ a = "error" \/ (a = "missing" /\ ph # "start")
             /\ LET g == [f EXCEPT ![t].ph = "open"]
                IN turn' = IF r # None THEN Settle(g, r, "failed", t) ELSE g
             /\ FinishRunning(p, t, "failed", t)
             /\ UNCHANGED <<conn, wire, child, faults>>
    /\ UNCHANGED rt

-----------------------------------------------------------------------------
(* The interrupt driver of turn t.                                           *)
WireId(t) == IF turn[t].lid # None THEN turn[t].lid ELSE t
LazyLeave(f, t) == [f EXCEPT ![t].drv = "none", ![t].dq = "none", ![t].tries = 0]
Leave(f, t) == [f EXCEPT ![t].drv = "none", ![t].dq = "none", ![t].tries = 0,
                         ![t].settle = (f[t].out = "none")]

(* The wait for liveId ends, because it is known, the turn has finished or   *)
(* the deadline has passed: turn/interrupt is sent if there is an id.        *)
DriverAsks(t) ==
    /\ Quiet /\ turn[t].drv \in {"live", "again"}
    /\ \/ turn[t].drv = "again" \/ turn[t].lid # None \/ turn[t].out # "none"
       \/ conn[turn[t].pair].slow
    /\ IF turn[t].out = "none" /\ ses[turn[t].pair][SessionOf[t]].thread
          /\ (turn[t].lid # None \/ turn[t].pid) /\ turn[t].tries < MaxTries
         THEN Issue(turn[t].pair,
                    [turn EXCEPT ![t].drv = "ask", ![t].tries = @ + 1], t, "dq",
                    Line(t, "interrupt", WireId(t)))
         ELSE turn' = Leave(turn, t) /\ UNCHANGED <<conn, wire, child, faults>>
    /\ UNCHANGED <<ses, stale, rt>>

(* The answer: done; another turn was found active, which is asked for once; *)
(* no turn is active yet, which is tried again; or any other error.          *)
DriverContinues(t) ==
    /\ DriveDue(t)
    /\ LET f == [turn EXCEPT ![t].dq = "none"]
       IN \/ /\ turn[t].dq \in {"ok", "error"}
             /\ turn' = Leave(f, t) /\ UNCHANGED <<conn, wire, child, faults>>
          \/ /\ turn[t].dq \in Turns
             /\ IF turn[t].tries = 1 /\ turn[t].out = "none"
                  THEN Issue(turn[t].pair,
                             [f EXCEPT ![t].lid = turn[t].dq, ![t].tries = 2],
                             t, "dq", Line(t, "interrupt", turn[t].dq))
                  ELSE turn' = Leave(f, t) /\ UNCHANGED <<conn, wire, child, faults>>
          \/ /\ turn[t].dq = "idle"
             /\ turn' = [f EXCEPT ![t].drv = "again"]
             /\ UNCHANGED <<conn, wire, child, faults>>
    /\ UNCHANGED <<ses, stale, rt>>

(* The settle wait of an interrupt() ends with the turn still running.       *)
GiveUp(t) ==
    /\ Quiet /\ turn[t].settle /\ turn[t].out = "none"
    /\ turn[t].drv = "none" \/ conn[turn[t].pair].slow
    /\ LET p == turn[t].pair
       IN /\ turn' = Settle(turn, t, "interrupted", t)
          /\ stale' = [stale EXCEPT ![p] = StaleAfter(p, t, "interrupted")]
          /\ ses' = [ses EXCEPT ![p][SessionOf[t]].running = None]
    /\ UNCHANGED <<conn, wire, child, faults, rt>>

-----------------------------------------------------------------------------
(* The connection of pair p, and the app-server (external) behind it.        *)

(* The handshake is answered: what waited for it is written.                 *)
Handshake(p) ==
    /\ Quiet /\ conn[p].st = "starting"
    /\ conn' = [conn EXCEPT ![p].st = "ready"]
    /\ turn' = [t \in Turns |->
         IF turn[t].pair # p THEN turn[t]
           ELSE [turn[t] EXCEPT !.rq = IF @ = "joined" THEN "sent" ELSE @,
                                !.dq = IF @ = "joined" THEN "sent" ELSE @]]
    /\ wire' = [wire EXCEPT ![p].in = @ \cup JoinedLines(p)]
    /\ UNCHANGED <<ses, stale, child, faults, rt>>

(* The child ends, or the handshake fails or times out.                      *)
ChildLost(p) ==
    /\ Quiet /\ conn[p].st # "none" /\ Fault
    /\ Lose(p, turn, conn[p].reaper) /\ UNCHANGED rt

(* The app-server becomes slow: from now on any timer that waits for it may   *)
(* fire first. It may still answer, later.                                   *)
SlowDown(p) ==
    /\ Quiet /\ conn[p].st = "ready" /\ ~conn[p].slow /\ Fault
    /\ conn' = [conn EXCEPT ![p].slow = TRUE]
    /\ UNCHANGED <<turn, ses, stale, wire, child, rt>>

(* reaperTick finds the child idle for long enough.                          *)
Reap(p) ==
    /\ Quiet /\ conn[p].st # "none" /\ conn[p].reaper /\ ~BusyPair(p)
    /\ Lose(p, turn, TRUE) /\ UNCHANGED <<faults, rt>>

(* The timer of a request: nobody waits for its answer any more.             *)
TimeOut(t, field) ==
    LET p       == turn[t].pair
        out     == wire[p].out
        mine(m) == m.for = t /\ ((m.what = "interrupt") <=> (field = "dq"))
        replies == {i \in DOMAIN out : out[i].kind = "reply" /\ mine(out[i])}
    IN
    /\ Quiet /\ turn[t][field] = "sent" /\ conn[p].slow
    /\ wire' = [wire EXCEPT
         ![p].in = {IF mine(m) THEN [m EXCEPT !.open = FALSE] ELSE m : m \in @},
         ![p].out = IF replies = {} THEN out
                      ELSE RemoveAt(out, CHOOSE i \in replies : TRUE)]
    /\ turn' = [turn EXCEPT ![t][field] = "error"]
    /\ UNCHANGED <<ses, conn, stale, child, faults, rt>>

Reply(m, a) == IF m.open
                 THEN <<[kind |-> "reply", for |-> m.for, what |-> m.what, answer |-> a]>>
                 ELSE <<>>
Event(kind, x) == <<[kind |-> kind, for |-> x, what |-> "event", answer |-> "none"]>>

(* The app-server handles a request: threads are loaded, a turn starts when  *)
(* its thread is loaded and free, and an interrupt names the active turn.    *)
Serve(p, m) ==
    LET s == SessionOf[m.for]
        c == child[p][s]
        After(state, lines) ==
            /\ child' = [child EXCEPT ![p][s] = state]
            /\ wire' = [wire EXCEPT ![p].in = @ \ {m}, ![p].out = @ \o lines]
    IN /\ Quiet /\ m \in wire[p].in
       /\ \/ After(c, Reply(m, "error")) /\ Fault
          \/ UNCHANGED faults /\ m.what = "load" /\ After([c EXCEPT !.loaded = TRUE], Reply(m, "ok"))
          \/ /\ m.what = "turn" /\ ~c.loaded /\ UNCHANGED faults
             /\ After(c, Reply(m, "missing"))
          \/ /\ m.what = "turn" /\ c.loaded /\ c.active # None /\ UNCHANGED faults
             /\ After(c, Reply(m, "error"))
          \/ /\ UNCHANGED faults /\ m.what = "turn" /\ c.loaded /\ c.active = None
             /\ After([c EXCEPT !.active = m.for],
                      Reply(m, "ok") \o Event("started", m.for))
          \/ /\ UNCHANGED faults /\ m.what = "interrupt" /\ c.active = m.on
             /\ After([c EXCEPT !.active = None],
                      Reply(m, "ok") \o Event("interrupted", m.on))
          \/ /\ UNCHANGED faults /\ m.what = "interrupt" /\ c.active = None
             /\ After(c, Reply(m, "idle"))
          \/ /\ UNCHANGED faults /\ m.what = "interrupt" /\ c.active \notin {None, m.on}
             /\ After(c, Reply(m, c.active))
       /\ UNCHANGED <<turn, ses, conn, stale, rt>>

(* The active turn of a thread ends by itself.                               *)
ServeEnd(p, s, kind) ==
    /\ Quiet /\ conn[p].st = "ready" /\ child[p][s].active # None
    /\ child' = [child EXCEPT ![p][s].active = None]
    /\ wire' = [wire EXCEPT ![p].out = @ \o Event(kind, child[p][s].active)]
    /\ UNCHANGED <<turn, ses, conn, stale, faults, rt>>

(* Whether handleNotification takes an end of the wire turn x for the end of *)
(* the running turn r: any id does while r has none of its own.              *)
IsEndOf(x, r, kind) ==
    \/ kind = "broken"
    \/ x \in {turn[r].lid} \cup (IF turn[r].pid THEN {r} ELSE {})
    \/ turn[r].lid = None /\ ~turn[r].pid

(* dispatchLine: a response settles its request; a notification of a stale   *)
(* turn is dropped; others go to the turn that runs in their session, as a   *)
(* name for it (turn/started) or as its end.                                 *)
Deliver(p) ==
    /\ wire[p].out # <<>> /\ (Quiet \/ rt.chunk = p)
    /\ \E more \in {0} \cup (IF Len(wire[p].out) > 1 THEN {p} ELSE {}) :
         rt' = [rt EXCEPT !.chunk = more]
    /\ LET l == Head(wire[p].out)
           x == l.for
           s == SessionOf[x]
           r == ses[p][s].running
           ignored == x \in stale[p] \/ r = None
           out == IF l.kind = "broken" THEN "failed" ELSE l.kind
       IN /\ wire' = [wire EXCEPT ![p].out = Tail(@)]
          /\ \/ /\ l.kind = "reply"
                /\ turn' = [turn EXCEPT
                     ![x][IF l.what = "interrupt" THEN "dq" ELSE "rq"] = l.answer]
                /\ UNCHANGED <<ses, stale>>
             \/ /\ l.kind # "reply"
                /\ ~ignored => l.kind # "started" /\ ~IsEndOf(x, r, l.kind)
                /\ UNCHANGED <<turn, ses, stale>>
             \/ /\ l.kind = "started" /\ ~ignored
                /\ LET f == [turn EXCEPT ![r].lid = x]
                   IN turn' = IF turn[r].abort THEN Interrupted(f, r) ELSE f
                /\ UNCHANGED <<ses, stale>>
             \/ /\ l.kind \notin {"reply", "started"} /\ ~ignored
                /\ IsEndOf(x, r, l.kind)
                /\ turn' = Settle(turn, r, out, x)
                /\ FinishRunning(p, r, out, x)
    /\ UNCHANGED <<conn, child, faults>>

-----------------------------------------------------------------------------
Ends == {"completed", "broken"}

Reactions ==
    /\ rt.chunk = 0
    /\ \/ \E t \in Turns :
            \/ EnterManager(t) \/ CompleteRun(t) \/ AbortAfterSetup(t)
            \/ BeginContinues(t) \/ DriverContinues(t)
       \/ \E p \in Pairs, s \in Sessions : HeadStarts(p, s)
Timers ==
    \/ \E t \in Turns : DriverAsks(t) \/ GiveUp(t)
    \/ \E t \in Turns, f \in {"rq", "dq"} : TimeOut(t, f)
    \/ \E p \in Pairs, s \in Sessions : HeadResumes(p, s)
    \/ \E p \in Pairs : Reap(p)
AppServer ==
    \E p \in Pairs :
        \/ Handshake(p) \/ ChildLost(p) \/ SlowDown(p) \/ Deliver(p)
        \/ \E m \in wire[p].in : Serve(p, m)
        \/ \E s \in Sessions, k \in Ends : ServeEnd(p, s, k)
Runtime ==
    \/ \E t \in Turns : StartRun(t) \/ Kill(t)
    \/ \E p \in Pairs : CreatePair(p)
    \/ RuntimeChanged \/ AccountChanged

CodexNext == Reactions \/ Timers \/ AppServer \/ Runtime

CodexSpec == CodexInit /\ [][CodexNext]_vars

(* Promise reactions run, timers fire, lines that were written are read,     *)
(* createPair ends (its probes have timeouts) and so does the handshake. A   *)
(* request is answered or times out; the app-server owes nothing else, and   *)
(* no turn ever has to end by itself.                                        *)
CodexFairness ==
    /\ WF_vars(Reactions)
    /\ \A t \in Turns : WF_vars(DriverAsks(t)) /\ WF_vars(GiveUp(t))
    /\ \A p \in Pairs :
         /\ WF_vars(CreatePair(p)) /\ WF_vars(Handshake(p)) /\ WF_vars(Deliver(p))
         /\ WF_vars((\E m \in wire[p].in : Serve(p, m))
                     \/ (\E t \in Turns, f \in {"rq", "dq"} :
                            turn[t].pair = p /\ TimeOut(t, f)))
         /\ \A s \in Sessions : WF_vars(HeadResumes(p, s))

-----------------------------------------------------------------------------
(* A thread that counts as loaded is loaded in the child of its connection,  *)
(* whatever was lost, recycled or retired while it was started or resumed    *)
(* (generation, noteConnectionLost, recoverThread). Every variable has its   *)
(* type.                                                                     *)
ThreadLoaded ==
    /\ CodexTypeOK
    /\ \A p \in Pairs, s \in Sessions :
          ses[p][s].thread /\ ses[p][s].gen = conn[p].gen /\ conn[p].st = "ready"
            => child[p][s].loaded

(* A session whose key names a vendor thread never runs on another one: no   *)
(* abort makes a manager own it before its run adopts the thread (run, kill).*)
(* There is one way past that: the kill of a turn that was left on another,  *)
(* retired pair while the next pair was being set up (kill chains on         *)
(* this.setup, whichever pair its turn is on).                               *)
ResumedKeepsThread ==
    \A p \in Pairs, s \in Resumed :
      ses[p][s].owned =>
        \/ ses[p][s].thread
        \/ \E t \in Turns : SessionOf[t] = s /\ turn[t].killed = -1 /\ turn[t].pair # p

(* As long as the app-server of its connection answers before the timers, a  *)
(* turn is settled by its own messages, requests and calls only, however     *)
(* late the end of the turn it replaced is read (finish, rememberStale).     *)
OwnEnd ==
    [][\A t \in Turns : turn[t].out = "none" /\ turn'[t].out # "none"
         => turn'[t].by = t \/ conn[turn[t].pair].slow]_vars

(* "so a replacing turn can never orphan this one's promise or inherit its   *)
(* completion" (interrupt): no turn is settled by another one's.             *)
Inherit == \A t \in Turns : turn[t].by \in {t, None}

(* A killed turn whose pair is not retired ends, although the app-server may *)
(* never end a turn and may ignore an interrupt (kill, abort, interrupt).    *)
KilledTurnEnds ==
    \A t \in KillTargets : turn[t].killed > 0 /\ turn[t].killed = rt.setup
                        /\ turn[t].pair = rt.setup ~> turn[t].out # "none"

=============================================================================
