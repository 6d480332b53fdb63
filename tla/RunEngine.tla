----------------------------- MODULE RunEngine -----------------------------
(* The execution of one run: executeRun, runStage, executeNodes, the gate    *)
(* and the steer cycle, with the API calls that reach into a run while it    *)
(* executes (abort, steer, kill a node, retry a stage).                      *)
(*                                                                           *)
(* The execution is one coroutine; pc names the await it is suspended in,    *)
(* and an action is the code from there to the next await. An API call is    *)
(* one action as well: what precedes its first await, which is all it        *)
(* changes. runNode's coroutines are those of NodeRunner. The workers of     *)
(* executeNodes are not told apart: a node is picked when fewer than         *)
(* maxParallel are busy. Saving the snapshot is taken to succeed.            *)
EXTENDS NodeRunner, SequencesExt

CONSTANTS
    Team,         \* Team[s]: the node ids of workflow stage s, in order
    SteerAgent,   \* SteerAgent[k]: the node id of stage steer-k
    Orchestrator, \* the node id of the orchestrator
    OrchestratorEnabled,
    Gated,           \* stages with gate set
    RequireVerified, \* stages with requireVerified set
    MaxParallel,
    MaxRetries,      \* maxRetriesPerStage
    KillTargets,     \* bound: the nodes the user kills
    MaxAttempts      \* bound: the user reopens no stage beyond this attempt

MaxSteers == Len(SteerAgent)
Workflow  == DOMAIN Team
NodesOf(s) == IF s \in Workflow THEN Team[s] ELSE <<SteerAgent[s - Len(Team)]>>
Members(s) == ToSet(NodesOf(s))
SteerStage(k) == Len(Team) + k
NoStage == 0

ASSUME EngineAssumption ==
    /\ IsFiniteSet(Nodes)
    /\ Team \in Seq(Seq(Nodes) \ {<<>>}) /\ Team # <<>>
    /\ SteerAgent \in Seq(Nodes)
    /\ Orchestrator \in Nodes \ CheckedNodes
    /\ \A s \in 1..(Len(Team) + Len(SteerAgent)) : Orchestrator \notin Members(s)
    /\ \A s, t \in 1..(Len(Team) + Len(SteerAgent)) : s # t => Members(s) \cap Members(t) = {}
    /\ OrchestratorEnabled \in BOOLEAN
    /\ Gated \subseteq Workflow /\ RequireVerified \subseteq Workflow
    /\ MaxParallel \in Nat \ {0} /\ MaxRetries \in Nat /\ MaxAttempts \in Nat
    /\ KillTargets \subseteq Nodes

VARIABLES
    status,        \* run.status
    current,       \* run.currentStageId, NoStage when undefined
    steers,        \* run.steers
    gateDecisions, \* the stages of run.gateDecisions, in order
    pc,            \* where executeRun is suspended; idle: no execution
    pos,           \* executeRun's index
    cutStage,      \* steerInterruptedStages
    manualRetry,   \* control.pendingRetry is set
    gate,          \* evaluateGate: which execution, has its timer fired
    decision,      \* what the steer review decided, until it is applied
    lock           \* the run's mutex: the call that holds it

vars == <<status, current, steers, gateDecisions, node, pc, pos, cutStage,
          manualRetry, gate, decision, lock>>

Terminal == {"done", "failed", "aborted"}
Aborted  == status = "aborted"
Stopped  == status \in {"aborted", "failed"}   \* executionStopped

(* A decision of a gate or of a steer review: the nodes to retry, if any.    *)
Advance   == [action |-> "advance", ids |-> {}]
AbortRun  == [action |-> "abort", ids |-> {}]
Retry(S)  == [action |-> "retry", ids |-> S]
Decisions == {Advance, AbortRun} \cup {Retry(S) : S \in (SUBSET Nodes) \ {{}}}

Steer == [mode   : {"interrupt", "queue"},
          status : {"pending", "active", "reviewed", "superseded", "expired"},
          cut    : Nat]   \* interruptedStageId; NoStage: undefined or null

TypeOK ==
    /\ NodeTypeOK
    /\ status \in {"created", "running", "gating"} \cup Terminal
    /\ current \in 0..(Len(Team) + MaxSteers)
    /\ steers \in Seq(Steer) /\ Len(steers) <= MaxSteers
    /\ gateDecisions \in Seq(1..(Len(Team) + MaxSteers))
    /\ pc \in {"idle", "enter", "select", "again", "executing", "gatePersist",
               "gating", "boundary", "steers", "activate", "push", "review", "settle"}
    /\ pos \in Workflow
    /\ cutStage \in {NoStage} \cup Workflow
    /\ manualRetry \in BOOLEAN
    /\ gate \in [run : {"first", "fresh", "reask"}, timedOut : BOOLEAN]
    /\ decision \in Decisions
    /\ lock \in [by : {"none", "abort", "retry", "start"}, stage : {NoStage} \cup Workflow]

Free == [by |-> "none", stage |-> NoStage]

Init ==
    /\ status = "created"
    /\ current = NoStage
    /\ steers = <<>>
    /\ gateDecisions = <<>>
    /\ node = [n \in Nodes |->
         FreshNode(IF \/ \E s \in Workflow : n \in Members(s)
                      \/ n = Orchestrator /\ OrchestratorEnabled
                     THEN "queued" ELSE "absent")]
    /\ pc = "enter" /\ pos = 1
    /\ cutStage = NoStage
    /\ manualRetry = FALSE
    /\ gate = [run |-> "first", timedOut |-> FALSE]
    /\ decision = Advance
    /\ lock = Free

-----------------------------------------------------------------------------
PendingInterrupt ==   \* hasPendingInterruptSteer
    \E k \in DOMAIN steers : steers[k].status = "pending" /\ steers[k].mode = "interrupt"

Evaluations(s) == Cardinality({i \in DOMAIN gateDecisions : gateDecisions[i] = s})

(* The steer being carried out, and the stage its review may redo: the one   *)
(* it interrupted, or the latest if what it interrupted was a steer.         *)
Steered == current - Len(Team)
RedoStage == IF steers[Steered].cut \in Workflow THEN steers[Steered].cut ELSE pos
RedoNodes == IF steers[Steered].cut = NoStage THEN {} ELSE Members(RedoStage)

VerifyFailed(s) == {n \in Members(s) : node[n].check = "failed"}
VerificationRetryRequired(s) ==
    /\ s \in RequireVerified
    /\ VerifyFailed(s) # {}
    /\ \A n \in Members(s) : node[n].check # "passed"

-----------------------------------------------------------------------------
(* runStage up to its first save.                                            *)
Enter ==
    /\ pc = "enter"
    /\ IF Aborted
         THEN pc' = "settle" /\ UNCHANGED <<current, status>>
         ELSE pc' = "select" /\ current' = pos /\ status' = "running"
    /\ UNCHANGED <<steers, gateDecisions, node, pos, cutStage, manualRetry, gate,
                   decision, lock>>

(* The head of runStage's loop, on the queued nodes of the stage or, after a *)
(* retry, on the nodes that were reset.                                      *)
Select ==
    LET over == \/ Aborted
                \/ pc = "select" /\ \A n \in Members(pos) : node[n].status # "queued"
    IN
    /\ pc \in {"select", "again"}
    /\ pc' = IF over \/ PendingInterrupt THEN "boundary" ELSE "executing"
    /\ cutStage' = IF ~over /\ PendingInterrupt THEN pos ELSE cutStage
    /\ UNCHANGED <<status, current, steers, gateDecisions, node, pos, manualRetry,
                   gate, decision, lock>>

-----------------------------------------------------------------------------
(* executeNodes. A node left to pick is one that is queued and not started:  *)
(* every other node has been passed by the cursor or was not selected.       *)
BusyNodes(s) == {n \in Members(s) : Busy(n)}
Left(s) == {i \in DOMAIN NodesOf(s) :
              node[NodesOf(s)[i]].status = "queued" /\ ~Busy(NodesOf(s)[i])}
KeepPicking == ~Aborted /\ ~PendingInterrupt

(* A worker takes the next node.                                             *)
Pick ==
    /\ pc = "executing" /\ KeepPicking
    /\ Cardinality(BusyNodes(current)) < MaxParallel
    /\ \E i \in Left(current) :
         /\ \A j \in Left(current) : i <= j
         /\ node' = [node EXCEPT ![NodesOf(current)[i]] = Started(@, FALSE)]
    /\ UNCHANGED <<status, current, steers, gateDecisions, pc, pos, cutStage,
                   manualRetry, gate, decision, lock>>

(* An aborted run does not wait for its workers.                             *)
HastyJoined == pc = "executing" /\ (Aborted \/ BusyNodes(current) = {})
               /\ (KeepPicking => Left(current) = {})

(* Every worker has returned.                                                *)
Joined == pc = "executing" /\ BusyNodes(current) = {}
          /\ (KeepPicking => Left(current) = {})

-----------------------------------------------------------------------------
(* runStage once the gate of stage pos has answered d, with budget b: a      *)
(* manual retry, requireVerified and the retry budget may overrule it.       *)
DecideWithin(d, b) ==
    LET attempt == Evaluations(pos) + 1
        asked   == IF manualRetry /\ attempt <= 1 + MaxRetries
                     THEN Retry(Members(pos)) ELSE d
        checked == IF asked.action = "advance" /\ VerificationRetryRequired(pos)
                     THEN Retry(VerifyFailed(pos)) ELSE asked
        final   == IF checked.action = "retry" /\ attempt >= b THEN Advance ELSE checked
    IN
    /\ gateDecisions' = Append(gateDecisions, pos)
    /\ manualRetry' = FALSE
    /\ status' = IF final.action = "abort" THEN "aborted" ELSE "running"
    /\ node' = ResetForRetry(node, final.ids)
    /\ pc' = IF final.action = "retry" THEN "again" ELSE "boundary"
    /\ UNCHANGED <<current, steers, pos, cutStage, gate, decision, lock>>

(* One evaluation too many.                                                  *)
BadDecide(d) == DecideWithin(d, 2 + MaxRetries)

Decide(d) == DecideWithin(d, 1 + MaxRetries)

(* runStage after executeNodes. The stage was aborted or cut short, or all   *)
(* its nodes failed and nobody is there to judge, or it has no gate, or      *)
(* there is no orchestrator to ask, or the gate is next.                     *)
StageJoin ==
    LET cut    == /\ PendingInterrupt
                  /\ \E n \in Members(pos) : node[n].status \in {"queued", "killed"}
        failed == /\ \A n \in Members(pos) : node[n].status = "failed"
                  /\ ~OrchestratorEnabled
                  /\ ~VerificationRetryRequired(pos)
        leave(st, c) == /\ pc' = "boundary" /\ status' = st /\ cutStage' = c
                        /\ UNCHANGED <<current, steers, gateDecisions, node, pos,
                                       manualRetry, gate, decision, lock>>
    IN
    /\ current = pos /\ Joined
    /\ \/ Aborted /\ leave(status, cutStage)
       \/ ~Aborted /\ cut /\ leave(status, pos)
       \/ ~Aborted /\ ~cut /\ failed /\ leave("failed", cutStage)
       \/ ~Aborted /\ ~cut /\ ~failed /\ pos \notin Gated /\ leave("running", cutStage)
       \/ ~Aborted /\ ~cut /\ ~failed /\ pos \in Gated /\ ~OrchestratorEnabled /\ Decide(Advance)
       \/ /\ ~Aborted /\ ~cut /\ pos \in Gated /\ OrchestratorEnabled
          /\ pc' = "gatePersist" /\ status' = "gating"
          /\ UNCHANGED <<current, steers, gateDecisions, node, pos, cutStage,
                         manualRetry, gate, decision, lock>>

-----------------------------------------------------------------------------
(* The steer cycle's review of the instruction that was carried out.         *)
Review(d) ==
    /\ gateDecisions' = Append(gateDecisions, current)
    /\ steers' = [steers EXCEPT ![Steered].status = "reviewed"]
    /\ status' = "running"
    /\ decision' = d
    /\ pc' = "review"
    /\ UNCHANGED <<current, node, pos, cutStage, manualRetry, gate, lock>>

(* evaluateGate has returned d. An abort that came meanwhile wins.           *)
Judged(d) ==
    IF Aborted
      THEN /\ pc' = "settle"
           /\ UNCHANGED <<status, current, steers, gateDecisions, node, pos, cutStage,
                          manualRetry, gate, decision, lock>>
      ELSE IF current \in Workflow THEN Decide(d) ELSE Review(d)

(* The second question is not marked as such.                                *)
BadAsk(run, attempt) ==
    /\ node' = [node EXCEPT ![Orchestrator] =
                  Started([@ EXCEPT !.status = "queued", !.attempt = attempt], Aborted)]
    /\ gate' = [run |-> "first", timedOut |-> FALSE]
    /\ pc' = "gating"
    /\ UNCHANGED <<status, current, steers, gateDecisions, pos, cutStage, manualRetry,
                   decision, lock>>

(* evaluateGate: execute() starts a run of the orchestrator's node.          *)
Ask(run, attempt) ==
    /\ node' = [node EXCEPT ![Orchestrator] =
                  Started([@ EXCEPT !.status = "queued", !.attempt = attempt], Aborted)]
    /\ gate' = [run |-> run, timedOut |-> FALSE]
    /\ pc' = "gating"
    /\ UNCHANGED <<status, current, steers, gateDecisions, pos, cutStage, manualRetry,
                   decision, lock>>

StartGate == pc = "gatePersist" /\ Ask("first", Len(gateDecisions) + 1)

(* The deadline of the gate. An orchestrator that is not live is not killed, *)
(* and evaluateGate waits for it all the same.                               *)
GateTimer ==
    /\ pc = "gating" /\ Busy(Orchestrator) /\ ~gate.timedOut
    /\ gate' = [gate EXCEPT !.timedOut = TRUE]
    /\ node' = KillLive(node, {Orchestrator}, "gate-timeout")
    /\ UNCHANGED <<status, current, steers, gateDecisions, pc, pos, cutStage,
                   manualRetry, decision, lock>>

(* The orchestrator's node has come to rest. A gate that was interrupted or  *)
(* is out of time advances, and so does one whose answer stays unreadable; a *)
(* resumed session that failed is replaced by a fresh one, and an unreadable *)
(* answer is asked for again. A retry names nodes of the stage, or of the    *)
(* stage the steer interrupted.                                              *)
GateAnswer ==
    LET valid   == IF current \in Workflow THEN Members(current) ELSE RedoNodes
        nd      == node[Orchestrator]
        silent  == gate.timedOut \/ nd.status = "killed"
    IN
    /\ pc = "gating" /\ ~Busy(Orchestrator)
    /\ \/ Judged(Advance)
       \/ ~silent /\ Judged(AbortRun)
       \/ ~silent /\ \E S \in (SUBSET valid) \ {{}} : Judged(Retry(S))
       \/ ~silent /\ gate.run = "first" /\ nd.status = "failed" /\ Ask("fresh", nd.attempt)
       \/ ~silent /\ gate.run # "reask" /\ Ask("reask", nd.attempt)

-----------------------------------------------------------------------------
(* executeRun between two stages: stopped, the next pending steer, the next  *)
(* stage, or the end. Only the return from a stage looks for an abort before *)
(* a steer is taken; after a steer it is looked for later.                   *)
Pending == {k \in DOMAIN steers : steers[k].status = "pending"}

BetweenUpTo(last) ==
    LET stop == Stopped /\ (pc = "boundary" \/ Pending = {})
        go(next, index, st, stage) ==
          /\ pc' = next /\ pos' = index /\ status' = st /\ current' = stage
          /\ UNCHANGED <<steers, gateDecisions, node, cutStage, manualRetry, gate,
                         decision, lock>>
    IN
    /\ pc \in {"boundary", "steers"}
    /\ \/ stop /\ go("settle", pos, status, current)
       \/ ~stop /\ Pending # {} /\ go("activate", pos, status, current)
       \/ ~stop /\ Pending = {} /\ pos < last /\ go("enter", pos + 1, status, current)
       \/ ~stop /\ Pending = {} /\ pos >= last /\ go("settle", pos, "done", pos)

Between == BetweenUpTo(Len(Team))

(* The stage that was cut short is not handed to the steer.                  *)
BadActivate ==
    /\ pc = "activate"
    /\ \E k \in Pending :
         /\ \A j \in Pending : k <= j
         /\ steers' = [steers EXCEPT ![k].status = "active"]
         /\ current' = SteerStage(k)
    /\ cutStage' = NoStage
    /\ pc' = "push"
    /\ UNCHANGED <<status, gateDecisions, node, pos, manualRetry, gate, decision, lock>>

(* The newest message is served first.                                       *)
LifoActivate ==
    /\ pc = "activate"
    /\ \E k \in Pending :
         /\ \A j \in Pending : k >= j
         /\ steers' = [steers EXCEPT ![k].status = "active",
                         ![k].cut = IF @ = NoStage THEN cutStage ELSE @]
         /\ current' = SteerStage(k)
    /\ cutStage' = NoStage
    /\ pc' = "push"
    /\ UNCHANGED <<status, gateDecisions, node, pos, manualRetry, gate, decision, lock>>

(* runSteerCycle: the steer is active, and takes the stage that was cut      *)
(* short if nothing was killed for it.                                       *)
Activate ==
    /\ pc = "activate"
    /\ \E k \in Pending :
         /\ \A j \in Pending : k <= j
         /\ steers' = [steers EXCEPT ![k].status = "active",
                         ![k].cut = IF @ = NoStage THEN cutStage ELSE @]
         /\ current' = SteerStage(k)
    /\ cutStage' = NoStage
    /\ pc' = "push"
    /\ UNCHANGED <<status, gateDecisions, node, pos, manualRetry, gate, decision, lock>>

(* Its node joins the run and is executed.                                   *)
Push ==
    /\ pc = "push"
    /\ node' = [node EXCEPT ![SteerAgent[Steered]] = FreshNode("queued")]
    /\ pc' = "executing"
    /\ UNCHANGED <<status, current, steers, gateDecisions, pos, cutStage, manualRetry,
                   gate, decision, lock>>

(* runSteerCycle after executeNodes: aborted, superseded, or up for review.  *)
SteerJoin ==
    LET agent == SteerAgent[Steered]
        gone  == node[agent].status \in {"queued", "killed"}
    IN
    /\ current \notin Workflow /\ Joined
    /\ \/ /\ Aborted
          /\ pc' = "settle"
          /\ UNCHANGED <<status, current, steers, gateDecisions, node, pos, cutStage,
                         manualRetry, gate, decision, lock>>
       \/ /\ ~Aborted /\ gone
          /\ node' = MarkKilled(node, {agent})
          /\ steers' = [steers EXCEPT ![Steered].status = "superseded"]
          /\ pc' = "steers"
          /\ UNCHANGED <<status, current, gateDecisions, pos, cutStage, manualRetry,
                         gate, decision, lock>>
       \/ /\ ~Aborted /\ ~gone /\ OrchestratorEnabled
          /\ pc' = "gatePersist" /\ status' = "gating"
          /\ UNCHANGED <<current, steers, gateDecisions, node, pos, cutStage,
                         manualRetry, gate, decision, lock>>
       \/ /\ ~Aborted /\ ~gone /\ ~OrchestratorEnabled
          /\ Review(IF RedoNodes = {} THEN Advance ELSE Retry(RedoNodes))

(* The review is saved; what it decided follows.                             *)
ApplyReview ==
    /\ pc = "review"
    /\ decision' = Advance
    /\ \/ /\ decision.action = "abort"
          /\ status' = "aborted"
          /\ node' = KillLive(MarkKilled(node, Nodes), Nodes, "abort")
          /\ pc' = "settle"
       \/ /\ decision.action = "retry"
          /\ node' = ResetForRetry(node,
                       {n \in RedoNodes \cap decision.ids : node[n].status # "queued"})
          /\ pc' = "enter" /\ UNCHANGED status
       \/ /\ decision.action = "advance"
          /\ pc' = "steers" /\ UNCHANGED <<status, node>>
    /\ UNCHANGED <<current, steers, gateDecisions, pos, cutStage, manualRetry, gate, lock>>

(* executeRun's finally block. An abort was waiting for this.                *)
Settle ==
    /\ pc = "settle"
    /\ steers' = [k \in DOMAIN steers |->
         IF steers[k].status \in {"pending", "active"}
           THEN [steers[k] EXCEPT !.status = "expired"] ELSE steers[k]]
    /\ cutStage' = NoStage
    /\ manualRetry' = FALSE
    /\ pc' = "idle"
    /\ lock' = IF lock.by = "abort" THEN Free ELSE lock
    /\ UNCHANGED <<status, current, gateDecisions, node, pos, gate, decision>>

-----------------------------------------------------------------------------
(* The API. Calls that change the run take its mutex, except a node's kill.  *)
Execution == <<pc, pos, cutStage, gate, decision>>

(* abortRun, which holds the mutex until the execution is over.              *)
Abort ==
    /\ lock = Free
    /\ status \notin Terminal
    /\ status' = "aborted"
    /\ node' = KillLive(MarkKilled(node, Nodes), Nodes, "abort")
    /\ lock' = [by |-> "abort", stage |-> NoStage]
    /\ UNCHANGED <<current, steers, gateDecisions, manualRetry, Execution>>

(* steerRun. An interrupt stops what is live, but not a gate.                *)
SteerRun(mode) ==
    LET strikes == mode = "interrupt" /\ status = "running"
        cut     == IF strikes /\ \E n \in Nodes : Live(n) THEN current ELSE NoStage
    IN
    /\ lock = Free
    /\ status \notin Terminal
    /\ Len(steers) < MaxSteers
    /\ steers' = Append(steers, [mode |-> mode, status |-> "pending", cut |-> cut])
    /\ node' = IF strikes THEN KillLive(node, Nodes, "steer") ELSE node
    /\ UNCHANGED <<status, current, gateDecisions, manualRetry, lock, Execution>>

(* killNode. While a retried run is being saved no execution owns the run    *)
(* and the call would work on a copy read from disk: that is left out.       *)
KillNode(n) ==
    /\ lock.by # "start"
    /\ \/ node[n].status = "queued" /\ node' = MarkKilled(node, {n})
       \/ Live(n) /\ node' = KillLive(node, {n}, "user")
    /\ UNCHANGED <<status, current, steers, gateDecisions, manualRetry, lock, Execution>>

(* The budget of a manual retry is checked against the evaluations allowed.  *)
BadRetryGate(s) ==
    /\ lock = Free
    /\ status = "gating" /\ current = s
    /\ Evaluations(s) <= MaxRetries
    /\ ~manualRetry
    /\ manualRetry' = TRUE
    /\ node' = KillLive(node, {Orchestrator}, "user-retry")
    /\ UNCHANGED <<status, current, steers, gateDecisions, lock, Execution>>

(* retryStage on the stage whose gate is open.                               *)
RetryGate(s) ==
    /\ lock = Free
    /\ status = "gating" /\ current = s
    /\ Evaluations(s) < MaxRetries
    /\ ~manualRetry
    /\ manualRetry' = TRUE
    /\ node' = KillLive(node, {Orchestrator}, "user-retry")
    /\ UNCHANGED <<status, current, steers, gateDecisions, lock, Execution>>

(* retryStage on a run that is over: it waits for the execution to settle.   *)
RetryStage(s) ==
    /\ lock = Free
    /\ status \in Terminal /\ current = s
    /\ \A n \in Members(s) : node[n].attempt < MaxAttempts
    /\ lock' = [by |-> "retry", stage |-> s]
    /\ UNCHANGED <<status, current, steers, gateDecisions, node, manualRetry, Execution>>

(* retryStage goes on: it resets stage s and reopens the run, if the gate's  *)
(* budget or that of attempts, here b, is not spent.                         *)
ReopenWithin(b) ==
    LET s     == lock.stage
        spent == IF s \in Gated /\ OrchestratorEnabled
                   THEN Evaluations(s) >= 1 + MaxRetries
                   ELSE \E n \in Members(s) : node[n].attempt - 1 >= b
        later == UNION {Members(t) : t \in {u \in Workflow : u > s}}
        again == ResetForRetry(node, Members(s))
    IN
    /\ lock.by = "retry" /\ pc = "idle"
    /\ IF spent
         THEN lock' = Free /\ UNCHANGED <<status, node>>
         ELSE /\ node' = [n \in Nodes |->
                    IF n \in later /\ again[n].status = "killed"
                      THEN [again[n] EXCEPT !.status = "queued"] ELSE again[n]]
              /\ status' = "running"
              /\ lock' = [lock EXCEPT !.by = "start"]
    /\ UNCHANGED <<current, steers, gateDecisions, manualRetry, Execution>>

Reopen == ReopenWithin(MaxRetries)

(* startExecution, once the run is saved.                                    *)
StartExecution ==
    /\ lock.by = "start"
    /\ pc' = "enter" /\ pos' = lock.stage
    /\ lock' = Free
    /\ UNCHANGED <<status, current, steers, gateDecisions, node, cutStage, manualRetry,
                   gate, decision>>

-----------------------------------------------------------------------------
(* The coroutines of runNode. The orchestrator's node has no steerPending.   *)
Others == <<status, current, steers, gateDecisions, pc, pos, cutStage, manualRetry,
            gate, decision, lock>>

NodePrepared(n) == Prepared(n, Aborted, n # Orchestrator /\ PendingInterrupt)
                   /\ UNCHANGED Others
NodeResolved(n) == Resolved(n) /\ UNCHANGED Others
NodeTimeout(n)  == HardTimeout(n) /\ UNCHANGED Others
NodeExit(n)     == (\E ok \in BOOLEAN : Exit(n, ok)) /\ UNCHANGED Others
NodeFinish(n)   == Finish(n) /\ UNCHANGED Others
NodeSaved(n)    == Saved(n) /\ UNCHANGED Others

Engine == Enter \/ Select \/ Pick \/ StageJoin \/ StartGate \/ GateAnswer \/ Between
          \/ Activate \/ Push \/ SteerJoin \/ ApplyReview \/ Settle
          \/ Reopen \/ StartExecution

Coroutine(n) == NodePrepared(n) \/ NodeResolved(n) \/ NodeExit(n) \/ NodeFinish(n)
                \/ NodeSaved(n)

User == \/ Abort
        \/ \E mode \in {"interrupt", "queue"} : SteerRun(mode)
        \/ \E n \in KillTargets : KillNode(n)
        \/ \E s \in Workflow : RetryGate(s) \/ RetryStage(s)

Timers == GateTimer \/ \E n \in Nodes : NodeTimeout(n)

Next == Engine \/ (\E n \in Nodes : Coroutine(n)) \/ Timers \/ User

Spec == Init /\ [][Next]_vars

(* Code that waits for nothing but its turn goes on, and a child process     *)
(* ends: it is killed when its hard limit is reached. Users and timers owe   *)
(* nothing.                                                                  *)
FairSpec == Spec /\ WF_vars(Engine) /\ \A n \in Nodes : WF_vars(Coroutine(n))

-----------------------------------------------------------------------------
(* At most maxParallel nodes of the run are busy, and the orchestrator works *)
(* alone: no candidate runs while it judges (executeNodes, evaluateGate).    *)
BoundedConcurrency ==
    LET busy == {n \in Nodes : Busy(n)} IN
    /\ Cardinality(busy) <= MaxParallel
    /\ Orchestrator \in busy => busy = {Orchestrator}

(* When the execution promise has settled, which abortRun and retryStage     *)
(* await, no node of the run is alive or being finished, and every steer     *)
(* message has met its end.                                                  *)
QuietWhenIdle ==
    pc = "idle" =>
      /\ \A n \in Nodes : ~Busy(n)
      /\ \A k \in DOMAIN steers : steers[k].status \notin {"pending", "active"}

(* A node is reset for another attempt only after the coroutine of its last  *)
(* attempt has ended: two attempts never share the NodeRun.                  *)
AttemptsApart ==
    [][\A n \in Nodes : node'[n].attempt # node[n].attempt => ~Busy(n)]_vars

(* The end of a run is final: only retryStage on a run that is over changes  *)
(* its status, though runStage and the steer cycle assign it after awaits    *)
(* during which the user may have aborted.                                   *)
TerminalIsFinal ==
    [][(status \in Terminal /\ status' # status) => lock.by = "retry" /\ pc = "idle"]_vars

(* SPEC.md, state machine: "gate evaluations per stage <= 1+maxRetries       *)
(* PerStage", whatever the orchestrator answers and the user retries.        *)
GateBudget == \A s \in Workflow : Evaluations(s) <= 1 + MaxRetries

(* A manual retry that a gate accepted is carried out: unless the run is     *)
(* aborted, every node of the stage gets a new attempt (retryStage checks a  *)
(* budget that runStage checks again, differently, when the gate is over).   *)
RetryHonoured ==
    [][manualRetry /\ ~manualRetry' =>
         \/ Aborted
         \/ \A n \in Members(pos) : /\ node'[n].status = "queued"
                                    /\ node'[n].attempt = node[n].attempt + 1]_vars

(* nodeRunner.ts: "A queued kill or run abort during that await must win     *)
(* before an adapter process can be created."                                *)
KillWins ==
    [][\A n \in Nodes : ~Live(n) /\ Live(n)' => ~Aborted /\ node[n].status = "queued"]_vars

(* stageRunner.ts, on the stage a steer cuts short: "runStage records the    *)
(* truth here and the steer cycle consumes it". Without an orchestrator an   *)
(* interrupted stage is redone, so that a run is done only when all its      *)
(* nodes ran to their end. (The user kills no node where this is checked.)   *)
NoStageLost ==
    status = "done" =>
      \A s \in Workflow : \A n \in Members(s) : node[n].status \in {"done", "failed"}

(* An execution comes to its end: no interleaving of steers, kills, aborts   *)
(* and timers leaves it waiting, so that abortRun and retryStage return.     *)
RunEnds == (pc # "idle") ~> (pc = "idle")

(* The engine implements the promise of RunLifecycle.                        *)
Lifecycle == INSTANCE RunLifecycle WITH
               steers <- [k \in DOMAIN steers |-> steers[k].status],
               quiet  <- pc = "idle" /\ status \in Terminal

ImplementsLifecycle == Lifecycle!Spec
=============================================================================
