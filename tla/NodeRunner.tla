----------------------------- MODULE NodeRunner -----------------------------
(* The life of one attempt of a node: runNode and the kill helpers beside    *)
(* it. A node is a candidate of a workflow stage, the agent of a steer or    *)
(* the orchestrator's gate. runNode is a coroutine: a step is the code       *)
(* between two of its awaits, and anything else may happen during an await.  *)
(* What runNode learns from its execution context by callback (getRunStatus, *)
(* steerPending) are parameters of its steps.                                *)
(*                                                                           *)
(* A silent node is shown as `stalled` until its next output; the engine     *)
(* treats it as running, and so does this model.                             *)
EXTENDS Naturals, FiniteSets

CONSTANTS Nodes,         \* the node ids of a run
          RuntimeNodes,  \* nodes whose adapter has a runtimeFamily
          CheckedNodes   \* nodes with a patch to capture and a verify command

ASSUME NodesAssumption ==
    /\ RuntimeNodes \subseteq Nodes
    /\ CheckedNodes \subseteq Nodes

VARIABLE node   \* node[n]: the NodeRun of n, with the coroutine's progress

KillReasons == {"user", "user-retry", "abort", "gate-timeout", "steer"}

NodeRun == [
    status  : {"absent", "queued", "running", "done", "failed", "killed"},
    attempt : Nat,
    phase   : {"rest", "prep", "resolve", "live", "finish", "save"},
              \* rest: no coroutine; prep: awaiting prepare and the spawn
              \* slot; resolve: awaiting resolveRuntimeBinary; live: in
              \* liveNodes, child running; finish: capture, verify, persist;
              \* save: the last persist of an attempt that had no child
    reason  : KillReasons \cup {"none", "timeout"},  \* live.killedReason
    timer   : BOOLEAN,                               \* hardTimer is armed
    check   : {"none", "passed", "failed"}           \* node.verification
]

NodeTypeOK == node \in [Nodes -> NodeRun]

FreshNode(status) ==
    [status |-> status, attempt |-> 1, phase |-> "rest",
     reason |-> "none", timer |-> FALSE, check |-> "none"]

Busy(n) == node[n].phase # "rest"
Live(n) == node[n].phase = "live"

-----------------------------------------------------------------------------
(* markNodeKilled on the queued nodes among S.                               *)
MarkKilled(f, S) ==
    [n \in Nodes |-> IF n \in S /\ f[n].status = "queued"
                       THEN [f[n] EXCEPT !.status = "killed"] ELSE f[n]]

(* killActiveNode / killAllActiveNodes: the live children among S get        *)
(* SIGTERM, and the reason of the latest kill is the one that is recorded.   *)
KillLive(f, S, why) ==
    [n \in Nodes |-> IF n \in S /\ f[n].phase = "live"
                       THEN [f[n] EXCEPT !.reason = why] ELSE f[n]]

(* resetNodeForRetry on the nodes S.                                         *)
ResetForRetry(f, S) ==
    [n \in Nodes |-> IF n \in S
                       THEN [f[n] EXCEPT !.attempt = @ + 1, !.status = "queued",
                                         !.check = "none"]
                       ELSE f[n]]

-----------------------------------------------------------------------------
(* runNode is called. A run that is already aborted never gets to prepare.   *)
Started(nd, aborted) ==
    IF aborted \/ nd.status = "killed"
      THEN [nd EXCEPT !.status = "killed", !.phase = "save"]
      ELSE [nd EXCEPT !.phase = "prep"]

(* adapter.spawn returned a child, or threw (so did a missing runtime).      *)
Spawned(nd) == [nd EXCEPT !.status = "running", !.phase = "live", !.timer = TRUE]
Failed(nd)  == [nd EXCEPT !.status = "failed", !.phase = "save"]

(* What happened to the node during prepare is not looked at.                *)
BadPrepared(n, aborted, interrupted) ==
    /\ node[n].phase = "prep"
    /\ \/ /\ interrupted
          /\ node' = [node EXCEPT ![n].status = "killed", ![n].phase = "save"]
       \/ node' = [node EXCEPT ![n] = Failed(@)]
       \/ /\ ~interrupted
          /\ node' = [node EXCEPT ![n] =
               IF n \in RuntimeNodes THEN [@ EXCEPT !.phase = "resolve"] ELSE Spawned(@)]

(* prepare and the spawn slot are over. A kill of the queued node or a run   *)
(* abort that came meanwhile wins, and so does a steer interrupt; otherwise  *)
(* the spawn follows, at once unless the runtime binary has to be found.     *)
Prepared(n, aborted, interrupted) ==
    LET skip == node[n].status = "killed" \/ aborted IN
    /\ node[n].phase = "prep"
    /\ \/ /\ skip \/ interrupted
          /\ node' = [node EXCEPT ![n].status = "killed", ![n].phase = "save"]
       \/ /\ ~skip
          /\ node' = [node EXCEPT ![n] = Failed(@)]
       \/ /\ ~skip /\ ~interrupted
          /\ node' = [node EXCEPT ![n] =
               IF n \in RuntimeNodes THEN [@ EXCEPT !.phase = "resolve"] ELSE Spawned(@)]

(* resolveRuntimeBinary answered: nothing is checked again before the spawn. *)
Resolved(n) ==
    /\ node[n].phase = "resolve"
    /\ \E nd \in {Spawned(node[n]), Failed(node[n])} : node' = [node EXCEPT ![n] = nd]

(* The hard limit of the attempt. It replaces the reason of an earlier kill. *)
HardTimeout(n) ==
    /\ Live(n)
    /\ node[n].timer
    /\ node' = [node EXCEPT ![n].reason = "timeout", ![n].timer = FALSE]

(* The child ended, with exit code 0 and no error if ok.                     *)
Exit(n, ok) ==
    LET why == node[n].reason
        end == IF why \in KillReasons THEN "killed"
               ELSE IF ok /\ why = "none" THEN "done" ELSE "failed"
    IN
    /\ Live(n)
    /\ node' = [node EXCEPT ![n].status = end, ![n].phase = "finish",
                            ![n].reason = "none", ![n].timer = FALSE]

(* finalize captures the patch and verifies that of an attempt that is done  *)
(* (one without changes has nothing to verify). A failed capture counts as a *)
(* failed check, and fails the attempt.                                      *)
Finish(n) ==
    LET rested == [node[n] EXCEPT !.phase = "rest"] IN
    /\ node[n].phase = "finish"
    /\ \/ node' = [node EXCEPT ![n] = rested]
       \/ /\ n \in CheckedNodes /\ node[n].status = "done"
          /\ \E result \in {"passed", "failed"} :
               node' = [node EXCEPT ![n] = [rested EXCEPT !.check = result]]
       \/ /\ n \in CheckedNodes
          /\ node' = [node EXCEPT ![n] =
               [rested EXCEPT !.check = "failed",
                              !.status = IF @ = "done" THEN "failed" ELSE @]]

Saved(n) ==
    /\ node[n].phase = "save"
    /\ node' = [node EXCEPT ![n].phase = "rest"]
=============================================================================
