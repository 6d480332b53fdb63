-------------------------- MODULE RunEngine_proofs --------------------------
(* Safety of the run engine for any team, any number of steers, any budget   *)
(* and any parallelism. EngineInv is inductive; the theorems follow from it  *)
(* and from what a step does. Then what a step may do to the status of the   *)
(* run and to its steers: the end of a run is final, and the engine          *)
(* implements RunLifecycle. Then the budget of the gates, and last that no   *)
(* stage is lost, each with invariants on top of EngineInv.                  *)
EXTENDS RunEngine, LocalStores, RunStore, FiniteSetTheorems, SequenceTheorems,
        WellFoundedInduction, TLAPS

(* Where the execution is, and which stage it works on.                      *)
Place ==
    /\ pc \in {"select", "again"} => current = pos
    /\ pc \in {"push", "executing", "gatePersist", "gating", "review"} => current # NoStage
    /\ pc \in {"executing", "gatePersist", "gating"} /\ current \in Workflow => current = pos
    /\ pc \in {"push", "review"} => current \notin Workflow
    /\ current > Len(Team) => current - Len(Team) <= Len(steers)

(* Coroutines of nodes run only while the execution waits for them.          *)
BusyPlace ==
    \A n \in Nodes : node[n].phase # "rest" =>
      \/ pc = "executing" /\ n \in Members(current)
      \/ pc = "gating" /\ n = Orchestrator

Crowd == Cardinality({n \in Nodes : node[n].phase # "rest"}) <= MaxParallel

(* Which ends are possible where, and who holds the mutex then.              *)
Ends ==
    /\ status = "done" => pc \in {"settle", "idle"}
    /\ status = "failed" => pc \in {"boundary", "settle", "idle"}
    /\ pc = "settle" => status \in Terminal
    /\ pc = "idle" => status \in Terminal \/ lock.by = "start"
    /\ lock.by = "start" => pc = "idle" /\ status = "running"
    /\ lock.by \in {"retry", "start"} => lock.stage \in Workflow

(* One steer at most is active, and it is the one the execution works on.    *)
OpenSteers ==
    /\ \A k \in DOMAIN steers :
         /\ steers[k].status = "active" =>
              \/ pc \in {"push", "executing", "gatePersist", "gating"} /\ current = SteerStage(k)
              \/ pc = "settle"
         /\ pc = "idle" => steers[k].status \notin {"pending", "active"}
    /\ pc \in {"push", "executing", "gatePersist", "gating"} /\ current \notin Workflow
         => steers[Steered].status = "active"

EngineInv == TypeOK /\ Place /\ BusyPlace /\ Crowd /\ Ends /\ OpenSteers

-----------------------------------------------------------------------------
(* A function on 1..n is a sequence of length n.                             *)
LEMMA FunctionIsSeq ==
    ASSUME NEW S, NEW n \in Nat, NEW f \in [1..n -> S]
    PROVE  f \in Seq(S) /\ Len(f) = n
OBVIOUS

(* The stages of a run and their nodes.                                      *)
LEMMA Stages ==
    /\ Len(Team) \in Nat \ {0} /\ Workflow = 1..Len(Team)
    /\ MaxSteers \in Nat
    /\ \A s \in 1..(Len(Team) + MaxSteers) :
         /\ Members(s) \subseteq Nodes
         /\ Members(s) = {NodesOf(s)[i] : i \in DOMAIN NodesOf(s)}
         /\ Orchestrator \notin Members(s)
    /\ \A k \in 1..MaxSteers : SteerAgent[k] \in Nodes
<1> USE EngineAssumption
<1>1. Len(Team) \in Nat \ {0} /\ Workflow = 1..Len(Team)
  BY EmptySeq, LenProperties DEF Workflow
<1>2. MaxSteers \in Nat
  BY DEF MaxSteers
<1>3. \A k \in 1..MaxSteers : SteerAgent[k] \in Nodes
  BY DEF MaxSteers
<1>4. ASSUME NEW s \in 1..(Len(Team) + MaxSteers)
      PROVE  NodesOf(s) \in Seq(Nodes)
  <2>1. CASE s \in Workflow
    <3>1. Team[s] \in Seq(Nodes)
      BY <1>1, <2>1
    <3> QED
      BY <2>1, <3>1 DEF NodesOf
  <2>2. CASE s \notin Workflow
    <3>1. SteerAgent[s - Len(Team)] \in Nodes
      BY <1>1, <1>2, <1>3, <2>2
    <3> QED
      BY <2>2, <3>1 DEF NodesOf
  <2> QED
    BY <2>1, <2>2
<1>5. ASSUME NEW s \in 1..(Len(Team) + MaxSteers)
      PROVE  /\ Members(s) = {NodesOf(s)[i] : i \in DOMAIN NodesOf(s)}
             /\ Members(s) \subseteq Nodes
             /\ Orchestrator \notin Members(s)
  <2>1. Members(s) = {NodesOf(s)[i] : i \in DOMAIN NodesOf(s)}
    BY DEF Members, ToSet
  <2>2. Orchestrator \notin Members(s)
    BY DEF MaxSteers
  <2> QED
    BY <1>4, <2>1, <2>2
<1> QED
  BY <1>1, <1>2, <1>3, <1>5

(* What a kill and a reset of nodes leave alone.                             *)
Calm(f, g) == g \in [Nodes -> NodeRun] /\ \A n \in Nodes : g[n].phase = f[n].phase
SameAttempts(f, g) == \A n \in Nodes : g[n].attempt = f[n].attempt

LEMMA MarkKilledKeeps ==
    ASSUME NEW f \in [Nodes -> NodeRun], NEW S
    PROVE  Calm(f, MarkKilled(f, S)) /\ SameAttempts(f, MarkKilled(f, S))
BY DEF MarkKilled, NodeRun, Calm, SameAttempts

LEMMA KillLiveKeeps ==
    ASSUME NEW f \in [Nodes -> NodeRun], NEW S, NEW why \in KillReasons
    PROVE  Calm(f, KillLive(f, S, why)) /\ SameAttempts(f, KillLive(f, S, why))
BY DEF KillLive, NodeRun, Calm, SameAttempts

LEMMA ResetKeeps ==
    ASSUME NEW f \in [Nodes -> NodeRun], NEW S
    PROVE  Calm(f, ResetForRetry(f, S))
<1>1. ASSUME NEW n \in Nodes
      PROVE  /\ ResetForRetry(f, S)[n] \in NodeRun
             /\ ResetForRetry(f, S)[n].phase = f[n].phase
  <2> DEFINE a  == f[n].attempt + 1
             nd == [f[n] EXCEPT !.attempt = a, !.status = "queued", !.check = "none"]
  <2>1. f[n] \in NodeRun /\ a \in Nat
    BY DEF NodeRun
  <2>3. ResetForRetry(f, S)[n] \in {nd, f[n]}
    BY DEF ResetForRetry
  <2> HIDE DEF a
  <2>2. nd \in NodeRun /\ nd.phase = f[n].phase
    BY <2>1 DEF NodeRun
  <2> QED
    BY <2>1, <2>2, <2>3
<1>2. ResetForRetry(f, S) = [n \in Nodes |-> ResetForRetry(f, S)[n]]
  BY DEF ResetForRetry
<1> QED
  BY <1>1, <1>2 DEF Calm

(* Nodes at rest stay at rest.                                               *)
LEMMA RestStays ==
    ASSUME NEW f, NEW g, Calm(f, g), \A n \in Nodes : f[n].phase = "rest"
    PROVE  g \in [Nodes -> NodeRun] /\ \A n \in Nodes : g[n].phase = "rest"
BY DEF Calm

(* An abort stops what is live and what is queued.                           *)
LEMMA AbortKeeps ==
    ASSUME NEW f \in [Nodes -> NodeRun]
    PROVE  LET g == KillLive(MarkKilled(f, Nodes), Nodes, "abort") IN
           Calm(f, g) /\ SameAttempts(f, g)
<1> DEFINE h == MarkKilled(f, Nodes)
           g == KillLive(h, Nodes, "abort")
<1>1. Calm(f, h) /\ SameAttempts(f, h)
  BY MarkKilledKeeps
<1>2. h \in [Nodes -> NodeRun] /\ "abort" \in KillReasons
  BY <1>1 DEF Calm, KillReasons
<1> HIDE DEF h
<1>3. Calm(h, g) /\ SameAttempts(h, g)
  BY <1>2, KillLiveKeeps
<1> HIDE DEF g
<1>4. Calm(f, g) /\ SameAttempts(f, g)
  BY <1>1, <1>3 DEF Calm, SameAttempts
<1> QED
  BY <1>4 DEF g, h

(* While the execution stays where it is and no coroutine starts, no more    *)
(* nodes are busy than before.                                               *)
LEMMA CalmerKeeps ==
    ASSUME BusyPlace, Crowd, pc' = pc, current' = current, MaxParallel \in Nat,
           \A n \in Nodes : node'[n].phase # "rest" => node[n].phase # "rest"
    PROVE  BusyPlace' /\ Crowd'
<1> DEFINE Bs == {n \in Nodes : node[n].phase # "rest"}
<1>1. IsFiniteSet(Bs) /\ Bs' \subseteq Bs
  BY FS_Subset, EngineAssumption
<1>2. Cardinality(Bs') <= Cardinality(Bs) /\ Cardinality(Bs') \in Nat /\ Cardinality(Bs) \in Nat
  BY <1>1, FS_Subset, FS_CardinalityType
<1>3. Crowd'
  BY <1>2 DEF Crowd
<1> QED
  BY <1>3 DEF BusyPlace

(* Nothing is asked of the execution's place when no node is busy.           *)
LEMMA QuietKeeps ==
    ASSUME \A n \in Nodes : node'[n].phase = "rest", MaxParallel \in Nat
    PROVE  BusyPlace' /\ Crowd'
<1>1. {n \in Nodes : node'[n].phase # "rest"} = {}
  OBVIOUS
<1> QED
  BY <1>1, FS_EmptySet DEF BusyPlace, Crowd

(* Nodes are at rest when the execution is not waiting for nodes, or has     *)
(* just been told that these have returned.                                  *)
LEMMA RestWhenJoined ==
    ASSUME EngineInv,
           \/ pc \notin {"executing", "gating"}
           \/ pc = "executing" /\ BusyNodes(current) = {}
           \/ pc = "gating" /\ ~Busy(Orchestrator)
    PROVE  \A n \in Nodes : node[n].phase = "rest"
<1>1. CASE pc = "executing" /\ BusyNodes(current) = {}
  BY <1>1 DEF EngineInv, BusyPlace, BusyNodes, Busy
<1>2. CASE pc = "gating" /\ ~Busy(Orchestrator)
  BY <1>2 DEF EngineInv, BusyPlace, Busy
<1>3. CASE pc \notin {"executing", "gating"}
  BY <1>3 DEF EngineInv, BusyPlace
<1> QED
  BY <1>1, <1>2, <1>3

-----------------------------------------------------------------------------
(* Steps of the execution between stages.                                    *)
LEMMA EnterInv == EngineInv /\ Enter => EngineInv'
<1> USE EngineAssumption, Stages
<1> SUFFICES ASSUME EngineInv, Enter PROVE EngineInv'
  OBVIOUS
<1>1. TypeOK'
  BY DEF Enter, EngineInv, TypeOK, NodeTypeOK
<1>2. Place'
  BY SMTT(30) DEF Enter, EngineInv, TypeOK, Place, NoStage
<1>3. BusyPlace' /\ Crowd'
  <2>1. node' = node
    BY DEF Enter
  <2> QED
    BY <2>1, RestWhenJoined, QuietKeeps DEF Enter
<1>4. Ends'
  BY DEF Enter, EngineInv, Ends, Terminal, Aborted
<1>5. OpenSteers'
  BY DEF Enter, EngineInv, TypeOK, OpenSteers, Steered
<1> QED
  BY <1>1, <1>2, <1>3, <1>4, <1>5 DEF EngineInv

LEMMA SelectInv == EngineInv /\ Select => EngineInv'
<1> USE EngineAssumption, Stages
<1> SUFFICES ASSUME EngineInv, Select PROVE EngineInv'
  OBVIOUS
<1>1. TypeOK'
  BY DEF Select, EngineInv, TypeOK, NodeTypeOK
<1>2. Place'
  BY DEF Select, EngineInv, TypeOK, Place, NoStage
<1>3. BusyPlace' /\ Crowd'
  <2>1. node' = node
    BY DEF Select
  <2> QED
    BY <2>1, RestWhenJoined, QuietKeeps DEF Select
<1>4. Ends'
  BY DEF Select, EngineInv, Ends
<1>5. OpenSteers'
  BY DEF Select, EngineInv, TypeOK, Place, OpenSteers, Steered, SteerStage
<1> QED
  BY <1>1, <1>2, <1>3, <1>4, <1>5 DEF EngineInv

LEMMA BetweenInv == EngineInv /\ Between => EngineInv'
<1> USE EngineAssumption, Stages
<1> SUFFICES ASSUME EngineInv, Between PROVE EngineInv'
  OBVIOUS
<1>0. /\ pc \in {"boundary", "steers"} /\ pc' \in {"settle", "activate", "enter"}
      /\ pos' \in Workflow /\ current' \in {current, pos}
      /\ \/ status' = status /\ pc' # "settle" /\ (pc = "boundary" => ~Stopped)
         \/ status' = status /\ pc' = "settle" /\ Stopped
         \/ status' = "done" /\ pc' = "settle"
      /\ UNCHANGED <<steers, gateDecisions, node, cutStage, manualRetry, gate,
                     decision, lock>>
  BY SMTT(30) DEF Between, BetweenUpTo, EngineInv, TypeOK
<1>1. TypeOK'
  <2>1. NodeTypeOK'
    BY <1>0 DEF EngineInv, TypeOK, NodeTypeOK
  <2>2. status' \in {"created", "running", "gating"} \cup Terminal
    BY <1>0 DEF EngineInv, TypeOK, Terminal
  <2>3. current' \in 0..(Len(Team) + MaxSteers)
    BY <1>0 DEF EngineInv, TypeOK
  <2> QED
    BY <1>0, <2>1, <2>2, <2>3 DEF EngineInv, TypeOK
<1>2. Place'
  BY <1>0, SMTT(30) DEF EngineInv, TypeOK, Place
<1>3. BusyPlace' /\ Crowd'
  BY <1>0, RestWhenJoined, QuietKeeps
<1>4. Ends'
  BY <1>0 DEF EngineInv, Ends, Terminal, Stopped
<1>5. OpenSteers'
  BY <1>0 DEF EngineInv, OpenSteers
<1> QED
  BY <1>1, <1>2, <1>3, <1>4, <1>5 DEF EngineInv

LEMMA ActivateInv == EngineInv /\ Activate => EngineInv'
<1> USE EngineAssumption, Stages
<1> SUFFICES ASSUME EngineInv, Activate PROVE EngineInv'
  OBVIOUS
<1>1. PICK k \in Pending :
        /\ steers' = [steers EXCEPT ![k].status = "active",
                                    ![k].cut = IF @ = NoStage THEN cutStage ELSE @]
        /\ current' = SteerStage(k)
  BY DEF Activate
<1>2. /\ pc = "activate" /\ pc' = "push" /\ cutStage' = NoStage
      /\ UNCHANGED <<status, gateDecisions, node, pos, manualRetry, gate, decision, lock>>
  BY DEF Activate
<1>3. k \in 1..Len(steers) /\ k <= MaxSteers /\ steers \in Seq(Steer)
  BY DEF EngineInv, TypeOK, Pending
<1>4. /\ steers' \in Seq(Steer) /\ Len(steers') = Len(steers)
      /\ steers'[k].status = "active"
      /\ \A j \in 1..Len(steers) : j # k => steers'[j] = steers[j]
  <2> DEFINE st == [steers[k] EXCEPT !.status = "active",
                                     !.cut = IF @ = NoStage THEN cutStage ELSE @]
  <2>1. steers[k] \in Steer /\ cutStage \in Nat
    BY <1>3 DEF EngineInv, TypeOK, NoStage
  <2>2. st \in Steer /\ st.status = "active"
    BY <2>1 DEF Steer
  <2>3. steers' = [steers EXCEPT ![k] = st]
    BY <1>1, <1>3
  <2> HIDE DEF st
  <2> QED
    BY <1>3, <2>2, <2>3, ExceptSeq
<1>5. TypeOK'
  <2>1. current' \in 0..(Len(Team) + MaxSteers)
    BY <1>1, <1>3 DEF SteerStage
  <2> QED
    BY <1>2, <1>4, <2>1 DEF EngineInv, TypeOK, NodeTypeOK
<1>6. Place'
  BY <1>1, <1>2, <1>3, <1>4 DEF Place, NoStage, SteerStage
<1>7. BusyPlace' /\ Crowd'
  BY <1>2, RestWhenJoined, QuietKeeps
<1>8. Ends'
  BY <1>2 DEF EngineInv, Ends
<1>9. OpenSteers'
  BY <1>1, <1>2, <1>3, <1>4 DEF EngineInv, OpenSteers, Steered, SteerStage
<1> QED
  BY <1>5, <1>6, <1>7, <1>8, <1>9 DEF EngineInv

LEMMA PushInv == EngineInv /\ Push => EngineInv'
<1> USE EngineAssumption, Stages
<1> SUFFICES ASSUME EngineInv, Push PROVE EngineInv'
  OBVIOUS
<1>1. /\ pc = "push" /\ pc' = "executing"
      /\ node' = [node EXCEPT ![SteerAgent[Steered]] = FreshNode("queued")]
      /\ UNCHANGED <<status, current, steers, gateDecisions, pos, cutStage, manualRetry,
                     gate, decision, lock>>
  BY DEF Push
<1>2. FreshNode("queued") \in NodeRun /\ FreshNode("queued").phase = "rest"
  BY DEF FreshNode, NodeRun
<1>3. node' \in [Nodes -> NodeRun] /\ \A n \in Nodes : node'[n].phase = "rest"
  BY <1>1, <1>2, RestWhenJoined DEF EngineInv, TypeOK, NodeTypeOK
<1>4. TypeOK'
  BY <1>1, <1>3 DEF EngineInv, TypeOK, NodeTypeOK
<1>5. Place'
  BY <1>1 DEF EngineInv, Place
<1>6. BusyPlace' /\ Crowd'
  BY <1>3, QuietKeeps
<1>7. Ends'
  BY <1>1 DEF EngineInv, Ends
<1>8. OpenSteers'
  BY <1>1 DEF EngineInv, Place, OpenSteers, Steered
<1> QED
  BY <1>4, <1>5, <1>6, <1>7, <1>8 DEF EngineInv

LEMMA SettleInv == EngineInv /\ Settle => EngineInv'
<1> USE EngineAssumption, Stages
<1> SUFFICES ASSUME EngineInv, Settle PROVE EngineInv'
  OBVIOUS
<1>1. /\ pc = "settle" /\ pc' = "idle" /\ cutStage' = NoStage /\ manualRetry' = FALSE
      /\ lock' = IF lock.by = "abort" THEN Free ELSE lock
      /\ UNCHANGED <<status, current, gateDecisions, node, pos, gate, decision>>
      /\ steers' = [k \in DOMAIN steers |->
           IF steers[k].status \in {"pending", "active"}
             THEN [steers[k] EXCEPT !.status = "expired"] ELSE steers[k]]
  BY DEF Settle
<1>2. /\ steers \in Seq(Steer) /\ DOMAIN steers' = 1..Len(steers)
      /\ \A k \in 1..Len(steers) :
           /\ steers'[k] \in Steer
           /\ steers'[k].status \notin {"pending", "active"}
  <2>1. steers \in Seq(Steer)
    BY DEF EngineInv, TypeOK
  <2>2. ASSUME NEW k \in 1..Len(steers)
        PROVE  steers'[k] \in Steer /\ steers'[k].status \notin {"pending", "active"}
    <3>1. steers[k] \in Steer /\ k \in DOMAIN steers
      BY <2>1
    <3>2. steers'[k] = IF steers[k].status \in {"pending", "active"}
                         THEN [steers[k] EXCEPT !.status = "expired"] ELSE steers[k]
      BY <1>1, <3>1
    <3> QED
      BY <3>1, <3>2 DEF Steer
  <2>3. DOMAIN steers' = 1..Len(steers)
    BY <1>1, <2>1
  <2> QED
    BY <2>1, <2>2, <2>3
<1>3. steers' \in Seq(Steer) /\ Len(steers') = Len(steers)
  <2>1. Len(steers) \in Nat
    BY <1>2
  <2>2. steers' \in [1..Len(steers) -> Steer]
    BY <1>1, <1>2
  <2> QED
    BY <2>1, <2>2, FunctionIsSeq
<1>4. TypeOK'
  BY <1>1, <1>3 DEF EngineInv, TypeOK, NodeTypeOK, NoStage, Free
<1>5. Place'
  BY <1>1, <1>3 DEF EngineInv, Place
<1>6. BusyPlace' /\ Crowd'
  BY <1>1, RestWhenJoined, QuietKeeps
<1>7. Ends'
  BY <1>1 DEF EngineInv, Ends, Free
<1>8. OpenSteers'
  BY <1>1, <1>2 DEF OpenSteers
<1> QED
  BY <1>4, <1>5, <1>6, <1>7, <1>8 DEF EngineInv

-----------------------------------------------------------------------------
(* Steps of the workers and of the nodes' coroutines.                        *)

(* A step of a node's coroutine: the engine's variables stay, and the node   *)
(* was busy already.                                                         *)
NodeStep(n) ==
    /\ node[n].phase # "rest"
    /\ node' \in [Nodes -> NodeRun]
    /\ \A m \in Nodes \ {n} : node'[m] = node[m]
    /\ node'[n].attempt = node[n].attempt
    /\ UNCHANGED Others

(* Every step of runNode, and its hard limit, is such a step.                *)
LEMMA NodeRunnerStep ==
    ASSUME NodeTypeOK, NEW n \in Nodes, Coroutine(n) \/ NodeTimeout(n)
    PROVE  NodeStep(n)
<1> DEFINE nd == node[n]
<1>0. nd \in NodeRun /\ node \in [Nodes -> NodeRun]
  BY DEF NodeTypeOK
<1>a. ASSUME NEW next \in NodeRun, nd.phase # "rest", next.attempt = nd.attempt,
             node' = [node EXCEPT ![n] = next], UNCHANGED Others
      PROVE  NodeStep(n)
  BY <1>0, <1>a DEF NodeStep
<1>b. /\ Spawned(nd) \in NodeRun /\ Spawned(nd).attempt = nd.attempt
      /\ Failed(nd) \in NodeRun /\ Failed(nd).attempt = nd.attempt
  BY <1>0 DEF Spawned, Failed, NodeRun
<1>1. CASE NodePrepared(n)
  <2> DEFINE killed  == [nd EXCEPT !.status = "killed", !.phase = "save"]
             resolve == [nd EXCEPT !.phase = "resolve"]
  <2>1. killed \in NodeRun /\ killed.attempt = nd.attempt
        /\ resolve \in NodeRun /\ resolve.attempt = nd.attempt
    BY <1>0 DEF NodeRun
  <2>2. /\ nd.phase = "prep" /\ UNCHANGED Others
        /\ \E next \in {killed, Failed(nd), resolve, Spawned(nd)} :
             node' = [node EXCEPT ![n] = next]
    BY <1>0, <1>1 DEF NodePrepared, Prepared
  <2> QED
    BY <1>a, <1>b, <2>1, <2>2
<1>2. CASE NodeResolved(n)
  <2>1. /\ nd.phase = "resolve" /\ UNCHANGED Others
        /\ \E next \in {Spawned(nd), Failed(nd)} : node' = [node EXCEPT ![n] = next]
    BY <1>2 DEF NodeResolved, Resolved
  <2> QED
    BY <1>a, <1>b, <2>1
<1>3. CASE NodeExit(n)
  <2> DEFINE ended(end) == [nd EXCEPT !.status = end, !.phase = "finish",
                                      !.reason = "none", !.timer = FALSE]
  <2>1. PICK end \in {"killed", "done", "failed"} :
          /\ nd.phase = "live" /\ UNCHANGED Others
          /\ node' = [node EXCEPT ![n] = ended(end)]
    BY <1>0, <1>3 DEF NodeExit, Exit, Live
  <2>2. ended(end) \in NodeRun /\ ended(end).attempt = nd.attempt
    BY <1>0 DEF NodeRun
  <2> QED
    BY <1>a, <2>1, <2>2
<1>4. CASE NodeFinish(n)
  <2> DEFINE rested == [nd EXCEPT !.phase = "rest"]
             passed == [rested EXCEPT !.check = "passed"]
             failed == [rested EXCEPT !.check = "failed"]
             spoilt == [rested EXCEPT !.check = "failed",
                                      !.status = IF @ = "done" THEN "failed" ELSE @]
  <2>1. /\ rested \in NodeRun /\ rested.attempt = nd.attempt
        /\ passed \in NodeRun /\ passed.attempt = nd.attempt
        /\ failed \in NodeRun /\ failed.attempt = nd.attempt
        /\ spoilt \in NodeRun /\ spoilt.attempt = nd.attempt
    BY <1>0 DEF NodeRun
  <2>2. /\ nd.phase = "finish" /\ UNCHANGED Others
        /\ \E next \in {rested, passed, failed, spoilt} : node' = [node EXCEPT ![n] = next]
    BY <1>4 DEF NodeFinish, Finish
  <2> QED
    BY <1>a, <2>1, <2>2
<1>5. CASE NodeSaved(n)
  <2> DEFINE rested == [nd EXCEPT !.phase = "rest"]
  <2>1. rested \in NodeRun /\ rested.attempt = nd.attempt
    BY <1>0 DEF NodeRun
  <2>2. nd.phase = "save" /\ UNCHANGED Others /\ node' = [node EXCEPT ![n] = rested]
    BY <1>0, <1>5 DEF NodeSaved, Saved
  <2> QED
    BY <1>a, <2>1, <2>2
<1>6. CASE NodeTimeout(n)
  <2> DEFINE late == [nd EXCEPT !.reason = "timeout", !.timer = FALSE]
  <2>1. late \in NodeRun /\ late.attempt = nd.attempt
    BY <1>0 DEF NodeRun
  <2>2. nd.phase = "live" /\ UNCHANGED Others /\ node' = [node EXCEPT ![n] = late]
    BY <1>0, <1>6 DEF NodeTimeout, HardTimeout, Live
  <2> QED
    BY <1>a, <2>1, <2>2
<1> QED
  BY <1>1, <1>2, <1>3, <1>4, <1>5, <1>6 DEF Coroutine

LEMMA NodeStepInv == ASSUME EngineInv, NEW n \in Nodes, NodeStep(n) PROVE EngineInv'
<1> USE EngineAssumption
<1>1. /\ UNCHANGED <<status, current, steers, gateDecisions, pc, pos, cutStage, manualRetry,
                     gate, decision, lock>>
      /\ node' \in [Nodes -> NodeRun]
      /\ \A m \in Nodes : node'[m].phase # "rest" => node[m].phase # "rest"
  BY DEF NodeStep, Others
<1>2. TypeOK'
  BY <1>1 DEF EngineInv, TypeOK, NodeTypeOK
<1>3. BusyPlace' /\ Crowd'
  BY <1>1, CalmerKeeps DEF EngineInv
<1>4. Place' /\ Ends' /\ OpenSteers'
  BY <1>1 DEF EngineInv, Place, Ends, OpenSteers, Steered
<1> QED
  BY <1>2, <1>3, <1>4 DEF EngineInv

(* A node that is given to a worker, or to the gate.                         *)
LEMMA StartedKeeps ==
    ASSUME NEW nd \in NodeRun, NEW aborted \in BOOLEAN
    PROVE  Started(nd, aborted) \in NodeRun /\ Started(nd, aborted).attempt = nd.attempt
BY DEF Started, NodeRun

(* A worker that takes a node keeps the number of busy nodes in bounds.      *)
LEMMA PickInv == EngineInv /\ Pick => EngineInv'
<1> USE EngineAssumption, Stages
<1> SUFFICES ASSUME EngineInv, Pick PROVE EngineInv'
  OBVIOUS
<1>1. /\ pc = "executing" /\ Cardinality(BusyNodes(current)) < MaxParallel
      /\ UNCHANGED <<status, current, steers, gateDecisions, pc, pos, cutStage,
                     manualRetry, gate, decision, lock>>
      /\ \E i \in Left(current) :
           node' = [node EXCEPT ![NodesOf(current)[i]] = Started(@, FALSE)]
  BY DEF Pick
<1>2. /\ current \in 1..(Len(Team) + MaxSteers) /\ node \in [Nodes -> NodeRun]
  BY <1>1 DEF EngineInv, TypeOK, NodeTypeOK, Place, NoStage
<1>3. PICK n \in Members(current) : node' = [node EXCEPT ![n] = Started(@, FALSE)]
  <2>1. PICK i \in Left(current) :
          node' = [node EXCEPT ![NodesOf(current)[i]] = Started(@, FALSE)]
    BY <1>1
  <2>2. NodesOf(current)[i] \in Members(current)
    BY <1>2 DEF Left
  <2> QED
    BY <2>1, <2>2
<1>4. n \in Nodes
  BY <1>2, <1>3
<1>5. node' \in [Nodes -> NodeRun] /\ \A m \in Nodes \ {n} : node'[m] = node[m]
  BY <1>2, <1>3, <1>4, StartedKeeps
<1>6. TypeOK'
  <2>1. NodeTypeOK'
    BY <1>5 DEF NodeTypeOK
  <2>2. UNCHANGED <<status, current, steers, gateDecisions, pc, pos, cutStage,
                    manualRetry, gate, decision, lock>>
    BY <1>1
  <2> QED
    BY <2>1, <2>2 DEF EngineInv, TypeOK
<1>7. BusyPlace'
  <2> SUFFICES ASSUME NEW m \in Nodes, node'[m].phase # "rest"
               PROVE  m \in Members(current)
    BY <1>1 DEF BusyPlace
  <2>1. CASE m # n
    BY <1>1, <1>5, <2>1 DEF EngineInv, BusyPlace
  <2> QED
    BY <1>3, <2>1
<1>8. Crowd'
  <2> DEFINE now  == {m \in Nodes : node[m].phase # "rest"}
             then == {m \in Nodes : node'[m].phase # "rest"}
  <2>1. now = BusyNodes(current)
    BY <1>1, <1>2 DEF EngineInv, BusyPlace, BusyNodes, Busy
  <2>2. IsFiniteSet(now) /\ IsFiniteSet(now \cup {n}) /\ then \subseteq now \cup {n}
    BY <1>4, <1>5, FS_Subset, FS_AddElement
  <2>3. Cardinality(now) \in Nat
    BY <2>2, FS_CardinalityType
  <2>5. Cardinality(now \cup {n}) <= Cardinality(now) + 1
    <3>1. \/ Cardinality(now \cup {n}) = Cardinality(now)
          \/ Cardinality(now \cup {n}) = Cardinality(now) + 1
      BY <2>2, FS_AddElement
    <3> HIDE DEF now
    <3> QED
      BY <2>3, <3>1
  <2>4. Cardinality(then) <= Cardinality(now \cup {n}) /\ Cardinality(then) \in Nat
        /\ Cardinality(now \cup {n}) \in Nat
    BY <2>2, FS_Subset, FS_CardinalityType
  <2>6. Cardinality(now) < MaxParallel
    BY <1>1, <2>1
  <2> HIDE DEF now, then
  <2>7. Cardinality(then) <= MaxParallel
    BY <2>3, <2>4, <2>5, <2>6
  <2> QED
    BY <2>7 DEF Crowd, then
<1>9. Place' /\ Ends' /\ OpenSteers'
  BY <1>1 DEF EngineInv, Place, Ends, OpenSteers, Steered
<1> QED
  BY <1>6, <1>7, <1>8, <1>9 DEF EngineInv

-----------------------------------------------------------------------------
(* Steps that end a stage, ask the gate and apply what it decided.           *)

(* What holds when all nodes that the execution waited for have returned.    *)
Returned ==
    /\ pc \in {"executing", "gating"}
    /\ \A n \in Nodes : node[n].phase = "rest"

(* While the execution waits for nodes or the gate, the run is not over and  *)
(* only the steer that is being carried out can be active.                   *)
LEMMA ReturnedFacts ==
    ASSUME EngineInv, pc \in {"executing", "gating", "gatePersist"}
    PROVE  /\ current \in 1..(Len(Team) + MaxSteers)
           /\ status \notin {"done", "failed"}
           /\ lock.by # "start"
           /\ current \in Workflow => current = pos
           /\ current \notin Workflow =>
                /\ Steered \in 1..Len(steers) /\ Steered \in 1..MaxSteers
                /\ SteerStage(Steered) = current
           /\ \A k \in DOMAIN steers : steers[k].status = "active" => current = SteerStage(k)
<1> USE Stages
<1>1. current \in 1..(Len(Team) + MaxSteers)
  BY DEF EngineInv, TypeOK, Place, NoStage
<1>2. status \notin {"done", "failed"} /\ lock.by # "start"
  BY DEF EngineInv, Ends
<1>3. current \in Workflow => current = pos
  BY DEF EngineInv, Place
<1>4. current \notin Workflow =>
        /\ Steered \in 1..Len(steers) /\ Steered \in 1..MaxSteers
        /\ SteerStage(Steered) = current
  <2>1. /\ Len(steers) \in Nat /\ Len(steers) <= MaxSteers
        /\ current > Len(Team) => current - Len(Team) <= Len(steers)
    BY DEF EngineInv, TypeOK, Place
  <2> QED
    BY <1>1, <2>1 DEF Steered, SteerStage
<1>5. \A k \in DOMAIN steers : steers[k].status = "active" => current = SteerStage(k)
  BY DEF EngineInv, OpenSteers
<1> QED
  BY <1>1, <1>2, <1>3, <1>4, <1>5

(* The decision of a stage's gate is applied.                                *)
LEMMA DecideKeeps ==
    ASSUME EngineInv, Returned, ~Aborted, current = pos, NEW d, Decide(d)
    PROVE  EngineInv'
<1> USE EngineAssumption, Stages
<1>1. /\ gateDecisions' = Append(gateDecisions, pos) /\ manualRetry' = FALSE
      /\ status' \in {"aborted", "running"} /\ pc' \in {"again", "boundary"}
      /\ \E S : node' = ResetForRetry(node, S)
      /\ UNCHANGED <<current, steers, pos, cutStage, gate, decision, lock>>
  BY DEF Decide, DecideWithin
<1>2. node' \in [Nodes -> NodeRun] /\ \A n \in Nodes : node'[n].phase = "rest"
  <2>1. PICK S : node' = ResetForRetry(node, S)
    BY <1>1
  <2>2. node \in [Nodes -> NodeRun]
    BY DEF EngineInv, TypeOK, NodeTypeOK
  <2>3. Calm(node, ResetForRetry(node, S))
    BY <2>2, ResetKeeps
  <2>4. Calm(node, node')
    BY <2>1, <2>3, Zenon
  <2> QED
    BY <2>4, RestStays DEF Returned
<1>3. TypeOK'
  <2>1. pos \in 1..(Len(Team) + MaxSteers) /\ gateDecisions \in Seq(1..(Len(Team) + MaxSteers))
    BY DEF EngineInv, TypeOK
  <2>2. gateDecisions' \in Seq(1..(Len(Team) + MaxSteers))
    BY <1>1, <2>1, AppendProperties
  <2> QED
    BY <1>1, <1>2, <2>2 DEF EngineInv, TypeOK, NodeTypeOK, Terminal
<1>4. Place'
  BY <1>1 DEF EngineInv, Place
<1>5. BusyPlace' /\ Crowd'
  BY <1>2, QuietKeeps
<1>6. Ends'
  BY <1>1, ReturnedFacts DEF EngineInv, Ends, Returned
<1>7. OpenSteers'
  <2>1. \A k \in DOMAIN steers : steers[k].status # "active"
    BY ReturnedFacts DEF SteerStage, Returned, EngineInv, TypeOK
  <2> QED
    BY <1>1, <2>1 DEF OpenSteers
<1> QED
  BY <1>3, <1>4, <1>5, <1>6, <1>7 DEF EngineInv

(* The review of a steer is applied.                                         *)
LEMMA ReviewKeeps ==
    ASSUME EngineInv, Returned, ~Aborted, current \notin Workflow, NEW d \in Decisions, Review(d)
    PROVE  EngineInv'
<1> USE EngineAssumption, Stages
<1>1. /\ gateDecisions' = Append(gateDecisions, current)
      /\ steers' = [steers EXCEPT ![Steered].status = "reviewed"]
      /\ status' = "running" /\ decision' = d /\ pc' = "review"
      /\ UNCHANGED <<current, node, pos, cutStage, manualRetry, gate, lock>>
  BY DEF Review
<1>2. /\ current \in 1..(Len(Team) + MaxSteers) /\ Steered \in 1..Len(steers)
      /\ SteerStage(Steered) = current /\ lock.by # "start"
      /\ \A k \in DOMAIN steers : steers[k].status = "active" => current = SteerStage(k)
  BY ReturnedFacts DEF Returned
<1>3. /\ steers' \in Seq(Steer) /\ Len(steers') = Len(steers)
      /\ steers'[Steered].status = "reviewed"
      /\ \A k \in 1..Len(steers) : k # Steered => steers'[k] = steers[k]
  <2> DEFINE k  == Steered
             st == [steers[k] EXCEPT !.status = "reviewed"]
  <2>1. steers \in Seq(Steer) /\ k \in 1..Len(steers) /\ steers[k] \in Steer
    BY <1>2 DEF EngineInv, TypeOK
  <2>2. st \in Steer /\ st.status = "reviewed"
    BY <2>1 DEF Steer
  <2>3. steers' = [steers EXCEPT ![k] = st]
    BY <1>1, <2>1
  <2> HIDE DEF st, k
  <2>4. /\ steers' \in Seq(Steer) /\ Len(steers') = Len(steers)
        /\ steers'[k] = st
        /\ \A j \in 1..Len(steers) : j # k => steers'[j] = steers[j]
    BY <2>1, <2>2, <2>3, ExceptSeq
  <2> QED
    BY <2>2, <2>4 DEF k
<1>4. TypeOK'
  <2>1. gateDecisions' \in Seq(1..(Len(Team) + MaxSteers))
    BY <1>1, <1>2, AppendProperties DEF EngineInv, TypeOK
  <2> QED
    BY <1>1, <1>3, <2>1 DEF EngineInv, TypeOK, NodeTypeOK
<1>5. Place'
  BY <1>1, <1>2, <1>3 DEF EngineInv, Place, NoStage
<1>6. BusyPlace' /\ Crowd'
  BY <1>1, QuietKeeps DEF Returned
<1>7. Ends'
  BY <1>1, <1>2 DEF EngineInv, Ends
<1>8. OpenSteers'
  <2>1. ASSUME NEW k \in 1..Len(steers) PROVE steers'[k].status # "active"
    <3>1. CASE k = Steered
      BY <1>3, <3>1
    <3>2. CASE k # Steered
      <4>1. SteerStage(k) # SteerStage(Steered)
        BY <1>2, <3>2 DEF SteerStage
      <4>2. k \in DOMAIN steers /\ steers'[k] = steers[k]
        BY <1>3, <3>2 DEF EngineInv, TypeOK
      <4> QED
        BY <1>2, <4>1, <4>2
    <3> QED
      BY <3>1, <3>2
  <2>2. DOMAIN steers' = 1..Len(steers)
    BY <1>3
  <2> QED
    BY <1>1, <2>1, <2>2 DEF OpenSteers
<1> QED
  BY <1>4, <1>5, <1>6, <1>7, <1>8 DEF EngineInv

(* The orchestrator is started, once the execution waits for nobody.         *)
LEMMA AskKeeps ==
    ASSUME EngineInv, pc \in {"gatePersist", "gating"},
           \A n \in Nodes : node[n].phase = "rest",
           NEW run \in {"first", "fresh", "reask"}, NEW attempt \in Nat, Ask(run, attempt)
    PROVE  EngineInv'
<1> USE EngineAssumption, Stages
<1> DEFINE nd == Started([node[Orchestrator] EXCEPT !.status = "queued", !.attempt = attempt],
                         Aborted)
<1>1. /\ node' = [node EXCEPT ![Orchestrator] = nd]
      /\ gate' = [run |-> run, timedOut |-> FALSE] /\ pc' = "gating"
      /\ UNCHANGED <<status, current, steers, gateDecisions, pos, cutStage, manualRetry,
                     decision, lock>>
  BY DEF Ask, EngineInv, TypeOK, NodeTypeOK
<1>2. nd \in NodeRun
  <2>1. node[Orchestrator] \in NodeRun /\ Aborted \in BOOLEAN
    BY DEF EngineInv, TypeOK, NodeTypeOK, Aborted
  <2>2. [node[Orchestrator] EXCEPT !.status = "queued", !.attempt = attempt] \in NodeRun
    BY <2>1 DEF NodeRun
  <2> QED
    BY <2>1, <2>2, StartedKeeps
<1> HIDE DEF nd
<1>3. /\ node' \in [Nodes -> NodeRun]
      /\ \A n \in Nodes : node'[n].phase # "rest" => n = Orchestrator
  BY <1>1, <1>2 DEF EngineInv, TypeOK, NodeTypeOK
<1>4. TypeOK'
  BY <1>1, <1>3 DEF EngineInv, TypeOK, NodeTypeOK
<1>5. Place'
  BY <1>1 DEF EngineInv, Place
<1>6. BusyPlace'
  BY <1>1, <1>3 DEF BusyPlace
<1>7. Crowd'
  <2> DEFINE busy == {n \in Nodes : node'[n].phase # "rest"}
  <2>1. IsFiniteSet({Orchestrator}) /\ Cardinality({Orchestrator}) = 1
    BY FS_Singleton
  <2>2. busy \subseteq {Orchestrator}
    BY <1>3
  <2>3. Cardinality(busy) \in Nat /\ Cardinality(busy) <= 1
    BY <2>1, <2>2, FS_Subset, FS_CardinalityType
  <2> HIDE DEF busy
  <2>4. Cardinality(busy) <= MaxParallel
    BY <2>3
  <2> QED
    BY <2>4 DEF Crowd, busy
<1>8. Ends'
  BY <1>1 DEF EngineInv, Ends
<1>9. OpenSteers'
  BY <1>1 DEF EngineInv, OpenSteers, Steered
<1> QED
  BY <1>4, <1>5, <1>6, <1>7, <1>8, <1>9 DEF EngineInv

(* The nodes of a stage have returned.                                       *)
LEMMA StageJoinInv == EngineInv /\ StageJoin => EngineInv'
<1> USE EngineAssumption, Stages
<1> SUFFICES ASSUME EngineInv, StageJoin PROVE EngineInv'
  OBVIOUS
<1>1. /\ pc = "executing" /\ current = pos /\ pos \in Workflow
      /\ \A n \in Nodes : node[n].phase = "rest"
  BY RestWhenJoined DEF StageJoin, Joined, EngineInv, TypeOK
<1>2. CASE ~Aborted /\ Decide(Advance)
  BY <1>1, <1>2, DecideKeeps DEF Returned
<1>3. ASSUME ~(~Aborted /\ Decide(Advance))
      PROVE  EngineInv'
  <2>1. /\ UNCHANGED <<current, steers, gateDecisions, node, pos, manualRetry, gate,
                       decision, lock>>
        /\ cutStage' \in {cutStage, pos}
        /\ \/ pc' = "boundary" /\ status' = status
           \/ pc' = "boundary" /\ ~Aborted /\ status' \in {"failed", "running"}
           \/ pc' = "gatePersist" /\ ~Aborted /\ status' = "gating"
    BY <1>3 DEF StageJoin
  <2>2. TypeOK'
    BY <1>1, <2>1 DEF EngineInv, TypeOK, NodeTypeOK, Terminal
  <2>3. Place'
    BY <1>1, <2>1 DEF EngineInv, Place
  <2>4. BusyPlace' /\ Crowd'
    BY <1>1, <2>1, QuietKeeps
  <2>5. Ends'
    BY <1>1, <2>1 DEF EngineInv, Ends, Aborted
  <2>6. \A k \in DOMAIN steers : steers[k].status # "active"
    BY <1>1, ReturnedFacts DEF SteerStage, EngineInv, TypeOK
  <2>7. OpenSteers'
    BY <1>1, <2>1, <2>6 DEF OpenSteers
  <2> QED
    BY <2>2, <2>3, <2>4, <2>5, <2>7 DEF EngineInv
<1> QED
  BY <1>2, <1>3

(* evaluateGate has returned: the run is aborted, or the stage's gate        *)
(* decides, or the steer's review does.                                      *)
LEMMA JudgedKeeps ==
    ASSUME EngineInv, pc = "gating", Returned, NEW d \in Decisions, Judged(d)
    PROVE  EngineInv'
<1> USE EngineAssumption, Stages
<1>1. CASE Aborted
  <2>1. /\ pc' = "settle" /\ status = "aborted"
        /\ UNCHANGED <<status, current, steers, gateDecisions, node, pos, cutStage,
                       manualRetry, gate, decision, lock>>
    BY <1>1 DEF Judged, Aborted
  <2>2. TypeOK'
    BY <2>1 DEF EngineInv, TypeOK, NodeTypeOK
  <2>3. Place' /\ Ends'
    BY <2>1 DEF EngineInv, Place, Ends, Terminal
  <2>4. BusyPlace' /\ Crowd'
    BY <2>1, QuietKeeps DEF Returned
  <2>5. OpenSteers'
    BY <2>1 DEF OpenSteers
  <2> QED
    BY <2>2, <2>3, <2>4, <2>5 DEF EngineInv
<1>2. CASE ~Aborted /\ current \in Workflow
  BY <1>2, ReturnedFacts, DecideKeeps DEF Judged
<1>3. CASE ~Aborted /\ current \notin Workflow
  BY <1>3, ReviewKeeps DEF Judged
<1> QED
  BY <1>1, <1>2, <1>3

LEMMA StartGateInv == EngineInv /\ StartGate => EngineInv'
<1> SUFFICES ASSUME EngineInv, StartGate PROVE EngineInv'
  OBVIOUS
<1>1. pc = "gatePersist" /\ Ask("first", Len(gateDecisions) + 1)
  BY DEF StartGate
<1>2. \A n \in Nodes : node[n].phase = "rest"
  BY <1>1, RestWhenJoined
<1>3. Len(gateDecisions) + 1 \in Nat
  BY DEF EngineInv, TypeOK
<1> QED
  BY <1>1, <1>2, <1>3, AskKeeps

LEMMA GateTimerInv == EngineInv /\ GateTimer => EngineInv'
<1> USE EngineAssumption, Stages
<1> SUFFICES ASSUME EngineInv, GateTimer PROVE EngineInv'
  OBVIOUS
<1>1. /\ gate' = [gate EXCEPT !.timedOut = TRUE]
      /\ node' = KillLive(node, {Orchestrator}, "gate-timeout")
      /\ UNCHANGED <<status, current, steers, gateDecisions, pc, pos, cutStage,
                     manualRetry, decision, lock>>
  BY DEF GateTimer
<1>2. /\ node' \in [Nodes -> NodeRun]
      /\ \A n \in Nodes : node'[n].phase = node[n].phase
  <2>1. node \in [Nodes -> NodeRun] /\ "gate-timeout" \in KillReasons
    BY DEF KillReasons, EngineInv, TypeOK, NodeTypeOK
  <2>2. Calm(node, KillLive(node, {Orchestrator}, "gate-timeout"))
    BY <2>1, KillLiveKeeps
  <2>3. Calm(node, node')
    BY <1>1, <2>2, Zenon
  <2> QED
    BY <2>3 DEF Calm
<1>3. TypeOK'
  <2>1. NodeTypeOK'
    BY <1>2 DEF NodeTypeOK
  <2>2. gate' \in [run : {"first", "fresh", "reask"}, timedOut : BOOLEAN]
    BY <1>1 DEF EngineInv, TypeOK
  <2>3. UNCHANGED <<status, current, steers, gateDecisions, pc, pos, cutStage,
                    manualRetry, decision, lock>>
    BY <1>1
  <2> QED
    BY <2>1, <2>2, <2>3 DEF EngineInv, TypeOK
<1>4. BusyPlace' /\ Crowd'
  BY <1>1, <1>2, CalmerKeeps DEF EngineInv
<1>5. UNCHANGED <<status, current, steers, pc, pos, lock>>
  BY <1>1
<1>6. Place' /\ Ends' /\ OpenSteers'
  BY <1>5 DEF EngineInv, Place, Ends, OpenSteers, Steered
<1> QED
  BY <1>3, <1>4, <1>6 DEF EngineInv

(* The nodes a steer's review may redo.                                      *)
LEMMA RedoFacts ==
    ASSUME EngineInv, Steered \in 1..Len(steers)
    PROVE  RedoStage \in Workflow /\ RedoNodes \subseteq Nodes
<1> USE EngineAssumption, Stages
<1>1. RedoStage \in Workflow
  BY DEF RedoStage, EngineInv, TypeOK
<1>2. Members(RedoStage) \subseteq Nodes
  <2> DEFINE s == RedoStage
  <2>1. s \in 1..(Len(Team) + MaxSteers)
    BY <1>1
  <2> HIDE DEF s
  <2>2. Members(s) \subseteq Nodes
    BY <2>1, Stages, Zenon
  <2> QED
    BY <2>2 DEF s
<1> QED
  BY <1>1, <1>2 DEF RedoNodes

(* What the gate may answer.                                                 *)
LEMMA DecisionsKnown ==
    /\ Advance \in Decisions /\ AbortRun \in Decisions
    /\ \A S \in SUBSET Nodes : S # {} => Retry(S) \in Decisions
<1>1. Advance \in Decisions /\ AbortRun \in Decisions
  BY DEF Decisions
<1>2. ASSUME NEW S \in SUBSET Nodes, S # {} PROVE Retry(S) \in Decisions
  <2>1. S \in (SUBSET Nodes) \ {{}}
    BY <1>2
  <2> QED
    BY <2>1 DEF Decisions
<1> QED
  BY <1>1, <1>2

LEMMA GateAnswerInv == EngineInv /\ GateAnswer => EngineInv'
<1> USE EngineAssumption, Stages
<1> SUFFICES ASSUME EngineInv, GateAnswer PROVE EngineInv'
  OBVIOUS
<1> DEFINE valid == IF current \in Workflow THEN Members(current) ELSE RedoNodes
<1>1. /\ pc = "gating" /\ ~Busy(Orchestrator)
      /\ \/ \E d \in {Advance, AbortRun} : Judged(d)
         \/ \E S \in (SUBSET valid) \ {{}} : Judged(Retry(S))
         \/ \E run \in {"fresh", "reask"} : Ask(run, node[Orchestrator].attempt)
  BY DEF GateAnswer
<1>2. Returned
  BY <1>1, RestWhenJoined DEF Returned
<1>3. CASE \E d \in {Advance, AbortRun} : Judged(d)
  BY <1>1, <1>2, <1>3, JudgedKeeps, DecisionsKnown
<1>4. CASE \E S \in (SUBSET valid) \ {{}} : Judged(Retry(S))
  <2>1. PICK S \in (SUBSET valid) \ {{}} : Judged(Retry(S))
    BY <1>4
  <2>2. valid \subseteq Nodes
    BY <1>1, ReturnedFacts, RedoFacts
  <2> HIDE DEF valid
  <2>3. S \in SUBSET Nodes /\ S # {}
    BY <2>2
  <2>4. Retry(S) \in Decisions
    BY <2>3, DecisionsKnown
  <2> QED
    BY <1>1, <1>2, <2>1, <2>4, JudgedKeeps
<1>5. CASE \E run \in {"fresh", "reask"} : Ask(run, node[Orchestrator].attempt)
  <2>1. node[Orchestrator].attempt \in Nat
    BY DEF EngineInv, TypeOK, NodeTypeOK, NodeRun
  <2> QED
    BY <1>1, <1>2, <1>5, <2>1, AskKeeps DEF Returned
<1> QED
  BY <1>1, <1>3, <1>4, <1>5

(* The node of a steer has returned.                                         *)
LEMMA SteerJoinInv == EngineInv /\ SteerJoin => EngineInv'
<1> USE EngineAssumption, Stages
<1> SUFFICES ASSUME EngineInv, SteerJoin PROVE EngineInv'
  OBVIOUS
<1>1. /\ pc = "executing" /\ current \notin Workflow /\ Returned
      /\ \A n \in Nodes : node[n].phase = "rest"
  BY RestWhenJoined DEF SteerJoin, Joined, Returned
<1>2. /\ current \in 1..(Len(Team) + MaxSteers) /\ Steered \in 1..Len(steers)
      /\ SteerStage(Steered) = current /\ lock.by # "start"
      /\ status \notin {"done", "failed"}
      /\ \A k \in DOMAIN steers : steers[k].status = "active" => current = SteerStage(k)
  BY <1>1, ReturnedFacts
<1>3. CASE /\ Aborted /\ pc' = "settle"
           /\ UNCHANGED <<status, current, steers, gateDecisions, node, pos, cutStage,
                          manualRetry, gate, decision, lock>>
  <2>1. TypeOK'
    BY <1>3 DEF EngineInv, TypeOK, NodeTypeOK
  <2>2. Place' /\ Ends'
    BY <1>1, <1>3 DEF EngineInv, Place, Ends, Terminal, Aborted
  <2>3. BusyPlace' /\ Crowd'
    BY <1>1, <1>3, QuietKeeps
  <2>4. OpenSteers'
    BY <1>3 DEF OpenSteers
  <2> QED
    BY <2>1, <2>2, <2>3, <2>4 DEF EngineInv
<1>4. CASE /\ pc' = "steers" /\ node' = MarkKilled(node, {SteerAgent[Steered]})
           /\ steers' = [steers EXCEPT ![Steered].status = "superseded"]
           /\ UNCHANGED <<status, current, gateDecisions, pos, cutStage, manualRetry,
                          gate, decision, lock>>
  <2> DEFINE k  == Steered
             st == [steers[k] EXCEPT !.status = "superseded"]
  <2>1. steers \in Seq(Steer) /\ k \in 1..Len(steers) /\ steers[k] \in Steer
    BY <1>2 DEF EngineInv, TypeOK
  <2>2. st \in Steer /\ st.status = "superseded"
    BY <2>1 DEF Steer
  <2>3. steers' = [steers EXCEPT ![k] = st]
    BY <1>4, <2>1
  <2> HIDE DEF st, k
  <2>4. /\ steers' \in Seq(Steer) /\ Len(steers') = Len(steers)
        /\ steers'[k] = st
        /\ \A j \in 1..Len(steers) : j # k => steers'[j] = steers[j]
    BY <2>1, <2>2, <2>3, ExceptSeq
  <2>5. node' \in [Nodes -> NodeRun] /\ \A n \in Nodes : node'[n].phase = "rest"
    <3> DEFINE agent == SteerAgent[Steered]
    <3>1. node \in [Nodes -> NodeRun]
      BY DEF EngineInv, TypeOK, NodeTypeOK
    <3>2. Calm(node, MarkKilled(node, {agent}))
      BY <3>1, MarkKilledKeeps
    <3>3. Calm(node, node')
      BY <1>4, <3>2, Zenon
    <3> QED
      BY <1>1, <3>3, RestStays
  <2>6. TypeOK'
    <3>1. NodeTypeOK'
      BY <2>5 DEF NodeTypeOK
    <3>2. /\ pc' = "steers" /\ steers' \in Seq(Steer) /\ Len(steers') = Len(steers)
          /\ UNCHANGED <<status, current, gateDecisions, pos, cutStage, manualRetry,
                         gate, decision, lock>>
      BY <1>4, <2>4
    <3> QED
      BY <3>1, <3>2 DEF EngineInv, TypeOK
  <2>7. Place' /\ Ends'
    BY <1>1, <1>2, <1>4, <2>4 DEF EngineInv, Place, Ends
  <2>8. BusyPlace' /\ Crowd'
    BY <2>5, QuietKeeps
  <2>9. ASSUME NEW j \in 1..Len(steers) PROVE steers'[j].status # "active"
    <3>1. CASE j = k
      BY <2>2, <2>4, <3>1
    <3>2. CASE j # k
      <4>1. SteerStage(j) # SteerStage(Steered)
        BY <1>2, <3>2 DEF SteerStage, k
      <4>2. steers[j].status # "active"
        BY <1>2, <4>1
      <4> QED
        BY <2>4, <3>2, <4>2
    <3> QED
      BY <3>1, <3>2
  <2>10. OpenSteers'
    BY <1>4, <2>4, <2>9 DEF OpenSteers
  <2> QED
    BY <2>6, <2>7, <2>8, <2>10 DEF EngineInv
<1>5. CASE /\ ~Aborted /\ pc' = "gatePersist" /\ status' = "gating"
           /\ UNCHANGED <<current, steers, gateDecisions, node, pos, cutStage,
                          manualRetry, gate, decision, lock>>
  <2>1. TypeOK'
    BY <1>5 DEF EngineInv, TypeOK, NodeTypeOK
  <2>2. Place' /\ Ends'
    BY <1>1, <1>2, <1>5 DEF EngineInv, Place, Ends
  <2>3. BusyPlace' /\ Crowd'
    BY <1>1, <1>5, QuietKeeps
  <2>4. OpenSteers'
    BY <1>1, <1>5 DEF EngineInv, OpenSteers, Steered
  <2> QED
    BY <2>1, <2>2, <2>3, <2>4 DEF EngineInv
<1>6. CASE ~Aborted /\ Review(IF RedoNodes = {} THEN Advance ELSE Retry(RedoNodes))
  <2>1. (IF RedoNodes = {} THEN Advance ELSE Retry(RedoNodes)) \in Decisions
    BY <1>2, RedoFacts, DecisionsKnown
  <2> QED
    BY <1>1, <1>6, <2>1, ReviewKeeps
<1> QED
  BY <1>3, <1>4, <1>5, <1>6 DEF SteerJoin

LEMMA ApplyReviewInv == EngineInv /\ ApplyReview => EngineInv'
<1> USE EngineAssumption, Stages
<1> SUFFICES ASSUME EngineInv, ApplyReview PROVE EngineInv'
  OBVIOUS
<1>1. /\ pc = "review" /\ decision' = Advance
      /\ UNCHANGED <<current, steers, gateDecisions, pos, cutStage, manualRetry, gate, lock>>
  BY DEF ApplyReview
<1>2. \A n \in Nodes : node[n].phase = "rest"
  BY <1>1, RestWhenJoined
<1>3. node \in [Nodes -> NodeRun]
  BY DEF EngineInv, TypeOK, NodeTypeOK
<1>4. /\ node' \in [Nodes -> NodeRun]
      /\ \A n \in Nodes : node'[n].phase = "rest"
  <2>1. CASE node' = KillLive(MarkKilled(node, Nodes), Nodes, "abort")
    <3>1. Calm(node, node')
      BY <1>3, <2>1, AbortKeeps, Zenon
    <3> QED
      BY <1>2, <3>1, RestStays
  <2>2. CASE node' = ResetForRetry(node,
                       {n \in RedoNodes \cap decision.ids : node[n].status # "queued"})
    <3> DEFINE S == {n \in RedoNodes \cap decision.ids : node[n].status # "queued"}
    <3> HIDE DEF S
    <3>1. Calm(node, ResetForRetry(node, S))
      BY <1>3, ResetKeeps
    <3>2. Calm(node, node')
      BY <2>2, <3>1, Zenon DEF S
    <3> QED
      BY <1>2, <3>2, RestStays
  <2>3. CASE node' = node
    BY <1>2, <1>3, <2>3
  <2> QED
    BY <2>1, <2>2, <2>3 DEF ApplyReview
<1>5. \/ status' = "aborted" /\ pc' = "settle"
      \/ status' = status /\ pc' \in {"enter", "steers"}
  BY DEF ApplyReview
<1>6. TypeOK'
  BY <1>1, <1>4, <1>5, DecisionsKnown DEF EngineInv, TypeOK, NodeTypeOK, Terminal
<1>7. Place' /\ Ends'
  BY <1>1, <1>5 DEF EngineInv, Place, Ends, Terminal
<1>8. BusyPlace' /\ Crowd'
  BY <1>4, QuietKeeps
<1>9. OpenSteers'
  BY <1>1, <1>5 DEF EngineInv, OpenSteers
<1> QED
  BY <1>6, <1>7, <1>8, <1>9 DEF EngineInv

-----------------------------------------------------------------------------
(* The calls of the API, and the restart of a run that was over.             *)

(* A call that leaves the execution where it is and starts no coroutine.     *)
ApiCall == UNCHANGED <<current, gateDecisions, Execution>> /\ Calm(node, node')

(* Such a call makes no node busy and moves the execution nowhere.           *)
LEMMA ApiCallKeeps ==
    ASSUME EngineInv, ApiCall
    PROVE  NodeTypeOK' /\ BusyPlace' /\ Crowd'
<1> USE EngineAssumption
<1>1. /\ pc' = pc /\ current' = current
      /\ node' \in [Nodes -> NodeRun]
      /\ \A n \in Nodes : node'[n].phase = node[n].phase
  BY DEF ApiCall, Calm, Execution
<1>2. BusyPlace' /\ Crowd'
  BY <1>1, CalmerKeeps DEF EngineInv
<1> QED
  BY <1>1, <1>2 DEF NodeTypeOK

LEMMA AbortInv == EngineInv /\ Abort => EngineInv'
<1> USE Stages
<1> SUFFICES ASSUME EngineInv, Abort PROVE EngineInv'
  OBVIOUS
<1>1. /\ lock = Free /\ status \notin Terminal
      /\ status' = "aborted" /\ lock' = [by |-> "abort", stage |-> NoStage]
      /\ UNCHANGED <<current, steers, gateDecisions, manualRetry, Execution>>
  BY DEF Abort
<1>2. ApiCall
  <2>1. Calm(node, node')
    BY AbortKeeps, Zenon DEF Abort, EngineInv, TypeOK, NodeTypeOK
  <2> QED
    BY <1>1, <2>1 DEF ApiCall
<1>3. NodeTypeOK' /\ BusyPlace' /\ Crowd'
  BY <1>2, ApiCallKeeps
<1>4. TypeOK'
  BY <1>1, <1>3 DEF EngineInv, TypeOK, Execution, Terminal
<1>5. Place' /\ OpenSteers'
  BY <1>1 DEF EngineInv, Place, OpenSteers, Steered, Execution
<1>6. Ends'
  BY <1>1 DEF EngineInv, Ends, Execution, Terminal
<1> QED
  BY <1>3, <1>4, <1>5, <1>6 DEF EngineInv

(* A steer joins the end of the queue and disturbs none of the others.       *)
LEMMA SteerRunInv ==
    ASSUME EngineInv, NEW mode \in {"interrupt", "queue"}, SteerRun(mode)
    PROVE  EngineInv'
<1> USE Stages
<1>1. PICK cut \in {current, NoStage} :
        steers' = Append(steers, [mode |-> mode, status |-> "pending", cut |-> cut])
  BY DEF SteerRun
<1>2. /\ lock = Free /\ status \notin Terminal /\ Len(steers) < MaxSteers
      /\ UNCHANGED <<status, current, gateDecisions, manualRetry, lock, Execution>>
  BY DEF SteerRun
<1>3. ApiCall
  <2>1. node \in [Nodes -> NodeRun] /\ "steer" \in KillReasons
    BY DEF EngineInv, TypeOK, NodeTypeOK, KillReasons
  <2>2. Calm(node, KillLive(node, Nodes, "steer"))
    BY <2>1, KillLiveKeeps
  <2>3. Calm(node, node)
    BY <2>1 DEF Calm
  <2>4. node' = node \/ node' = KillLive(node, Nodes, "steer")
    BY DEF SteerRun
  <2>5. Calm(node, node')
    BY <2>2, <2>3, <2>4, Zenon
  <2> QED
    BY <1>2, <2>5 DEF ApiCall
<1>4. NodeTypeOK' /\ BusyPlace' /\ Crowd'
  BY <1>3, ApiCallKeeps
<1>5. /\ steers' \in Seq(Steer) /\ Len(steers') = Len(steers) + 1
      /\ steers'[Len(steers) + 1].status = "pending"
      /\ \A k \in 1..Len(steers) : steers'[k] = steers[k]
  <2> DEFINE s == [mode |-> mode, status |-> "pending", cut |-> cut]
  <2>1. s \in Steer /\ s.status = "pending"
    BY DEF Steer, EngineInv, TypeOK, NoStage
  <2>2. steers \in Seq(Steer) /\ steers' = Append(steers, s)
    BY <1>1 DEF EngineInv, TypeOK
  <2> HIDE DEF s
  <2> QED
    BY <2>1, <2>2, AppendProperties
<1>6. steers \in Seq(Steer) /\ Len(steers) \in Nat
  BY DEF EngineInv, TypeOK
<1>7. TypeOK'
  BY <1>2, <1>4, <1>5, <1>6 DEF EngineInv, TypeOK, Execution
<1>8. Place'
  BY <1>2, <1>5, <1>6 DEF EngineInv, TypeOK, Place, Execution
<1>9. Ends'
  BY <1>2 DEF EngineInv, Ends, Execution
<1>10. OpenSteers'
  <2>1. pc # "idle" /\ pc' = pc /\ current' = current
    BY <1>2 DEF EngineInv, Ends, Free, Execution
  <2>2. ASSUME NEW k \in DOMAIN steers', steers'[k].status = "active"
        PROVE  \/ pc \in {"push", "executing", "gatePersist", "gating"}
                  /\ current = SteerStage(k)
               \/ pc = "settle"
    <3>1. k \in 1..Len(steers) /\ steers[k].status = "active"
      BY <1>5, <1>6, <2>2
    <3> QED
      BY <1>6, <3>1 DEF EngineInv, OpenSteers
  <2>3. ASSUME pc \in {"push", "executing", "gatePersist", "gating"}, current \notin Workflow
        PROVE  steers'[Steered].status = "active"
    <3>1. Steered \in 1..Len(steers)
      BY <1>6, <2>3 DEF EngineInv, TypeOK, Place, NoStage, Steered
    <3> QED
      BY <1>5, <2>3, <3>1 DEF EngineInv, OpenSteers
  <2> QED
    BY <2>1, <2>2, <2>3 DEF OpenSteers, Steered
<1> QED
  BY <1>4, <1>7, <1>8, <1>9, <1>10 DEF EngineInv

(* A kill of nodes that changes nothing else but manualRetry.                *)
LEMMA KillKeeps ==
    ASSUME EngineInv, Calm(node, node'), manualRetry' \in BOOLEAN,
           UNCHANGED <<status, current, steers, gateDecisions, lock, Execution>>
    PROVE  EngineInv'
<1>1. NodeTypeOK' /\ BusyPlace' /\ Crowd'
  BY ApiCallKeeps DEF ApiCall
<1>2. TypeOK'
  BY <1>1 DEF EngineInv, TypeOK, Execution
<1>3. Place' /\ Ends' /\ OpenSteers'
  BY DEF EngineInv, Place, Ends, OpenSteers, Steered, Execution
<1> QED
  BY <1>1, <1>2, <1>3 DEF EngineInv

LEMMA KillNodeInv ==
    ASSUME EngineInv, NEW n \in KillTargets, KillNode(n)
    PROVE  EngineInv'
<1>1. node \in [Nodes -> NodeRun] /\ "user" \in KillReasons /\ manualRetry \in BOOLEAN
  BY DEF EngineInv, TypeOK, NodeTypeOK, KillReasons
<1>2. Calm(node, MarkKilled(node, {n})) /\ Calm(node, KillLive(node, {n}, "user"))
  BY <1>1, MarkKilledKeeps, KillLiveKeeps
<1>3. node' = MarkKilled(node, {n}) \/ node' = KillLive(node, {n}, "user")
  BY DEF KillNode
<1>4. Calm(node, node')
  BY <1>2, <1>3, Zenon
<1> QED
  BY <1>1, <1>4, KillKeeps DEF KillNode

LEMMA RetryGateInv ==
    ASSUME EngineInv, NEW s \in Workflow, RetryGate(s)
    PROVE  EngineInv'
<1>1. node \in [Nodes -> NodeRun] /\ "user-retry" \in KillReasons
  BY DEF EngineInv, TypeOK, NodeTypeOK, KillReasons
<1>2. Calm(node, KillLive(node, {Orchestrator}, "user-retry"))
  BY <1>1, KillLiveKeeps
<1>3. Calm(node, node')
  BY <1>2, Zenon DEF RetryGate
<1> QED
  BY <1>3, KillKeeps DEF RetryGate

LEMMA RetryStageInv ==
    ASSUME EngineInv, NEW s \in Workflow, RetryStage(s)
    PROVE  EngineInv'
<1>1. /\ lock = Free /\ status \in Terminal
      /\ lock' = [by |-> "retry", stage |-> s]
      /\ UNCHANGED <<status, current, steers, gateDecisions, node, manualRetry, Execution>>
  BY DEF RetryStage
<1>2. TypeOK'
  BY <1>1 DEF EngineInv, TypeOK, NodeTypeOK, Execution
<1>3. Place' /\ BusyPlace' /\ Crowd' /\ OpenSteers'
  BY <1>1 DEF EngineInv, Place, BusyPlace, Crowd, OpenSteers, Steered, Execution
<1>4. Ends'
  BY <1>1 DEF EngineInv, Ends, Execution
<1> QED
  BY <1>2, <1>3, <1>4 DEF EngineInv

(* A run is reopened only when nothing of it is busy.                        *)
LEMMA ReopenInv == EngineInv /\ Reopen => EngineInv'
<1> USE Stages
<1> SUFFICES ASSUME EngineInv, Reopen PROVE EngineInv'
  OBVIOUS
<1> DEFINE again == ResetForRetry(node, Members(lock.stage))
<1>1. /\ lock.by = "retry" /\ pc = "idle"
      /\ \/ lock' = Free /\ UNCHANGED <<status, node>>
         \/ /\ status' = "running" /\ lock' = [lock EXCEPT !.by = "start"]
            /\ \E L : node' = [n \in Nodes |->
                 IF n \in L /\ again[n].status = "killed"
                   THEN [again[n] EXCEPT !.status = "queued"] ELSE again[n]]
      /\ UNCHANGED <<current, steers, gateDecisions, manualRetry, Execution>>
  BY DEF Reopen, ReopenWithin
<1>2. node \in [Nodes -> NodeRun]
  BY DEF EngineInv, TypeOK, NodeTypeOK
<1>3. \A n \in Nodes : node[n].phase = "rest"
  BY <1>1, RestWhenJoined
<1>4. Calm(node, again)
  BY <1>2, ResetKeeps
<1>5. again \in [Nodes -> NodeRun] /\ \A n \in Nodes : again[n].phase = "rest"
  BY <1>3, <1>4, RestStays
<1> HIDE DEF again
<1>6. node' \in [Nodes -> NodeRun] /\ \A n \in Nodes : node'[n].phase = "rest"
  <2>1. CASE node' = node
    BY <1>2, <1>3, <2>1
  <2>2. ASSUME NEW L,
               node' = [n \in Nodes |->
                 IF n \in L /\ again[n].status = "killed"
                   THEN [again[n] EXCEPT !.status = "queued"] ELSE again[n]]
        PROVE  node' \in [Nodes -> NodeRun] /\ \A n \in Nodes : node'[n].phase = "rest"
    <3>1. ASSUME NEW n \in Nodes
          PROVE  LET q == [again[n] EXCEPT !.status = "queued"] IN
                 q \in NodeRun /\ q.phase = "rest"
      BY <1>5 DEF NodeRun
    <3> QED
      BY <1>5, <2>2, <3>1
  <2> QED
    BY <1>1, <2>1, <2>2
<1>7. TypeOK'
  BY <1>1, <1>6 DEF EngineInv, TypeOK, NodeTypeOK, Execution, Free, NoStage
<1>8. Place' /\ OpenSteers'
  BY <1>1 DEF EngineInv, Place, OpenSteers, Steered, Execution
<1>9. BusyPlace' /\ Crowd'
  BY <1>6, QuietKeeps, EngineAssumption
<1>10. Ends'
  BY <1>1 DEF EngineInv, TypeOK, Ends, Execution, Free, Terminal
<1> QED
  BY <1>7, <1>8, <1>9, <1>10 DEF EngineInv

LEMMA StartExecutionInv == EngineInv /\ StartExecution => EngineInv'
<1> SUFFICES ASSUME EngineInv, StartExecution PROVE EngineInv'
  OBVIOUS
<1>1. /\ lock.by = "start" /\ pc' = "enter" /\ pos' = lock.stage /\ lock' = Free
      /\ UNCHANGED <<status, current, steers, gateDecisions, node, cutStage, manualRetry,
                     gate, decision>>
  BY DEF StartExecution
<1>2. pc = "idle" /\ status = "running" /\ lock.stage \in Workflow
  BY <1>1 DEF EngineInv, Ends
<1>3. TypeOK'
  BY <1>1, <1>2 DEF EngineInv, TypeOK, NodeTypeOK, Free
<1>4. Place'
  BY <1>1 DEF EngineInv, Place
<1>5. BusyPlace' /\ Crowd'
  <2>1. \A n \in Nodes : node'[n].phase = "rest"
    BY <1>1, <1>2, RestWhenJoined
  <2> QED
    BY <2>1, QuietKeeps, EngineAssumption
<1>6. Ends'
  BY <1>1, <1>2 DEF Ends, Free
<1>7. OpenSteers'
  BY <1>1, <1>2 DEF EngineInv, OpenSteers
<1> QED
  BY <1>3, <1>4, <1>5, <1>6, <1>7 DEF EngineInv

-----------------------------------------------------------------------------
(* EngineInv is an inductive invariant.                                      *)
LEMMA InitInv == Init => EngineInv
<1> USE EngineAssumption, Stages
<1> SUFFICES ASSUME Init PROVE EngineInv
  OBVIOUS
<1>1. /\ status = "created" /\ current = NoStage /\ steers = <<>> /\ gateDecisions = <<>>
      /\ pc = "enter" /\ pos = 1 /\ cutStage = NoStage /\ manualRetry = FALSE
      /\ gate = [run |-> "first", timedOut |-> FALSE] /\ decision = Advance /\ lock = Free
  BY DEF Init
<1>2. node \in [Nodes -> NodeRun] /\ \A n \in Nodes : node[n].phase = "rest"
  BY DEF Init, FreshNode, NodeRun
<1>3. TypeOK
  <2>1. <<>> \in Seq(Steer) /\ <<>> \in Seq(1..(Len(Team) + MaxSteers)) /\ Len(<<>>) = 0
    BY EmptySeq
  <2>2. 1 \in Workflow
    OBVIOUS
  <2>3. steers \in Seq(Steer) /\ gateDecisions \in Seq(1..(Len(Team) + MaxSteers))
        /\ Len(steers) <= MaxSteers
    BY <1>1, <2>1
  <2>4. decision \in Decisions /\ gate \in [run : {"first", "fresh", "reask"}, timedOut : BOOLEAN]
    BY <1>1, DecisionsKnown
  <2>5. lock \in [by : {"none", "abort", "retry", "start"}, stage : {NoStage} \cup Workflow]
    BY <1>1 DEF Free
  <2>6. current \in 0..(Len(Team) + MaxSteers) /\ NodeTypeOK
    BY <1>1, <1>2 DEF NoStage, NodeTypeOK
  <2> HIDE DEF NodeTypeOK, Decisions
  <2> QED
    BY <1>1, <2>2, <2>3, <2>4, <2>5, <2>6 DEF TypeOK
<1>4. Place
  BY <1>1 DEF Place, NoStage
<1>5. BusyPlace /\ Crowd
  <2>1. {n \in Nodes : node[n].phase # "rest"} = {}
    BY <1>2
  <2>2. Cardinality({}) = 0
    BY FS_EmptySet
  <2>3. 0 <= MaxParallel
    OBVIOUS
  <2>4. Crowd
    BY <2>1, <2>2, <2>3, Zenon DEF Crowd
  <2> QED
    BY <1>2, <2>4 DEF BusyPlace
<1>6. Ends /\ OpenSteers
  BY <1>1 DEF Ends, OpenSteers, Free
<1> QED
  BY <1>3, <1>4, <1>5, <1>6 DEF EngineInv

LEMMA UserInv == EngineInv /\ User => EngineInv'
BY AbortInv, SteerRunInv, KillNodeInv, RetryGateInv, RetryStageInv DEF User

LEMMA StutterInv == EngineInv /\ UNCHANGED vars => EngineInv'
<1> SUFFICES ASSUME EngineInv, UNCHANGED vars PROVE EngineInv'
  OBVIOUS
<1>1. TypeOK'
  BY DEF EngineInv, vars, TypeOK, NodeTypeOK
<1>2. Place' /\ BusyPlace' /\ Crowd' /\ Ends' /\ OpenSteers'
  BY DEF EngineInv, vars, Place, BusyPlace, Crowd, Ends, OpenSteers, Steered
<1> QED
  BY <1>1, <1>2 DEF EngineInv

LEMMA NextInv == EngineInv /\ [Next]_vars => EngineInv'
<1> SUFFICES ASSUME EngineInv, [Next]_vars PROVE EngineInv'
  OBVIOUS
<1>1. CASE Engine
  BY <1>1, EnterInv, SelectInv, PickInv, StageJoinInv, StartGateInv, GateAnswerInv,
     BetweenInv, ActivateInv, PushInv, SteerJoinInv, ApplyReviewInv, SettleInv,
     ReopenInv, StartExecutionInv, Zenon DEF Engine
<1>2. CASE \E n \in Nodes : Coroutine(n) \/ NodeTimeout(n)
  BY <1>2, NodeRunnerStep, NodeStepInv DEF EngineInv, TypeOK
<1>3. CASE GateTimer
  BY <1>3, GateTimerInv
<1>4. CASE User
  BY <1>4, UserInv
<1>5. CASE UNCHANGED vars
  BY <1>5, StutterInv
<1> QED
  BY <1>1, <1>2, <1>3, <1>4, <1>5 DEF Next, Timers

(* EngineInv holds in every state that the engine, its users, its timers and *)
(* the coroutines of its nodes can reach.                                    *)
THEOREM EngineInvariant == Spec => []EngineInv
BY InitInv, NextInv, PTL DEF Spec

-----------------------------------------------------------------------------
(* The values that the engine, the API and the nodes' coroutines give the    *)
(* run and its nodes are the ones that the code's types allow.               *)
THEOREM TypeCorrect == Spec => []TypeOK
<1>1. EngineInv => TypeOK
  BY DEF EngineInv
<1> QED
  BY <1>1, EngineInvariant, PTL

(* executeNodes never runs more nodes than maxParallel, and nothing runs     *)
(* beside the orchestrator while it judges.                                  *)
THEOREM ConcurrencyIsBounded == Spec => []BoundedConcurrency
<1>1. EngineInv => BoundedConcurrency
  <2> SUFFICES ASSUME EngineInv PROVE BoundedConcurrency
    OBVIOUS
  <2> DEFINE busy == {n \in Nodes : Busy(n)}
  <2>1. Cardinality(busy) <= MaxParallel
    BY DEF EngineInv, Crowd, Busy
  <2>2. ASSUME Orchestrator \in busy PROVE busy = {Orchestrator}
    <3>1. ~(pc = "executing" /\ Orchestrator \in Members(current))
      BY Stages DEF EngineInv, TypeOK, Place, NoStage
    <3>2. pc = "gating"
      BY <2>2, <3>1 DEF EngineInv, BusyPlace, Busy
    <3> QED
      BY <2>2, <3>2 DEF EngineInv, BusyPlace, Busy
  <2> QED
    BY <2>1, <2>2 DEF BoundedConcurrency
<1> QED
  BY <1>1, EngineInvariant, PTL

(* When an execution has settled, nothing of it runs and no steer is open.   *)
THEOREM IdleIsQuiet == Spec => []QuietWhenIdle
<1>1. EngineInv => QuietWhenIdle
  <2> SUFFICES ASSUME EngineInv, pc = "idle"
               PROVE  /\ \A n \in Nodes : ~Busy(n)
                      /\ \A k \in DOMAIN steers : steers[k].status \notin {"pending", "active"}
    BY DEF QuietWhenIdle
  <2>1. \A n \in Nodes : ~Busy(n)
    BY DEF EngineInv, BusyPlace, Busy
  <2>2. \A k \in DOMAIN steers : steers[k].status \notin {"pending", "active"}
    BY DEF EngineInv, OpenSteers
  <2> QED
    BY <2>1, <2>2
<1> QED
  BY <1>1, EngineInvariant, PTL

(* What a step does to the attempt of a busy node: nothing.                  *)
LEMMA AttemptStep ==
    ASSUME EngineInv, Next, NEW n \in Nodes, Busy(n)
    PROVE  node'[n].attempt = node[n].attempt
<1> USE EngineAssumption
<1>1. node \in [Nodes -> NodeRun]
  BY DEF EngineInv, TypeOK, NodeTypeOK
<1>2. CASE SameAttempts(node, node')
  BY <1>2 DEF SameAttempts
<1>3. CASE node' = node
  BY <1>3
<1>4. ASSUME NEW m \in Nodes, NEW a \in BOOLEAN,
             node' = [node EXCEPT ![m] = Started(@, a)]
      PROVE  node'[n].attempt = node[n].attempt
  BY <1>1, <1>4, StartedKeeps
<1>5. CASE Pick
  <2>1. PICK i \in Left(current) :
          node' = [node EXCEPT ![NodesOf(current)[i]] = Started(@, FALSE)]
    BY <1>5 DEF Pick
  <2>2. NodesOf(current)[i] \in Nodes
    BY <1>5, Stages DEF Left, EngineInv, TypeOK, Place, NoStage, Pick
  <2> QED
    BY <1>4, <2>1, <2>2
<1>6. CASE GateTimer
  <2>1. SameAttempts(node, KillLive(node, {Orchestrator}, "gate-timeout"))
    BY <1>1, KillLiveKeeps DEF KillReasons
  <2> QED
    BY <1>2, <1>6, <2>1, Zenon DEF GateTimer
<1>7. CASE \E m \in Nodes : Coroutine(m) \/ NodeTimeout(m)
  <2>1. PICK m \in Nodes : Coroutine(m) \/ NodeTimeout(m)
    BY <1>7
  <2>2. NodeStep(m)
    BY <2>1, NodeRunnerStep DEF EngineInv, TypeOK
  <2> QED
    BY <2>2 DEF NodeStep
<1>8. CASE User
  <2>1. SameAttempts(node, KillLive(MarkKilled(node, Nodes), Nodes, "abort"))
    BY <1>1, AbortKeeps
  <2>2. \A S, why : why \in KillReasons => SameAttempts(node, KillLive(node, S, why))
    BY <1>1, KillLiveKeeps
  <2>3. \A S : SameAttempts(node, MarkKilled(node, S))
    BY <1>1, MarkKilledKeeps
  <2>4. {"steer", "user", "user-retry"} \subseteq KillReasons
    BY DEF KillReasons
  <2>5. CASE Abort
    BY <1>2, <2>1, <2>5, Zenon DEF Abort
  <2>6. ASSUME NEW mode \in {"interrupt", "queue"}, SteerRun(mode)
        PROVE  node'[n].attempt = node[n].attempt
    <3>1. node' = node \/ node' = KillLive(node, Nodes, "steer")
      BY <2>6 DEF SteerRun
    <3>2. SameAttempts(node, KillLive(node, Nodes, "steer"))
      BY <2>2, <2>4
    <3> QED
      BY <1>2, <1>3, <3>1, <3>2, Zenon
  <2>7. ASSUME NEW m \in KillTargets, KillNode(m)
        PROVE  node'[n].attempt = node[n].attempt
    <3>1. node' = MarkKilled(node, {m}) \/ node' = KillLive(node, {m}, "user")
      BY <2>7 DEF KillNode
    <3>2. SameAttempts(node, KillLive(node, {m}, "user"))
      BY <2>2, <2>4
    <3> QED
      BY <1>2, <2>3, <3>1, <3>2, Zenon
  <2>8. ASSUME NEW s \in Workflow, RetryGate(s) \/ RetryStage(s)
        PROVE  node'[n].attempt = node[n].attempt
    <3>1. node' = node \/ node' = KillLive(node, {Orchestrator}, "user-retry")
      BY <2>8 DEF RetryGate, RetryStage
    <3>2. SameAttempts(node, KillLive(node, {Orchestrator}, "user-retry"))
      BY <2>2, <2>4
    <3> QED
      BY <1>2, <1>3, <3>1, <3>2, Zenon
  <2> QED
    BY <1>8, <2>5, <2>6, <2>7, <2>8 DEF User
<1>9. CASE Engine /\ ~Pick
  <2>1. CASE \A m \in Nodes : node[m].phase = "rest"
    BY <2>1 DEF Busy
  <2>2. CASE pc \in {"executing", "gating"}
    <3>1. \/ BusyNodes(current) = {} /\ pc = "executing"
          \/ ~Busy(Orchestrator) /\ pc = "gating"
      BY <1>9, <2>2 DEF EngineInv, Ends, Engine, Enter, Select, StageJoin, StartGate,
         GateAnswer, Between, BetweenUpTo, Activate, Push, SteerJoin, Joined,
         ApplyReview, Settle, Reopen, ReopenWithin, StartExecution
    <3> QED
      BY <2>1, <3>1, RestWhenJoined
  <2>3. CASE pc \notin {"executing", "gating"}
    BY <2>1, <2>3, RestWhenJoined
  <2> QED
    BY <2>2, <2>3
<1> QED
  BY <1>5, <1>6, <1>7, <1>8, <1>9 DEF Next, Timers, Engine

(* A node gets another attempt only when the coroutine of its last attempt   *)
(* has ended.                                                                *)
THEOREM AttemptsStayApart == Spec => AttemptsApart
<1>1. EngineInv /\ [Next]_vars
        => [\A n \in Nodes : node'[n].attempt # node[n].attempt => ~Busy(n)]_vars
  BY AttemptStep
<1> QED
  BY <1>1, EngineInvariant, PTL DEF Spec, AttemptsApart

-----------------------------------------------------------------------------
(* A coroutine that has not spawned yet: nothing looks up a runtime, and its *)
(* node is still queued unless it was killed.                                *)
Waiting ==
    \A n \in Nodes :
      /\ node[n].phase # "resolve"
      /\ node[n].phase = "prep" => node[n].status \in {"queued", "killed"}

(* A node that gets its child in this step was queued, in a run that is not  *)
(* aborted.                                                                  *)
Wins == \A n \in Nodes : ~Live(n) /\ Live(n)' => ~Aborted /\ node[n].status = "queued"

(* Steps after which a node is where it was, and was at most killed.         *)
Fading(f, g) ==
    \A n \in Nodes : /\ g[n].phase = f[n].phase
                     /\ g[n].status = f[n].status \/ g[n].status = "killed"

LEMMA FadingKeeps ==
    ASSUME Waiting, Fading(node, node')
    PROVE  Waiting' /\ Wins
BY DEF Waiting, Wins, Fading, Live

LEMMA KillsFade ==
    ASSUME NEW f \in [Nodes -> NodeRun], NEW S
    PROVE  /\ Fading(f, f)
           /\ Fading(f, MarkKilled(f, S))
           /\ \A why : Fading(f, KillLive(f, S, why))
BY DEF Fading, MarkKilled, KillLive, NodeRun

LEMMA AbortFades ==
    ASSUME NEW f \in [Nodes -> NodeRun]
    PROVE  Fading(f, KillLive(MarkKilled(f, Nodes), Nodes, "abort"))
<1> DEFINE h == MarkKilled(f, Nodes)
           g == KillLive(h, Nodes, "abort")
<1>1. h \in [Nodes -> NodeRun] /\ Fading(f, h)
  BY MarkKilledKeeps, KillsFade DEF Calm
<1> HIDE DEF h
<1>2. Fading(h, g)
  BY <1>1, KillsFade
<1> HIDE DEF g
<1>3. Fading(f, g)
  BY <1>1, <1>2 DEF Fading
<1> QED
  BY <1>3 DEF g, h

(* A node starts, in a run that is asked whether it is aborted or is not.    *)
LEMMA StartKeeps ==
    ASSUME NodeTypeOK, Waiting, NEW n \in Nodes, NEW nd \in NodeRun, nd.status = "queued",
           NEW aborted \in BOOLEAN, node' = [node EXCEPT ![n] = Started(nd, aborted)]
    PROVE  Waiting' /\ Wins
<1> DEFINE next == Started(nd, aborted)
<1>1. /\ next.phase \in {"prep", "save"}
      /\ next.phase = "prep" => next.status = "queued"
  BY DEF Started, NodeRun
<1>2. node' = [node EXCEPT ![n] = next]
  OBVIOUS
<1> HIDE DEF next
<1> QED
  BY <1>1, <1>2 DEF NodeTypeOK, Waiting, Wins, Live

(* Nobody starts while all nodes are at rest.                                *)
LEMMA RestKeeps ==
    ASSUME \A n \in Nodes : node'[n].phase = "rest"
    PROVE  Waiting' /\ Wins
BY DEF Waiting, Wins, Live

(* What runNode and its timer do.                                            *)
LEMMA CoroutineWaits ==
    ASSUME EngineInv, Waiting, RuntimeNodes = {}, NEW n \in Nodes, Coroutine(n) \/ NodeTimeout(n)
    PROVE  Waiting' /\ Wins
<1> DEFINE nd == node[n]
<1>0. nd \in NodeRun /\ node \in [Nodes -> NodeRun]
  BY DEF EngineInv, TypeOK, NodeTypeOK
<1>1. ASSUME NEW next, next.phase \notin {"prep", "resolve"},
             node' = [node EXCEPT ![n] = next],
             next.phase = "live" /\ nd.phase # "live" => ~Aborted /\ nd.status = "queued"
      PROVE  Waiting' /\ Wins
  BY <1>0, <1>1 DEF Waiting, Wins, Live
<1>2. Spawned(nd).phase = "live" /\ Failed(nd).phase = "save"
  BY <1>0 DEF Spawned, Failed, NodeRun
<1>3. nd.phase # "resolve" /\ (nd.phase = "prep" => nd.status \in {"queued", "killed"})
  BY DEF Waiting
<1>4. CASE NodePrepared(n)
  <2> DEFINE killed == [nd EXCEPT !.status = "killed", !.phase = "save"]
  <2>1. killed.phase = "save"
    BY <1>0 DEF NodeRun
  <2>2. /\ nd.phase = "prep"
        /\ \/ node' = [node EXCEPT ![n] = killed]
           \/ node' = [node EXCEPT ![n] = Failed(nd)]
           \/ node' = [node EXCEPT ![n] = Spawned(nd)] /\ ~Aborted /\ nd.status # "killed"
    BY <1>0, <1>4 DEF NodePrepared, Prepared
  <2> QED
    BY <1>1, <1>2, <1>3, <2>1, <2>2
<1>5. CASE NodeResolved(n)
  BY <1>3, <1>5 DEF NodeResolved, Resolved
<1>6. CASE NodeExit(n)
  <2> DEFINE ended(end) == [nd EXCEPT !.status = end, !.phase = "finish",
                                      !.reason = "none", !.timer = FALSE]
  <2>1. PICK end \in {"killed", "done", "failed"} : node' = [node EXCEPT ![n] = ended(end)]
    BY <1>0, <1>6 DEF NodeExit, Exit, Live
  <2>2. ended(end).phase = "finish"
    BY <1>0 DEF NodeRun
  <2> QED
    BY <1>1, <2>1, <2>2
<1>7. CASE NodeFinish(n)
  <2> DEFINE rested == [nd EXCEPT !.phase = "rest"]
             passed == [rested EXCEPT !.check = "passed"]
             failed == [rested EXCEPT !.check = "failed"]
             spoilt == [rested EXCEPT !.check = "failed",
                                      !.status = IF @ = "done" THEN "failed" ELSE @]
  <2>1. rested.phase = "rest" /\ passed.phase = "rest" /\ failed.phase = "rest"
        /\ spoilt.phase = "rest"
    BY <1>0 DEF NodeRun
  <2>2. \E next \in {rested, passed, failed, spoilt} : node' = [node EXCEPT ![n] = next]
    BY <1>7 DEF NodeFinish, Finish
  <2> QED
    BY <1>1, <2>1, <2>2
<1>8. CASE NodeSaved(n)
  <2> DEFINE rested == [nd EXCEPT !.phase = "rest"]
  <2>1. rested.phase = "rest" /\ node' = [node EXCEPT ![n] = rested]
    BY <1>0, <1>8 DEF NodeSaved, Saved, NodeRun
  <2> QED
    BY <1>1, <2>1
<1>9. CASE NodeTimeout(n)
  <2> DEFINE late == [nd EXCEPT !.reason = "timeout", !.timer = FALSE]
  <2>1. late.phase = nd.phase /\ nd.phase = "live" /\ node' = [node EXCEPT ![n] = late]
    BY <1>0, <1>9 DEF NodeTimeout, HardTimeout, Live, NodeRun
  <2> QED
    BY <1>1, <2>1
<1> QED
  BY <1>4, <1>5, <1>6, <1>7, <1>8, <1>9 DEF Coroutine

(* The gate is asked while everyone is at rest.                              *)
LEMMA AskWaits ==
    ASSUME EngineInv, Waiting, NEW run, NEW attempt \in Nat, Ask(run, attempt)
    PROVE  Waiting' /\ Wins
<1> DEFINE nd == [node[Orchestrator] EXCEPT !.status = "queued", !.attempt = attempt]
<1>1. node \in [Nodes -> NodeRun] /\ Orchestrator \in Nodes
  BY EngineAssumption DEF EngineInv, TypeOK, NodeTypeOK
<1>2. nd \in NodeRun /\ nd.status = "queued"
  BY <1>1 DEF NodeRun
<1>3. node' = [node EXCEPT ![Orchestrator] = Started(nd, Aborted)] /\ Aborted \in BOOLEAN
  BY <1>1 DEF Ask, Aborted
<1> HIDE DEF nd
<1> QED
  BY <1>1, <1>2, <1>3, StartKeeps DEF NodeTypeOK

(* Every other step of the execution comes while all nodes are at rest, and  *)
(* lets them stay there.                                                     *)
SamePhases(f, g) == \A n \in Nodes : g[n].phase = f[n].phase

LEMMA PhasesStay ==
    ASSUME NEW f \in [Nodes -> NodeRun]
    PROVE  /\ SamePhases(f, f)
           /\ \A S : SamePhases(f, ResetForRetry(f, S)) /\ SamePhases(f, MarkKilled(f, S))
           /\ SamePhases(f, KillLive(MarkKilled(f, Nodes), Nodes, "abort"))
BY ResetKeeps, MarkKilledKeeps, AbortKeeps DEF SamePhases, Calm

LEMMA EngineWaits ==
    ASSUME EngineInv, Waiting, Engine
    PROVE  Waiting' /\ Wins
<1> USE EngineAssumption
<1>0. node \in [Nodes -> NodeRun]
  BY DEF EngineInv, TypeOK, NodeTypeOK
<1>1. CASE Pick
  <2>1. PICK i \in Left(current) :
          node' = [node EXCEPT ![NodesOf(current)[i]] = Started(@, FALSE)]
    BY <1>1 DEF Pick
  <2> DEFINE n == NodesOf(current)[i]
  <2>2. n \in Nodes /\ node[n].status = "queued"
    BY <1>1, Stages DEF Left, EngineInv, TypeOK, Place, NoStage, Pick
  <2>3. node' = [node EXCEPT ![n] = Started(node[n], FALSE)] /\ node[n] \in NodeRun
    BY <1>0, <2>1, <2>2
  <2> HIDE DEF n
  <2> QED
    BY <1>0, <2>2, <2>3, StartKeeps DEF NodeTypeOK
<1>2. ASSUME NEW run, NEW attempt, Ask(run, attempt),
             attempt = node[Orchestrator].attempt \/ attempt = Len(gateDecisions) + 1
      PROVE  Waiting' /\ Wins
  <2>1. attempt \in Nat
    BY <1>0, <1>2 DEF EngineInv, TypeOK, NodeRun
  <2> QED
    BY <1>2, <2>1, AskWaits
<1>3. CASE StartGate
  BY <1>2, <1>3 DEF StartGate
<1>4. ASSUME node' = node PROVE Waiting' /\ Wins
  BY <1>0, <1>4, KillsFade, FadingKeeps
<1>5. ASSUME \A n \in Nodes : node[n].phase = "rest", SamePhases(node, node')
      PROVE  Waiting' /\ Wins
  BY <1>5, RestKeeps DEF SamePhases
<1>6. ASSUME NEW d, Decide(d), \A n \in Nodes : node[n].phase = "rest"
      PROVE  Waiting' /\ Wins
  <2>1. PICK S : node' = ResetForRetry(node, S)
    BY <1>6 DEF Decide, DecideWithin
  <2>2. SamePhases(node, node')
    BY <1>0, <2>1, PhasesStay, Zenon
  <2> QED
    BY <1>5, <1>6, <2>2
<1>7. CASE StageJoin
  <2>1. \A n \in Nodes : node[n].phase = "rest"
    BY <1>7, RestWhenJoined DEF StageJoin, Joined
  <2>2. CASE Decide(Advance)
    BY <1>6, <2>1, <2>2
  <2>3. CASE ~Decide(Advance)
    BY <1>4, <1>7, <2>3 DEF StageJoin
  <2> QED
    BY <2>2, <2>3
<1>8. CASE GateAnswer
  <2>1. \A n \in Nodes : node[n].phase = "rest"
    BY <1>8, RestWhenJoined DEF GateAnswer
  <2>2. ASSUME NEW d, Judged(d) PROVE Waiting' /\ Wins
    <3>1. CASE Decide(d)
      BY <1>6, <2>1, <3>1
    <3>2. CASE ~Decide(d)
      BY <1>4, <2>2, <3>2 DEF Judged, Review
    <3> QED
      BY <3>1, <3>2
  <2> QED
    BY <1>2, <1>8, <2>2 DEF GateAnswer
<1>9. CASE SteerJoin
  <2>1. \A n \in Nodes : node[n].phase = "rest"
    BY <1>9, RestWhenJoined DEF SteerJoin, Joined
  <2>2. node' = node \/ \E S : node' = MarkKilled(node, S)
    BY <1>9 DEF SteerJoin, Review
  <2>3. SamePhases(node, node')
    BY <1>0, <2>2, PhasesStay, Zenon
  <2> QED
    BY <1>5, <2>1, <2>3
<1>10. CASE ApplyReview
  <2>1. \A n \in Nodes : node[n].phase = "rest"
    BY <1>10, RestWhenJoined DEF ApplyReview
  <2>2. \/ node' = node \/ \E S : node' = ResetForRetry(node, S)
        \/ node' = KillLive(MarkKilled(node, Nodes), Nodes, "abort")
    BY <1>10 DEF ApplyReview
  <2>3. SamePhases(node, node')
    BY <1>0, <2>2, PhasesStay, Zenon
  <2> QED
    BY <1>5, <2>1, <2>3
<1>11. CASE Push
  <2>1. \A n \in Nodes : node[n].phase = "rest"
    BY <1>11, RestWhenJoined DEF Push
  <2>2. \A n \in Nodes : node'[n].phase = "rest"
    BY <1>0, <1>11, <2>1 DEF Push, FreshNode
  <2> QED
    BY <2>2, RestKeeps
<1>12. CASE Reopen
  <2>1. \A n \in Nodes : node[n].phase = "rest"
    BY <1>12, RestWhenJoined DEF Reopen, ReopenWithin
  <2> DEFINE again == ResetForRetry(node, Members(lock.stage))
  <2>2. \/ node' = node
        \/ \E later : node' = [n \in Nodes |->
              IF n \in later /\ again[n].status = "killed"
                THEN [again[n] EXCEPT !.status = "queued"] ELSE again[n]]
    BY <1>12 DEF Reopen, ReopenWithin
  <2>3. Calm(node, again)
    BY <1>0, ResetKeeps
  <2> HIDE DEF again
  <2>4. ASSUME NEW n \in Nodes PROVE node'[n].phase = node[n].phase
    <3>1. again[n] \in NodeRun /\ again[n].phase = node[n].phase
      BY <2>3 DEF Calm
    <3>2. node'[n] \in {node[n], again[n], [again[n] EXCEPT !.status = "queued"]}
      BY <2>2
    <3>3. [again[n] EXCEPT !.status = "queued"].phase = again[n].phase
      BY <3>1 DEF NodeRun
    <3> QED
      BY <3>1, <3>2, <3>3
  <2>5. SamePhases(node, node')
    BY <2>4 DEF SamePhases
  <2> QED
    BY <1>5, <2>1, <2>5
<1>13. CASE Enter \/ Select \/ Between \/ Activate \/ Settle \/ StartExecution
  BY <1>4, <1>13 DEF Enter, Select, Between, BetweenUpTo, Activate, Settle, StartExecution
<1> QED
  BY <1>1, <1>3, <1>7, <1>8, <1>9, <1>10, <1>11, <1>12, <1>13 DEF Engine

(* What users and the deadline of the gate do to a node is at most to kill   *)
(* it.                                                                       *)
LEMMA UserWaits ==
    ASSUME EngineInv, Waiting, User \/ GateTimer
    PROVE  Waiting' /\ Wins
<1>0. node \in [Nodes -> NodeRun]
  BY DEF EngineInv, TypeOK, NodeTypeOK
<1>1. \/ node' = node \/ \E S : node' = MarkKilled(node, S)
      \/ \E S, why : node' = KillLive(node, S, why)
      \/ node' = KillLive(MarkKilled(node, Nodes), Nodes, "abort")
  <2>1. CASE GateTimer
    BY <2>1 DEF GateTimer
  <2>2. CASE Abort
    BY <2>2 DEF Abort
  <2>3. CASE \E mode \in {"interrupt", "queue"} : SteerRun(mode)
    BY <2>3 DEF SteerRun
  <2>4. CASE \E n \in KillTargets : KillNode(n)
    BY <2>4 DEF KillNode
  <2>5. CASE \E s \in Workflow : RetryGate(s) \/ RetryStage(s)
    BY <2>5 DEF RetryGate, RetryStage
  <2> QED
    BY <2>1, <2>2, <2>3, <2>4, <2>5 DEF User
<1>2. Fading(node, node')
  BY <1>0, <1>1, KillsFade, AbortFades, Zenon
<1> QED
  BY <1>2, FadingKeeps

LEMMA WaitingNext ==
    RuntimeNodes = {} /\ EngineInv /\ Waiting /\ [Next]_vars => Waiting' /\ (Wins \/ UNCHANGED vars)
<1> SUFFICES ASSUME RuntimeNodes = {}, EngineInv, Waiting, [Next]_vars
             PROVE  Waiting' /\ (Wins \/ UNCHANGED vars)
  OBVIOUS
<1>1. CASE UNCHANGED vars
  BY <1>1 DEF vars, Waiting
<1> QED
  BY <1>1, EngineWaits, UserWaits, CoroutineWaits DEF Next, Timers

(* A node is spawned only while it is queued and its run is not aborted: a   *)
(* kill or an abort that came while the node was prepared wins. This is what *)
(* nodeRunner.ts promises, and it holds where no runtime has to be looked up *)
(* between the check and the spawn (with such a lookup it does not: see the  *)
(* run that violates it).                                                    *)
THEOREM KillWinsHolds == RuntimeNodes = {} => (Spec => KillWins)
<1> SUFFICES ASSUME RuntimeNodes = {} PROVE Spec => KillWins
  OBVIOUS
<1>1. Init => Waiting
  BY DEF Init, Waiting, FreshNode
<1>2. EngineInv /\ Waiting /\ [Next]_vars => Waiting' /\ [Wins]_vars
  BY WaitingNext
<1>3. Wins => \A n \in Nodes : ~Live(n) /\ Live(n)' => ~Aborted /\ node[n].status = "queued"
  BY DEF Wins
<1> QED
  BY <1>1, <1>2, <1>3, EngineInvariant, PTL DEF Spec, KillWins, Wins

-----------------------------------------------------------------------------
(* What a step does to the status of the run and to its steers, as those see *)
(* it who watch the snapshot: the steps of RunLifecycle.                     *)
Statuses == [k \in DOMAIN steers |-> steers[k].status]
Quiet    == pc = "idle" /\ status \in Terminal

(* The execution goes on, and the status may change while it is not over.    *)
Progress ==
    /\ pc # "idle" /\ pc' # "idle" /\ steers' = steers
    /\ \/ status' = status
       \/ status \notin Terminal /\ status' \in {"running", "gating", "failed", "aborted"}
       \/ /\ status \notin Terminal /\ status' = "done"
          /\ pc \in {"boundary", "steers"} /\ Pending = {}

(* The execution's place and the status stay.                                *)
Still == pc' = pc /\ steers' = steers /\ status' = status

(* A steer has been carried out, or was superseded.                          *)
Closing ==
    /\ pc = "executing" \/ pc = "gating"
    /\ pc' # "idle" /\ status \notin Terminal /\ current \notin Workflow
    /\ \/ /\ steers' = [steers EXCEPT ![Steered].status = "reviewed"] /\ status' = "running"
       \/ /\ steers' = [steers EXCEPT ![Steered].status = "superseded"] /\ status' = status

(* The execution is over, and starts again.                                  *)
Resting   == pc = "settle" /\ Settle
Reopening == \/ Reopen
             \/ StartExecution

LEMMA DecideProgress ==
    ASSUME pc \in {"executing", "gating"}, status \notin Terminal, NEW d, Decide(d)
    PROVE  Progress
BY DEF Decide, DecideWithin, Progress

(* Every step of the engine is of one of these kinds.                        *)
LEMMA StepKinds ==
    ASSUME EngineInv, [Next]_vars
    PROVE  \/ Progress \/ Still \/ Closing \/ Activate \/ Resting \/ Reopening
           \/ \E mode \in {"interrupt", "queue"} : SteerRun(mode)
<1>1. CASE UNCHANGED vars
  BY <1>1 DEF vars, Still
<1>2. CASE Pick \/ GateTimer
  BY <1>2 DEF Pick, GateTimer, Still
<1>3. CASE \E n \in Nodes : Coroutine(n) \/ NodeTimeout(n)
  BY <1>3, NodeRunnerStep DEF EngineInv, TypeOK, NodeStep, Others, Still
<1>4. CASE User
  <2>1. CASE Abort
    <3>1. pc # "idle"
      BY <2>1 DEF Abort, EngineInv, Ends, Free
    <3> QED
      BY <2>1, <3>1 DEF Abort, Execution, Progress
  <2>2. CASE \E n \in KillTargets : KillNode(n)
    BY <2>2 DEF KillNode, Execution, Still
  <2>3. CASE \E s \in Workflow : RetryGate(s) \/ RetryStage(s)
    BY <2>3 DEF RetryGate, RetryStage, Execution, Still
  <2> QED
    BY <1>4, <2>1, <2>2, <2>3 DEF User
<1>5. CASE Enter \/ Select \/ Push \/ StartGate \/ Between \/ ApplyReview
  <2>1. pc # "idle" /\ pc' # "idle" /\ steers' = steers
    BY <1>5 DEF Enter, Select, Push, StartGate, Ask, Between, BetweenUpTo, ApplyReview
  <2>2. CASE Select \/ Push \/ StartGate
    BY <2>1, <2>2 DEF Progress, Select, Push, StartGate, Ask
  <2>3. CASE Enter \/ ApplyReview
    BY <2>1, <2>3 DEF Progress, Enter, ApplyReview, Aborted, EngineInv, Ends, Terminal
  <2>4. CASE Between
    BY <2>1, <2>4 DEF Progress, Between, BetweenUpTo, Stopped, EngineInv, Ends, Terminal
  <2> QED
    BY <1>5, <2>2, <2>3, <2>4
<1>6. CASE StageJoin
  <2>1. pc = "executing" /\ status \notin {"done", "failed"}
    BY <1>6 DEF StageJoin, Joined, EngineInv, Ends
  <2>2. CASE ~Aborted /\ Decide(Advance)
    BY <2>1, <2>2, DecideProgress DEF Aborted, Terminal
  <2>3. CASE ~(~Aborted /\ Decide(Advance))
    BY <1>6, <2>1, <2>3 DEF StageJoin, Progress, Aborted, Terminal
  <2> QED
    BY <2>2, <2>3
<1>7. ASSUME NEW d, pc \in {"executing", "gating"}, Judged(d)
      PROVE  Progress \/ Closing
  <2>1. status \notin {"done", "failed"}
    BY <1>7 DEF EngineInv, Ends
  <2>2. CASE Aborted
    BY <1>7, <2>2 DEF Judged, Progress
  <2>3. CASE ~Aborted /\ current \in Workflow
    BY <1>7, <2>1, <2>3, DecideProgress DEF Judged, Aborted, Terminal
  <2>4. CASE ~Aborted /\ current \notin Workflow
    BY <1>7, <2>1, <2>4 DEF Judged, Review, Closing, Aborted, Terminal
  <2> QED
    BY <2>2, <2>3, <2>4
<1>8. CASE GateAnswer
  <2>1. pc = "gating"
    BY <1>8 DEF GateAnswer
  <2>2. CASE \E d : Judged(d)
    BY <1>7, <2>1, <2>2
  <2>3. CASE \E run, attempt : Ask(run, attempt)
    BY <2>1, <2>3 DEF Ask, Progress
  <2> QED
    BY <1>8, <2>2, <2>3 DEF GateAnswer
<1>9. CASE SteerJoin
  <2>1. /\ pc = "executing" /\ status \notin {"done", "failed"} /\ current \notin Workflow
    BY <1>9 DEF SteerJoin, Joined, EngineInv, Ends
  <2>2. CASE Aborted
    BY <1>9, <2>1, <2>2 DEF SteerJoin, Progress
  <2>3. CASE ~Aborted
    BY <1>9, <2>1, <2>3 DEF SteerJoin, Review, Progress, Closing, Aborted, Terminal
  <2> QED
    BY <2>2, <2>3
<1>10. CASE Activate \/ Settle \/ Reopen \/ StartExecution
  BY <1>10 DEF Settle, Resting, Reopening
<1> QED
  BY <1>1, <1>2, <1>3, <1>4, <1>5, <1>6, <1>8, <1>9, <1>10 DEF Next, Engine, Timers, User

(* The end of a run is final: only a retry of its last stage, which waits    *)
(* until the execution has settled, changes the status of a run that is over.*)
THEOREM EndsAreFinal == Spec => TerminalIsFinal
<1>1. EngineInv /\ [Next]_vars
        => [(status \in Terminal /\ status' # status)
              => lock.by = "retry" /\ pc = "idle"]_vars
  <2> SUFFICES ASSUME EngineInv, [Next]_vars, status \in Terminal, status' # status
               PROVE  lock.by = "retry" /\ pc = "idle"
    OBVIOUS
  <2>1. CASE Progress \/ Still \/ Closing \/ Activate \/ Resting
    BY <2>1 DEF Progress, Still, Closing, Activate, Resting, Settle
  <2>2. CASE \E mode \in {"interrupt", "queue"} : SteerRun(mode)
    BY <2>2 DEF SteerRun
  <2>3. CASE Reopening
    BY <2>3 DEF Reopening, Reopen, ReopenWithin, StartExecution
  <2> QED
    BY <2>1, <2>2, <2>3, StepKinds
<1> QED
  BY <1>1, EngineInvariant, PTL DEF Spec, TerminalIsFinal

-----------------------------------------------------------------------------
(* The engine implements RunLifecycle: every step is one of its steps, or    *)
(* changes nothing that it speaks of.                                        *)
LEMMA StatusesFacts ==
    ASSUME EngineInv
    PROVE  /\ Statuses \in Seq(Lifecycle!Open \cup Lifecycle!Closed)
           /\ Len(Statuses) = Len(steers) /\ DOMAIN Statuses = DOMAIN steers
           /\ \A k \in DOMAIN steers : Statuses[k] = steers[k].status
<1> DEFINE V == Lifecycle!Open \cup Lifecycle!Closed
<1>1. steers \in Seq(Steer) /\ Len(steers) \in Nat /\ DOMAIN steers = 1..Len(steers)
  BY DEF EngineInv, TypeOK
<1>2. ASSUME NEW k \in 1..Len(steers) PROVE steers[k].status \in V
  <2>1. steers[k] \in Steer
    BY <1>1
  <2> QED
    BY <2>1 DEF Steer, Lifecycle!Open, Lifecycle!Closed
<1> HIDE DEF V
<1>3. Statuses \in [1..Len(steers) -> V]
  BY <1>1, <1>2 DEF Statuses
<1>4. Statuses \in Seq(V) /\ Len(Statuses) = Len(steers)
  BY <1>1, <1>3, FunctionIsSeq
<1> QED
  BY <1>4 DEF Statuses, V

LEMMA InitLifecycle == Init => Lifecycle!Init
<1> SUFFICES ASSUME Init PROVE Lifecycle!Init
  OBVIOUS
<1>1. Statuses = <<>>
  BY DEF Init, Statuses
<1> QED
  BY <1>1 DEF Init, Lifecycle!Init, Statuses

(* A step that leaves the steers alone.                                      *)
LEMMA ProgressLifecycle ==
    ASSUME EngineInv, Progress
    PROVE  [Lifecycle!Next]_(Lifecycle!vars)
<1>1. Statuses' = Statuses /\ ~Quiet /\ ~Quiet'
  BY DEF Progress, Statuses, Quiet
<1>2. CASE status' = status
  BY <1>1, <1>2 DEF Lifecycle!vars, Statuses, Quiet
<1>3. CASE status \notin Terminal /\ status' \in {"running", "gating"}
  <2>1. Lifecycle!Work
    BY <1>1, <1>3 DEF Lifecycle!Work, Lifecycle!Terminal, Lifecycle!Working,
       Terminal, Statuses, Quiet
  <2> QED
    BY <2>1 DEF Lifecycle!Next
<1>4. CASE status \notin Terminal /\ status' \in {"failed", "aborted"}
  <2>1. Lifecycle!End
    BY <1>1, <1>4 DEF Lifecycle!End, Lifecycle!Terminal, Terminal, Statuses, Quiet
  <2> QED
    BY <2>1 DEF Lifecycle!Next
<1>5. CASE /\ status \notin Terminal /\ status' = "done"
           /\ pc \in {"boundary", "steers"} /\ Pending = {}
  <2>1. ASSUME NEW k \in DOMAIN Statuses PROVE Statuses[k] \in Lifecycle!Closed
    <3>1. /\ k \in DOMAIN steers /\ Statuses[k] = steers[k].status
          /\ steers[k] \in Steer
      BY DEF Statuses, EngineInv, TypeOK
    <3>2. steers[k].status \notin {"pending", "active"}
      BY <1>5, <3>1 DEF Pending, EngineInv, OpenSteers
    <3> QED
      BY <3>1, <3>2 DEF Steer, Lifecycle!Closed
  <2>2. Lifecycle!End
    BY <1>1, <1>5, <2>1 DEF Lifecycle!End, Lifecycle!Terminal, Terminal, Statuses, Quiet
  <2> QED
    BY <2>2 DEF Lifecycle!Next
<1> QED
  BY <1>2, <1>3, <1>4, <1>5 DEF Progress

(* The execution settles: the run rests and its open steers expire.          *)
LEMMA SettleLifecycle ==
    ASSUME EngineInv, Resting
    PROVE  Lifecycle!Rest
<1>1. /\ pc = "settle" /\ pc' = "idle" /\ status' = status /\ status \in Terminal
      /\ steers' = [k \in DOMAIN steers |->
           IF steers[k].status \in {"pending", "active"}
             THEN [steers[k] EXCEPT !.status = "expired"] ELSE steers[k]]
  BY DEF Resting, Settle, EngineInv, Ends
<1>2. ASSUME NEW k \in DOMAIN steers
      PROVE  steers'[k].status = IF Statuses[k] \in Lifecycle!Open
                                   THEN "expired" ELSE Statuses[k]
  <2>1. steers[k] \in Steer
    BY DEF EngineInv, TypeOK
  <2> QED
    BY <1>1, <2>1 DEF Steer, Statuses, Lifecycle!Open
<1>3. DOMAIN Statuses = DOMAIN steers /\ DOMAIN steers' = DOMAIN steers
  BY <1>1 DEF Statuses
<1>4. Statuses' = [k \in DOMAIN Statuses |->
                     IF Statuses[k] \in Lifecycle!Open THEN "expired" ELSE Statuses[k]]
  BY <1>2, <1>3 DEF Statuses
<1> QED
  BY <1>1, <1>4 DEF Lifecycle!Rest, Lifecycle!Terminal, Terminal, Statuses

(* steerRun: a message is accepted.                                          *)
LEMMA SteerLifecycle ==
    ASSUME EngineInv, NEW mode \in {"interrupt", "queue"}, SteerRun(mode)
    PROVE  Lifecycle!Accept
<1>1. PICK s : steers' = Append(steers, s) /\ s.status = "pending"
  BY DEF SteerRun
<1>2. /\ status \notin Terminal /\ status' = status /\ Len(steers) < MaxSteers
      /\ steers \in Seq(Steer)
  BY DEF SteerRun, EngineInv, TypeOK
<1>3. /\ Len(steers') = Len(steers) + 1 /\ Len(steers) \in Nat
      /\ DOMAIN steers' = 1..(Len(steers) + 1)
      /\ steers'[Len(steers) + 1] = s
      /\ \A k \in 1..Len(steers) : steers'[k] = steers[k]
  BY <1>1, <1>2
<1>4. Statuses' = [k \in 1..(Len(steers) + 1) |->
                     IF k = Len(steers) + 1 THEN "pending" ELSE steers[k].status]
  BY <1>1, <1>3 DEF Statuses
<1>5. /\ Len(Statuses) = Len(steers) /\ DOMAIN Statuses = 1..Len(steers)
      /\ \A k \in 1..Len(steers) : Statuses[k] = steers[k].status
      /\ Statuses \in Seq(Lifecycle!Open \cup Lifecycle!Closed)
  BY <1>2, StatusesFacts
<1>6. Statuses' = Append(Statuses, "pending")
  <2> DEFINE q == Statuses
             r == Statuses'
             n == Len(steers)
             V == Lifecycle!Open \cup Lifecycle!Closed
  <2>1. "pending" \in V
    BY DEF Lifecycle!Open
  <2>2. /\ q \in Seq(V) /\ Len(q) = n /\ n \in Nat
        /\ \A k \in 1..(n + 1) : r[k] = IF k = n + 1 THEN "pending" ELSE q[k]
    BY <1>3, <1>4, <1>5
  <2>3. r = [k \in 1..(n + 1) |-> r[k]]
    BY <1>4
  <2> HIDE DEF q, r, n, V
  <2>4. r \in [1..(n + 1) -> V]
    BY <2>1, <2>2, <2>3
  <2>5. r \in Seq(V) /\ Len(r) = n + 1
    BY <2>2, <2>4, FunctionIsSeq
  <2>6. /\ Append(q, "pending") \in Seq(V) /\ Len(Append(q, "pending")) = n + 1
        /\ \A k \in 1..(n + 1) : Append(q, "pending")[k] = r[k]
    BY <2>1, <2>2, AppendProperties
  <2>7. r = Append(q, "pending")
    BY <2>5, <2>6, SeqEqual
  <2> QED
    BY <2>7 DEF q, r
<1> QED
  BY <1>2, <1>5, <1>6 DEF Lifecycle!Accept, Lifecycle!Terminal, Terminal, Statuses

(* One steer gets another status, the others keep theirs.                    *)
LEMMA OneStatus ==
    ASSUME EngineInv, NEW k \in DOMAIN steers, NEW st,
           DOMAIN steers' = DOMAIN steers, steers'[k].status = st,
           \A j \in DOMAIN steers \ {k} : steers'[j].status = steers[j].status
    PROVE  Statuses' = [Statuses EXCEPT ![k] = st]
BY DEF Statuses

(* runSteerCycle takes up the first message that is still open.              *)
LEMMA ActivateLifecycle ==
    ASSUME EngineInv, Activate
    PROVE  \E k \in DOMAIN Statuses : Lifecycle!Activate(k)
<1>1. PICK k \in Pending :
        /\ \A j \in Pending : k <= j
        /\ steers' = [steers EXCEPT ![k].status = "active",
                                    ![k].cut = IF @ = NoStage THEN cutStage ELSE @]
  BY DEF Activate
<1>2. /\ pc = "activate" /\ pc' = "push" /\ status' = status
      /\ steers \in Seq(Steer) /\ DOMAIN steers = 1..Len(steers) /\ Len(steers) \in Nat
      /\ k \in DOMAIN steers /\ steers[k].status = "pending" /\ steers[k] \in Steer
  BY <1>1 DEF Activate, Pending, EngineInv, TypeOK
<1>3. Statuses' = [Statuses EXCEPT ![k] = "active"]
  <2> DEFINE c == IF steers[k].cut = NoStage THEN cutStage ELSE steers[k].cut
             st == [steers[k] EXCEPT !.status = "active", !.cut = c]
  <2>1. steers' = [steers EXCEPT ![k] = st]
    BY <1>1, <1>2
  <2>2. st.status = "active"
    BY <1>2 DEF Steer
  <2> HIDE DEF st
  <2> QED
    BY <1>2, <2>1, <2>2, OneStatus
<1>4. ASSUME NEW j \in 1..(k - 1)
      PROVE  Statuses[j] \in Lifecycle!Closed
  <2>1. j \in DOMAIN steers /\ j \notin Pending
    BY <1>1, <1>2
  <2>2. steers[j].status \notin {"pending", "active"} /\ steers[j] \in Steer
    BY <1>2, <2>1 DEF Pending, EngineInv, OpenSteers
  <2> QED
    BY <2>1, <2>2 DEF Statuses, Steer, Lifecycle!Closed
<1>5. Lifecycle!Activate(k)
  BY <1>2, <1>3, <1>4 DEF Lifecycle!Activate, Statuses
<1> QED
  BY <1>2, <1>5 DEF Statuses

(* The message is reviewed or superseded.                                    *)
LEMMA ClosingLifecycle ==
    ASSUME EngineInv, Closing
    PROVE  \E k \in DOMAIN Statuses : Lifecycle!Close(k)
<1>1. /\ pc \in {"executing", "gating"} /\ pc' # "idle" /\ status \notin Terminal
      /\ current \notin Workflow
  BY DEF Closing
<1>2. PICK k \in DOMAIN steers : k = Steered
  BY <1>1, ReturnedFacts DEF EngineInv, TypeOK
<1>3. steers \in Seq(Steer) /\ steers[k] \in Steer
  BY DEF EngineInv, TypeOK
<1>4. steers[k].status = "active"
  BY <1>1, <1>2 DEF EngineInv, OpenSteers
<1>5. ASSUME NEW end \in {"reviewed", "superseded"},
             steers' = [steers EXCEPT ![Steered].status = end]
      PROVE  Statuses' = [Statuses EXCEPT ![k] = end]
  <2> DEFINE st == [steers[k] EXCEPT !.status = end]
  <2>1. steers' = [steers EXCEPT ![k] = st]
    BY <1>2, <1>3, <1>5
  <2>2. st.status = end
    BY <1>3 DEF Steer
  <2> HIDE DEF st
  <2> QED
    BY <1>3, <2>1, <2>2, OneStatus
<1>6. \/ Statuses' = [Statuses EXCEPT ![k] = "reviewed"] /\ status' = "running"
      \/ Statuses' = [Statuses EXCEPT ![k] = "superseded"] /\ status' = status
  BY <1>5 DEF Closing
<1>7. Lifecycle!Close(k)
  BY <1>1, <1>3, <1>4, <1>6 DEF Lifecycle!Close, Lifecycle!Terminal, Terminal, Statuses
<1>8. k \in DOMAIN Statuses
  BY DEF Statuses
<1> QED
  BY <1>7, <1>8

(* retryStage reopens a run that rests, or lets it be.                       *)
LEMMA ReopeningLifecycle ==
    ASSUME EngineInv, Reopening
    PROVE  [Lifecycle!Next]_(Lifecycle!vars)
<1>1. CASE Reopen
  <2>1. pc = "idle" /\ lock.by = "retry" /\ pc' = pc /\ steers' = steers
    BY <1>1 DEF Reopen, ReopenWithin, Execution
  <2>2. status \in Terminal
    BY <2>1 DEF EngineInv, Ends
  <2>3. CASE status' = status
    BY <2>1, <2>3 DEF Lifecycle!vars
  <2>4. CASE status' = "running"
    <3>1. Lifecycle!Reopen
      BY <2>1, <2>2, <2>4 DEF Lifecycle!Reopen, Terminal
    <3> QED
      BY <3>1 DEF Lifecycle!Next
  <2> QED
    BY <1>1, <2>3, <2>4 DEF Reopen, ReopenWithin
<1>2. CASE StartExecution
  <2>1. status = "running" /\ status' = status /\ steers' = steers
    BY <1>2 DEF StartExecution, EngineInv, Ends
  <2> QED
    BY <2>1 DEF Lifecycle!vars, Terminal
<1> QED
  BY <1>1, <1>2 DEF Reopening

LEMMA NextLifecycle == EngineInv /\ [Next]_vars => [Lifecycle!Next]_(Lifecycle!vars)
<1> SUFFICES ASSUME EngineInv, [Next]_vars PROVE [Lifecycle!Next]_(Lifecycle!vars)
  OBVIOUS
<1>1. CASE Still
  BY <1>1 DEF Still, Lifecycle!vars
<1>2. CASE Progress
  BY <1>2, ProgressLifecycle
<1>3. CASE Reopening
  BY <1>3, ReopeningLifecycle
<1>4. CASE Resting
  BY <1>4, SettleLifecycle DEF Lifecycle!Next
<1>5. CASE \E mode \in {"interrupt", "queue"} : SteerRun(mode)
  BY <1>5, SteerLifecycle DEF Lifecycle!Next
<1>6. CASE Activate
  BY <1>6, ActivateLifecycle DEF Lifecycle!Next, Statuses
<1>7. CASE Closing
  BY <1>7, ClosingLifecycle DEF Lifecycle!Next, Statuses
<1> QED
  BY <1>1, <1>2, <1>3, <1>4, <1>5, <1>6, <1>7, StepKinds

(* The engine keeps the promise of RunLifecycle.                             *)
THEOREM EngineImplementsLifecycle == Spec => ImplementsLifecycle
BY InitLifecycle, NextLifecycle, EngineInvariant, PTL
   DEF Spec, ImplementsLifecycle, Lifecycle!Spec

-----------------------------------------------------------------------------
(* The budget of the gates: how often a stage may be judged, whatever the    *)
(* orchestrator answers, and what becomes of a retry that the user ordered   *)
(* while the gate was open. BudgetInv is inductive relative to EngineInv.    *)

(* The gate of a stage is open.                                              *)
AtGate == pc \in {"gatePersist", "gating"} /\ current \in Workflow

(* A retry that the user ordered is in the gate's budget until it is over,   *)
(* or the run was aborted meanwhile.                                         *)
OrderStands ==
    /\ status = "gating" => pc \in {"gatePersist", "gating"}
    /\ manualRetry => \/ Aborted /\ pc # "idle"
                      \/ AtGate /\ Evaluations(current) < MaxRetries

(* The steers whose instruction was carried out and reviewed.                *)
Reviewed == {k \in DOMAIN steers : steers[k].status = "reviewed"}
Allowed  == MaxRetries + Cardinality(Reviewed)

(* The execution is on its way to judge stage pos once more.                 *)
ToBeJudged ==
    \/ pc \in {"enter", "select", "again", "review"}
    \/ pc = "executing" /\ current \in Workflow
    \/ AtGate

(* The stages that no gate was asked about yet.                              *)
Unjudged ==
    {s \in Workflow : \/ s \notin Gated
                      \/ s > pos
                      \/ current \in Workflow /\ s > current
                      \/ lock.by \in {"retry", "start"} /\ s > lock.stage}

BudgetInv ==
    /\ \A s \in Workflow : Evaluations(s) <= 1 + Allowed
    /\ ToBeJudged => Evaluations(pos) <= Allowed
    /\ lock.by = "start" => Evaluations(lock.stage) <= Allowed
    /\ lock.by = "retry" => status \in Terminal
    /\ AtGate => current \in Gated
    /\ \A s \in Unjudged : Evaluations(s) = 0

-----------------------------------------------------------------------------
(* How the counts grow.                                                      *)
LEMMA FinitePart ==
    ASSUME NEW n \in Nat, NEW T, T \subseteq 1..n
    PROVE  IsFiniteSet(T) /\ Cardinality(T) \in Nat
<1>1. IsFiniteSet(1..n)
  BY FS_Interval
<1>2. IsFiniteSet(T)
  BY <1>1, FS_Subset
<1> QED
  BY <1>2, FS_CardinalityType

LEMMA Counts ==
    ASSUME EngineInv
    PROVE  /\ \A s : Evaluations(s) \in Nat
           /\ IsFiniteSet(Reviewed) /\ Cardinality(Reviewed) \in Nat
           /\ Allowed \in Nat
<1>1. /\ Len(gateDecisions) \in Nat /\ DOMAIN gateDecisions = 1..Len(gateDecisions)
      /\ Len(steers) \in Nat /\ DOMAIN steers = 1..Len(steers)
  BY DEF EngineInv, TypeOK
<1>2. ASSUME NEW s PROVE Evaluations(s) \in Nat
  <2>1. {i \in DOMAIN gateDecisions : gateDecisions[i] = s} \subseteq 1..Len(gateDecisions)
    BY <1>1
  <2> QED
    BY <1>1, <2>1, FinitePart DEF Evaluations
<1>3. IsFiniteSet(Reviewed) /\ Cardinality(Reviewed) \in Nat
  <2>1. Reviewed \subseteq 1..Len(steers)
    BY <1>1 DEF Reviewed
  <2> QED
    BY <1>1, <2>1, FinitePart
<1> QED
  BY <1>2, <1>3, EngineAssumption DEF Allowed

(* An evaluation of stage t counts for t alone.                              *)
LEMMA OneMore ==
    ASSUME EngineInv, NEW t \in 1..(Len(Team) + MaxSteers),
           gateDecisions' = Append(gateDecisions, t)
    PROVE  \A s : Evaluations(s)' = IF s = t THEN Evaluations(s) + 1 ELSE Evaluations(s)
<1> DEFINE n == Len(gateDecisions)
           At(s)  == {i \in DOMAIN gateDecisions : gateDecisions[i] = s}
           Now(s) == {i \in DOMAIN gateDecisions' : gateDecisions'[i] = s}
<1>1. n \in Nat /\ DOMAIN gateDecisions = 1..n
  BY DEF EngineInv, TypeOK
<1>2. /\ DOMAIN gateDecisions' = 1..(n + 1)
      /\ \A i \in 1..n : gateDecisions'[i] = gateDecisions[i]
      /\ gateDecisions'[n + 1] = t
  BY <1>1, AppendProperties DEF EngineInv, TypeOK
<1>3. Now(t) = At(t) \cup {n + 1} /\ n + 1 \notin At(t)
  BY <1>1, <1>2
<1>4. IsFiniteSet(At(t))
  <2>1. At(t) \subseteq 1..n
    BY <1>1
  <2> QED
    BY <1>1, <2>1, FinitePart
<1>5. Cardinality(Now(t)) = Cardinality(At(t)) + 1
  BY <1>3, <1>4, FS_AddElement
<1>6. ASSUME NEW s, s # t PROVE Now(s) = At(s)
  BY <1>1, <1>2, <1>6
<1>7. ASSUME NEW s
      PROVE  Cardinality(Now(s)) = IF s = t THEN Cardinality(At(s)) + 1 ELSE Cardinality(At(s))
  BY <1>5, <1>6
<1>8. \A s : Evaluations(s) = Cardinality(At(s)) /\ Evaluations(s)' = Cardinality(Now(s))
  BY DEF Evaluations
<1> QED
  BY <1>7, <1>8

(* A step that evaluates nothing and unmakes no review.                      *)
LEMMA NoMore ==
    ASSUME EngineInv, EngineInv', gateDecisions' = gateDecisions,
           Reviewed \subseteq Reviewed'
    PROVE  /\ \A s : Evaluations(s)' = Evaluations(s)
           /\ Allowed' >= Allowed /\ Allowed' \in Nat
<1>0. IsFiniteSet(Reviewed')
  <2>1. Len(steers') \in Nat /\ DOMAIN steers' = 1..Len(steers')
    BY DEF EngineInv, TypeOK
  <2>2. Reviewed' \subseteq 1..Len(steers')
    BY <2>1 DEF Reviewed
  <2> QED
    BY <2>1, <2>2, FinitePart
<1>1. Cardinality(Reviewed) <= Cardinality(Reviewed')
  BY <1>0, FS_Subset
<1>2. MaxRetries \in Nat /\ Cardinality(Reviewed) \in Nat /\ Cardinality(Reviewed') \in Nat
  BY <1>0, Counts, FS_CardinalityType, EngineAssumption
<1>3. Allowed' >= Allowed /\ Allowed' \in Nat
  BY <1>1, <1>2 DEF Allowed
<1> QED
  BY <1>3 DEF Evaluations

-----------------------------------------------------------------------------
(* The step of a gate that has answered: stage pos was judged once more.     *)
Decided ==
    /\ gateDecisions' = Append(gateDecisions, pos)
    /\ manualRetry' = FALSE
    /\ pc' \in {"again", "boundary"}
    /\ pc' = "again" => Evaluations(pos) + 1 < 1 + MaxRetries
    /\ status' \in {"aborted", "running"}
    /\ UNCHANGED <<current, steers, pos, cutStage, gate, decision, lock>>

LEMMA DecideDecides == ASSUME EngineInv, NEW d, Decide(d) PROVE Decided
<1> DEFINE attempt == Evaluations(pos) + 1
           asked   == IF manualRetry /\ attempt <= 1 + MaxRetries
                        THEN Retry(Members(pos)) ELSE d
           checked == IF asked.action = "advance" /\ VerificationRetryRequired(pos)
                        THEN Retry(VerifyFailed(pos)) ELSE asked
           final   == IF checked.action = "retry" /\ attempt >= 1 + MaxRetries
                        THEN Advance ELSE checked
<1>1. /\ gateDecisions' = Append(gateDecisions, pos)
      /\ manualRetry' = FALSE
      /\ status' = IF final.action = "abort" THEN "aborted" ELSE "running"
      /\ pc' = IF final.action = "retry" THEN "again" ELSE "boundary"
      /\ UNCHANGED <<current, steers, pos, cutStage, gate, decision, lock>>
  BY DEF Decide, DecideWithin
<1>2. final.action = "retry" => ~(attempt >= 1 + MaxRetries)
  BY DEF Advance
<1>3. Evaluations(pos) \in Nat /\ MaxRetries \in Nat
  BY Counts, EngineAssumption
<1> HIDE DEF final
<1> QED
  BY <1>1, <1>2, <1>3 DEF Decided

(* The step of a gate whose run was aborted meanwhile.                       *)
GivenUp == Aborted /\ pc' = "settle"
           /\ UNCHANGED <<status, current, steers, gateDecisions, node, pos, cutStage,
                          manualRetry, gate, decision, lock>>

(* What a gate's answer leads to: the end of an aborted run, a decision on   *)
(* the stage, the review of a steer, or another question.                    *)
LEMMA AnswerLeads ==
    ASSUME EngineInv, GateAnswer
    PROVE  /\ pc = "gating"
           /\ \/ GivenUp
              \/ ~Aborted /\ current \in Workflow /\ current = pos /\ \E d : Decide(d)
              \/ ~Aborted /\ current \notin Workflow /\ \E d : Review(d)
              \/ \E run, attempt : Ask(run, attempt)
<1>1. pc = "gating" /\ (current \in Workflow => current = pos)
  BY DEF GateAnswer, EngineInv, Place
<1>2. \/ \E d : Judged(d)
      \/ \E run, attempt : Ask(run, attempt)
  BY DEF GateAnswer
<1>3. ASSUME NEW d, Judged(d)
      PROVE  \/ GivenUp
             \/ ~Aborted /\ current \in Workflow /\ Decide(d)
             \/ ~Aborted /\ current \notin Workflow /\ Review(d)
  BY <1>3, Zenon DEF Judged, GivenUp
<1> QED
  BY <1>1, <1>2, <1>3

(* What the end of a stage's nodes leads to.                                 *)
LEMMA JoinLeads ==
    ASSUME EngineInv, StageJoin
    PROVE  /\ pc = "executing" /\ current = pos /\ current \in Workflow
           /\ \/ ~Aborted /\ pos \in Gated /\ Decide(Advance)
              \/ /\ UNCHANGED <<current, steers, gateDecisions, pos, manualRetry, decision, lock>>
                 /\ \/ pc' = "boundary" /\ status' = status
                    \/ pc' = "boundary" /\ ~Aborted /\ status' \in {"failed", "running"}
                    \/ pc' = "gatePersist" /\ ~Aborted /\ status' = "gating" /\ pos \in Gated
<1>1. pc = "executing" /\ current = pos /\ current \in Workflow
  BY DEF StageJoin, Joined, EngineInv, TypeOK
<1> QED
  BY <1>1 DEF StageJoin

(* What the end of a steer's node leads to.                                  *)
LEMMA SteerJoinLeads ==
    ASSUME EngineInv, SteerJoin
    PROVE  /\ pc = "executing" /\ current \notin Workflow
           /\ \/ GivenUp
              \/ ~Aborted /\ \E d : Review(d)
              \/ /\ steers' = [steers EXCEPT ![Steered].status = "superseded"] /\ pc' = "steers"
                 /\ ~Aborted
                 /\ UNCHANGED <<status, current, gateDecisions, pos, manualRetry, lock>>
              \/ /\ pc' = "gatePersist" /\ status' = "gating" /\ ~Aborted
                 /\ UNCHANGED <<current, steers, gateDecisions, pos, manualRetry, lock>>
BY Zenon DEF SteerJoin, Joined, GivenUp

(* A step of the nodes, or a kill: the run's own variables stay.             *)
Beside == UNCHANGED <<status, current, steers, gateDecisions, pc, pos, manualRetry, lock>>

LEMMA StepsBeside ==
    ASSUME EngineInv,
           \/ \E n \in Nodes : Coroutine(n) \/ NodeTimeout(n)
           \/ GateTimer \/ Pick \/ UNCHANGED vars
           \/ \E n \in KillTargets : KillNode(n)
    PROVE  Beside
<1>1. CASE \E n \in Nodes : Coroutine(n) \/ NodeTimeout(n)
  BY <1>1, NodeRunnerStep DEF EngineInv, TypeOK, NodeStep, Others, Beside
<1>2. CASE GateTimer \/ Pick \/ UNCHANGED vars
  BY <1>2 DEF GateTimer, Pick, vars, Beside
<1>3. CASE \E n \in KillTargets : KillNode(n)
  BY <1>3 DEF KillNode, Execution, Beside
<1> QED
  BY <1>1, <1>2, <1>3

-----------------------------------------------------------------------------
(* A step that leaves the order of a retry standing, or carries it out.      *)
LEMMA OrderNext == EngineInv /\ OrderStands /\ [Next]_vars => OrderStands'
<1> SUFFICES ASSUME EngineInv, OrderStands, [Next]_vars PROVE OrderStands'
  OBVIOUS
<1>0. ASSUME gateDecisions' = gateDecisions, current' = current
      PROVE  Evaluations(current)' = Evaluations(current)
  BY <1>0 DEF Evaluations
<1>1. CASE Beside
  BY <1>0, <1>1 DEF OrderStands, AtGate, Aborted, Beside
<1>2. CASE Decided
  BY <1>2 DEF OrderStands, Decided
<1>3. CASE GivenUp
  BY <1>0, <1>3 DEF OrderStands, GivenUp, Aborted
<1>4. ASSUME NEW d, Review(d), ~Aborted, current \notin Workflow
      PROVE  OrderStands'
  BY <1>4 DEF OrderStands, AtGate, Review
<1>5. CASE Enter \/ Select
  BY <1>5 DEF OrderStands, AtGate, Enter, Select, Aborted
<1>6. CASE StageJoin
  BY <1>2, <1>6, JoinLeads, DecideDecides DEF OrderStands, AtGate, Aborted
<1>7. CASE SteerJoin
  BY <1>3, <1>4, <1>7, SteerJoinLeads DEF OrderStands, AtGate, Aborted
<1>8. ASSUME NEW run, NEW attempt, Ask(run, attempt), pc \in {"gatePersist", "gating"}
      PROVE  OrderStands'
  BY <1>0, <1>8 DEF OrderStands, AtGate, Aborted, Ask
<1>9. CASE StartGate \/ GateAnswer
  BY <1>2, <1>3, <1>4, <1>8, <1>9, AnswerLeads, DecideDecides DEF StartGate
<1>10. CASE Between
  BY <1>10 DEF OrderStands, AtGate, Aborted, Stopped, Between, BetweenUpTo
<1>11. CASE Activate \/ Push \/ Settle
  BY <1>11 DEF OrderStands, AtGate, Aborted, Activate, Push, Settle
<1>12. CASE ApplyReview
  BY <1>12 DEF OrderStands, AtGate, Aborted, ApplyReview
<1>13. CASE Reopen \/ StartExecution
  BY <1>13 DEF OrderStands, AtGate, EngineInv, Ends, Aborted, Reopen, ReopenWithin,
     StartExecution, Execution
<1>14. CASE User
  <2>1. CASE Abort
    BY <2>1 DEF OrderStands, AtGate, Aborted, Abort, Execution
  <2>2. ASSUME NEW mode, SteerRun(mode) PROVE OrderStands'
    BY <1>0, <2>2 DEF OrderStands, AtGate, Aborted, SteerRun, Execution
  <2>3. ASSUME NEW s \in Workflow, RetryGate(s) PROVE OrderStands'
    BY <1>0, <2>3 DEF OrderStands, AtGate, Aborted, RetryGate, Execution
  <2>4. ASSUME NEW s \in Workflow, RetryStage(s) PROVE OrderStands'
    BY <1>0, <2>4 DEF OrderStands, AtGate, Aborted, RetryStage, Execution
  <2> QED
    BY <1>1, <1>14, <2>1, <2>2, <2>3, <2>4, StepsBeside DEF User
<1> QED
  BY <1>1, <1>5, <1>6, <1>7, <1>9, <1>10, <1>11, <1>12, <1>13, <1>14, StepsBeside
     DEF Next, Engine, Timers

LEMMA OrderInvariant == Spec => []OrderStands
<1>1. Init => OrderStands
  BY DEF Init, OrderStands
<1> QED
  BY <1>1, OrderNext, EngineInvariant, PTL DEF Spec

(* A decision that finds an order in the budget retries the whole stage.     *)
LEMMA OrderIsCarriedOut ==
    ASSUME EngineInv, manualRetry, Evaluations(pos) < MaxRetries, NEW d, Decide(d)
    PROVE  \A n \in Members(pos) : /\ node'[n].status = "queued"
                                   /\ node'[n].attempt = node[n].attempt + 1
<1>1. Evaluations(pos) \in Nat /\ MaxRetries \in Nat
  BY Counts, EngineAssumption
<1>2. node' = ResetForRetry(node, Members(pos))
  <2> DEFINE asked == Retry(Members(pos))
  <2>1. asked.action = "retry" /\ asked.ids = Members(pos)
    BY DEF Retry
  <2> HIDE DEF asked
  <2>2. asked = Retry(Members(pos))
    BY DEF asked
  <2>3. Evaluations(pos) + 1 <= 1 + MaxRetries /\ ~(Evaluations(pos) + 1 >= 1 + MaxRetries)
    BY <1>1
  <2> QED
    BY <2>1, <2>2, <2>3 DEF Decide, DecideWithin
<1>3. Members(pos) \subseteq Nodes /\ node \in [Nodes -> NodeRun]
  BY Stages DEF EngineInv, TypeOK, NodeTypeOK
<1>4. ASSUME NEW n \in Members(pos)
      PROVE  node'[n] = [node[n] EXCEPT !.attempt = @ + 1, !.status = "queued", !.check = "none"]
  BY <1>2, <1>3, <1>4 DEF ResetForRetry
<1>5. ASSUME NEW n \in Members(pos)
      PROVE  node[n] \in NodeRun
  BY <1>3
<1> QED
  BY <1>4, <1>5 DEF NodeRun

(* retryStage took the order within one budget and runStage applies another  *)
(* when the gate is over: an order that was taken is nevertheless never      *)
(* dropped, unless the run is aborted.                                       *)
THEOREM RetryHonouredHolds == Spec => RetryHonoured
<1> DEFINE A == manualRetry /\ ~manualRetry' =>
                  \/ Aborted
                  \/ \A n \in Members(pos) : /\ node'[n].status = "queued"
                                             /\ node'[n].attempt = node[n].attempt + 1
<1>1. EngineInv /\ OrderStands /\ [Next]_vars => [A]_vars
  <2> SUFFICES ASSUME EngineInv, OrderStands, Next, manualRetry, ~manualRetry', ~Aborted
               PROVE  \A n \in Members(pos) : /\ node'[n].status = "queued"
                                              /\ node'[n].attempt = node[n].attempt + 1
    OBVIOUS
  <2>1. AtGate /\ current = pos /\ Evaluations(pos) < MaxRetries
    BY DEF OrderStands, AtGate, EngineInv, Place
  <2>2. ~Beside
    BY DEF Beside
  <2>3. CASE GateAnswer
    <3>1. PICK d : Decide(d)
      BY <2>1, <2>3, AnswerLeads DEF GivenUp, Ask, AtGate
    <3> QED
      BY <2>1, <3>1, OrderIsCarriedOut
  <2>4. CASE Engine /\ ~GateAnswer
    BY <2>1, <2>4 DEF Engine, AtGate, Enter, Select, Pick, StageJoin, Joined, StartGate, Ask,
       Between, BetweenUpTo, Activate, Push, SteerJoin, ApplyReview, Settle, Reopen,
       ReopenWithin, StartExecution, EngineInv, Ends
  <2>5. CASE User
    BY <2>5 DEF User, Abort, SteerRun, KillNode, RetryGate, RetryStage
  <2> QED
    BY <2>2, <2>3, <2>4, <2>5, StepsBeside DEF Next, Timers
<1> QED
  BY <1>1, EngineInvariant, OrderInvariant, PTL DEF Spec, RetryHonoured

-----------------------------------------------------------------------------
(* A step that evaluates nothing keeps the budget, if it heads for no other  *)
(* evaluation than one that is still allowed.                                *)
LEMMA UncountedKeeps ==
    ASSUME EngineInv, EngineInv', BudgetInv, gateDecisions' = gateDecisions,
           Reviewed \subseteq Reviewed',
           ToBeJudged' => \/ ToBeJudged /\ pos' = pos
                          \/ pos' \in Unjudged
                          \/ lock.by = "start" /\ pos' = lock.stage,
           lock'.by = "start" => \/ lock' = lock
                                 \/ Evaluations(lock'.stage) <= Allowed,
           lock'.by = "retry" => status' \in Terminal,
           AtGate' => current' \in Gated,
           Unjudged' \subseteq Unjudged
    PROVE  BudgetInv'
<1>1. /\ \A s : Evaluations(s)' = Evaluations(s)
      /\ Allowed' >= Allowed /\ Allowed' \in Nat
  BY NoMore
<1>2. (\A s : Evaluations(s) \in Nat) /\ Allowed \in Nat
  BY Counts
<1>3. \A s \in Workflow : Evaluations(s)' <= 1 + Allowed'
  BY <1>1, <1>2 DEF BudgetInv
<1>4. \A s \in Unjudged' : Evaluations(s)' = 0
  BY <1>1 DEF BudgetInv
<1>5. ASSUME ToBeJudged' PROVE Evaluations(pos') <= Allowed
  <2>1. ASSUME pos' \in Unjudged PROVE Evaluations(pos') = 0
    BY <2>1 DEF BudgetInv
  <2> QED
    BY <1>2, <1>5, <2>1 DEF BudgetInv
<1>6. ASSUME lock'.by = "start" PROVE Evaluations(lock'.stage) <= Allowed
  BY <1>6 DEF BudgetInv
<1>7. Evaluations(pos)' = Evaluations(pos') /\ Evaluations(lock.stage)' = Evaluations(lock'.stage)
  BY DEF Evaluations
<1>8. ToBeJudged' => Evaluations(pos)' <= Allowed'
  BY <1>1, <1>2, <1>5, <1>7
<1>9. lock'.by = "start" => Evaluations(lock.stage)' <= Allowed'
  BY <1>1, <1>2, <1>6, <1>7
<1> QED
  BY <1>3, <1>4, <1>8, <1>9 DEF BudgetInv

(* A decision of a gate is the last that is allowed, or leaves one more.     *)
LEMMA DecidedKeeps ==
    ASSUME EngineInv, EngineInv', BudgetInv, Decided, ~Aborted, ToBeJudged,
           pc \in {"executing", "gating"}, current = pos, pos \in Gated
    PROVE  BudgetInv'
<1>1. \A s : Evaluations(s)' = IF s = pos THEN Evaluations(s) + 1 ELSE Evaluations(s)
  BY OneMore, Stages DEF Decided, EngineInv, TypeOK
<1>2. (\A s : Evaluations(s) \in Nat) /\ Allowed \in Nat /\ Allowed' = Allowed
  BY Counts DEF Decided, Allowed, Reviewed
<1>3. Cardinality(Reviewed) \in Nat /\ MaxRetries \in Nat
  BY Counts, EngineAssumption
<1>4. lock.by \notin {"retry", "start"} /\ lock' = lock /\ pos' = pos /\ current' = current
  BY DEF BudgetInv, Decided, EngineInv, Ends, Aborted, Terminal
<1>5. Evaluations(pos) <= Allowed
  BY DEF BudgetInv
<1>6. \A s \in Workflow : Evaluations(s)' <= 1 + Allowed'
  BY <1>1, <1>2, <1>5 DEF BudgetInv
<1>7. pos \notin Unjudged /\ Unjudged' \subseteq Unjudged
  BY <1>4 DEF Unjudged, EngineInv, TypeOK
<1>8. \A s \in Unjudged' : Evaluations(s)' = 0
  BY <1>1, <1>7 DEF BudgetInv
<1>9. ~AtGate' /\ (ToBeJudged' => pc' = "again")
  BY DEF Decided, AtGate, ToBeJudged
<1>10. Evaluations(pos)' = Evaluations(pos) + 1
  BY <1>1, <1>4 DEF Evaluations
<1>11. ToBeJudged' => Evaluations(pos)' <= Allowed'
  BY <1>2, <1>3, <1>9, <1>10 DEF Decided, Allowed
<1> QED
  BY <1>4, <1>6, <1>8, <1>9, <1>11 DEF BudgetInv

(* The review of a steer is not counted for a stage, and allows one more.    *)
LEMMA ReviewedKeeps ==
    ASSUME EngineInv, EngineInv', BudgetInv, NEW d, Review(d), ~Aborted,
           pc \in {"executing", "gating"}, current \notin Workflow
    PROVE  BudgetInv'
<1>1. \A s \in Workflow : Evaluations(s)' = Evaluations(s)
  BY OneMore, ReturnedFacts DEF Review
<1>2. Allowed' = Allowed + 1
  <2>1. Steered \in 1..Len(steers) /\ steers[Steered].status = "active"
    BY ReturnedFacts DEF EngineInv, OpenSteers
  <2>2. Reviewed' = Reviewed \cup {Steered} /\ Steered \notin Reviewed
    BY <2>1 DEF Reviewed, Review, EngineInv, TypeOK, Steer
  <2>3. Cardinality(Reviewed') = Cardinality(Reviewed) + 1
    BY <2>2, Counts, FS_AddElement
  <2> QED
    BY <2>3, Counts, EngineAssumption DEF Allowed
<1>3. (\A s : Evaluations(s) \in Nat) /\ Allowed \in Nat
  BY Counts
<1>4. lock.by \notin {"retry", "start"} /\ lock' = lock /\ pos' = pos /\ current' = current
  BY DEF BudgetInv, Review, EngineInv, Ends, Aborted, Terminal
<1>5. pos \in Workflow
  BY DEF EngineInv, TypeOK
<1>6. Evaluations(pos)' <= Allowed'
  BY <1>1, <1>2, <1>3, <1>4, <1>5 DEF BudgetInv, Evaluations
<1>7. Unjudged' = Unjudged /\ Unjudged \subseteq Workflow /\ ~AtGate'
  BY <1>4 DEF Unjudged, AtGate, Review
<1> QED
  BY <1>1, <1>2, <1>3, <1>4, <1>6, <1>7 DEF BudgetInv

(* Reopening is within the budget where an orchestrator judges.              *)
LEMMA ReopenedKeeps ==
    ASSUME EngineInv, EngineInv', BudgetInv, OrchestratorEnabled, Reopen
    PROVE  BudgetInv'
<1>1. /\ lock.by = "retry" /\ pc = "idle" /\ pc' = pc /\ pos' = pos /\ current' = current
      /\ gateDecisions' = gateDecisions /\ steers' = steers
      /\ \/ lock' = Free
         \/ /\ lock' = [lock EXCEPT !.by = "start"]
            /\ lock.stage \in Gated => ~(Evaluations(lock.stage) >= 1 + MaxRetries)
  BY DEF Reopen, ReopenWithin, Execution
<1>2. lock \in [by : {"none", "abort", "retry", "start"}, stage : {NoStage} \cup Workflow]
      /\ lock.stage \in Workflow
  BY <1>1 DEF EngineInv, TypeOK, Ends
<1>3. lock' = Free \/ (lock'.by = "start" /\ lock'.stage = lock.stage)
  <2>1. ASSUME lock' = [lock EXCEPT !.by = "start"]
        PROVE  lock'.by = "start" /\ lock'.stage = lock.stage
    BY <1>2, <2>1
  <2> QED
    BY <1>1, <2>1, Zenon
<1>4. lock'.by = "start" => Evaluations(lock'.stage) <= Allowed
  <2>1. (\A t : Evaluations(t) \in Nat) /\ Cardinality(Reviewed) \in Nat /\ MaxRetries \in Nat
    BY Counts, EngineAssumption
  <2>2. lock.stage \notin Gated => Evaluations(lock.stage) = 0
    BY <1>2 DEF BudgetInv, Unjudged
  <2> QED
    BY <1>1, <1>3, <2>1, <2>2 DEF Allowed, Free
<1>5. Unjudged' \subseteq Unjudged /\ Reviewed' = Reviewed
  BY <1>1, <1>3 DEF Unjudged, Free, Reviewed
<1>6. ~AtGate' /\ ~ToBeJudged' /\ lock'.by # "retry"
  BY <1>1, <1>3 DEF AtGate, ToBeJudged, Free
<1> QED
  BY <1>1, <1>4, <1>5, <1>6, UncountedKeeps

LEMMA BudgetNext ==
    ASSUME OrchestratorEnabled, EngineInv, EngineInv', BudgetInv, [Next]_vars
    PROVE  BudgetInv'
<1> USE Stages
<1>1. CASE Beside
  <2>1. Reviewed' = Reviewed /\ Unjudged' = Unjudged /\ ToBeJudged' = ToBeJudged
        /\ AtGate' = AtGate
    BY <1>1 DEF Beside, Reviewed, Unjudged, ToBeJudged, AtGate
  <2> QED
    BY <1>1, <2>1, UncountedKeeps DEF Beside, BudgetInv
<1>2. ASSUME GivenUp, pc \in {"executing", "gating"} PROVE BudgetInv'
  <2>1. Reviewed' = Reviewed /\ Unjudged' = Unjudged /\ ~ToBeJudged' /\ ~AtGate'
    BY <1>2 DEF GivenUp, Reviewed, Unjudged, ToBeJudged, AtGate
  <2> QED
    BY <1>2, <2>1, UncountedKeeps DEF GivenUp, BudgetInv
<1>3. CASE Enter \/ Select
  <2>1. gateDecisions' = gateDecisions /\ steers' = steers /\ lock' = lock /\ pos' = pos
        /\ ~AtGate' /\ current' \in {current, pos} /\ ToBeJudged
        /\ (status' = status \/ (pc = "enter" /\ ~Aborted))
    <3>1. CASE Enter
      BY <3>1 DEF Enter, AtGate, ToBeJudged
    <3>2. CASE Select
      <4>1. pc' \in {"boundary", "executing"} /\ pc \in {"select", "again"}
        BY <3>2 DEF Select
      <4> QED
        BY <3>2, <4>1 DEF Select, AtGate, ToBeJudged
    <3> QED
      BY <1>3, <3>1, <3>2
  <2>2. lock'.by = "retry" => status' \in Terminal
    BY <2>1 DEF BudgetInv, EngineInv, Ends, Terminal, Aborted
  <2>3. Unjudged' \subseteq Unjudged /\ Reviewed' = Reviewed
    BY <2>1 DEF Unjudged, Reviewed
  <2> QED
    BY <2>1, <2>2, <2>3, UncountedKeeps
<1>4. CASE StageJoin
  <2>1. CASE Decide(Advance) /\ ~Aborted /\ pos \in Gated
    <3>1. ToBeJudged
      BY <1>4, JoinLeads DEF ToBeJudged
    <3> QED
      BY <1>4, <2>1, <3>1, JoinLeads, DecideDecides, DecidedKeeps
  <2>2. CASE ~(Decide(Advance) /\ ~Aborted /\ pos \in Gated)
    <3>1. /\ UNCHANGED <<current, steers, gateDecisions, pos, lock>>
          /\ pc = "executing" /\ current = pos /\ current \in Workflow
          /\ pc' = "boundary" \/ (pc' = "gatePersist" /\ pos \in Gated)
          /\ status' = status \/ ~Aborted
      BY <1>4, <2>2, JoinLeads
    <3>2. lock'.by = "retry" => status' \in Terminal
      BY <3>1 DEF BudgetInv, EngineInv, Ends, Terminal, Aborted
    <3>3. Unjudged' = Unjudged /\ Reviewed' = Reviewed /\ ToBeJudged
          /\ (AtGate' => current' \in Gated)
      BY <3>1 DEF Unjudged, Reviewed, ToBeJudged, AtGate
    <3> QED
      BY <3>1, <3>2, <3>3, UncountedKeeps DEF BudgetInv
  <2> QED
    BY <2>1, <2>2
<1>5. CASE SteerJoin
  <2>1. CASE \E d : Review(d) /\ ~Aborted
    BY <1>5, <2>1, SteerJoinLeads, ReviewedKeeps
  <2>2. CASE GivenUp
    BY <1>2, <1>5, <2>2, SteerJoinLeads
  <2>3. CASE ~GivenUp /\ ~(\E d : Review(d) /\ ~Aborted)
    <3>1. /\ UNCHANGED <<current, gateDecisions, pos, lock>>
          /\ steers' = steers \/ steers' = [steers EXCEPT ![Steered].status = "superseded"]
          /\ pc = "executing" /\ current \notin Workflow /\ ~Aborted
          /\ pc' \in {"steers", "gatePersist"}
      BY <1>5, <2>3, SteerJoinLeads
    <3>2. lock'.by # "retry"
      BY <3>1 DEF BudgetInv, EngineInv, Ends, Terminal, Aborted
    <3>3. Steered \in 1..Len(steers) /\ steers[Steered].status = "active"
      BY <3>1, ReturnedFacts DEF EngineInv, OpenSteers
    <3>4. Reviewed \subseteq Reviewed'
      BY <3>1, <3>3 DEF Reviewed, EngineInv, TypeOK, Steer
    <3>5. Unjudged' = Unjudged /\ ~ToBeJudged' /\ ~AtGate'
      BY <3>1 DEF Unjudged, ToBeJudged, AtGate
    <3> QED
      BY <3>1, <3>2, <3>4, <3>5, UncountedKeeps DEF BudgetInv
  <2> QED
    BY <2>1, <2>2, <2>3
<1>6. ASSUME NEW run, NEW attempt, Ask(run, attempt), pc \in {"gatePersist", "gating"}
      PROVE  BudgetInv'
  <2>1. Reviewed' = Reviewed /\ Unjudged' = Unjudged /\ (ToBeJudged' => ToBeJudged)
        /\ (AtGate' => AtGate)
    BY <1>6 DEF Ask, Reviewed, Unjudged, ToBeJudged, AtGate
  <2> QED
    BY <1>6, <2>1, UncountedKeeps DEF Ask, BudgetInv
<1>7. CASE StartGate
  BY <1>6, <1>7 DEF StartGate
<1>8. CASE GateAnswer
  <2>1. CASE \E d : Decide(d) /\ ~Aborted /\ current \in Workflow
    <3>1. pc = "gating" /\ current = pos /\ ToBeJudged /\ pos \in Gated
      BY <1>8, <2>1, AnswerLeads DEF ToBeJudged, AtGate, BudgetInv, EngineInv, Place
    <3> QED
      BY <2>1, <3>1, DecideDecides, DecidedKeeps
  <2>2. CASE \E d : Review(d) /\ ~Aborted /\ current \notin Workflow
    BY <1>8, <2>2, AnswerLeads, ReviewedKeeps
  <2>3. CASE GivenUp \/ \E run, attempt : Ask(run, attempt)
    BY <1>2, <1>6, <1>8, <2>3, AnswerLeads
  <2> QED
    BY <1>8, <2>1, <2>2, <2>3, AnswerLeads
<1>9. CASE Between
  <2>1. /\ UNCHANGED <<steers, gateDecisions, lock>>
        /\ pc \in {"boundary", "steers"} /\ current' \in {current, pos}
        /\ \/ pc' \in {"settle", "activate"} /\ pos' = pos
           \/ pc' = "enter" /\ pos' = pos + 1
        /\ status' \in {status, "done"}
    BY <1>9 DEF Between, BetweenUpTo
  <2>2. /\ UNCHANGED <<steers, gateDecisions>> /\ pos \in Nat /\ pos' \in Workflow
        /\ pos' \in Unjudged \/ ~ToBeJudged'
    BY <2>1 DEF EngineInv, TypeOK, Unjudged, ToBeJudged, AtGate
  <2>3. Unjudged' \subseteq Unjudged /\ Reviewed' = Reviewed /\ ~AtGate'
    BY <2>1, <2>2 DEF Unjudged, Reviewed, AtGate
  <2>4. lock'.by = "retry" => status' \in Terminal
    BY <2>1 DEF BudgetInv, Terminal
  <2> QED
    BY <2>1, <2>2, <2>3, <2>4, UncountedKeeps
<1>10. CASE Activate \/ Push \/ Settle
  <2>1. /\ UNCHANGED <<status, gateDecisions, pos>>
        /\ current' = current \/ current' \notin Workflow
        /\ lock' \in {lock, Free}
        /\ pc' \in {"push", "idle"} \/ (pc' = "executing" /\ current' \notin Workflow)
    <3>1. CASE Activate
      <4>1. PICK k \in Pending : current' = SteerStage(k)
        BY <3>1 DEF Activate
      <4>2. current' \notin Workflow
        BY <4>1 DEF Pending, SteerStage, EngineInv, TypeOK
      <4> QED
        BY <3>1, <4>2 DEF Activate
    <3>2. CASE Push
      BY <3>2 DEF Push, EngineInv, Place
    <3>3. CASE Settle
      <4>1. lock' \in {lock, Free}
        BY <3>3, Zenon DEF Settle
      <4> QED
        BY <3>3, <4>1 DEF Settle
    <3> QED
      BY <1>10, <3>1, <3>2, <3>3
  <2>2. Reviewed \subseteq Reviewed'
    <3>1. CASE Activate
      <4>1. PICK k \in Pending :
              steers' = [steers EXCEPT ![k].status = "active",
                                       ![k].cut = IF @ = NoStage THEN cutStage ELSE @]
        BY <3>1 DEF Activate
      <4>2. DOMAIN steers' = DOMAIN steers /\ k \notin Reviewed
            /\ \A j \in DOMAIN steers : j # k => steers'[j] = steers[j]
        BY <4>1 DEF Pending, Reviewed
      <4> QED
        BY <4>2 DEF Reviewed
    <3>2. CASE Push
      BY <3>2 DEF Push, Reviewed
    <3>3. CASE Settle
      BY <3>3 DEF Settle, Reviewed
    <3> QED
      BY <1>10, <3>1, <3>2, <3>3
  <2>3. Unjudged' \subseteq Unjudged /\ ~ToBeJudged' /\ ~AtGate'
    BY <2>1 DEF Unjudged, ToBeJudged, AtGate, Free
  <2> QED
    BY <2>1, <2>2, <2>3, UncountedKeeps DEF BudgetInv, Free
<1>11. CASE ApplyReview
  <2>1. /\ UNCHANGED <<current, steers, gateDecisions, pos, lock>>
        /\ pc = "review" /\ pc' \in {"settle", "enter", "steers"}
        /\ status' \in {status, "aborted"}
    BY <1>11 DEF ApplyReview
  <2>2. Reviewed' = Reviewed /\ Unjudged' = Unjudged /\ ToBeJudged /\ ~AtGate'
    BY <2>1 DEF Reviewed, Unjudged, ToBeJudged, AtGate
  <2> QED
    BY <2>1, <2>2, UncountedKeeps DEF BudgetInv, Terminal
<1>12. CASE StartExecution
  <2>1. /\ UNCHANGED <<status, current, steers, gateDecisions>>
        /\ lock.by = "start" /\ pc' = "enter" /\ pos' = lock.stage /\ lock' = Free
    BY <1>12 DEF StartExecution
  <2>2. Reviewed' = Reviewed /\ Unjudged' \subseteq Unjudged /\ ~AtGate'
    BY <2>1 DEF Reviewed, Unjudged, AtGate, Free
  <2> QED
    BY <2>1, <2>2, UncountedKeeps DEF Free
<1>13. CASE User
  <2>1. CASE Abort
    <3>1. /\ UNCHANGED <<current, steers, gateDecisions, pc, pos>>
          /\ lock = Free /\ lock' = [by |-> "abort", stage |-> NoStage]
      BY <2>1 DEF Abort, Execution
    <3>2. Reviewed' = Reviewed /\ Unjudged' = Unjudged /\ ToBeJudged' = ToBeJudged
          /\ AtGate' = AtGate
      BY <3>1 DEF Reviewed, Unjudged, ToBeJudged, AtGate, Free
    <3> QED
      BY <3>1, <3>2, UncountedKeeps DEF BudgetInv
  <2>2. ASSUME NEW mode, SteerRun(mode) PROVE BudgetInv'
    <3>1. /\ UNCHANGED <<status, current, gateDecisions, pc, pos, lock>>
          /\ \E st : steers' = Append(steers, st)
      BY <2>2 DEF SteerRun, Execution
    <3>2. Reviewed \subseteq Reviewed'
      BY <3>1 DEF Reviewed, EngineInv, TypeOK
    <3>3. Unjudged' = Unjudged /\ ToBeJudged' = ToBeJudged /\ AtGate' = AtGate
      BY <3>1 DEF Unjudged, ToBeJudged, AtGate
    <3> QED
      BY <3>1, <3>2, <3>3, UncountedKeeps DEF BudgetInv
  <2>3. ASSUME NEW s \in Workflow, RetryGate(s) PROVE BudgetInv'
    <3>1. UNCHANGED <<status, current, steers, gateDecisions, pc, pos, lock>>
      BY <2>3 DEF RetryGate, Execution
    <3>2. Reviewed' = Reviewed /\ Unjudged' = Unjudged /\ ToBeJudged' = ToBeJudged
          /\ AtGate' = AtGate
      BY <3>1 DEF Reviewed, Unjudged, ToBeJudged, AtGate
    <3> QED
      BY <3>1, <3>2, UncountedKeeps DEF BudgetInv
  <2>4. ASSUME NEW s \in Workflow, RetryStage(s) PROVE BudgetInv'
    <3>1. /\ UNCHANGED <<status, current, steers, gateDecisions, pc, pos>>
          /\ lock' = [by |-> "retry", stage |-> s] /\ current = s /\ status \in Terminal
          /\ lock = Free
      BY <2>4 DEF RetryStage, Execution
    <3>2. Reviewed' = Reviewed /\ Unjudged' = Unjudged /\ ToBeJudged' = ToBeJudged
          /\ AtGate' = AtGate
      BY <3>1 DEF Reviewed, Unjudged, ToBeJudged, AtGate, Free
    <3> QED
      BY <3>1, <3>2, UncountedKeeps DEF BudgetInv
  <2> QED
    BY <1>1, <1>13, <2>1, <2>2, <2>3, <2>4, StepsBeside DEF User
<1> QED
  BY <1>1, <1>3, <1>4, <1>5, <1>7, <1>8, <1>9, <1>10, <1>11, <1>12, <1>13, ReopenedKeeps,
     StepsBeside DEF Next, Engine, Timers

LEMMA BudgetInit == Init => BudgetInv
<1> USE Stages
<1> SUFFICES ASSUME Init PROVE BudgetInv
  OBVIOUS
<1>1. \A s : Evaluations(s) = 0
  BY FS_EmptySet DEF Init, Evaluations
<1>2. Allowed \in Nat
  BY InitInv, Counts
<1> QED
  BY <1>1, <1>2 DEF Init, BudgetInv, AtGate, Free

(* A gate evaluates a stage at most once more than the retries it is given,  *)
(* and once more for every steer that was reviewed; so the bound of SPEC.md  *)
(* is kept by every run in which no steer was, whatever the orchestrator     *)
(* answers and whatever the user kills, retries or reopens. (Without an      *)
(* orchestrator, retryStage counts attempts instead of evaluations.)         *)
THEOREM GateBudgetHolds ==
    Spec => [](OrchestratorEnabled =>
                 /\ \A s \in Workflow : Evaluations(s) <= 1 + Allowed
                 /\ Reviewed = {} => GateBudget)
<1>1. Init => (OrchestratorEnabled => BudgetInv)
  BY BudgetInit
<1>2. EngineInv /\ EngineInv' /\ (OrchestratorEnabled => BudgetInv) /\ [Next]_vars
        => (OrchestratorEnabled => BudgetInv)'
  BY BudgetNext
<1>3. EngineInv /\ (OrchestratorEnabled => BudgetInv)
        => (OrchestratorEnabled =>
              /\ \A s \in Workflow : Evaluations(s) <= 1 + Allowed
              /\ Reviewed = {} => GateBudget)
  <2>1. ASSUME Reviewed = {} PROVE Allowed = MaxRetries
    BY <2>1, FS_EmptySet, EngineAssumption DEF Allowed
  <2> QED
    BY <2>1 DEF BudgetInv, GateBudget
<1> QED
  BY <1>1, <1>2, <1>3, EngineInvariant, PTL DEF Spec
-----------------------------------------------------------------------------
(* What becomes of a stage that a steer cuts short, when nobody judges, at   *)
(* most one steer comes and the user kills no node.                          *)
Alone == ~OrchestratorEnabled /\ MaxSteers <= 1 /\ KillTargets = {}

(* A stage has run to its end; or it has not begun, and may be killed with   *)
(* the run. The stages before the execution's place are over, those after it *)
(* fresh, and what an abort killed of them a retry queues again.             *)
Over(s)  == \A n \in Members(s) : node[n].status \in {"done", "failed"}
Fresh(s) == \A n \in Members(s) :
               node[n].status = "queued" \/ (node[n].status = "killed" /\ Aborted)
StageReached  == IF lock.by = "start" THEN lock.stage ELSE pos

(* No gate opens, and who holds the mutex may go on where the run stands.    *)
NoJudge ==
    /\ pc \notin {"gatePersist", "gating"} /\ status # "gating" /\ ~manualRetry
    /\ Aborted /\ pc # "idle" => lock.by = "abort"
    /\ lock.by \in {"retry", "start"} => lock.stage = current
    /\ lock.by = "retry" => status \in Terminal

StageOrder ==
    /\ current \in Workflow => current <= pos
    /\ \A s \in Workflow :
         /\ s < StageReached => Over(s)
         /\ s > StageReached => Fresh(s)
         /\ current \in Workflow /\ s > current => Fresh(s)

(* A child that is told to end is told by an abort or by the steer that      *)
(* waits, and only a node with a child runs.                                 *)
Signs ==
    \A n \in Nodes :
      LET nd == node[n] IN
      /\ nd.phase = "live" <=> nd.status = "running"
      /\ nd.phase \in {"prep", "resolve"} =>
            nd.status = "queued" \/ (nd.status = "killed" /\ Aborted)
      /\ nd.reason \in KillReasons => nd.phase = "live" /\ (Aborted \/ PendingInterrupt)

(* The steer cuts short the stage the execution is at, or none.              *)
CutKnown ==
    /\ cutStage # NoStage =>
         /\ pc \in {"boundary", "activate", "settle"} /\ cutStage = pos
         /\ pc # "settle" => Pending # {}
    /\ \A k \in DOMAIN steers : steers[k].status \in {"pending", "active"} =>
           steers[k].cut \in {NoStage, pos}
    /\ pc \in {"review", "steers"} => Pending = {} /\ steers # <<>>
    /\ pc = "review" => steers[Steered].cut \in {NoStage, pos}

(* The stage of the execution's place: unless the run is aborted it is over, *)
(* or its nodes will be executed, or the steer that cut it short has noted   *)
(* so and will have it redone.                                               *)
Kinds(S) == \A n \in Members(pos) : node[n].status \in S
Steering == pc = "push" \/ (pc = "executing" /\ current \notin Workflow)
ThisStage ==
    /\ status = "failed" => Over(pos)
    /\ status = "done" => Over(pos) /\ pos = Len(Team)
    /\ lock.by = "start" => \A n \in Members(lock.stage) : node[n].status = "queued"
    /\ pc = "review" => \/ decision = Advance /\ Over(pos)
                        \/ decision = Retry(Members(pos)) /\ steers[Steered].cut = pos
    /\ ~Aborted =>
         /\ pc \in {"enter", "select", "again"} => Kinds({"queued", "done", "failed"})
         /\ pc = "executing" /\ current = pos =>
              /\ Kinds({"queued", "running", "done", "failed", "killed"})
              /\ PendingInterrupt \/ Kinds({"queued", "running", "done", "failed"})
         /\ pc \in {"boundary", "activate"} => Over(pos) \/ (cutStage = pos /\ Pending # {})
         /\ Steering => Over(pos) \/ steers[Steered].cut = pos
         /\ pc = "executing" /\ Steering => node[SteerAgent[Steered]].status # "killed"
         /\ pc = "steers" => Over(pos)

StageInv == NoJudge /\ StageOrder /\ Signs /\ CutKnown /\ ThisStage

-----------------------------------------------------------------------------
LEMMA Bounds ==
    ASSUME EngineInv
    PROVE  /\ Len(Team) \in Nat \ {0} /\ Workflow = 1..Len(Team) /\ pos \in Workflow /\ pos \in Nat
           /\ MaxSteers \in Nat /\ current \in 0..(Len(Team) + MaxSteers) /\ current \in Nat
           /\ steers \in Seq(Steer) /\ Len(steers) <= MaxSteers /\ DOMAIN steers = 1..Len(steers)
           /\ Len(steers) \in Nat /\ NoStage = 0 /\ NoStage \notin Workflow
           /\ node \in [Nodes -> NodeRun]
           /\ \A s \in Workflow : Members(s) \subseteq Nodes /\ Members(s) # {}
           /\ \A k \in 1..MaxSteers :
                SteerAgent[k] \in Nodes /\ Members(SteerStage(k)) = {SteerAgent[k]}
           /\ \A s \in Workflow, k \in 1..MaxSteers : SteerAgent[k] \notin Members(s)
           /\ \A s, t \in Workflow : s # t => Members(s) \cap Members(t) = {}
<1>1. /\ Len(Team) \in Nat \ {0} /\ Workflow = 1..Len(Team) /\ pos \in Workflow
      /\ MaxSteers \in Nat /\ current \in 0..(Len(Team) + MaxSteers)
      /\ steers \in Seq(Steer) /\ Len(steers) <= MaxSteers /\ node \in [Nodes -> NodeRun]
  BY Stages DEF EngineInv, TypeOK, NodeTypeOK
<1>2. DOMAIN steers = 1..Len(steers) /\ Len(steers) \in Nat
  BY <1>1, LenProperties
<1>3. \A s \in Workflow : Members(s) \subseteq Nodes
  BY <1>1, Stages
<1>4. ASSUME NEW s \in Workflow PROVE Members(s) # {}
  <2>1. Team[s] \in Seq(Nodes) /\ Team[s] # <<>> /\ NodesOf(s) = Team[s]
    BY <1>1, <1>4, EngineAssumption DEF NodesOf
  <2>2. 1 \in DOMAIN NodesOf(s)
    BY <2>1, EmptySeq, LenProperties
  <2> QED
    BY <2>2 DEF Members, ToSet
<1>5. ASSUME NEW k \in 1..MaxSteers
      PROVE  /\ SteerAgent[k] \in Nodes /\ Members(SteerStage(k)) = {SteerAgent[k]}
             /\ SteerStage(k) \in 1..(Len(Team) + MaxSteers) /\ SteerStage(k) \notin Workflow
  <2>1. SteerStage(k) \notin Workflow /\ SteerStage(k) - Len(Team) = k
        /\ SteerStage(k) \in 1..(Len(Team) + MaxSteers)
    BY <1>1, <1>5 DEF SteerStage
  <2>2. NodesOf(SteerStage(k)) = <<SteerAgent[k]>>
    BY <2>1 DEF NodesOf
  <2>3. Members(SteerStage(k)) = {SteerAgent[k]}
    BY <2>2 DEF Members, ToSet
  <2> QED
    BY <1>5, <2>1, <2>3, Stages
<1>6. \A s, t \in 1..(Len(Team) + MaxSteers) : s # t => Members(s) \cap Members(t) = {}
  BY EngineAssumption DEF MaxSteers
<1>7. \A s \in Workflow, k \in 1..MaxSteers : SteerAgent[k] \notin Members(s)
  <2> TAKE s \in Workflow, k \in 1..MaxSteers
  <2>1. s \in 1..(Len(Team) + MaxSteers) /\ s # SteerStage(k)
    BY <1>1, <1>5
  <2> QED
    BY <1>5, <1>6, <2>1
<1>8. \A s, t \in Workflow : s # t => Members(s) \cap Members(t) = {}
  BY <1>1, <1>6
<1> QED
  BY <1>1, <1>2, <1>3, <1>4, <1>5, <1>7, <1>8 DEF NoStage

(* Nothing happens to the nodes.                                             *)
LEMMA NodesStay ==
    ASSUME node' = node, Aborted => Aborted'
    PROVE  /\ \A s : Over(s)' <=> Over(s)
           /\ \A s : Fresh(s) => Fresh(s)'
BY DEF Over, Fresh

LEMMA SignsStay ==
    ASSUME Signs, node' = node, Aborted => Aborted', PendingInterrupt => PendingInterrupt'
    PROVE  Signs'
BY DEF Signs

(* With nobody busy no child is told to end.                                 *)
LEMMA SignsAtRest ==
    ASSUME Signs, node' = node, \A n \in Nodes : node[n].phase = "rest"
    PROVE  Signs'
BY DEF Signs

LEMMA EnterStage == ASSUME Alone, EngineInv, StageInv, Enter PROVE StageInv'
<1>0. /\ pc = "enter" /\ pc' \in {"settle", "select"}
      /\ (Aborted => pc' = "settle" /\ current' = current)
      /\ (~Aborted => pc' = "select" /\ current' = pos /\ status' = "running")
      /\ (Aborted => status' = status)
      /\ UNCHANGED <<steers, gateDecisions, node, pos, cutStage, manualRetry, gate, decision, lock>>
  BY DEF Enter
<1>1. Aborted' <=> Aborted
  BY <1>0 DEF Aborted
<1>2. /\ lock.by \notin {"start"} /\ (~Aborted => lock.by # "retry")
      /\ status \notin {"done", "failed"}
  BY <1>0 DEF EngineInv, Ends, StageInv, NoJudge, Terminal, Aborted
<1>3. NoJudge'
  BY <1>0, <1>1, <1>2 DEF StageInv, NoJudge, Aborted, Terminal
<1>4. StageOrder'
  <2>1. StageReached = pos /\ StageReached' = pos
    BY <1>0, <1>2 DEF StageReached
  <2>2. current' \in Workflow => current' <= pos
    BY <1>0, Bounds DEF StageInv, StageOrder
  <2> QED
    BY <1>0, <1>1, <2>1, <2>2, NodesStay DEF StageInv, StageOrder
<1>5. Signs'
  BY <1>0, <1>1, SignsStay DEF StageInv, PendingInterrupt
<1>6. CutKnown'
  BY <1>0 DEF StageInv, CutKnown, Pending
<1>7. ThisStage'
  BY <1>0, <1>1, <1>2 DEF StageInv, ThisStage, Over, Kinds, Steering, Aborted
<1> QED
  BY <1>3, <1>4, <1>5, <1>6, <1>7 DEF StageInv

LEMMA SelectStage == ASSUME Alone, EngineInv, StageInv, Select PROVE StageInv'
<1>0. /\ pc \in {"select", "again"} /\ pc' \in {"boundary", "executing"}
      /\ UNCHANGED <<status, current, steers, gateDecisions, node, pos, manualRetry,
                     gate, decision, lock>>
  BY DEF Select
<1>1. /\ current = pos /\ cutStage = NoStage /\ lock.by # "start"
      /\ status \notin {"done", "failed"}
  BY <1>0 DEF EngineInv, Place, Ends, StageInv, CutKnown
<1>2. \/ Aborted /\ pc' = "boundary" /\ cutStage' = cutStage
      \/ /\ ~Aborted /\ pc' = "boundary" /\ cutStage' = cutStage
         /\ \A n \in Members(pos) : node[n].status # "queued"
      \/ ~Aborted /\ pc' = "boundary" /\ cutStage' = pos /\ PendingInterrupt
      \/ ~Aborted /\ pc' = "executing" /\ cutStage' = cutStage /\ ~PendingInterrupt
  BY <1>0 DEF Select
<1>3. NoJudge'
  BY <1>0 DEF StageInv, NoJudge, Aborted
<1>4. StageOrder'
  BY <1>0, NodesStay DEF StageInv, StageOrder, StageReached, Aborted
<1>5. Signs'
  BY <1>0, SignsStay DEF StageInv, PendingInterrupt, Aborted
<1>6. CutKnown'
  BY <1>0, <1>1, <1>2 DEF StageInv, CutKnown, Pending, PendingInterrupt
<1>7. ThisStage'
  <2>1. ~Aborted => Kinds({"queued", "done", "failed"})
    BY <1>0 DEF StageInv, ThisStage
  <2>2. PendingInterrupt => Pending # {}
    BY DEF PendingInterrupt, Pending
  <2>3. Aborted' = Aborted /\ PendingInterrupt' = PendingInterrupt /\ Pending' = Pending
    BY <1>0 DEF Aborted, PendingInterrupt, Pending
  <2>4. ~Aborted /\ pc' = "boundary" => Over(pos)' \/ (cutStage' = pos /\ Pending' # {})
    BY <1>0, <1>1, <1>2, <2>1, <2>2, <2>3 DEF Kinds, Over
  <2>5. ~Aborted /\ pc' = "executing" =>
          Kinds({"queued", "running", "done", "failed", "killed"})'
          /\ Kinds({"queued", "running", "done", "failed"})'
    BY <1>0, <2>1 DEF Kinds
  <2>6. current' \in Workflow
    BY <1>0, <1>1, Bounds
  <2> QED
    BY <1>0, <1>1, <2>3, <2>4, <2>5, <2>6 DEF StageInv, ThisStage, Steering, Over
<1> QED
  BY <1>3, <1>4, <1>5, <1>6, <1>7 DEF StageInv

(* At most one steer comes.                                                  *)
LEMMA SingleSteer ==
    ASSUME Alone, EngineInv
    PROVE  /\ Len(steers) <= 1 /\ \A k \in DOMAIN steers : k = 1
           /\ Len(steers) = 0 => DOMAIN steers = {}
           /\ steers # <<>> => Len(steers) = 1
           /\ current \notin Workflow /\ current # NoStage => steers # <<>> /\ Steered = 1
<1>1. /\ steers \in Seq(Steer) /\ Len(steers) <= MaxSteers /\ DOMAIN steers = 1..Len(steers)
      /\ Len(steers) \in Nat /\ MaxSteers \in Nat /\ MaxSteers <= 1
      /\ Workflow = 1..Len(Team) /\ Len(Team) \in Nat /\ current \in Nat /\ NoStage = 0
  BY Bounds DEF Alone
<1>2. current > Len(Team) => current - Len(Team) <= Len(steers)
  BY DEF EngineInv, Place
<1>3. steers # <<>> => Len(steers) # 0
  BY <1>1, EmptySeq
<1>4. Len(steers) <= 1 /\ \A k \in DOMAIN steers : k = 1
  BY <1>1
<1>5. current \notin Workflow /\ current # NoStage => Len(steers) = 1 /\ Steered = 1
  BY <1>1, <1>2 DEF Steered
<1>6. Len(steers) = 0 => DOMAIN steers = {}
  BY <1>1
<1>7. steers # <<>> => Len(steers) = 1
  BY <1>1, <1>3
<1>8. Len(steers) = 1 => steers # <<>>
  <2>1. Len(<<>>) = 0
    OBVIOUS
  <2> QED
    BY <2>1
<1> QED
  BY <1>4, <1>5, <1>6, <1>7, <1>8

LEMMA BetweenStage == ASSUME Alone, EngineInv, StageInv, Between PROVE StageInv'
<1> DEFINE stop == Stopped /\ (pc = "boundary" \/ Pending = {})
<1>0. /\ pc \in {"boundary", "steers"}
      /\ UNCHANGED <<steers, gateDecisions, node, cutStage, manualRetry, gate, decision, lock>>
      /\ \/ stop /\ pc' = "settle" /\ UNCHANGED <<pos, status, current>>
         \/ /\ ~stop /\ Pending # {} /\ pc' = "activate" /\ UNCHANGED <<pos, status, current>>
         \/ /\ ~stop /\ Pending = {} /\ pos < Len(Team) /\ pc' = "enter" /\ pos' = pos + 1
            /\ UNCHANGED <<status, current>>
         \/ /\ ~stop /\ Pending = {} /\ pos >= Len(Team) /\ pc' = "settle" /\ pos' = pos
            /\ status' = "done" /\ current' = pos
  BY DEF Between, BetweenUpTo
<1>1. /\ lock.by # "start" /\ StageReached = pos /\ status # "done"
      /\ (pc = "steers" => Pending = {}) /\ (Aborted => lock.by = "abort")
      /\ Len(Team) \in Nat /\ Workflow = 1..Len(Team) /\ pos \in Workflow /\ pos \in Nat
      /\ current \in Nat
      /\ (~Aborted => Over(pos) \/ (cutStage = pos /\ Pending # {}))
      /\ (lock.by = "retry" => status \in Terminal)
      /\ (pc = "steers" => status # "failed")
  BY <1>0, Bounds DEF EngineInv, Ends, StageInv, NoJudge, CutKnown, ThisStage, StageReached
<1>2. \A n \in Nodes : node[n].phase = "rest"
  BY <1>0, RestWhenJoined
<1>3. Signs'
  BY <1>0, <1>2, SignsAtRest DEF StageInv
<1>4. /\ PendingInterrupt' = PendingInterrupt /\ Pending' = Pending
  BY <1>0 DEF PendingInterrupt, Pending
<1>5. CASE pc' = "settle" /\ UNCHANGED <<pos, status, current>>
  <2>1. NoJudge'
    BY <1>0, <1>5 DEF StageInv, NoJudge, Aborted
  <2>2. StageOrder'
    BY <1>0, <1>5, NodesStay DEF StageInv, StageOrder, StageReached, Aborted
  <2>3. CutKnown'
    BY <1>0, <1>4, <1>5 DEF StageInv, CutKnown
  <2>4. ThisStage'
    BY <1>0, <1>1, <1>5 DEF StageInv, ThisStage, Over, Kinds, Steering, Aborted
  <2> QED
    BY <1>3, <2>1, <2>2, <2>3, <2>4 DEF StageInv
<1>6. CASE /\ ~stop /\ Pending # {} /\ pc' = "activate" /\ UNCHANGED <<pos, status, current>>
  <2>0. pc = "boundary"
    BY <1>0, <1>1, <1>6
  <2>1. NoJudge'
    BY <1>0, <1>6, <2>0 DEF StageInv, NoJudge, Aborted
  <2>2. StageOrder'
    BY <1>0, <1>6, NodesStay DEF StageInv, StageOrder, StageReached, Aborted
  <2>3. CutKnown'
    BY <1>0, <1>4, <1>6, <2>0 DEF StageInv, CutKnown
  <2>4. ThisStage'
    BY <1>0, <1>1, <1>4, <1>6 DEF StageInv, ThisStage, Over, Kinds, Steering, Aborted
  <2> QED
    BY <1>3, <2>1, <2>2, <2>3, <2>4 DEF StageInv
<1>7. CASE /\ ~stop /\ Pending = {} /\ pos < Len(Team) /\ pc' = "enter" /\ pos' = pos + 1
           /\ UNCHANGED <<status, current>>
  <2>0. ~Aborted /\ ~Aborted' /\ status # "failed" /\ Over(pos) /\ cutStage = NoStage
        /\ pos + 1 \in Workflow
    BY <1>0, <1>1, <1>7 DEF Stopped, Aborted, StageInv, CutKnown
  <2>1. NoJudge'
    BY <1>0, <1>7, <2>0 DEF StageInv, NoJudge, Aborted
  <2>2. StageReached' = pos + 1
    BY <1>0, <1>1, <1>7 DEF StageReached
  <2>3. ASSUME NEW s \in Workflow
        PROVE  /\ s < pos + 1 => Over(s)
               /\ s > pos + 1 => Fresh(s)
    BY <1>1, <2>0 DEF StageInv, StageOrder
  <2>4. StageOrder'
    BY <1>0, <1>1, <1>7, <2>0, <2>2, <2>3, NodesStay DEF StageInv, StageOrder
  <2>5. CutKnown'
    BY <1>0, <1>4, <1>7, <2>0 DEF StageInv, CutKnown, Pending, EngineInv, OpenSteers
  <2>6. Fresh(pos + 1)
    BY <1>1, <2>0 DEF StageInv, StageOrder
  <2>7. ThisStage'
    BY <1>0, <1>1, <1>7, <2>0, <2>6 DEF ThisStage, Over, Fresh, Kinds, Steering
  <2> QED
    BY <1>3, <2>1, <2>4, <2>5, <2>7 DEF StageInv
<1>8. CASE /\ ~stop /\ Pending = {} /\ pos >= Len(Team) /\ pc' = "settle" /\ pos' = pos
           /\ status' = "done" /\ current' = pos
  <2>0. ~Aborted /\ ~Aborted' /\ status # "failed" /\ Over(pos) /\ pos = Len(Team)
        /\ lock.by # "retry" /\ cutStage = NoStage
    BY <1>0, <1>1, <1>8 DEF Stopped, Aborted, Terminal, StageInv, CutKnown
  <2>1. NoJudge'
    BY <1>0, <1>1, <1>8, <2>0 DEF StageInv, NoJudge, Aborted
  <2>2. StageReached' = pos
    BY <1>0, <1>1, <1>8 DEF StageReached
  <2>3. StageOrder'
    BY <1>0, <1>1, <1>8, <2>0, <2>2, NodesStay DEF StageInv, StageOrder
  <2>4. CutKnown'
    BY <1>0, <1>4, <1>8, <2>0 DEF StageInv, CutKnown
  <2>5. ThisStage'
    BY <1>0, <1>1, <1>8, <2>0 DEF ThisStage, Over, Kinds, Steering
  <2> QED
    BY <1>3, <2>1, <2>3, <2>4, <2>5 DEF StageInv
<1> QED
  BY <1>0, <1>5, <1>6, <1>7, <1>8

LEMMA ActivateStage == ASSUME Alone, EngineInv, StageInv, Activate PROVE StageInv'
<1>1. PICK k \in Pending :
        /\ steers' = [steers EXCEPT ![k].status = "active",
                                    ![k].cut = IF @ = NoStage THEN cutStage ELSE @]
        /\ current' = SteerStage(k)
  BY DEF Activate
<1>2. /\ pc = "activate" /\ pc' = "push" /\ cutStage' = NoStage
      /\ UNCHANGED <<status, gateDecisions, node, pos, manualRetry, gate, decision, lock>>
  BY DEF Activate
<1>3. /\ k = 1 /\ DOMAIN steers = {1} /\ steers[1].status = "pending"
      /\ Len(Team) \in Nat /\ Workflow = 1..Len(Team) /\ NoStage = 0 /\ pos \in Workflow
  BY Bounds, SingleSteer DEF Pending
<1>4. /\ DOMAIN steers' = {1} /\ steers'[1].status = "active"
      /\ steers'[1].cut = IF steers[1].cut = NoStage THEN cutStage ELSE steers[1].cut
  <2>1. steers[1] \in Steer
    BY <1>3, Bounds, ElementOfSeq
  <2>2. DOMAIN steers' = DOMAIN steers
    BY <1>1
  <2>3. steers'[1] = [steers[1] EXCEPT !.status = "active",
                        !.cut = IF @ = NoStage THEN cutStage ELSE @]
    BY <1>1, <1>3
  <2> QED
    BY <1>3, <2>1, <2>2, <2>3 DEF Steer
<1>5. /\ current' \notin Workflow /\ Steered' = 1
  BY <1>1, <1>3 DEF SteerStage, Steered
<1>6. lock.by # "start" /\ lock.by # "retry" /\ status \notin {"done", "failed"}
  BY <1>2 DEF EngineInv, Ends, StageInv, NoJudge, Terminal, Aborted
<1>7. NoJudge'
  BY <1>2, <1>6 DEF StageInv, NoJudge, Aborted
<1>8. StageOrder'
  BY <1>2, <1>5, <1>6, NodesStay DEF StageInv, StageOrder, StageReached, Aborted
<1>9. Signs'
  BY <1>2, RestWhenJoined, SignsAtRest DEF StageInv
<1>10. steers[1].cut \in {NoStage, pos} /\ cutStage \in {NoStage, pos}
  BY <1>3 DEF StageInv, CutKnown
<1>11. CutKnown'
  BY <1>2, <1>4, <1>10 DEF CutKnown
<1>12. ThisStage'
  <2>1. ~Aborted => Over(pos) \/ cutStage = pos
    BY <1>2 DEF StageInv, ThisStage
  <2>2. ~Aborted => Over(pos) \/ steers'[1].cut = pos
    BY <1>3, <1>4, <1>10, <2>1
  <2> QED
    BY <1>2, <1>5, <1>6, <2>2 DEF ThisStage, Over, Steering, Aborted
<1> QED
  BY <1>7, <1>8, <1>9, <1>11, <1>12 DEF StageInv

LEMMA PushStage == ASSUME Alone, EngineInv, StageInv, Push PROVE StageInv'
<1>1. /\ pc = "push" /\ pc' = "executing"
      /\ node' = [node EXCEPT ![SteerAgent[Steered]] = FreshNode("queued")]
      /\ UNCHANGED <<status, current, steers, gateDecisions, pos, cutStage, manualRetry,
                     gate, decision, lock>>
  BY DEF Push
<1>2. /\ current \notin Workflow /\ Steered = 1 /\ 1 \in 1..MaxSteers
      /\ pos \in Workflow /\ node \in [Nodes -> NodeRun]
  <2>1. current \notin Workflow /\ current # NoStage
    BY <1>1 DEF EngineInv, Place
  <2>2. steers # <<>> /\ Steered = 1 /\ Len(steers) = 1 /\ Len(steers) <= MaxSteers
    BY <2>1, SingleSteer, Bounds
  <2> QED
    BY <2>1, <2>2, Bounds
<1> DEFINE agent == SteerAgent[1]
<1>3. /\ agent \in Nodes /\ \A s \in Workflow : agent \notin Members(s) /\ Members(s) \subseteq Nodes
  BY <1>2, Bounds
<1> HIDE DEF agent
<1>4. /\ node'[agent] = FreshNode("queued")
      /\ \A n \in Nodes : n # agent => node'[n] = node[n]
      /\ node' \in [Nodes -> NodeRun] \/ TRUE
  BY <1>1, <1>2, <1>3 DEF agent
<1>5. \A s \in Workflow : \A n \in Members(s) : node'[n] = node[n]
  BY <1>3, <1>4
<1>6. lock.by # "start" /\ status \notin {"done", "failed"}
  BY <1>1 DEF EngineInv, Ends
<1>7. NoJudge'
  BY <1>1 DEF StageInv, NoJudge, Aborted
<1>8. StageOrder'
  BY <1>1, <1>5, <1>6 DEF StageInv, StageOrder, StageReached, Aborted, Over, Fresh
<1>9. Signs'
  <2>1. \A n \in Nodes : node[n].phase = "rest"
    BY <1>1, RestWhenJoined
  <2>2. PendingInterrupt' = PendingInterrupt /\ Aborted' = Aborted
    BY <1>1 DEF PendingInterrupt, Aborted
  <2>3. /\ FreshNode("queued").phase = "rest" /\ FreshNode("queued").status = "queued"
        /\ FreshNode("queued").reason = "none"
    BY DEF FreshNode
  <2> QED
    BY <1>4, <2>1, <2>2, <2>3 DEF StageInv, Signs, KillReasons
<1>10. CutKnown'
  BY <1>1, <1>2 DEF StageInv, CutKnown
<1>11. ThisStage'
  <2>1. Steering
    BY <1>1 DEF Steering
  <2>2. ~Aborted => Over(pos) \/ steers[1].cut = pos
    BY <1>2, <2>1 DEF StageInv, ThisStage
  <2>3. Over(pos) => Over(pos)'
    BY <1>1, <1>2, <1>5 DEF Over
  <2>4. Steered' = 1 /\ node'[SteerAgent[1]].status = "queued" /\ current' # pos'
    BY <1>1, <1>2, <1>4 DEF Steered, FreshNode, agent
  <2> QED
    BY <1>1, <1>2, <1>6, <2>2, <2>3, <2>4 DEF ThisStage, Aborted
<1> QED
  BY <1>7, <1>8, <1>9, <1>10, <1>11 DEF StageInv

LEMMA SettleStage == ASSUME Alone, EngineInv, StageInv, Settle PROVE StageInv'
<1>1. /\ pc = "settle" /\ pc' = "idle" /\ cutStage' = NoStage /\ manualRetry' = FALSE
      /\ lock' = IF lock.by = "abort" THEN Free ELSE lock
      /\ UNCHANGED <<status, current, gateDecisions, node, pos, gate, decision>>
      /\ steers' = [k \in DOMAIN steers |->
           IF steers[k].status \in {"pending", "active"}
             THEN [steers[k] EXCEPT !.status = "expired"] ELSE steers[k]]
  BY DEF Settle
<1>2. lock.by # "start" /\ lock'.by # "start" /\ (lock'.by = "retry" => lock' = lock)
  BY <1>1 DEF EngineInv, Ends, Free
<1>3. NoJudge'
  BY <1>1, <1>2 DEF StageInv, NoJudge
<1>4. StageOrder'
  BY <1>1, <1>2, NodesStay DEF StageInv, StageOrder, StageReached, Aborted
<1>5. Signs'
  BY <1>1, RestWhenJoined, SignsAtRest DEF StageInv
<1>6. CutKnown'
  <2>1. EngineInv'
    BY SettleInv
  <2> QED
    BY <1>1, <2>1 DEF EngineInv, OpenSteers, CutKnown
<1>7. ThisStage'
  BY <1>1, <1>2 DEF StageInv, ThisStage, Over, Kinds, Steering, Aborted
<1> QED
  BY <1>3, <1>4, <1>5, <1>6, <1>7 DEF StageInv

(* The calls of the API. One that changes no node's status leaves the stages *)
(* as they are.                                                              *)
LEMMA RetryStageStage ==
    ASSUME Alone, EngineInv, StageInv, NEW s \in Workflow, RetryStage(s)
    PROVE  StageInv'
<1>1. /\ lock = Free /\ status \in Terminal /\ current = s
      /\ lock' = [by |-> "retry", stage |-> s]
      /\ UNCHANGED <<status, current, steers, gateDecisions, node, manualRetry, pc, pos,
                     cutStage, gate, decision>>
  BY DEF RetryStage, Execution
<1>2. lock.by = "none" /\ lock'.by = "retry" /\ lock'.stage = s
  BY <1>1 DEF Free
<1>3. NoJudge'
  BY <1>1, <1>2 DEF StageInv, NoJudge, Aborted
<1>4. StageOrder'
  BY <1>1, <1>2, NodesStay DEF StageInv, StageOrder, StageReached, Aborted
<1>5. Signs'
  BY <1>1, SignsStay DEF StageInv, PendingInterrupt, Aborted
<1>6. CutKnown'
  BY <1>1 DEF StageInv, CutKnown, Pending, Steered
<1>7. ThisStage'
  <2>1. /\ Over(pos)' = Over(pos) /\ Steering' = Steering /\ PendingInterrupt' = PendingInterrupt
        /\ Pending' = Pending /\ Aborted' = Aborted /\ Steered' = Steered
        /\ Members(pos)' = Members(pos) /\ (\A S : Kinds(S)' = Kinds(S))
    BY <1>1 DEF Over, Steering, PendingInterrupt, Pending, Aborted, Steered, Members, NodesOf,
                Workflow, Kinds
  <2> QED
    BY <1>1, <1>2, <2>1 DEF StageInv, ThisStage, Kinds
<1> QED
  BY <1>3, <1>4, <1>5, <1>6, <1>7 DEF StageInv

(* An abort kills what waits and tells what lives to end.                    *)
LEMMA AbortNodes ==
    ASSUME NEW f \in [Nodes -> NodeRun], NEW n \in Nodes,
           f[n].phase = "live" => f[n].status # "queued"
    PROVE  LET g == KillLive(MarkKilled(f, Nodes), Nodes, "abort") IN
           /\ g[n].phase = f[n].phase
           /\ g[n].status = IF f[n].status = "queued" THEN "killed" ELSE f[n].status
           /\ g[n].reason = IF f[n].phase = "live" THEN "abort" ELSE f[n].reason
<1> DEFINE h == MarkKilled(f, Nodes)
           g == KillLive(h, Nodes, "abort")
<1>1. f[n] \in NodeRun
  OBVIOUS
<1>2. /\ h[n].phase = f[n].phase /\ h[n].reason = f[n].reason
      /\ h[n].status = IF f[n].status = "queued" THEN "killed" ELSE f[n].status
      /\ h[n] \in NodeRun
  BY <1>1 DEF MarkKilled, NodeRun
<1> HIDE DEF h
<1>3. g[n] = IF h[n].phase = "live" THEN [h[n] EXCEPT !.reason = "abort"] ELSE h[n]
  BY DEF KillLive
<1> HIDE DEF g
<1>4. /\ g[n].phase = f[n].phase
      /\ g[n].status = IF f[n].status = "queued" THEN "killed" ELSE f[n].status
      /\ g[n].reason = IF f[n].phase = "live" THEN "abort" ELSE f[n].reason
  BY <1>2, <1>3 DEF NodeRun
<1> QED
  BY <1>4 DEF g, h

LEMMA AbortStage == ASSUME Alone, EngineInv, StageInv, Abort PROVE StageInv'
<1>1. /\ lock = Free /\ status \notin Terminal /\ status' = "aborted"
      /\ node' = KillLive(MarkKilled(node, Nodes), Nodes, "abort")
      /\ lock' = [by |-> "abort", stage |-> NoStage]
      /\ UNCHANGED <<current, steers, gateDecisions, manualRetry, pc, pos, cutStage, gate,
                     decision>>
  BY DEF Abort, Execution
<1>2. ~Aborted /\ Aborted' /\ lock.by = "none" /\ lock'.by = "abort"
  BY <1>1 DEF Aborted, Terminal, Free
<1>3. ASSUME NEW n \in Nodes
      PROVE  /\ node'[n].phase = node[n].phase
             /\ node'[n].status = IF node[n].status = "queued" THEN "killed" ELSE node[n].status
             /\ node'[n].reason = IF node[n].phase = "live" THEN "abort" ELSE node[n].reason
  <2>1. node[n].phase = "live" => node[n].status # "queued"
    BY DEF StageInv, Signs
  <2>2. node \in [Nodes -> NodeRun]
    BY Bounds
  <2> QED
    BY <1>1, <2>1, <2>2, AbortNodes
<1>4. \A s \in Workflow : Members(s) \subseteq Nodes
  BY Bounds
<1>5. \A s \in Workflow : (Over(s) => Over(s)') /\ (Fresh(s) => Fresh(s)')
  BY <1>2, <1>3, <1>4 DEF Over, Fresh
<1>6. NoJudge'
  BY <1>1, <1>2 DEF StageInv, NoJudge
<1>7. StageOrder'
  BY <1>1, <1>2, <1>5 DEF StageInv, StageOrder, StageReached
<1>8. Signs'
  BY <1>2, <1>3 DEF StageInv, Signs
<1>9. CutKnown'
  BY <1>1 DEF StageInv, CutKnown, Pending, Steered
<1>10. ThisStage'
  <2>1. pos \in Workflow
    BY Bounds
  <2> QED
    BY <1>1, <1>2, <1>5, <2>1 DEF StageInv, ThisStage, Steered
<1> QED
  BY <1>6, <1>7, <1>8, <1>9, <1>10 DEF StageInv

(* A steer that comes, comes first.                                          *)
LEMMA SteerRunStage ==
    ASSUME Alone, EngineInv, StageInv, NEW mode \in {"interrupt", "queue"}, SteerRun(mode)
    PROVE  StageInv'
<1> DEFINE strikes == mode = "interrupt" /\ status = "running"
           cut     == IF strikes /\ \E n \in Nodes : Live(n) THEN current ELSE NoStage
           new     == [mode |-> mode, status |-> "pending", cut |-> cut]
<1>1. /\ lock = Free /\ status \notin Terminal /\ Len(steers) < MaxSteers
      /\ steers' = Append(steers, new)
      /\ node' = IF strikes THEN KillLive(node, Nodes, "steer") ELSE node
      /\ UNCHANGED <<status, current, gateDecisions, manualRetry, lock, pc, pos, cutStage,
                     gate, decision>>
  BY DEF SteerRun, Execution
<1>2. /\ steers = <<>> /\ DOMAIN steers = {} /\ lock.by = "none" /\ ~Aborted /\ Aborted' = Aborted
      /\ (current \in Workflow \/ current = NoStage)
      /\ pos \in Workflow /\ pos \in Nat
  <2>1. Len(steers) = 0
    BY <1>1, Bounds DEF Alone
  <2>2. steers = <<>>
    BY <2>1, Bounds, EmptySeq
  <2> QED
    BY <1>1, <2>1, <2>2, Bounds, SingleSteer DEF Free, Aborted, Terminal
<1>3. cut \in {NoStage, pos}
  <2>1. ASSUME NEW n \in Nodes, Live(n) PROVE current = pos
    <3>1. pc = "executing"
      BY <2>1 DEF EngineInv, BusyPlace, Live, StageInv, NoJudge
    <3> QED
      BY <1>2, <3>1 DEF EngineInv, Place
  <2> QED
    BY <2>1
<1>4. DOMAIN steers' = {1} /\ steers'[1] = new
  BY <1>1, <1>2
<1> HIDE DEF cut
<1>5. steers'[1].status = "pending" /\ steers'[1].mode = mode /\ steers'[1].cut \in {NoStage, pos}
  BY <1>3, <1>4
<1> HIDE DEF new
<1>6. ~PendingInterrupt /\ Pending = {} /\ 1 \in Pending' /\ (strikes => PendingInterrupt')
  BY <1>2, <1>4, <1>5 DEF PendingInterrupt, Pending
<1>7. ASSUME NEW n \in Nodes
      PROVE  /\ node'[n].phase = node[n].phase /\ node'[n].status = node[n].status
             /\ \/ node'[n].reason = node[n].reason
                \/ strikes /\ node[n].phase = "live"
  <2>1. node[n] \in NodeRun
    BY Bounds
  <2> QED
    BY <1>1, <2>1 DEF KillLive, NodeRun
<1>8. \A s \in Workflow : Members(s) \subseteq Nodes
  BY Bounds
<1>9. \A s \in Workflow : (Over(s) => Over(s)') /\ (Fresh(s) => Fresh(s)')
  BY <1>2, <1>7, <1>8 DEF Over, Fresh
<1>10. NoJudge'
  BY <1>1, <1>2 DEF StageInv, NoJudge
<1>11. StageOrder'
  BY <1>1, <1>2, <1>9 DEF StageInv, StageOrder, StageReached
<1>12. Signs'
  BY <1>2, <1>6, <1>7 DEF StageInv, Signs
<1>13. cutStage = NoStage /\ pc \notin {"review", "steers", "push", "settle"}
  BY <1>1, <1>2, <1>6, Bounds DEF StageInv, CutKnown, EngineInv, Place, Ends
<1>14. CutKnown'
  BY <1>1, <1>4, <1>5, <1>13 DEF CutKnown
<1>15. ThisStage'
  <2>1. pc = "executing" => current \in Workflow
    BY <1>2 DEF EngineInv, Place
  <2>2. ~Steering /\ ~Steering'
    BY <1>1, <1>13, <2>1 DEF Steering
  <2>3. \A S : Kinds(S) => Kinds(S)'
    BY <1>1, <1>2, <1>7, <1>8 DEF Kinds
  <2>4. status \notin {"done", "failed"} /\ lock'.by # "start"
    BY <1>1, <1>2 DEF Terminal
  <2>5. pc \in {"enter", "select", "again"} => Kinds({"queued", "done", "failed"})'
    BY <1>2, <2>3 DEF StageInv, ThisStage
  <2>6. pc = "executing" /\ current = pos =>
          /\ Kinds({"queued", "running", "done", "failed", "killed"})'
          /\ Kinds({"queued", "running", "done", "failed"})'
    BY <1>2, <1>6, <2>3 DEF StageInv, ThisStage
  <2>7. pc \in {"boundary", "activate"} => Over(pos)'
    BY <1>1, <1>2, <1>6, <1>9 DEF StageInv, ThisStage
  <2> QED
    BY <1>1, <1>2, <1>13, <2>1, <2>2, <2>4, <2>5, <2>6, <2>7 DEF ThisStage
<1> QED
  BY <1>10, <1>11, <1>12, <1>14, <1>15 DEF StageInv

LEMMA StartExecutionStage ==
    ASSUME Alone, EngineInv, StageInv, StartExecution PROVE StageInv'
<1>1. /\ lock.by = "start" /\ pc' = "enter" /\ pos' = lock.stage /\ lock' = Free
      /\ UNCHANGED <<status, current, steers, gateDecisions, node, cutStage, manualRetry,
                     gate, decision>>
  BY DEF StartExecution
<1>2. pc = "idle" /\ status = "running" /\ lock.stage = current /\ lock.stage \in Workflow
      /\ lock'.by = "none" /\ ~Aborted /\ ~Aborted' /\ current \in Nat
  BY <1>1, Bounds DEF EngineInv, Ends, StageInv, NoJudge, Free, Aborted
<1>3. StageReached = lock.stage /\ StageReached' = lock.stage
  BY <1>1, <1>2 DEF StageReached
<1>4. NoJudge'
  BY <1>1, <1>2 DEF StageInv, NoJudge
<1>5. StageOrder'
  BY <1>1, <1>2, <1>3, NodesStay DEF StageInv, StageOrder
<1>6. Signs'
  BY <1>1, SignsStay DEF StageInv, PendingInterrupt, Aborted
<1>7. CutKnown'
  BY <1>1, <1>2 DEF StageInv, CutKnown, EngineInv, OpenSteers
<1>8. ThisStage'
  BY <1>1, <1>2 DEF StageInv, ThisStage, Kinds, Steering
<1> QED
  BY <1>4, <1>5, <1>6, <1>7, <1>8 DEF StageInv

(* No node's status changes and nobody who runs is told to end.              *)
LEMMA SameStatus ==
    ASSUME EngineInv, StageInv, UNCHANGED Others, \A n \in Nodes : node'[n].status = node[n].status,
           Signs'
    PROVE  StageInv'
<1>1. UNCHANGED <<status, current, steers, gateDecisions, pc, pos, cutStage, manualRetry, gate,
                  decision, lock>>
  BY DEF Others
<1>2. Aborted' = Aborted /\ Steered' = Steered /\ Steering' = Steering /\ Pending' = Pending
      /\ PendingInterrupt' = PendingInterrupt /\ StageReached' = StageReached
  BY <1>1 DEF Aborted, Steered, Steering, Pending, PendingInterrupt, StageReached
<1>3. \A s \in Workflow : Members(s) \subseteq Nodes
  BY Bounds
<1>4. \A s \in Workflow : (Over(s)' <=> Over(s)) /\ (Fresh(s) => Fresh(s)')
  BY <1>2, <1>3 DEF Over, Fresh
<1>5. pos \in Workflow
  BY Bounds
<1>6. \A S : Kinds(S) => Kinds(S)'
  BY <1>1, <1>3, <1>5 DEF Kinds
<1>7. NoJudge'
  BY <1>1 DEF StageInv, NoJudge, Aborted
<1>8. StageOrder'
  BY <1>1, <1>2, <1>4 DEF StageInv, StageOrder
<1>9. CutKnown'
  BY <1>1, <1>2 DEF StageInv, CutKnown
<1>10. ThisStage'
  <2>1. pc = "executing" /\ Steering => SteerAgent[Steered] \in Nodes
    <3> SUFFICES ASSUME pc = "executing", Steering PROVE SteerAgent[Steered] \in Nodes
      OBVIOUS
    <3>1. current \notin Workflow
      BY DEF Steering
    <3>2. Steered \in 1..MaxSteers
      BY <3>1, ReturnedFacts
    <3> QED
      BY <3>2, Bounds
  <2>2. lock.by = "start" => lock.stage \in Workflow
    BY DEF EngineInv, Ends
  <2>3. /\ status' = "failed" => Over(pos)'
        /\ status' = "done" => Over(pos)' /\ pos' = Len(Team)
        /\ lock'.by = "start" => \A n \in Members(lock'.stage) : node'[n].status = "queued"
        /\ pc' = "review" => \/ decision' = Advance /\ Over(pos)'
                             \/ decision' = Retry(Members(pos')) /\ steers'[Steered'].cut = pos'
    BY <1>1, <1>2, <1>3, <1>4, <1>5, <2>2 DEF StageInv, ThisStage
  <2>4. ASSUME ~Aborted'
        PROVE  /\ pc' \in {"enter", "select", "again"} => Kinds({"queued", "done", "failed"})'
               /\ pc' = "executing" /\ current' = pos' =>
                     /\ Kinds({"queued", "running", "done", "failed", "killed"})'
                     /\ PendingInterrupt' \/ Kinds({"queued", "running", "done", "failed"})'
               /\ pc' \in {"boundary", "activate"} =>
                     Over(pos)' \/ (cutStage' = pos' /\ Pending' # {})
               /\ Steering' => Over(pos)' \/ steers'[Steered'].cut = pos'
               /\ pc' = "executing" /\ Steering' => node'[SteerAgent[Steered']].status # "killed"
               /\ pc' = "steers" => Over(pos)'
    BY <1>1, <1>2, <1>4, <1>5, <1>6, <2>1, <2>4 DEF StageInv, ThisStage
  <2> QED
    BY <2>3, <2>4 DEF ThisStage, Retry
<1> QED
  BY <1>7, <1>8, <1>9, <1>10 DEF StageInv

LEMMA StartedFacts ==
    ASSUME NEW nd \in NodeRun, nd.status = "queued"
    PROVE  /\ Started(nd, FALSE).phase = "prep" /\ Started(nd, FALSE).status = "queued"
           /\ Started(nd, FALSE).reason = nd.reason
BY DEF Started, NodeRun

LEMMA PickStage == ASSUME Alone, EngineInv, StageInv, Pick PROVE StageInv'
<1>1. /\ pc = "executing" /\ UNCHANGED Others
      /\ \E i \in Left(current) :
           node' = [node EXCEPT ![NodesOf(current)[i]] = Started(@, FALSE)]
  BY DEF Pick, Others
<1>2. /\ current \in 1..(Len(Team) + MaxSteers) /\ node \in [Nodes -> NodeRun]
  BY <1>1, ReturnedFacts, Bounds
<1>3. PICK n \in Nodes : /\ node[n].status = "queued" /\ node[n].phase = "rest"
                         /\ node' = [node EXCEPT ![n] = Started(@, FALSE)]
  <2>1. PICK i \in Left(current) :
          node' = [node EXCEPT ![NodesOf(current)[i]] = Started(@, FALSE)]
    BY <1>1
  <2>2. NodesOf(current)[i] \in Members(current) /\ Members(current) \subseteq Nodes
    BY <1>2, Stages DEF Left
  <2>3. node[NodesOf(current)[i]].status = "queued" /\ node[NodesOf(current)[i]].phase = "rest"
    BY DEF Left, Busy
  <2> QED
    BY <2>1, <2>2, <2>3
<1>4. /\ node'[n].phase = "prep" /\ node'[n].status = "queued" /\ node'[n].reason = node[n].reason
      /\ \A m \in Nodes : m # n => node'[m] = node[m]
  BY <1>2, <1>3, StartedFacts
<1>5. \A m \in Nodes : node'[m].status = node[m].status
  BY <1>3, <1>4
<1>6. Signs'
  <2>1. Aborted' = Aborted /\ PendingInterrupt' = PendingInterrupt
    BY <1>1 DEF Others, Aborted, PendingInterrupt
  <2> QED
    BY <1>3, <1>4, <2>1 DEF StageInv, Signs
<1> QED
  BY <1>1, <1>5, <1>6, SameStatus

(* A step of a node's coroutine gives its node a status of an attempt, and   *)
(* kills it only for an abort or a steer.                                    *)
NodeFacts(n) ==
    /\ node[n].phase # "rest"
    /\ \A m \in Nodes \ {n} : node'[m] = node[m]
    /\ node'[n].status \in {node[n].status, "running", "done", "failed", "killed"}
    /\ node'[n].status = "killed" => node[n].status = "killed" \/ Aborted \/ PendingInterrupt
    /\ Signs'

LEMMA CoroutineFacts ==
    ASSUME NodeTypeOK, Signs, NEW n \in Nodes, Coroutine(n) \/ NodeTimeout(n)
    PROVE  NodeFacts(n)
<1> DEFINE nd == node[n]
<1>0. nd \in NodeRun /\ node \in [Nodes -> NodeRun]
  BY DEF NodeTypeOK
<1>s. /\ nd.phase = "live" <=> nd.status = "running"
      /\ nd.phase \in {"prep", "resolve"} =>
            nd.status = "queued" \/ (nd.status = "killed" /\ Aborted)
      /\ nd.reason \in KillReasons => nd.phase = "live" /\ (Aborted \/ PendingInterrupt)
  BY DEF Signs
<1>a. ASSUME NEW next, nd.phase # "rest",
             next.status \in {nd.status, "running", "done", "failed", "killed"},
             next.status = "killed" => nd.status = "killed" \/ Aborted \/ PendingInterrupt,
             next.phase = "live" <=> next.status = "running",
             next.phase \in {"prep", "resolve"} =>
               next.status = "queued" \/ (next.status = "killed" /\ Aborted),
             next.reason \in KillReasons => next.phase = "live" /\ (Aborted \/ PendingInterrupt),
             node' = [node EXCEPT ![n] = next], UNCHANGED Others
      PROVE  NodeFacts(n)
  <2>1. node'[n] = next /\ \A m \in Nodes \ {n} : node'[m] = node[m]
    BY <1>0, <1>a
  <2>2. Aborted' = Aborted /\ PendingInterrupt' = PendingInterrupt
    BY <1>a DEF Others, Aborted, PendingInterrupt
  <2>3. Signs'
    BY <1>a, <2>1, <2>2 DEF Signs
  <2> QED
    BY <1>a, <2>1, <2>3 DEF NodeFacts
<1>b. /\ Spawned(nd).status = "running" /\ Spawned(nd).phase = "live"
      /\ Spawned(nd).reason = nd.reason
      /\ Failed(nd).status = "failed" /\ Failed(nd).phase = "save" /\ Failed(nd).reason = nd.reason
  BY <1>0 DEF Spawned, Failed, NodeRun
<1>1. CASE NodePrepared(n)
  <2> DEFINE killed  == [nd EXCEPT !.status = "killed", !.phase = "save"]
             resolve == [nd EXCEPT !.phase = "resolve"]
  <2>1. /\ killed.status = "killed" /\ killed.phase = "save" /\ killed.reason = nd.reason
        /\ resolve.status = nd.status /\ resolve.phase = "resolve" /\ resolve.reason = nd.reason
    BY <1>0 DEF NodeRun
  <2>2. /\ nd.phase = "prep" /\ UNCHANGED Others
        /\ \/ /\ node' = [node EXCEPT ![n] = killed]
              /\ nd.status = "killed" \/ Aborted \/ PendingInterrupt
           \/ \E next \in {Failed(nd), resolve, Spawned(nd)} : node' = [node EXCEPT ![n] = next]
    BY <1>0, <1>1 DEF NodePrepared, Prepared
  <2>3. nd.reason \notin KillReasons
    BY <1>s, <2>2
  <2> HIDE DEF killed, resolve
  <2>4. CASE /\ node' = [node EXCEPT ![n] = killed]
             /\ nd.status = "killed" \/ Aborted \/ PendingInterrupt
    BY <1>a, <2>1, <2>2, <2>3, <2>4
  <2>5. CASE node' = [node EXCEPT ![n] = Failed(nd)]
    BY <1>a, <1>b, <2>2, <2>3, <2>5
  <2>6. CASE node' = [node EXCEPT ![n] = Spawned(nd)]
    BY <1>a, <1>b, <2>2, <2>3, <2>6
  <2>7. CASE node' = [node EXCEPT ![n] = resolve]
    BY <1>a, <1>s, <2>1, <2>2, <2>3, <2>7
  <2> QED
    BY <2>2, <2>4, <2>5, <2>6, <2>7
<1>2. CASE NodeResolved(n)
  <2>1. /\ nd.phase = "resolve" /\ UNCHANGED Others
        /\ \E next \in {Spawned(nd), Failed(nd)} : node' = [node EXCEPT ![n] = next]
    BY <1>2 DEF NodeResolved, Resolved
  <2>2. nd.reason \notin KillReasons
    BY <1>s, <2>1
  <2>3. CASE node' = [node EXCEPT ![n] = Failed(nd)]
    BY <1>a, <1>b, <2>1, <2>2, <2>3
  <2>4. CASE node' = [node EXCEPT ![n] = Spawned(nd)]
    BY <1>a, <1>b, <2>1, <2>2, <2>4
  <2> QED
    BY <2>1, <2>3, <2>4
<1>3. CASE NodeExit(n)
  <2> DEFINE ended(end) == [nd EXCEPT !.status = end, !.phase = "finish",
                                      !.reason = "none", !.timer = FALSE]
  <2>1. PICK end \in {"killed", "done", "failed"} :
          /\ nd.phase = "live" /\ UNCHANGED Others
          /\ end = "killed" => nd.reason \in KillReasons
          /\ node' = [node EXCEPT ![n] = ended(end)]
    BY <1>0, <1>3 DEF NodeExit, Exit, Live
  <2>2. ended(end).status = end /\ ended(end).phase = "finish" /\ ended(end).reason = "none"
    BY <1>0 DEF NodeRun
  <2>3. "none" \notin KillReasons
    BY DEF KillReasons
  <2>4. end = "killed" => Aborted \/ PendingInterrupt
    BY <1>s, <2>1
  <2> HIDE DEF ended
  <2> QED
    BY <1>a, <2>1, <2>2, <2>3, <2>4
<1>4. CASE NodeFinish(n)
  <2> DEFINE rested == [nd EXCEPT !.phase = "rest"]
             passed == [rested EXCEPT !.check = "passed"]
             failed == [rested EXCEPT !.check = "failed"]
             spoilt == [rested EXCEPT !.check = "failed",
                                      !.status = IF @ = "done" THEN "failed" ELSE @]
  <2>1. nd.phase = "finish" /\ UNCHANGED Others
        /\ \E next \in {rested, passed, failed, spoilt} : node' = [node EXCEPT ![n] = next]
    BY <1>4 DEF NodeFinish, Finish
  <2>2. /\ rested.phase = "rest" /\ rested.reason = nd.reason /\ rested.status = nd.status
        /\ passed.phase = "rest" /\ passed.reason = nd.reason /\ passed.status = nd.status
        /\ failed.phase = "rest" /\ failed.reason = nd.reason /\ failed.status = nd.status
        /\ spoilt.phase = "rest" /\ spoilt.reason = nd.reason
        /\ spoilt.status \in {nd.status, "failed"}
    BY <1>0 DEF NodeRun
  <2>3. nd.reason \notin KillReasons /\ nd.status # "running"
    BY <1>s, <2>1
  <2> HIDE DEF rested, passed, failed, spoilt
  <2>4. PICK next \in {rested, passed, failed, spoilt} : node' = [node EXCEPT ![n] = next]
    BY <2>1
  <2>5. next.phase = "rest" /\ next.reason = nd.reason /\ next.status \in {nd.status, "failed"}
    BY <2>2, <2>4
  <2> QED
    BY <1>a, <2>1, <2>3, <2>4, <2>5
<1>5. CASE NodeSaved(n)
  <2> DEFINE rested == [nd EXCEPT !.phase = "rest"]
  <2>1. /\ nd.phase = "save" /\ UNCHANGED Others /\ node' = [node EXCEPT ![n] = rested]
    BY <1>0, <1>5 DEF NodeSaved, Saved
  <2>2. rested.phase = "rest" /\ rested.reason = nd.reason /\ rested.status = nd.status
    BY <1>0 DEF NodeRun
  <2>3. nd.reason \notin KillReasons /\ nd.status # "running"
    BY <1>s, <2>1
  <2> HIDE DEF rested
  <2> QED
    BY <1>a, <2>1, <2>2, <2>3
<1>6. CASE NodeTimeout(n)
  <2> DEFINE late == [nd EXCEPT !.reason = "timeout", !.timer = FALSE]
  <2>1. nd.phase = "live" /\ UNCHANGED Others /\ node' = [node EXCEPT ![n] = late]
    BY <1>0, <1>6 DEF NodeTimeout, HardTimeout, Live
  <2>2. late.phase = nd.phase /\ late.reason = "timeout" /\ late.status = nd.status
    BY <1>0 DEF NodeRun
  <2>3. "timeout" \notin KillReasons
    BY DEF KillReasons
  <2> HIDE DEF late
  <2> QED
    BY <1>a, <1>s, <2>1, <2>2, <2>3
<1> QED
  BY <1>1, <1>2, <1>3, <1>4, <1>5, <1>6 DEF Coroutine

(* A stage's nodes belong to no other stage.                                 *)
LEMMA Elsewhere ==
    ASSUME EngineInv, NEW s \in 1..(Len(Team) + MaxSteers), NEW n \in Members(s),
           NEW t \in 1..(Len(Team) + MaxSteers), t # s
    PROVE  n \notin Members(t)
BY EngineAssumption DEF MaxSteers

LEMMA NodeStage ==
    ASSUME Alone, EngineInv, StageInv, NEW n \in Nodes, Coroutine(n) \/ NodeTimeout(n)
    PROVE  StageInv'
<1>1. NodeFacts(n)
  BY CoroutineFacts DEF EngineInv, TypeOK, StageInv
<1>2. UNCHANGED <<status, current, steers, gateDecisions, pc, pos, cutStage, manualRetry, gate,
                  decision, lock>>
  BY NodeRunnerStep DEF EngineInv, TypeOK, NodeStep, Others
<1>3. pc = "executing" /\ n \in Members(current)
  BY <1>1 DEF NodeFacts, EngineInv, BusyPlace, StageInv, NoJudge
<1>4. /\ current \in 1..(Len(Team) + MaxSteers) /\ status \notin {"done", "failed"}
      /\ lock.by # "start" /\ (current \in Workflow => current = pos)
  BY <1>3, ReturnedFacts
<1>5. /\ Workflow = 1..Len(Team) /\ Len(Team) \in Nat /\ MaxSteers \in Nat /\ pos \in Workflow
      /\ Workflow \subseteq 1..(Len(Team) + MaxSteers)
      /\ \A s \in Workflow : Members(s) \subseteq Nodes
  BY Bounds
<1>6. \A s \in Workflow : s # current => \A m \in Members(s) : m \in Nodes \ {n}
  BY <1>3, <1>4, <1>5, Elsewhere
<1>7. /\ \A m \in Nodes \ {n} : node'[m] = node[m]
      /\ node'[n].status \in {node[n].status, "running", "done", "failed", "killed"}
      /\ node'[n].status = "killed" => node[n].status = "killed" \/ Aborted \/ PendingInterrupt
      /\ Signs'
  BY <1>1 DEF NodeFacts
<1>8. Aborted' = Aborted /\ Steered' = Steered /\ Steering' = Steering /\ Pending' = Pending
      /\ PendingInterrupt' = PendingInterrupt /\ StageReached' = pos /\ StageReached = pos
  <2>1. StageReached' = pos /\ StageReached = pos
    BY <1>2, <1>4 DEF StageReached
  <2> QED
    BY <1>2, <2>1 DEF Aborted, Steered, Steering, Pending, PendingInterrupt
<1>9. NoJudge'
  BY <1>2 DEF StageInv, NoJudge, Aborted
<1>10. \A s \in Workflow : s # current => (Over(s) => Over(s)') /\ (Fresh(s) => Fresh(s)')
  BY <1>6, <1>7, <1>8 DEF Over, Fresh
<1>11. StageOrder'
  <2>1. \A s \in Workflow : s < pos \/ s > pos => s # current
    BY <1>4, <1>5
  <2> QED
    BY <1>2, <1>4, <1>5, <1>8, <1>10, <2>1 DEF StageInv, StageOrder
<1>12. CutKnown'
  BY <1>2, <1>8 DEF StageInv, CutKnown
<1>13. ThisStage'
  <2>1. ASSUME ~Aborted, current = pos
        PROVE  /\ Kinds({"queued", "running", "done", "failed", "killed"})'
               /\ PendingInterrupt \/ Kinds({"queued", "running", "done", "failed"})'
    BY <1>2, <1>3, <1>5, <1>7, <2>1 DEF StageInv, ThisStage, Kinds
  <2>2. ASSUME ~Aborted, current \notin Workflow
        PROVE  /\ Over(pos)' \/ steers[Steered].cut = pos
               /\ node'[SteerAgent[Steered]].status # "killed"
    <3>1. Over(pos) \/ steers[Steered].cut = pos
      BY <1>3, <2>2 DEF StageInv, ThisStage, Steering
    <3>2. Over(pos) => Over(pos)'
      BY <1>2, <1>5, <1>10, <2>2
    <3>3. Pending = {}
      <4>1. steers[Steered].status = "active" /\ Steered = 1
        BY <1>3, <1>5, <2>2, SingleSteer DEF EngineInv, OpenSteers, Place
      <4> QED
        BY <4>1, SingleSteer DEF Pending
    <3>4. ~PendingInterrupt
      BY <3>3 DEF Pending, PendingInterrupt
    <3>5. node[SteerAgent[Steered]].status # "killed" /\ SteerAgent[Steered] \in Nodes
      <4>1. Steered \in 1..MaxSteers
        BY <1>3, <2>2, ReturnedFacts
      <4> QED
        BY <1>3, <2>2, <4>1, Bounds DEF StageInv, ThisStage, Steering
    <3> QED
      BY <1>7, <2>2, <3>1, <3>2, <3>4, <3>5
  <2> QED
    BY <1>2, <1>3, <1>4, <1>5, <1>8, <2>1, <2>2 DEF ThisStage, Steering
<1> QED
  BY <1>7, <1>9, <1>11, <1>12, <1>13 DEF StageInv

(* What a reset does to the nodes' status, in a stage and elsewhere.         *)
LEMMA ResetStatus ==
    ASSUME NEW f \in [Nodes -> NodeRun], NEW S, NEW n \in Nodes
    PROVE  /\ ResetForRetry(f, S)[n].phase = f[n].phase
           /\ ResetForRetry(f, S)[n].reason = f[n].reason
           /\ ResetForRetry(f, S)[n].status = IF n \in S THEN "queued" ELSE f[n].status
<1> DEFINE a  == f[n].attempt + 1
           nd == [f[n] EXCEPT !.attempt = a, !.status = "queued", !.check = "none"]
<1>1. f[n] \in NodeRun
  OBVIOUS
<1>2. ResetForRetry(f, S)[n] = IF n \in S THEN nd ELSE f[n]
  BY DEF ResetForRetry
<1> HIDE DEF a
<1>3. nd.phase = f[n].phase /\ nd.reason = f[n].reason /\ nd.status = "queued"
  BY <1>1 DEF NodeRun
<1> QED
  BY <1>2, <1>3

LEMMA ResetSigns ==
    ASSUME Signs, NodeTypeOK, NEW S, node' = ResetForRetry(node, S),
           \A n \in Nodes : node[n].phase = "rest"
    PROVE  Signs'
<1>1. ASSUME NEW n \in Nodes
      PROVE  /\ node'[n].phase = "rest" /\ node'[n].reason = node[n].reason
             /\ node'[n].status \in {"queued", node[n].status}
  BY ResetStatus DEF NodeTypeOK
<1> QED
  BY <1>1 DEF Signs

LEMMA ResetElsewhere ==
    ASSUME EngineInv, NEW s \in Workflow, NEW S \in SUBSET Members(s),
           node' = ResetForRetry(node, S), Aborted => Aborted'
    PROVE  /\ \A t \in Workflow : t # s => (Over(t) => Over(t)') /\ (Fresh(t) => Fresh(t)')
           /\ \A n \in Members(s) :
                node'[n].status = IF n \in S THEN "queued" ELSE node[n].status
<1>1. \A t \in Workflow : Members(t) \subseteq Nodes /\ (t # s => Members(t) \cap Members(s) = {})
  BY Bounds
<1>2. \A n \in Nodes : node'[n].status = IF n \in S THEN "queued" ELSE node[n].status
  BY ResetStatus, Bounds
<1>3. \A t \in Workflow : t # s => \A n \in Members(t) : node'[n].status = node[n].status
  BY <1>1, <1>2
<1> QED
  BY <1>1, <1>2, <1>3 DEF Over, Fresh

LEMMA StageJoinStage == ASSUME Alone, EngineInv, StageInv, StageJoin PROVE StageInv'
<1> DEFINE cut    == /\ PendingInterrupt
                     /\ \E n \in Members(pos) : node[n].status \in {"queued", "killed"}
           leave(st, c) == /\ pc' = "boundary" /\ status' = st /\ cutStage' = c
                           /\ UNCHANGED <<current, steers, gateDecisions, node, pos,
                                          manualRetry, gate, decision, lock>>
<1>1. /\ pc = "executing" /\ current = pos /\ BusyNodes(current) = {}
      /\ (KeepPicking => Left(current) = {})
      /\ \/ leave(status, cutStage) /\ Aborted
         \/ leave(status, pos) /\ ~Aborted /\ cut
         \/ \E st \in {"failed", "running"} : leave(st, cutStage) /\ ~Aborted /\ ~cut
         \/ ~Aborted /\ ~cut /\ Decide(Advance)
  BY DEF StageJoin, Joined, Alone
<1>2. /\ \A n \in Nodes : node[n].phase = "rest"
      /\ status \notin {"done", "failed"} /\ lock.by # "start" /\ pos \in Workflow
      /\ cutStage = NoStage /\ StageReached = pos /\ pos \in 1..(Len(Team) + MaxSteers)
      /\ node \in [Nodes -> NodeRun] /\ Members(pos) \subseteq Nodes
  BY <1>1, RestWhenJoined, ReturnedFacts, Bounds DEF StageInv, CutKnown, StageReached
<1>3. ~Aborted => lock.by # "retry"
  BY <1>2 DEF StageInv, NoJudge, Terminal, Aborted
<1>4. ~Aborted /\ ~cut => Over(pos)
  <2> SUFFICES ASSUME ~Aborted, ~cut, NEW n \in Members(pos)
               PROVE  node[n].status \in {"done", "failed"}
    BY DEF Over
  <2>1. node[n].status # "running"
    BY <1>2 DEF StageInv, Signs
  <2>2. node[n].status \in {"queued", "running", "done", "failed", "killed"}
        /\ (PendingInterrupt \/ node[n].status # "killed")
    BY <1>1 DEF StageInv, ThisStage, Kinds
  <2>3. CASE PendingInterrupt
    BY <2>1, <2>2, <2>3
  <2>4. CASE ~PendingInterrupt
    <3>1. Left(pos) = {}
      BY <1>1, <2>4 DEF KeepPicking
    <3>2. PICK i \in DOMAIN NodesOf(pos) : n = NodesOf(pos)[i]
      BY <1>2, Stages
    <3>3. node[n].status # "queued"
      BY <1>2, <3>1, <3>2 DEF Left, Busy
    <3> QED
      BY <2>1, <2>2, <2>4, <3>3
  <2> QED
    BY <2>3, <2>4
<1>5. ASSUME NEW st, NEW c, leave(st, c),
             \/ Aborted /\ st = status /\ c = NoStage
             \/ ~Aborted /\ st = status /\ c = pos /\ PendingInterrupt
             \/ ~Aborted /\ st \in {"failed", "running"} /\ c = NoStage /\ Over(pos)
      PROVE  StageInv'
  <2>1. Aborted' = Aborted /\ PendingInterrupt' = PendingInterrupt /\ Pending' = Pending
        /\ StageReached' = pos /\ (PendingInterrupt => Pending # {})
    BY <1>2, <1>5 DEF Aborted, PendingInterrupt, Pending, StageReached
  <2>2. NoJudge'
    BY <1>1, <1>3, <1>5, <2>1 DEF StageInv, NoJudge
  <2>3. StageOrder'
    BY <1>2, <1>5, <2>1, NodesStay DEF StageInv, StageOrder
  <2>4. Signs'
    BY <1>2, <1>5, SignsAtRest DEF StageInv
  <2>5. CutKnown'
    BY <1>5, <2>1 DEF StageInv, CutKnown
  <2>6. ThisStage'
    BY <1>2, <1>5, <2>1 DEF StageInv, ThisStage, Over, Steering
  <2> QED
    BY <2>2, <2>3, <2>4, <2>5, <2>6 DEF StageInv
<1>6. ASSUME ~Aborted, ~cut, Decide(Advance)
      PROVE  StageInv'
  <2> DEFINE bad == VerificationRetryRequired(pos) /\ ~(Evaluations(pos) + 1 >= 1 + MaxRetries)
             S   == IF bad THEN VerifyFailed(pos) ELSE {}
  <2>1. /\ node' = ResetForRetry(node, S) /\ status' = "running"
        /\ pc' = IF bad THEN "again" ELSE "boundary"
        /\ manualRetry' = FALSE
        /\ UNCHANGED <<current, steers, pos, cutStage, gate, decision, lock>>
    <3>1. ~manualRetry
      BY DEF StageInv, NoJudge
    <3>2. Advance.action = "advance" /\ Advance.ids = {}
      BY DEF Advance
    <3>3. /\ Retry(VerifyFailed(pos)).action = "retry"
          /\ Retry(VerifyFailed(pos)).ids = VerifyFailed(pos)
      BY DEF Retry
    <3>4. CASE bad
      BY <1>6, <3>1, <3>2, <3>3, <3>4 DEF Decide, DecideWithin
    <3>5. CASE ~bad
      BY <1>6, <3>1, <3>2, <3>3, <3>5 DEF Decide, DecideWithin
    <3> QED
      BY <3>4, <3>5
  <2>2. S \in SUBSET Members(pos)
    BY DEF VerifyFailed
  <2> HIDE DEF S, bad
  <2>3. ~Aborted' /\ PendingInterrupt' = PendingInterrupt /\ Pending' = Pending /\ StageReached' = pos
    BY <1>2, <2>1 DEF Aborted, PendingInterrupt, Pending, StageReached
  <2>4. /\ \A t \in Workflow : t # pos => (Over(t) => Over(t)') /\ (Fresh(t) => Fresh(t)')
        /\ \A n \in Members(pos) :
             node'[n].status = IF n \in S THEN "queued" ELSE node[n].status
    BY <1>2, <1>6, <2>1, <2>2, ResetElsewhere
  <2>5. NoJudge'
    BY <1>2, <1>3, <1>6, <2>1, <2>3 DEF StageInv, NoJudge
  <2>6. StageOrder'
    <3>1. \A t \in Workflow : t < pos \/ t > pos => t # pos
      BY <1>2, Bounds
    <3> QED
      BY <1>1, <1>2, <2>1, <2>3, <2>4, <3>1 DEF StageInv, StageOrder
  <2>7. Signs'
    BY <1>2, <2>1, ResetSigns DEF StageInv, EngineInv, TypeOK
  <2>8. CutKnown'
    BY <1>2, <2>1, <2>3 DEF StageInv, CutKnown
  <2>9. Kinds({"queued", "done", "failed"})' /\ (~bad => Over(pos)')
    BY <1>4, <1>6, <2>1, <2>4 DEF Over, Kinds, S
  <2>10. ThisStage'
    BY <1>2, <2>1, <2>3, <2>9 DEF ThisStage, Steering
  <2> QED
    BY <2>5, <2>6, <2>7, <2>8, <2>10 DEF StageInv
<1>7. CASE leave(status, cutStage) /\ Aborted
  BY <1>2, <1>5, <1>7
<1>8. CASE leave(status, pos) /\ ~Aborted /\ cut
  BY <1>2, <1>5, <1>8
<1>9. CASE \E st \in {"failed", "running"} : leave(st, cutStage) /\ ~Aborted /\ ~cut
  BY <1>2, <1>4, <1>5, <1>9
<1> QED
  BY <1>1, <1>6, <1>7, <1>8, <1>9

LEMMA SteerJoinStage == ASSUME Alone, EngineInv, StageInv, SteerJoin PROVE StageInv'
<1> DEFINE agent == SteerAgent[Steered]
           gone  == node[agent].status \in {"queued", "killed"}
           d     == IF RedoNodes = {} THEN Advance ELSE Retry(RedoNodes)
<1>1. /\ pc = "executing" /\ current \notin Workflow /\ BusyNodes(current) = {}
      /\ (KeepPicking => Left(current) = {})
      /\ \/ GivenUp
         \/ ~Aborted /\ gone
         \/ ~Aborted /\ Review(d)
  BY DEF SteerJoin, Joined, Alone, GivenUp
<1>2. /\ \A n \in Nodes : node[n].phase = "rest"
      /\ status \notin {"done", "failed"} /\ lock.by # "start" /\ pos \in Workflow
      /\ cutStage = NoStage /\ StageReached = pos
      /\ current \in 1..(Len(Team) + MaxSteers) /\ Steered \in 1..MaxSteers
      /\ SteerStage(Steered) = current /\ agent \in Nodes /\ Members(current) = {agent}
  <2>1. /\ status \notin {"done", "failed"} /\ lock.by # "start"
        /\ current \in 1..(Len(Team) + MaxSteers) /\ Steered \in 1..MaxSteers
        /\ SteerStage(Steered) = current
    BY <1>1, ReturnedFacts
  <2>2. agent \in Nodes /\ Members(current) = {agent}
    BY <2>1, Bounds
  <2> QED
    BY <1>1, <2>1, <2>2, RestWhenJoined, Bounds DEF StageInv, CutKnown, StageReached
<1>3. /\ Steered = 1 /\ DOMAIN steers = {1} /\ steers[1].status = "active" /\ steers # <<>>
      /\ steers[1].cut \in {NoStage, pos} /\ steers[1] \in Steer
  <2>1. current # NoStage
    BY <1>2, Bounds
  <2>2. steers # <<>> /\ Steered = 1 /\ Len(steers) = 1 /\ DOMAIN steers = {1}
    BY <1>1, <2>1, SingleSteer, Bounds
  <2>3. steers[1].status = "active"
    BY <1>1, <2>2 DEF EngineInv, OpenSteers
  <2> QED
    BY <2>2, <2>3, Bounds, ElementOfSeq DEF StageInv, CutKnown
<1>4. Pending = {} /\ ~PendingInterrupt
  BY <1>3 DEF Pending, PendingInterrupt
<1>5. ~(~Aborted /\ gone)
  <2> SUFFICES ASSUME ~Aborted, node[agent].status \in {"queued", "killed"} PROVE FALSE
    OBVIOUS
  <2>1. node[agent].status # "killed"
    BY <1>1 DEF StageInv, ThisStage, Steering
  <2>2. Left(current) = {}
    BY <1>1, <1>4 DEF KeepPicking
  <2>3. PICK i \in DOMAIN NodesOf(current) : agent = NodesOf(current)[i]
    BY <1>2, Stages
  <2> QED
    BY <1>2, <2>1, <2>2, <2>3 DEF Left, Busy
<1>6. Signs'
  <2>1. node' = node
    BY <1>1, <1>5 DEF Review, GivenUp
  <2> QED
    BY <1>2, <2>1, SignsAtRest DEF StageInv
<1>7. CASE GivenUp
  <2>1. Aborted /\ pc' = "settle"
        /\ UNCHANGED <<status, current, steers, gateDecisions, node, pos, cutStage,
                       manualRetry, gate, decision, lock>>
    BY <1>7 DEF GivenUp
  <2>2. NoJudge'
    BY <1>1, <2>1 DEF StageInv, NoJudge, Aborted
  <2>3. StageOrder'
    BY <1>2, <2>1, NodesStay DEF StageInv, StageOrder, StageReached, Aborted
  <2>4. CutKnown'
    BY <1>1, <1>2, <2>1 DEF StageInv, CutKnown
  <2>5. ThisStage'
    BY <1>1, <1>2, <2>1 DEF StageInv, ThisStage, Steering, Aborted
  <2> QED
    BY <1>6, <2>2, <2>3, <2>4, <2>5 DEF StageInv
<1>8. CASE ~Aborted /\ Review(d)
  <2>1. /\ steers' = [steers EXCEPT ![Steered].status = "reviewed"]
        /\ status' = "running" /\ decision' = d /\ pc' = "review"
        /\ UNCHANGED <<current, node, pos, cutStage, manualRetry, gate, lock>>
    BY <1>8 DEF Review
  <2>2. /\ DOMAIN steers' = {1} /\ steers'[1].status = "reviewed"
        /\ steers'[1].cut = steers[1].cut
    BY <1>3, <2>1 DEF Steer
  <2>3. steers' # <<>> /\ Steered' = 1
    BY <1>3, <2>1, <2>2 DEF Steered
  <2>4. lock.by # "retry" /\ ~Aborted'
    BY <1>2, <1>8, <2>1 DEF StageInv, NoJudge, Terminal, Aborted
  <2>5. NoJudge'
    BY <1>2, <2>1, <2>4 DEF StageInv, NoJudge
  <2>6. StageOrder'
    BY <1>2, <1>8, <2>1, <2>4, NodesStay DEF StageInv, StageOrder, StageReached
  <2>7. CutKnown'
    BY <1>2, <1>3, <2>1, <2>2, <2>3 DEF CutKnown, Pending
  <2>8. Over(pos) \/ steers[1].cut = pos
    BY <1>1, <1>3, <1>8 DEF StageInv, ThisStage, Steering
  <2>9. \/ d = Advance /\ Over(pos)
        \/ d = Retry(Members(pos)) /\ steers[1].cut = pos
    <3>1. CASE steers[1].cut = pos
      <4>1. RedoNodes = Members(pos)
        BY <1>2, <1>3, <3>1, Bounds DEF RedoNodes, RedoStage
      <4>2. Members(pos) # {}
        BY <1>2, Bounds
      <4> QED
        BY <3>1, <4>1, <4>2
    <3>2. CASE steers[1].cut # pos
      <4>1. RedoNodes = {}
        BY <1>3, <3>2 DEF RedoNodes
      <4> QED
        BY <2>8, <3>2, <4>1
    <3> QED
      BY <3>1, <3>2
  <2> HIDE DEF d
  <2>10. Over(pos) => Over(pos)'
    BY <2>1 DEF Over
  <2>11. ThisStage'
    BY <1>1, <1>2, <2>1, <2>2, <2>3, <2>4, <2>9, <2>10 DEF ThisStage, Steering, Retry, Advance
  <2> QED
    BY <1>6, <2>5, <2>6, <2>7, <2>11 DEF StageInv
<1> QED
  BY <1>1, <1>5, <1>7, <1>8

LEMMA ApplyReviewStage == ASSUME Alone, EngineInv, StageInv, ApplyReview PROVE StageInv'
<1>1. /\ pc = "review" /\ decision' = Advance
      /\ UNCHANGED <<current, steers, gateDecisions, pos, cutStage, manualRetry, gate, lock>>
  BY DEF ApplyReview
<1>2. /\ current \notin Workflow /\ Steered = 1 /\ pos \in Workflow /\ cutStage = NoStage
      /\ lock.by # "start" /\ status \notin {"done", "failed"} /\ StageReached = pos
      /\ Members(pos) # {} /\ pos \in Nat /\ Workflow \subseteq Nat
      /\ \A n \in Nodes : node[n].phase = "rest"
  <2>1. current \notin Workflow /\ current # NoStage
    BY <1>1 DEF EngineInv, Place
  <2> QED
    BY <1>1, <2>1, SingleSteer, Bounds, RestWhenJoined
       DEF StageInv, CutKnown, EngineInv, Ends, StageReached
<1>3. /\ Aborted' = Aborted \/ decision.action = "abort"
      /\ PendingInterrupt' = PendingInterrupt /\ Pending' = Pending
  BY <1>1 DEF ApplyReview, Aborted, PendingInterrupt, Pending
<1>4. /\ Advance.action = "advance"
      /\ Retry(Members(pos)).action = "retry" /\ Retry(Members(pos)).ids = Members(pos)
  BY DEF Advance, Retry
<1>5. \/ decision = Advance /\ Over(pos)
      \/ decision = Retry(Members(pos)) /\ steers[1].cut = pos
  BY <1>1, <1>2 DEF StageInv, ThisStage
<1>6. CASE decision = Advance /\ Over(pos)
  <2>1. pc' = "steers" /\ UNCHANGED <<status, node>>
    BY <1>4, <1>6 DEF ApplyReview
  <2>2. NoJudge'
    BY <1>1, <2>1 DEF StageInv, NoJudge, Aborted
  <2>3. StageOrder'
    BY <1>1, <2>1, NodesStay DEF StageInv, StageOrder, StageReached, Aborted
  <2>4. Signs'
    BY <1>2, <2>1, SignsAtRest DEF StageInv
  <2>5. CutKnown'
    BY <1>1, <1>2, <1>3, <2>1 DEF StageInv, CutKnown
  <2>6. ThisStage'
    BY <1>1, <1>2, <1>6, <2>1 DEF ThisStage, Over, Steering
  <2> QED
    BY <2>2, <2>3, <2>4, <2>5, <2>6 DEF StageInv
<1>7. CASE decision = Retry(Members(pos)) /\ steers[1].cut = pos
  <2> DEFINE S == {n \in Members(pos) : node[n].status # "queued"}
  <2>1. RedoNodes \cap decision.ids = Members(pos)
    BY <1>2, <1>4, <1>7, Bounds DEF RedoNodes, RedoStage
  <2>2. pc' = "enter" /\ UNCHANGED status /\ node' = ResetForRetry(node, S)
    <3>1. decision.action = "retry"
      BY <1>4, <1>7
    <3>2. {n \in RedoNodes \cap decision.ids : node[n].status # "queued"} = S
      BY <2>1
    <3> QED
      BY <3>1, <3>2 DEF ApplyReview
  <2>3. S \in SUBSET Members(pos) /\ \A n \in Members(pos) : n \notin S => node[n].status = "queued"
    OBVIOUS
  <2> HIDE DEF S
  <2>4. Aborted' = Aborted /\ StageReached' = pos
    BY <1>1, <1>2, <2>2 DEF Aborted, StageReached
  <2>5. /\ \A t \in Workflow : t # pos => (Over(t) => Over(t)') /\ (Fresh(t) => Fresh(t)')
        /\ \A n \in Members(pos) :
             node'[n].status = IF n \in S THEN "queued" ELSE node[n].status
    BY <1>2, <2>2, <2>3, <2>4, ResetElsewhere
  <2>6. NoJudge'
    BY <1>1, <2>2, <2>4 DEF StageInv, NoJudge
  <2>7. StageOrder'
    BY <1>1, <1>2, <2>4, <2>5 DEF StageInv, StageOrder
  <2>8. Signs'
    BY <1>2, <2>2, ResetSigns DEF StageInv, EngineInv, TypeOK
  <2>9. CutKnown'
    BY <1>1, <1>2, <1>3, <2>2 DEF StageInv, CutKnown
  <2>10. Kinds({"queued", "done", "failed"})'
    BY <1>1, <2>3, <2>5 DEF Kinds
  <2>11. ThisStage'
    BY <1>1, <1>2, <2>2, <2>10 DEF ThisStage, Steering
  <2> QED
    BY <2>6, <2>7, <2>8, <2>9, <2>11 DEF StageInv
<1> QED
  BY <1>5, <1>6, <1>7

(* A stage that is retried is queued whole, and so is what an abort killed   *)
(* of the stages after it.                                                   *)
LEMMA ReopenStage == ASSUME Alone, EngineInv, StageInv, Reopen PROVE StageInv'
<1> DEFINE s     == lock.stage
           later == UNION {Members(t) : t \in {u \in Workflow : u > s}}
           again == ResetForRetry(node, Members(s))
<1>1. /\ lock.by = "retry" /\ pc = "idle"
      /\ UNCHANGED <<current, steers, gateDecisions, manualRetry, pc, pos, cutStage, gate,
                     decision>>
      /\ \/ lock' = Free /\ UNCHANGED <<status, node>>
         \/ /\ status' = "running" /\ lock' = [lock EXCEPT !.by = "start"]
            /\ node' = [n \in Nodes |->
                 IF n \in later /\ again[n].status = "killed"
                   THEN [again[n] EXCEPT !.status = "queued"] ELSE again[n]]
  BY DEF Reopen, ReopenWithin, Execution
<1>2. /\ s = current /\ s \in Workflow /\ s <= pos /\ StageReached = pos /\ pos \in Workflow
      /\ pos \in Nat /\ Workflow \subseteq Nat
      /\ cutStage = NoStage /\ status \in Terminal /\ node \in [Nodes -> NodeRun]
      /\ \A n \in Nodes : node[n].phase = "rest"
      /\ \A t \in Workflow : Members(t) \subseteq Nodes
      /\ \A t, u \in Workflow : t # u => Members(t) \cap Members(u) = {}
  BY <1>1, Bounds, RestWhenJoined
     DEF StageInv, NoJudge, StageOrder, CutKnown, StageReached, EngineInv, Ends
<1>3. lock \in [by : {"none", "abort", "retry", "start"}, stage : {NoStage} \cup Workflow]
  BY DEF EngineInv, TypeOK
<1>4. CASE lock' = Free /\ UNCHANGED <<status, node>>
  <2>1. lock'.by = "none"
    BY <1>4 DEF Free
  <2>2. StageReached' = pos
    BY <1>1, <2>1 DEF StageReached
  <2>3. NoJudge'
    BY <1>1, <1>4, <2>1 DEF StageInv, NoJudge, Aborted
  <2>4. StageOrder'
    BY <1>1, <1>2, <1>4, <2>2, NodesStay DEF StageInv, StageOrder, Aborted
  <2>5. Signs'
    BY <1>2, <1>4, SignsAtRest DEF StageInv
  <2>6. CutKnown'
    BY <1>1, <1>2 DEF StageInv, CutKnown, Pending
  <2>7. ThisStage'
    BY <1>1, <1>4, <2>1 DEF StageInv, ThisStage, Over, Steering
  <2> QED
    BY <2>3, <2>4, <2>5, <2>6, <2>7 DEF StageInv
<1>5. CASE /\ status' = "running" /\ lock' = [lock EXCEPT !.by = "start"]
           /\ node' = [n \in Nodes |->
                IF n \in later /\ again[n].status = "killed"
                  THEN [again[n] EXCEPT !.status = "queued"] ELSE again[n]]
  <2>1. lock'.by = "start" /\ lock'.stage = s /\ ~Aborted' /\ StageReached' = s
    BY <1>3, <1>5 DEF Aborted, StageReached
  <2>2. again \in [Nodes -> NodeRun]
    BY <1>2, ResetKeeps DEF Calm
  <2>3. ASSUME NEW n \in Nodes
        PROVE  /\ again[n].phase = "rest" /\ again[n].reason = node[n].reason
               /\ again[n].status = IF n \in Members(s) THEN "queued" ELSE node[n].status
    BY <1>2, ResetStatus
  <2> HIDE DEF again, later
  <2>4. ASSUME NEW n \in Nodes
        PROVE  /\ node'[n].phase = "rest" /\ node'[n].reason = node[n].reason
               /\ node'[n].status \in {again[n].status, "queued"}
               /\ n \notin later => node'[n].status = again[n].status
               /\ n \in later /\ again[n].status \in {"queued", "killed"} =>
                    node'[n].status = "queued"
    <3>1. again[n] \in NodeRun
      BY <2>2
    <3>2. node'[n] = IF n \in later /\ again[n].status = "killed"
                       THEN [again[n] EXCEPT !.status = "queued"] ELSE again[n]
      BY <1>5
    <3>3. CASE n \in later /\ again[n].status = "killed"
      BY <2>3, <3>1, <3>2, <3>3 DEF NodeRun
    <3>4. CASE ~(n \in later /\ again[n].status = "killed")
      BY <2>3, <3>2, <3>4
    <3> QED
      BY <3>3, <3>4
  <2>5. ASSUME NEW t \in Workflow, t < s PROVE Over(t)'
    <3>0. s \in Nat /\ s <= pos /\ pos \in Nat /\ t \in Nat
      BY <1>2, <2>5
    <3>a. t < pos
      BY <2>5, <3>0
    <3>1. Over(t)
      BY <1>2, <3>a DEF StageInv, StageOrder
    <3>2. ASSUME NEW n \in Members(t) PROVE n \in Nodes /\ n \notin Members(s) /\ n \notin later
      BY <1>2, <2>5, <3>2 DEF later
    <3>3. \A n \in Members(t) : node'[n].status = node[n].status
      BY <2>3, <2>4, <3>2
    <3> QED
      BY <3>1, <3>3 DEF Over
  <2>6. ASSUME NEW t \in Workflow, t > s PROVE \A n \in Members(t) : node'[n].status = "queued"
    <3>1. Fresh(t)
      BY <1>2, <2>6 DEF StageInv, StageOrder
    <3>2. ASSUME NEW n \in Members(t) PROVE n \in Nodes /\ n \notin Members(s) /\ n \in later
      BY <1>2, <2>6, <3>2 DEF later
    <3> QED
      BY <2>3, <2>4, <3>1, <3>2 DEF Fresh
  <2>7. \A n \in Members(s) : node'[n].status = "queued"
    <3>1. ASSUME NEW n \in Members(s) PROVE n \in Nodes /\ n \notin later
      BY <1>2, <3>1 DEF later
    <3> QED
      BY <2>3, <2>4, <3>1
  <2>8. NoJudge'
    BY <1>1, <1>2, <1>5, <2>1 DEF StageInv, NoJudge
  <2>9. StageOrder'
    BY <1>1, <1>2, <2>1, <2>5, <2>6 DEF StageOrder, Fresh
  <2>10. Signs'
    <3>1. \A n \in Nodes : node[n].status # "running" /\ node[n].reason \notin KillReasons
      BY <1>2 DEF StageInv, Signs
    <3> QED
      BY <2>3, <2>4, <3>1 DEF Signs
  <2>11. CutKnown'
    BY <1>1, <1>2 DEF StageInv, CutKnown, Pending
  <2>12. ThisStage'
    BY <1>1, <1>5, <2>1, <2>7 DEF ThisStage, Steering
  <2> QED
    BY <2>8, <2>9, <2>10, <2>11, <2>12 DEF StageInv
<1> QED
  BY <1>1, <1>4, <1>5

LEMMA InitStage == ASSUME Alone, Init PROVE StageInv
<1> USE Stages
<1>1. /\ status = "created" /\ current = NoStage /\ steers = <<>> /\ pc = "enter" /\ pos = 1
      /\ cutStage = NoStage /\ ~manualRetry /\ lock = Free
  BY DEF Init
<1>2. EngineInv
  BY InitInv
<1>3. \A s \in Workflow : \A n \in Members(s) : node[n].status = "queued" /\ n \in Nodes
  <2> TAKE s \in Workflow
  <2> TAKE n \in Members(s)
  <2>1. n \in Nodes
    BY <1>2, Bounds
  <2> QED
    BY <2>1 DEF Init, FreshNode
<1>4. ASSUME NEW n \in Nodes
      PROVE  node[n].phase = "rest" /\ node[n].status # "running" /\ node[n].reason = "none"
  BY DEF Init, FreshNode
<1>5. /\ lock.by = "none" /\ StageReached = 1 /\ 1 \in Workflow /\ NoStage \notin Workflow
      /\ DOMAIN steers = {} /\ Workflow = 1..Len(Team)
  BY <1>1, <1>2, Bounds DEF Free, StageReached
<1>6. NoJudge
  BY <1>1, <1>5 DEF NoJudge, Aborted
<1>7. StageOrder
  BY <1>1, <1>3, <1>5 DEF StageOrder, Fresh
<1>8. Signs
  BY <1>4 DEF Signs, KillReasons
<1>9. CutKnown
  BY <1>1, <1>5 DEF CutKnown
<1>10. ThisStage
  BY <1>1, <1>3, <1>5 DEF ThisStage, Kinds, Steering
<1> QED
  BY <1>6, <1>7, <1>8, <1>9, <1>10 DEF StageInv

LEMMA StutterStage == ASSUME EngineInv, StageInv, UNCHANGED vars PROVE StageInv'
<1>1. UNCHANGED Others /\ node' = node
  BY DEF vars, Others
<1>2. Signs'
  BY <1>1, SignsStay DEF StageInv, Others, Aborted, PendingInterrupt
<1> QED
  BY <1>1, <1>2, SameStatus

LEMMA StageNext == ASSUME Alone, EngineInv, StageInv, [Next]_vars PROVE StageInv'
<1>1. CASE Engine
  <2>1. ~StartGate /\ ~GateAnswer
    BY DEF StageInv, NoJudge, StartGate, GateAnswer
  <2> QED
    BY <1>1, <2>1, EnterStage, SelectStage, PickStage, StageJoinStage, BetweenStage,
       ActivateStage, PushStage, SteerJoinStage, ApplyReviewStage, SettleStage,
       ReopenStage, StartExecutionStage, Zenon DEF Engine
<1>2. CASE \E n \in Nodes : Coroutine(n) \/ NodeTimeout(n)
  BY <1>2, NodeStage
<1>3. CASE GateTimer
  BY <1>3 DEF GateTimer, StageInv, NoJudge
<1>4. CASE User
  <2>1. ~\E n \in KillTargets : KillNode(n)
    BY DEF Alone
  <2>2. ~\E s \in Workflow : RetryGate(s)
    BY DEF RetryGate, StageInv, NoJudge
  <2> QED
    BY <1>4, <2>1, <2>2, AbortStage, SteerRunStage, RetryStageStage, Zenon DEF User
<1>5. CASE UNCHANGED vars
  BY <1>5, StutterStage
<1> QED
  BY <1>1, <1>2, <1>3, <1>4, <1>5 DEF Next, Timers

(* stageRunner.ts, on the stage a steer cuts short: "runStage records the    *)
(* truth here and the steer cycle consumes it". For any team, budget and     *)
(* parallelism, and whatever is verified: where no orchestrator judges, at   *)
(* most one steer comes and the user kills no node, a run that is done has   *)
(* run every node of every stage to its end, however the steer, an abort, a  *)
(* retry of a stage and the hard limits meet. Without the hypotheses it is   *)
(* not meant: a judge may advance, and a node that was killed stays killed.  *)
THEOREM NoStageLostHolds == Alone => (Spec => []NoStageLost)
<1>1. ASSUME Alone, EngineInv, StageInv PROVE NoStageLost
  <2> SUFFICES ASSUME status = "done", NEW s \in Workflow PROVE Over(s)
    BY DEF NoStageLost, Over
  <2>1. Over(pos) /\ pos = Len(Team)
    BY <1>1 DEF StageInv, ThisStage
  <2>2. StageReached = pos
    BY <1>1 DEF EngineInv, Ends, StageReached
  <2>3. s = pos \/ s < pos
    BY <1>1, <2>1, Bounds
  <2> QED
    BY <1>1, <2>1, <2>2, <2>3 DEF StageInv, StageOrder
<1> SUFFICES ASSUME Alone PROVE Spec => []NoStageLost
  OBVIOUS
<1>2. Init => StageInv
  BY InitStage
<1>3. EngineInv /\ StageInv /\ [Next]_vars => StageInv'
  BY StageNext
<1>4. EngineInv /\ StageInv => NoStageLost
  BY <1>1
<1> QED
  BY <1>2, <1>3, <1>4, EngineInvariant, PTL DEF Spec

-----------------------------------------------------------------------------
(* What the stores on disk promise, for any number of clients and runs. They *)
(* share no variable with the engine.                                        *)
(* The stores of workspaces and workflows. Those that wait in a queue are in *)
(* it once; one whose operation has read is at its head, and what it has     *)
(* read is still there.                                                      *)
FileJobs == {"copy", "edit", "drop"}
Waits(c) == step[c] \in {"queued", "reading"}

InLine(turns, jobs) ==
    /\ \A i, j \in DOMAIN turns : turns[i] = turns[j] => i = j
    /\ \A i \in DOMAIN turns : job[turns[i]] \in jobs /\ Waits(turns[i])
    /\ \A c \in Clients : job[c] \in jobs /\ step[c] = "reading" => Heads(turns, c)

ReadsCount ==
    \A c \in Clients : step[c] = "reading" =>
        /\ job[c] \in SpaceJobs => read[c] = spaces
        /\ job[c] = "copy" => flows[target[c]] = Absent

Targets ==
    \A c \in Clients :
        /\ job[c] = "create" => target[c] \in Workspaces \ Known
        /\ job[c] \in SpaceJobs \ {"create"} => target[c] \in Known
        /\ job[c] \in FlowJobs \ {"flows"} => target[c] \in Flows

(* What was confirmed holds until a deletion is confirmed, or another change *)
(* of the workflow is.                                                       *)
Told(kind, x, c) == job[c] = kind /\ target[c] = x /\ step[c] = "done"
SpaceKept(w) ==
    \/ spaces[w] = Absent /\ \E c \in Clients : Told("delete", w, c)
    \/ \A c \in Clients :
            /\ ~Told("delete", w, c)
            /\ Told("create", w, c) => spaces[w] # Absent
            /\ Told("rename", w, c) => spaces[w] # Absent /\ spaces[w].name # "first"
            /\ Told("last", w, c) => spaces[w] = Absent \/ spaces[w].last
FlowKept(f) ==
    \/ \E c \in Clients : Told("edit", f, c) \/ Told("drop", f, c)
    \/ \A c \in Clients : Told("copy", f, c) => flows[f] = c

KeptInv ==
    /\ StoresTypeOK /\ InLine(line, SpaceJobs) /\ InLine(flowLine, FileJobs)
    /\ ReadsCount /\ Targets
    /\ \A w \in Workspaces : SpaceKept(w)
    /\ \A f \in Flows : FlowKept(f)

-----------------------------------------------------------------------------
(* Of the names a duplicate tries there is a first that is free.             *)
LEMMA FirstFree ==
    ASSUME StoresAssumption, \E n \in DOMAIN CopyNames : CopyNames[n] \notin Present
    PROVE  CopyNames[Chosen] \in Flows
<1> DEFINE T == {n \in DOMAIN CopyNames : CopyNames[n] \notin Present}
<1>1. T \subseteq Nat /\ T # {} /\ DOMAIN CopyNames = 1..Len(CopyNames) /\ Len(CopyNames) \in Nat
  BY DEF StoresAssumption
<1>2. PICK n \in T : \A m \in T : ~(<<m, n>> \in OpToRel(<, Nat))
  <2>1. IsWellFoundedOn(OpToRel(<, Nat), Nat)
    BY NatLessThanWellFounded
  <2>2. IsWellFoundedOn(OpToRel(<, Nat), T)
    BY <1>1, <2>1, IsWellFoundedOnSubset
  <2> QED
    BY <1>1, <2>2, WFMin
<1>3. ASSUME NEW m \in 1..(n - 1) PROVE CopyNames[m] \in Present
  <2>0. n \in 1..Len(CopyNames)
    BY <1>1, Zenon
  <2>1. m \in Nat /\ n \in Nat /\ m < n /\ m \in DOMAIN CopyNames
    BY <1>1, <2>0
  <2>2. <<m, n>> \in OpToRel(<, Nat)
    BY <2>1 DEF OpToRel
  <2> QED
    BY <1>2, <2>1, <2>2
<1>4. Chosen \in DOMAIN CopyNames
  BY <1>2, <1>3 DEF Chosen
<1> QED
  BY <1>4 DEF StoresAssumption

(* One joins a queue.                                                        *)
LEMMA JoinsLine ==
    ASSUME NEW turns \in Seq(Clients), NEW c \in Clients, NEW jobs,
           InLine(turns, jobs), ~(job[c] \in jobs /\ Waits(c)),
           job' \in [Clients -> SpaceJobs \cup FlowJobs \cup {"none"}],
           \A d \in Clients \ {c} : job'[d] = job[d] /\ step'[d] = step[d],
           job'[c] \in jobs, step'[c] = "queued",
           NEW then, then = Append(turns, c)
    PROVE  /\ then \in Seq(Clients)
           /\ \A i, j \in DOMAIN then : then[i] = then[j] => i = j
           /\ \A i \in DOMAIN then : job'[then[i]] \in jobs /\ step'[then[i]] \in {"queued", "reading"}
           /\ \A d \in Clients : job'[d] \in jobs /\ step'[d] = "reading"
                 => then # <<>> /\ Head(then) = d
<1>1. /\ then \in Seq(Clients) /\ Len(turns) \in Nat /\ DOMAIN then = 1..(Len(turns) + 1)
      /\ DOMAIN turns = 1..Len(turns)
      /\ \A i \in 1..Len(turns) : then[i] = turns[i]
      /\ then[Len(turns) + 1] = c /\ then # <<>>
  BY AppendProperties
<1>2. \A i \in 1..Len(turns) : turns[i] # c /\ turns[i] \in Clients
  BY <1>1 DEF InLine
<1>3. \A i, j \in DOMAIN then : then[i] = then[j] => i = j
  BY <1>1, <1>2 DEF InLine
<1>4. \A i \in DOMAIN then : job'[then[i]] \in jobs /\ step'[then[i]] \in {"queued", "reading"}
  BY <1>1, <1>2 DEF InLine, Waits
<1>5. ASSUME NEW d \in Clients, job'[d] \in jobs, step'[d] = "reading"
      PROVE  Head(then) = d
  <2>1. d # c /\ job[d] \in jobs /\ step[d] = "reading"
    BY <1>5
  <2>2. turns # <<>> /\ Head(turns) = d
    BY <2>1 DEF InLine, Heads
  <2>3. Len(turns) > 0 /\ turns[1] = d
    BY <2>2
  <2> QED
    BY <1>1, <2>3
<1> QED
  BY <1>1, <1>3, <1>4, <1>5

(* The head of a queue leaves it.                                            *)
LEMMA LeavesLine ==
    ASSUME NEW turns \in Seq(Clients), NEW c \in Clients, NEW jobs,
           InLine(turns, jobs), Heads(turns, c),
           job' = job, \A d \in Clients \ {c} : step'[d] = step[d],
           step'[c] # "reading",
           NEW then, then = QueueWithout(turns, c)
    PROVE  /\ then \in Seq(Clients)
           /\ \A i, j \in DOMAIN then : then[i] = then[j] => i = j
           /\ \A i \in DOMAIN then : job'[then[i]] \in jobs /\ step'[then[i]] \in {"queued", "reading"}
           /\ \A d \in Clients : ~(job'[d] \in jobs /\ step'[d] = "reading")
<1>1. turns # <<>> /\ Head(turns) = c /\ then = Tail(turns)
  BY DEF QueueWithout, Heads
<1>2. /\ then \in Seq(Clients) /\ Len(then) = Len(turns) - 1 /\ Len(then) \in Nat
      /\ DOMAIN then = 1..Len(then) /\ DOMAIN turns = 1..Len(turns)
      /\ \A i \in 1..Len(then) : then[i] = turns[i + 1]
      /\ Len(turns) \in Nat /\ turns[1] = c /\ Len(turns) > 0
  BY <1>1, HeadTailProperties
<1>3. \A i \in 1..Len(then) :
        i + 1 \in 2..Len(turns) /\ then[i] = turns[i + 1] /\ then[i] # c
  <2>1. \A i \in 2..Len(turns) : turns[i] # c
    <3>1. \A i \in DOMAIN turns : turns[i] = turns[1] => i = 1
      BY <1>2 DEF InLine
    <3> QED
      BY <1>2, <3>1
  <2>2. ASSUME NEW i \in 1..Len(then) PROVE i + 1 \in 2..Len(turns) /\ then[i] = turns[i + 1]
    BY <1>2
  <2> QED
    BY <2>1, <2>2
<1>4. ASSUME NEW i \in 1..Len(then), NEW j \in 1..Len(then), then[i] = then[j]
      PROVE  i = j
  <2>1. i + 1 \in DOMAIN turns /\ j + 1 \in DOMAIN turns /\ turns[i + 1] = turns[j + 1]
    BY <1>2, <1>3, <1>4
  <2>2. i + 1 = j + 1
    BY <2>1 DEF InLine
  <2> QED
    BY <1>2, <2>2
<1>5. ASSUME NEW i \in 1..Len(then)
      PROVE  job'[then[i]] \in jobs /\ step'[then[i]] \in {"queued", "reading"}
  <2>1. i + 1 \in DOMAIN turns /\ then[i] = turns[i + 1] /\ then[i] # c /\ then[i] \in Clients
    BY <1>2, <1>3
  <2>2. job[turns[i + 1]] \in jobs /\ Waits(turns[i + 1])
    BY <2>1 DEF InLine
  <2> QED
    BY <2>1, <2>2 DEF Waits
<1>6. \A d \in Clients : ~(job'[d] \in jobs /\ step'[d] = "reading")
  BY <1>1 DEF InLine, Heads
<1> QED
  BY <1>2, <1>4, <1>5, <1>6

-----------------------------------------------------------------------------
(* The step of one client that writes neither file: what was confirmed and   *)
(* what was read stays.                                                      *)
LEMMA OneMoves ==
    ASSUME KeptInv, NEW c \in Clients, spaces' = spaces, flows' = flows,
           \A d \in Clients \ {c} : /\ job'[d] = job[d] /\ step'[d] = step[d]
                                   /\ target'[d] = target[d] /\ read'[d] = read[d],
           ~(step[c] = "done" /\ job[c] \in {"delete", "edit", "drop"}),
           step'[c] # "done" \/ job'[c] \in {"duplicate", "flows"},
           step'[c] = "reading" =>
               /\ job'[c] \in SpaceJobs => read'[c] = spaces
               /\ job'[c] = "copy" => flows[target'[c]] = Absent
    PROVE  ReadsCount' /\ (\A w \in Workspaces : SpaceKept(w)') /\ (\A f \in Flows : FlowKept(f)')
<1>1. ReadsCount'
  BY DEF KeptInv, ReadsCount
<1>2. \A kind \in {"create", "rename", "last", "copy"}, x, d \in Clients :
        job'[d] = kind /\ target'[d] = x /\ step'[d] = "done"
            => job[d] = kind /\ target[d] = x /\ step[d] = "done"
  OBVIOUS
<1>3. \A kind \in {"delete", "edit", "drop"}, x, d \in Clients :
        job'[d] = kind /\ target'[d] = x /\ step'[d] = "done"
            <=> job[d] = kind /\ target[d] = x /\ step[d] = "done"
  OBVIOUS
<1>4. ASSUME NEW w \in Workspaces PROVE SpaceKept(w)'
  BY <1>2, <1>3 DEF KeptInv, SpaceKept, Told
<1>5. ASSUME NEW f \in Flows PROVE FlowKept(f)'
  BY <1>2, <1>3 DEF KeptInv, FlowKept, Told
<1> QED
  BY <1>1, <1>4, <1>5

(* A queue that is left alone by a step which takes no one in it or out.     *)
LEMMA LineStands ==
    ASSUME NEW turns \in Seq(Clients), NEW jobs, InLine(turns, jobs), NEW c \in Clients,
           \A d \in Clients \ {c} : job'[d] = job[d] /\ step'[d] = step[d],
           job[c] \in jobs /\ Waits(c) => job'[c] \in jobs /\ step'[c] \in {"queued", "reading"},
           job'[c] \in jobs /\ step'[c] = "reading" => Heads(turns, c)
    PROVE  /\ \A i, j \in DOMAIN turns : turns[i] = turns[j] => i = j
           /\ \A i \in DOMAIN turns : job'[turns[i]] \in jobs /\ step'[turns[i]] \in {"queued", "reading"}
           /\ \A d \in Clients : job'[d] \in jobs /\ step'[d] = "reading" => Heads(turns, d)
<1>1. ASSUME NEW i \in DOMAIN turns
      PROVE  job'[turns[i]] \in jobs /\ step'[turns[i]] \in {"queued", "reading"}
  <2>1. turns[i] \in Clients /\ job[turns[i]] \in jobs /\ Waits(turns[i])
    BY DEF InLine
  <2> QED
    BY <2>1 DEF Waits
<1> QED
  BY <1>1 DEF InLine

(* What one request writes is a file of workspaces.                          *)
LEMMA MadeIsSpaces ==
    ASSUME StoresTypeOK, Targets, NEW c \in Clients, job[c] \in SpaceJobs
    PROVE  Made(c, read[c]) \in Spaces
<1> DEFINE all == read[c]
           w == target[c]
<1>1. all \in Spaces /\ w \in Workspaces /\ First \in Space /\ repo \in BOOLEAN
  BY StoresAssumption DEF StoresTypeOK, Targets, First, Space, SpaceJobs
<1>2. \A v \in Workspaces : all[v] # Absent => all[v] \in Space
  BY <1>1 DEF Spaces
<1>3. \A old \in Space :
        /\ [old EXCEPT !.git = repo] \in Space /\ [old EXCEPT !.last = TRUE] \in Space
        /\ [old EXCEPT !.name = c, !.git = repo] \in Space
  BY <1>1 DEF Space
<1>4. Refreshed(all) \in Spaces
  BY <1>2, <1>3 DEF Refreshed, Spaces
<1>5. \A s \in Space \cup {Absent} : [all EXCEPT ![w] = s] \in Spaces
  BY <1>1 DEF Spaces
<1> HIDE DEF all, w
<1>6. Made(c, all) \in Spaces
  <2>1. CASE job[c] \in {"list", "find"}
    BY <2>1, <1>4 DEF Made
  <2>2. CASE job[c] = "create"
    BY <2>2, <1>1, <1>3, <1>5 DEF Made, w
  <2>3. CASE job[c] = "delete"
    BY <2>3, <1>5 DEF Made, w
  <2>4. CASE job[c] \in {"rename", "last"} /\ all[w] = Absent
    BY <2>4, <1>1 DEF Made, w
  <2>5. CASE job[c] = "rename" /\ all[w] # Absent
    <3>1. Made(c, all) = [all EXCEPT ![w] = [all[w] EXCEPT !.name = c, !.git = repo]]
      BY <2>5 DEF Made, w
    <3> QED
      BY <3>1, <2>5, <1>1, <1>2, <1>3, <1>5
  <2>6. CASE job[c] = "last" /\ all[w] # Absent
    <3>1. Made(c, all) = [all EXCEPT ![w] = [all[w] EXCEPT !.last = TRUE]]
      BY <2>6 DEF Made, w
    <3> QED
      BY <3>1, <2>6, <1>1, <1>2, <1>3, <1>5
  <2> QED
    BY <2>1, <2>2, <2>3, <2>4, <2>5, <2>6 DEF SpaceJobs
<1> QED
  BY <1>6 DEF all

LEMMA StoresStart ==
    StoresInit => KeptInv
<1> SUFFICES ASSUME StoresInit PROVE KeptInv
  OBVIOUS
<1>1. CopyNames[1] \in Flows
  BY StoresAssumption
<1>2. StoresTypeOK
  <2>1. First \in Space
    BY DEF First, Space
  <2>2. spaces \in Spaces /\ read \in [Clients -> Spaces]
    BY <2>1 DEF StoresInit, Spaces
  <2>3. step \in [Clients -> {"idle", "queued", "reading", "done", "failed"}]
    BY DEF StoresInit
  <2>4. flows \in [Flows -> Clients \cup {"first", Absent}] /\ listed \in [Clients -> SUBSET Flows]
    BY DEF StoresInit
  <2>5. runs \in [Workspaces -> {"none", "active", "ended"}] /\ repo \in BOOLEAN
    BY DEF StoresInit
  <2>8. line \in Seq(Clients) /\ flowLine \in Seq(Clients)
    BY DEF StoresInit
  <2>9. faults \in 0..MaxFaults
    BY StoresAssumption DEF StoresInit, StoresAssumption
  <2>6. job \in [Clients -> SpaceJobs \cup FlowJobs \cup {"none"}]
    BY DEF StoresInit
  <2>7. target \in [Clients -> Workspaces \cup Flows]
    BY <1>1 DEF StoresInit
  <2> QED
    BY <2>2, <2>3, <2>4, <2>5, <2>6, <2>7, <2>8, <2>9 DEF StoresTypeOK
<1>3. InLine(line, SpaceJobs) /\ InLine(flowLine, FileJobs)
  BY DEF StoresInit, InLine
<1>4. ReadsCount /\ Targets
  BY DEF StoresInit, ReadsCount, Targets, SpaceJobs, FlowJobs
<1>5. \A w \in Workspaces : SpaceKept(w)
  BY DEF StoresInit, SpaceKept, Told
<1>6. \A f \in Flows : FlowKept(f)
  BY DEF StoresInit, FlowKept, Told
<1> QED
  BY <1>2, <1>3, <1>4, <1>5, <1>6 DEF KeptInv

-----------------------------------------------------------------------------
LEMMA StoresTypes ==
    KeptInv /\ [StoresNext]_storesVars => StoresTypeOK'
<1> SUFFICES ASSUME KeptInv, [StoresNext]_storesVars PROVE StoresTypeOK'
  OBVIOUS
<1>0. StoresTypeOK /\ Targets
  BY DEF KeptInv
<1>1. ASSUME NEW c \in Clients, NEW turns \in Seq(Clients)
      PROVE  Append(turns, c) \in Seq(Clients) /\ QueueWithout(turns, c) \in Seq(Clients)
  BY DEF QueueWithout, Heads
<1>2. ASSUME NEW c \in Clients, NEW w \in Workspaces,
             NEW kind \in {"list", "create", "rename", "delete", "find"}, AskStore(c, kind, w)
      PROVE  StoresTypeOK'
  <2>1. kind \in SpaceJobs
    BY DEF SpaceJobs
  <2>2. step' \in [Clients -> {"idle", "queued", "reading", "done", "failed"}]
        /\ line' \in Seq(Clients)
    <3>1. CASE kind = "delete"
      BY <3>1, <1>0, <1>2 DEF AskStore, StoresTypeOK, StepTo
    <3>2. CASE kind # "delete"
      BY <3>2, <1>0, <1>1, <1>2 DEF AskStore, StoresTypeOK, StepTo
    <3> QED
      BY <3>1, <3>2
  <2> QED
    BY <1>0, <1>2, <2>1, <2>2 DEF AskStore, StoresTypeOK
<1>3. ASSUME NEW c \in Clients, DeleteChecked(c) PROVE StoresTypeOK'
  BY <1>0, <1>1, <1>3 DEF DeleteChecked, StoresTypeOK, StepTo
<1>4. ASSUME NEW c \in Clients, ReadSpaces(c) PROVE StoresTypeOK'
  BY <1>0, <1>4 DEF ReadSpaces, StoresTypeOK, StepTo
<1>5. ASSUME NEW c \in Clients, WriteSpaces(c) PROVE StoresTypeOK'
  <2>1. Made(c, read[c]) \in Spaces
    BY <1>0, <1>5, MadeIsSpaces DEF WriteSpaces
  <2>2. read' \in [Clients -> Spaces]
    BY <1>0, <1>5 DEF WriteSpaces, StoresTypeOK, Spaces
  <2>3. step' \in [Clients -> {"idle", "queued", "reading", "done", "failed"}]
    BY <1>0, <1>5 DEF WriteSpaces, StoresTypeOK, StepTo
  <2>4. spaces' \in Spaces /\ faults' \in 0..MaxFaults
    BY <1>0, <1>5, <2>1, StoresAssumption DEF WriteSpaces, StoresTypeOK
  <2> QED
    BY <1>0, <1>1, <1>5, <2>2, <2>3, <2>4 DEF WriteSpaces, StoresTypeOK
<1>6. ASSUME NEW c \in Clients, SaveRun(c) PROVE StoresTypeOK'
  <2>1. job' \in [Clients -> SpaceJobs \cup FlowJobs \cup {"none"}]
    BY <1>0, <1>6 DEF SaveRun, StoresTypeOK, SpaceJobs
  <2> QED
    BY <1>0, <1>1, <1>6, <2>1 DEF SaveRun, StoresTypeOK, StepTo
<1>7. ASSUME NEW c \in Clients, EndRun(c) PROVE StoresTypeOK'
  BY <1>0, <1>1, <1>7 DEF EndRun, StoresTypeOK, StepTo
<1>8. ASSUME NEW c \in Clients, Choose(c) PROVE StoresTypeOK'
  <2>1. job' \in [Clients -> SpaceJobs \cup FlowJobs \cup {"none"}]
    BY <1>0, <1>8 DEF Choose, StoresTypeOK, FlowJobs
  <2>2. CopyNames[Chosen] \in Flows
    BY <1>8, FirstFree, StoresAssumption DEF Choose
  <2> QED
    BY <1>0, <1>8, <2>1, <2>2 DEF Choose, StoresTypeOK
<1>9. ASSUME NEW c \in Clients, CreateCopy(c) PROVE StoresTypeOK'
  <2>1. job' \in [Clients -> SpaceJobs \cup FlowJobs \cup {"none"}]
    BY <1>0, <1>9 DEF CreateCopy, StoresTypeOK, FlowJobs
  <2> QED
    BY <1>0, <1>1, <1>9, <2>1 DEF CreateCopy, StoresTypeOK, StepTo
<1>10. ASSUME NEW c \in Clients, ReadFlow(c) PROVE StoresTypeOK'
  BY <1>0, <1>1, <1>10 DEF ReadFlow, StoresTypeOK, StepTo
<1>11. ASSUME NEW c \in Clients, WriteFlow(c) PROVE StoresTypeOK'
  <2>1. flows' \in [Flows -> Clients \cup {"first", Absent}]
    BY <1>0, <1>11 DEF WriteFlow, StoresTypeOK
  <2> QED
    BY <1>0, <1>1, <1>11, <2>1 DEF WriteFlow, StoresTypeOK, StepTo
<1>12. ASSUME NEW c \in Clients, ListFlows(c) PROVE StoresTypeOK'
  <2>1. job' \in [Clients -> SpaceJobs \cup FlowJobs \cup {"none"}]
    BY <1>0, <1>12 DEF ListFlows, StoresTypeOK, FlowJobs
  <2> QED
    BY <1>0, <1>12, <2>1 DEF ListFlows, StoresTypeOK, StepTo, Present
<1>13. ASSUME NEW c \in Clients, ReadListed(c) PROVE StoresTypeOK'
  BY <1>0, <1>13 DEF ReadListed, StoresTypeOK, StepTo
<1>14. ASSUME NEW c \in Clients, NEW f \in Flows, NEW kind \in {"edit", "drop"}, AskFlow(c, kind, f)
       PROVE  StoresTypeOK'
  <2>1. job' \in [Clients -> SpaceJobs \cup FlowJobs \cup {"none"}]
    BY <1>0, <1>14 DEF AskFlow, StoresTypeOK, FlowJobs
  <2> QED
    BY <1>0, <1>1, <1>14, <2>1 DEF AskFlow, StoresTypeOK, StepTo
<1>15. CASE RepoChanges
  BY <1>0, <1>15, StoresAssumption DEF RepoChanges, StoresTypeOK
<1>16. CASE UNCHANGED storesVars
  BY <1>0, <1>16 DEF storesVars, StoresTypeOK
<1> QED
  BY <1>2, <1>3, <1>4, <1>5, <1>6, <1>7, <1>8, <1>9, <1>10, <1>11, <1>12, <1>13, <1>14,
     <1>15, <1>16 DEF StoresNext

-----------------------------------------------------------------------------
(* What a request writes keeps what is there of every workspace but its own. *)
LEMMA MadeKeeps ==
    ASSUME StoresTypeOK, Targets, NEW c \in Clients, job[c] \in SpaceJobs, NEW w \in Workspaces,
           w # target[c] \/ job[c] \in {"list", "find"}
    PROVE  /\ Made(c, spaces)[w] = Absent <=> spaces[w] = Absent
           /\ spaces[w] # Absent => /\ Made(c, spaces)[w].name = spaces[w].name
                                    /\ Made(c, spaces)[w].last = spaces[w].last
<1>1. /\ spaces \in [Workspaces -> Space \cup {Absent}] /\ Absent \notin Space
      /\ target[c] \in Workspaces /\ repo \in BOOLEAN
  BY StoresAssumption DEF StoresTypeOK, Spaces, Space, Targets, StoresAssumption, SpaceJobs
<1>2. CASE job[c] \in {"list", "find"}
  <2>1. Made(c, spaces)[w] = IF spaces[w] = Absent THEN Absent ELSE [spaces[w] EXCEPT !.git = repo]
    BY <1>2 DEF Made, Refreshed
  <2>2. \A old \in Space : /\ [old EXCEPT !.git = repo] \in Space
                            /\ [old EXCEPT !.git = repo].name = old.name
                            /\ [old EXCEPT !.git = repo].last = old.last
    BY <1>1 DEF Space
  <2> QED
    BY <1>1, <2>1, <2>2
<1>3. CASE job[c] \notin {"list", "find"} /\ w # target[c]
  <2>1. Made(c, spaces)[w] = spaces[w]
    BY <1>1, <1>3 DEF Made
  <2> QED
    BY <2>1
<1> QED
  BY <1>2, <1>3

(* And of its own.                                                           *)
LEMMA MadeOwn ==
    ASSUME StoresTypeOK, Targets, NEW c \in Clients, job[c] \in SpaceJobs \ {"list", "find"},
           NEW w \in Workspaces, w = target[c], NEW then, then = Made(c, spaces)[w]
    PROVE  /\ job[c] = "create" => then # Absent
           /\ job[c] = "delete" => then = Absent
           /\ job[c] \in {"rename", "last"} /\ spaces[w] = Absent => then = Absent
           /\ job[c] = "rename" /\ spaces[w] # Absent =>
                 then # Absent /\ then.name = c /\ then.last = spaces[w].last
           /\ job[c] = "last" /\ spaces[w] # Absent =>
                 then # Absent /\ then.name = spaces[w].name /\ then.last = TRUE
<1>1. /\ spaces \in [Workspaces -> Space \cup {Absent}] /\ Absent \notin Space /\ First \in Space
      /\ w \in Workspaces /\ repo \in BOOLEAN
  BY StoresAssumption
  DEF StoresTypeOK, Spaces, Space, Targets, StoresAssumption, SpaceJobs, First
<1>2. \A old \in Space :
        /\ [old EXCEPT !.git = repo] \in Space /\ [old EXCEPT !.last = TRUE] \in Space
        /\ [old EXCEPT !.name = c, !.git = repo] \in Space
        /\ [old EXCEPT !.name = c, !.git = repo].name = c
        /\ [old EXCEPT !.name = c, !.git = repo].last = old.last
        /\ [old EXCEPT !.last = TRUE].name = old.name
        /\ [old EXCEPT !.last = TRUE].last = TRUE
  BY <1>1 DEF Space
<1>3. CASE job[c] = "create"
  <2>1. then = [First EXCEPT !.git = repo]
    BY <1>1, <1>3 DEF Made
  <2>2. then \in Space
    BY <1>1, <1>2, <2>1, Zenon
  <2> QED
    BY <1>1, <1>3, <2>2
<1>4. CASE job[c] = "delete"
  BY <1>1, <1>4 DEF Made
<1>5. CASE job[c] \in {"rename", "last"} /\ spaces[w] = Absent
  <2>1. then = Absent
    BY <1>1, <1>5 DEF Made
  <2> QED
    BY <1>5, <2>1
<1>6. CASE job[c] = "rename" /\ spaces[w] # Absent
  <2>1. then = [spaces[w] EXCEPT !.name = c, !.git = repo]
    BY <1>1, <1>6 DEF Made
  <2>2. spaces[w] \in Space
    BY <1>1, <1>6
  <2>3. then \in Space /\ then.name = c /\ then.last = spaces[w].last
    BY <1>2, <2>1, <2>2, Zenon
  <2> QED
    BY <1>1, <1>6, <2>3
<1>7. CASE job[c] = "last" /\ spaces[w] # Absent
  <2>1. then = [spaces[w] EXCEPT !.last = TRUE]
    BY <1>1, <1>7 DEF Made
  <2>2. spaces[w] \in Space
    BY <1>1, <1>7
  <2>3. then \in Space /\ then.name = spaces[w].name /\ then.last = TRUE
    BY <1>2, <2>1, <2>2, Zenon
  <2> QED
    BY <1>1, <1>7, <2>3
<1> QED
  BY <1>3, <1>4, <1>5, <1>6, <1>7 DEF SpaceJobs

(* An operation that writes the workspaces, at the head of their queue.      *)
LEMMA WriteSpacesKeeps ==
    ASSUME KeptInv, NEW c \in Clients, WriteSpaces(c)
    PROVE  /\ InLine(line, SpaceJobs)' /\ InLine(flowLine, FileJobs)' /\ Targets'
           /\ ReadsCount' /\ (\A w \in Workspaces : SpaceKept(w)')
           /\ (\A f \in Flows : FlowKept(f)')
<1>1. /\ StoresTypeOK /\ Targets /\ ReadsCount /\ InLine(line, SpaceJobs)
      /\ InLine(flowLine, FileJobs) /\ (\A w \in Workspaces : SpaceKept(w))
      /\ \A f \in Flows : FlowKept(f)
  BY DEF KeptInv
<1>2. /\ job[c] \in SpaceJobs /\ step[c] = "reading" /\ read[c] = spaces /\ Heads(line, c)
      /\ job' = job /\ target' = target /\ flows' = flows /\ flowLine' = flowLine
      /\ line' = QueueWithout(line, c) /\ line \in Seq(Clients) /\ flowLine \in Seq(Clients)
  BY <1>1 DEF WriteSpaces, ReadsCount, InLine, StoresTypeOK
<1>3. /\ step'[c] \in {"done", "failed"}
      /\ \A d \in Clients \ {c} : step'[d] = step[d] /\ read'[d] = read[d]
  BY <1>1 DEF WriteSpaces, StepTo, StoresTypeOK
<1>4. InLine(line, SpaceJobs)'
  <2> DEFINE then == QueueWithout(line, c)
  <2>1. /\ \A i, j \in DOMAIN then : then[i] = then[j] => i = j
        /\ \A i \in DOMAIN then : job'[then[i]] \in SpaceJobs /\ step'[then[i]] \in {"queued", "reading"}
        /\ \A d \in Clients : ~(job'[d] \in SpaceJobs /\ step'[d] = "reading")
    <3>1. step'[c] # "reading"
      BY <1>3
    <3> QED
      BY <1>1, <1>2, <1>3, <3>1, LeavesLine
  <2>2. line' = then
    BY <1>2
  <2> HIDE DEF then
  <2> QED
    BY <2>1, <2>2 DEF InLine, Waits
<1>5. InLine(flowLine, FileJobs)'
  <2>1. job[c] \notin FileJobs
    BY <1>2 DEF SpaceJobs, FileJobs
  <2>2. /\ \A i, j \in DOMAIN flowLine : flowLine[i] = flowLine[j] => i = j
        /\ \A i \in DOMAIN flowLine :
              job'[flowLine[i]] \in FileJobs /\ step'[flowLine[i]] \in {"queued", "reading"}
        /\ \A d \in Clients : job'[d] \in FileJobs /\ step'[d] = "reading" => Heads(flowLine, d)
    BY <1>1, <1>2, <1>3, <2>1, LineStands
  <2> QED
    BY <1>2, <2>2 DEF InLine, Waits, Heads
<1>6. Targets'
  BY <1>1, <1>2 DEF Targets
<1>7. ReadsCount'
  <2>1. ASSUME NEW d \in Clients, step'[d] = "reading" PROVE d # c /\ job[d] \notin SpaceJobs
    BY <1>1, <1>2, <1>3, <2>1 DEF InLine, Heads
  <2> QED
    BY <1>1, <1>2, <1>3, <2>1 DEF ReadsCount
<1>8. ASSUME NEW f \in Flows PROVE FlowKept(f)'
  <2>1. \A kind \in {"copy", "edit", "drop"}, d \in Clients :
          job'[d] = kind /\ target'[d] = f /\ step'[d] = "done"
              <=> job[d] = kind /\ target[d] = f /\ step[d] = "done"
    BY <1>2, <1>3 DEF SpaceJobs
  <2> QED
    BY <1>1, <1>2, <2>1 DEF FlowKept, Told
<1>9. ASSUME NEW w \in Workspaces PROVE SpaceKept(w)'
  <2>1. SpaceKept(w)
    BY <1>1
  <2> DEFINE Is(kind, d)  == Told(kind, w, d)'
  <2>2. SUFFICES
          \/ spaces'[w] = Absent /\ \E d \in Clients : Is("delete", d)
          \/ \A d \in Clients :
                /\ ~Is("delete", d)
                /\ Is("create", d) => spaces'[w] # Absent
                /\ Is("rename", d) => spaces'[w] # Absent /\ spaces'[w].name # "first"
                /\ Is("last", d) => spaces'[w] = Absent \/ spaces'[w].last
    BY DEF SpaceKept
  <2>3. \A d \in Clients : \A kind : d # c => (Is(kind, d) <=> Told(kind, w, d))
    BY <1>2, <1>3 DEF Told
  <2>4. \A kind : ~Told(kind, w, c) /\ (Is(kind, c) => job[c] = kind)
    BY <1>2 DEF Told
  <2>5. CASE spaces' = spaces /\ step'[c] = "failed"
    <3>1. \A kind : ~Is(kind, c)
      BY <2>5 DEF Told
    <3> HIDE DEF Is
    <3> QED
      BY <2>1, <2>3, <2>4, <2>5, <3>1 DEF SpaceKept
  <2>6. CASE /\ spaces' = Made(c, spaces)
             /\ step'[c] = "done" \/ job[c] = "find"
             /\ job[c] \in {"rename", "delete"} => spaces[target[c]] # Absent
    <3>1. CASE w # target[c] \/ job[c] \in {"list", "find"}
      <4>1. \A kind \in {"create", "rename", "last", "delete"} : ~Is(kind, c)
        BY <1>2, <3>1 DEF Told
      <4>2. /\ spaces'[w] = Absent <=> spaces[w] = Absent
            /\ spaces[w] # Absent => spaces'[w].name = spaces[w].name /\ spaces'[w].last = spaces[w].last
        BY <1>1, <1>2, <2>6, <3>1, MadeKeeps
      <4> HIDE DEF Is
      <4> QED
        BY <2>1, <2>3, <2>4, <4>1, <4>2 DEF SpaceKept
    <3>2. CASE w = target[c] /\ job[c] \notin {"list", "find"}
      <4>0. job[c] \in SpaceJobs \ {"list", "find"} /\ spaces'[w] = Made(c, spaces)[w]
        BY <1>2, <2>6, <3>2
      <4>1. /\ job[c] = "create" => spaces'[w] # Absent
            /\ job[c] = "delete" => spaces'[w] = Absent
            /\ job[c] \in {"rename", "last"} /\ spaces[w] = Absent => spaces'[w] = Absent
            /\ job[c] = "rename" /\ spaces[w] # Absent =>
                 spaces'[w] # Absent /\ spaces'[w].name = c /\ spaces'[w].last = spaces[w].last
            /\ job[c] = "last" /\ spaces[w] # Absent =>
                 spaces'[w] # Absent /\ spaces'[w].name = spaces[w].name /\ spaces'[w].last = TRUE
        <5> DEFINE then == Made(c, spaces)[w]
        <5>1. /\ job[c] = "create" => then # Absent
              /\ job[c] = "delete" => then = Absent
              /\ job[c] \in {"rename", "last"} /\ spaces[w] = Absent => then = Absent
              /\ job[c] = "rename" /\ spaces[w] # Absent =>
                   then # Absent /\ then.name = c /\ then.last = spaces[w].last
              /\ job[c] = "last" /\ spaces[w] # Absent =>
                   then # Absent /\ then.name = spaces[w].name /\ then.last = TRUE
          BY <1>1, <3>2, <4>0, MadeOwn
        <5>2. spaces'[w] = then
          BY <4>0
        <5> HIDE DEF then
        <5> QED
          BY <5>1, <5>2
      <4>3. \A d \in Clients : /\ Is("create", d) => w \notin Known
                               /\ Is("rename", d) \/ Is("last", d) \/ Is("delete", d) => w \in Known
        BY <1>1, <1>2 DEF Targets, SpaceJobs, Told
      <4>4. (job[c] = "create" => w \notin Known) /\ (job[c] # "create" => w \in Known)
        BY <1>1, <1>2, <3>2 DEF Targets
      <4>5. c # "first"
        BY StoresAssumption DEF StoresAssumption
      <4>6. (job[c] = "delete" => Is("delete", c)) /\ (job[c] = "rename" => spaces[w] # Absent)
        BY <1>2, <2>6, <3>2 DEF Told
      <4> HIDE DEF Is
      <4>7. CASE job[c] = "create"
        BY <2>1, <2>3, <4>1, <2>4, <4>3, <4>4, <4>7 DEF SpaceKept
      <4>8. CASE job[c] = "delete"
        BY <2>1, <2>3, <4>1, <2>4, <4>3, <4>4, <4>6, <4>8 DEF SpaceKept
      <4>9. CASE job[c] = "rename"
        BY <2>1, <2>3, <4>1, <2>4, <4>3, <4>4, <4>5, <4>6, <4>9 DEF SpaceKept
      <4>10. CASE job[c] = "last"
        BY <2>1, <2>3, <4>1, <2>4, <4>3, <4>4, <4>10 DEF SpaceKept
      <4> QED
        BY <1>2, <3>2, <4>7, <4>8, <4>9, <4>10 DEF SpaceJobs
    <3> QED
      BY <3>1, <3>2
  <2> HIDE DEF Is
  <2>7. \/ spaces' = spaces /\ step'[c] = "failed"
        \/ /\ spaces' = Made(c, spaces)
           /\ step'[c] = "done" \/ job[c] = "find"
           /\ job[c] \in {"rename", "delete"} => spaces[target[c]] # Absent
    BY <1>1, <1>2 DEF WriteSpaces, StepTo, StoresTypeOK
  <2> QED
    BY <2>5, <2>6, <2>7
<1> QED
  BY <1>4, <1>5, <1>6, <1>7, <1>8, <1>9

(* An operation that writes a workflow, at the head of their queue.          *)
LEMMA WriteFlowKeeps ==
    ASSUME KeptInv, NEW c \in Clients, WriteFlow(c)
    PROVE  /\ InLine(line, SpaceJobs)' /\ InLine(flowLine, FileJobs)' /\ Targets'
           /\ ReadsCount' /\ (\A w \in Workspaces : SpaceKept(w)')
           /\ (\A f \in Flows : FlowKept(f)')
<1>1. /\ StoresTypeOK /\ Targets /\ ReadsCount /\ InLine(line, SpaceJobs)
      /\ InLine(flowLine, FileJobs) /\ (\A w \in Workspaces : SpaceKept(w))
      /\ \A f \in Flows : FlowKept(f)
  BY DEF KeptInv
<1>2. /\ job[c] \in FileJobs /\ job[c] \notin SpaceJobs /\ step[c] = "reading" /\ Heads(flowLine, c)
      /\ job' = job /\ target' = target /\ spaces' = spaces /\ line' = line /\ read' = read
      /\ flowLine' = QueueWithout(flowLine, c) /\ line \in Seq(Clients) /\ flowLine \in Seq(Clients)
  BY <1>1 DEF WriteFlow, InLine, StoresTypeOK, FileJobs, SpaceJobs
<1>3. step'[c] = "done" /\ \A d \in Clients \ {c} : step'[d] = step[d]
  BY <1>1 DEF WriteFlow, StepTo, StoresTypeOK
<1>4. InLine(flowLine, FileJobs)'
  <2> DEFINE then == QueueWithout(flowLine, c)
  <2>1. /\ \A i, j \in DOMAIN then : then[i] = then[j] => i = j
        /\ \A i \in DOMAIN then : job'[then[i]] \in FileJobs /\ step'[then[i]] \in {"queued", "reading"}
        /\ \A d \in Clients : ~(job'[d] \in FileJobs /\ step'[d] = "reading")
    <3>1. step'[c] # "reading"
      BY <1>3
    <3> QED
      BY <1>1, <1>2, <1>3, <3>1, LeavesLine
  <2>2. flowLine' = then
    BY <1>2
  <2> HIDE DEF then
  <2> QED
    BY <2>1, <2>2 DEF InLine, Waits
<1>5. InLine(line, SpaceJobs)'
  <2>2. /\ \A i, j \in DOMAIN line : line[i] = line[j] => i = j
        /\ \A i \in DOMAIN line : job'[line[i]] \in SpaceJobs /\ step'[line[i]] \in {"queued", "reading"}
        /\ \A d \in Clients : job'[d] \in SpaceJobs /\ step'[d] = "reading" => Heads(line, d)
    BY <1>1, <1>2, <1>3, LineStands
  <2> QED
    BY <1>2, <2>2 DEF InLine, Waits, Heads
<1>6. Targets'
  BY <1>1, <1>2 DEF Targets
<1>7. ReadsCount'
  <2>1. ASSUME NEW d \in Clients, step'[d] = "reading" PROVE d # c /\ job[d] # "copy"
    BY <1>1, <1>2, <1>3, <2>1 DEF InLine, Heads, FileJobs
  <2> QED
    BY <1>1, <1>2, <1>3, <2>1 DEF ReadsCount
<1>8. ASSUME NEW w \in Workspaces PROVE SpaceKept(w)'
  <2>1. \A kind \in {"create", "rename", "last", "delete"}, d \in Clients :
          job'[d] = kind /\ target'[d] = w /\ step'[d] = "done"
              <=> job[d] = kind /\ target[d] = w /\ step[d] = "done"
    BY <1>2, <1>3 DEF FileJobs
  <2> QED
    BY <1>1, <1>2, <2>1 DEF SpaceKept, Told
<1>9. ASSUME NEW f \in Flows PROVE FlowKept(f)'
  <2>1. FlowKept(f) /\ (f # target[c] => flows'[f] = flows[f])
    BY <1>1 DEF WriteFlow, StoresTypeOK
  <2>2. CASE f # target[c]
    <3>1. \A kind \in {"copy", "edit", "drop"}, d \in Clients :
            job'[d] = kind /\ target'[d] = f /\ step'[d] = "done"
                <=> job[d] = kind /\ target[d] = f /\ step[d] = "done"
      BY <1>2, <1>3, <2>2
    <3> QED
      BY <1>2, <2>1, <2>2, <3>1 DEF FlowKept, Told
  <2>3. CASE f = target[c] /\ job[c] # "copy"
    BY <1>2, <1>3, <2>3 DEF FlowKept, Told, FileJobs
  <2>4. CASE f = target[c] /\ job[c] = "copy"
    <3>1. flows'[f] = c /\ flows[f] = Absent /\ Absent \notin Clients
      BY <1>1, <1>2, <2>4, StoresAssumption DEF WriteFlow, StoresTypeOK, ReadsCount, StoresAssumption
    <3>2. CASE \E d \in Clients : Told("edit", f, d) \/ Told("drop", f, d)
      BY <1>2, <1>3, <2>4, <3>2 DEF FlowKept, Told
    <3>3. CASE \A d \in Clients : ~Told("copy", f, d)
      BY <1>2, <1>3, <3>1, <3>3 DEF FlowKept, Told
    <3> QED
      BY <2>1, <3>1, <3>2, <3>3 DEF FlowKept
  <2> QED
    BY <2>2, <2>3, <2>4
<1> QED
  BY <1>4, <1>5, <1>6, <1>7, <1>8, <1>9

-----------------------------------------------------------------------------
(* The queues when one joins the one or the other, and when none does.       *)
LEMMA JoinsSpaces ==
    ASSUME KeptInv, NEW c \in Clients,
           \A d \in Clients \ {c} : job'[d] = job[d] /\ step'[d] = step[d],
           job' \in [Clients -> SpaceJobs \cup FlowJobs \cup {"none"}],
           ~(job[c] \in SpaceJobs /\ Waits(c)), ~(job[c] \in FileJobs /\ Waits(c)),
           job'[c] \in SpaceJobs, step'[c] = "queued",
           line' = Append(line, c), flowLine' = flowLine
    PROVE  InLine(line, SpaceJobs)' /\ InLine(flowLine, FileJobs)'
<1>1. /\ line \in Seq(Clients) /\ flowLine \in Seq(Clients)
      /\ InLine(line, SpaceJobs) /\ InLine(flowLine, FileJobs)
  BY DEF KeptInv, StoresTypeOK
<1>2. InLine(line, SpaceJobs)'
  <2> DEFINE then == Append(line, c)
  <2>1. /\ \A i, j \in DOMAIN then : then[i] = then[j] => i = j
        /\ \A i \in DOMAIN then : job'[then[i]] \in SpaceJobs /\ step'[then[i]] \in {"queued", "reading"}
        /\ \A d \in Clients : job'[d] \in SpaceJobs /\ step'[d] = "reading"
              => then # <<>> /\ Head(then) = d
    BY <1>1, JoinsLine, SMTT(20)
  <2>2. line' = then
    OBVIOUS
  <2> HIDE DEF then
  <2> QED
    BY <2>1, <2>2 DEF InLine, Waits, Heads
<1>3. InLine(flowLine, FileJobs)'
  <2>0. job'[c] \notin FileJobs
    BY DEF FileJobs, SpaceJobs
  <2>1. /\ \A i, j \in DOMAIN flowLine : flowLine[i] = flowLine[j] => i = j
        /\ \A i \in DOMAIN flowLine :
              job'[flowLine[i]] \in FileJobs /\ step'[flowLine[i]] \in {"queued", "reading"}
        /\ \A d \in Clients : job'[d] \in FileJobs /\ step'[d] = "reading" => Heads(flowLine, d)
    BY <1>1, <2>0, LineStands
  <2> QED
    BY <2>1 DEF InLine, Waits, Heads
<1> QED
  BY <1>2, <1>3

LEMMA JoinsFlows ==
    ASSUME KeptInv, NEW c \in Clients,
           \A d \in Clients \ {c} : job'[d] = job[d] /\ step'[d] = step[d],
           job' \in [Clients -> SpaceJobs \cup FlowJobs \cup {"none"}],
           ~(job[c] \in SpaceJobs /\ Waits(c)), ~(job[c] \in FileJobs /\ Waits(c)),
           job'[c] \in FileJobs, step'[c] = "queued",
           flowLine' = Append(flowLine, c), line' = line
    PROVE  InLine(line, SpaceJobs)' /\ InLine(flowLine, FileJobs)'
<1>1. /\ line \in Seq(Clients) /\ flowLine \in Seq(Clients)
      /\ InLine(line, SpaceJobs) /\ InLine(flowLine, FileJobs)
  BY DEF KeptInv, StoresTypeOK
<1>2. InLine(flowLine, FileJobs)'
  <2> DEFINE then == Append(flowLine, c)
  <2>1. /\ \A i, j \in DOMAIN then : then[i] = then[j] => i = j
        /\ \A i \in DOMAIN then : job'[then[i]] \in FileJobs /\ step'[then[i]] \in {"queued", "reading"}
        /\ \A d \in Clients : job'[d] \in FileJobs /\ step'[d] = "reading"
              => then # <<>> /\ Head(then) = d
    BY <1>1, JoinsLine, SMTT(20)
  <2>2. flowLine' = then
    OBVIOUS
  <2> HIDE DEF then
  <2> QED
    BY <2>1, <2>2 DEF InLine, Waits, Heads
<1>3. InLine(line, SpaceJobs)'
  <2>0. job'[c] \notin SpaceJobs
    BY DEF FileJobs, SpaceJobs
  <2>1. /\ \A i, j \in DOMAIN line : line[i] = line[j] => i = j
        /\ \A i \in DOMAIN line : job'[line[i]] \in SpaceJobs /\ step'[line[i]] \in {"queued", "reading"}
        /\ \A d \in Clients : job'[d] \in SpaceJobs /\ step'[d] = "reading" => Heads(line, d)
    BY <1>1, <2>0, LineStands
  <2> QED
    BY <2>1 DEF InLine, Waits, Heads
<1> QED
  BY <1>2, <1>3

LEMMA NoneJoins ==
    ASSUME KeptInv, NEW c \in Clients,
           \A d \in Clients \ {c} : job'[d] = job[d] /\ step'[d] = step[d],
           job[c] \in SpaceJobs /\ Waits(c) => job'[c] \in SpaceJobs /\ step'[c] \in {"queued", "reading"},
           job[c] \in FileJobs /\ Waits(c) => job'[c] \in FileJobs /\ step'[c] \in {"queued", "reading"},
           job'[c] \in SpaceJobs /\ step'[c] = "reading" => Heads(line, c),
           job'[c] \in FileJobs /\ step'[c] = "reading" => Heads(flowLine, c),
           line' = line, flowLine' = flowLine
    PROVE  InLine(line, SpaceJobs)' /\ InLine(flowLine, FileJobs)'
<1>1. /\ line \in Seq(Clients) /\ flowLine \in Seq(Clients)
      /\ InLine(line, SpaceJobs) /\ InLine(flowLine, FileJobs)
  BY DEF KeptInv, StoresTypeOK
<1>2. /\ \A i, j \in DOMAIN line : line[i] = line[j] => i = j
      /\ \A i \in DOMAIN line : job'[line[i]] \in SpaceJobs /\ step'[line[i]] \in {"queued", "reading"}
      /\ \A d \in Clients : job'[d] \in SpaceJobs /\ step'[d] = "reading" => Heads(line, d)
  BY <1>1, LineStands
<1>3. /\ \A i, j \in DOMAIN flowLine : flowLine[i] = flowLine[j] => i = j
      /\ \A i \in DOMAIN flowLine :
            job'[flowLine[i]] \in FileJobs /\ step'[flowLine[i]] \in {"queued", "reading"}
      /\ \A d \in Clients : job'[d] \in FileJobs /\ step'[d] = "reading" => Heads(flowLine, d)
  BY <1>1, LineStands
<1> QED
  BY <1>2, <1>3 DEF InLine, Waits, Heads

(* Every step keeps the invariant.                                           *)
LEMMA KeptNext ==
    KeptInv /\ [StoresNext]_storesVars => KeptInv'
<1> SUFFICES ASSUME KeptInv, [StoresNext]_storesVars PROVE KeptInv'
  OBVIOUS
<1> DEFINE Rest ==
        /\ InLine(line, SpaceJobs)' /\ InLine(flowLine, FileJobs)' /\ Targets'
        /\ ReadsCount' /\ (\A w \in Workspaces : SpaceKept(w)') /\ (\A f \in Flows : FlowKept(f)')
<1>0. StoresTypeOK /\ StoresTypeOK' /\ Targets /\ InLine(line, SpaceJobs) /\ InLine(flowLine, FileJobs)
  BY StoresTypes DEF KeptInv
<1>1. ASSUME NEW c \in Clients, NEW w \in Workspaces,
             NEW kind \in {"list", "create", "rename", "delete", "find"}, AskStore(c, kind, w)
      PROVE  Rest
  <2>1. /\ \A d \in Clients \ {c} : /\ job'[d] = job[d] /\ step'[d] = step[d]
                                  /\ target'[d] = target[d] /\ read'[d] = read[d]
        /\ spaces' = spaces /\ flows' = flows
        /\ job' \in [Clients -> SpaceJobs \cup FlowJobs \cup {"none"}]
    BY <1>0, <1>1 DEF AskStore, StepTo, StoresTypeOK
  <2>2. InLine(line, SpaceJobs)' /\ InLine(flowLine, FileJobs)'
    <3>1. job[c] = "none" /\ job'[c] = kind /\ kind \in SpaceJobs /\ kind \notin FileJobs
      BY <1>0, <1>1 DEF AskStore, StoresTypeOK, SpaceJobs, FileJobs
    <3>2. job[c] \notin SpaceJobs /\ job[c] \notin FileJobs
      BY <3>1 DEF SpaceJobs, FileJobs
    <3>3. CASE kind = "delete"
      <4>1. step'[c] \in {"failed", "idle"} /\ line' = line /\ flowLine' = flowLine
        BY <1>0, <1>1, <3>3 DEF AskStore, StepTo, StoresTypeOK
      <4> QED
        BY <2>1, <3>1, <3>2, <4>1, NoneJoins
    <3>4. CASE kind # "delete"
      <4>1. step'[c] = "queued" /\ line' = Append(line, c) /\ flowLine' = flowLine
        BY <1>0, <1>1, <3>4 DEF AskStore, StepTo, StoresTypeOK
      <4> QED
        BY <2>1, <3>1, <3>2, <4>1, JoinsSpaces
    <3> QED
      BY <3>3, <3>4
  <2>3. Targets'
    BY <1>0, <1>1, <2>1 DEF AskStore, StepTo, StoresTypeOK, Targets, SpaceJobs, FlowJobs
  <2>4. ReadsCount' /\ (\A v \in Workspaces : SpaceKept(v)') /\ (\A g \in Flows : FlowKept(g)')
    <3>1. job[c] = "none" /\ job'[c] = kind /\ kind \in SpaceJobs
      BY <1>0, <1>1 DEF AskStore, StoresTypeOK, SpaceJobs
    <3>2. step'[c] \in {"failed", "idle", "queued"}
      BY <1>0, <1>1 DEF AskStore, StepTo, StoresTypeOK
    <3> QED
      BY <2>1, <3>1, <3>2, OneMoves
  <2> QED
    BY <2>2, <2>3, <2>4
<1>2. ASSUME NEW c \in Clients, DeleteChecked(c)
      PROVE  Rest
  <2>1. /\ \A d \in Clients \ {c} : /\ job'[d] = job[d] /\ step'[d] = step[d]
                                  /\ target'[d] = target[d] /\ read'[d] = read[d]
        /\ spaces' = spaces /\ flows' = flows
        /\ job' \in [Clients -> SpaceJobs \cup FlowJobs \cup {"none"}]
    BY <1>0, <1>2 DEF DeleteChecked, StepTo, StoresTypeOK
  <2>2. InLine(line, SpaceJobs)' /\ InLine(flowLine, FileJobs)'
    BY <1>0, <1>2, <2>1, JoinsSpaces DEF DeleteChecked, StepTo, StoresTypeOK, Waits, SpaceJobs, FileJobs
  <2>3. Targets'
    BY <1>0, <1>2, <2>1 DEF DeleteChecked, StepTo, StoresTypeOK, Targets, SpaceJobs, FlowJobs
  <2>4. ReadsCount' /\ (\A w \in Workspaces : SpaceKept(w)') /\ (\A f \in Flows : FlowKept(f)')
    BY <1>0, <1>2, <2>1, OneMoves DEF DeleteChecked, StepTo, StoresTypeOK, SpaceJobs
  <2> QED
    BY <2>2, <2>3, <2>4
<1>3. ASSUME NEW c \in Clients, ReadSpaces(c)
      PROVE  Rest
  <2>1. /\ \A d \in Clients \ {c} : /\ job'[d] = job[d] /\ step'[d] = step[d]
                                  /\ target'[d] = target[d] /\ read'[d] = read[d]
        /\ spaces' = spaces /\ flows' = flows
        /\ job' \in [Clients -> SpaceJobs \cup FlowJobs \cup {"none"}]
    BY <1>0, <1>3 DEF ReadSpaces, StepTo, StoresTypeOK
  <2>2. InLine(line, SpaceJobs)' /\ InLine(flowLine, FileJobs)'
    <3>1. /\ job' = job /\ job[c] \in SpaceJobs /\ job[c] \notin FileJobs /\ step'[c] = "reading"
          /\ Heads(line, c) /\ line' = line /\ flowLine' = flowLine
      BY <1>0, <1>3 DEF ReadSpaces, MayRead, StepTo, StoresTypeOK, SpaceJobs, FileJobs
    <3> QED
      BY <2>1, <3>1, NoneJoins
  <2>3. Targets'
    BY <1>0, <1>3, <2>1 DEF ReadSpaces, StepTo, StoresTypeOK, Targets, SpaceJobs, FlowJobs
  <2>4. ReadsCount' /\ (\A w \in Workspaces : SpaceKept(w)') /\ (\A f \in Flows : FlowKept(f)')
    BY <1>0, <1>3, <2>1, OneMoves DEF ReadSpaces, StepTo, StoresTypeOK, SpaceJobs, MayRead
  <2> QED
    BY <2>2, <2>3, <2>4
<1>4. ASSUME NEW c \in Clients, SaveRun(c)
      PROVE  Rest
  <2>1. /\ \A d \in Clients \ {c} : /\ job'[d] = job[d] /\ step'[d] = step[d]
                                  /\ target'[d] = target[d] /\ read'[d] = read[d]
        /\ spaces' = spaces /\ flows' = flows
        /\ job' \in [Clients -> SpaceJobs \cup FlowJobs \cup {"none"}]
    BY <1>0, <1>4 DEF SaveRun, StepTo, StoresTypeOK
  <2>2. InLine(line, SpaceJobs)' /\ InLine(flowLine, FileJobs)'
    BY <1>0, <1>4, <2>1, JoinsSpaces DEF SaveRun, StepTo, StoresTypeOK, Waits, SpaceJobs, FileJobs
  <2>3. Targets'
    BY <1>0, <1>4, <2>1 DEF SaveRun, StepTo, StoresTypeOK, Targets, SpaceJobs, FlowJobs
  <2>4. ReadsCount' /\ (\A w \in Workspaces : SpaceKept(w)') /\ (\A f \in Flows : FlowKept(f)')
    BY <1>0, <1>4, <2>1, OneMoves DEF SaveRun, StepTo, StoresTypeOK, SpaceJobs
  <2> QED
    BY <2>2, <2>3, <2>4
<1>5. ASSUME NEW c \in Clients, EndRun(c)
      PROVE  Rest
  <2>1. /\ \A d \in Clients \ {c} : /\ job'[d] = job[d] /\ step'[d] = step[d]
                                  /\ target'[d] = target[d] /\ read'[d] = read[d]
        /\ spaces' = spaces /\ flows' = flows
        /\ job' \in [Clients -> SpaceJobs \cup FlowJobs \cup {"none"}]
    BY <1>0, <1>5 DEF EndRun, StepTo, StoresTypeOK
  <2>2. InLine(line, SpaceJobs)' /\ InLine(flowLine, FileJobs)'
    BY <1>0, <1>5, <2>1, JoinsSpaces DEF EndRun, StepTo, StoresTypeOK, Waits, SpaceJobs, FileJobs
  <2>3. Targets'
    BY <1>0, <1>5, <2>1 DEF EndRun, StepTo, StoresTypeOK, Targets, SpaceJobs, FlowJobs
  <2>4. ReadsCount' /\ (\A w \in Workspaces : SpaceKept(w)') /\ (\A f \in Flows : FlowKept(f)')
    BY <1>0, <1>5, <2>1, OneMoves DEF EndRun, StepTo, StoresTypeOK, SpaceJobs
  <2> QED
    BY <2>2, <2>3, <2>4
<1>6. ASSUME NEW c \in Clients, Choose(c)
      PROVE  Rest
  <2>1. /\ \A d \in Clients \ {c} : /\ job'[d] = job[d] /\ step'[d] = step[d]
                                  /\ target'[d] = target[d] /\ read'[d] = read[d]
        /\ spaces' = spaces /\ flows' = flows
        /\ job' \in [Clients -> SpaceJobs \cup FlowJobs \cup {"none"}]
    BY <1>0, <1>6 DEF Choose, StepTo, StoresTypeOK
  <2>2. InLine(line, SpaceJobs)' /\ InLine(flowLine, FileJobs)'
    BY <1>0, <1>6, <2>1, NoneJoins DEF Choose, StepTo, StoresTypeOK, Waits, SpaceJobs, FileJobs
  <2>3. Targets'
    <3>1. CopyNames[Chosen] \in Flows
      BY <1>6, FirstFree, StoresAssumption DEF Choose
    <3> QED
      BY <1>0, <1>6, <2>1, <3>1 DEF Choose, StoresTypeOK, Targets, SpaceJobs, FlowJobs
  <2>4. ReadsCount' /\ (\A w \in Workspaces : SpaceKept(w)') /\ (\A f \in Flows : FlowKept(f)')
    BY <1>0, <1>6, <2>1, OneMoves DEF Choose, StepTo, StoresTypeOK, SpaceJobs
  <2> QED
    BY <2>2, <2>3, <2>4
<1>7. ASSUME NEW c \in Clients, CreateCopy(c)
      PROVE  Rest
  <2>1. /\ \A d \in Clients \ {c} : /\ job'[d] = job[d] /\ step'[d] = step[d]
                                  /\ target'[d] = target[d] /\ read'[d] = read[d]
        /\ spaces' = spaces /\ flows' = flows
        /\ job' \in [Clients -> SpaceJobs \cup FlowJobs \cup {"none"}]
    BY <1>0, <1>7 DEF CreateCopy, StepTo, StoresTypeOK
  <2>2. InLine(line, SpaceJobs)' /\ InLine(flowLine, FileJobs)'
    BY <1>0, <1>7, <2>1, JoinsFlows DEF CreateCopy, StepTo, StoresTypeOK, Waits, SpaceJobs, FileJobs
  <2>3. Targets'
    BY <1>0, <1>7, <2>1 DEF CreateCopy, StepTo, StoresTypeOK, Targets, SpaceJobs, FlowJobs
  <2>4. ReadsCount' /\ (\A w \in Workspaces : SpaceKept(w)') /\ (\A f \in Flows : FlowKept(f)')
    BY <1>0, <1>7, <2>1, OneMoves DEF CreateCopy, StepTo, StoresTypeOK, SpaceJobs
  <2> QED
    BY <2>2, <2>3, <2>4
<1>8. ASSUME NEW c \in Clients, ListFlows(c)
      PROVE  Rest
  <2>1. /\ \A d \in Clients \ {c} : /\ job'[d] = job[d] /\ step'[d] = step[d]
                                  /\ target'[d] = target[d] /\ read'[d] = read[d]
        /\ spaces' = spaces /\ flows' = flows
        /\ job' \in [Clients -> SpaceJobs \cup FlowJobs \cup {"none"}]
    BY <1>0, <1>8 DEF ListFlows, StepTo, StoresTypeOK
  <2>2. InLine(line, SpaceJobs)' /\ InLine(flowLine, FileJobs)'
    BY <1>0, <1>8, <2>1, NoneJoins DEF ListFlows, StepTo, StoresTypeOK, Waits, SpaceJobs, FileJobs
  <2>3. Targets'
    BY <1>0, <1>8, <2>1 DEF ListFlows, StepTo, StoresTypeOK, Targets, SpaceJobs, FlowJobs
  <2>4. ReadsCount' /\ (\A w \in Workspaces : SpaceKept(w)') /\ (\A f \in Flows : FlowKept(f)')
    BY <1>0, <1>8, <2>1, OneMoves DEF ListFlows, StepTo, StoresTypeOK, SpaceJobs
  <2> QED
    BY <2>2, <2>3, <2>4
<1>9. ASSUME NEW c \in Clients, ReadListed(c)
      PROVE  Rest
  <2>1. /\ \A d \in Clients \ {c} : /\ job'[d] = job[d] /\ step'[d] = step[d]
                                  /\ target'[d] = target[d] /\ read'[d] = read[d]
        /\ spaces' = spaces /\ flows' = flows
        /\ job' \in [Clients -> SpaceJobs \cup FlowJobs \cup {"none"}]
    BY <1>0, <1>9 DEF ReadListed, StepTo, StoresTypeOK
  <2>2. InLine(line, SpaceJobs)' /\ InLine(flowLine, FileJobs)'
    BY <1>0, <1>9, <2>1, NoneJoins DEF ReadListed, StepTo, StoresTypeOK, Waits, SpaceJobs, FileJobs
  <2>3. Targets'
    BY <1>0, <1>9, <2>1 DEF ReadListed, StepTo, StoresTypeOK, Targets, SpaceJobs, FlowJobs
  <2>4. ReadsCount' /\ (\A w \in Workspaces : SpaceKept(w)') /\ (\A f \in Flows : FlowKept(f)')
    BY <1>0, <1>9, <2>1, OneMoves DEF ReadListed, StepTo, StoresTypeOK, SpaceJobs
  <2> QED
    BY <2>2, <2>3, <2>4
<1>10. ASSUME NEW c \in Clients, NEW f \in Flows, NEW kind \in {"edit", "drop"}, AskFlow(c, kind, f)
      PROVE  Rest
  <2>1. /\ \A d \in Clients \ {c} : /\ job'[d] = job[d] /\ step'[d] = step[d]
                                  /\ target'[d] = target[d] /\ read'[d] = read[d]
        /\ spaces' = spaces /\ flows' = flows
        /\ job' \in [Clients -> SpaceJobs \cup FlowJobs \cup {"none"}]
    BY <1>0, <1>10 DEF AskFlow, StepTo, StoresTypeOK
  <2>2. InLine(line, SpaceJobs)' /\ InLine(flowLine, FileJobs)'
    BY <1>0, <1>10, <2>1, JoinsFlows DEF AskFlow, StepTo, StoresTypeOK, Waits, SpaceJobs, FileJobs
  <2>3. Targets'
    BY <1>0, <1>10, <2>1 DEF AskFlow, StepTo, StoresTypeOK, Targets, SpaceJobs, FlowJobs
  <2>4. ReadsCount' /\ (\A v \in Workspaces : SpaceKept(v)') /\ (\A g \in Flows : FlowKept(g)')
    BY <1>0, <1>10, <2>1, OneMoves DEF AskFlow, StepTo, StoresTypeOK, SpaceJobs
  <2> QED
    BY <2>2, <2>3, <2>4
<1>11. ASSUME NEW c \in Clients, ReadFlow(c)
      PROVE  Rest
  <2>1. /\ \A d \in Clients \ {c} : /\ job'[d] = job[d] /\ step'[d] = step[d]
                                  /\ target'[d] = target[d] /\ read'[d] = read[d]
        /\ spaces' = spaces /\ flows' = flows
        /\ job' \in [Clients -> SpaceJobs \cup FlowJobs \cup {"none"}]
    BY <1>0, <1>11 DEF ReadFlow, StepTo, StoresTypeOK
  <2>2. InLine(line, SpaceJobs)' /\ InLine(flowLine, FileJobs)'
    <3>1. /\ job' = job /\ job[c] \in FileJobs /\ job[c] \notin SpaceJobs /\ step[c] = "queued"
          /\ Heads(flowLine, c) /\ line' = line /\ line \in Seq(Clients) /\ flowLine \in Seq(Clients)
      BY <1>0, <1>11 DEF ReadFlow, StoresTypeOK, FileJobs, SpaceJobs
    <3>2. CASE ~Conflict(c)
      <4>1. flowLine' = flowLine /\ step'[c] = "reading"
        BY <1>0, <1>11, <3>2 DEF ReadFlow, StepTo, StoresTypeOK
      <4> QED
        BY <2>1, <3>1, <4>1, NoneJoins
    <3>3. CASE Conflict(c)
      <4>1. flowLine' = QueueWithout(flowLine, c) /\ step'[c] = "failed"
        BY <1>0, <1>11, <3>3 DEF ReadFlow, StepTo, StoresTypeOK
      <4> DEFINE then == QueueWithout(flowLine, c)
      <4>2. /\ \A i, j \in DOMAIN then : then[i] = then[j] => i = j
            /\ \A i \in DOMAIN then : job'[then[i]] \in FileJobs /\ step'[then[i]] \in {"queued", "reading"}
            /\ \A d \in Clients : ~(job'[d] \in FileJobs /\ step'[d] = "reading")
        <5>1. step'[c] # "reading"
          BY <4>1
        <5> QED
          BY <1>0, <2>1, <3>1, <5>1, LeavesLine
      <4>3. flowLine' = then
        BY <4>1
      <4> HIDE DEF then
      <4>4. InLine(flowLine, FileJobs)'
        BY <4>2, <4>3 DEF InLine, Waits
      <4>5. /\ \A i, j \in DOMAIN line : line[i] = line[j] => i = j
            /\ \A i \in DOMAIN line : job'[line[i]] \in SpaceJobs /\ step'[line[i]] \in {"queued", "reading"}
            /\ \A d \in Clients : job'[d] \in SpaceJobs /\ step'[d] = "reading" => Heads(line, d)
        BY <1>0, <2>1, <3>1, LineStands
      <4> QED
        BY <3>1, <4>4, <4>5 DEF InLine, Waits, Heads
    <3> QED
      BY <3>2, <3>3
  <2>3. Targets'
    BY <1>0, <1>11, <2>1 DEF ReadFlow, StepTo, StoresTypeOK, Targets, SpaceJobs, FlowJobs
  <2>4. ReadsCount' /\ (\A w \in Workspaces : SpaceKept(w)') /\ (\A f \in Flows : FlowKept(f)')
    BY <1>0, <1>11, <2>1, OneMoves DEF ReadFlow, StepTo, StoresTypeOK, SpaceJobs, Conflict
  <2> QED
    BY <2>2, <2>3, <2>4
<1>12. ASSUME NEW c \in Clients, WriteSpaces(c) \/ WriteFlow(c)
       PROVE  Rest
  BY <1>12, WriteSpacesKeeps, WriteFlowKeeps
<1>13. ASSUME RepoChanges \/ UNCHANGED storesVars
       PROVE  Rest
  <2>1. /\ job' = job /\ target' = target /\ step' = step /\ read' = read /\ spaces' = spaces
        /\ flows' = flows /\ line' = line /\ flowLine' = flowLine
    BY <1>13 DEF RepoChanges, storesVars
  <2>2. InLine(line, SpaceJobs)' /\ InLine(flowLine, FileJobs)'
    BY <1>0, <2>1 DEF InLine, Waits, Heads
  <2>3. Targets' /\ ReadsCount'
    BY <2>1 DEF KeptInv, Targets, ReadsCount
  <2>4. (\A w \in Workspaces : SpaceKept(w)') /\ (\A f \in Flows : FlowKept(f)')
    BY <2>1 DEF KeptInv, SpaceKept, FlowKept, Told
  <2> QED
    BY <2>2, <2>3, <2>4
<1>14. Rest
  <2> HIDE DEF Rest
  <2> QED
    BY <1>1, <1>2, <1>3, <1>4, <1>5, <1>6, <1>7, <1>8, <1>9, <1>10, <1>11, <1>12, <1>13
       DEF StoresNext
<1> QED
  BY <1>0, <1>14 DEF KeptInv

LEMMA KeptInvariant ==
    StoresSpec => []KeptInv
  BY StoresStart, KeptNext, PTL DEF StoresSpec

(* What a request was told is done stays so until another one changes it,    *)
(* for any number of clients (enqueue, mutate, createWorkflow).              *)
THEOREM NothingLostHolds ==
    StoresSpec => []NothingLost
<1>1. ASSUME KeptInv PROVE NothingLost
  <2>1. ASSUME NEW w \in Workspaces
        PROVE  /\ Asked({"delete"}, w) = {} =>
                      /\ Confirmed("create", w) # {} => spaces[w] # Absent
                      /\ Confirmed("rename", w) # {} => spaces[w].name # "first"
                      /\ Confirmed("last", w) # {} /\ spaces[w] # Absent => spaces[w].last
               /\ Confirmed("delete", w) # {} => spaces[w] = Absent
    <3>1. SpaceKept(w)
      BY <1>1 DEF KeptInv
    <3>2. \A kind : \A c \in Confirmed(kind, w) : c \in Clients /\ Told(kind, w, c)
      BY DEF Confirmed, Told
    <3>3. ASSUME Asked({"delete"}, w) = {} PROVE \A c \in Clients : ~Told("delete", w, c)
      BY <3>3 DEF Asked, Told
    <3> QED
      BY <3>1, <3>2, <3>3 DEF SpaceKept
  <2>2. ASSUME NEW f \in Flows, NEW c \in Confirmed("copy", f), Asked({"edit", "drop"}, f) = {}
        PROVE  flows[f] = c
    <3>1. FlowKept(f)
      BY <1>1 DEF KeptInv
    <3>2. \A d \in Clients : ~Told("edit", f, d) /\ ~Told("drop", f, d)
      BY <2>2 DEF Asked, Told
    <3>3. c \in Clients /\ Told("copy", f, c)
      BY DEF Confirmed, Told
    <3> QED
      BY <3>1, <3>2, <3>3 DEF FlowKept
  <2> QED
    BY <2>1, <2>2 DEF NothingLost
<1> QED
  BY <1>1, KeptInvariant, PTL

------------------------------------------------------------------------------
(* The store of the runs. A run is closed when whatever is on disk of it, or *)
(* on its way there, as working is followed by a save of how it ended.       *)
RunStatuses == TerminalStates \cup Open \cup {"none"}
Operation == [by : {"exec", "mut", "delete"}, run : Runs, st : RunStatuses, pid : BOOLEAN]
Writes(i, r) == queue[i].by \in Saves /\ queue[i].run = r
Closed(r) ==
    /\ \A i \in DOMAIN queue : Writes(i, r) /\ queue[i].st \in Open =>
          \E j \in DOMAIN queue : j > i /\ Writes(j, r) /\ queue[j].st \notin Open
    /\ disk[r].st \in Open => \E j \in DOMAIN queue : Writes(j, r) /\ queue[j].st \notin Open

RunFits(r) ==
    /\ live[r] \in Open => execution[r] # "off" \/ mutation[r] # "none"
    /\ execution[r] # "off" => live[r] \in {"running"} \cup TerminalStates
    /\ execution[r] \in {"end", "finish", "failing", "final"} => live[r] \in TerminalStates
    /\ mutation[r] = "abort" => live[r] \in TerminalStates

(* A run none of whose saves failed: one that is not working in memory is    *)
(* closed, one that is working is executed or in the hands of a mutation,    *)
(* and so is one that waits for a save.                                      *)
RunHolds(r) == r \notin struck =>
    /\ live[r] \notin Open => Closed(r)
    /\ Awaiting("exec", r) => execution[r] # "off"
    /\ Awaiting("mut", r) => mutation[r] # "none"
    /\ RunFits(r)

StoreTyped ==
    /\ live \in [Runs -> RunStatuses] /\ disk \in [Runs -> [st : RunStatuses, pid : BOOLEAN]]
    /\ execution \in [Runs -> {"off", "begin", "spawn", "child", "ended", "finish", "failing",
                               "end", "final"}]
    /\ mutation \in [Runs -> {"none", "create", "abort", "retry"}]
    /\ child \in [Runs -> {"none", "own", "signalled", "orphan", "lost"}]
    /\ queue \in Seq(Operation) /\ born \in Seq(Runs)
Working == server = "up" => \A r \in Runs : RunHolds(r)
AtRest  == server # "up" => /\ queue = <<>>
                           /\ \A r \in Runs : execution[r] = "off" /\ mutation[r] = "none"
HeadWritten ==
    phase = "written" =>
        queue # <<>> /\ Head(queue).by \in Saves /\ disk[Head(queue).run].st = Head(queue).st
Unborn(r) == \A i \in DOMAIN born : born[i] # r
NothingUnborn ==
    /\ \A r \in Runs : Unborn(r) =>
          execution[r] = "off" /\ live[r] = "none" /\ mutation[r] = "none" /\ disk[r].st = "none"
    /\ \A i \in DOMAIN queue : ~Unborn(queue[i].run)
OrphansFound ==
    \A r \in Runs : child[r] = "orphan" => server # "up" /\ Findable(r) /\ live[r] = "none"
StoreInv == StoreTyped /\ Working /\ AtRest /\ HeadWritten /\ NothingUnborn /\ OrphansFound

-----------------------------------------------------------------------------
(* Pruning leaves a run as it is, or takes one that has ended away.          *)
LEMMA PrunedRuns ==
    ASSUME NEW d, NEW r \in Runs
    PROVE  Pruned(d)[r] = d[r] \/ (Pruned(d)[r] = NoRun /\ d[r].st \in TerminalStates)
<1>1. r \in Victims(d) => d[r].st \in TerminalStates
  BY DEF Victims
<1> QED
  BY <1>1 DEF Pruned

LEMMA PrunedTyped ==
    ASSUME NEW d \in [Runs -> [st : RunStatuses, pid : BOOLEAN]]
    PROVE  Pruned(d) \in [Runs -> [st : RunStatuses, pid : BOOLEAN]]
<1>1. NoRun \in [st : RunStatuses, pid : BOOLEAN]
  BY DEF NoRun, RunStatuses
<1> QED
  BY <1>1 DEF Pruned

(* A step that calls saveRun, or asks for a deletion.                        *)
LEMMA Joins ==
    ASSUME queue \in Seq(Operation), NEW op, queue' = Append(queue, op)
    PROVE  /\ queue' # <<>> /\ (queue # <<>> => Head(queue') = Head(queue))
           /\ \A i \in DOMAIN queue' : queue'[i] = op \/ (i \in DOMAIN queue /\ queue'[i] = queue[i])
           /\ \A i \in DOMAIN queue : i \in DOMAIN queue' /\ queue'[i] = queue[i]
           /\ \E n \in DOMAIN queue' : n \in Nat /\ queue'[n] = op /\ \A i \in DOMAIN queue : i \in Nat /\ n > i
<1>0. PICK n \in Nat : n = Len(queue) + 1
  BY LenProperties
<1>1. /\ DOMAIN queue = 1..(n - 1) /\ DOMAIN queue' = 1..n /\ queue'[n] = op
      /\ \A i \in 1..(n - 1) : queue'[i] = queue[i]
      /\ queue' # <<>> /\ (queue # <<>> => Head(queue') = Head(queue))
  BY <1>0, AppendProperties
<1> QED
  BY <1>1

LEMMA JoinsWaits ==
    ASSUME queue \in Seq(Operation), NEW op, queue' = Append(queue, op), NEW r, NEW by
    PROVE  Awaiting(by, r)' <=> (Awaiting(by, r) \/ (op.by = by /\ op.run = r))
  BY Joins DEF Awaiting

LEMMA JoinsClosed ==
    ASSUME queue \in Seq(Operation), NEW op, queue' = Append(queue, op), disk' = disk, NEW r \in Runs,
           \/ ~(op.by \in Saves /\ op.run = r) /\ Closed(r)
           \/ op.by \in Saves /\ op.run = r /\ op.st \notin Open
    PROVE  Closed(r)'
<1>1. CASE ~(op.by \in Saves /\ op.run = r) /\ Closed(r)
  <2>1. ASSUME NEW i \in DOMAIN queue', Writes(i, r)', queue'[i].st \in Open
        PROVE  \E j \in DOMAIN queue' : j > i /\ Writes(j, r)' /\ queue'[j].st \notin Open
    <3>1. i \in DOMAIN queue /\ Writes(i, r) /\ queue[i].st \in Open
      BY <1>1, <2>1, Joins DEF Writes
    <3>2. PICK j \in DOMAIN queue : j > i /\ Writes(j, r) /\ queue[j].st \notin Open
      BY <1>1, <3>1 DEF Closed
    <3> QED
      BY <3>2, Joins DEF Writes
  <2>2. ASSUME disk[r].st \in Open
        PROVE  \E j \in DOMAIN queue' : Writes(j, r)' /\ queue'[j].st \notin Open
    <3>1. PICK j \in DOMAIN queue : Writes(j, r) /\ queue[j].st \notin Open
      BY <1>1, <2>2 DEF Closed
    <3> QED
      BY <3>1, Joins DEF Writes
  <2> QED
    BY <2>1, <2>2 DEF Closed
<1>2. CASE op.by \in Saves /\ op.run = r /\ op.st \notin Open
  <2>1. PICK n \in DOMAIN queue' :
          n \in Nat /\ queue'[n] = op /\ \A i \in DOMAIN queue : i \in Nat /\ n > i
    BY Joins
  <2>2. Writes(n, r)' /\ queue'[n].st \notin Open
    BY <1>2, <2>1 DEF Writes
  <2>3. ASSUME NEW i \in DOMAIN queue', queue'[i].st \in Open PROVE n > i
    BY <1>2, <2>1, <2>3, Joins
  <2> QED
    BY <2>1, <2>2, <2>3 DEF Closed
<1> QED
  BY <1>1, <1>2

(* The head of the queue is done.                                            *)
LEMMA Leaves ==
    ASSUME queue \in Seq(Operation), queue # <<>>, NEW rest, rest = Tail(queue)
    PROVE  /\ rest \in Seq(Operation)
           /\ \A i \in DOMAIN rest : i + 1 \in DOMAIN queue /\ rest[i] = queue[i + 1]
           /\ \A i \in DOMAIN queue : i = 1 \/ (i - 1 \in DOMAIN rest /\ queue[i] = rest[i - 1])
           /\ queue[1] = Head(queue) /\ 1 \in DOMAIN queue
           /\ DOMAIN queue \subseteq Nat /\ DOMAIN rest \subseteq Nat
<1>1. /\ Len(queue) \in Nat /\ Len(queue) > 0 /\ rest \in Seq(Operation)
      /\ Len(rest) = Len(queue) - 1 /\ DOMAIN rest = 1..Len(rest) /\ DOMAIN queue = 1..Len(queue)
      /\ \A i \in 1..Len(rest) : rest[i] = queue[i + 1]
      /\ queue[1] = Head(queue)
  BY HeadTailProperties
<1> QED
  BY <1>1

LEMMA HeadGone ==
    ASSUME queue \in Seq(Operation), queue # <<>>, NEW r \in Runs,
           \A i \in DOMAIN queue' : queue'[i].run = r => i + 1 \in DOMAIN queue /\ queue'[i] = queue[i + 1],
           \A i \in DOMAIN queue : i = 1 \/ (i - 1 \in DOMAIN queue' /\ queue'[i - 1] = queue[i]),
           DOMAIN queue' \subseteq Nat
    PROVE  /\ \A by : Awaiting(by, r)' => Awaiting(by, r)
           /\ /\ Closed(r) /\ (disk'[r].st \in Open => disk[r].st \in Open)
              /\ Writes(1, r) => disk[r].st = queue[1].st
              => Closed(r)'
<1>1. DOMAIN queue \subseteq Nat /\ 1 \in DOMAIN queue
  BY Leaves
<1>2. \A by : Awaiting(by, r)' => Awaiting(by, r)
  BY DEF Awaiting
<1>3. ASSUME Closed(r), disk'[r].st \in Open => disk[r].st \in Open,
             Writes(1, r) => disk[r].st = queue[1].st
      PROVE  Closed(r)'
  <2>1. ASSUME NEW i \in DOMAIN queue', Writes(i, r)', queue'[i].st \in Open
        PROVE  \E j \in DOMAIN queue' : j > i /\ Writes(j, r)' /\ queue'[j].st \notin Open
    <3>1. i \in Nat /\ i + 1 \in DOMAIN queue /\ Writes(i + 1, r) /\ queue[i + 1].st \in Open
      BY <2>1 DEF Writes
    <3>2. PICK j \in DOMAIN queue : j > i + 1 /\ Writes(j, r) /\ queue[j].st \notin Open
      BY <1>3, <3>1 DEF Closed
    <3>3. j \in Nat /\ j - 1 \in DOMAIN queue' /\ queue'[j - 1] = queue[j] /\ j - 1 > i
      BY <1>1, <3>1, <3>2
    <3>4. Writes(j - 1, r)' /\ queue'[j - 1].st \notin Open
      BY <3>2, <3>3 DEF Writes
    <3> QED
      BY <3>3, <3>4
  <2>2. ASSUME disk'[r].st \in Open
        PROVE  \E j \in DOMAIN queue' : Writes(j, r)' /\ queue'[j].st \notin Open
    <3>1. PICK j \in DOMAIN queue : Writes(j, r) /\ queue[j].st \notin Open
      BY <1>3, <2>2 DEF Closed
    <3>2. j # 1
      BY <1>3, <2>2, <3>1
    <3>3. j - 1 \in DOMAIN queue' /\ queue'[j - 1] = queue[j]
      BY <3>2
    <3> QED
      BY <3>1, <3>3 DEF Writes
  <2> QED
    BY <2>1, <2>2 DEF Closed
<1> QED
  BY <1>2, <1>3

-----------------------------------------------------------------------------
LEMMA StoreStart ==
    ASSUME StoreInit PROVE StoreInv
<1>1. born \in Seq(Runs)
  <2>1. Old \subseteq Runs /\ IsFiniteSet(Old) /\ Cardinality(Old) \in Nat
    BY StoreAssumption, FS_Subset, FS_CardinalityType DEF StoreAssumption
  <2>2. born \in [1..Cardinality(Old) -> Old]
    BY DEF StoreInit, Orders
  <2> QED
    BY <2>1, <2>2
<1>2. disk \in [Runs -> [st : RunStatuses, pid : BOOLEAN]] /\ \A r \in Runs : disk[r].st \in {"none", "done"}
  BY DEF StoreInit, NoRun, RunStatuses, TerminalStates
<1>3. StoreTyped
  BY <1>1, <1>2 DEF StoreInit, StoreTyped, RunStatuses
<1>4. Working
  <2>1. ASSUME NEW r \in Runs PROVE RunHolds(r)
    <3>1. queue = <<>> /\ DOMAIN queue = {} /\ live[r] = "none" /\ execution[r] = "off" /\ mutation[r] = "none"
      BY DEF StoreInit
    <3>2. Closed(r)
      BY <1>2, <3>1 DEF Closed, Open
    <3>3. ~Awaiting("exec", r) /\ ~Awaiting("mut", r)
      BY <3>1 DEF Awaiting
    <3>4. RunFits(r)
      BY <3>1 DEF RunFits, Open
    <3> QED
      BY <3>1, <3>2, <3>3, <3>4 DEF RunHolds
  <2> QED
    BY <2>1 DEF Working
<1>5. AtRest /\ HeadWritten /\ OrphansFound
  BY DEF StoreInit, AtRest, HeadWritten, OrphansFound
<1>6. NothingUnborn
  <2>1. ASSUME NEW r \in Old PROVE ~Unborn(r)
    <3>1. IsFiniteSet(Old) /\ Cardinality(Old) \in Nat
      BY StoreAssumption, FS_Subset, FS_CardinalityType DEF StoreAssumption
    <3>2. born \in [1..Cardinality(Old) -> Old] /\ IsInjective(born)
      BY DEF StoreInit, Orders
    <3>3. born \in Surjection(1..Cardinality(Old), Old)
      <4>1. born \in Injection(1..Cardinality(Old), Old)
        BY <3>2 DEF Injection
      <4>2. Cardinality(1..Cardinality(Old)) = Cardinality(Old)
        BY <3>1, FS_Interval
      <4> QED
        BY <3>1, <4>1, <4>2, FS_Injection
    <3> QED
      BY <3>2, <3>3 DEF Unborn, Surjection
  <2>2. ASSUME NEW r \in Runs, Unborn(r)
        PROVE  execution[r] = "off" /\ live[r] = "none" /\ mutation[r] = "none" /\ disk[r].st = "none"
    BY <2>1, <2>2 DEF StoreInit, NoRun
  <2>3. DOMAIN queue = {}
    BY DEF StoreInit
  <2> QED
    BY <2>2, <2>3 DEF NothingUnborn
<1> QED
  BY <1>3, <1>4, <1>5, <1>6 DEF StoreInv

-----------------------------------------------------------------------------
(* A step about one run while the server is up; it may queue one operation.  *)
LEMMA UpStep ==
    ASSUME StoreInv, NEW r \in Runs, server = "up", UNCHANGED <<server, disk, phase, struck>>,
           StoreTyped', RunHolds(r)',
           \A x \in Runs \ {r} : /\ live'[x] = live[x] /\ execution'[x] = execution[x]
                                /\ mutation'[x] = mutation[x],
           queue' = queue \/ \E op \in Operation : op.run = r /\ queue' = Append(queue, op),
           born' = born \/ born' = Append(born, r), ~Unborn(r)',
           \A x \in Runs : child'[x] = "orphan" => child[x] = "orphan"
    PROVE  StoreInv'
<1>1. /\ StoreTyped /\ (\A x \in Runs : RunHolds(x)) /\ HeadWritten /\ NothingUnborn /\ OrphansFound
      /\ queue \in Seq(Operation) /\ born \in Seq(Runs) /\ disk' = disk
  BY DEF StoreInv, Working, StoreTyped
<1>2. ASSUME NEW x \in Runs, x # r PROVE RunHolds(x)'
  <2>1. RunHolds(x)
    BY <1>1
  <2>2. /\ \A by : Awaiting(by, x)' <=> Awaiting(by, x)
        /\ Closed(x) => Closed(x)'
    <3>1. CASE queue' = queue
      BY <3>1 DEF Awaiting, Closed, Writes
    <3>2. CASE \E op \in Operation : op.run = r /\ queue' = Append(queue, op)
      <4>1. PICK op \in Operation : op.run = r /\ queue' = Append(queue, op)
        BY <3>2
      <4>2. /\ \A by : Awaiting(by, x)' <=> (Awaiting(by, x) \/ (op.by = by /\ op.run = x))
            /\ ~(op.by \in Saves /\ op.run = x) /\ Closed(x) => Closed(x)'
        <5>1. \A by : Awaiting(by, x)' <=> (Awaiting(by, x) \/ (op.by = by /\ op.run = x))
          BY <1>1, <4>1, JoinsWaits
        <5>2. ASSUME ~(op.by \in Saves /\ op.run = x), Closed(x) PROVE Closed(x)'
          BY <1>1, <4>1, <5>2, JoinsClosed
        <5> QED
          BY <5>1, <5>2
      <4> QED
        BY <1>2, <4>1, <4>2, Zenon
    <3> QED
      BY <3>1, <3>2
  <2>3. \A by : (Awaiting(by, x)' <=> Awaiting(by, x))
    BY <2>2
  <2>4. Awaiting("exec", x)' = Awaiting("exec", x) /\ Awaiting("mut", x)' = Awaiting("mut", x)
    BY <2>3, Zenon DEF Awaiting
  <2> QED
    BY <1>2, <2>1, <2>2, <2>4 DEF RunHolds, RunFits
<1>3. Working' /\ AtRest'
  BY <1>2 DEF Working, AtRest
<1>4. HeadWritten'
  <2>1. CASE queue' = queue
    BY <1>1, <2>1 DEF HeadWritten
  <2>2. CASE \E op \in Operation : op.run = r /\ queue' = Append(queue, op)
    <3>1. PICK op \in Operation : op.run = r /\ queue' = Append(queue, op)
      BY <2>2
    <3>2. queue' # <<>> /\ (queue # <<>> => Head(queue') = Head(queue))
      BY <1>1, <3>1, Joins
    <3> QED
      BY <1>1, <3>2 DEF HeadWritten
  <2> QED
    BY <2>1, <2>2
<1>5. \A x \in Runs : Unborn(x)' => x # r /\ Unborn(x)
  <2>1. CASE born' = born
    BY <2>1 DEF Unborn
  <2>2. CASE born' = Append(born, r)
    <3>1. \A i \in DOMAIN born : i \in DOMAIN born' /\ born'[i] = born[i]
      BY <1>1, <2>2, AppendProperties
    <3> QED
      BY <3>1 DEF Unborn
  <2> QED
    BY <2>1, <2>2
<1>6. NothingUnborn'
  <2>1. \A i \in DOMAIN queue' : queue'[i].run = r \/ (i \in DOMAIN queue /\ queue'[i] = queue[i])
    <3>1. CASE queue' = queue
      BY <3>1
    <3>2. CASE \E op \in Operation : op.run = r /\ queue' = Append(queue, op)
      <4>1. PICK op \in Operation : op.run = r /\ queue' = Append(queue, op)
        BY <3>2
      <4> QED
        BY <1>1, <4>1, Joins
    <3> QED
      BY <3>1, <3>2
  <2>2. \A i \in DOMAIN queue : queue[i].run \in Runs
    <3>1. \A i \in DOMAIN queue : queue[i] \in Operation
      BY <1>1
    <3> QED
      BY <3>1 DEF Operation
  <2>3. ASSUME NEW i \in DOMAIN queue'
        PROVE  \E b \in DOMAIN born' : born'[b] = queue'[i].run
    <3>1. PICK x \in Runs : x = queue'[i].run /\ ~Unborn(x)'
      <4>1. CASE queue'[i].run = r
        BY <4>1
      <4>2. CASE i \in DOMAIN queue /\ queue'[i] = queue[i]
        <5>1. queue[i].run \in Runs /\ ~Unborn(queue[i].run)
          BY <1>1, <2>2, <4>2 DEF NothingUnborn
        <5> QED
          BY <1>5, <4>2, <5>1
      <4> QED
        BY <2>1, <4>1, <4>2
    <3> QED
      BY <3>1 DEF Unborn
  <2>4. ASSUME NEW x \in Runs, Unborn(x)'
        PROVE  execution'[x] = "off" /\ live'[x] = "none" /\ mutation'[x] = "none" /\ disk'[x].st = "none"
    BY <1>1, <1>5, <2>4 DEF NothingUnborn
  <2> QED
    BY <2>3, <2>4 DEF NothingUnborn, Unborn
<1>7. OrphansFound'
  BY <1>1 DEF OrphansFound
<1> QED
  BY <1>3, <1>4, <1>6, <1>7 DEF StoreInv

-----------------------------------------------------------------------------
(* A step about one run that queues one operation, and one that queues none. *)
LEMMA SavesOp ==
    ASSUME NEW r \in Runs, NEW by \in {"exec", "mut", "delete"}, NEW st \in RunStatuses, NEW op,
           \/ op = [by |-> by, run |-> r, st |-> st, pid |-> FALSE]
           \/ op = [by |-> by, run |-> r, st |-> st, pid |-> TRUE]
    PROVE  op \in Operation /\ op.run = r /\ op.by = by /\ op.st = st
<1>1. CASE op = [by |-> by, run |-> r, st |-> st, pid |-> FALSE]
  <2>1. op \in Operation
    BY <1>1 DEF Operation
  <2> QED
    BY <1>1, <2>1
<1>2. CASE op = [by |-> by, run |-> r, st |-> st, pid |-> TRUE]
  <2>1. op \in Operation
    BY <1>2 DEF Operation
  <2> QED
    BY <1>2, <2>1
<1> QED
  BY <1>1, <1>2

Moved(r) ==
    /\ live' \in [Runs -> RunStatuses]
    /\ execution' \in [Runs -> {"off", "begin", "spawn", "child", "ended", "finish", "failing",
                                "end", "final"}]
    /\ mutation' \in [Runs -> {"none", "create", "abort", "retry"}]
    /\ child' \in [Runs -> {"none", "own", "signalled", "orphan", "lost"}]
    /\ \A x \in Runs : child'[x] = "orphan" => child[x] = "orphan"
    /\ \A x \in Runs \ {r} : /\ live'[x] = live[x] /\ execution'[x] = execution[x]
                             /\ mutation'[x] = mutation[x]

LEMMA UpSaves ==
    ASSUME StoreInv, NEW r \in Runs, server = "up", UNCHANGED <<server, disk, phase, struck>>,
           Moved(r), born' = born \/ born' = Append(born, r), ~Unborn(r)',
           NEW op \in Operation, op.run = r, queue' = Append(queue, op),
           r \notin struck =>
              /\ live'[r] \notin Open => \/ (op.by # "delete" /\ op.st \notin Open)
                                       \/ (op.by = "delete" /\ live[r] \notin Open)
              /\ Awaiting("exec", r) \/ op.by = "exec" => execution'[r] # "off"
              /\ Awaiting("mut", r) \/ op.by = "mut" => mutation'[r] # "none"
              /\ RunFits(r)'
    PROVE  StoreInv'
<1>1. /\ StoreTyped /\ queue \in Seq(Operation) /\ born \in Seq(Runs) /\ RunHolds(r)
      /\ disk' = disk /\ struck' = struck
  BY DEF StoreInv, Working, StoreTyped
<1>4. StoreTyped'
  <2>1. queue' \in Seq(Operation)
    BY <1>1, AppendProperties
  <2>2. born' \in Seq(Runs)
    <3>1. CASE born' = born
      BY <1>1, <3>1
    <3>2. CASE born' = Append(born, r)
      BY <1>1, <3>2, AppendProperties
    <3> QED
      BY <3>1, <3>2
  <2> QED
    BY <1>1, <2>1, <2>2 DEF StoreTyped, Moved
<1>5. RunHolds(r)'
  <2>1. Awaiting("exec", r)' <=> (Awaiting("exec", r) \/ op.by = "exec")
    BY <1>1, JoinsWaits
  <2>2. Awaiting("mut", r)' <=> (Awaiting("mut", r) \/ op.by = "mut")
    BY <1>1, JoinsWaits
  <2>3. ASSUME r \notin struck, live'[r] \notin Open PROVE Closed(r)'
    <3>0. op.by \in {"exec", "mut", "delete"}
      BY DEF Operation
    <3>1. CASE op.by # "delete" /\ op.st \notin Open
      BY <1>1, <3>0, <3>1, JoinsClosed DEF Saves
    <3>2. CASE op.by = "delete" /\ live[r] \notin Open
      <4>1. Closed(r) /\ op.by \notin Saves
        BY <1>1, <2>3, <3>2 DEF RunHolds, Saves
      <4> QED
        BY <1>1, <4>1, JoinsClosed
    <3> QED
      BY <2>3, <3>1, <3>2
  <2> QED
    BY <1>1, <2>1, <2>2, <2>3 DEF RunHolds
<1> QED
  BY <1>4, <1>5, UpStep DEF Moved

LEMMA UpQuiet ==
    ASSUME StoreInv, NEW r \in Runs, server = "up", UNCHANGED <<server, disk, phase, struck, queue, born>>,
           Moved(r), ~Unborn(r),
           r \notin struck =>
              /\ live'[r] \notin Open => live[r] \notin Open
              /\ Awaiting("exec", r) => execution'[r] # "off"
              /\ Awaiting("mut", r) => mutation'[r] # "none"
              /\ RunFits(r)'
    PROVE  StoreInv'
<1>1. /\ StoreTyped /\ RunHolds(r) /\ disk' = disk /\ struck' = struck /\ queue' = queue /\ born' = born
  BY DEF StoreInv, Working
<1>2. StoreTyped' /\ ~Unborn(r)'
  BY <1>1 DEF StoreTyped, Unborn, Moved
<1>3. RunHolds(r)'
  BY <1>1, <1>2 DEF RunHolds, Awaiting, Closed, Writes
<1> QED
  BY <1>1, <1>2, <1>3, UpStep DEF Moved

LEMMA RunSteps ==
    ASSUME StoreInv, NEW r \in Runs
    PROVE  /\ CreateRun(r) \/ BeginExecution(r) \/ CheckStopped(r) \/ SpawnChild(r) => StoreInv'
           /\ ChildEnds(r) \/ NodeEnds(r) \/ ExecutionEnds(r) \/ ExpireSteers(r) => StoreInv'
           /\ LeaveRun(r) \/ AbortStored(r) \/ AbortDone(r) \/ LoadForRetry(r) => StoreInv'
           /\ ReopenStored(r) \/ DeleteRun(r) => StoreInv'
<1>1. /\ StoreTyped /\ NothingUnborn /\ born \in Seq(Runs)
      /\ live = [live EXCEPT ![r] = live[r]] /\ execution = [execution EXCEPT ![r] = execution[r]]
      /\ mutation = [mutation EXCEPT ![r] = mutation[r]]
      /\ live[r] \in RunStatuses /\ disk[r].st \in RunStatuses
      /\ execution[r] \in {"off", "begin", "spawn", "child", "ended", "finish", "failing", "end", "final"}
      /\ mutation[r] \in {"none", "create", "abort", "retry"}
      /\ child \in [Runs -> {"none", "own", "signalled", "orphan", "lost"}]
      /\ server = "up" => RunHolds(r)
  BY DEF StoreInv, Working, StoreTyped
<1>2. {"created", "running", "done", "failed", "aborted", "none"} \subseteq RunStatuses
      /\ TerminalStates \subseteq RunStatuses /\ TerminalStates \cap Open = {}
      /\ "none" \notin TerminalStates \cup Open
  BY DEF RunStatuses, TerminalStates, Open
<1>3. execution[r] # "off" \/ live[r] # "none" \/ mutation[r] # "none" \/ disk[r].st # "none" => ~Unborn(r)
  BY <1>1 DEF NothingUnborn
<1>4. born' = born /\ ~Unborn(r) => ~Unborn(r)'
  BY DEF Unborn
<1>5. ASSUME CreateRun(r) PROVE StoreInv'
  <2>1. server = "up" /\ UNCHANGED <<server, disk, phase, struck>>
    BY <1>5 DEF CreateRun, ExecAt, Ending, Untouched
  <2>2. live'[r] = "created" /\ execution'[r] = execution[r] /\ mutation'[r] = "create" /\ Moved(r)
    BY <1>1, <1>2, <1>5 DEF CreateRun, StoreTyped, Moved, ExecAt, ExecGoes, Becomes, Untouched, Ending, Current, TerminalStates
  <2>3. PICK op \in Operation : /\ queue' = Append(queue, op) /\ op.run = r
                              /\ op.by = "mut" /\ op.st = "created"
    <3> DEFINE op == [by |-> "mut", run |-> r, st |-> "created", pid |-> FALSE]
    <3>1. queue' = Append(queue, op)
      BY <1>5 DEF CreateRun, Save
    <3>2. "created" \in RunStatuses
      BY <1>1, <1>2
    <3>3. op \in Operation /\ op.run = r /\ op.by = "mut" /\ op.st = "created"
      BY <3>2, SavesOp
    <3> HIDE DEF op
    <3> QED
      BY <3>1, <3>3
  <2>4. /\ born' = Append(born, r) /\ ~Unborn(r)'
        /\ execution[r] = "off"
    <3>1. born' = Append(born, r) /\ Unborn(r)
      BY <1>5 DEF CreateRun, Range, Unborn
    <3>2. Len(born) + 1 \in DOMAIN born' /\ born'[Len(born) + 1] = r
      BY <1>1, <3>1, AppendProperties
    <3>3. ~Unborn(r)'
      BY <3>2 DEF Unborn
    <3> QED
      BY <1>1, <3>1, <3>3 DEF NothingUnborn
  <2>5. r \notin struck =>
           /\ live'[r] \notin Open => \/ (op.by # "delete" /\ op.st \notin Open)
                                    \/ (op.by = "delete" /\ live[r] \notin Open)
           /\ Awaiting("exec", r) \/ op.by = "exec" => execution'[r] # "off"
           /\ Awaiting("mut", r) \/ op.by = "mut" => mutation'[r] # "none"
           /\ RunFits(r)'
    BY <1>1, <1>2, <1>5, <2>1, <2>2, <2>3, <2>4 DEF CreateRun, RunHolds, RunFits, ExecAt, Ending, TerminalStates, Open
  <2> QED
    BY <2>1, <2>2, <2>3, <2>4, <2>5, UpSaves
<1>6. ASSUME BeginExecution(r) PROVE StoreInv'
  <2>1. server = "up" /\ UNCHANGED <<server, disk, phase, struck>>
    BY <1>6 DEF BeginExecution, ExecAt, Ending, Untouched
  <2>2. live'[r] = "running" /\ execution'[r] = "begin" /\ mutation'[r] = "none" /\ Moved(r)
    BY <1>1, <1>2, <1>6 DEF BeginExecution, StoreTyped, Moved, ExecAt, ExecGoes, Becomes, Untouched, Ending, Current, TerminalStates
  <2>3. PICK op \in Operation : /\ queue' = Append(queue, op) /\ op.run = r
                              /\ op.by = "exec" /\ op.st = "running"
    <3> DEFINE op == [by |-> "exec", run |-> r, st |-> "running", pid |-> FALSE]
    <3>1. queue' = Append(queue, op)
      BY <1>6 DEF BeginExecution, Save
    <3>2. "running" \in RunStatuses
      BY <1>1, <1>2
    <3>3. op \in Operation /\ op.run = r /\ op.by = "exec" /\ op.st = "running"
      BY <3>2, SavesOp
    <3> HIDE DEF op
    <3> QED
      BY <3>1, <3>3
  <2>4. born' = born /\ ~Unborn(r) /\ ~Unborn(r)'
    BY <1>1, <1>2, <1>3, <1>4, <1>6 DEF BeginExecution, Untouched, ExecAt, Ending, Current
  <2>5. r \notin struck =>
           /\ live'[r] \notin Open => \/ (op.by # "delete" /\ op.st \notin Open)
                                    \/ (op.by = "delete" /\ live[r] \notin Open)
           /\ Awaiting("exec", r) \/ op.by = "exec" => execution'[r] # "off"
           /\ Awaiting("mut", r) \/ op.by = "mut" => mutation'[r] # "none"
           /\ RunFits(r)'
    BY <1>1, <1>2, <1>6, <2>1, <2>2, <2>3, <2>4 DEF BeginExecution, RunHolds, RunFits, ExecAt, Ending, TerminalStates, Open
  <2> QED
    BY <2>1, <2>2, <2>3, <2>4, <2>5, UpSaves
<1>7. ASSUME SpawnChild(r) PROVE StoreInv'
  <2>1. server = "up" /\ UNCHANGED <<server, disk, phase, struck>>
    BY <1>7 DEF SpawnChild, ExecAt, Ending, Untouched
  <2>2. live'[r] = live[r] /\ execution'[r] = "child" /\ mutation'[r] = mutation[r] /\ Moved(r)
    BY <1>1, <1>2, <1>7 DEF SpawnChild, StoreTyped, Moved, ExecAt, ExecGoes, Becomes, Untouched, Ending, Current, TerminalStates
  <2>3. PICK op \in Operation : /\ queue' = Append(queue, op) /\ op.run = r
                              /\ op.by = "exec" /\ op.st = live[r]
    <3> DEFINE op == [by |-> "exec", run |-> r, st |-> live[r], pid |-> TRUE]
    <3>1. queue' = Append(queue, op)
      BY <1>7 DEF SpawnChild, Save
    <3>2. live[r] \in RunStatuses
      BY <1>1, <1>2
    <3>3. op \in Operation /\ op.run = r /\ op.by = "exec" /\ op.st = live[r]
      BY <3>2, SavesOp
    <3> HIDE DEF op
    <3> QED
      BY <3>1, <3>3
  <2>4. born' = born /\ ~Unborn(r) /\ ~Unborn(r)'
    BY <1>1, <1>2, <1>3, <1>4, <1>7 DEF SpawnChild, Untouched, ExecAt, Ending, Current
  <2>5. r \notin struck =>
           /\ live'[r] \notin Open => \/ (op.by # "delete" /\ op.st \notin Open)
                                    \/ (op.by = "delete" /\ live[r] \notin Open)
           /\ Awaiting("exec", r) \/ op.by = "exec" => execution'[r] # "off"
           /\ Awaiting("mut", r) \/ op.by = "mut" => mutation'[r] # "none"
           /\ RunFits(r)'
    BY <1>1, <1>2, <1>7, <2>1, <2>2, <2>3, <2>4 DEF SpawnChild, RunHolds, RunFits, ExecAt, Ending, TerminalStates, Open
  <2> QED
    BY <2>1, <2>2, <2>3, <2>4, <2>5, UpSaves
<1>8. ASSUME ChildEnds(r) PROVE StoreInv'
  <2>1. /\ server' = server /\ live' = live /\ execution' = execution /\ mutation' = mutation
        /\ disk' = disk /\ queue' = queue /\ phase' = phase /\ born' = born /\ struck' = struck
        /\ child' = [child EXCEPT ![r] = "none"]
    BY <1>8 DEF ChildEnds, Untouched
  <2>2. StoreTyped' /\ OrphansFound'
    BY <1>1, <2>1 DEF StoreInv, StoreTyped, OrphansFound, Findable
  <2>3. Working' /\ AtRest' /\ HeadWritten' /\ NothingUnborn'
    BY <2>1 DEF StoreInv, Working, AtRest, HeadWritten, NothingUnborn, Unborn, RunHolds, RunFits,
       Closed, Writes, Awaiting
  <2> QED
    BY <2>2, <2>3 DEF StoreInv
<1>9. ASSUME NodeEnds(r) PROVE StoreInv'
  <2>1. server = "up" /\ UNCHANGED <<server, disk, phase, struck>>
    BY <1>9 DEF NodeEnds, ExecAt, Ending, Untouched
  <2>2. live'[r] = live[r] /\ execution'[r] = "ended" /\ mutation'[r] = mutation[r] /\ Moved(r)
    BY <1>1, <1>2, <1>9 DEF NodeEnds, StoreTyped, Moved, ExecAt, ExecGoes, Becomes, Untouched, Ending, Current, TerminalStates
  <2>3. PICK op \in Operation : /\ queue' = Append(queue, op) /\ op.run = r
                              /\ op.by = "exec" /\ op.st = live[r]
    <3> DEFINE op == [by |-> "exec", run |-> r, st |-> live[r], pid |-> FALSE]
    <3>1. queue' = Append(queue, op)
      BY <1>9 DEF NodeEnds, Save
    <3>2. live[r] \in RunStatuses
      BY <1>1, <1>2
    <3>3. op \in Operation /\ op.run = r /\ op.by = "exec" /\ op.st = live[r]
      BY <3>2, SavesOp
    <3> HIDE DEF op
    <3> QED
      BY <3>1, <3>3
  <2>4. born' = born /\ ~Unborn(r) /\ ~Unborn(r)'
    BY <1>1, <1>2, <1>3, <1>4, <1>9 DEF NodeEnds, Untouched, ExecAt, Ending, Current
  <2>5. r \notin struck =>
           /\ live'[r] \notin Open => \/ (op.by # "delete" /\ op.st \notin Open)
                                    \/ (op.by = "delete" /\ live[r] \notin Open)
           /\ Awaiting("exec", r) \/ op.by = "exec" => execution'[r] # "off"
           /\ Awaiting("mut", r) \/ op.by = "mut" => mutation'[r] # "none"
           /\ RunFits(r)'
    BY <1>1, <1>2, <1>9, <2>1, <2>2, <2>3, <2>4 DEF NodeEnds, RunHolds, RunFits, ExecAt, Ending, TerminalStates, Open
  <2> QED
    BY <2>1, <2>2, <2>3, <2>4, <2>5, UpSaves
<1>10. ASSUME ExpireSteers(r) PROVE StoreInv'
  <2>1. server = "up" /\ UNCHANGED <<server, disk, phase, struck>>
    BY <1>10 DEF ExpireSteers, ExecAt, Ending, Untouched
  <2>2. live'[r] = live[r] /\ execution'[r] = "final" /\ mutation'[r] = mutation[r] /\ Moved(r)
    BY <1>1, <1>2, <1>10 DEF ExpireSteers, StoreTyped, Moved, ExecAt, ExecGoes, Becomes, Untouched, Ending, Current, TerminalStates
  <2>3. PICK op \in Operation : /\ queue' = Append(queue, op) /\ op.run = r
                              /\ op.by = "exec" /\ op.st = live[r]
    <3> DEFINE op == [by |-> "exec", run |-> r, st |-> live[r], pid |-> FALSE]
    <3>1. queue' = Append(queue, op)
      BY <1>10 DEF ExpireSteers, Save
    <3>2. live[r] \in RunStatuses
      BY <1>1, <1>2
    <3>3. op \in Operation /\ op.run = r /\ op.by = "exec" /\ op.st = live[r]
      BY <3>2, SavesOp
    <3> HIDE DEF op
    <3> QED
      BY <3>1, <3>3
  <2>4. born' = born /\ ~Unborn(r) /\ ~Unborn(r)'
    BY <1>1, <1>2, <1>3, <1>4, <1>10 DEF ExpireSteers, Untouched, ExecAt, Ending, Current
  <2>5. r \notin struck =>
           /\ live'[r] \notin Open => \/ (op.by # "delete" /\ op.st \notin Open)
                                    \/ (op.by = "delete" /\ live[r] \notin Open)
           /\ Awaiting("exec", r) \/ op.by = "exec" => execution'[r] # "off"
           /\ Awaiting("mut", r) \/ op.by = "mut" => mutation'[r] # "none"
           /\ RunFits(r)'
    BY <1>1, <1>2, <1>10, <2>1, <2>2, <2>3, <2>4 DEF ExpireSteers, RunHolds, RunFits, ExecAt, Ending, TerminalStates, Open
  <2> QED
    BY <2>1, <2>2, <2>3, <2>4, <2>5, UpSaves
<1>11. ASSUME AbortDone(r) PROVE StoreInv'
  <2>1. server = "up" /\ UNCHANGED <<server, disk, phase, struck>>
    BY <1>11 DEF AbortDone, ExecAt, Ending, Untouched
  <2>2. live'[r] = "none" /\ execution'[r] = execution[r] /\ mutation'[r] = "none" /\ Moved(r)
    BY <1>1, <1>2, <1>11 DEF AbortDone, StoreTyped, Moved, ExecAt, ExecGoes, Becomes, Untouched, Ending, Current, TerminalStates
  <2>3. queue' = queue
    BY <1>11 DEF AbortDone
  <2>4. born' = born /\ ~Unborn(r) /\ ~Unborn(r)'
    BY <1>1, <1>2, <1>3, <1>4, <1>11 DEF AbortDone, Untouched, ExecAt, Ending, Current
  <2>5. r \notin struck =>
           /\ live'[r] \notin Open => live[r] \notin Open
           /\ Awaiting("exec", r) => execution'[r] # "off"
           /\ Awaiting("mut", r) => mutation'[r] # "none"
           /\ RunFits(r)'
    BY <1>1, <1>2, <1>11, <2>1, <2>2, <2>3, <2>4 DEF AbortDone, RunHolds, RunFits, ExecAt, Ending, TerminalStates, Open
  <2> QED
    BY <2>1, <2>2, <2>3, <2>4, <2>5, UpQuiet
<1>12. ASSUME DeleteRun(r) PROVE StoreInv'
  <2>1. server = "up" /\ UNCHANGED <<server, disk, phase, struck>>
    BY <1>12 DEF DeleteRun, ExecAt, Ending, Untouched
  <2>2. live'[r] = live[r] /\ execution'[r] = execution[r] /\ mutation'[r] = mutation[r] /\ Moved(r)
    BY <1>1, <1>2, <1>12 DEF DeleteRun, StoreTyped, Moved, ExecAt, ExecGoes, Becomes, Untouched, Ending, Current, TerminalStates
  <2>3. PICK op \in Operation : /\ queue' = Append(queue, op) /\ op.run = r
                              /\ op.by = "delete" /\ op.st = "none"
    <3> DEFINE op == [by |-> "delete", run |-> r, st |-> "none", pid |-> FALSE]
    <3>1. queue' = Append(queue, op)
      BY <1>12 DEF DeleteRun, Save
    <3>2. "none" \in RunStatuses
      BY <1>1, <1>2
    <3>3. op \in Operation /\ op.run = r /\ op.by = "delete" /\ op.st = "none"
      BY <3>2, SavesOp
    <3> HIDE DEF op
    <3> QED
      BY <3>1, <3>3
  <2>4. born' = born /\ ~Unborn(r) /\ ~Unborn(r)'
    BY <1>1, <1>2, <1>3, <1>4, <1>12 DEF DeleteRun, Untouched, ExecAt, Ending, Current
  <2>5. r \notin struck =>
           /\ live'[r] \notin Open => \/ (op.by # "delete" /\ op.st \notin Open)
                                    \/ (op.by = "delete" /\ live[r] \notin Open)
           /\ Awaiting("exec", r) \/ op.by = "exec" => execution'[r] # "off"
           /\ Awaiting("mut", r) \/ op.by = "mut" => mutation'[r] # "none"
           /\ RunFits(r)'
    BY <1>1, <1>2, <1>12, <2>1, <2>2, <2>3, <2>4 DEF DeleteRun, RunHolds, RunFits, ExecAt, Ending, TerminalStates, Open
  <2> QED
    BY <2>1, <2>2, <2>3, <2>4, <2>5, UpSaves
<1>13. ASSUME CheckStopped(r) PROVE StoreInv'
  <2>1. server = "up" /\ UNCHANGED <<server, disk, phase, struck, queue, born>>
    BY <1>13 DEF CheckStopped, ExecAt, Untouched
  <2>2. /\ live' = live /\ mutation' = mutation /\ execution[r] = "begin" /\ Moved(r) /\ ~Unborn(r)
        /\ execution'[r] = IF live[r] = "running" THEN "spawn" ELSE "end"
    BY <1>1, <1>3, <1>13 DEF CheckStopped, StoreTyped, Moved, ExecAt, ExecGoes
  <2>3. r \notin struck => /\ execution'[r] # "off" /\ RunFits(r)'
                           /\ Awaiting("mut", r) => mutation'[r] # "none"
    BY <1>1, <1>2, <2>1, <2>2 DEF RunHolds, RunFits
  <2> QED
    BY <2>1, <2>2, <2>3, UpQuiet
<1>14. ASSUME ExecutionEnds(r) PROVE StoreInv'
  <2>1. server = "up" /\ UNCHANGED <<server, disk, phase, struck, born>>
    BY <1>14 DEF ExecutionEnds, ExecAt, Untouched
  <2>2. execution[r] = "ended" /\ mutation' = mutation /\ ~Unborn(r) /\ ~Unborn(r)'
    BY <1>3, <1>4, <1>14 DEF ExecutionEnds, ExecAt, Untouched
  <2>3. CASE live[r] = "running"
    <3>1. live'[r] = "done" /\ execution'[r] = "finish" /\ Moved(r)
      <4>1. /\ live' = [live EXCEPT ![r] = "done"] /\ execution' = [execution EXCEPT ![r] = "finish"]
            /\ mutation' = mutation /\ child' = child
        BY <1>14, <2>3 DEF ExecutionEnds, ExecGoes, Becomes
      <4> QED
        BY <1>1, <1>2, <4>1 DEF StoreTyped, Moved
    <3>2. PICK op \in Operation : /\ queue' = Append(queue, op) /\ op.run = r
                                /\ op.by = "exec" /\ op.st = "done"
      <4> DEFINE op == [by |-> "exec", run |-> r, st |-> "done", pid |-> FALSE]
      <4>1. queue' = Append(queue, op)
        BY <1>14, <2>3 DEF ExecutionEnds, Save
      <4>2. op \in Operation /\ op.run = r /\ op.by = "exec" /\ op.st = "done"
        BY <1>2, SavesOp
      <4> HIDE DEF op
      <4> QED
        BY <4>1, <4>2
    <3>3. r \notin struck =>
             /\ live'[r] \notin Open => \/ (op.by # "delete" /\ op.st \notin Open)
                                      \/ (op.by = "delete" /\ live[r] \notin Open)
             /\ Awaiting("exec", r) \/ op.by = "exec" => execution'[r] # "off"
             /\ Awaiting("mut", r) \/ op.by = "mut" => mutation'[r] # "none"
             /\ RunFits(r)'
      <4>1. RunFits(r)'
        BY <3>1 DEF RunFits, TerminalStates, Open
      <4>2. op.st \notin Open /\ op.by # "delete" /\ op.by # "mut"
        BY <3>2 DEF Open
      <4>3. r \notin struck /\ Awaiting("mut", r) => mutation[r] # "none"
        BY <1>1, <2>1 DEF RunHolds
      <4> QED
        BY <2>2, <3>1, <4>1, <4>2, <4>3
    <3> QED
      BY <2>1, <2>2, <3>1, <3>2, <3>3, UpSaves
  <2>4. CASE live[r] # "running"
    <3>1. live' = live /\ execution'[r] = "end" /\ queue' = queue /\ Moved(r)
      BY <1>1, <1>14, <2>4 DEF ExecutionEnds, StoreTyped, Moved, ExecGoes
    <3>2. r \notin struck => /\ execution'[r] # "off" /\ RunFits(r)'
                             /\ Awaiting("mut", r) => mutation'[r] # "none"
      BY <1>1, <1>2, <2>1, <2>2, <2>4, <3>1 DEF RunHolds, RunFits
    <3> QED
      BY <2>1, <2>2, <3>1, <3>2, UpQuiet
  <2> QED
    BY <2>3, <2>4
<1>15. ASSUME LeaveRun(r) PROVE StoreInv'
  <2>1. server = "up" /\ UNCHANGED <<server, disk, phase, struck, queue, born>>
    BY <1>15 DEF LeaveRun, ExecAt, Ending, Untouched
  <2>2. /\ execution[r] \in {"end", "finish", "failing", "final"} /\ ~Awaiting("exec", r)
        /\ live'[r] = (IF mutation[r] = "none" THEN "none" ELSE live[r]) /\ execution'[r] = "off"
        /\ mutation' = mutation /\ Moved(r) /\ ~Unborn(r)
    BY <1>1, <1>2, <1>3, <1>15 DEF LeaveRun, StoreTyped, Moved, ExecAt, ExecGoes, Becomes, Ending
  <2>3. r \notin struck => /\ live[r] \notin Open /\ RunFits(r)'
                           /\ Awaiting("mut", r) => mutation'[r] # "none"
    BY <1>1, <1>2, <2>1, <2>2 DEF RunHolds, RunFits
  <2> QED
    BY <2>1, <2>2, <2>3, UpQuiet
<1>16. ASSUME AbortStored(r) PROVE StoreInv'
  <2>1. server = "up" /\ UNCHANGED <<server, disk, phase, struck, born>>
    BY <1>16 DEF AbortStored, Untouched
  <2>2. /\ live'[r] = "aborted" /\ execution' = execution /\ mutation'[r] = "abort" /\ Moved(r)
        /\ ~Unborn(r) /\ ~Unborn(r)'
    BY <1>1, <1>2, <1>3, <1>4, <1>16, <2>1 DEF AbortStored, StoreTyped, Moved, Becomes, Current, Signalled
  <2>3. PICK op \in Operation : /\ queue' = Append(queue, op) /\ op.run = r
                              /\ op.by = "mut" /\ op.st = "aborted"
    <3> DEFINE op(p) == [by |-> "mut", run |-> r, st |-> "aborted", pid |-> p]
    <3>1. /\ op(TRUE) \in Operation /\ op(TRUE).run = r /\ op(TRUE).by = "mut" /\ op(TRUE).st = "aborted"
          /\ op(FALSE) \in Operation /\ op(FALSE).run = r /\ op(FALSE).by = "mut" /\ op(FALSE).st = "aborted"
      BY <1>2 DEF Operation
    <3>2. queue' = Append(queue, op(r \in pid))
      BY <1>16 DEF AbortStored, Save
    <3>3. (r \in pid) = TRUE \/ (r \in pid) = FALSE
      OBVIOUS
    <3>4. queue' = Append(queue, op(TRUE)) \/ queue' = Append(queue, op(FALSE))
      BY <3>2, <3>3, Zenon
    <3> HIDE DEF op
    <3> QED
      BY <3>1, <3>4
  <2>4. r \notin struck =>
           /\ live'[r] \notin Open => \/ (op.by # "delete" /\ op.st \notin Open)
                                    \/ (op.by = "delete" /\ live[r] \notin Open)
           /\ Awaiting("exec", r) \/ op.by = "exec" => execution'[r] # "off"
           /\ Awaiting("mut", r) \/ op.by = "mut" => mutation'[r] # "none"
           /\ RunFits(r)'
    <3>1. RunFits(r)'
      BY <2>2 DEF RunFits, TerminalStates, Open
    <3>2. op.st \notin Open /\ op.by # "delete" /\ op.by # "exec"
      BY <2>3 DEF Open
    <3>3. r \notin struck /\ Awaiting("exec", r) => execution[r] # "off"
      BY <1>1, <2>1 DEF RunHolds
    <3> QED
      BY <2>2, <3>1, <3>2, <3>3
  <2> QED
    BY <2>1, <2>2, <2>3, <2>4, UpSaves
<1>17. ASSUME LoadForRetry(r) PROVE StoreInv'
  <2>1. server = "up" /\ UNCHANGED <<server, disk, phase, struck, queue, born>>
    BY <1>17 DEF LoadForRetry
  <2>2. /\ live'[r] = Current(r) /\ Current(r) \in TerminalStates /\ execution' = execution
        /\ mutation'[r] = "retry" /\ Moved(r) /\ ~Unborn(r) /\ (live[r] = "none" \/ live[r] = Current(r))
    BY <1>1, <1>2, <1>3, <1>17 DEF LoadForRetry, StoreTyped, Moved, Becomes, Current
  <2>3. r \notin struck => /\ live[r] \notin Open /\ RunFits(r)'
                           /\ Awaiting("exec", r) => execution'[r] # "off"
    BY <1>1, <1>2, <2>1, <2>2 DEF RunHolds, RunFits
  <2> QED
    BY <2>1, <2>2, <2>3, UpQuiet
<1>18. ASSUME ReopenStored(r) PROVE StoreInv'
  <2>1. server = "up" /\ UNCHANGED <<server, disk, phase, struck, born>>
    BY <1>18 DEF ReopenStored, Untouched
  <2>2. /\ execution' = execution /\ execution[r] = "off" /\ mutation[r] = "retry"
        /\ live[r] \in TerminalStates /\ ~Awaiting("mut", r) /\ ~Unborn(r) /\ ~Unborn(r)'
    BY <1>3, <1>4, <1>18, <2>1 DEF ReopenStored
  <2>3. CASE Becomes(r, "running") /\ Save("mut", r, "running", FALSE) /\ UNCHANGED mutation
    <3>1. live'[r] = "running" /\ mutation' = mutation /\ Moved(r)
      BY <1>1, <1>2, <1>18, <2>2, <2>3 DEF ReopenStored, StoreTyped, Moved, Becomes
    <3>2. PICK op \in Operation : /\ queue' = Append(queue, op) /\ op.run = r
                                /\ op.by = "mut" /\ op.st = "running"
      <4> DEFINE op == [by |-> "mut", run |-> r, st |-> "running", pid |-> FALSE]
      <4>1. queue' = Append(queue, op)
        BY <2>3 DEF Save
      <4>2. op \in Operation /\ op.run = r /\ op.by = "mut" /\ op.st = "running"
        BY <1>2, SavesOp
      <4> HIDE DEF op
      <4> QED
        BY <4>1, <4>2
    <3>3. r \notin struck =>
             /\ live'[r] \notin Open => \/ (op.by # "delete" /\ op.st \notin Open)
                                      \/ (op.by = "delete" /\ live[r] \notin Open)
             /\ Awaiting("exec", r) \/ op.by = "exec" => execution'[r] # "off"
             /\ Awaiting("mut", r) \/ op.by = "mut" => mutation'[r] # "none"
             /\ RunFits(r)'
      BY <1>1, <1>2, <2>1, <2>2, <3>1, <3>2 DEF RunHolds, RunFits, TerminalStates, Open
    <3> QED
      BY <2>1, <2>2, <3>1, <3>2, <3>3, UpSaves
  <2>4. CASE mutation' = [mutation EXCEPT ![r] = "none"] /\ UNCHANGED <<live, queue>>
    <3>1. live' = live /\ mutation'[r] = "none" /\ queue' = queue /\ Moved(r)
      BY <1>1, <1>18, <2>2, <2>4 DEF ReopenStored, StoreTyped, Moved
    <3>2. r \notin struck => RunFits(r)' /\ (Awaiting("exec", r) => execution'[r] # "off")
      BY <1>1, <1>2, <2>1, <2>2, <3>1 DEF RunHolds, RunFits
    <3> QED
      BY <2>1, <2>2, <3>1, <3>2, UpQuiet
  <2> QED
    BY <1>18, <2>3, <2>4 DEF ReopenStored
<1> QED
  BY <1>5, <1>6, <1>7, <1>8, <1>9, <1>10, <1>11, <1>12, <1>13, <1>14, <1>15, <1>16, <1>17, <1>18

-----------------------------------------------------------------------------
(* The head of the queue: its file is written, pruned, removed, or it fails. *)
LEMMA HeadStep ==
    ASSUME StoreInv, server = "up", UNCHANGED <<server, born, child>>, StoreTyped', HeadWritten',
           struck \subseteq struck', struck' \subseteq Runs \cup struck,
           \A x \in Runs : x \notin struck' =>
               /\ live'[x] = live[x] /\ execution'[x] = execution[x] /\ mutation'[x] = mutation[x]
               /\ Awaiting("exec", x)' => Awaiting("exec", x)
               /\ Awaiting("mut", x)' => Awaiting("mut", x)
               /\ Closed(x) => Closed(x)',
           \A x \in Runs : Unborn(x) => /\ live'[x] = "none" /\ execution'[x] = "off"
                                        /\ mutation'[x] = "none" /\ disk'[x].st = "none",
           \A i \in DOMAIN queue' : \E j \in DOMAIN queue : queue'[i].run = queue[j].run
    PROVE  StoreInv'
<1>1. /\ StoreTyped /\ (\A x \in Runs : RunHolds(x)) /\ NothingUnborn /\ OrphansFound
      /\ server' = "up" /\ born' = born /\ child' = child
  BY DEF StoreInv, Working
<1>2. ASSUME NEW x \in Runs PROVE RunHolds(x)'
  <2>1. RunHolds(x) /\ (x \notin struck' => x \notin struck)
    BY <1>1
  <2>2. x \notin struck' => (RunFits(x) => RunFits(x)')
    BY DEF RunFits
  <2> QED
    BY <2>1, <2>2 DEF RunHolds
<1>3. Working' /\ AtRest' /\ OrphansFound'
  BY <1>1, <1>2 DEF Working, AtRest, OrphansFound
<1>4. NothingUnborn'
  BY <1>1 DEF NothingUnborn, Unborn
<1> QED
  BY <1>3, <1>4 DEF StoreInv

LEMMA HeadSteps ==
    ASSUME StoreInv
    PROVE  /\ Write => StoreInv'
           /\ Prune => StoreInv'
           /\ LookBeforeDelete => StoreInv'
           /\ RemoveRun => StoreInv'
<1>1. /\ StoreTyped /\ HeadWritten /\ NothingUnborn /\ queue \in Seq(Operation)
      /\ disk \in [Runs -> [st : RunStatuses, pid : BOOLEAN]]
  BY DEF StoreInv, StoreTyped
<1>2. ASSUME queue # <<>>
      PROVE  /\ 1 \in DOMAIN queue /\ queue[1] = Head(queue) /\ Head(queue) \in Operation
             /\ Head(queue).run \in Runs /\ ~Unborn(Head(queue).run)
             /\ [st |-> Head(queue).st, pid |-> Head(queue).pid] \in [st : RunStatuses, pid : BOOLEAN]
  <2>1. 1 \in DOMAIN queue /\ queue[1] = Head(queue) /\ Head(queue) \in Operation
    BY <1>1, <1>2, Leaves
  <2>2. /\ Head(queue).run \in Runs
        /\ [st |-> Head(queue).st, pid |-> Head(queue).pid] \in [st : RunStatuses, pid : BOOLEAN]
    BY <2>1 DEF Operation
  <2> QED
    BY <1>1, <2>1, <2>2 DEF NothingUnborn
<1>3. \A x \in Runs : Unborn(x) => /\ live[x] = "none" /\ execution[x] = "off"
                                   /\ mutation[x] = "none" /\ disk[x].st = "none"
  BY <1>1 DEF NothingUnborn
<1>4. ASSUME queue # <<>>, queue' = Tail(queue), NEW x \in Runs,
             disk'[x].st \in Open => disk[x].st \in Open,
             Writes(1, x) => disk[x].st = queue[1].st
      PROVE  /\ Awaiting("exec", x)' => Awaiting("exec", x)
             /\ Awaiting("mut", x)' => Awaiting("mut", x)
             /\ Closed(x) => Closed(x)'
  <2>1. /\ \A i \in DOMAIN queue' : i + 1 \in DOMAIN queue /\ queue'[i] = queue[i + 1]
        /\ \A i \in DOMAIN queue : i = 1 \/ (i - 1 \in DOMAIN queue' /\ queue'[i - 1] = queue[i])
        /\ DOMAIN queue' \subseteq Nat
    BY <1>1, <1>4, Leaves
  <2>2. \A by : Awaiting(by, x)' => Awaiting(by, x)
    BY <1>1, <1>4, <2>1, HeadGone
  <2>3. Closed(x) => Closed(x)'
    BY <1>1, <1>4, <2>1, HeadGone
  <2> QED
    BY <2>2, <2>3
<1>5. ASSUME queue # <<>>, queue' = Tail(queue)
      PROVE  /\ queue' \in Seq(Operation)
             /\ \A i \in DOMAIN queue' : \E j \in DOMAIN queue : queue'[i].run = queue[j].run
  <2>1. /\ queue' \in Seq(Operation)
        /\ \A i \in DOMAIN queue' : i + 1 \in DOMAIN queue /\ queue'[i] = queue[i + 1]
    BY <1>1, <1>5, Leaves
  <2> QED
    BY <2>1
<1>6. ASSUME Write PROVE StoreInv'
  <2> DEFINE op == Head(queue)
  <2>1. /\ server = "up" /\ queue # <<>> /\ op.by \in Saves /\ phase' = "written"
        /\ disk' = [disk EXCEPT ![op.run] = [st |-> op.st, pid |-> op.pid]]
        /\ UNCHANGED <<server, live, pid, execution, mutation, child, born, queue, struck>>
    BY <1>6 DEF Write, AtHead, WrittenDisk, InMemory
  <2>2. op.run \in Runs /\ StoreTyped'
    BY <1>1, <1>2, <2>1 DEF StoreTyped
  <2>3. disk'[op.run].st = op.st /\ \A x \in Runs \ {op.run} : disk'[x] = disk[x]
    BY <1>1, <2>1, <2>2
  <2>4. HeadWritten'
    BY <2>1, <2>3 DEF HeadWritten
  <2>5. ASSUME NEW x \in Runs
        PROVE  /\ Awaiting("exec", x)' => Awaiting("exec", x)
               /\ Awaiting("mut", x)' => Awaiting("mut", x)
               /\ Closed(x) => Closed(x)'
    <3>1. (Awaiting("exec", x)' => Awaiting("exec", x)) /\ (Awaiting("mut", x)' => Awaiting("mut", x))
      BY <2>1 DEF Awaiting
    <3>2. CASE x # op.run
      BY <2>1, <2>3, <3>1, <3>2 DEF Closed, Writes
    <3>3. CASE x = op.run
      <4>1. Writes(1, x) /\ 1 \in DOMAIN queue /\ queue[1].st = disk'[x].st
        BY <1>2, <2>1, <2>3, <3>3 DEF Writes
      <4>2. ASSUME Closed(x) PROVE Closed(x)'
        BY <2>1, <4>1, <4>2 DEF Closed, Writes
      <4> QED
        BY <3>1, <4>2
    <3> QED
      BY <3>2, <3>3
  <2>6. \A x \in Runs : Unborn(x) => disk'[x].st = "none"
    BY <1>2, <1>3, <2>1, <2>3
  <2> HIDE DEF op
  <2> QED
    BY <1>3, <2>1, <2>2, <2>4, <2>5, <2>6, HeadStep
<1>7. ASSUME Prune PROVE StoreInv'
  <2>1. /\ server = "up" /\ queue # <<>> /\ Head(queue).by \in Saves /\ phase = "written"
        /\ phase' = "waiting" /\ disk' = Pruned(disk) /\ queue' = Tail(queue)
        /\ UNCHANGED <<server, live, pid, execution, mutation, child, born, struck>>
    BY <1>7 DEF Prune, AtHead, InMemory
  <2>2. StoreTyped' /\ HeadWritten'
    BY <1>1, <1>5, <2>1, PrunedTyped DEF StoreTyped, HeadWritten
  <2>3. \A x \in Runs : disk'[x] = disk[x] \/ disk'[x] = NoRun
    BY <2>1, PrunedRuns
  <2>4. NoRun.st = "none" /\ "none" \notin Open
    BY DEF NoRun, Open
  <2>5. ASSUME NEW x \in Runs
        PROVE  /\ Awaiting("exec", x)' => Awaiting("exec", x)
               /\ Awaiting("mut", x)' => Awaiting("mut", x)
               /\ Closed(x) => Closed(x)'
    <3>1. Writes(1, x) => disk[x].st = queue[1].st
      BY <1>1, <1>2, <2>1 DEF HeadWritten, Writes
    <3>2. disk'[x].st \in Open => disk[x].st \in Open
      BY <2>3, <2>4
    <3> QED
      BY <1>4, <2>1, <3>1, <3>2
  <2> QED
    BY <1>3, <1>5, <2>1, <2>2, <2>3, <2>4, <2>5, HeadStep
<1>8. ASSUME LookBeforeDelete PROVE StoreInv'
  <2>1. /\ server = "up" /\ queue # <<>> /\ Head(queue).by = "delete" /\ phase' \in {"cleaning", "waiting"}
        /\ queue' = Tail(queue) \/ queue' = queue
        /\ UNCHANGED <<server, live, pid, execution, mutation, child, born, struck, disk>>
    BY <1>8 DEF LookBeforeDelete, AtHead, InMemory
  <2>2. StoreTyped' /\ HeadWritten'
    <3>1. queue' \in Seq(Operation)
      BY <1>1, <1>5, <2>1
    <3> QED
      BY <1>1, <2>1, <3>1 DEF StoreTyped, HeadWritten
  <2>3. ASSUME NEW x \in Runs
        PROVE  /\ Awaiting("exec", x)' => Awaiting("exec", x)
               /\ Awaiting("mut", x)' => Awaiting("mut", x)
               /\ Closed(x) => Closed(x)'
    <3>1. CASE queue' = Tail(queue)
      <4>1. ~Writes(1, x)
        BY <1>2, <2>1 DEF Writes, Saves
      <4> QED
        BY <1>4, <2>1, <3>1, <4>1
    <3>2. CASE queue' = queue
      BY <2>1, <3>2 DEF Awaiting, Closed, Writes
    <3> QED
      BY <2>1, <3>1, <3>2
  <2>4. \A i \in DOMAIN queue' : \E j \in DOMAIN queue : queue'[i].run = queue[j].run
    BY <1>5, <2>1
  <2> QED
    BY <1>3, <2>1, <2>2, <2>3, <2>4, HeadStep
<1>9. ASSUME RemoveRun PROVE StoreInv'
  <2>1. /\ server = "up" /\ queue # <<>> /\ Head(queue).by = "delete" /\ phase' = "waiting"
        /\ queue' = Tail(queue) /\ disk' = [disk EXCEPT ![Head(queue).run] = NoRun]
        /\ UNCHANGED <<server, live, pid, execution, mutation, child, born, struck>>
    BY <1>9 DEF RemoveRun, AtHead, InMemory
  <2>2. NoRun.st = "none" /\ "none" \notin Open /\ NoRun \in [st : RunStatuses, pid : BOOLEAN]
    BY DEF NoRun, Open, RunStatuses
  <2>3. StoreTyped' /\ HeadWritten'
    <3>1. queue' \in Seq(Operation)
      BY <1>5, <2>1
    <3> QED
      BY <1>1, <2>1, <2>2, <3>1 DEF StoreTyped, HeadWritten
  <2>4. \A x \in Runs : disk'[x] = disk[x] \/ disk'[x] = NoRun
    BY <1>1, <2>1
  <2>5. ASSUME NEW x \in Runs
        PROVE  /\ Awaiting("exec", x)' => Awaiting("exec", x)
               /\ Awaiting("mut", x)' => Awaiting("mut", x)
               /\ Closed(x) => Closed(x)'
    <3>1. ~Writes(1, x)
      BY <1>2, <2>1 DEF Writes, Saves
    <3>2. disk'[x].st \in Open => disk[x].st \in Open
      BY <2>2, <2>4
    <3> QED
      BY <1>4, <2>1, <3>1, <3>2
  <2> QED
    BY <1>3, <1>5, <2>1, <2>2, <2>3, <2>4, <2>5, HeadStep
<1> QED
  BY <1>6, <1>7, <1>8, <1>9

LEMMA SaveFailsHolds ==
    ASSUME StoreInv, SaveFails PROVE StoreInv'
<1>1. /\ StoreTyped /\ HeadWritten /\ NothingUnborn /\ queue \in Seq(Operation)
  BY DEF StoreInv, StoreTyped
<1>2. /\ server = "up" /\ queue # <<>> /\ Head(queue).by \in Saves /\ phase' = "waiting"
      /\ struck' = struck \cup {Head(queue).run} /\ Fallen(Head(queue))
      /\ UNCHANGED <<server, child, disk, born>>
  BY DEF SaveFails, AtHead
<1>3. PICK r \in Runs : r = Head(queue).run /\ ~Unborn(r)
  <2>1. 1 \in DOMAIN queue /\ queue[1] = Head(queue) /\ Head(queue) \in Operation
    BY <1>1, <1>2, Leaves
  <2>2. Head(queue).run \in Runs
    BY <2>1 DEF Operation
  <2> QED
    BY <1>1, <2>1, <2>2 DEF NothingUnborn
<1> DEFINE rest == Tail(queue)
           failed == [by |-> "exec", run |-> r, st |-> "failed", pid |-> FALSE]
<1>4. /\ live' \in [Runs -> RunStatuses]
      /\ execution' \in [Runs -> {"off", "begin", "spawn", "child", "ended", "finish", "failing",
                                  "end", "final"}]
      /\ mutation' \in [Runs -> {"none", "create", "abort", "retry"}]
      /\ \A x \in Runs \ {r} : /\ live'[x] = live[x] /\ execution'[x] = execution[x]
                               /\ mutation'[x] = mutation[x]
      /\ queue' = rest \/ queue' = Append(rest, failed)
  <2>1. {"failed", "none"} \subseteq RunStatuses
    BY DEF RunStatuses, TerminalStates
  <2>2. CASE Head(queue).by = "exec" /\ execution[r] \in {"begin", "finish"} /\ live[r] = "aborted"
    <3>1. execution' = [execution EXCEPT ![r] = "end"] /\ live' = live /\ mutation' = mutation /\ queue' = rest
      BY <1>2, <1>3, <2>2 DEF Fallen, ExecGoes
    <3> QED
      BY <1>1, <3>1 DEF StoreTyped
  <2>3. CASE Head(queue).by = "exec" /\ execution[r] \in {"begin", "finish"} /\ live[r] # "aborted"
    <3>1. /\ execution' = [execution EXCEPT ![r] = "failing"] /\ live' = [live EXCEPT ![r] = "failed"]
          /\ mutation' = mutation /\ queue' = Append(rest, failed)
      BY <1>2, <1>3, <2>3 DEF Fallen, ExecGoes, Becomes
    <3> QED
      BY <1>1, <2>1, <3>1 DEF StoreTyped
  <2>4. CASE ~(Head(queue).by = "exec" /\ execution[r] \in {"begin", "finish"})
    <3>1. /\ execution' = execution /\ queue' = rest
          /\ live' = live \/ live' = [live EXCEPT ![r] = IF mutation[r] = "create" THEN "none" ELSE live[r]]
          /\ mutation' = mutation \/ mutation' = [mutation EXCEPT ![r] = "none"]
      BY <1>2, <1>3, <2>4 DEF Fallen, Becomes
    <3>2. live' \in [Runs -> RunStatuses] /\ \A x \in Runs \ {r} : live'[x] = live[x]
      BY <1>1, <2>1, <3>1 DEF StoreTyped
    <3>3. mutation' \in [Runs -> {"none", "create", "abort", "retry"}]
          /\ \A x \in Runs \ {r} : mutation'[x] = mutation[x]
      BY <1>1, <3>1 DEF StoreTyped
    <3> QED
      BY <1>1, <3>1, <3>2, <3>3 DEF StoreTyped
  <2> QED
    BY <2>2, <2>3, <2>4
<1>5. /\ rest \in Seq(Operation)
      /\ \A i \in DOMAIN rest : i + 1 \in DOMAIN queue /\ rest[i] = queue[i + 1]
      /\ \A i \in DOMAIN queue : i = 1 \/ (i - 1 \in DOMAIN rest /\ queue[i] = rest[i - 1])
      /\ queue[1] = Head(queue) /\ 1 \in DOMAIN queue
      /\ DOMAIN queue \subseteq Nat /\ DOMAIN rest \subseteq Nat
  BY <1>1, <1>2, Leaves
<1>6. failed \in Operation /\ failed.run = r
  BY DEF Operation, RunStatuses, TerminalStates
<1> HIDE DEF rest, failed
<1>7. /\ queue' \in Seq(Operation) /\ DOMAIN queue' \subseteq Nat
      /\ \A i \in DOMAIN queue' : queue'[i].run = r \/ (i + 1 \in DOMAIN queue /\ queue'[i] = queue[i + 1])
      /\ \A i \in DOMAIN queue : i = 1 \/ (i - 1 \in DOMAIN queue' /\ queue'[i - 1] = queue[i])
  <2>1. CASE queue' = rest
    BY <1>5, <2>1
  <2>2. CASE queue' = Append(rest, failed)
    <3>1. /\ DOMAIN rest = 1..Len(rest) /\ DOMAIN queue' = 1..(Len(rest) + 1) /\ Len(rest) \in Nat
          /\ queue' \in Seq(Operation) /\ queue'[Len(rest) + 1] = failed
          /\ \A i \in 1..Len(rest) : queue'[i] = rest[i]
      BY <1>5, <1>6, <2>2, AppendProperties
    <3> QED
      BY <1>5, <1>6, <3>1
  <2> QED
    BY <1>4, <2>1, <2>2
<1>8. ASSUME NEW x \in Runs, x \notin struck'
      PROVE  /\ Awaiting("exec", x)' => Awaiting("exec", x)
             /\ Awaiting("mut", x)' => Awaiting("mut", x)
             /\ Closed(x) => Closed(x)'
  <2>1. x # r /\ disk' = disk
    BY <1>2, <1>3, <1>8
  <2>2. \A i \in DOMAIN queue' : queue'[i].run = x => i + 1 \in DOMAIN queue /\ queue'[i] = queue[i + 1]
    BY <1>7, <2>1
  <2>3. ~Writes(1, x)
    BY <1>3, <1>5, <2>1 DEF Writes
  <2>4. \A by : Awaiting(by, x)' => Awaiting(by, x)
    BY <1>1, <1>2, <1>7, <2>2, HeadGone
  <2>5. Closed(x) => Closed(x)'
    BY <1>1, <1>2, <1>7, <2>1, <2>2, <2>3, HeadGone
  <2> QED
    BY <2>4, <2>5
<1>9. StoreTyped' /\ HeadWritten'
  BY <1>1, <1>2, <1>4, <1>7 DEF StoreTyped, HeadWritten
<1>10. \A x \in Runs : Unborn(x) => /\ live'[x] = "none" /\ execution'[x] = "off"
                                    /\ mutation'[x] = "none" /\ disk'[x].st = "none"
  <2>1. \A x \in Runs : Unborn(x) => x # r
    BY <1>3
  <2> QED
    BY <1>1, <1>2, <1>4, <2>1 DEF NothingUnborn
<1>11. \A i \in DOMAIN queue' : \E j \in DOMAIN queue : queue'[i].run = queue[j].run
  BY <1>3, <1>5, <1>7
<1>12. /\ struck \subseteq struck' /\ struck' \subseteq Runs \cup struck
       /\ \A x \in Runs : x \notin struck' =>
            live'[x] = live[x] /\ execution'[x] = execution[x] /\ mutation'[x] = mutation[x]
  BY <1>2, <1>3, <1>4
<1> QED
  BY <1>2, <1>8, <1>9, <1>10, <1>11, <1>12, HeadStep

-----------------------------------------------------------------------------
(* A crash, and the sweep of the server that starts after it.                *)
LEMMA CrashSteps ==
    ASSUME StoreInv
    PROVE  /\ Crash => StoreInv'
           /\ Boot => StoreInv'
           /\ Listen => StoreInv'
           /\ \A r \in Runs : SignalOrphan(r) \/ SaveSwept(r) => StoreInv'
<1>1. StoreTyped /\ Working /\ AtRest /\ HeadWritten /\ NothingUnborn /\ OrphansFound
  BY DEF StoreInv
<1>2. "none" \in RunStatuses /\ "aborted" \in RunStatuses /\ "aborted" \notin Open /\ "none" \notin Open
  BY DEF RunStatuses, TerminalStates, Open
<1>3. ASSUME Crash PROVE StoreInv'
  <2>1. /\ server' = "down" /\ live' = [r \in Runs |-> "none"]
        /\ execution' = [r \in Runs |-> "off"] /\ mutation' = [r \in Runs |-> "none"]
        /\ child' = [r \in Runs |-> IF child[r] = "own"
                                    THEN IF Findable(r) THEN "orphan" ELSE "lost"
                                    ELSE child[r]]
        /\ queue' = <<>> /\ phase' = "waiting" /\ disk' = disk /\ born' = born
    BY <1>3 DEF Crash
  <2>2. StoreTyped'
    BY <1>1, <1>2, <2>1 DEF StoreTyped
  <2>3. Working' /\ AtRest' /\ HeadWritten'
    BY <2>1 DEF Working, AtRest, HeadWritten
  <2>4. NothingUnborn'
    BY <1>1, <2>1 DEF NothingUnborn, Unborn
  <2>5. ASSUME NEW r \in Runs, child'[r] = "orphan"
        PROVE  server' # "up" /\ Findable(r)' /\ live'[r] = "none"
    <3>1. Findable(r)
      BY <1>1, <2>1, <2>5 DEF OrphansFound
    <3> QED
      BY <2>1, <3>1 DEF Findable
  <2> QED
    BY <2>2, <2>3, <2>4, <2>5 DEF StoreInv, OrphansFound
<1>4. ASSUME Boot PROVE StoreInv'
  <2>1. /\ server = "down" /\ server' = "sweeping"
        /\ UNCHANGED <<live, execution, mutation, child, disk, queue, phase, born, struck>>
    BY <1>4 DEF Boot
  <2> QED
    BY <1>1, <2>1 DEF StoreInv, StoreTyped, Working, AtRest, HeadWritten, NothingUnborn, Unborn,
       OrphansFound, Findable
<1>5. ASSUME Listen PROVE StoreInv'
  <2>1. /\ server = "sweeping" /\ server' = "up"
        /\ \A r \in Runs : disk[r].st \notin Open /\ live[r] = "none"
        /\ UNCHANGED <<live, execution, mutation, child, disk, queue, phase, born, struck>>
    BY <1>5 DEF Listen, Unswept
  <2>2. queue = <<>> /\ \A r \in Runs : execution[r] = "off" /\ mutation[r] = "none"
    BY <1>1, <2>1 DEF AtRest
  <2>3. ASSUME NEW r \in Runs PROVE RunHolds(r)'
    <3>1. DOMAIN queue' = {}
      BY <2>1, <2>2
    <3> QED
      BY <1>2, <2>1, <2>2, <3>1 DEF RunHolds, RunFits, Closed, Awaiting
  <2>4. OrphansFound'
    BY <1>1, <2>1 DEF OrphansFound, Findable
  <2> QED
    BY <1>1, <2>1, <2>3, <2>4
    DEF StoreInv, StoreTyped, Working, AtRest, HeadWritten, NothingUnborn, Unborn
<1>6. ASSUME NEW r \in Runs, SignalOrphan(r) PROVE StoreInv'
  <2>1. /\ server = "sweeping" /\ disk[r].st \in Open /\ live' = [live EXCEPT ![r] = "aborted"]
        /\ child' = [child EXCEPT ![r] = Reached(r)]
        /\ UNCHANGED <<server, disk, phase, born, struck, execution, mutation, queue>>
    BY <1>6 DEF SignalOrphan, Unswept, Becomes, Untouched
  <2>2. Reached(r) \in {"none", "own", "signalled", "lost"}
    BY <1>1, <2>1 DEF Reached, OrphansFound, Findable, StoreTyped
  <2>3. StoreTyped'
    BY <1>1, <1>2, <2>1, <2>2 DEF StoreTyped
  <2>4. Working' /\ AtRest' /\ HeadWritten'
    BY <1>1, <2>1 DEF Working, AtRest, HeadWritten
  <2>5. NothingUnborn'
    <3>1. ~Unborn(r)
      BY <1>1, <1>2, <2>1 DEF NothingUnborn
    <3> QED
      BY <1>1, <2>1, <3>1 DEF NothingUnborn, Unborn, StoreTyped
  <2>6. OrphansFound'
    BY <1>1, <2>1, <2>2 DEF OrphansFound, Findable, StoreTyped
  <2> QED
    BY <2>3, <2>4, <2>5, <2>6 DEF StoreInv
<1>7. ASSUME NEW r \in Runs, SaveSwept(r) PROVE StoreInv'
  <2>1. /\ server = "sweeping" /\ live[r] = "aborted" /\ live' = [live EXCEPT ![r] = "none"]
        /\ server' # "up"
        /\ UNCHANGED <<execution, mutation, child, queue, phase, born, struck>>
    BY <1>7 DEF SaveSwept, Becomes
  <2> DEFINE swept == [disk EXCEPT ![r] = [st |-> "aborted", pid |-> FALSE]]
  <2>2. disk' = disk \/ disk' = Pruned(swept)
    BY <1>7 DEF SaveSwept
  <2>3. swept \in [Runs -> [st : RunStatuses, pid : BOOLEAN]] /\ \A x \in Runs \ {r} : swept[x] = disk[x]
    BY <1>1, <1>2 DEF StoreTyped
  <2> HIDE DEF swept
  <2>4. disk' \in [Runs -> [st : RunStatuses, pid : BOOLEAN]]
    BY <1>1, <2>2, <2>3, PrunedTyped DEF StoreTyped
  <2>5. \A x \in Runs \ {r} :
          disk'[x] = disk[x] \/ (disk'[x].st = "none" /\ disk[x].st \in TerminalStates)
    BY <2>2, <2>3, PrunedRuns DEF NoRun
  <2>6. StoreTyped'
    BY <1>1, <1>2, <2>1, <2>4 DEF StoreTyped
  <2>7. Working' /\ AtRest' /\ HeadWritten'
    <3>1. queue = <<>> /\ phase # "written"
      BY <1>1, <2>1 DEF AtRest, HeadWritten
    <3> QED
      BY <1>1, <2>1, <3>1 DEF Working, AtRest, HeadWritten
  <2>8. NothingUnborn'
    <3>1. ~Unborn(r)
      BY <1>1, <2>1 DEF NothingUnborn
    <3> QED
      BY <1>1, <2>1, <2>5, <3>1 DEF NothingUnborn, Unborn, StoreTyped
  <2>9. OrphansFound'
    <3>1. child[r] # "orphan"
      BY <1>1, <2>1 DEF OrphansFound
    <3>2. ASSUME NEW x \in Runs \ {r}, child[x] = "orphan" PROVE disk'[x] = disk[x]
      BY <1>1, <2>5, <3>2 DEF OrphansFound, Findable, TerminalStates, Open
    <3> QED
      BY <1>1, <2>1, <3>1, <3>2 DEF OrphansFound, Findable, StoreTyped
  <2> QED
    BY <2>6, <2>7, <2>8, <2>9 DEF StoreInv
<1> QED
  BY <1>3, <1>4, <1>5, <1>6, <1>7

LEMMA StoreInvariant ==
    StoreSpec => []StoreInv
<1>1. StoreInit => StoreInv
  BY StoreStart
<1>2. StoreInv /\ [StoreNext]_storeVars => StoreInv'
  <2> SUFFICES ASSUME StoreInv, [StoreNext]_storeVars PROVE StoreInv'
    OBVIOUS
  <2>1. CASE UNCHANGED storeVars
    BY <2>1 DEF storeVars, StoreInv, StoreTyped, Working, AtRest, HeadWritten, NothingUnborn, Unborn,
       OrphansFound, Findable, RunHolds, RunFits, Closed, Writes, Awaiting
  <2>2. CASE StoreNext
    BY <2>2, RunSteps, HeadSteps, SaveFailsHolds, CrashSteps DEF StoreNext
  <2> QED
    BY <2>1, <2>2
<1> QED
  BY <1>1, <1>2, PTL DEF StoreSpec

(* When the server listens, every run that is on disk as working is executed *)
(* or in the hands of a mutation, whatever crashed when; only a save that    *)
(* failed leaves one that is not (sweepOnBoot, executeRun, retryStage).      *)
THEOREM RecoveredHolds ==
    StoreSpec => []Recovered
<1>1. ASSUME StoreInv PROVE Recovered
  <2>1. ASSUME server = "up", NEW r \in Runs \ struck, disk[r].st \in Open,
               execution[r] = "off", mutation[r] = "none"
        PROVE  FALSE
    <3>1. RunHolds(r) /\ ~Awaiting("exec", r) /\ ~Awaiting("mut", r) /\ Closed(r)
      BY <1>1, <2>1 DEF StoreInv, Working, RunHolds, RunFits
    <3>2. PICK j \in DOMAIN queue : Writes(j, r)
      BY <2>1, <3>1 DEF Closed
    <3> QED
      BY <3>1, <3>2 DEF Writes, Awaiting, Saves
  <2> QED
    BY <2>1 DEF Recovered
<1> QED
  BY <1>1, StoreInvariant, PTL

(* When the server listens, no child that a boot could have found is left    *)
(* alone: a sweep reaches each before it saves its run as aborted.           *)
THEOREM OrphansSweptHolds ==
    StoreSpec => []OrphansSwept
<1>1. StoreInv => OrphansSwept
  BY DEF StoreInv, OrphansFound, OrphansSwept
<1> QED
  BY <1>1, StoreInvariant, PTL
=============================================================================
