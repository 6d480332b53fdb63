------------------------------- MODULE RunStore -------------------------------
(* Runs on disk: the store and its mutation queue (store/runs.ts), what the  *)
(* run manager saves and when (engine/runManager.ts, nodeRunner.ts), the     *)
(* process identities it saves with them, and what a server that starts      *)
(* after a crash makes of all that (sweepOnBoot).                            *)
(*                                                                           *)
(* A run has one node with one child process; stages and gates are RunEngine.*)
(* A step is the code between two macrotasks, or one write or removal. A     *)
(* save holds what the run was when saveRun was called. Crashes and failing  *)
(* writes are the environment.                                               *)
EXTENDS Naturals, Sequences, FiniteSets, Functions

CONSTANTS Runs,
          Old,         \* those that had ended before
          Kept,        \* runs of a workspace that are kept (100 in the code)
          MaxReopens,  \* bound: retries
          MaxCrashes,  \* bound: crashes of the server
          MaxFailures, \* bound: saves that fail
          MaxTroubles  \* bound: retries, crashes and failing saves together

ASSUME StoreAssumption ==
    /\ Old \subseteq Runs /\ IsFiniteSet(Runs)
    /\ {Kept, MaxReopens, MaxCrashes, MaxFailures, MaxTroubles} \subseteq Nat

VARIABLES
    server,    \* the process: "down", "sweeping" or "up"
    live,      \* live[r]: its status in memory, "none" if there is no object
    pid,       \* runs whose node in memory has the pid of its child
    execution, \* execution[r]: where executeRun of r is
    mutation,  \* mutation[r]: who holds the mutation mutex of r
    child,     \* child[r]: the child; "orphan": it outlived the server and a
               \* boot can find it; "lost": no boot can
    disk,      \* disk[r]: run.json
    queue,     \* mutationQueue: the operations that are not done
    phase,     \* how far its head is
    born,      \* the runs in the order of createdAt
    struck,    \* history: runs with a failed save since the boot
    retried, crashes, failures

storeVars == <<server, live, pid, execution, mutation, child, disk, queue, phase,
               born, struck, retried, crashes, failures>>
counters == <<retried, crashes, failures>>
MoreTrouble == retried + crashes + failures < MaxTroubles

TerminalStates == {"done", "failed", "aborted"}
Open     == {"created", "running"}
NoRun    == [st |-> "none", pid |-> FALSE]

StoreTypeOK ==
    /\ server \in {"down", "sweeping", "up"}
    /\ live \in [Runs -> TerminalStates \cup Open \cup {"none"}]
    /\ pid \subseteq Runs
    /\ execution \in [Runs -> {"off", "begin", "spawn", "child", "ended",
                               "finish", "failing", "end", "final"}]
    /\ mutation \in [Runs -> {"none", "create", "abort", "retry"}]
    /\ child \in [Runs -> {"none", "own", "signalled", "orphan", "lost"}]
    /\ disk \in [Runs -> [st : TerminalStates \cup Open \cup {"none"}, pid : BOOLEAN]]
    /\ \A i \in DOMAIN queue : queue[i] \in
         [by : {"exec", "mut", "delete"}, run : Runs,
          st : TerminalStates \cup Open \cup {"none"}, pid : BOOLEAN]
    /\ phase \in {"waiting", "written", "cleaning"}
    /\ Range(born) \subseteq Runs /\ struck \subseteq Runs
    /\ retried \in 0..MaxReopens /\ crashes \in 0..MaxCrashes
    /\ failures \in 0..MaxFailures

(* The orders in which the old runs may have been created.                   *)
Orders(S) == {f \in [1..Cardinality(S) -> S] : IsInjective(f)}
StoreInit ==
    /\ server = "up" /\ live = [r \in Runs |-> "none"] /\ pid = {}
    /\ execution = [r \in Runs |-> "off"] /\ mutation = [r \in Runs |-> "none"]
    /\ child = [r \in Runs |-> "none"]
    /\ disk = [r \in Runs |-> [NoRun EXCEPT !.st = IF r \in Old THEN "done" ELSE @]]
    /\ queue = <<>> /\ phase = "waiting" /\ born \in Orders(Old) /\ struck = {}
    /\ retried = 0 /\ crashes = 0 /\ failures = 0

-----------------------------------------------------------------------------
(* saveRun, called for the execution or for a mutation that waits for it.    *)
Save(by, r, st, p) ==
    queue' = Append(queue, [by |-> by, run |-> r, st |-> st, pid |-> p])
Awaiting(by, r) == \E i \in DOMAIN queue : queue[i].by = by /\ queue[i].run = r
ExecAt(r, place) == server = "up" /\ execution[r] = place /\ ~Awaiting("exec", r)
ExecGoes(r, place) == execution' = [execution EXCEPT ![r] = place]
Becomes(r, st) == live' = [live EXCEPT ![r] = st]
Untouched == UNCHANGED <<server, disk, phase, born, struck, counters>>

(* The oldest runs that have ended go, as long as there are too many runs.   *)
OnDisk(d) == {r \in Runs : d[r].st # "none"}
Victims(d) ==
    LET ended == {i \in DOMAIN born : d[born[i]].st \in TerminalStates}
        Rank(i) == Cardinality({j \in ended : j <= i})
    IN {born[i] : i \in {j \in ended : Rank(j) + Kept <= Cardinality(OnDisk(d))}}
Pruned(d) == [r \in Runs |-> IF r \in Victims(d) THEN NoRun ELSE d[r]]

-----------------------------------------------------------------------------
(* createRun and what follows its save.                                      *)
CreateRun(r) ==
    /\ server = "up" /\ r \notin Range(born) /\ born' = Append(born, r)
    /\ Becomes(r, "created") /\ mutation' = [mutation EXCEPT ![r] = "create"]
    /\ Save("mut", r, "created", FALSE)
    /\ UNCHANGED <<server, pid, execution, child, disk, phase, struck, counters>>

(* executeRun begins: the stage sets the run running and saves it.           *)
BeginExecution(r) ==
    /\ server = "up" /\ mutation[r] \in {"create", "retry"} /\ execution[r] = "off"
    /\ live[r] \in Open /\ ~Awaiting("mut", r)
    /\ mutation' = [mutation EXCEPT ![r] = "none"]
    /\ Becomes(r, "running") /\ ExecGoes(r, "begin") /\ Save("exec", r, "running", FALSE)
    /\ UNCHANGED <<pid, child>> /\ Untouched

(* The node is started unless the run was aborted; an abort that comes while *)
(* its executable is looked up comes too late.                               *)
CheckStopped(r) ==
    /\ ExecAt(r, "begin") /\ ExecGoes(r, IF live[r] = "running" THEN "spawn" ELSE "end")
    /\ UNCHANGED <<live, pid, mutation, child, queue>> /\ Untouched
SpawnChild(r) ==
    /\ ExecAt(r, "spawn") /\ ExecGoes(r, "child")
    /\ child' = [child EXCEPT ![r] = "own"] /\ pid' = pid \cup {r}
    /\ Save("exec", r, live[r], TRUE)
    /\ UNCHANGED <<live, mutation>> /\ Untouched
ChildEnds(r) ==
    /\ child[r] # "none" /\ child' = [child EXCEPT ![r] = "none"]
    /\ UNCHANGED <<live, pid, execution, mutation, queue>> /\ Untouched
NodeEnds(r) ==
    /\ ExecAt(r, "child") /\ child[r] = "none"
    /\ ExecGoes(r, "ended") /\ pid' = pid \ {r} /\ Save("exec", r, live[r], FALSE)
    /\ UNCHANGED <<live, mutation, child>> /\ Untouched
ExecutionEnds(r) ==
    /\ ExecAt(r, "ended")
    /\ IF live[r] = "running"
         THEN Becomes(r, "done") /\ ExecGoes(r, "finish") /\ Save("exec", r, "done", FALSE)
         ELSE ExecGoes(r, "end") /\ UNCHANGED <<live, queue>>
    /\ UNCHANGED <<pid, mutation, child>> /\ Untouched

(* `finally`: open steer messages expire, which is saved once more; then the *)
(* run leaves activeRuns, unless a mutation has it.                          *)
Ending(r) == \E place \in {"end", "finish", "failing"} : ExecAt(r, place)
ExpireSteers(r) ==
    /\ Ending(r) /\ ExecGoes(r, "final") /\ Save("exec", r, live[r], FALSE)
    /\ UNCHANGED <<live, pid, mutation, child>> /\ Untouched
LeaveRun(r) ==
    /\ Ending(r) \/ ExecAt(r, "final")
    /\ ExecGoes(r, "off")
    /\ Becomes(r, IF mutation[r] = "none" THEN "none" ELSE live[r])
    /\ UNCHANGED <<pid, mutation, child, queue>> /\ Untouched

-----------------------------------------------------------------------------
(* abortRun loads a run that is not in memory.                               *)
Current(r) == IF live[r] = "none" THEN disk[r].st ELSE live[r]
Signalled(c) == IF c = "own" THEN "signalled" ELSE c
AbortStored(r) ==
    /\ server = "up" /\ mutation[r] = "none" /\ Current(r) \in Open
    /\ Becomes(r, "aborted") /\ mutation' = [mutation EXCEPT ![r] = "abort"]
    /\ child' = [child EXCEPT ![r] = Signalled(@)]
    /\ Save("mut", r, "aborted", r \in pid)
    /\ UNCHANGED <<pid, execution>> /\ Untouched
AbortDone(r) ==
    /\ server = "up" /\ mutation[r] = "abort" /\ execution[r] = "off" /\ ~Awaiting("mut", r)
    /\ mutation' = [mutation EXCEPT ![r] = "none"] /\ Becomes(r, "none")
    /\ UNCHANGED <<pid, execution, child, queue>> /\ Untouched

(* retryStage: the run is loaded into activeRuns, where it stays if the      *)
(* retry is refused; else the run is reopened once its execution is over.    *)
LoadForRetry(r) ==
    /\ server = "up" /\ mutation[r] = "none" /\ Current(r) \in TerminalStates
    /\ retried < MaxReopens /\ MoreTrouble /\ retried' = retried + 1
    /\ Becomes(r, Current(r)) /\ mutation' = [mutation EXCEPT ![r] = "retry"]
    /\ UNCHANGED <<server, pid, execution, child, disk, queue, phase, born, struck,
                   crashes, failures>>
ReopenStored(r) ==
    /\ server = "up" /\ mutation[r] = "retry" /\ execution[r] = "off"
    /\ live[r] \in TerminalStates /\ ~Awaiting("mut", r)
    /\ \/ Becomes(r, "running") /\ Save("mut", r, "running", FALSE) /\ UNCHANGED mutation
       \/ mutation' = [mutation EXCEPT ![r] = "none"] /\ UNCHANGED <<live, queue>>
    /\ UNCHANGED <<pid, execution, child>> /\ Untouched

DeleteRun(r) ==
    /\ server = "up" /\ disk[r].st # "none" /\ ~Awaiting("delete", r)
    /\ Save("delete", r, "none", FALSE)
    /\ UNCHANGED <<live, pid, execution, mutation, child>> /\ Untouched

-----------------------------------------------------------------------------
(* The head of the queue. A save replaces the file and then prunes; a delete *)
(* looks at the file, cleans up worktrees and then removes the directory.    *)
AtHead(kinds) == server = "up" /\ queue # <<>> /\ Head(queue).by \in kinds
Saves == {"exec", "mut"}
WrittenDisk(op) == [disk EXCEPT ![op.run] = [st |-> op.st, pid |-> op.pid]]
InMemory == <<server, live, pid, execution, mutation, child, born>>
Write ==
    /\ AtHead(Saves) /\ phase = "waiting" /\ phase' = "written"
    /\ disk' = WrittenDisk(Head(queue))
    /\ UNCHANGED <<InMemory, queue, struck, counters>>
Prune ==
    /\ AtHead(Saves) /\ phase = "written" /\ phase' = "waiting"
    /\ disk' = Pruned(disk) /\ queue' = Tail(queue)
    /\ UNCHANGED <<InMemory, struck, counters>>
LookBeforeDelete ==
    /\ AtHead({"delete"}) /\ phase = "waiting"
    /\ IF disk[Head(queue).run].st \in TerminalStates
         THEN phase' = "cleaning" /\ UNCHANGED queue
         ELSE queue' = Tail(queue) /\ UNCHANGED phase
    /\ UNCHANGED <<InMemory, disk, struck, counters>>
RemoveRun ==
    /\ AtHead({"delete"}) /\ phase = "cleaning" /\ phase' = "waiting"
    /\ disk' = [disk EXCEPT ![Head(queue).run] = NoRun] /\ queue' = Tail(queue)
    /\ UNCHANGED <<InMemory, struck, counters>>

(* A save fails before it has replaced the file, or after (pruning, the last *)
(* run of the workspace). The node runner goes on without it; elsewhere the  *)
(* execution ends as failed, which is saved again; a mutation gives up, and  *)
(* the run it had reopened stays in memory as running.                       *)
Fallen(op) ==
    LET r == op.run IN
    IF op.by = "exec" /\ execution[r] \in {"begin", "finish"}
      THEN IF live[r] = "aborted" THEN /\ ExecGoes(r, "end") /\ queue' = Tail(queue)
                                         /\ UNCHANGED <<live, mutation>>
             ELSE /\ ExecGoes(r, "failing") /\ Becomes(r, "failed") /\ UNCHANGED mutation
                  /\ queue' = Append(Tail(queue),
                                [by |-> "exec", run |-> r, st |-> "failed", pid |-> FALSE])
      ELSE /\ queue' = Tail(queue) /\ UNCHANGED execution
           /\ IF op.by = "mut"
                THEN /\ mutation' = [mutation EXCEPT ![r] = "none"]
                     /\ Becomes(r, IF mutation[r] = "create" THEN "none" ELSE live[r])
                ELSE UNCHANGED <<live, mutation>>
SaveFails ==
    /\ AtHead(Saves) /\ failures < MaxFailures /\ MoreTrouble /\ failures' = failures + 1
    /\ Fallen(Head(queue)) /\ phase' = "waiting"
    /\ struck' = struck \cup {Head(queue).run}
    /\ UNCHANGED <<server, pid, child, disk, born, retried, crashes>>

-----------------------------------------------------------------------------
(* The server crashes, at any step of an operation or of a sweep. A child of *)
(* a run that is on disk as working, with its pid, can be found again.       *)
Findable(r) == disk[r].pid /\ disk[r].st \in Open
Crash ==
    /\ server # "down" /\ crashes < MaxCrashes /\ MoreTrouble /\ crashes' = crashes + 1
    /\ server' = "down" /\ live' = [r \in Runs |-> "none"] /\ pid' = {}
    /\ execution' = [r \in Runs |-> "off"] /\ mutation' = [r \in Runs |-> "none"]
    /\ child' = [r \in Runs |-> IF child[r] = "own"
                                  THEN IF Findable(r) THEN "orphan" ELSE "lost"
                                  ELSE child[r]]
    /\ queue' = <<>> /\ phase' = "waiting" /\ struck' = {}
    /\ UNCHANGED <<disk, born, retried, failures>>

(* sweepOnBoot, before the server listens: the runs that were working, each  *)
(* signalled, then saved as aborted. If that fails, the server does not come *)
(* up.                                                                       *)
Boot ==
    /\ server = "down" /\ server' = "sweeping"
    /\ UNCHANGED <<live, pid, execution, mutation, child, disk, queue, phase, born,
                   struck, counters>>
ForgottenSweep(r) == disk[r].st = "running"
Unswept(r) == disk[r].st \in Open
DeletedFirst(r) == child[r]
Reached(r) == IF disk[r].pid /\ child[r] = "orphan" THEN "signalled" ELSE child[r]
SignalOrphan(r) ==
    /\ server = "sweeping" /\ Unswept(r) /\ live[r] = "none"
    /\ Becomes(r, "aborted") /\ child' = [child EXCEPT ![r] = Reached(r)]
    /\ UNCHANGED <<pid, execution, mutation, queue>> /\ Untouched
SaveSwept(r) ==
    /\ server = "sweeping" /\ live[r] = "aborted" /\ Becomes(r, "none")
    /\ \/ /\ disk' = Pruned([disk EXCEPT ![r] = [st |-> "aborted", pid |-> FALSE]])
          /\ UNCHANGED <<server, failures>>
       \/ /\ failures < MaxFailures /\ MoreTrouble /\ failures' = failures + 1 /\ server' = "down"
          /\ UNCHANGED disk
    /\ UNCHANGED <<pid, execution, mutation, child, queue, phase, born, struck,
                   retried, crashes>>
Listen ==
    /\ server = "sweeping" /\ \A r \in Runs : ~Unswept(r) /\ live[r] = "none"
    /\ server' = "up"
    /\ UNCHANGED <<live, pid, execution, mutation, child, disk, queue, phase, born,
                   struck, counters>>

StoreNext ==
    \/ \E r \in Runs :
         \/ CreateRun(r) \/ BeginExecution(r) \/ CheckStopped(r) \/ SpawnChild(r)
         \/ ChildEnds(r) \/ NodeEnds(r) \/ ExecutionEnds(r) \/ ExpireSteers(r)
         \/ LeaveRun(r) \/ AbortStored(r) \/ AbortDone(r) \/ LoadForRetry(r) \/ ReopenStored(r)
         \/ DeleteRun(r) \/ SignalOrphan(r) \/ SaveSwept(r)
    \/ Write \/ Prune \/ LookBeforeDelete \/ RemoveRun \/ SaveFails
    \/ Crash \/ Boot \/ Listen
StoreSpec == StoreInit /\ [][StoreNext]_storeVars

-----------------------------------------------------------------------------
(* When the server listens, every run that is on disk as working is executed *)
(* or in the hands of a mutation: no crash, at any step of a save, a delete  *)
(* or a sweep, leaves one that runs forever. Only a failed save does, until  *)
(* the next boot (sweepOnBoot, executeRun, createRun, retryStage).           *)
Recovered ==
    server = "up" =>
        \A r \in Runs \ struck : disk[r].st \in Open =>
            execution[r] # "off" \/ mutation[r] # "none"

(* When the server listens, no child of an earlier server is left alone that *)
(* a boot could have found: one whose pid was saved with a working run.      *)
OrphansSwept == server = "up" => \A r \in Runs : child[r] # "orphan"
=============================================================================
