----------------------------- MODULE LocalStores ------------------------------
(* The stores of the workspaces (store/workspaces.ts, one file for all) and  *)
(* of the custom workflows (store/workflows.ts, one file each). Each has a   *)
(* queue of its own for what writes: an operation reads, waits, and writes   *)
(* what it made of that, or fails. A client makes one request.               *)
EXTENDS Naturals, Sequences

CONSTANTS Clients, Workspaces,
          Known,      \* the workspaces there are at the start
          Flows,      \* names a custom workflow may have
          CopyNames,  \* the names a duplicate tries, in order
          Absent, MaxFaults

ASSUME StoresAssumption ==
    /\ Known \subseteq Workspaces /\ Absent \notin Clients \cup {"first"}
    /\ "first" \notin Clients
    /\ Absent \notin [name : Clients \cup {"first"}, git : BOOLEAN, last : BOOLEAN]
    /\ CopyNames \in Seq(Flows) /\ CopyNames # <<>> /\ MaxFaults \in Nat

VARIABLES
    job,             \* what a client's request does next; none: it has not come yet
    target,          \* the workspace or the workflow it is about
    step,            \* where that job is
    read,            \* the workspaces its operation has read
    listed,          \* the workflows its listing has found
    spaces,          \* workspaces.json
    flows,           \* the workflow files: who wrote each last
    line, flowLine,  \* the two mutationQueues
    repo,            \* External: the workspaces lie in a git repository
    runs,            \* the run of a workspace, as saved
    faults

storesVars == <<job, target, step, read, listed, spaces, flows, line, flowLine, repo, runs, faults>>

SpaceJobs == {"list", "create", "rename", "delete", "find", "last"}
FlowJobs  == {"duplicate", "copy", "edit", "drop", "flows"}
Space  == [name : Clients \cup {"first"}, git : BOOLEAN, last : BOOLEAN]
Spaces == [Workspaces -> Space \cup {Absent}]

StoresTypeOK ==
    /\ job \in [Clients -> SpaceJobs \cup FlowJobs \cup {"none"}]
    /\ target \in [Clients -> Workspaces \cup Flows]
    /\ step \in [Clients -> {"idle", "queued", "reading", "done", "failed"}]
    /\ read \in [Clients -> Spaces] /\ listed \in [Clients -> SUBSET Flows]
    /\ spaces \in Spaces /\ flows \in [Flows -> Clients \cup {"first", Absent}]
    /\ line \in Seq(Clients) /\ flowLine \in Seq(Clients)
    /\ repo \in BOOLEAN /\ runs \in [Workspaces -> {"none", "active", "ended"}]
    /\ faults \in 0..MaxFaults

First == [name |-> "first", git |-> FALSE, last |-> FALSE]
StoresInit ==
    /\ job = [c \in Clients |-> "none"] /\ step = [c \in Clients |-> "idle"]
    /\ target = [c \in Clients |-> CopyNames[1]] /\ listed = [c \in Clients |-> {}]
    /\ read = [c \in Clients |-> [w \in Workspaces |-> Absent]]
    /\ spaces = [w \in Workspaces |-> IF w \in Known THEN First ELSE Absent]
    /\ flows = [f \in Flows |-> Absent]
    /\ line = <<>> /\ flowLine = <<>> /\ repo = FALSE
    /\ runs = [w \in Workspaces |-> "none"] /\ faults = 0

StepTo(c, place) == step' = [step EXCEPT ![c] = place]
Heads(queue, c) == queue # <<>> /\ Head(queue) = c

-----------------------------------------------------------------------------
(* A request about a workspace arrives; a new one has an id of its own. What *)
(* starts a run looks the workspace up first, which is a listing. What       *)
(* deletes one looks for an active run and only later joins the queue.       *)
AskStore(c, kind, w) ==
    /\ job[c] = "none" /\ job' = [job EXCEPT ![c] = kind]
    /\ target' = [target EXCEPT ![c] = w]
    /\ IF kind = "create"
       THEN w \notin Known /\ \A d \in Clients : target[d] # w ELSE w \in Known
    /\ IF kind = "delete"
       THEN StepTo(c, IF runs[w] = "active" THEN "failed" ELSE "idle") /\ UNCHANGED line
       ELSE StepTo(c, "queued") /\ line' = Append(line, c)
    /\ UNCHANGED <<read, listed, spaces, flows, flowLine, repo, runs, faults>>
DeleteChecked(c) ==
    /\ job[c] = "delete" /\ step[c] = "idle"
    /\ StepTo(c, "queued") /\ line' = Append(line, c)
    /\ UNCHANGED <<job, target, read, listed, spaces, flows, flowLine, repo, runs, faults>>

(* enqueue: the operation at the head reads the file and computes; a listing *)
(* computes the git state of every workspace, an update that of its own.     *)
ListsAtOnce(c) == job[c] \in {"list", "find"} \/ Heads(line, c)
MayRead(c) == Heads(line, c)
ReadSpaces(c) ==
    /\ job[c] \in SpaceJobs /\ step[c] = "queued" /\ MayRead(c)
    /\ StepTo(c, "reading") /\ read' = [read EXCEPT ![c] = spaces]
    /\ UNCHANGED <<job, target, listed, spaces, flows, line, flowLine, repo, runs, faults>>

Refreshed(all) ==
    [w \in Workspaces |-> IF all[w] = Absent THEN Absent ELSE [all[w] EXCEPT !.git = repo]]
Made(c, all) ==
    LET w == target[c]
        old == all[w]
    IN  IF job[c] \in {"list", "find"} THEN Refreshed(all)
        ELSE IF job[c] = "create"      THEN [all EXCEPT ![w] = [First EXCEPT !.git = repo]]
        ELSE IF job[c] = "delete"      THEN [all EXCEPT ![w] = Absent]
        ELSE IF old = Absent           THEN all
        ELSE IF job[c] = "rename"
             THEN [all EXCEPT ![w] = [old EXCEPT !.name = c, !.git = repo]]
             ELSE [all EXCEPT ![w] = [old EXCEPT !.last = TRUE]]

(* The file is replaced as a whole; NOT_FOUND and a write that fails leave   *)
(* it. The next operation runs in any case.                                  *)
QueueWithout(queue, c) == IF Heads(queue, c) THEN Tail(queue) ELSE queue
WriteSpaces(c) ==
    /\ job[c] \in SpaceJobs /\ step[c] = "reading"
    /\ line' = QueueWithout(line, c) /\ read' = [read EXCEPT ![c] = [w \in Workspaces |-> Absent]]
    /\ LET missing == job[c] \in {"rename", "delete", "find"} /\ read[c][target[c]] = Absent
       IN  \/ /\ spaces' = IF missing /\ job[c] # "find" THEN spaces ELSE Made(c, read[c])
              /\ StepTo(c, IF missing THEN "failed" ELSE "done") /\ UNCHANGED faults
           \/ /\ faults < MaxFaults /\ faults' = faults + 1
              /\ StepTo(c, "failed") /\ UNCHANGED spaces
    /\ UNCHANGED <<job, target, listed, flows, flowLine, repo, runs>>

(* createRun, saveRun: the run of a workspace that was found is saved, then  *)
(* the workspace's lastRun; later the run ends and is saved again.           *)
SaveRun(c) ==
    /\ job[c] = "find" /\ step[c] = "done" /\ runs[target[c]] = "none"
    /\ runs' = [runs EXCEPT ![target[c]] = "active"]
    /\ job' = [job EXCEPT ![c] = "last"] /\ StepTo(c, "queued") /\ line' = Append(line, c)
    /\ UNCHANGED <<target, read, listed, spaces, flows, flowLine, repo, faults>>
EndRun(c) ==
    /\ job[c] = "last" /\ step[c] \in {"done", "failed"} /\ runs[target[c]] = "active"
    /\ runs' = [runs EXCEPT ![target[c]] = "ended"]
    /\ StepTo(c, "queued") /\ line' = Append(line, c)
    /\ UNCHANGED <<job, target, read, listed, spaces, flows, flowLine, repo, faults>>

(* External: `git init` in the folder, or its end.                           *)
RepoChanges ==
    /\ faults < MaxFaults /\ faults' = faults + 1 /\ repo' = ~repo
    /\ UNCHANGED <<job, target, step, read, listed, listed, spaces, flows, line, flowLine, runs>>

-----------------------------------------------------------------------------
(* Custom workflows. A duplicate of a built-in one chooses the first name    *)
(* that is free among those it lists, outside the queue; the creation it     *)
(* ends in looks again.                                                      *)
Present == {f \in Flows : flows[f] # Absent}
Chosen == CHOOSE n \in DOMAIN CopyNames :
              /\ CopyNames[n] \notin Present
              /\ \A m \in 1..(n - 1) : CopyNames[m] \in Present
Choose(c) ==
    /\ job[c] = "none" /\ flowLine = <<>>
    /\ \E n \in DOMAIN CopyNames : CopyNames[n] \notin Present
    /\ job' = [job EXCEPT ![c] = "duplicate"]
    /\ target' = [target EXCEPT ![c] = CopyNames[Chosen]]
    /\ UNCHANGED <<step, read, listed, spaces, flows, line, flowLine, repo, runs, faults>>
CreateCopy(c) ==
    /\ job[c] = "duplicate" /\ job' = [job EXCEPT ![c] = "copy"]
    /\ StepTo(c, "queued") /\ flowLine' = Append(flowLine, c)
    /\ UNCHANGED <<target, read, listed, spaces, flows, line, repo, runs, faults>>
AskFlow(c, kind, f) ==
    /\ job[c] = "none" /\ job' = [job EXCEPT ![c] = kind]
    /\ target' = [target EXCEPT ![c] = f] /\ StepTo(c, "queued")
    /\ flowLine' = Append(flowLine, c)
    /\ UNCHANGED <<read, listed, spaces, flows, line, repo, runs, faults>>

(* At the head: a creation wants its name free, an update and a deletion     *)
(* want their file.                                                          *)
Conflict(c) ==
    IF job[c] = "copy" THEN flows[target[c]] # Absent ELSE flows[target[c]] = Absent
ReadFlow(c) ==
    /\ job[c] \in {"copy", "edit", "drop"} /\ step[c] = "queued" /\ Heads(flowLine, c)
    /\ IF Conflict(c) THEN StepTo(c, "failed") /\ flowLine' = QueueWithout(flowLine, c)
                      ELSE StepTo(c, "reading") /\ UNCHANGED flowLine
    /\ UNCHANGED <<job, target, read, listed, spaces, flows, line, repo, runs, faults>>
WriteFlow(c) ==
    /\ job[c] \in {"copy", "edit", "drop"} /\ step[c] = "reading"
    /\ StepTo(c, "done") /\ flowLine' = QueueWithout(flowLine, c)
    /\ flows' = [flows EXCEPT ![target[c]] = IF job[c] = "drop" THEN Absent ELSE c]
    /\ UNCHANGED <<job, target, read, listed, spaces, line, repo, runs, faults>>

(* listWorkflows waits for the queue once, reads the directory and then each *)
(* file: a file that has gone meanwhile fails the whole listing.             *)
ListFlows(c) ==
    /\ job[c] = "none" /\ flowLine = <<>>
    /\ job' = [job EXCEPT ![c] = "flows"] /\ StepTo(c, "reading")
    /\ listed' = [listed EXCEPT ![c] = Present]
    /\ UNCHANGED <<target, read, spaces, flows, line, flowLine, repo, runs, faults>>
ReadListed(c) ==
    /\ job[c] = "flows" /\ step[c] = "reading"
    /\ StepTo(c, IF listed[c] \subseteq Present THEN "done" ELSE "failed")
    /\ listed' = [listed EXCEPT ![c] = {}]
    /\ UNCHANGED <<job, target, read, spaces, flows, line, flowLine, repo, runs, faults>>

StoresNext ==
    \/ \E c \in Clients :
        \/ \E w \in Workspaces, kind \in {"list", "create", "rename", "delete", "find"} :
               AskStore(c, kind, w)
        \/ DeleteChecked(c) \/ ReadSpaces(c) \/ WriteSpaces(c) \/ SaveRun(c) \/ EndRun(c)
        \/ Choose(c) \/ CreateCopy(c) \/ ReadFlow(c) \/ WriteFlow(c)
        \/ ListFlows(c) \/ ReadListed(c)
        \/ \E f \in Flows, kind \in {"edit", "drop"} : AskFlow(c, kind, f)
    \/ RepoChanges
StoresSpec == StoresInit /\ [][StoresNext]_storesVars

-----------------------------------------------------------------------------
Confirmed(kind, x) == {c \in Clients : job[c] = kind /\ target[c] = x /\ step[c] = "done"}
Asked(kinds, x) == {c \in Clients : job[c] \in kinds /\ target[c] = x /\ step[c] # "failed"}

(* What a request was told is done stays so until another one changes it: a  *)
(* workspace that was created, renamed or had its last run noted is not put  *)
(* back by a listing that refreshes the git state or by an older update, one *)
(* that was deleted does not come back, and a copy of a workflow is never    *)
(* written over by another copy (enqueue, mutate, createWorkflow).           *)
NothingLost ==
    /\ \A w \in Workspaces :
        /\ Asked({"delete"}, w) = {} =>
               /\ Confirmed("create", w) # {} => spaces[w] # Absent
               /\ Confirmed("rename", w) # {} => spaces[w].name # "first"
               /\ Confirmed("last", w) # {} /\ spaces[w] # Absent => spaces[w].last
        /\ Confirmed("delete", w) # {} => spaces[w] = Absent
    /\ \A f \in Flows : \A c \in Confirmed("copy", f) :
           Asked({"edit", "drop"}, f) = {} => flows[f] = c
=============================================================================
