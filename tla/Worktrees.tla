------------------------------ MODULE Worktrees ------------------------------
(* The worktrees of one run (engine/worktree.ts), what executeNodes prepares *)
(* and finalizes around each attempt of a node, and the application of its   *)
(* patches to the workspace (applyPatch). git is modelled by what its        *)
(* commands do to directories, registrations of worktrees and branches; a    *)
(* step is the code between two awaits. What an agent leaves in its tree is  *)
(* a number; two different patches do not fit on top of each other. A        *)
(* tree is pruned in one step, and no retry begins beside a deletion.        *)
EXTENDS Naturals, FiniteSets

CONSTANTS Candidates,   \* nodes of the stage
          Applies,      \* requests to apply a patch
          MaxTries,     \* attempts of a node
          MaxWork,      \* changes made in a tree
          MaxJams,      \* removals of worktrees that git refuses
          MaxHeads,     \* commits in the workspace
          MaxFalls      \* crashes of the server

ASSUME WorktreesAssumption ==
    {MaxTries, MaxHeads} \subseteq Nat \ {0} /\ {MaxWork, MaxJams, MaxFalls} \subseteq Nat

VARIABLES
    task,      \* task[n]: where the attempt of n is, and NodeRun.baseCommit
    dir, registered, branch,  \* the trees that have each of these
    origin,    \* origin[n]: the commit the tree of its attempt was added at
    content,   \* content[n]: what is in that tree
    staged,    \* staged[n]: what `git add -A` took of it
    patch,     \* patch[k]: the file under artifacts
    head,      \* HEAD of the workspace
    applied, touched,  \* patches in the workspace; it was edited otherwise
    marked,    \* an application left conflict markers there
    request,   \* request[r]: applyPatch
    status,    \* the run: working, over or deleted
    pruner, names,     \* where pruneRunWorktrees is, and the trees it has listed
    jams, falls,       \* counters of the bounds
    pruned,    \* history: the trees were pruned and none was begun since
    early      \* history: they were pruned beside an attempt

worktreeVars == <<task, dir, registered, branch, origin, content, staged, patch, head,
                  applied, touched, marked, request, status, pruner, names, jams,
                  falls, pruned, early>>
treeVars  == <<dir, registered, branch, origin, content, staged, patch>>
otherVars == <<head, applied, touched, marked, request, falls>>
pruneVars == <<status, pruner, names, pruned, early>>

Trees   == Candidates \X (1..MaxTries)
NoPatch == [base |-> 0, work |-> 0]
Tree(n) == <<n, task[n].attempt>>
Answered == [at |-> "idle", of |-> <<>>]

Places == {"queued", "leftover", "unlinked", "adding", "added", "working", "outside",
           "ended", "staged", "diffed", "captured", "rest"}
WorktreesTypeOK ==
    /\ task \in [Candidates -> [at : Places, attempt : 1..MaxTries, base : 0..MaxHeads]]
    /\ dir \subseteq Trees /\ registered \subseteq Trees /\ branch \subseteq Trees
    /\ origin \in [Candidates -> 0..MaxHeads]
    /\ content \in [Candidates -> 0..MaxWork] /\ staged \in [Candidates -> 0..MaxWork]
    /\ patch \in [Trees -> [base : 0..MaxHeads, work : 0..MaxWork]]
    /\ head \in 1..MaxHeads /\ applied \subseteq Trees
    /\ touched \in BOOLEAN /\ marked \in BOOLEAN
    /\ request \in [Applies -> [at : {"idle", "waiting", "checked"},
                                of : Trees \cup {<<>>}]]
    /\ status \in {"working", "over", "deleted"}
    /\ pruner \in {"off", "sweeping", "deleting"} /\ names \subseteq Trees
    /\ jams \in 0..MaxJams /\ falls \in 0..MaxFalls
    /\ pruned \in BOOLEAN /\ early \in BOOLEAN

WorktreesInit ==
    /\ task = [n \in Candidates |-> [at |-> "queued", attempt |-> 1, base |-> 0]]
    /\ dir = {} /\ registered = {} /\ branch = {}
    /\ origin = [n \in Candidates |-> 0] /\ content = origin /\ staged = origin
    /\ patch = [k \in Trees |-> NoPatch]
    /\ head = 1 /\ applied = {} /\ touched = FALSE /\ marked = FALSE
    /\ request = [r \in Applies |-> Answered]
    /\ status = "working" /\ pruner = "off" /\ names = {} /\ jams = 0 /\ falls = 0
    /\ pruned = FALSE /\ early = FALSE

-----------------------------------------------------------------------------
(* git worktree remove --force: it may fail, on a lock, or do its work. The  *)
(* callers go on, and remove the directory by themselves.                    *)
Removed(k) ==
    \/ registered' = registered \ {k} /\ UNCHANGED jams
    \/ k \in registered /\ jams < MaxJams /\ jams' = jams + 1 /\ UNCHANGED registered

(* git branch -D: not while a worktree is registered for the branch.         *)
Dropped(set, known) == branch' = branch \ (set \ known)

Goes(n, place) == task' = [task EXCEPT ![n].at = place]
AtWork == {n \in Candidates : task[n].at \notin {"queued", "rest"}}

-----------------------------------------------------------------------------
(* A worker takes the node: executeNodes has looked whether the workspace is *)
(* a repository. Outside of one the agent works in the workspace.            *)
TakeNode(n) ==
    /\ status = "working" /\ pruner = "off" /\ task[n].at = "queued"
    /\ Goes(n, "leftover") \/ Goes(n, "outside")
    /\ pruned' = FALSE
    /\ UNCHANGED <<treeVars, otherVars, status, pruner, names, early, jams>>

(* createWorktree: what an earlier attempt may have left is removed, then    *)
(* the tree is added on a new branch, and its commit read.                   *)
RemoveLeftover(n) ==
    /\ task[n].at = "leftover" /\ Goes(n, "unlinked")
    /\ Removed(Tree(n)) /\ dir' = dir \ {Tree(n)}
    /\ UNCHANGED <<branch, origin, content, staged, patch, otherVars, pruneVars>>
DropLeftover(n) ==
    /\ task[n].at = "unlinked" /\ Goes(n, "adding") /\ Dropped({Tree(n)}, registered)
    /\ UNCHANGED <<dir, registered, origin, content, staged, patch, otherVars, pruneVars,
                   jams>>
AddTree(n) ==
    LET k == Tree(n) IN
    /\ task[n].at = "adding"
    /\ \/ /\ k \notin dir \cup registered \cup branch /\ Goes(n, "added")
          /\ dir' = dir \cup {k} /\ registered' = registered \cup {k}
          /\ branch' = branch \cup {k} /\ origin' = [origin EXCEPT ![n] = head]
       \/ Goes(n, "rest") /\ UNCHANGED <<dir, registered, branch, origin>>
    /\ UNCHANGED <<content, staged, patch, otherVars, pruneVars, jams>>
ReadBase(n) ==
    /\ task[n].at = "added"
    /\ \/ /\ Tree(n) \in dir
          /\ task' = [task EXCEPT ![n].base = origin[n],
                                  ![n].at = IF status = "working" THEN "working" ELSE "rest"]
       \/ Tree(n) \notin dir /\ Goes(n, "rest")
    /\ UNCHANGED <<treeVars, otherVars, pruneVars, jams>>

(* The agent (external) changes its tree, and a helper it has left behind    *)
(* may do so after its end.                                                  *)
AgentWorks(n) ==
    /\ task[n].at \in {"working", "ended", "staged", "diffed"} /\ Tree(n) \in dir
    /\ content[n] < MaxWork /\ content' = [content EXCEPT ![n] = @ + 1]
    /\ UNCHANGED <<task, dir, registered, branch, origin, staged, patch, otherVars,
                   pruneVars, jams>>
AgentEnds(n) ==
    /\ \/ task[n].at = "working" /\ Goes(n, "ended")
       \/ task[n].at = "outside" /\ Goes(n, "rest")
    /\ UNCHANGED <<treeVars, otherVars, pruneVars, jams>>

(* collectPatch: everything is staged, the index compared with the base, the *)
(* difference written beside its place and moved there. Any of it may fail.  *)
CaptureFails(n) == Goes(n, "rest") /\ UNCHANGED <<staged, patch>>
StageAll(n) ==
    /\ task[n].at = "ended"
    /\ \/ /\ Tree(n) \in dir /\ Goes(n, "staged") /\ UNCHANGED patch
          /\ staged' = [staged EXCEPT ![n] = content[n]]
       \/ CaptureFails(n)
    /\ UNCHANGED <<dir, registered, branch, origin, content, otherVars, pruneVars, jams>>
DiffIndex(n) ==
    /\ task[n].at = "staged"
    /\ \/ Tree(n) \in dir /\ Goes(n, "diffed") /\ UNCHANGED <<staged, patch>>
       \/ CaptureFails(n)
    /\ UNCHANGED <<dir, registered, branch, origin, content, otherVars, pruneVars, jams>>
RenamePatch(n) ==
    /\ task[n].at = "diffed"
    /\ \/ /\ Goes(n, "captured") /\ UNCHANGED staged
          /\ patch' = [patch EXCEPT ![Tree(n)] =
                            [base |-> task[n].base, work |-> staged[n]]]
       \/ CaptureFails(n)
    /\ UNCHANGED <<dir, registered, branch, origin, content, otherVars, pruneVars, jams>>

(* The verify command runs in the tree, after the capture.                   *)
Verify(n) ==
    /\ task[n].at = "captured" /\ Goes(n, "rest")
    /\ UNCHANGED <<treeVars, otherVars, pruneVars, jams>>

(* resetNodeForRetry, by a gate or a user: another attempt, another tree.    *)
Retry(n) ==
    /\ task[n].at = "rest" /\ task[n].attempt < MaxTries
    /\ status # "deleted" /\ pruner = "off" /\ status' = "working"
    /\ task' = [task EXCEPT ![n] = [at |-> "queued", attempt |-> @.attempt + 1, base |-> 0]]
    /\ origin' = [origin EXCEPT ![n] = 0] /\ content' = [content EXCEPT ![n] = 0]
    /\ staged' = [staged EXCEPT ![n] = 0]
    /\ UNCHANGED <<dir, registered, branch, patch, otherVars, pruner, names, early, pruned,
                   jams>>

(* The run is done, or aborted: children are killed and nodes that wait are  *)
(* given up, what runs on goes on to its end.                                *)
RunOver ==
    /\ status = "working" /\ pruner = "off" /\ status' = "over"
    /\ task' = [n \in Candidates |-> IF task[n].at = "queued"
                                     THEN [task[n] EXCEPT !.at = "rest"] ELSE task[n]]
    /\ UNCHANGED <<treeVars, otherVars, pruner, names, pruned, early, jams>>

-----------------------------------------------------------------------------
(* deleteRun, and the boot sweep after a crash: pruneRunWorktrees.           *)
DeleteRun ==
    /\ status = "over" /\ pruner = "off"
    /\ pruner' = "deleting" /\ names' = dir /\ early' = (early \/ AtWork # {})
    /\ UNCHANGED <<task, treeVars, otherVars, status, pruned, jams>>
Crash ==
    /\ falls < MaxFalls /\ falls' = falls + 1
    /\ task' = [n \in Candidates |-> [task[n] EXCEPT !.at = "rest"]]
    /\ request' = [r \in Applies |-> Answered]
    /\ pruner' = (IF status = "working" THEN "sweeping" ELSE "off")
    /\ names' = (IF status = "working" THEN dir ELSE {})
    /\ early' = (early /\ status # "working")
    /\ UNCHANGED <<treeVars, head, applied, touched, marked, status, pruned, jams>>

(* One tree that was listed: the worktree is removed, the branch dropped if  *)
(* that went well, the directory removed in any case.                        *)
PruneTree(k) ==
    /\ pruner # "off" /\ k \in names /\ names' = names \ {k}
    /\ Removed(k) /\ Dropped({k}, registered') /\ dir' = dir \ {k}
    /\ UNCHANGED <<task, origin, content, staged, patch, otherVars, status, pruner,
                   pruned, early>>

(* Then registrations without a directory go, and with them every branch of  *)
(* the run that is left; the directory of the trees, and for a deletion that *)
(* of the run with its patches.                                              *)
LastPass == Dropped(branch, registered \cap dir)
FinishPrune ==
    /\ pruner # "off" /\ names = {}
    /\ registered' = registered \cap dir /\ LastPass /\ dir' = {}
    /\ pruner' = "off" /\ pruned' = TRUE
    /\ IF pruner = "deleting"
         THEN status' = "deleted" /\ patch' = [k \in Trees |-> NoPatch]
         ELSE status' = "over" /\ UNCHANGED patch
    /\ UNCHANGED <<task, origin, content, staged, otherVars, names, early, jams>>

-----------------------------------------------------------------------------
(* applyPatch: the patch of the latest attempt; without one nothing happens. *)
Ask(r, n) ==
    /\ request[r].at = "idle" /\ status # "deleted" /\ pruner # "sweeping"
    /\ patch[Tree(n)] # NoPatch
    /\ request' = [request EXCEPT ![r] = [at |-> "waiting", of |-> Tree(n)]]
    /\ UNCHANGED <<task, treeVars, pruneVars, head, applied, touched, marked, falls,
                   jams>>

(* It fits if its file is there, has a change, and nothing is in its way.    *)
Fits(k) == patch[k].work > 0 /\ ~touched /\ applied \subseteq {k}

(* withMutex: check and application of one request, then of the next. The    *)
(* check changes nothing; without --3way, if git cannot combine the two.     *)
NoMutex == TRUE
MutexFree == \A r \in Applies : request[r].at # "checked"
Check(r) ==
    /\ request[r].at = "waiting" /\ MutexFree
    /\ request' = [request EXCEPT ![r] = IF Fits(@.of) THEN [@ EXCEPT !.at = "checked"]
                                          ELSE Answered]
    /\ UNCHANGED <<task, treeVars, pruneVars, head, applied, touched, marked, falls,
                   jams>>
Apply(r) ==
    LET k == request[r].of IN
    /\ request[r].at = "checked"
    /\ request' = [request EXCEPT ![r] = Answered]
    /\ applied' = IF Fits(k) THEN applied \cup {k} ELSE applied
    /\ marked' = (marked \/ (~Fits(k) /\ patch[k] # NoPatch))
    /\ UNCHANGED <<task, treeVars, pruneVars, head, touched, falls, jams>>

(* The user, or an agent without a tree, changes the workspace or commits.   *)
Edit ==
    /\ ~touched /\ touched' = TRUE
    /\ UNCHANGED <<task, treeVars, pruneVars, head, applied, marked, request, falls, jams>>
Commit ==
    /\ touched /\ head < MaxHeads /\ head' = head + 1
    /\ UNCHANGED <<task, treeVars, pruneVars, applied, touched, marked, request, falls,
                   jams>>

WorktreesNext ==
    \/ \E n \in Candidates :
         \/ TakeNode(n) \/ RemoveLeftover(n) \/ DropLeftover(n) \/ AddTree(n)
         \/ ReadBase(n) \/ AgentWorks(n) \/ AgentEnds(n) \/ StageAll(n) \/ DiffIndex(n)
         \/ RenamePatch(n) \/ Verify(n) \/ Retry(n)
         \/ \E r \in Applies : Ask(r, n)
    \/ \E r \in Applies : Check(r) \/ Apply(r)
    \/ \E k \in Trees : PruneTree(k)
    \/ RunOver \/ DeleteRun \/ Crash \/ FinishPrune \/ Edit \/ Commit
WorktreesSpec == WorktreesInit /\ [][WorktreesNext]_worktreeVars

-----------------------------------------------------------------------------
(* A patch in its place is what was staged of its own attempt's tree against *)
(* the commit of that tree, whatever changed meanwhile and wherever a crash  *)
(* came (createWorktree, collectPatch).                                      *)
PatchIsWhole ==
    \A n \in Candidates : patch[Tree(n)] \in
        {NoPatch, [base |-> origin[n], work |-> staged[n]]}

(* A prune without an attempt beside it leaves no tree, no registration and  *)
(* no branch of the run, although git may have refused to remove a worktree  *)
(* (pruneRunWorktrees).                                                      *)
PrunedClean == pruned /\ ~early => dir \cup registered \cup branch = {}

(* Applications alone leave no conflict markers in the workspace: one that    *)
(* passed its check applies unless somebody else edits there (applyPatch).   *)
MarkersNeedEdits == marked => touched

ArtifactsHold ==
    WorktreesTypeOK /\ PatchIsWhole /\ PrunedClean /\ MarkersNeedEdits
=============================================================================
