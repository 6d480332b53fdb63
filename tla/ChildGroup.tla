------------------------------ MODULE ChildGroup ------------------------------
(* One managed child and its process group (spawn.ts), for the four kinds of *)
(* caller: a turn that a user may kill, the verification of a candidate      *)
(* (engine/verify.ts), a version probe (adapters/base.ts) and an install     *)
(* recipe (api/routes.ts). The leader may leave a helper in its group, which *)
(* ignores SIGTERM as long as it likes and may hold the leader's output. The *)
(* POSIX side; on Windows taskkill takes the tree at once.                   *)
EXTENDS Naturals

VARIABLES
    user,        \* what the child is for
    leader,      \* the process that was spawned, or how it ended
    helper,      \* its descendant: none, or alive, holding the output or not
    events,      \* the child's events the server has handled
    timeout,     \* timeoutTimer
    escalation,  \* escalationTimer of killGroup
    sweep,       \* the timer of terminateProcessGroup
    timedOut,    \* verifyCandidate: onTimeout was called
    flush,       \* probeVersion: exitFlushTimer
    result       \* what the caller was told

groupVars == <<user, leader, helper, events, timeout, escalation, sweep,
               timedOut, flush, result>>

Users  == {"turn", "verify", "probe", "recipe"}
Codes  == {"zero", "nonzero", "signal"}
Timer  == {"unset", "armed", "fired"}

GroupTypeOK ==
    /\ user \in Users
    /\ leader \in {"absent", "failed", "running"} \cup Codes
    /\ helper \in {"none", "holding", "silent"}
    /\ events \subseteq {"exit", "close"}
    /\ timeout \in Timer \cup {"cleared"}
    /\ escalation \in Timer /\ sweep \in Timer
    /\ timedOut \in BOOLEAN /\ flush \in {"unset", "armed", "fired"}
    /\ result \in {"none", "skipped", "error", "timeout", "passed", "failed"}

GroupInit ==
    /\ user \in Users
    /\ leader = "absent" /\ helper = "none" /\ events = {}
    /\ timeout = "unset" /\ escalation = "unset" /\ sweep = "unset"
    /\ timedOut = FALSE /\ flush = "unset" /\ result = "none"

GroupAlive == leader = "running" \/ helper # "none"
SetResult(value) == result' = IF result = "none" THEN value ELSE result
Outcome(code) == IF code = "zero" THEN "passed" ELSE "failed"

-----------------------------------------------------------------------------
(* verifyCandidate returns early: no command, no finished node, no patch, or *)
(* a patch that cannot be read.                                              *)
Skip ==
    /\ user = "verify" /\ leader = "absent" /\ result = "none"
    /\ result' \in {"skipped", "error"}
    /\ UNCHANGED <<user, leader, helper, events, timeout, escalation, sweep, timedOut, flush>>

(* spawnManaged. A spawn that never starts has no pid; its error settles.    *)
SpawnManaged ==
    /\ leader = "absent" /\ result = "none"
    /\ \/ leader' = "running" /\ UNCHANGED result
       \/ leader' = "failed" /\ SetResult(IF user = "verify" THEN "error" ELSE "failed")
    /\ timeout' = IF user = "turn" THEN "unset" ELSE "armed"
    /\ UNCHANGED <<user, helper, events, escalation, sweep, timedOut, flush>>

(* External: the leader starts a helper; each of them ends when it likes, by *)
(* itself or by a SIGTERM.                                                   *)
Fork ==
    /\ leader = "running" /\ helper = "none"
    /\ helper' \in {"holding", "silent"}
    /\ UNCHANGED <<user, leader, events, timeout, escalation, sweep, timedOut, flush, result>>
LeaderEnds ==
    /\ leader = "running" /\ leader' \in Codes
    /\ UNCHANGED <<user, helper, events, timeout, escalation, sweep, timedOut, flush, result>>
HelperEnds ==
    /\ helper # "none" /\ helper' = "none"
    /\ UNCHANGED <<user, leader, events, timeout, escalation, sweep, timedOut, flush, result>>

-----------------------------------------------------------------------------
(* killGroup('SIGTERM'): one escalation timer per child, never cleared.      *)
KillGroup == escalation' = IF escalation = "unset" THEN "armed" ELSE escalation

(* terminateProcessGroup, with nothing to signal or a SIGKILL ten seconds    *)
(* later.                                                                    *)
TerminateProcessGroup == sweep' = IF GroupAlive THEN "armed" ELSE sweep

(* A user kills a turn before its child has closed.                          *)
UserKill ==
    /\ user = "turn" /\ leader \notin {"absent", "failed"} /\ "close" \notin events
    /\ KillGroup
    /\ UNCHANGED <<user, leader, helper, events, timeout, sweep, timedOut, flush, result>>

TimeoutFires ==
    /\ timeout = "armed" /\ leader # "failed" /\ timeout' = "fired"
    /\ timedOut' = (timedOut \/ user = "verify")
    /\ IF user = "probe" THEN SetResult("failed") ELSE UNCHANGED result
    /\ KillGroup
    /\ UNCHANGED <<user, leader, helper, events, sweep, flush>>

(* SIGKILL for whoever is left in the group.                                 *)
Killed ==
    /\ leader' = IF leader = "running" THEN "signal" ELSE leader
    /\ helper' = "none"
EscalationFires ==
    /\ escalation = "armed" /\ escalation' = "fired" /\ Killed
    /\ UNCHANGED <<user, events, timeout, sweep, timedOut, flush, result>>
SweepFires ==
    /\ sweep = "armed" /\ sweep' = "fired" /\ Killed
    /\ UNCHANGED <<user, events, timeout, escalation, timedOut, flush, result>>

-----------------------------------------------------------------------------
(* 'exit': what the leader left behind is swept, unless an escalation is     *)
(* already on its way. A probe waits half a second more for its output.      *)
LeftToClose == UNCHANGED sweep
SweptAtExit == IF escalation = "unset" THEN TerminateProcessGroup ELSE UNCHANGED sweep
OnExit ==
    /\ leader \in Codes /\ "exit" \notin events
    /\ events' = events \cup {"exit"} /\ SweptAtExit
    /\ flush' = IF user = "probe" THEN "armed" ELSE flush
    /\ UNCHANGED <<user, leader, helper, timeout, escalation, timedOut, result>>

FlushFires ==
    /\ flush = "armed" /\ flush' = "fired" /\ SetResult(Outcome(leader))
    /\ UNCHANGED <<user, leader, helper, events, timeout, escalation, sweep, timedOut>>

(* 'close': the leader is gone and nobody holds its output, or the probe has *)
(* let go of it. Its own sweep is for a child that was not swept at the exit *)
(* and has no escalation, which is none.                                     *)
OnClose ==
    /\ "exit" \in events /\ "close" \notin events
    /\ helper # "holding" \/ flush = "fired"
    /\ events' = events \cup {"close"}
    /\ timeout' = IF timeout = "armed" THEN "cleared" ELSE timeout
    /\ SetResult(IF timedOut THEN "timeout" ELSE Outcome(leader))
    /\ UNCHANGED <<user, leader, helper, escalation, sweep, timedOut, flush>>

GroupNext ==
    \/ Skip \/ SpawnManaged \/ Fork \/ LeaderEnds \/ HelperEnds \/ UserKill \/ TimeoutFires
    \/ EscalationFires \/ SweepFires \/ OnExit \/ FlushFires \/ OnClose
GroupSpec == GroupInit /\ [][GroupNext]_groupVars

-----------------------------------------------------------------------------
(* Once the server knows that the leader has exited, a helper that outlived  *)
(* it has a SIGKILL coming: no end of a child leaves its group to itself     *)
(* (killGroup, the exit handler of spawnManaged, terminateProcessGroup).     *)
GroupReaped ==
    "exit" \in events /\ helper # "none" => "armed" \in {escalation, sweep}
=============================================================================
