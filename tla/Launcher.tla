------------------------------- MODULE Launcher -------------------------------
(* The scripts that start and stop the server from a checkout                *)
(* (scripts/agent): launch.mjs with its mutex, the runner it spawns,         *)
(* runtime-status.mjs, by which every script judges the state file, and      *)
(* stop.mjs. Each of them is a process of its own that may be killed between *)
(* any two of its steps; they share nothing but files.                       *)
(*                                                                           *)
(* A runner has the name of the launch that spawned it, as its start time    *)
(* and its token have. A step is a system call that the others can see.      *)
EXTENDS Naturals, FiniteSets

CONSTANTS Launches,   \* processes that run launch.mjs
          Stops,      \* processes that run stop.mjs
          Nobody,     \* no lock, no state, no process
          MaxKills    \* bound: launch processes that are killed

ASSUME LauncherAssumption == Nobody \notin Launches \cup Stops /\ MaxKills \in Nat

VARIABLES
    launch,      \* launch[l]: where the process is, its attempts, what it waits for
    stopper,     \* stopper[s]: where the process is, the runner it has seen
    runner,      \* runner[l]: the process group spawned by l
    launchLock,  \* launch.lock: who has created it and whether it was written
    state,       \* runtime.json: the runner it names
    kills,       \* launch processes killed so far
    stolen,      \* history: a launch has removed the lock of a living one
    erased,      \* history: runners whose state somebody else removed
    unsaid       \* history: runners whose launch died before it wrote the state

launcherVars == <<launch, stopper, runner, launchLock, state, kills, stolen, erased, unsaid>>

NoLock == [by |-> Nobody, whole |-> FALSE]
EndsOf == {"busy", "blocked", "planned", "refused", "failed", "running", "accepted",
           "timed_out", "ready", "dead"}
LauncherTypeOK ==
    /\ launch \in [Launches -> [
         at : {"new", "locking", "stale", "created", "locked", "clearing", "outdated",
               "building", "built", "spawned", "recorded", "waiting"} \cup EndsOf,
         tries : 0..3,
         on : Launches \cup {Nobody}]]
    /\ stopper \in [Stops -> [
         at : {"new", "seen", "confirmed", "killed", "clearing", "over"},
         on : Launches \cup {Nobody}]]
    /\ runner \in [Launches -> {"none", "building", "ready", "dead"}]
    /\ launchLock \in [by : Launches \cup {Nobody}, whole : BOOLEAN]
    /\ state \in Launches \cup {Nobody}
    /\ kills \in 0..MaxKills /\ stolen \in BOOLEAN
    /\ erased \subseteq Launches /\ unsaid \subseteq Launches

LauncherInit ==
    /\ launch = [l \in Launches |-> [at |-> "new", tries |-> 0, on |-> Nobody]]
    /\ stopper = [s \in Stops |-> [at |-> "new", on |-> Nobody]]
    /\ runner = [l \in Launches |-> "none"]
    /\ launchLock = NoLock /\ state = Nobody /\ kills = 0
    /\ stolen = FALSE /\ erased = {} /\ unsaid = {}

-----------------------------------------------------------------------------
(* What inspectRuntime says: the state of the named runner, which ready      *)
(* marker and failure in its log tell apart (classifyRuntime). The pid of a  *)
(* dead one may have been given to a stranger meanwhile: a foreign process.  *)
(* A file that is being written is not valid JSON.                           *)
RunnerAlive(r) == runner[r] \in {"building", "ready"}
Classified(r) == IF RunnerAlive(r) THEN {runner[r]} ELSE {"exited", "failed", "foreign"}
Torn == \E l \in Launches : launch[l].at = "spawned"
Inspected == (IF state = Nobody THEN {"not_started"} ELSE Classified(state))
             \cup (IF Torn THEN {"invalid"} ELSE {})
Works == {"building", "ready"}
Over  == {"exited", "failed"}

Lives(l) == launch[l].at \notin EndsOf \cup {"new"}

Go(l, place) == launch' = [launch EXCEPT ![l].at = place]
LeaveLaunch(l, place) == launch' = [launch EXCEPT ![l].at = place, ![l].on = Nobody]
Unlocked(l) == IF launchLock.by = l THEN NoLock ELSE launchLock
Unhistoried == UNCHANGED <<stolen, erased, unsaid>>

(* Removing the state file, whoever it names by now; `r` is who it named     *)
(* when the process looked.                                                  *)
RemoveState(r) == /\ state' = Nobody
             /\ erased' = IF state \notin {r, Nobody} THEN erased \cup {state} ELSE erased

-----------------------------------------------------------------------------
(* Tools are missing, or --dry-run only says what it would do: nothing is    *)
(* written.                                                                  *)
Blocked(l) ==
    /\ launch[l].at = "new" /\ LeaveLaunch(l, "blocked")
    /\ UNCHANGED <<stopper, runner, launchLock, state, kills>> /\ Unhistoried
DryRun(l) ==
    /\ launch[l].at = "new"
    /\ \E seen \in Inspected :
         LeaveLaunch(l, IF seen \in {"foreign", "invalid"} THEN "refused"
                  ELSE IF seen \in Works THEN "running" ELSE "planned")
    /\ UNCHANGED <<stopper, runner, launchLock, state, kills>> /\ Unhistoried

(* acquireLaunchLock. The exclusive creation of the file, then its contents: *)
(* those go nowhere if somebody has removed the file in between.             *)
CreateLock(l) ==
    /\ launch[l].at \in {"new", "locking"}
    /\ IF launchLock = NoLock
         THEN launchLock' = [by |-> l, whole |-> FALSE] /\ Go(l, "created")
         ELSE UNCHANGED launchLock /\ Go(l, "stale")
    /\ UNCHANGED <<stopper, runner, state, kills>> /\ Unhistoried
WriteLock(l) ==
    /\ launch[l].at = "created" /\ Go(l, "locked")
    /\ launchLock' = IF launchLock.by = l THEN [launchLock EXCEPT !.whole = TRUE] ELSE launchLock
    /\ UNCHANGED <<stopper, runner, state, kills>> /\ Unhistoried

(* The file was there. A living owner keeps it, and so does an owner whose   *)
(* file is empty and less than five seconds old; the pid of a dead owner may *)
(* be a stranger's. Anything else is removed, in the next step.              *)
Respected == launchLock.whole /\ launchLock.by # Nobody /\ Lives(launchLock.by)
JudgeLock(l) ==
    /\ launch[l].at = "stale"
    /\ \/ launchLock # NoLock /\ Go(l, "busy")
       \/ ~Respected /\ launch' = [launch EXCEPT ![l].at = "clearing", ![l].on = launchLock.by]
    /\ UNCHANGED <<stopper, runner, launchLock, state, kills>> /\ Unhistoried
RemoveLock(l) ==
    /\ launch[l].at = "clearing"
    /\ launchLock' = NoLock
    /\ stolen' = (stolen \/ (launchLock.by # Nobody /\ Lives(launchLock.by)))
    /\ LET n == launch[l].tries + 1 IN
       launch' = [launch EXCEPT ![l] =
           [at |-> IF n = 3 THEN "busy" ELSE "locking", tries |-> n, on |-> Nobody]]
    /\ UNCHANGED <<stopper, runner, state, kills, erased, unsaid>>

(* With the mutex: the state is judged again. A living runner is kept, and   *)
(* waited for under --wait; a stranger or a broken state refuses the launch. *)
LockedInspect(l) ==
    /\ launch[l].at = "locked"
    /\ \E seen \in Inspected :
         \/ /\ seen \in Works /\ launchLock' = Unlocked(l)
            /\ launch' = [launch EXCEPT ![l].at = "waiting", ![l].on = state]
         \/ seen \in Works /\ launchLock' = Unlocked(l) /\ Go(l, "running")
         \/ seen \in {"foreign", "invalid"} /\ launchLock' = Unlocked(l) /\ Go(l, "refused")
         \/ /\ seen \in Over /\ UNCHANGED launchLock
            /\ launch' = [launch EXCEPT ![l].at = "outdated", ![l].on = state]
         \/ seen = "not_started" /\ UNCHANGED launchLock /\ Go(l, "building")
    /\ UNCHANGED <<stopper, runner, state, kills>> /\ Unhistoried

(* The state of a runner that has ended is removed.                          *)
RemoveOutdated(l) ==
    /\ launch[l].at = "outdated" /\ RemoveState(launch[l].on) /\ LeaveLaunch(l, "building")
    /\ UNCHANGED <<stopper, runner, launchLock, kills, stolen, unsaid>>

(* The dependencies and the workspace are built (runCommand), then the runner*)
(* is spawned; either may fail.                                              *)
CommandFailure(l) == UNCHANGED runner /\ LeaveLaunch(l, "failed") /\ launchLock' = Unlocked(l)
Build(l) ==
    /\ launch[l].at = "building"
    /\ CommandFailure(l) \/ (Go(l, "built") /\ UNCHANGED <<runner, launchLock>>)
    /\ UNCHANGED <<stopper, state, kills>> /\ Unhistoried
SpawnRunner(l) ==
    /\ launch[l].at = "built"
    /\ \/ CommandFailure(l)
       \/ runner' = [runner EXCEPT ![l] = "building"] /\ Go(l, "spawned") /\ UNCHANGED launchLock
    /\ UNCHANGED <<stopper, state, kills>> /\ Unhistoried

(* The state and the receipt are written; if that fails, the new process is  *)
(* killed and the state removed.                                             *)
LeavesProcess(l) == UNCHANGED runner
TerminateNewProcess(l) == runner' = [runner EXCEPT ![l] = "dead"]
RecordState(l) ==
    /\ launch[l].at = "spawned"
    /\ \/ state' = l /\ Go(l, "recorded") /\ UNCHANGED <<runner, launchLock, erased>>
       \/ TerminateNewProcess(l) /\ RemoveState(l) /\ Go(l, "failed") /\ launchLock' = Unlocked(l)
    /\ UNCHANGED <<stopper, kills, stolen, unsaid>>
ReleaseLock(l) ==
    /\ launch[l].at = "recorded" /\ launchLock' = Unlocked(l)
    /\ \/ launch' = [launch EXCEPT ![l].at = "waiting", ![l].on = l]
       \/ LeaveLaunch(l, "accepted")
    /\ UNCHANGED <<stopper, runner, state, kills>> /\ Unhistoried

(* A look of waitForReadiness for the runner it waits for. A stranger's pid  *)
(* refuses only when the runner is five seconds old. While the decision is   *)
(* pending it looks again, until its time is over.                           *)
ReadinessWaitDecision(seen, mine, graceOver) ==
    IF seen \in {"not_started", "invalid"} THEN "failed"
    ELSE IF state # mine   THEN "refused"
    ELSE IF seen = "ready" THEN "ready"
    ELSE IF seen \in Over  THEN "failed"
    ELSE IF seen = "foreign" /\ graceOver THEN "refused" ELSE "pending"
Wait(l) ==
    /\ launch[l].at = "waiting"
    /\ \E seen \in Inspected, graceOver \in BOOLEAN :
         LET decision == ReadinessWaitDecision(seen, launch[l].on, graceOver)
         IN \/ decision # "pending" /\ LeaveLaunch(l, decision)
            \/ decision = "pending" /\ seen # "foreign" /\ LeaveLaunch(l, "timed_out")
    /\ UNCHANGED <<stopper, runner, launchLock, state, kills>> /\ Unhistoried

KillLaunch(l) ==
    /\ Lives(l) /\ kills < MaxKills /\ kills' = kills + 1 /\ LeaveLaunch(l, "dead")
    /\ unsaid' = IF launch[l].at = "spawned" THEN unsaid \cup {l} ELSE unsaid
    /\ UNCHANGED <<stopper, runner, launchLock, state, stolen, erased>>

-----------------------------------------------------------------------------
(* The runner reports READY, or ends.                                        *)
RunnerReady(l) ==
    /\ runner[l] = "building" /\ runner' = [runner EXCEPT ![l] = "ready"]
    /\ UNCHANGED <<launch, stopper, launchLock, state, kills>> /\ Unhistoried
RunnerEnds(l) ==
    /\ RunnerAlive(l) /\ runner' = [runner EXCEPT ![l] = "dead"]
    /\ UNCHANGED <<launch, stopper, launchLock, state, kills>> /\ Unhistoried

-----------------------------------------------------------------------------
(* stop.mjs: the state is judged twice before anything is signalled. A state *)
(* that names a dead runner is removed, in a step of its own.                *)
StopAt(s, place, r) == stopper' = [stopper EXCEPT ![s] = [at |-> place, on |-> r]]
FirstInspect(s) ==
    /\ stopper[s].at = "new"
    /\ \E seen \in Inspected, clearInvalidState \in BOOLEAN :
         IF clearInvalidState
           THEN StopAt(s, IF seen = "invalid" THEN "clearing" ELSE "over", Nobody)
           ELSE IF seen \in Works THEN StopAt(s, "seen", state)
           ELSE IF seen \in Over  THEN StopAt(s, "clearing", state)
           ELSE StopAt(s, "over", Nobody)
    /\ UNCHANGED <<launch, runner, launchLock, state, kills>> /\ Unhistoried
Confirm(s) ==
    /\ stopper[s].at = "seen"
    /\ \E seen \in Inspected :
         IF seen \in Works /\ state = stopper[s].on THEN StopAt(s, "confirmed", state)
           ELSE IF seen \in Over THEN StopAt(s, "clearing", state)
           ELSE StopAt(s, "over", Nobody)
    /\ UNCHANGED <<launch, runner, launchLock, state, kills>> /\ Unhistoried

(* SIGTERM for the group, three seconds, SIGKILL; it fails if the process    *)
(* outlives that.                                                            *)
SignalProcessTree(r) == runner' = [runner EXCEPT ![r] = "dead"]
KillRunner(s) ==
    /\ stopper[s].at = "confirmed"
    /\ \/ SignalProcessTree(stopper[s].on) /\ StopAt(s, "killed", stopper[s].on)
       \/ RunnerAlive(stopper[s].on) /\ UNCHANGED runner /\ StopAt(s, "over", Nobody)
    /\ UNCHANGED <<launch, launchLock, state, kills>> /\ Unhistoried
SparesReplacement(s, seen) == state = stopper[s].on /\ seen \in Over
AfterKill(s) ==
    /\ stopper[s].at = "killed"
    /\ \E seen \in Inspected :
         IF SparesReplacement(s, seen) THEN StopAt(s, "clearing", state)
                                       ELSE StopAt(s, "over", Nobody)
    /\ UNCHANGED <<launch, runner, launchLock, state, kills>> /\ Unhistoried
ClearState(s) ==
    /\ stopper[s].at = "clearing" /\ RemoveState(stopper[s].on) /\ StopAt(s, "over", Nobody)
    /\ UNCHANGED <<launch, runner, launchLock, kills, stolen, unsaid>>

LauncherNext ==
    \/ \E l \in Launches :
         \/ Blocked(l) \/ DryRun(l) \/ CreateLock(l) \/ WriteLock(l) \/ JudgeLock(l)
         \/ RemoveLock(l) \/ LockedInspect(l) \/ RemoveOutdated(l) \/ Build(l) \/ SpawnRunner(l)
         \/ RecordState(l) \/ ReleaseLock(l) \/ Wait(l) \/ KillLaunch(l) \/ RunnerReady(l)
         \/ RunnerEnds(l)
    \/ \E s \in Stops :
         FirstInspect(s) \/ Confirm(s) \/ KillRunner(s) \/ AfterKill(s) \/ ClearState(s)
LauncherSpec == LauncherInit /\ [][LauncherNext]_launcherVars

-----------------------------------------------------------------------------
(* Every runner that is alive is named by the state file, or about to be, so *)
(* that status and stop know it and a launch does not start another: but for *)
(* the ways the files leave open, a living launch's mutex taken for stale    *)
(* (acquireLaunchLock), a state replaced or written between a look and its   *)
(* removal (stop.mjs, also with --clear-invalid-state) and a launch that died*)
(* between spawn and writeJson.                                              *)
RunnersAreKnown ==
    \A l \in Launches :
        RunnerAlive(l) => \/ state = l \/ launch[l].at = "spawned"
                    \/ stolen \/ l \in erased \/ l \in unsaid
=============================================================================
