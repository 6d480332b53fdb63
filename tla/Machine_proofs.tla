--------------------------- MODULE Machine_proofs ----------------------------
(* What holds of the processes and files of the machine, for any number of   *)
(* them: the groups of the children, the server of the desktop shell, the    *)
(* installation of a provider, the managed runtimes and the scripts that     *)
(* start and stop the server; and of the lines that an attempt's process     *)
(* leaves in its log. The parts share no variable.                           *)
EXTENDS ChildGroup, DesktopShell, ProviderInstall, ManagedRuntimes, Launcher, AttemptEvidence,
        SequenceTheorems, FiniteSetTheorems, TLAPS

-----------------------------------------------------------------------------
(* No end of a child leaves its process group to itself.                     *)
(* What an exit or a fired escalation says of the leader: it has ended and   *)
(* can fork no more, and a group that was sent SIGKILL is empty. A timer of  *)
(* the child is armed only once the child is there.                          *)
ExitIsEnd  == "exit" \in events => leader \in Codes
TimerOwned == timeout = "armed" => leader # "absent"
KillOwned  == escalation # "unset" => leader \notin {"absent", "failed"}
KillEmpty  == escalation = "fired" => leader \in Codes /\ helper = "none"
GroupInv ==
    GroupTypeOK /\ ExitIsEnd /\ TimerOwned /\ KillOwned /\ KillEmpty /\ GroupReaped

LEMMA GroupInitInv == GroupInit => GroupInv
  BY DEF GroupInit, GroupInv, GroupTypeOK, Users, Codes, Timer, ExitIsEnd,
         TimerOwned, KillOwned, KillEmpty, GroupReaped

(* Before the child is there, and after: the steps around spawn.             *)
LEMMA SpawnKeepsInv == GroupInv /\ (Skip \/ SpawnManaged) => GroupInv'
  <1> SUFFICES ASSUME GroupInv, Skip \/ SpawnManaged PROVE GroupInv'
    OBVIOUS
  <1> USE DEF GroupInv, GroupTypeOK, Users, Codes, Timer, ExitIsEnd, TimerOwned,
              KillOwned, KillEmpty, GroupReaped
  <1>1. CASE Skip BY <1>1 DEF Skip
  <1>2. CASE SpawnManaged BY <1>2 DEF SpawnManaged, SetResult
  <1> QED BY <1>1, <1>2

(* The leader and its helper live and end as they like.                      *)
LEMMA GroupEndsKeepInv == GroupInv /\ (Fork \/ LeaderEnds \/ HelperEnds) => GroupInv'
  <1> SUFFICES ASSUME GroupInv, Fork \/ LeaderEnds \/ HelperEnds PROVE GroupInv'
    OBVIOUS
  <1> USE DEF GroupInv, GroupTypeOK, Users, Codes, Timer, ExitIsEnd, TimerOwned,
              KillOwned, KillEmpty, GroupReaped
  <1>1. CASE Fork BY <1>1 DEF Fork
  <1>2. CASE LeaderEnds BY <1>2 DEF LeaderEnds
  <1>3. CASE HelperEnds BY <1>3 DEF HelperEnds
  <1> QED BY <1>1, <1>2, <1>3

(* killGroup, and the two timers that send SIGKILL.                          *)
LEMMA KillsKeepInv ==
    GroupInv /\ (UserKill \/ TimeoutFires \/ EscalationFires \/ SweepFires) => GroupInv'
  <1> SUFFICES ASSUME GroupInv,
                      UserKill \/ TimeoutFires \/ EscalationFires \/ SweepFires
               PROVE  GroupInv'
    OBVIOUS
  <1> USE DEF GroupInv, GroupTypeOK, Users, Codes, Timer, ExitIsEnd, TimerOwned,
              KillOwned, KillEmpty, GroupReaped
  <1>1. CASE UserKill BY <1>1 DEF UserKill, KillGroup
  <1>2. CASE TimeoutFires BY <1>2 DEF TimeoutFires, KillGroup, SetResult
  <1>3. CASE EscalationFires BY <1>3 DEF EscalationFires, Killed
  <1>4. CASE SweepFires BY <1>4 DEF SweepFires, Killed
  <1> QED BY <1>1, <1>2, <1>3, <1>4

(* What the server hears of the end. At the exit the group is swept, unless  *)
(* an escalation is armed, or has fired and left nobody.                     *)
LEMMA EventsKeepInv == GroupInv /\ (OnExit \/ FlushFires \/ OnClose) => GroupInv'
  <1> SUFFICES ASSUME GroupInv, OnExit \/ FlushFires \/ OnClose PROVE GroupInv'
    OBVIOUS
  <1> USE DEF GroupInv, GroupTypeOK, Users, Codes, Timer, ExitIsEnd, TimerOwned,
              KillOwned, KillEmpty, GroupReaped
  <1>1. CASE OnExit
    <2>1. CASE escalation = "unset"
      BY <1>1, <2>1 DEF OnExit, SweptAtExit, TerminateProcessGroup, GroupAlive
    <2>2. CASE escalation # "unset"
      BY <1>1, <2>2 DEF OnExit, SweptAtExit
    <2> QED BY <2>1, <2>2
  <1>2. CASE FlushFires BY <1>2 DEF FlushFires, SetResult, Outcome
  <1>3. CASE OnClose BY <1>3 DEF OnClose, SetResult, Outcome
  <1> QED BY <1>1, <1>2, <1>3

(* Once the server knows that the leader has exited, a helper that outlived  *)
(* it has a SIGKILL coming (killGroup, spawnManaged, terminateProcessGroup). *)
THEOREM GroupReapedHolds == GroupSpec => []GroupReaped
  <1>1. GroupInv /\ [GroupNext]_groupVars => GroupInv'
    <2> SUFFICES ASSUME GroupInv, [GroupNext]_groupVars PROVE GroupInv'
      OBVIOUS
    <2>1. CASE GroupNext
      BY <2>1, SpawnKeepsInv, GroupEndsKeepInv, KillsKeepInv, EventsKeepInv
      DEF GroupNext
    <2>2. CASE UNCHANGED groupVars
      BY <2>2 DEF groupVars, GroupInv, GroupTypeOK, ExitIsEnd, TimerOwned, KillOwned,
                  KillEmpty, GroupReaped
    <2> QED BY <2>1, <2>2
  <1>2. GroupInv => GroupReaped
    BY DEF GroupInv
  <1> QED BY GroupInitInv, <1>1, <1>2, PTL DEF GroupSpec

-----------------------------------------------------------------------------
(* The two threads of the desktop shell leave no server behind.              *)
(* A server that is alive is in the hands of one of the threads or in the    *)
(* slot, and the main thread, which holds the mutex while it terminates the  *)
(* child it took, leaves the slot empty. Whatever start_server hands over    *)
(* before is thus there to be taken; what it has not handed over, it keeps.  *)
ServerOwned == serverProcess \in {"alive", "signalled"} =>
    start \in {"spawned", "dropping"} \/ slot \/ main = "terminating"
SlotEmptied == main \in {"terminating", "exited"} => ~slot
ShellInv == slot \in BOOLEAN /\ ServerOwned /\ SlotEmptied

LEMMA ShellInitInv == ShellInit => ShellInv
  BY DEF ShellInit, ShellInv, ServerOwned, SlotEmptied

(* The steps of start_server.                                                *)
LEMMA StartKeepsInv ==
    ShellInv /\ (\/ ValidateNode \/ FreePort \/ CheckEntry \/ SpawnServer \/ Register
                 \/ DropServer \/ TryPort \/ Navigate \/ TryWait) => ShellInv'
  <1> SUFFICES ASSUME ShellInv,
                      \/ ValidateNode \/ FreePort \/ CheckEntry \/ SpawnServer
                      \/ Register \/ DropServer \/ TryPort \/ Navigate \/ TryWait
               PROVE  ShellInv'
    OBVIOUS
  <1> USE DEF ShellInv, ServerOwned, SlotEmptied, StartAt, Running, StartGoes, ShowError
  <1>1. CASE ValidateNode BY <1>1 DEF ValidateNode
  <1>2. CASE FreePort BY <1>2 DEF FreePort
  <1>3. CASE CheckEntry BY <1>3 DEF CheckEntry
  <1>4. CASE SpawnServer BY <1>4 DEF SpawnServer
  <1>5. CASE Register BY <1>5 DEF Register, TooLate
  <1>6. CASE DropServer BY <1>6 DEF DropServer, Signal
  <1>7. CASE TryPort BY <1>7 DEF TryPort
  <1>8. CASE Navigate BY <1>8 DEF Navigate
  <1>9. CASE TryWait BY <1>9 DEF TryWait
  <1> QED BY <1>1, <1>2, <1>3, <1>4, <1>5, <1>6, <1>7, <1>8, <1>9

(* The steps of the main thread, and the end of the server.                *)
LEMMA StopKeepsInv ==
    ASSUME ShellInv,
           (\E exit \in BOOLEAN : Stop(exit)) \/ TakeChild \/ TerminateChild \/ ServerEnds
    PROVE  ShellInv'
  <1> USE DEF ShellInv, ServerOwned, SlotEmptied
  <1>1. CASE \E exit \in BOOLEAN : Stop(exit) BY <1>1 DEF Stop
  <1>2. CASE TakeChild BY <1>2 DEF TakeChild, Returned
  <1>3. CASE TerminateChild BY <1>3 DEF TerminateChild, Returned, Signal
  <1>4. CASE ServerEnds BY <1>4 DEF ServerEnds
  <1> QED BY <1>1, <1>2, <1>3, <1>4

(* The application leaves no server behind, but for one that start_server    *)
(* had not yet handed over (ServerProcess.stop, start_server), however often *)
(* stop is called.                                                           *)
THEOREM NoServerLeftHolds == ShellSpec => []NoServerLeft
  <1>1. ShellInv /\ [ShellNext]_shellVars => ShellInv'
    <2> SUFFICES ASSUME ShellInv, [ShellNext]_shellVars PROVE ShellInv'
      OBVIOUS
    <2>1. CASE ShellNext
      BY <2>1, StartKeepsInv, StopKeepsInv DEF ShellNext
    <2>2. CASE UNCHANGED shellVars
      BY <2>2 DEF shellVars, ShellInv, ServerOwned, SlotEmptied
    <2> QED BY <2>1, <2>2
  <1>2. ShellInv => NoServerLeft
    BY DEF ShellInv, ServerOwned, SlotEmptied, NoServerLeft
  <1> QED BY ShellInitInv, <1>1, <1>2, PTL DEF ShellSpec

-----------------------------------------------------------------------------
(* The answer to an installation never shows the version from before it.     *)
Seen == {"looked", "ended"}

TypesHold ==
    /\ installed \in Nat
    /\ entry \in {NoProbe} \cup Probes
    /\ probe \in [Probes -> {"new", "started"} \cup Seen]
    /\ found \in [Probes -> Nat]
    /\ at \in [Requests -> {"idle", "listing", "recipe", "relisting", "done", "conflict"}]
    /\ hears \in [Requests -> {NoProbe} \cup Probes]
    /\ kind \in [Requests -> {"none", "list", "refresh", "install", "update"}]
    /\ reply \in [Requests -> Nat]
    /\ least \in [Requests -> Nat]

(* A request whose recipe has not ended asks for no version.                 *)
NothingAsked ==
    \A r \in Requests :
        /\ kind[r] = "none" => at[r] = "idle"
        /\ at[r] \in {"idle", "listing", "recipe", "conflict"} => least[r] = 0

(* No version is undone: what is installed is at least what was there when   *)
(* any recipe ended.                                                         *)
NeverOlder == \A r \in Requests : least[r] <= installed

(* The probe a request waits for after its recipe is one that had not looked *)
(* when the recipe ended. It has been started, so that nobody starts it      *)
(* again.                                                                    *)
ProbeIsYoung ==
    \A r \in Requests :
        /\ at[r] \in {"listing", "relisting"} => hears[r] \in Probes
        /\ at[r] = "relisting" =>
            /\ probe[hears[r]] # "new"
            /\ probe[hears[r]] \in Seen => found[hears[r]] >= least[r]

InstallInv ==
    TypesHold /\ NothingAsked /\ NeverOlder /\ ProbeIsYoung /\ ReplyIsFresh

LEMMA InstallInitInv == InstallInit => InstallInv
  BY DEF InstallInit, InstallInv, TypesHold, Seen, NothingAsked, NeverOlder,
         ProbeIsYoung, ReplyIsFresh

(* A request that lists waits for the probe in the cache or for a new one,   *)
(* which has not looked; whoever waits for a started probe waits for another.*)
LEMMA ListStarts ==
    ASSUME TypesHold, NEW r \in Requests, NEW cached \in {NoProbe} \cup Probes,
           List(r, cached)
    PROVE  /\ entry' \in Probes \cup {NoProbe}
           /\ probe' \in [Probes -> {"new", "started"} \cup Seen]
           /\ hears' \in [Requests -> {NoProbe} \cup Probes]
           /\ \A q \in Requests \ {r} : hears'[q] = hears[q]
           /\ \A p \in Probes : probe[p] # "new" => probe'[p] = probe[p]
           /\ hears'[r] \in Probes
           /\ cached = NoProbe => probe'[hears'[r]] = "started"
  <1>1. CASE cached # NoProbe
    BY <1>1 DEF List, TypesHold
  <1>2. CASE cached = NoProbe
    <2> DEFINE p == CHOOSE p \in Probes : probe[p] = "new"
    <2>1. p \in Probes /\ probe[p] = "new"
      BY <1>2 DEF List
    <2>2. /\ probe' = [probe EXCEPT ![p] = "started"]
          /\ entry' = p /\ hears' = [hears EXCEPT ![r] = p]
      BY <1>2 DEF List
    <2> HIDE DEF p
    <2> QED BY <1>2, <2>1, <2>2 DEF TypesHold, Seen
  <1> QED BY <1>1, <1>2

LEMMA AskKeepsInv ==
    ASSUME InstallInv, NEW r \in Requests,
           NEW name \in {"list", "refresh", "install", "update"}, AskSetup(r, name)
    PROVE  InstallInv'
  <1> DEFINE cached == IF name = "refresh" THEN NoProbe ELSE entry
  <1>1. cached \in {NoProbe} \cup Probes /\ List(r, cached)
    BY DEF AskSetup, InstallInv, TypesHold
  <1> HIDE DEF cached
  <1>2. /\ entry' \in Probes \cup {NoProbe}
        /\ probe' \in [Probes -> {"new", "started"} \cup Seen]
        /\ hears' \in [Requests -> {NoProbe} \cup Probes]
        /\ \A q \in Requests \ {r} : hears'[q] = hears[q]
        /\ \A p \in Probes : probe[p] # "new" => probe'[p] = probe[p]
        /\ hears'[r] \in Probes
    BY <1>1, ListStarts DEF InstallInv
  <1>3. /\ kind[r] = "none" /\ kind' = [kind EXCEPT ![r] = name]
        /\ at' = [at EXCEPT ![r] = "listing"]
        /\ UNCHANGED <<installed, found, reply, least>>
    BY DEF AskSetup
  <1>4. TypesHold'
    BY <1>2, <1>3 DEF InstallInv, TypesHold
  <1>5. NothingAsked' /\ NeverOlder' /\ ReplyIsFresh'
    BY <1>3 DEF InstallInv, TypesHold, NothingAsked, NeverOlder, ReplyIsFresh
  <1>6. ProbeIsYoung'
    BY <1>2, <1>3 DEF InstallInv, TypesHold, ProbeIsYoung, Seen
  <1> QED BY <1>4, <1>5, <1>6 DEF InstallInv

(* A recipe's end forgets the cached probe, so that the next one starts      *)
(* after it.                                                                 *)
LEMMA RecipeEndsKeepsInv ==
    ASSUME InstallInv, NEW r \in Requests, RecipeEnds(r)
    PROVE  InstallInv'
  <1>1. List(r, NoProbe)
    BY DEF RecipeEnds, ClearedEntry
  <1>2. /\ entry' \in Probes \cup {NoProbe}
        /\ probe' \in [Probes -> {"new", "started"} \cup Seen]
        /\ hears' \in [Requests -> {NoProbe} \cup Probes]
        /\ \A q \in Requests \ {r} : hears'[q] = hears[q]
        /\ \A p \in Probes : probe[p] # "new" => probe'[p] = probe[p]
        /\ hears'[r] \in Probes /\ probe'[hears'[r]] = "started"
    BY <1>1, ListStarts DEF InstallInv
  <1>3. /\ at[r] = "recipe" /\ at' = [at EXCEPT ![r] = "relisting"]
        /\ least' = [least EXCEPT ![r] = installed]
        /\ UNCHANGED <<installed, found, kind, reply>>
    BY DEF RecipeEnds
  <1>4. TypesHold'
    BY <1>2, <1>3 DEF InstallInv, TypesHold
  <1>5. NothingAsked' /\ NeverOlder' /\ ReplyIsFresh'
    BY <1>3 DEF InstallInv, TypesHold, NothingAsked, NeverOlder, ReplyIsFresh
  <1>6. ProbeIsYoung'
    BY <1>2, <1>3 DEF InstallInv, TypesHold, ProbeIsYoung, Seen
  <1> QED BY <1>4, <1>5, <1>6 DEF InstallInv

LEMMA RequestKeepsInv ==
    ASSUME InstallInv, NEW r \in Requests, Listed(r) \/ RecipeInstalls(r) \/ Reply(r)
    PROVE  InstallInv'
  <1> USE DEF InstallInv, TypesHold, NothingAsked, NeverOlder, ProbeIsYoung,
              ReplyIsFresh, Seen
  <1>1. CASE Listed(r)
    BY <1>1 DEF Listed, Heard
  <1>2. CASE RecipeInstalls(r)
    BY <1>2 DEF RecipeInstalls
  <1>3. CASE Reply(r)
    BY <1>3 DEF Reply, Heard
  <1> QED BY <1>1, <1>2, <1>3

(* A probe that looks sees what is installed now, which no recipe's end that *)
(* waits for it precedes.                                                    *)
LEMMA ProbeKeepsInv ==
    ASSUME InstallInv, NEW p \in Probes, Look(p) \/ ProbeEnds(p)
    PROVE  InstallInv'
  <1> USE DEF InstallInv, TypesHold, NothingAsked, NeverOlder, ProbeIsYoung,
              ReplyIsFresh, Seen
  <1>1. CASE Look(p)
    BY <1>1 DEF Look
  <1>2. CASE ProbeEnds(p)
    BY <1>2 DEF ProbeEnds
  <1> QED BY <1>1, <1>2

LEMMA InstallRestKeeps == InstallInv /\ (Expire \/ UNCHANGED installVars) => InstallInv'
  BY DEF Expire, installVars, InstallInv, TypesHold, NothingAsked, NeverOlder,
         ProbeIsYoung, ReplyIsFresh

(* The version an installation or an update answers with was looked up after *)
(* its recipe had ended (runProviderRecipe, probeVersion, clearVersionCache),*)
(* for any number of requests, probes and versions.                          *)
THEOREM ReplyIsFreshHolds == InstallSpec => []ReplyIsFresh
  <1>1. InstallInv /\ [InstallNext]_installVars => InstallInv'
    <2> SUFFICES ASSUME InstallInv, [InstallNext]_installVars PROVE InstallInv'
      OBVIOUS
    <2>1. CASE InstallNext
      BY <2>1, AskKeepsInv, RecipeEndsKeepsInv, RequestKeepsInv, ProbeKeepsInv,
         InstallRestKeeps
      DEF InstallNext
    <2>2. CASE UNCHANGED installVars
      BY <2>2, InstallRestKeeps
    <2> QED BY <2>1, <2>2
  <1>2. InstallInv => ReplyIsFresh
    BY DEF InstallInv
  <1> QED BY InstallInitInv, <1>1, <1>2, PTL DEF InstallSpec

-----------------------------------------------------------------------------
(* The managed runtimes. What a probe has found of the managed executable is *)
(* so for as long as the directory is the one that was probed.               *)
AskTypes ==
    ask \in [Lookups -> [
         ph    : {"off", "status", "probing", "probed", "pathing", "over"},
         is    : BOOLEAN,
         out   : {"none", "managed", "broken", "path", "null"},
         calm  : BOOLEAN,
         there : BOOLEAN]]
CacheTypes == cache \in {"unset", "managed", "path", "null"} /\ onPath \in BOOLEAN
ProbedIsSo ==
    \A a \in Lookups : ask[a].ph = "probed" /\ ask[a].calm /\ ask[a].is => dir = "good"
HealInv == AskTypes /\ CacheTypes /\ ProbedIsSo /\ ResolveHeals

LEMMA HealInit == RuntimesInit => HealInv
  BY DEF RuntimesInit, HealInv, AskTypes, CacheTypes, ProbedIsSo, ResolveHeals, Off

(* A lookup that begins has found nothing yet.                               *)
LEMMA BegunType ==
    ASSUME NEW ph, NEW v
    PROVE  \E t \in BOOLEAN : Begun(ph, v) = [ph |-> ph, is |-> FALSE, out |-> "none",
                                              calm |-> TRUE, there |-> t]
  <1>1. Begun(ph, v) = [ph |-> ph, is |-> FALSE, out |-> "none", calm |-> TRUE,
                        there |-> onPath /\ v # "no"]
    BY DEF Begun
  <1>2. CASE onPath /\ v # "no"
    <2>1. (onPath /\ v # "no") = TRUE
      BY <1>2
    <2> QED BY <1>1, <2>1
  <1>3. CASE ~(onPath /\ v # "no")
    <2>1. (onPath /\ v # "no") = FALSE
      BY <1>3
    <2> QED BY <1>1, <2>1
  <1> QED BY <1>2, <1>3

LEMMA BegunHeals ==
    ASSUME HealInv, NEW a \in Lookups, NEW ph \in {"status", "probing"}, NEW v,
           ask' = [ask EXCEPT ![a] = Begun(ph, v)],
           UNCHANGED <<dir, onPath, cache>>
    PROVE  HealInv'
  <1> USE DEF HealInv, AskTypes, CacheTypes, ProbedIsSo, ResolveHeals
  <1>1. PICK t \in BOOLEAN : Begun(ph, v) = [ph |-> ph, is |-> FALSE, out |-> "none",
                                             calm |-> TRUE, there |-> t]
    BY BegunType
  <1>2. /\ Begun(ph, v) \in [
             ph    : {"off", "status", "probing", "probed", "pathing", "over"},
             is    : BOOLEAN,
             out   : {"none", "managed", "broken", "path", "null"},
             calm  : BOOLEAN,
             there : BOOLEAN]
        /\ Begun(ph, v).ph # "probed" /\ Begun(ph, v).ph # "over"
    BY <1>1
  <1>3. AskTypes'
    BY <1>2
  <1> QED BY <1>2, <1>3

(* The steps of a lookup.                                                    *)
LEMMA LookupHeals ==
    ASSUME HealInv, NEW a \in Lookups,
           ProbeManaged(a) \/ UseProbe(a) \/ UsePath(a) \/ Status(a)
    PROVE  HealInv'
  <1> USE DEF HealInv, AskTypes, CacheTypes, ProbedIsSo, ResolveHeals
  <1>1. CASE ProbeManaged(a)
    <2>1. PICK is \in ProbesOf(dir = "good") :
             ask' = [ask EXCEPT ![a].ph = "probed", ![a].is = is]
      BY <1>1 DEF ProbeManaged
    <2>2. is \in BOOLEAN /\ (is => dir = "good") /\ UNCHANGED <<dir, onPath, cache>>
      BY <1>1, <2>1 DEF ProbeManaged, ProbesOf, memory
    <2>3. AskTypes' /\ CacheTypes'
      <3>1. \/ ask' = [ask EXCEPT ![a].ph = "probed", ![a].is = TRUE]
            \/ ask' = [ask EXCEPT ![a].ph = "probed", ![a].is = FALSE]
        BY <2>1, <2>2
      <3>2. AskTypes'
        BY <3>1
      <3> QED BY <2>2, <3>2
    <2>4. /\ ask'[a].ph = "probed" /\ ask'[a].is = is
          /\ \A c \in Lookups \ {a} : ask'[c] = ask[c]
      BY <2>1
    <2>5. ProbedIsSo'
      BY <2>2, <2>4
    <2>6. ResolveHeals'
      BY <2>2, <2>4
    <2> QED BY <2>3, <2>5, <2>6
  <1>2. CASE UseProbe(a)
    <2>1. CASE ask[a].is
      BY <1>2, <2>1 DEF UseProbe, Answer
    <2>2. CASE ~ask[a].is
      BY <1>2, <2>2 DEF UseProbe, Answer, Recalled
    <2> QED BY <2>1, <2>2
  <1>3. CASE UsePath(a)
    <2>1. /\ cache' \in {"path", "null"} /\ Answer(a, cache') /\ UNCHANGED <<dir, onPath>>
      BY <1>3 DEF UsePath
    <2> QED BY <2>1 DEF Answer
  <1>4. CASE Status(a)
    <2>1. PICK is \in ProbesOf(dir = "good") :
             IF is THEN Answer(a, "managed")
               ELSE IF dir # "none" THEN Answer(a, "broken")
               ELSE ask' = [ask EXCEPT ![a].ph = "probing"]
      BY <1>4 DEF Status
    <2>2. (is => dir = "good") /\ UNCHANGED <<dir, onPath, cache>>
      BY <1>4, <2>1 DEF Status, ProbesOf, memory
    <2>3. CASE is
      BY <2>1, <2>2, <2>3 DEF Answer
    <2>4. CASE ~is /\ dir # "none"
      BY <2>1, <2>2, <2>4 DEF Answer
    <2>5. CASE ~is /\ dir = "none"
      BY <2>1, <2>2, <2>5
    <2> QED BY <2>3, <2>4, <2>5
  <1> QED BY <1>1, <1>2, <1>3, <1>4

(* A mutation that changes the directory leaves no lookup calm.              *)
LEMMA DisturbedHeals ==
    ASSUME HealInv, NEW d, dir' = d, ask' = Disturbed(ask, d),
           cache' \in {cache, "unset"}, UNCHANGED onPath
    PROVE  HealInv'
  BY DEF Disturbed, HealInv, AskTypes, CacheTypes, ProbedIsSo, ResolveHeals

LEMMA FinishHeals == ASSUME HealInv, NEW d, NEW b, FinishWork(d, b) PROVE HealInv'
  <1> DEFINE one == Disturbed(ask, d)
             it  == Begun("status", version)
  <1>1. /\ dir' = d /\ cache' = "unset" /\ ask' = [one EXCEPT ![EndLookup] = it]
        /\ UNCHANGED onPath
    BY DEF FinishWork
  <1>2. PICK t \in BOOLEAN : it = [ph |-> "status", is |-> FALSE, out |-> "none",
                                   calm |-> TRUE, there |-> t]
    BY BegunType
  <1> HIDE DEF it
  <1>3. /\ it \in [
             ph    : {"off", "status", "probing", "probed", "pathing", "over"},
             is    : BOOLEAN,
             out   : {"none", "managed", "broken", "path", "null"},
             calm  : BOOLEAN,
             there : BOOLEAN]
        /\ it.ph # "probed" /\ it.ph # "over"
    BY <1>2
  <1>4. /\ one \in [Lookups -> [
             ph    : {"off", "status", "probing", "probed", "pathing", "over"},
             is    : BOOLEAN,
             out   : {"none", "managed", "broken", "path", "null"},
             calm  : BOOLEAN,
             there : BOOLEAN]]
        /\ \A a \in Lookups : one[a].calm => ask[a].calm /\ dir' = dir
        /\ \A a \in Lookups : /\ one[a].ph = ask[a].ph /\ one[a].is = ask[a].is
                              /\ one[a].out = ask[a].out
    BY <1>1 DEF Disturbed, HealInv, AskTypes
  <1> HIDE DEF one
  <1>5. AskTypes' /\ CacheTypes'
    BY <1>1, <1>3, <1>4 DEF HealInv, AskTypes, CacheTypes
  <1>6. ProbedIsSo' /\ ResolveHeals'
    BY <1>1, <1>3, <1>4, <1>5 DEF HealInv, AskTypes, ProbedIsSo, ResolveHeals
  <1> QED BY <1>5, <1>6 DEF HealInv

LEMMA WorkHeals ==
    ASSUME HealInv,
           CheckInstalled \/ Stage \/ MoveAway \/ Publish \/ RemoveStarts \/ RemoveDir
    PROVE  HealInv'
  <1>1. \E d, b : FinishWork(d, b) \/ (\E step : WorkGoes(step, d, b))
    <2>1. CASE CheckInstalled BY <2>1 DEF CheckInstalled, ProbesOf
    <2>2. CASE Stage BY <2>2 DEF Stage
    <2>3. CASE MoveAway BY <2>3 DEF MoveAway
    <2>4. CASE Publish BY <2>4 DEF Publish
    <2>5. CASE RemoveStarts BY <2>5 DEF RemoveStarts
    <2>6. CASE RemoveDir BY <2>6 DEF RemoveDir
    <2> QED BY <2>1, <2>2, <2>3, <2>4, <2>5, <2>6
  <1>2. ASSUME NEW step, NEW d, NEW b, WorkGoes(step, d, b) PROVE HealInv'
    BY <1>2, DisturbedHeals DEF WorkGoes, memory
  <1> QED BY <1>1, <1>2, FinishHeals

LEMMA HealRests ==
    ASSUME HealInv,
           \/ UNCHANGED <<dir, onPath, cache, ask>>
           \/ BootInstalls \/ Emit \/ Flip \/ Restart
    PROVE  HealInv'
  <1> USE DEF HealInv, AskTypes, CacheTypes, ProbedIsSo, ResolveHeals, memory
  <1>1. CASE BootInstalls
    BY <1>1 DEF BootInstalls, Lookups
  <1>2. CASE Emit
    BY <1>2 DEF Emit, Off
  <1>3. CASE Flip
    BY <1>3 DEF Flip
  <1>4. CASE Restart
    BY <1>4 DEF Restart, Off
  <1> QED BY <1>1, <1>2, <1>3, <1>4

(* A lookup during which the managed runtime stayed as it was never names a  *)
(* managed runtime that does not work, for any number of lookups, mutations  *)
(* and restarts (resolveRuntimeBinary, finishEvent).                         *)
THEOREM ResolveHealsHolds == RuntimesSpec => []ResolveHeals
  <1>1. HealInv /\ [RuntimesNext]_runtimeVars => HealInv'
    <2> SUFFICES ASSUME HealInv, [RuntimesNext]_runtimeVars PROVE HealInv'
      OBVIOUS
    <2>1. ASSUME NEW c \in Callers, Resolve(c) \/ Refresh(c) PROVE HealInv'
      <3>1. c \in Lookups
        BY DEF Lookups
      <3>2. \E v : ask' = [ask EXCEPT ![c] = Begun("probing", v)]
        BY <2>1 DEF Resolve, Refresh
      <3> QED BY <2>1, <3>1, <3>2, BegunHeals DEF Resolve, Refresh, memory
    <2>2. CASE BootRechecks
      <3>1. BootLookup \in Lookups
        BY DEF Lookups
      <3> QED BY <2>2, <3>1, BegunHeals DEF BootRechecks, memory
    <2>3. ASSUME NEW what, Request(what) PROVE HealInv'
      BY <2>3, HealRests DEF Request, memory
    <2>4. CASE VersionExpires \/ UNCHANGED runtimeVars
      BY <2>4, HealRests DEF VersionExpires, runtimeVars, memory
    <2> QED BY <2>1, <2>2, <2>3, <2>4, LookupHeals, WorkHeals, HealRests DEF RuntimesNext
  <1>2. HealInv => ResolveHeals
    BY DEF HealInv
  <1> QED BY HealInit, <1>1, <1>2, PTL DEF RuntimesSpec

-----------------------------------------------------------------------------
(* The scripts. As long as no launch took a living one's mutex for stale,    *)
(* whoever is past its creation has it.                                      *)
Holding == {"created", "locked", "outdated", "building", "built", "spawned", "recorded"}
Holders == ~stolen => \A l \in Launches : launch[l].at \in Holding => launchLock.by = l

(* A launch spawns one runner, so that a dead one stays dead; whoever is     *)
(* named by a file or known to a script has been spawned, and who is to be   *)
(* cleared away is dead.                                                     *)
Before == {"new", "locking", "stale", "clearing"} \cup (Holding \ {"spawned", "recorded"})
OnceSpawned ==
    \A l \in Launches : /\ launch[l].at \in Before => runner[l] = "none" /\ launch[l].tries < 3
                        /\ launch[l].at \in {"spawned", "recorded"} => runner[l] # "none"
NamedIsSpawned == state # Nobody => runner[state] # "none"
ClearedIsDead ==
    /\ \A l \in Launches : launch[l].at = "outdated" =>
          launch[l].on \in Launches /\ runner[launch[l].on] = "dead"
    /\ \A s \in Stops :
          /\ stopper[s].at = "clearing" /\ stopper[s].on # Nobody => runner[stopper[s].on] = "dead"
          /\ stopper[s].at \in {"seen", "confirmed", "killed"} =>
                stopper[s].on \in Launches /\ runner[stopper[s].on] # "none"

(* Who builds has seen under the mutex that nobody else is at work.          *)
Excused(r) == stolen \/ r \in erased \/ r \in unsaid
BuildsAlone ==
    \A l, r \in Launches :
        launch[l].at \in {"outdated", "building", "built", "spawned"} /\ r # l /\ RunnerAlive(r)
        => Excused(r)

LaunchInv ==
    /\ LauncherTypeOK /\ Holders /\ OnceSpawned /\ NamedIsSpawned /\ ClearedIsDead
    /\ BuildsAlone /\ RunnersAreKnown

LEMMA LaunchInit == LauncherInit => LaunchInv
  <1> SUFFICES ASSUME LauncherInit PROVE LaunchInv
    OBVIOUS
  <1>1. /\ launch = [l \in Launches |-> [at |-> "new", tries |-> 0, on |-> Nobody]]
        /\ stopper = [s \in Stops |-> [at |-> "new", on |-> Nobody]]
        /\ runner = [l \in Launches |-> "none"]
        /\ state = Nobody /\ stolen = FALSE /\ erased = {} /\ unsaid = {} /\ kills = 0
        /\ launchLock = [by |-> Nobody, whole |-> FALSE]
    BY DEF LauncherInit, NoLock
  <1>2. LauncherTypeOK
    <2>1. /\ launch \in [Launches -> [
             at : {"new", "locking", "stale", "created", "locked", "clearing", "outdated",
                   "building", "built", "spawned", "recorded", "waiting"} \cup EndsOf,
             tries : 0..3,
             on : Launches \cup {Nobody}]]
      BY <1>1
    <2>2. kills \in 0..MaxKills
      BY <1>1, LauncherAssumption
    <2> QED BY <1>1, <2>1, <2>2 DEF LauncherTypeOK
  <1>3. Holders /\ OnceSpawned /\ NamedIsSpawned
    BY <1>1 DEF Holders, Holding, OnceSpawned, NamedIsSpawned
  <1>4. ClearedIsDead /\ BuildsAlone /\ RunnersAreKnown
    BY <1>1 DEF ClearedIsDead, BuildsAlone, RunnersAreKnown, RunnerAlive
  <1> QED BY <1>2, <1>3, <1>4 DEF LaunchInv

LEMMA EndsAreNotHolding ==
    /\ EndsOf \cap Before = {} /\ Holding \cap EndsOf = {} /\ "new" \notin Holding
    /\ Nobody \notin Launches
  BY LauncherAssumption DEF EndsOf, Before, Holding

(* A launch moves on and touches the mutex at most.                          *)
LEMMA LaunchMoves ==
    ASSUME LaunchInv, NEW l \in Launches, LauncherTypeOK', Holders',
           UNCHANGED <<stopper, runner, state, erased, unsaid>>, stolen => stolen',
           \A k \in Launches \ {l} : launch'[k] = launch[k],
           launch[l].at # "spawned",
           launch'[l].at \in Before => launch[l].at \in Before /\ launch'[l].tries < 3,
           launch'[l].at \in {"spawned", "recorded"} => launch[l].at = "recorded",
           launch'[l].at = "outdated" =>
              launch'[l].on \in Launches /\ runner[launch'[l].on] = "dead",
           launch'[l].at \in {"outdated", "building", "built", "spawned"} =>
              \/ launch[l].at \in {"outdated", "building", "built", "spawned"}
              \/ \A r \in Launches \ {l} : RunnerAlive(r) => Excused(r)
    PROVE  LaunchInv'
  <1>1. OnceSpawned' /\ NamedIsSpawned'
    BY DEF LaunchInv, OnceSpawned, NamedIsSpawned
  <1>2. ClearedIsDead'
    BY DEF LaunchInv, ClearedIsDead
  <1>3. \A r \in Launches : (RunnerAlive(r)' = RunnerAlive(r)) /\ (Excused(r) => Excused(r)')
    BY DEF RunnerAlive, Excused
  <1>4. BuildsAlone'
    BY <1>3 DEF LaunchInv, BuildsAlone
  <1>5. RunnersAreKnown'
    <2>1. \A r \in Launches : launch[r].at = "spawned" => launch'[r].at = "spawned"
      OBVIOUS
    <2> QED BY <1>3, <2>1 DEF LaunchInv, RunnersAreKnown, Excused
  <1> QED BY <1>1, <1>2, <1>4, <1>5 DEF LaunchInv

Places == {"new", "locking", "stale", "created", "locked", "clearing", "outdated",
           "building", "built", "spawned", "recorded", "waiting"} \cup EndsOf
LaunchTypes == [Launches -> [at : Places, tries : 0..3, on : Launches \cup {Nobody}]]

LEMMA Gone ==
    ASSUME LauncherTypeOK, NEW l \in Launches, NEW p \in Places, Go(l, p) \/ LeaveLaunch(l, p)
    PROVE  /\ launch' \in LaunchTypes
           /\ launch'[l].at = p /\ launch'[l].tries = launch[l].tries
           /\ \A k \in Launches \ {l} : launch'[k] = launch[k]
  <1>1. launch \in LaunchTypes
    BY DEF LauncherTypeOK, LaunchTypes, Places
  <1>2. CASE Go(l, p)
    BY <1>1, <1>2 DEF Go, LaunchTypes
  <1>3. CASE LeaveLaunch(l, p)
    BY <1>1, <1>3 DEF LeaveLaunch, LaunchTypes
  <1> QED BY <1>2, <1>3

(* A launch that goes on without the mutex, or ends without it.              *)
LEMMA LaunchWithoutLock ==
    ASSUME LaunchInv, NEW l \in Launches,
           Blocked(l) \/ DryRun(l) \/ CreateLock(l) \/ JudgeLock(l) \/ RemoveLock(l) \/ Wait(l)
    PROVE  LaunchInv'
  <1>1. /\ LauncherTypeOK /\ Holders /\ OnceSpawned /\ Nobody \notin Launches
    BY EndsAreNotHolding DEF LaunchInv
  <1>2. EndsOf \subseteq Places /\ {"created", "stale", "locking"} \subseteq Places
    BY DEF Places
  <1>3. ASSUME NEW p \in EndsOf, launch[l].at \in {"new", "waiting"}, LeaveLaunch(l, p),
               UNCHANGED <<stopper, runner, launchLock, state, kills, stolen, erased, unsaid>>
        PROVE  LaunchInv'
    <2>1. /\ launch' \in LaunchTypes /\ launch'[l].at = p
          /\ \A k \in Launches \ {l} : launch'[k] = launch[k]
      BY <1>1, <1>2, <1>3, Gone
    <2>2. LauncherTypeOK'
      BY <1>1, <1>3, <2>1 DEF LauncherTypeOK, LaunchTypes, Places
    <2>3. p \notin Holding /\ p \notin Before /\ p \notin {"outdated", "building", "built", "spawned", "recorded"}
      BY EndsAreNotHolding DEF Holding
    <2>4. Holders'
      BY <1>1, <1>3, <2>1, <2>3 DEF Holders
    <2> QED BY <1>3, <2>1, <2>2, <2>3, <2>4, LaunchMoves
  <1>4. CASE Blocked(l)
    BY <1>3, <1>4 DEF Blocked, Unhistoried, EndsOf
  <1>5. CASE DryRun(l)
    <2>1. PICK sees \in Inspected :
             LeaveLaunch(l, IF sees \in {"foreign", "invalid"} THEN "refused"
                            ELSE IF sees \in Works THEN "running" ELSE "planned")
      BY <1>5 DEF DryRun
    <2> QED BY <1>3, <1>5, <2>1 DEF DryRun, Unhistoried, EndsOf
  <1>6. CASE Wait(l)
    <2>1. PICK d \in {"failed", "refused", "ready", "timed_out"} : LeaveLaunch(l, d)
      <3>1. PICK sees \in Inspected, graceOver \in BOOLEAN :
               \E decision \in {ReadinessWaitDecision(sees, launch[l].on, graceOver)} :
                  \/ decision # "pending" /\ LeaveLaunch(l, decision)
                  \/ decision = "pending" /\ LeaveLaunch(l, "timed_out")
        BY <1>6 DEF Wait
      <3>2. ReadinessWaitDecision(sees, launch[l].on, graceOver)
              \in {"failed", "refused", "ready", "pending"}
        BY DEF ReadinessWaitDecision
      <3> QED BY <3>1, <3>2
    <2> QED BY <1>3, <1>6, <2>1 DEF Wait, Unhistoried, EndsOf
  <1>7. CASE CreateLock(l)
    <2> DEFINE q == IF launchLock = NoLock THEN "created" ELSE "stale"
    <2>1. /\ launch[l].at \in {"new", "locking"} /\ Go(l, q) /\ q \in {"created", "stale"}
          /\ launchLock' = IF launchLock = NoLock THEN [by |-> l, whole |-> FALSE] ELSE launchLock
          /\ UNCHANGED <<stopper, runner, state, kills, stolen, erased, unsaid>>
      BY <1>7 DEF CreateLock, Unhistoried
    <2>2. q = "created" <=> launchLock = NoLock
      OBVIOUS
    <2> HIDE DEF q
    <2>3. /\ launch' \in LaunchTypes /\ launch'[l].at = q /\ launch'[l].tries = launch[l].tries
          /\ \A k \in Launches \ {l} : launch'[k] = launch[k]
      BY <1>1, <1>2, <2>1, Gone
    <2>4. LauncherTypeOK'
      BY <1>1, <2>1, <2>3 DEF LauncherTypeOK, LaunchTypes, Places
    <2>5. Holders'
      BY <1>1, <2>1, <2>2, <2>3 DEF Holders, Holding, NoLock
    <2>6. launch[l].at \in Before /\ launch[l].tries < 3
      BY <1>1, <2>1 DEF OnceSpawned, Before
    <2> QED BY <2>1, <2>3, <2>4, <2>5, <2>6, LaunchMoves
  <1>8. CASE JudgeLock(l)
    <2>1. /\ launch[l].at = "stale" /\ launch' \in LaunchTypes
          /\ launch'[l].at \in {"busy", "clearing"} /\ launch'[l].tries = launch[l].tries
          /\ \A k \in Launches \ {l} : launch'[k] = launch[k]
          /\ UNCHANGED <<stopper, runner, launchLock, state, kills, stolen, erased, unsaid>>
      <3>1. CASE Go(l, "busy")
        BY <1>1, <1>2, <1>8, <3>1, Gone DEF JudgeLock, Unhistoried, EndsOf
      <3>2. CASE launch' = [launch EXCEPT ![l].at = "clearing", ![l].on = launchLock.by]
        <4>1. launch \in LaunchTypes /\ launchLock.by \in Launches \cup {Nobody}
              /\ "clearing" \in Places
          BY <1>1 DEF LauncherTypeOK, LaunchTypes, Places
        <4>2. /\ launch' \in LaunchTypes
              /\ launch'[l].at = "clearing" /\ launch'[l].tries = launch[l].tries
              /\ \A k \in Launches \ {l} : launch'[k] = launch[k]
          BY <3>2, <4>1 DEF LaunchTypes
        <4> QED BY <1>8, <4>2 DEF JudgeLock, Unhistoried
      <3> QED BY <1>8, <3>1, <3>2 DEF JudgeLock
    <2>2. LauncherTypeOK'
      BY <1>1, <2>1 DEF LauncherTypeOK, LaunchTypes, Places
    <2>3. Holders'
      BY <1>1, <2>1 DEF Holders, Holding
    <2>4. launch[l].at \in Before /\ launch[l].tries < 3
      BY <1>1, <2>1 DEF OnceSpawned, Before
    <2> QED BY <2>1, <2>2, <2>3, <2>4, LaunchMoves
  <1>9. CASE RemoveLock(l)
    <2> DEFINE n == launch[l].tries + 1
    <2>1. launch[l].at = "clearing" /\ n \in 1..3
      BY <1>1, <1>9 DEF RemoveLock, OnceSpawned, Before, LauncherTypeOK
    <2>2. /\ launch' = [launch EXCEPT ![l] =
                 [at |-> IF n = 3 THEN "busy" ELSE "locking", tries |-> n, on |-> Nobody]]
          /\ launchLock' = NoLock
          /\ stolen' = (stolen \/ (launchLock.by # Nobody /\ Lives(launchLock.by)))
          /\ UNCHANGED <<stopper, runner, state, kills, erased, unsaid>>
      BY <1>9 DEF RemoveLock
    <2> HIDE DEF n
    <2>3. /\ launch' \in LaunchTypes /\ launch'[l].tries = n
          /\ launch'[l].at = (IF n = 3 THEN "busy" ELSE "locking")
          /\ \A k \in Launches \ {l} : launch'[k] = launch[k]
      BY <1>1, <2>1, <2>2 DEF LauncherTypeOK, LaunchTypes, Places, EndsOf
    <2>4. stolen' \in BOOLEAN /\ (stolen => stolen')
      BY <2>2
    <2>5. NoLock \in [by : Launches \cup {Nobody}, whole : BOOLEAN]
      BY DEF NoLock
    <2>6. LauncherTypeOK'
      BY <1>1, <2>2, <2>3, <2>4, <2>5 DEF LauncherTypeOK, LaunchTypes, Places
    <2>7. Holders'
      <3>1. ASSUME NEW k \in Launches, launch'[k].at \in Holding, ~stolen' PROVE FALSE
        <4>1. k # l /\ launch[k].at \in Holding
          BY <2>3, <3>1 DEF Holding
        <4>2. launchLock.by = k
          BY <1>1, <2>4, <3>1, <4>1 DEF Holders
        <4>3. Lives(k)
          BY <4>1, EndsAreNotHolding DEF Lives
        <4> QED BY <1>1, <2>2, <3>1, <4>2, <4>3
      <3> QED BY <3>1 DEF Holders
    <2>8. launch'[l].at \in Before => launch[l].at \in Before /\ launch'[l].tries < 3
      BY <2>1, <2>3 DEF Before, Holding
    <2> QED BY <2>1, <2>2, <2>3, <2>4, <2>6, <2>7, <2>8, LaunchMoves
  <1> QED BY <1>4, <1>5, <1>6, <1>7, <1>8, <1>9

(* What a look at the state says of the runner that it names.                *)
LEMMA WhatIsSeen ==
    ASSUME LaunchInv, NEW sees \in Inspected
    PROVE  /\ sees \in Over => state \in Launches /\ runner[state] = "dead"
           /\ sees \in Works => state \in Launches /\ RunnerAlive(state)
           /\ sees = "not_started" => state = Nobody
           /\ sees \in {"not_started", "invalid", "foreign"} \cup Works \cup Over
           /\ "not_started" \notin Works \cup Over
  <1>1. /\ state \in Launches \cup {Nobody} /\ NamedIsSpawned
        /\ runner \in [Launches -> {"none", "building", "ready", "dead"}]
    BY DEF LaunchInv, LauncherTypeOK
  <1>2. CASE state = Nobody
    BY <1>2 DEF Inspected, Over, Works
  <1>3. CASE state # Nobody
    <2>1. state \in Launches /\ runner[state] \in {"building", "ready", "dead"}
      BY <1>1, <1>3 DEF NamedIsSpawned
    <2>2. sees \in Classified(state) \cup {"invalid"}
      BY <1>3 DEF Inspected
    <2> QED BY <2>1, <2>2 DEF Classified, RunnerAlive, Over, Works
  <1> QED BY <1>2, <1>3

(* Whoever holds the mutex with another at work has stolen it.               *)
LEMMA HoldersApart ==
    ASSUME LaunchInv, NEW k \in Launches, NEW l \in Launches, k # l,
           launch[k].at \in Holding, launch[l].at \in Holding
    PROVE  stolen
  BY DEF LaunchInv, Holders

(* A launch with the mutex.                                                  *)
LEMMA LaunchWithLock ==
    ASSUME LaunchInv, NEW l \in Launches,
           \/ WriteLock(l) \/ LockedInspect(l) \/ ReleaseLock(l)
           \/ (Build(l) \/ SpawnRunner(l)) /\ UNCHANGED runner
    PROVE  LaunchInv'
  <1>1. /\ LauncherTypeOK /\ Holders /\ OnceSpawned /\ Nobody \notin Launches
        /\ launch[l].at \in Holding /\ launch[l].at # "spawned"
    BY EndsAreNotHolding DEF LaunchInv, WriteLock, LockedInspect, ReleaseLock, Build, SpawnRunner,
                             Holding
  <1>2. /\ launch' \in LaunchTypes /\ launch'[l].tries = launch[l].tries
        /\ \A k \in Launches \ {l} : launch'[k] = launch[k]
        /\ UNCHANGED <<stopper, runner, state, kills, stolen, erased, unsaid>>
        /\ launchLock' \in [by : Launches \cup {Nobody}, whole : BOOLEAN]
        /\ \/ /\ launch'[l].at \notin Holding /\ launch'[l].at \notin Before
              /\ launchLock' = Unlocked(l)
           \/ /\ launch[l].at = "created" /\ launch'[l].at = "locked"
              /\ launchLock'.by = launchLock.by
           \/ /\ launch[l].at = "locked" /\ launch'[l].at = "outdated" /\ launchLock' = launchLock
              /\ launch'[l].on = state /\ \E sees \in Inspected : sees \in Over
           \/ /\ launch[l].at = "locked" /\ launch'[l].at = "building" /\ launchLock' = launchLock
              /\ "not_started" \in Inspected
           \/ launch[l].at = "building" /\ launch'[l].at = "built" /\ launchLock' = launchLock
    <2>1. /\ "locked" \in Places /\ "outdated" \in Places /\ "building" \in Places
          /\ "built" \in Places /\ "waiting" \in Places /\ EndsOf \subseteq Places
          /\ "waiting" \notin Holding \cup Before
          /\ \A p \in {"running", "refused", "accepted", "failed"} :
                p \in EndsOf /\ p \notin Holding /\ p \notin Before
      BY DEF Places, EndsOf, Holding, Before
    <2>2. /\ NoLock \in [by : Launches \cup {Nobody}, whole : BOOLEAN]
          /\ launchLock \in [by : Launches \cup {Nobody}, whole : BOOLEAN]
      BY <1>1 DEF NoLock, LauncherTypeOK
    <2>3. Unlocked(l) \in [by : Launches \cup {Nobody}, whole : BOOLEAN]
      BY <2>2 DEF Unlocked
    <2>4. CASE WriteLock(l)
      <3>1. Go(l, "locked") /\ launch[l].at = "created"
            /\ launchLock' \in {launchLock, [launchLock EXCEPT !.whole = TRUE]}
            /\ UNCHANGED <<stopper, runner, state, kills, stolen, erased, unsaid>>
        BY <2>4 DEF WriteLock, Unhistoried
      <3>2. /\ launchLock' \in [by : Launches \cup {Nobody}, whole : BOOLEAN]
            /\ launchLock'.by = launchLock.by
        BY <2>2, <3>1
      <3> QED BY <1>1, <2>1, <3>1, <3>2, Gone
    <2>5. CASE LockedInspect(l)
      <3>1. /\ UNCHANGED <<stopper, runner, state, kills, stolen, erased, unsaid>>
            /\ launch[l].at = "locked"
        BY <2>5 DEF LockedInspect, Unhistoried
      <3>2. PICK sees \in Inspected :
              \/ /\ launchLock' = Unlocked(l)
                 /\ launch' = [launch EXCEPT ![l].at = "waiting", ![l].on = state]
              \/ launchLock' = Unlocked(l) /\ Go(l, "running")
              \/ launchLock' = Unlocked(l) /\ Go(l, "refused")
              \/ /\ sees \in Over /\ UNCHANGED launchLock
                 /\ launch' = [launch EXCEPT ![l].at = "outdated", ![l].on = state]
              \/ sees = "not_started" /\ UNCHANGED launchLock /\ Go(l, "building")
        BY <2>5 DEF LockedInspect
      <3>3. ASSUME NEW p \in Places, launch' = [launch EXCEPT ![l].at = p, ![l].on = state]
            PROVE  /\ launch' \in LaunchTypes /\ launch'[l].at = p /\ launch'[l].on = state
                   /\ launch'[l].tries = launch[l].tries
                   /\ \A k \in Launches \ {l} : launch'[k] = launch[k]
        <4>1. launch \in LaunchTypes /\ state \in Launches \cup {Nobody}
          BY <1>1 DEF LauncherTypeOK, LaunchTypes, Places
        <4> QED BY <3>3, <4>1 DEF LaunchTypes
      <3>4. CASE launch' = [launch EXCEPT ![l].at = "waiting", ![l].on = state]
                 /\ launchLock' = Unlocked(l)
        BY <2>1, <2>3, <3>1, <3>3, <3>4
      <3>5. CASE launchLock' = Unlocked(l) /\ (Go(l, "running") \/ Go(l, "refused"))
        BY <1>1, <2>1, <2>3, <3>1, <3>5, Gone
      <3>6. CASE /\ sees \in Over /\ UNCHANGED launchLock
                 /\ launch' = [launch EXCEPT ![l].at = "outdated", ![l].on = state]
        BY <2>1, <2>2, <3>1, <3>3, <3>6
      <3>7. CASE sees = "not_started" /\ UNCHANGED launchLock /\ Go(l, "building")
        BY <1>1, <2>1, <2>2, <3>1, <3>7, Gone
      <3> QED BY <3>2, <3>4, <3>5, <3>6, <3>7
    <2>6. CASE ReleaseLock(l)
      <3>1. /\ UNCHANGED <<stopper, runner, state, kills, stolen, erased, unsaid>>
            /\ launchLock' = Unlocked(l)
        BY <2>6 DEF ReleaseLock, Unhistoried
      <3>2. CASE launch' = [launch EXCEPT ![l].at = "waiting", ![l].on = l]
        <4>1. launch \in LaunchTypes
          BY <1>1 DEF LauncherTypeOK, LaunchTypes, Places
        <4>2. /\ launch' \in LaunchTypes /\ launch'[l].at = "waiting"
              /\ launch'[l].tries = launch[l].tries
              /\ \A k \in Launches \ {l} : launch'[k] = launch[k]
          BY <2>1, <3>2, <4>1 DEF LaunchTypes
        <4> QED BY <2>1, <2>3, <3>1, <4>2
      <3>3. CASE LeaveLaunch(l, "accepted")
        BY <1>1, <2>1, <2>3, <3>1, <3>3, Gone
      <3> QED BY <2>6, <3>2, <3>3 DEF ReleaseLock
    <2>7. CASE (Build(l) \/ SpawnRunner(l)) /\ UNCHANGED runner
      <3>1. /\ UNCHANGED <<stopper, runner, state, kills, stolen, erased, unsaid>>
            /\ \/ LeaveLaunch(l, "failed") /\ launchLock' = Unlocked(l)
               \/ launch[l].at = "building" /\ Go(l, "built") /\ UNCHANGED launchLock
        <4>1. CASE Build(l)
          BY <2>7, <4>1 DEF Build, CommandFailure, Unhistoried
        <4>2. CASE SpawnRunner(l)
          <5>1. launch[l].at = "built" /\ runner[l] = "none"
            BY <1>1, <4>2 DEF SpawnRunner, OnceSpawned, Before, Holding
          <5>2. runner' # [runner EXCEPT ![l] = "building"]
            BY <1>1, <2>7, <5>1 DEF LauncherTypeOK
          <5> QED BY <2>7, <4>2, <5>2 DEF SpawnRunner, CommandFailure, Unhistoried
        <4> QED BY <2>7, <4>1, <4>2
      <3> QED BY <1>1, <2>1, <2>2, <2>3, <3>1, Gone
    <2> QED BY <2>4, <2>5, <2>6, <2>7
  <1>3. LauncherTypeOK'
    BY <1>1, <1>2 DEF LauncherTypeOK, LaunchTypes, Places
  <1>4. Holders'
    BY <1>1, <1>2 DEF Holders, Unlocked, Holding, NoLock
  <1>5. launch[l].at \in Before => launch[l].tries < 3
    BY <1>1 DEF OnceSpawned
  <1>6. launch'[l].at = "outdated" => launch'[l].on \in Launches /\ runner[launch'[l].on] = "dead"
    BY <1>2, WhatIsSeen DEF Holding, Before
  <1>7. launch[l].at = "locked" /\ launch'[l].at \in {"outdated", "building"} =>
           \A r \in Launches \ {l} : RunnerAlive(r) => Excused(r)
    <2> SUFFICES ASSUME launch[l].at = "locked", launch'[l].at \in {"outdated", "building"},
                        NEW r \in Launches \ {l}, RunnerAlive(r), ~stolen
                 PROVE  r \in erased \/ r \in unsaid
      BY DEF Excused
    <2>1. state # r
      BY <1>1, <1>2, WhatIsSeen DEF RunnerAlive, Holding, Before
    <2>2. launch[r].at # "spawned"
      BY <1>1, HoldersApart DEF Holding
    <2> QED BY <2>1, <2>2 DEF LaunchInv, RunnersAreKnown
  <1> QED
    BY <1>1, <1>2, <1>3, <1>4, <1>5, <1>6, <1>7, LaunchMoves DEF Holding, Before

(* The steps with the mutex that touch runners or the state file.            *)
LEMMA OutdatedRemoved ==
    ASSUME LaunchInv, NEW l \in Launches, RemoveOutdated(l) PROVE LaunchInv'
  <1>1. /\ LauncherTypeOK /\ Holders /\ OnceSpawned /\ Nobody \notin Launches /\ ClearedIsDead
        /\ BuildsAlone /\ RunnersAreKnown
    BY EndsAreNotHolding DEF LaunchInv
  <1>2. /\ launch[l].at = "outdated" /\ LeaveLaunch(l, "building") /\ "building" \in Places
        /\ state' = Nobody /\ runner[launch[l].on] = "dead" /\ launch[l].on \in Launches
        /\ erased' = IF state \notin {launch[l].on, Nobody} THEN erased \cup {state} ELSE erased
        /\ UNCHANGED <<stopper, runner, launchLock, kills, stolen, unsaid>>
    BY <1>1 DEF RemoveOutdated, RemoveState, Places, ClearedIsDead
  <1>3. /\ launch' \in LaunchTypes /\ launch'[l].at = "building"
        /\ launch'[l].tries = launch[l].tries
        /\ \A k \in Launches \ {l} : launch'[k] = launch[k]
    BY <1>1, <1>2, Gone
  <1>4. erased \subseteq erased' /\ erased' \subseteq Launches
    BY <1>1, <1>2 DEF LauncherTypeOK
  <1>5. LauncherTypeOK'
    BY <1>1, <1>2, <1>3, <1>4 DEF LauncherTypeOK, LaunchTypes, Places
  <1>6. Holders' /\ OnceSpawned' /\ NamedIsSpawned'
    BY <1>1, <1>2, <1>3 DEF Holders, Holding, OnceSpawned, Before, NamedIsSpawned
  <1>7. ClearedIsDead'
    BY <1>1, <1>2, <1>3 DEF ClearedIsDead
  <1>8. BuildsAlone'
    BY <1>1, <1>2, <1>3, <1>4 DEF BuildsAlone, RunnerAlive, Excused
  <1>9. RunnersAreKnown'
    BY <1>1, <1>2, <1>3, <1>4 DEF RunnersAreKnown, RunnerAlive
  <1> QED BY <1>5, <1>6, <1>7, <1>8, <1>9 DEF LaunchInv

LEMMA RunnerSpawned ==
    ASSUME LaunchInv, NEW l \in Launches, SpawnRunner(l), runner' # runner PROVE LaunchInv'
  <1>1. /\ LauncherTypeOK /\ Holders /\ OnceSpawned /\ Nobody \notin Launches /\ ClearedIsDead
        /\ BuildsAlone /\ RunnersAreKnown /\ NamedIsSpawned
    BY EndsAreNotHolding DEF LaunchInv
  <1>2. /\ launch[l].at = "built" /\ runner' = [runner EXCEPT ![l] = "building"]
        /\ Go(l, "spawned") /\ "spawned" \in Places
        /\ UNCHANGED <<stopper, launchLock, state, kills, stolen, erased, unsaid>>
    BY DEF SpawnRunner, CommandFailure, Unhistoried, Places
  <1>3. /\ launch' \in LaunchTypes /\ launch'[l].at = "spawned"
        /\ launch'[l].tries = launch[l].tries
        /\ \A k \in Launches \ {l} : launch'[k] = launch[k]
    BY <1>1, <1>2, Gone
  <1>4. /\ runner[l] = "none" /\ runner'[l] = "building"
        /\ \A k \in Launches \ {l} : runner'[k] = runner[k]
        /\ runner' \in [Launches -> {"none", "building", "ready", "dead"}]
    BY <1>1, <1>2 DEF OnceSpawned, Before, Holding, LauncherTypeOK
  <1>5. LauncherTypeOK'
    BY <1>1, <1>2, <1>3, <1>4 DEF LauncherTypeOK, LaunchTypes, Places
  <1>6. Holders' /\ OnceSpawned' /\ NamedIsSpawned'
    BY <1>1, <1>2, <1>3, <1>4 DEF Holders, Holding, OnceSpawned, Before, NamedIsSpawned,
                                  LauncherTypeOK
  <1>7. ClearedIsDead'
    BY <1>1, <1>2, <1>3, <1>4 DEF ClearedIsDead, LauncherTypeOK
  <1>8. BuildsAlone'
    <2>1. ASSUME NEW k \in Launches, NEW r \in Launches,
                 launch'[k].at \in {"outdated", "building", "built", "spawned"}, r # k,
                 RunnerAlive(r)'
          PROVE  Excused(r)'
      <3>1. launch[k].at \in {"outdated", "building", "built", "spawned"}
        BY <1>2, <1>3, <2>1
      <3>2. CASE r = l
        <4>1. stolen
          BY <1>2, <2>1, <3>1, <3>2, HoldersApart DEF Holding
        <4> QED BY <1>2, <4>1 DEF Excused
      <3>3. CASE r # l
        BY <1>1, <1>2, <1>4, <2>1, <3>1, <3>3 DEF BuildsAlone, RunnerAlive, Excused
      <3> QED BY <3>2, <3>3
    <2> QED BY <2>1 DEF BuildsAlone
  <1>9. RunnersAreKnown'
    BY <1>1, <1>2, <1>3, <1>4 DEF RunnersAreKnown, RunnerAlive
  <1> QED BY <1>5, <1>6, <1>7, <1>8, <1>9 DEF LaunchInv

LEMMA StateRecorded ==
    ASSUME LaunchInv, NEW l \in Launches, RecordState(l) PROVE LaunchInv'
  <1>1. /\ LauncherTypeOK /\ Holders /\ OnceSpawned /\ Nobody \notin Launches /\ ClearedIsDead
        /\ BuildsAlone /\ RunnersAreKnown /\ NamedIsSpawned
    BY EndsAreNotHolding DEF LaunchInv
  <1>2. /\ launch[l].at = "spawned" /\ runner[l] # "none"
        /\ UNCHANGED <<stopper, kills, stolen, unsaid>>
    BY <1>1 DEF RecordState, OnceSpawned
  <1>3. CASE state' = l /\ Go(l, "recorded") /\ UNCHANGED <<runner, launchLock, erased>>
    <2>1. /\ launch' \in LaunchTypes /\ launch'[l].at = "recorded"
          /\ launch'[l].tries = launch[l].tries
          /\ \A k \in Launches \ {l} : launch'[k] = launch[k]
      BY <1>1, <1>3, Gone DEF Places
    <2>2. LauncherTypeOK'
      BY <1>1, <1>2, <1>3, <2>1 DEF LauncherTypeOK, LaunchTypes, Places
    <2>3. Holders' /\ OnceSpawned' /\ NamedIsSpawned'
      BY <1>1, <1>2, <1>3, <2>1 DEF Holders, Holding, OnceSpawned, Before, NamedIsSpawned
    <2>4. ClearedIsDead' /\ BuildsAlone'
      BY <1>1, <1>2, <1>3, <2>1 DEF ClearedIsDead, BuildsAlone, RunnerAlive, Excused
    <2>5. RunnersAreKnown'
      <3>1. ASSUME NEW r \in Launches \ {l}, RunnerAlive(r) PROVE Excused(r)
        BY <1>1, <1>2, <3>1 DEF BuildsAlone
      <3> QED BY <1>2, <1>3, <3>1 DEF RunnersAreKnown, RunnerAlive, Excused
    <2> QED BY <2>2, <2>3, <2>4, <2>5 DEF LaunchInv
  <1>4. CASE TerminateNewProcess(l) /\ RemoveState(l) /\ Go(l, "failed") /\ launchLock' = Unlocked(l)
    <2>1. /\ launch' \in LaunchTypes /\ launch'[l].at = "failed"
          /\ launch'[l].tries = launch[l].tries
          /\ \A k \in Launches \ {l} : launch'[k] = launch[k]
      BY <1>1, <1>4, Gone DEF Places, EndsOf
    <2>2. /\ runner'[l] = "dead" /\ \A k \in Launches \ {l} : runner'[k] = runner[k]
          /\ runner' \in [Launches -> {"none", "building", "ready", "dead"}]
      BY <1>1, <1>4 DEF TerminateNewProcess, LauncherTypeOK
    <2>3. /\ state' = Nobody /\ erased \subseteq erased' /\ erased' \subseteq Launches
          /\ state \notin {l, Nobody} => state \in erased'
      BY <1>1, <1>4 DEF RemoveState, LauncherTypeOK
    <2>4. launchLock' \in [by : Launches \cup {Nobody}, whole : BOOLEAN]
      BY <1>1, <1>4 DEF Unlocked, NoLock, LauncherTypeOK
    <2>5. LauncherTypeOK'
      BY <1>1, <1>2, <2>1, <2>2, <2>3, <2>4 DEF LauncherTypeOK, LaunchTypes, Places
    <2>6. Holders'
      BY <1>1, <1>2, <1>4, <2>1 DEF Holders, Holding, Unlocked
    <2>7. OnceSpawned' /\ NamedIsSpawned'
      BY <1>1, <2>1, <2>2, <2>3 DEF OnceSpawned, Before, Holding, NamedIsSpawned
    <2>8. ClearedIsDead'
      BY <1>1, <1>2, <2>1, <2>2 DEF ClearedIsDead, LauncherTypeOK
    <2>9. BuildsAlone'
      BY <1>1, <1>2, <2>1, <2>2, <2>3 DEF BuildsAlone, RunnerAlive, Excused
    <2>10. RunnersAreKnown'
      BY <1>1, <1>2, <2>1, <2>2, <2>3 DEF RunnersAreKnown, RunnerAlive
    <2> QED BY <2>5, <2>6, <2>7, <2>8, <2>9, <2>10 DEF LaunchInv
  <1> QED BY <1>3, <1>4 DEF RecordState

(* A launch is killed; a runner reports or ends.                             *)
LEMMA LaunchKilled == ASSUME LaunchInv, NEW l \in Launches, KillLaunch(l) PROVE LaunchInv'
  <1>1. /\ LauncherTypeOK /\ Holders /\ OnceSpawned /\ Nobody \notin Launches /\ ClearedIsDead
        /\ BuildsAlone /\ RunnersAreKnown /\ NamedIsSpawned
    BY EndsAreNotHolding DEF LaunchInv
  <1>2. /\ LeaveLaunch(l, "dead") /\ "dead" \in Places /\ kills < MaxKills /\ kills' = kills + 1
        /\ unsaid' = IF launch[l].at = "spawned" THEN unsaid \cup {l} ELSE unsaid
        /\ UNCHANGED <<stopper, runner, launchLock, state, stolen, erased>>
    BY DEF KillLaunch, Places, EndsOf
  <1>3. /\ launch' \in LaunchTypes /\ launch'[l].at = "dead"
        /\ \A k \in Launches \ {l} : launch'[k] = launch[k]
    BY <1>1, <1>2, Gone
  <1>4. unsaid \subseteq unsaid' /\ unsaid' \subseteq Launches /\ kills' \in 0..MaxKills
    BY <1>1, <1>2, LauncherAssumption DEF LauncherTypeOK
  <1>5. LauncherTypeOK'
    BY <1>1, <1>2, <1>3, <1>4 DEF LauncherTypeOK, LaunchTypes, Places
  <1>6. Holders' /\ OnceSpawned' /\ NamedIsSpawned' /\ ClearedIsDead'
    BY <1>1, <1>2, <1>3 DEF Holders, Holding, OnceSpawned, Before, NamedIsSpawned, ClearedIsDead
  <1>7. BuildsAlone' /\ RunnersAreKnown'
    BY <1>1, <1>2, <1>3, <1>4 DEF BuildsAlone, RunnersAreKnown, RunnerAlive, Excused
  <1> QED BY <1>5, <1>6, <1>7 DEF LaunchInv

LEMMA RunnerMoves ==
    ASSUME LaunchInv, NEW l \in Launches, RunnerReady(l) \/ RunnerEnds(l) PROVE LaunchInv'
  <1>1. /\ LauncherTypeOK /\ OnceSpawned /\ ClearedIsDead /\ BuildsAlone /\ RunnersAreKnown
        /\ NamedIsSpawned /\ Holders
    BY DEF LaunchInv
  <1>2. /\ RunnerAlive(l) /\ runner'[l] \in {"ready", "dead"}
        /\ \A k \in Launches \ {l} : runner'[k] = runner[k]
        /\ runner' \in [Launches -> {"none", "building", "ready", "dead"}]
        /\ UNCHANGED <<launch, stopper, launchLock, state, kills, stolen, erased, unsaid>>
    BY <1>1 DEF RunnerReady, RunnerEnds, RunnerAlive, Unhistoried, LauncherTypeOK
  <1>3. LauncherTypeOK' /\ Holders'
    BY <1>1, <1>2 DEF LauncherTypeOK, Holders
  <1>4. OnceSpawned' /\ NamedIsSpawned' /\ ClearedIsDead'
    BY <1>1, <1>2 DEF OnceSpawned, NamedIsSpawned, ClearedIsDead, RunnerAlive, LauncherTypeOK
  <1>5. BuildsAlone' /\ RunnersAreKnown'
    BY <1>1, <1>2 DEF BuildsAlone, RunnersAreKnown, RunnerAlive, Excused
  <1> QED BY <1>3, <1>4, <1>5 DEF LaunchInv

(* stop.mjs: what it signals and what it clears away, it has seen.           *)
LEMMA StopMoves ==
    ASSUME LaunchInv, NEW s \in Stops,
           FirstInspect(s) \/ Confirm(s) \/ KillRunner(s) \/ AfterKill(s) \/ ClearState(s)
    PROVE  LaunchInv'
  <1>1. /\ LauncherTypeOK /\ OnceSpawned /\ ClearedIsDead /\ BuildsAlone /\ RunnersAreKnown
        /\ NamedIsSpawned /\ Holders /\ Nobody \notin Launches
    BY EndsAreNotHolding DEF LaunchInv
  <1>2. ASSUME NEW p \in {"seen", "confirmed", "killed", "clearing", "over"},
               NEW r \in Launches \cup {Nobody}, StopAt(s, p, r)
        PROVE  /\ stopper' \in [Stops -> [
                    at : {"new", "seen", "confirmed", "killed", "clearing", "over"},
                    on : Launches \cup {Nobody}]]
               /\ stopper'[s].at = p /\ stopper'[s].on = r
               /\ \A t \in Stops \ {s} : stopper'[t] = stopper[t]
    BY <1>1, <1>2 DEF StopAt, LauncherTypeOK
  <1>3. ASSUME NEW p \in {"seen", "confirmed", "killed", "clearing", "over"},
               NEW r \in Launches \cup {Nobody}, StopAt(s, p, r),
               p = "clearing" /\ r # Nobody => runner[r] = "dead",
               p \in {"seen", "confirmed"} => r \in Launches /\ runner[r] # "none",
               p # "killed",
               UNCHANGED <<launch, runner, launchLock, state, kills, stolen, erased, unsaid>>
        PROVE  LaunchInv'
    <2>1. /\ stopper' \in [Stops -> [
                at : {"new", "seen", "confirmed", "killed", "clearing", "over"},
                on : Launches \cup {Nobody}]]
          /\ stopper'[s].at = p /\ stopper'[s].on = r
          /\ \A t \in Stops \ {s} : stopper'[t] = stopper[t]
      BY <1>2, <1>3
    <2>2. LauncherTypeOK'
      BY <1>1, <1>3, <2>1 DEF LauncherTypeOK
    <2>3. ClearedIsDead'
      BY <1>1, <1>3, <2>1 DEF ClearedIsDead
    <2>4. Holders' /\ OnceSpawned' /\ NamedIsSpawned' /\ BuildsAlone' /\ RunnersAreKnown'
      BY <1>1, <1>3 DEF Holders, OnceSpawned, NamedIsSpawned, BuildsAlone, RunnersAreKnown,
                        RunnerAlive, Excused
    <2> QED BY <2>2, <2>3, <2>4 DEF LaunchInv
  <1>4. CASE FirstInspect(s) \/ Confirm(s) \/ AfterKill(s)
    <2>1. PICK p \in {"seen", "confirmed", "clearing", "over"}, r \in {state, Nobody},
               sees \in Inspected :
             /\ StopAt(s, p, r)
             /\ p = "clearing" => r = Nobody \/ sees \in Over
             /\ p \in {"seen", "confirmed"} => r = state /\ sees \in Works
      <3>1. CASE FirstInspect(s) BY <3>1 DEF FirstInspect
      <3>2. CASE Confirm(s) BY <3>2 DEF Confirm
      <3>3. CASE AfterKill(s) BY <3>3 DEF AfterKill, SparesReplacement
      <3> QED BY <1>4, <3>1, <3>2, <3>3
    <2>2. /\ r \in Launches \cup {Nobody}
          /\ p = "clearing" /\ r # Nobody => runner[r] = "dead"
          /\ p \in {"seen", "confirmed"} => r \in Launches /\ runner[r] # "none"
          /\ p # "killed"
      BY <1>1, <2>1, WhatIsSeen DEF LauncherTypeOK, RunnerAlive
    <2> QED BY <1>3, <1>4, <2>1, <2>2 DEF FirstInspect, Confirm, AfterKill, Unhistoried
  <1>5. CASE KillRunner(s)
    <2> DEFINE r == stopper[s].on
    <2>1. r \in Launches /\ runner[r] # "none"
          /\ UNCHANGED <<launch, launchLock, state, kills, stolen, erased, unsaid>>
      BY <1>1, <1>5 DEF KillRunner, ClearedIsDead, Unhistoried
    <2>2. CASE UNCHANGED runner /\ StopAt(s, "over", Nobody)
      BY <1>3, <2>1, <2>2
    <2>3. CASE SignalProcessTree(r) /\ StopAt(s, "killed", r)
      <3> HIDE DEF r
      <3>1. /\ runner'[r] = "dead" /\ \A k \in Launches \ {r} : runner'[k] = runner[k]
            /\ runner' \in [Launches -> {"none", "building", "ready", "dead"}]
        BY <1>1, <2>1, <2>3 DEF SignalProcessTree, LauncherTypeOK
      <3>2. /\ stopper' \in [Stops -> [
                  at : {"new", "seen", "confirmed", "killed", "clearing", "over"},
                  on : Launches \cup {Nobody}]]
            /\ stopper'[s].at = "killed" /\ stopper'[s].on = r
            /\ \A t \in Stops \ {s} : stopper'[t] = stopper[t]
        BY <1>2, <2>1, <2>3
      <3>3. LauncherTypeOK' /\ Holders'
        BY <1>1, <2>1, <3>1, <3>2 DEF LauncherTypeOK, Holders
      <3>4. ClearedIsDead'
        BY <1>1, <2>1, <3>1, <3>2 DEF ClearedIsDead, LauncherTypeOK
      <3>5. OnceSpawned' /\ NamedIsSpawned'
        BY <1>1, <2>1, <3>1 DEF OnceSpawned, NamedIsSpawned, LauncherTypeOK
      <3>6. BuildsAlone' /\ RunnersAreKnown'
        BY <1>1, <2>1, <3>1 DEF BuildsAlone, RunnersAreKnown, RunnerAlive, Excused
      <3> QED BY <3>3, <3>4, <3>5, <3>6 DEF LaunchInv
    <2> QED BY <1>5, <2>2, <2>3 DEF KillRunner
  <1>6. CASE ClearState(s)
    <2> DEFINE r == stopper[s].on
    <2>1. /\ state' = Nobody /\ r \in Launches \cup {Nobody} /\ StopAt(s, "over", Nobody)
          /\ r # Nobody => runner[r] = "dead"
          /\ erased' = IF state \notin {r, Nobody} THEN erased \cup {state} ELSE erased
          /\ UNCHANGED <<launch, runner, launchLock, kills, stolen, unsaid>>
      BY <1>1, <1>6 DEF ClearState, RemoveState, ClearedIsDead, LauncherTypeOK
    <2> HIDE DEF r
    <2>2. /\ stopper' \in [Stops -> [
                at : {"new", "seen", "confirmed", "killed", "clearing", "over"},
                on : Launches \cup {Nobody}]]
          /\ stopper'[s].at = "over" /\ \A t \in Stops \ {s} : stopper'[t] = stopper[t]
      BY <1>2, <2>1
    <2>3. erased \subseteq erased' /\ erased' \subseteq Launches
      BY <1>1, <2>1 DEF LauncherTypeOK
    <2>4. LauncherTypeOK' /\ Holders'
      BY <1>1, <2>1, <2>2, <2>3 DEF LauncherTypeOK, Holders
    <2>5. OnceSpawned' /\ NamedIsSpawned' /\ ClearedIsDead'
      BY <1>1, <2>1, <2>2 DEF OnceSpawned, NamedIsSpawned, ClearedIsDead
    <2>6. BuildsAlone' /\ RunnersAreKnown'
      BY <1>1, <2>1, <2>3 DEF BuildsAlone, RunnersAreKnown, RunnerAlive, Excused
    <2> QED BY <2>4, <2>5, <2>6 DEF LaunchInv
  <1> QED BY <1>4, <1>5, <1>6

(* Every runner that is alive is named by the state file, or about to be,    *)
(* but for the ways the files leave open (launch.mjs, stop.mjs), for any     *)
(* number of processes that launch, stop and are killed between two steps.   *)
THEOREM RunnersAreKnownHolds == LauncherSpec => []RunnersAreKnown
  <1>1. LaunchInv /\ [LauncherNext]_launcherVars => LaunchInv'
    <2> SUFFICES ASSUME LaunchInv, [LauncherNext]_launcherVars PROVE LaunchInv'
      OBVIOUS
    <2>1. ASSUME NEW l \in Launches, SpawnRunner(l) PROVE LaunchInv'
      <3>1. runner' = runner \/ runner' # runner
        OBVIOUS
      <3> QED BY <2>1, <3>1, LaunchWithLock, RunnerSpawned
    <2>2. ASSUME NEW l \in Launches, Build(l) PROVE LaunchInv'
      <3>1. UNCHANGED runner
        BY <2>2 DEF Build, CommandFailure
      <3> QED BY <2>2, <3>1, LaunchWithLock
    <2>3. CASE UNCHANGED launcherVars
      BY <2>3 DEF launcherVars, LaunchInv, LauncherTypeOK, Holders, OnceSpawned, NamedIsSpawned,
                  ClearedIsDead, BuildsAlone, RunnersAreKnown, RunnerAlive, Excused
    <2> QED BY <2>1, <2>2, <2>3, LaunchWithoutLock, LaunchWithLock, OutdatedRemoved,
               StateRecorded, LaunchKilled, RunnerMoves, StopMoves
        DEF LauncherNext
  <1>2. LaunchInv => RunnersAreKnown
    BY DEF LaunchInv
  <1> QED BY LaunchInit, <1>1, <1>2, PTL DEF LauncherSpec
-----------------------------------------------------------------------------
(* The lines of an attempt. The two histories are the log and, before it is  *)
(* written, what the bridge keeps back.                                      *)
Lines == [kind : Own \cup Provided, tool : Nat]

(* What two lines must be to each other, the second being the later one.     *)
Fits(x, y) ==
    /\ y.kind \in Provided => x.kind \notin {"result", "resting"}
    /\ x.kind = "answer" /\ y.kind = "answer" => x.tool < y.tool

Ordered(q)   == \A n, m \in DOMAIN q : n < m => Fits(q[n], q[m])
Joins(q, r)  == \A n \in DOMAIN q, m \in DOMAIN r : Fits(q[n], r[m])

(* Every stalled mark is taken back by the next line, but maybe the last.    *)
Healed(q)  == \A n \in DOMAIN q : q[n].kind = "stalled" => n < Len(q) /\ q[n + 1].kind = "recovered"
Waits(q)   == /\ q # <<>> /\ q[Len(q)].kind = "stalled"
              /\ \A n \in DOMAIN q : n < Len(q) /\ q[n].kind = "stalled" => q[n + 1].kind = "recovered"

(* Only what was said after a mark has to take it back.                      *)
Takes(q)   == \A n, m \in DOMAIN q :
                q[n].kind = "stalled" /\ q[m].kind \in Provided /\ n < m => q[n + 1].kind = "recovered"

(* The attempt's lifecycle begins the log.                                   *)
HasBegun(q) == Len(q) >= 2 /\ q[2].kind = "running" /\ \A n \in DOMAIN q : q[n].kind \in Provided => 2 < n

(* The answers so far are older than the uses without one.                   *)
Queued(o, t) ==
    /\ \A i \in DOMAIN o : o[i] \in Nat /\ o[i] <= t
    /\ \A i, j \in DOMAIN o : i < j => o[i] < o[j]
Older(q, o, t) ==
    \A n \in DOMAIN q : q[n].kind = "answer" =>
        q[n].tool <= t /\ \A i \in DOMAIN o : q[n].tool < o[i]

Rested(q) == \E n \in DOMAIN q : q[n].kind = "resting"

EvidenceInv ==
    /\ provider \in {"real", "mock"}
    /\ log \in Seq(Lines) /\ buffer \in Seq(Lines)
    /\ open \in Seq(Nat) /\ tools \in Nat
    /\ attemptPhase \in {"idle", "spawning", "live", "settled", "over"}
    /\ attemptPhase \notin {"spawning"} => buffer = <<>>
    /\ attemptPhase \in {"idle", "spawning"} => log = <<>> /\ nodeStatus = "queued"
    /\ attemptPhase \in {"idle", "spawning", "live"} =>
          ~ended /\ ~Rested(log) /\ ~Rested(buffer)
    /\ attemptPhase \in {"live", "settled"} =>
          /\ HasBegun(log) /\ nodeStatus \in {"running", "stalled"}
          /\ \A n \in DOMAIN log : log[n].kind # "result"
          /\ IF nodeStatus = "stalled" THEN Waits(log) ELSE Healed(log)
    /\ nodeStatus = "ended" => HasBegun(log)
    /\ attemptPhase \in {"settled", "over"} /\ provider = "real" => Rested(log)
    /\ \A n \in DOMAIN buffer : buffer[n].kind \in Provided
    /\ Ordered(log) /\ Ordered(buffer) /\ Older(log, open, tools) /\ Older(buffer, open, tools)
    /\ Queued(open, tools) /\ Takes(log)

LEMMA Concat ==
    ASSUME NEW q \in Seq(Lines), NEW r \in Seq(Lines)
    PROVE  /\ q \o r \in Seq(Lines) /\ Len(q \o r) = Len(q) + Len(r)
           /\ DOMAIN q = 1..Len(q) /\ DOMAIN r = 1..Len(r) /\ DOMAIN (q \o r) = 1..(Len(q) + Len(r))
           /\ Len(q) \in Nat /\ Len(r) \in Nat
           /\ \A i \in 1..Len(q) : (q \o r)[i] = q[i] /\ q[i] \in Lines
           /\ \A i \in 1..Len(r) : (q \o r)[Len(q) + i] = r[i] /\ r[i] \in Lines
           /\ \A i \in DOMAIN (q \o r) : \/ i \in DOMAIN q /\ (q \o r)[i] = q[i]
                                         \/ /\ i > Len(q) /\ i - Len(q) \in DOMAIN r
                                            /\ (q \o r)[i] = r[i - Len(q)]
<1>1. /\ q \o r \in Seq(Lines) /\ Len(q \o r) = Len(q) + Len(r)
      /\ \A i \in 1..(Len(q) + Len(r)) : (q \o r)[i] = IF i <= Len(q) THEN q[i] ELSE r[i - Len(q)]
  BY ConcatProperties
<1>2. /\ DOMAIN q = 1..Len(q) /\ DOMAIN r = 1..Len(r) /\ Len(q) \in Nat /\ Len(r) \in Nat
      /\ DOMAIN (q \o r) = 1..(Len(q) + Len(r))
      /\ \A i \in 1..Len(q) : q[i] \in Lines
      /\ \A i \in 1..Len(r) : r[i] \in Lines
  BY <1>1, LenProperties, ElementOfSeq
<1>3. \A i \in 1..Len(q) : (q \o r)[i] = q[i]
  BY <1>1, <1>2
<1>4. \A i \in 1..Len(r) : (q \o r)[Len(q) + i] = r[i]
  <2> TAKE i \in 1..Len(r)
  <2>1. Len(q) + i \in 1..(Len(q) + Len(r)) /\ ~(Len(q) + i <= Len(q)) /\ Len(q) + i - Len(q) = i
    BY <1>2
  <2> QED
    BY <1>1, <2>1
<1>5. \A i \in DOMAIN (q \o r) : \/ i \in DOMAIN q /\ (q \o r)[i] = q[i]
                                 \/ /\ i > Len(q) /\ i - Len(q) \in DOMAIN r
                                    /\ (q \o r)[i] = r[i - Len(q)]
  BY <1>1, <1>2
<1> QED
  BY <1>1, <1>2, <1>3, <1>4, <1>5

LEMMA JoinOrdered ==
    ASSUME NEW q \in Seq(Lines), NEW r \in Seq(Lines), Ordered(q), Ordered(r), Joins(q, r)
    PROVE  Ordered(q \o r)
<1> DEFINE s == q \o r
<1>1. SUFFICES ASSUME NEW n \in DOMAIN s, NEW m \in DOMAIN s, n < m PROVE Fits(s[n], s[m])
  BY DEF Ordered
<1>2. /\ DOMAIN q = 1..Len(q) /\ DOMAIN r = 1..Len(r) /\ Len(q) \in Nat /\ Len(r) \in Nat
      /\ DOMAIN s = 1..(Len(q) + Len(r))
      /\ \A i \in DOMAIN s : \/ i \in DOMAIN q /\ s[i] = q[i]
                             \/ /\ i > Len(q) /\ i - Len(q) \in DOMAIN r /\ s[i] = r[i - Len(q)]
  BY Concat
<1> HIDE DEF s
<1>3. n \in Nat /\ m \in Nat
  BY <1>2
<1>4. CASE m \in DOMAIN q /\ s[m] = q[m]
  <2>1. n \in DOMAIN q /\ s[n] = q[n]
    BY <1>1, <1>2, <1>3, <1>4
  <2> QED
    BY <1>1, <1>4, <2>1 DEF Ordered
<1>5. CASE m > Len(q) /\ m - Len(q) \in DOMAIN r /\ s[m] = r[m - Len(q)]
  <2>1. CASE n \in DOMAIN q /\ s[n] = q[n]
    BY <1>5, <2>1 DEF Joins
  <2>2. CASE n > Len(q) /\ n - Len(q) \in DOMAIN r /\ s[n] = r[n - Len(q)]
    <3>1. n - Len(q) < m - Len(q)
      BY <1>1, <1>2, <1>3
    <3> QED
      BY <1>5, <2>2, <3>1 DEF Ordered
  <2> QED
    BY <1>2, <2>1, <2>2
<1> QED
  BY <1>2, <1>4, <1>5

LEMMA JoinHealed ==
    ASSUME NEW q \in Seq(Lines), NEW r \in Seq(Lines), Healed(r),
           Healed(q) \/ (Waits(q) /\ r # <<>> /\ r[1].kind = "recovered")
    PROVE  Healed(q \o r)
<1> DEFINE s == q \o r
<1>1. SUFFICES ASSUME NEW n \in DOMAIN s, s[n].kind = "stalled"
               PROVE  n < Len(s) /\ s[n + 1].kind = "recovered"
  BY DEF Healed
<1>2. /\ DOMAIN q = 1..Len(q) /\ DOMAIN r = 1..Len(r) /\ Len(q) \in Nat /\ Len(r) \in Nat
      /\ DOMAIN s = 1..(Len(q) + Len(r)) /\ Len(s) = Len(q) + Len(r)
      /\ \A i \in 1..Len(q) : s[i] = q[i]
      /\ \A i \in 1..Len(r) : s[Len(q) + i] = r[i]
      /\ \A i \in DOMAIN s : \/ i \in DOMAIN q /\ s[i] = q[i]
                             \/ /\ i > Len(q) /\ i - Len(q) \in DOMAIN r /\ s[i] = r[i - Len(q)]
  BY Concat
<1>3. r # <<>> => 1 \in 1..Len(r)
  BY <1>2, EmptySeq, LenProperties
<1> HIDE DEF s
<1>4. CASE n > Len(q) /\ n - Len(q) \in DOMAIN r /\ s[n] = r[n - Len(q)]
  <2>1. n - Len(q) < Len(r) /\ r[(n - Len(q)) + 1].kind = "recovered"
    BY <1>1, <1>4 DEF Healed
  <2>2. n \in Nat /\ n < Len(s) /\ (n - Len(q)) + 1 \in 1..Len(r) /\ Len(q) + ((n - Len(q)) + 1) = n + 1
    BY <1>2, <1>4, <2>1
  <2>3. s[n + 1] = r[(n - Len(q)) + 1]
    BY <1>2, <2>2
  <2> QED
    BY <2>1, <2>2, <2>3
<1>5. CASE n \in DOMAIN q /\ s[n] = q[n]
  <2>1. CASE n < Len(q) /\ q[n + 1].kind = "recovered"
    <3>1. n + 1 \in 1..Len(q) /\ n < Len(s)
      BY <1>2, <1>5, <2>1
    <3> QED
      BY <1>2, <2>1, <3>1
  <2>2. CASE n = Len(q) /\ r # <<>> /\ r[1].kind = "recovered"
    <3>1. s[n + 1] = r[1] /\ n < Len(s)
      BY <1>2, <1>3, <2>2
    <3> QED
      BY <2>2, <3>1
  <2>3. n \in 1..Len(q)
    BY <1>2, <1>5
  <2> QED
    BY <1>1, <1>2, <1>5, <2>1, <2>2, <2>3 DEF Healed, Waits
<1> QED
  BY <1>2, <1>4, <1>5

LEMMA JoinBegun ==
    ASSUME NEW q \in Seq(Lines), NEW r \in Seq(Lines), HasBegun(q) PROVE HasBegun(q \o r)
<1> DEFINE s == q \o r
<1>1. /\ DOMAIN q = 1..Len(q) /\ DOMAIN r = 1..Len(r) /\ Len(q) \in Nat /\ Len(r) \in Nat
      /\ Len(s) = Len(q) + Len(r) /\ \A i \in 1..Len(q) : s[i] = q[i]
      /\ \A i \in DOMAIN s : \/ i \in DOMAIN q /\ s[i] = q[i]
                             \/ /\ i > Len(q) /\ i - Len(q) \in DOMAIN r /\ s[i] = r[i - Len(q)]
      /\ DOMAIN s = 1..(Len(q) + Len(r))
  BY Concat
<1> HIDE DEF s
<1>2. HasBegun(s)
  BY <1>1 DEF HasBegun
<1> QED
  BY <1>2 DEF s

LEMMA JoinRested ==
    ASSUME NEW q \in Seq(Lines), NEW r \in Seq(Lines)
    PROVE  Rested(q \o r) <=> Rested(q) \/ Rested(r)
<1> DEFINE s == q \o r
<1>1. /\ DOMAIN q = 1..Len(q) /\ DOMAIN r = 1..Len(r) /\ Len(q) \in Nat /\ Len(r) \in Nat
      /\ \A i \in 1..Len(q) : s[i] = q[i]
      /\ \A i \in 1..Len(r) : s[Len(q) + i] = r[i]
      /\ \A i \in DOMAIN s : \/ i \in DOMAIN q /\ s[i] = q[i]
                             \/ /\ i > Len(q) /\ i - Len(q) \in DOMAIN r /\ s[i] = r[i - Len(q)]
      /\ DOMAIN s = 1..(Len(q) + Len(r))
  BY Concat
<1> HIDE DEF s
<1>2. Rested(q) => Rested(s)
  BY <1>1 DEF Rested
<1>3. Rested(r) => Rested(s)
  <2> SUFFICES ASSUME NEW n \in DOMAIN r, r[n].kind = "resting" PROVE Rested(s)
    BY DEF Rested
  <2>1. Len(q) + n \in DOMAIN s /\ s[Len(q) + n] = r[n]
    BY <1>1
  <2> QED
    BY <2>1 DEF Rested
<1>4. Rested(s) => Rested(q) \/ Rested(r)
  BY <1>1 DEF Rested
<1> QED
  BY <1>2, <1>3, <1>4 DEF s

(* A fact about every line of two histories is one about their concatenation.*)
LEMMA JoinEach ==
    ASSUME NEW q \in Seq(Lines), NEW r \in Seq(Lines), NEW L,
           \A n \in DOMAIN q : q[n] \in L, \A n \in DOMAIN r : r[n] \in L
    PROVE  \A n \in DOMAIN (q \o r) : (q \o r)[n] \in L
BY Concat

LEMMA JoinOlder ==
    ASSUME NEW q \in Seq(Lines), NEW r \in Seq(Lines), NEW o, NEW t,
           Older(q, o, t), Older(r, o, t)
    PROVE  Older(q \o r, o, t)
<1> DEFINE L == {x \in Lines : x.kind = "answer" => x.tool <= t /\ \A i \in DOMAIN o : x.tool < o[i]}
<1>1. /\ \A n \in DOMAIN q : q[n] \in Lines
      /\ \A n \in DOMAIN r : r[n] \in Lines
  BY Concat
<1>2. \A n \in DOMAIN q : q[n] \in L
  BY <1>1 DEF Older
<1>3. \A n \in DOMAIN r : r[n] \in L
  BY <1>1 DEF Older
<1> HIDE DEF L
<1>4. \A n \in DOMAIN (q \o r) : (q \o r)[n] \in L
  BY <1>2, <1>3, JoinEach
<1> QED
  BY <1>4 DEF L, Older

LEMMA JoinJoins ==
    ASSUME NEW q \in Seq(Lines), NEW r \in Seq(Lines), NEW s \in Seq(Lines), Joins(q, s), Joins(r, s)
    PROVE  Joins(q \o r, s)
BY Concat DEF Joins

(* Lines of the attempt's own, but no mark and no end, go anywhere.          *)
Plain(r) == \A n \in DOMAIN r : r[n].kind \in {"spawned", "running", "recovered", "error"}

LEMMA PlainLines ==
    ASSUME NEW r \in Seq(Lines), Plain(r)
    PROVE  /\ Ordered(r) /\ Healed(r) /\ ~Rested(r)
           /\ \A n \in DOMAIN r : r[n].kind # "result"
           /\ \A o, t : Older(r, o, t)
           /\ \A q : Joins(r, q)
           /\ \A q : Joins(q, r)
BY DEF Plain, Ordered, Healed, Rested, Older, Joins, Fits, Provided

LEMMA HealedTakes == ASSUME NEW q \in Seq(Lines), Healed(q) \/ Waits(q) PROVE Takes(q)
BY LenProperties DEF Healed, Waits, Takes

LEMMA EmptyLines ==
    /\ <<>> \in Seq(Lines) /\ Ordered(<<>>) /\ Healed(<<>>) /\ ~Rested(<<>>)
    /\ \A o, t : Older(<<>>, o, t)
    /\ \A q \in Seq(Lines) : q \o <<>> = q /\ <<>> \o q = q
<1>1. <<>> \in Seq(Lines) /\ Plain(<<>>)
  BY DEF Plain
<1> QED
  BY <1>1, PlainLines, ConcatEmptySeq

LEMMA Single ==
    ASSUME NEW x \in Lines
    PROVE  /\ <<x>> \in Seq(Lines) /\ Len(<<x>>) = 1 /\ <<x>>[1] = x /\ <<x>> # <<>>
           /\ \A n \in DOMAIN <<x>> : n = 1
           /\ Ordered(<<x>>)
           /\ x.kind # "stalled" => Healed(<<x>>)
<1>1. /\ <<x>> \in Seq(Lines) /\ Len(<<x>>) = 1 /\ <<x>>[1] = x /\ <<x>> # <<>>
      /\ \A n \in DOMAIN <<x>> : n = 1
  OBVIOUS
<1> QED
  BY <1>1 DEF Ordered, Healed

(* What a received line finds before it: nothing that has to be the last.    *)
LEMMA NothingLast ==
    ASSUME EvidenceInv, attemptPhase \in {"spawning", "live"}
    PROVE  /\ \A n \in DOMAIN log : log[n].kind \notin {"result", "resting"}
           /\ \A n \in DOMAIN buffer : buffer[n].kind \notin {"result", "resting"}
BY DEF EvidenceInv, Rested, Provided

(* Lines that were said are put behind what there is, now or when the        *)
(* attempt is live, and take a mark back.                                    *)
LEMMA ReceiveKeeps ==
    ASSUME EvidenceInv, attemptPhase \in {"spawning", "live"}, NEW lines \in Seq(Lines),
           Receive(lines), NEW o, NEW t,
           \A n \in DOMAIN lines : lines[n].kind \in Provided,
           Ordered(lines), Joins(log, lines), Joins(buffer, lines),
           Older(log, o, t), Older(buffer, o, t), Older(lines, o, t)
    PROVE  /\ log' \in Seq(Lines) /\ buffer' \in Seq(Lines)
           /\ Ordered(log') /\ Ordered(buffer')
           /\ Older(log', o, t) /\ Older(buffer', o, t)
           /\ \A n \in DOMAIN buffer' : buffer'[n].kind \in Provided
           /\ attemptPhase = "spawning" =>
                 /\ log' = log /\ nodeStatus' = nodeStatus
                 /\ Rested(buffer') <=> Rested(buffer) \/ Rested(lines)
           /\ attemptPhase = "live" =>
                 /\ buffer' = buffer /\ nodeStatus' = "running"
                 /\ HasBegun(log') /\ Healed(log')
                 /\ Rested(log') <=> Rested(log) \/ Rested(lines)
                 /\ \A n \in DOMAIN log' : log'[n].kind # "result"
<1>0. /\ log \in Seq(Lines) /\ buffer \in Seq(Lines) /\ Ordered(log) /\ Ordered(buffer)
      /\ \A n \in DOMAIN buffer : buffer[n].kind \in Provided
  BY DEF EvidenceInv
<1>1. CASE attemptPhase = "spawning"
  <2>1. buffer' = buffer \o lines /\ log' = log /\ nodeStatus' = nodeStatus
    BY <1>1 DEF Receive
  <2> DEFINE L == {x \in Lines : x.kind \in Provided}
  <2>2. \A n \in DOMAIN (buffer \o lines) : (buffer \o lines)[n] \in L
    <3>1. \A n \in DOMAIN buffer : buffer[n] \in L
      BY <1>0, Concat
    <3>2. \A n \in DOMAIN lines : lines[n] \in L
      BY Concat
    <3> HIDE DEF L
    <3> QED
      BY <1>0, <3>1, <3>2, JoinEach
  <2>3. buffer \o lines \in Seq(Lines)
    BY <1>0, Concat
  <2> QED
    BY <1>0, <1>1, <2>1, <2>2, <2>3, JoinOrdered, JoinOlder, JoinRested
<1>2. CASE attemptPhase = "live"
  <2> DEFINE r == Recovery
             s == log \o r
  <2>1. buffer' = buffer /\ log' = s \o lines /\ nodeStatus' = "running"
    BY <1>2 DEF Receive
  <2>2. /\ r \in Seq(Lines) /\ Plain(r)
        /\ nodeStatus = "stalled" => r # <<>> /\ r[1].kind = "recovered"
    <3>1. CASE nodeStatus = "stalled"
      <4>1. r = <<Line("recovered", 0)>> /\ Line("recovered", 0) \in Lines
        BY <3>1 DEF Recovery, Lines, Line, Own
      <4> QED
        BY <4>1, Single DEF Plain, Line
    <3>2. CASE nodeStatus # "stalled"
      BY <3>2, EmptyLines DEF Recovery, Plain
    <3> QED
      BY <3>1, <3>2
  <2>3. /\ HasBegun(log) /\ \A n \in DOMAIN log : log[n].kind # "result"
        /\ nodeStatus = "stalled" => Waits(log)
        /\ nodeStatus # "stalled" => Healed(log)
    BY <1>2 DEF EvidenceInv
  <2> HIDE DEF r
  <2>4. /\ s \in Seq(Lines) /\ Ordered(s) /\ Healed(s) /\ HasBegun(s) /\ Joins(s, lines)
        /\ Older(s, o, t) /\ (Rested(s) <=> Rested(log))
    <3>1. Ordered(r) /\ Healed(r) /\ ~Rested(r) /\ Older(r, o, t) /\ Joins(log, r) /\ Joins(r, lines)
      BY <2>2, PlainLines
    <3>2. s \in Seq(Lines) /\ Ordered(s) /\ HasBegun(s) /\ Older(s, o, t) /\ (Rested(s) <=> Rested(log))
      BY <1>0, <2>2, <2>3, <3>1, Concat, JoinOrdered, JoinBegun, JoinOlder, JoinRested
    <3>3. Healed(s)
      BY <1>0, <2>2, <2>3, <3>1, JoinHealed
    <3>4. Joins(s, lines)
      BY <1>0, <2>2, <3>1, JoinJoins
    <3> QED
      BY <3>2, <3>3, <3>4
  <2> DEFINE L == {x \in Lines : x.kind # "result"}
  <2>5. \A n \in DOMAIN (s \o lines) : (s \o lines)[n] \in L
    <3>1. \A n \in DOMAIN log : log[n] \in L
      BY <1>0, <2>3, Concat
    <3>2. \A n \in DOMAIN lines : lines[n] \in L
      BY Concat DEF Provided
    <3>3. \A n \in DOMAIN r : r[n] \in L
      BY <2>2, PlainLines, Concat
    <3> HIDE DEF L
    <3>4. \A n \in DOMAIN s : s[n] \in L
      BY <1>0, <2>2, <3>1, <3>3, JoinEach
    <3> QED
      BY <2>4, <3>2, <3>4, JoinEach
  <2> HIDE DEF s
  <2>6. Healed(lines)
    BY DEF Healed, Provided
  <2>7. /\ s \o lines \in Seq(Lines) /\ Ordered(s \o lines) /\ Older(s \o lines, o, t)
        /\ HasBegun(s \o lines) /\ Healed(s \o lines)
        /\ Rested(s \o lines) <=> Rested(log) \/ Rested(lines)
    BY <2>4, <2>6, Concat, JoinOrdered, JoinOlder, JoinBegun, JoinHealed, JoinRested
  <2>8. buffer = <<>>
    BY <1>2 DEF EvidenceInv
  <2> QED
    BY <1>0, <1>2, <2>1, <2>5, <2>7
<1> QED
  BY <1>1, <1>2

(* One content and, before the first, the provider's status.                 *)
LEMMA ContentLines ==
    ASSUME EvidenceInv, attemptPhase \in {"spawning", "live"}, NEW x \in Lines,
           x.kind \in {"message", "use", "answer"}, NEW o, NEW t,
           x.kind = "answer" => /\ x.tool <= t /\ \A i \in DOMAIN o : x.tool < o[i]
                                /\ \A q \in {log, buffer} : \A n \in DOMAIN q :
                                     q[n].kind = "answer" => q[n].tool < x.tool
    PROVE  /\ Preface \o <<x>> \in Seq(Lines)
           /\ \A n \in DOMAIN (Preface \o <<x>>) : (Preface \o <<x>>)[n].kind \in Provided
           /\ Ordered(Preface \o <<x>>) /\ ~Rested(Preface \o <<x>>)
           /\ Joins(log, Preface \o <<x>>) /\ Joins(buffer, Preface \o <<x>>)
           /\ Older(Preface \o <<x>>, o, t)
<1> DEFINE w == Line("working", 0)
           L == {y \in Lines : y = x \/ y = w}
           lines == Preface \o <<x>>
<1>0. w \in Lines /\ w.kind = "working" /\ w.kind \in Provided /\ x.kind \in Provided
  BY DEF Line, Lines, Provided
<1>1. Preface \in Seq(Lines) /\ Ordered(Preface) /\ \A n \in DOMAIN Preface : Preface[n] = w
  <2>1. CASE Preface = <<w>>
    BY <1>0, <2>1, Single
  <2>2. CASE Preface = <<>>
    BY <2>2, EmptyLines
  <2> QED
    BY <2>1, <2>2 DEF Preface
<1>2. <<x>> \in Seq(Lines) /\ Ordered(<<x>>) /\ \A n \in DOMAIN <<x>> : <<x>>[n] = x
  BY Single
<1>3. Joins(Preface, <<x>>)
  BY <1>0, <1>1, <1>2 DEF Joins, Fits
<1>4. lines \in Seq(Lines) /\ Ordered(lines)
  BY <1>1, <1>2, <1>3, Concat, JoinOrdered
<1>5. \A n \in DOMAIN lines : lines[n] \in L
  <2>1. \A n \in DOMAIN Preface : Preface[n] \in L
    BY <1>0, <1>1
  <2>2. \A n \in DOMAIN <<x>> : <<x>>[n] \in L
    BY <1>2
  <2> HIDE DEF L
  <2> QED
    BY <1>1, <1>2, <2>1, <2>2, JoinEach
<1> HIDE DEF lines, w
<1>6. \A n \in DOMAIN lines : lines[n] = x \/ lines[n] = w
  BY <1>5
<1>7. (\A n \in DOMAIN lines : lines[n].kind \in Provided) /\ ~Rested(lines)
  BY <1>0, <1>6 DEF Rested
<1>8. Older(lines, o, t)
  BY <1>0, <1>6 DEF Older
<1>9. \A q \in {log, buffer} : (\A n \in DOMAIN q : q[n].kind \notin {"result", "resting"})
                => Joins(q, lines)
  BY <1>0, <1>6 DEF Joins, Fits
<1>10. Joins(log, lines) /\ Joins(buffer, lines)
  BY <1>9, NothingLast
<1> QED
  BY <1>4, <1>7, <1>8, <1>10 DEF lines

LEMMA OpenQueue ==
    ASSUME EvidenceInv
    PROVE  /\ Queued(Append(open, tools + 1), tools + 1) /\ Append(open, tools + 1) \in Seq(Nat)
           /\ \A q : Older(q, open, tools) /\ (\A n \in DOMAIN q : q[n] \in Lines) =>
                 Older(q, Append(open, tools + 1), tools + 1) /\ Older(q, open, tools + 1)
           /\ Queued(open, tools + 1)
           /\ open # <<>> =>
                /\ Queued(Tail(open), tools) /\ Tail(open) \in Seq(Nat)
                /\ Head(open) \in Nat /\ Head(open) <= tools
                /\ \A i \in DOMAIN Tail(open) : Head(open) < Tail(open)[i]
                /\ \A q : Older(q, open, tools) => Older(q, Tail(open), tools)
                /\ \A q : Older(q, open, tools) => \A n \in DOMAIN q :
                        q[n].kind = "answer" => q[n].tool < Head(open)
<1>1. /\ open \in Seq(Nat) /\ tools \in Nat /\ Queued(open, tools)
      /\ DOMAIN open = 1..Len(open) /\ Len(open) \in Nat
  BY LenProperties DEF EvidenceInv
<1> DEFINE a == Append(open, tools + 1)
<1>2. /\ a \in Seq(Nat) /\ DOMAIN a = 1..(Len(open) + 1) /\ a[Len(open) + 1] = tools + 1
      /\ \A i \in 1..Len(open) : a[i] = open[i]
  BY <1>1, AppendProperties, LenProperties
<1> HIDE DEF a
<1>a. /\ \A i \in DOMAIN open : open[i] \in Nat /\ open[i] <= tools
      /\ \A i, j \in DOMAIN open : i < j => open[i] < open[j]
  BY <1>1 DEF Queued
<1>b. \A i \in DOMAIN a : \/ i \in DOMAIN open /\ a[i] = open[i]
                          \/ i = Len(open) + 1 /\ a[i] = tools + 1
  BY <1>1, <1>2
<1>3. Queued(a, tools + 1) /\ Queued(open, tools + 1)
  <2>1. Queued(open, tools + 1)
    BY <1>1, <1>a DEF Queued
  <2>2. \A i \in DOMAIN a : a[i] \in Nat /\ a[i] <= tools + 1
    BY <1>1, <1>a, <1>b
  <2>3. ASSUME NEW i \in DOMAIN a, NEW j \in DOMAIN a, i < j PROVE a[i] < a[j]
    <3>1. i \in DOMAIN open /\ a[i] = open[i]
      BY <1>1, <1>2, <1>b, <2>3
    <3> QED
      BY <1>1, <1>a, <1>b, <2>3, <3>1
  <2> QED
    BY <2>1, <2>2, <2>3 DEF Queued
<1>4. \A q : Older(q, open, tools) /\ (\A n \in DOMAIN q : q[n] \in Lines) =>
         Older(q, a, tools + 1) /\ Older(q, open, tools + 1)
  BY <1>1, <1>2 DEF Older, Lines
<1>5. ASSUME open # <<>>
      PROVE  /\ Queued(Tail(open), tools) /\ Tail(open) \in Seq(Nat)
             /\ Head(open) \in Nat /\ Head(open) <= tools
             /\ \A i \in DOMAIN Tail(open) : Head(open) < Tail(open)[i]
             /\ \A q : Older(q, open, tools) => Older(q, Tail(open), tools)
             /\ \A q : Older(q, open, tools) => \A n \in DOMAIN q :
                     q[n].kind = "answer" => q[n].tool < Head(open)
  <2> DEFINE b == Tail(open)
             h == Head(open)
  <2>1. /\ b \in Seq(Nat) /\ Len(b) = Len(open) - 1 /\ h = open[1] /\ 1 \in DOMAIN open
        /\ \A i \in 1..Len(b) : b[i] = open[i + 1]
    BY <1>1, <1>5, HeadTailProperties, EmptySeq
  <2>2. DOMAIN b = 1..(Len(open) - 1) /\ \A i \in DOMAIN b : i + 1 \in DOMAIN open /\ b[i] = open[i + 1]
    BY <1>1, <2>1, LenProperties
  <2> HIDE DEF b, h
  <2>3. Queued(b, tools)
    BY <1>1, <2>2 DEF Queued
  <2>4. h \in Nat /\ h <= tools /\ \A i \in DOMAIN b : h < b[i]
    <3>1. h \in Nat /\ h <= tools
      BY <1>1, <2>1 DEF Queued
    <3>2. ASSUME NEW i \in DOMAIN b PROVE h < b[i]
      <4>1. i + 1 \in DOMAIN open /\ b[i] = open[i + 1] /\ 1 < i + 1
        BY <2>2, <3>2
      <4> QED
        BY <1>1, <2>1, <4>1 DEF Queued
    <3> QED
      BY <3>1, <3>2
  <2>5. \A q : Older(q, open, tools) => Older(q, b, tools)
    BY <2>2 DEF Older
  <2>6. \A q : Older(q, open, tools) => \A n \in DOMAIN q : q[n].kind = "answer" => q[n].tool < h
    BY <2>1 DEF Older
  <2> QED
    BY <2>1, <2>3, <2>4, <2>5, <2>6 DEF b, h
<1> QED
  BY <1>2, <1>3, <1>4, <1>5 DEF a

(* What Content and Raw leave, whatever was said in them.                    *)
LEMMA Received ==
    ASSUME EvidenceInv, attemptPhase \in {"spawning", "live"}, NEW lines \in Seq(Lines),
           Receive(lines), open' \in Seq(Nat), tools' \in Nat, Queued(open', tools'),
           \A n \in DOMAIN lines : lines[n].kind \in Provided,
           Ordered(lines), Joins(log, lines), Joins(buffer, lines),
           Older(log, open', tools'), Older(buffer, open', tools'), Older(lines, open', tools'),
           ~Rested(lines), UNCHANGED <<provider, attemptPhase, ended>>
    PROVE  EvidenceInv'
<1>1. /\ log' \in Seq(Lines) /\ buffer' \in Seq(Lines)
      /\ Ordered(log') /\ Ordered(buffer')
      /\ Older(log', open', tools') /\ Older(buffer', open', tools')
      /\ \A n \in DOMAIN buffer' : buffer'[n].kind \in Provided
      /\ attemptPhase = "spawning" =>
            /\ log' = log /\ nodeStatus' = nodeStatus
            /\ Rested(buffer') <=> Rested(buffer) \/ Rested(lines)
      /\ attemptPhase = "live" =>
            /\ buffer' = buffer /\ nodeStatus' = "running"
            /\ HasBegun(log') /\ Healed(log')
            /\ Rested(log') <=> Rested(log) \/ Rested(lines)
            /\ \A n \in DOMAIN log' : log'[n].kind # "result"
  BY ReceiveKeeps
<1>2. CASE attemptPhase = "spawning"
  BY <1>1, <1>2, EmptyLines DEF EvidenceInv
<1>3. CASE attemptPhase = "live"
  <2>1. Takes(log')
    BY <1>1, <1>3, HealedTakes
  <2> QED
    BY <1>1, <1>3, <2>1 DEF EvidenceInv
<1> QED
  BY <1>2, <1>3

LEMMA ContentKeeps == ASSUME EvidenceInv, Content PROVE EvidenceInv'
<1>0. /\ attemptPhase \in {"spawning", "live"} /\ UNCHANGED <<provider, attemptPhase, ended>>
      /\ open \in Seq(Nat) /\ tools \in Nat /\ Queued(open, tools)
      /\ Older(log, open, tools) /\ Older(buffer, open, tools)
      /\ log \in Seq(Lines) /\ buffer \in Seq(Lines)
  BY DEF Content, EvidenceInv
<1>1. /\ \A n \in DOMAIN log : log[n] \in Lines
      /\ \A n \in DOMAIN buffer : buffer[n] \in Lines
  BY <1>0, Concat
<1>2. CASE Receive(Preface \o <<Line("message", 0)>>) /\ UNCHANGED <<open, tools>>
  <2>1. Line("message", 0) \in Lines /\ Line("message", 0).kind = "message"
    BY DEF Line, Lines, Provided
  <2> DEFINE x == Line("message", 0)
  <2> HIDE DEF x
  <2> QED
    BY <1>0, <1>2, <2>1, ContentLines, Received DEF x
<1>3. CASE /\ tools' = tools + 1 /\ open' = Append(open, tools + 1)
           /\ Receive(Preface \o <<Line("use", tools + 1)>>)
  <2>1. Line("use", tools + 1) \in Lines /\ Line("use", tools + 1).kind = "use"
    BY <1>0 DEF Line, Lines, Provided
  <2> DEFINE x == Line("use", tools + 1)
  <2> HIDE DEF x
  <2>2. /\ open' \in Seq(Nat) /\ tools' \in Nat /\ Queued(open', tools')
        /\ Older(log, open', tools') /\ Older(buffer, open', tools')
    BY <1>0, <1>1, <1>3, OpenQueue
  <2> QED
    BY <1>0, <1>3, <2>1, <2>2, ContentLines, Received DEF x
<1>4. CASE /\ open # <<>> /\ open' = Tail(open) /\ tools' = tools
           /\ Receive(Preface \o <<Line("answer", Head(open))>>)
  <2> DEFINE x == Line("answer", Head(open))
  <2>1. x \in Lines /\ x.kind = "answer" /\ x.tool = Head(open)
    BY <1>4, OpenQueue DEF Line, Lines, Provided
  <2> HIDE DEF x
  <2>2. /\ open' \in Seq(Nat) /\ tools' \in Nat /\ Queued(open', tools')
        /\ Older(log, open', tools') /\ Older(buffer, open', tools')
    BY <1>0, <1>4, OpenQueue
  <2>3. /\ x.tool <= tools' /\ \A i \in DOMAIN open' : x.tool < open'[i]
        /\ \A q \in {log, buffer} : \A n \in DOMAIN q : q[n].kind = "answer" => q[n].tool < x.tool
    BY <1>0, <1>4, <2>1, OpenQueue
  <2> QED
    BY <1>0, <1>4, <2>1, <2>2, <2>3, ContentLines, Received DEF x
<1>5. CASE /\ open = <<>> /\ tools' = tools + 1 /\ open' = open
           /\ Receive(Preface \o <<Line("answer", tools + 1)>>)
  <2> DEFINE x == Line("answer", tools + 1)
  <2>1. x \in Lines /\ x.kind = "answer" /\ x.tool = tools + 1
    BY <1>0 DEF Line, Lines, Provided
  <2> HIDE DEF x
  <2>2. /\ open' \in Seq(Nat) /\ tools' \in Nat /\ Queued(open', tools')
        /\ Older(log, open', tools') /\ Older(buffer, open', tools')
    BY <1>0, <1>1, <1>5, OpenQueue
  <2>3. /\ x.tool <= tools' /\ \A i \in DOMAIN open' : x.tool < open'[i]
        /\ \A q \in {log, buffer} : \A n \in DOMAIN q : q[n].kind = "answer" => q[n].tool < x.tool
    BY <1>0, <1>1, <1>5, <2>1 DEF Older, Lines
  <2> QED
    BY <1>0, <1>5, <2>1, <2>2, <2>3, ContentLines, Received DEF x
<1> QED
  BY <1>2, <1>3, <1>4, <1>5 DEF Content

LEMMA RawKeeps == ASSUME EvidenceInv, Raw PROVE EvidenceInv'
<1>1. /\ attemptPhase = "live" /\ Receive(<<>>)
      /\ UNCHANGED <<provider, attemptPhase, ended, open, tools>>
      /\ open \in Seq(Nat) /\ tools \in Nat /\ Queued(open, tools)
      /\ Older(log, open, tools) /\ Older(buffer, open, tools)
  BY DEF Raw, EvidenceInv
<1>2. /\ <<>> \in Seq(Lines) /\ Ordered(<<>>) /\ ~Rested(<<>>) /\ Older(<<>>, open, tools)
  BY EmptyLines
<1>3. /\ Joins(log, <<>>) /\ Joins(buffer, <<>>)
      /\ \A n \in DOMAIN <<>> : <<>>[n].kind \in Provided
  BY DEF Joins
<1> QED
  BY <1>1, <1>2, <1>3, Received

LEMMA StartTurnKeeps == ASSUME EvidenceInv, StartTurn PROVE EvidenceInv'
<1>1. /\ attemptPhase = "idle" /\ attemptPhase' = "spawning" /\ log = <<>>
      /\ UNCHANGED <<provider, log, ended, open, tools, nodeStatus>>
  BY DEF StartTurn, EvidenceInv
<1>2. /\ buffer' \in Seq(Lines) /\ Ordered(buffer') /\ ~Rested(buffer')
      /\ Older(buffer', open, tools) /\ \A n \in DOMAIN buffer' : buffer'[n].kind \in Provided
  <2> DEFINE w == Line("working", 0)
  <2>1. w \in Lines /\ w.kind = "working" /\ w.kind \in Provided
    BY DEF Line, Lines, Provided
  <2> HIDE DEF w
  <2>2. CASE buffer' = <<w>>
    BY <2>1, <2>2, Single DEF Rested, Older
  <2>3. CASE buffer' = <<>>
    BY <2>3, EmptyLines
  <2> QED
    BY <2>2, <2>3 DEF StartTurn, w
<1> QED
  BY <1>1, <1>2 DEF EvidenceInv

(* The spawn throws: what was said, the last status, and no lifecycle.       *)
LEMMA SpawnThrowsKeeps == ASSUME EvidenceInv, SpawnThrows PROVE EvidenceInv'
<1> DEFINE s == log \o buffer
           e == <<Line("error", 0)>>
<1>1. /\ attemptPhase = "spawning" /\ attemptPhase' = "over" /\ log' = (s \o LastStatus) \o e
      /\ buffer' = <<>> /\ ended' = TRUE /\ nodeStatus' = "failed"
      /\ UNCHANGED <<provider, open, tools>>
  BY DEF SpawnThrows
<1>2. /\ log = <<>> /\ buffer \in Seq(Lines) /\ Ordered(buffer) /\ ~Rested(buffer) /\ ~ended
      /\ Older(buffer, open, tools) /\ \A n \in DOMAIN buffer : buffer[n].kind \in Provided
      /\ open \in Seq(Nat) /\ tools \in Nat /\ Queued(open, tools) /\ provider \in {"real", "mock"}
  BY <1>1 DEF EvidenceInv
<1>3. s = buffer
  BY <1>2, EmptyLines
<1>4. /\ LastStatus \in Seq(Lines) /\ Ordered(LastStatus) /\ Healed(LastStatus)
      /\ Older(LastStatus, open, tools) /\ Joins(buffer, LastStatus)
      /\ provider = "real" => Rested(LastStatus)
  <2> DEFINE w == Line("resting", 0)
  <2>1. w \in Lines /\ w.kind = "resting" /\ w.kind \in Provided
    BY DEF Line, Lines, Provided
  <2> HIDE DEF w
  <2>2. CASE provider = "real"
    <3>1. LastStatus = <<w>>
      BY <1>2, <2>2 DEF LastStatus, w
    <3>2. /\ <<w>> \in Seq(Lines) /\ <<w>>[1] = w /\ Ordered(<<w>>) /\ Healed(<<w>>) /\ 1 \in DOMAIN <<w>>
          /\ \A n \in DOMAIN <<w>> : n = 1
      BY <2>1, Single
    <3>3. Older(<<w>>, open, tools) /\ Rested(<<w>>)
      BY <2>1, <3>2 DEF Older, Rested
    <3>4. Joins(buffer, <<w>>)
      BY <1>2, <2>1, <3>2 DEF Joins, Fits, Rested, Provided
    <3> QED
      BY <3>1, <3>2, <3>3, <3>4
  <2>3. CASE provider # "real"
    BY <2>3, EmptyLines DEF LastStatus, Joins
  <2> QED
    BY <2>2, <2>3
<1>5. e \in Seq(Lines) /\ Plain(e)
  <2>1. Line("error", 0) \in Lines /\ Line("error", 0).kind = "error"
    BY DEF Line, Lines, Own
  <2> QED
    BY <2>1, Single DEF Plain
<1> HIDE DEF e, s
<1>6. /\ Ordered(e) /\ Healed(e) /\ Older(e, open, tools) /\ \A q : Joins(q, e)
  BY <1>5, PlainLines
<1>7. Healed(buffer)
  BY <1>2 DEF Healed, Provided
<1> DEFINE t == buffer \o LastStatus
<1>8. /\ t \in Seq(Lines) /\ Ordered(t) /\ Healed(t) /\ Older(t, open, tools)
      /\ provider = "real" => Rested(t)
  BY <1>2, <1>4, <1>7, Concat, JoinOrdered, JoinHealed, JoinOlder, JoinRested
<1> HIDE DEF t
<1>9. /\ t \o e \in Seq(Lines) /\ Ordered(t \o e) /\ Healed(t \o e) /\ Older(t \o e, open, tools)
      /\ provider = "real" => Rested(t \o e)
  BY <1>5, <1>6, <1>8, Concat, JoinOrdered, JoinHealed, JoinOlder, JoinRested
<1>10. log' = t \o e
  BY <1>1, <1>3 DEF t
<1>11. Takes(log')
  BY <1>9, <1>10, HealedTakes
<1> QED
  BY <1>1, <1>2, <1>9, <1>10, <1>11, EmptyLines DEF EvidenceInv, Rested

(* The lifecycle goes before what was said while the child was spawned.      *)
LEMMA SpawnReturnsKeeps == ASSUME EvidenceInv, SpawnReturns PROVE EvidenceInv'
<1> DEFINE u == <<Line("spawned", 0), Line("running", 0)>>
<1>1. /\ attemptPhase = "spawning" /\ attemptPhase' = "live" /\ log' = (log \o u) \o buffer
      /\ buffer' = <<>> /\ nodeStatus' = "running"
      /\ UNCHANGED <<provider, ended, open, tools>>
  BY DEF SpawnReturns
<1>2. /\ log = <<>> /\ buffer \in Seq(Lines) /\ Ordered(buffer) /\ ~Rested(buffer) /\ ~ended
      /\ Older(buffer, open, tools) /\ \A n \in DOMAIN buffer : buffer[n].kind \in Provided
      /\ open \in Seq(Nat) /\ tools \in Nat /\ Queued(open, tools) /\ provider \in {"real", "mock"}
  BY <1>1 DEF EvidenceInv
<1>3. /\ u \in Seq(Lines) /\ Plain(u) /\ Len(u) = 2 /\ u[2].kind = "running"
  <2>1. Line("spawned", 0) \in Lines /\ Line("spawned", 0).kind = "spawned"
    BY DEF Line, Lines, Own
  <2>2. Line("running", 0) \in Lines /\ Line("running", 0).kind = "running"
    BY DEF Line, Lines, Own
  <2>3. /\ u \in Seq(Lines) /\ Len(u) = 2 /\ u[2] = Line("running", 0) /\ u[1] = Line("spawned", 0)
        /\ \A n \in DOMAIN u : n = 1 \/ n = 2
    BY <2>1, <2>2
  <2> QED
    BY <2>1, <2>2, <2>3 DEF Plain
<1> HIDE DEF u
<1>4. log \o u = u
  BY <1>2, <1>3, EmptyLines
<1>5. /\ Ordered(u) /\ Healed(u) /\ ~Rested(u) /\ Older(u, open, tools) /\ Joins(u, buffer)
  BY <1>3, PlainLines
<1>6. HasBegun(u)
  BY <1>3 DEF HasBegun, Plain, Provided
<1>7. Healed(buffer)
  BY <1>2 DEF Healed, Provided
<1> DEFINE s == u \o buffer
<1>8. /\ s \in Seq(Lines) /\ Ordered(s) /\ Healed(s) /\ Older(s, open, tools) /\ HasBegun(s) /\ ~Rested(s)
  BY <1>2, <1>3, <1>5, <1>6, <1>7, Concat, JoinOrdered, JoinHealed, JoinOlder, JoinBegun, JoinRested
<1>9. \A n \in DOMAIN s : s[n].kind # "result"
  <2> DEFINE L == {x \in Lines : x.kind # "result"}
  <2>1. \A n \in DOMAIN u : u[n] \in L
    BY <1>3, Concat DEF Plain
  <2>2. \A n \in DOMAIN buffer : buffer[n] \in L
    BY <1>2, Concat DEF Provided
  <2> HIDE DEF L
  <2>3. \A n \in DOMAIN s : s[n] \in L
    BY <1>2, <1>3, <2>1, <2>2, JoinEach
  <2> QED
    BY <2>3 DEF L
<1> HIDE DEF s
<1>10. log' = s
  BY <1>1, <1>4 DEF s
<1>11. Takes(log')
  BY <1>8, <1>10, HealedTakes
<1>12. /\ log' \in Seq(Lines) /\ Ordered(log') /\ Healed(log') /\ Older(log', open', tools')
       /\ HasBegun(log') /\ ~Rested(log') /\ \A n \in DOMAIN log' : log'[n].kind # "result"
  BY <1>1, <1>8, <1>9, <1>10
<1>13. /\ buffer' \in Seq(Lines) /\ Ordered(buffer') /\ Older(buffer', open', tools')
       /\ ~Rested(buffer') /\ \A n \in DOMAIN buffer' : buffer'[n].kind \in Provided
  BY <1>1, EmptyLines
<1>14. open' \in Seq(Nat) /\ tools' \in Nat /\ Queued(open', tools') /\ provider' \in {"real", "mock"}
       /\ ~ended' /\ attemptPhase' = "live" /\ nodeStatus' = "running" /\ buffer' = <<>>
  BY <1>1, <1>2
<1> QED
  BY <1>11, <1>12, <1>13, <1>14 DEF EvidenceInv

(* A silence leaves its mark at the end of the log.                          *)
LEMMA StallFiresKeeps == ASSUME EvidenceInv, StallFires PROVE EvidenceInv'
<1>0. UNCHANGED <<provider, attemptPhase, buffer, ended, open, tools>>
  BY DEF StallFires
<1>1. CASE UNCHANGED <<nodeStatus, log>>
  BY <1>0, <1>1 DEF EvidenceInv
<1>2. CASE /\ attemptPhase \in {"live", "settled"} /\ nodeStatus = "running"
           /\ nodeStatus' = "stalled" /\ log' = Append(log, Line("stalled", 0))
  <2> DEFINE e == Line("stalled", 0)
  <2>1. e \in Lines /\ e.kind = "stalled"
    BY DEF Line, Lines, Own
  <2> HIDE DEF e
  <2>2. /\ log \in Seq(Lines) /\ Ordered(log) /\ Healed(log) /\ HasBegun(log)
        /\ Older(log, open, tools) /\ \A n \in DOMAIN log : log[n].kind # "result"
    BY <1>2 DEF EvidenceInv
  <2>3. log' = Append(log, e)
    BY <1>2 DEF e
  <2>4. /\ log' \in Seq(Lines) /\ Len(log') = Len(log) + 1 /\ Len(log) \in Nat /\ log' # <<>>
        /\ DOMAIN log = 1..Len(log) /\ DOMAIN log' = 1..(Len(log) + 1)
        /\ log'[Len(log) + 1] = e /\ \A i \in 1..Len(log) : log'[i] = log[i]
    BY <2>1, <2>2, <2>3, AppendProperties, LenProperties
  <2>5. \A i \in DOMAIN log' : \/ i \in DOMAIN log /\ log'[i] = log[i]
                               \/ i = Len(log) + 1 /\ log'[i] = e
    BY <2>4
  <2>6. Ordered(log')
    <3> SUFFICES ASSUME NEW n \in DOMAIN log', NEW m \in DOMAIN log', n < m
                 PROVE  Fits(log'[n], log'[m])
      BY DEF Ordered
    <3>1. n \in DOMAIN log /\ log'[n] = log[n]
      BY <2>4, <2>5
    <3>2. CASE m \in DOMAIN log /\ log'[m] = log[m]
      BY <2>2, <3>1, <3>2 DEF Ordered
    <3>3. CASE log'[m] = e
      BY <2>1, <3>3 DEF Fits, Provided
    <3> QED
      BY <2>5, <3>2, <3>3
  <2>7. Waits(log')
    <3>1. log'[Len(log')].kind = "stalled"
      BY <2>1, <2>4
    <3>2. ASSUME NEW n \in DOMAIN log', n < Len(log'), log'[n].kind = "stalled"
          PROVE  log'[n + 1].kind = "recovered"
      <4>1. n \in DOMAIN log /\ log[n].kind = "stalled"
        BY <2>4, <2>5, <3>2
      <4>2. n < Len(log) /\ log[n + 1].kind = "recovered"
        BY <2>2, <4>1 DEF Healed
      <4> QED
        BY <2>4, <4>1, <4>2
    <3> QED
      BY <2>4, <3>1, <3>2 DEF Waits
  <2>8. HasBegun(log')
    <3>1. Len(log) >= 2 /\ log[2].kind = "running"
      BY <2>2 DEF HasBegun
    <3>2. Len(log') >= 2 /\ log'[2].kind = "running"
      BY <2>4, <3>1
    <3>3. \A n \in DOMAIN log' : log'[n].kind \in Provided => 2 < n
      BY <2>1, <2>2, <2>5 DEF HasBegun, Provided
    <3> QED
      BY <3>2, <3>3 DEF HasBegun
  <2>9. /\ \A n \in DOMAIN log' : log'[n].kind # "result"
        /\ Rested(log') <=> Rested(log)
    <3>1. \A n \in DOMAIN log' : log'[n].kind # "result"
      BY <2>1, <2>2, <2>5
    <3>2. Rested(log') => Rested(log)
      BY <2>1, <2>5 DEF Rested
    <3>3. Rested(log) => Rested(log')
      BY <2>4 DEF Rested
    <3> QED
      BY <3>1, <3>2, <3>3
  <2>10. Older(log', open, tools)
    BY <2>1, <2>2, <2>5 DEF Older
  <2>11. Takes(log')
    BY <2>4, <2>7, HealedTakes
  <2>12. attemptPhase' \in {"live", "settled"} /\ nodeStatus' = "stalled"
    BY <1>0, <1>2
  <2> QED
    BY <1>0, <2>4, <2>6, <2>7, <2>8, <2>9, <2>10, <2>11, <2>12 DEF EvidenceInv
<1> QED
  BY <1>1, <1>2 DEF StallFires

(* The turn is finished: its last status ends what the provider says.        *)
LEMMA CompleteKeeps == ASSUME EvidenceInv, Complete PROVE EvidenceInv'
<1>0. /\ attemptPhase = "live" /\ attemptPhase' = "settled" /\ ended' = TRUE
      /\ UNCHANGED <<provider, open, tools>> /\ ~ended /\ buffer = <<>>
      /\ log \in Seq(Lines) /\ Ordered(log) /\ HasBegun(log) /\ Older(log, open, tools)
      /\ Older(buffer, open, tools)
      /\ open \in Seq(Nat) /\ tools \in Nat /\ Queued(open, tools) /\ provider \in {"real", "mock"}
  BY DEF Complete, EvidenceInv
<1>1. CASE provider = "real"
  <2> DEFINE w == Line("resting", 0)
  <2>1. w \in Lines /\ w.kind = "resting" /\ w.kind \in Provided
    BY DEF Line, Lines, Provided
  <2>2. LastStatus = <<w>>
    BY <1>0, <1>1 DEF LastStatus
  <2>3. Receive(LastStatus)
    BY <1>1 DEF Complete
  <2> HIDE DEF w
  <2>4. /\ <<w>> \in Seq(Lines) /\ <<w>>[1] = w /\ Ordered(<<w>>) /\ 1 \in DOMAIN <<w>>
        /\ \A n \in DOMAIN <<w>> : n = 1
    BY <2>1, Single
  <2>5. /\ Older(<<w>>, open, tools) /\ Rested(<<w>>)
        /\ \A n \in DOMAIN <<w>> : <<w>>[n].kind \in Provided
    BY <2>1, <2>4 DEF Older, Rested
  <2>6. Joins(log, <<w>>) /\ Joins(buffer, <<w>>)
    BY <1>0, <2>1, <2>4, NothingLast DEF Joins, Fits
  <2>7. /\ log' \in Seq(Lines) /\ Ordered(log') /\ Older(log', open, tools) /\ buffer' = buffer
        /\ nodeStatus' = "running" /\ HasBegun(log') /\ Healed(log') /\ Rested(log')
        /\ \A n \in DOMAIN log' : log'[n].kind # "result"
    BY <1>0, <2>2, <2>3, <2>4, <2>5, <2>6, ReceiveKeeps
  <2>8. Takes(log')
    BY <2>7, HealedTakes
  <2> QED
    BY <1>0, <2>7, <2>8, EmptyLines DEF EvidenceInv
<1>2. CASE provider # "real"
  <2>1. UNCHANGED <<log, buffer, nodeStatus>>
    BY <1>2 DEF Complete
  <2> QED
    BY <1>0, <1>2, <2>1 DEF EvidenceInv
<1> QED
  BY <1>1, <1>2

(* The result is the last line.                                              *)
LEMMA ConcludeKeeps == ASSUME EvidenceInv, Conclude PROVE EvidenceInv'
<1> DEFINE e == IF nodeStatus' = "failed" THEN <<Line("error", 0)>> ELSE <<>>
           x == Line("result", 0)
           s == log \o e
<1>0. /\ attemptPhase = "settled" /\ attemptPhase' = "over" /\ nodeStatus' \in {"ended", "failed"}
      /\ log' = s \o <<x>>
      /\ UNCHANGED <<provider, buffer, ended, open, tools>>
  BY DEF Conclude
<1>1. /\ log \in Seq(Lines) /\ Ordered(log) /\ HasBegun(log) /\ Older(log, open, tools)
      /\ provider = "real" => Rested(log)
      /\ Healed(log) \/ Waits(log)
      /\ \A n \in DOMAIN log : log[n].kind # "result"
  BY <1>0 DEF EvidenceInv
<1>2. e \in Seq(Lines) /\ Plain(e)
  <2>1. Line("error", 0) \in Lines /\ Line("error", 0).kind = "error"
    BY DEF Line, Lines, Own
  <2> QED
    BY <2>1, Single, EmptyLines DEF Plain
<1>3. x \in Lines /\ x.kind = "result"
  BY DEF Line, Lines, Own
<1> HIDE DEF e, x
<1>4. /\ Ordered(e) /\ Healed(e) /\ Older(e, open, tools) /\ \A q : Joins(q, e)
  BY <1>2, PlainLines
<1>5. /\ s \in Seq(Lines) /\ Ordered(s) /\ HasBegun(s) /\ Older(s, open, tools)
      /\ provider = "real" => Rested(s)
  BY <1>1, <1>2, <1>4, Concat, JoinOrdered, JoinBegun, JoinOlder, JoinRested
<1>6. /\ <<x>> \in Seq(Lines) /\ Ordered(<<x>>) /\ \A n \in DOMAIN <<x>> : <<x>>[n] = x
  BY <1>3, Single
<1>7. Joins(s, <<x>>) /\ Older(<<x>>, open, tools)
  BY <1>3, <1>6 DEF Joins, Fits, Older, Provided
<1> HIDE DEF s
<1>8. /\ log' \in Seq(Lines) /\ Ordered(log') /\ HasBegun(log') /\ Older(log', open, tools)
      /\ provider = "real" => Rested(log')
  BY <1>0, <1>5, <1>6, <1>7, Concat, JoinOrdered, JoinBegun, JoinOlder, JoinRested
(* What follows a mark that is not taken back was not said by the provider.  *)
<1>9. Takes(log')
  <2>1. /\ DOMAIN log = 1..Len(log) /\ Len(log) \in Nat
        /\ DOMAIN log' = 1..(Len(log) + Len(e) + 1) /\ Len(e) \in Nat
        /\ \A i \in DOMAIN log : log'[i] = log[i]
        /\ \A i \in DOMAIN log' : i > Len(log) => log'[i].kind \in {"spawned", "running", "recovered", "error", "result"}
    <3>1. /\ DOMAIN log = 1..Len(log) /\ Len(log) \in Nat /\ DOMAIN e = 1..Len(e) /\ Len(e) \in Nat
          /\ Len(s) = Len(log) + Len(e) /\ DOMAIN s = 1..Len(s)
          /\ \A i \in 1..Len(log) : s[i] = log[i]
          /\ \A i \in DOMAIN s : \/ i \in DOMAIN log /\ s[i] = log[i]
                                 \/ /\ i > Len(log) /\ i - Len(log) \in DOMAIN e
                                    /\ s[i] = e[i - Len(log)]
      BY <1>1, <1>2, Concat DEF s
    <3>2. /\ DOMAIN <<x>> = 1..1 /\ Len(<<x>>) = 1
          /\ DOMAIN log' = 1..(Len(s) + 1) /\ \A i \in 1..Len(s) : log'[i] = s[i]
          /\ \A i \in DOMAIN log' : \/ i \in DOMAIN s /\ log'[i] = s[i]
                                    \/ /\ i > Len(s) /\ i - Len(s) \in DOMAIN <<x>>
                                       /\ log'[i] = <<x>>[i - Len(s)]
      BY <1>0, <1>5, <1>6, Concat
    <3>3. ASSUME NEW i \in DOMAIN log', i > Len(log)
          PROVE  log'[i].kind \in {"spawned", "running", "recovered", "error", "result"}
      <4>1. CASE i \in DOMAIN s /\ log'[i] = s[i]
        BY <1>2, <3>1, <3>3, <4>1 DEF Plain
      <4>2. CASE i - Len(s) \in DOMAIN <<x>> /\ log'[i] = <<x>>[i - Len(s)]
        BY <1>3, <1>6, <4>2
      <4> QED
        BY <3>2, <4>1, <4>2
    <3> QED
      BY <3>1, <3>2, <3>3
  <2>2. Takes(log)
    BY <1>1, HealedTakes
  <2>3. ASSUME NEW n \in DOMAIN log', NEW m \in DOMAIN log',
               log'[n].kind = "stalled", log'[m].kind \in Provided, n < m
        PROVE  log'[n + 1].kind = "recovered"
    <3>1. ~(m > Len(log)) /\ ~(n > Len(log))
      BY <2>1, <2>3 DEF Provided
    <3>2. n \in DOMAIN log /\ m \in DOMAIN log /\ n + 1 \in DOMAIN log
      BY <2>1, <2>3, <3>1
    <3> QED
      BY <2>1, <2>2, <2>3, <3>2 DEF Takes
  <2> QED
    BY <2>3 DEF Takes
<1>10. /\ buffer = <<>> /\ Ordered(buffer) /\ Older(buffer, open, tools)
       /\ open \in Seq(Nat) /\ tools \in Nat /\ Queued(open, tools) /\ provider \in {"real", "mock"}
       /\ buffer \in Seq(Lines) /\ \A n \in DOMAIN buffer : buffer[n].kind \in Provided
  BY <1>0 DEF EvidenceInv
<1> QED
  BY <1>0, <1>8, <1>9, <1>10 DEF EvidenceInv

LEMMA EvidenceInitially == EvidenceInit => EvidenceInv
<1> SUFFICES ASSUME EvidenceInit PROVE EvidenceInv
  OBVIOUS
<1>1. /\ provider \in {"real", "mock"} /\ attemptPhase = "idle"
      /\ log = <<>> /\ buffer = <<>> /\ ended = FALSE
      /\ open = <<>> /\ tools = 0 /\ nodeStatus = "queued"
  BY DEF EvidenceInit
<1>2. open \in Seq(Nat) /\ Queued(open, tools)
  BY <1>1 DEF Queued
<1>3. Takes(log) /\ \A n \in DOMAIN buffer : buffer[n].kind \in Provided
  BY <1>1 DEF Takes
<1> QED
  BY <1>1, <1>2, <1>3, EmptyLines DEF EvidenceInv

(* The order, from the invariant.                                            *)
LEMMA OrderFromInv == EvidenceInv => EvidenceInOrder
<1> SUFFICES ASSUME EvidenceInv PROVE EvidenceInOrder
  OBVIOUS
<1>1. log \in Seq(Lines) /\ Ordered(log) /\ Takes(log) /\ DOMAIN log = 1..Len(log) /\ Len(log) \in Nat
  BY LenProperties DEF EvidenceInv
<1>2. \A n, m \in DOMAIN log : n \in Nat /\ m \in Nat /\ (n < m \/ n = m \/ m < n)
  BY <1>1
<1>3. (attemptPhase \in {"live", "settled"} \/ nodeStatus = "ended") =>
         \A n \in Of(Provided) : \E m \in Of({"running"}) : m < n
  <2> SUFFICES ASSUME attemptPhase \in {"live", "settled"} \/ nodeStatus = "ended", NEW n \in Of(Provided)
               PROVE  \E m \in Of({"running"}) : m < n
    OBVIOUS
  <2>1. HasBegun(log)
    BY DEF EvidenceInv
  <2>2. 2 \in Of({"running"}) /\ 2 < n
    BY <1>1, <2>1 DEF HasBegun, Of
  <2> QED
    BY <2>2
<1>4. \A n \in Of({"result"}), m \in Of(Provided) : m < n
  BY <1>1, <1>2 DEF Of, Ordered, Fits, Provided
<1>5. \A n \in Of({"resting"}), m \in Of(Provided) : m <= n
  BY <1>1, <1>2 DEF Of, Ordered, Fits
<1>6. (attemptPhase = "over" /\ provider = "real") => Cardinality(Of({"resting"})) = 1
  <2> SUFFICES ASSUME attemptPhase = "over", provider = "real" PROVE Cardinality(Of({"resting"})) = 1
    OBVIOUS
  <2>1. PICK n \in DOMAIN log : log[n].kind = "resting"
    BY DEF EvidenceInv, Rested
  <2>2. Of({"resting"}) = {n}
    BY <1>1, <1>2, <2>1 DEF Of, Ordered, Fits, Provided
  <2> QED
    BY <2>2, FS_Singleton
<1>7. \A n \in Of({"stalled"}), m \in Of(Provided) : n < m => log[n + 1].kind = "recovered"
  BY <1>1 DEF Of, Takes
<1>8. \A n \in Of({"answer"}), m \in Of({"answer"}) : n < m => log[n].tool < log[m].tool
  BY <1>1 DEF Of, Ordered, Fits
<1> QED
  BY <1>3, <1>4, <1>5, <1>6, <1>7, <1>8 DEF EvidenceInOrder

(* An attempt's lines tell its story in order: what the provider said stands *)
(* between the attempt's `running` and its `result`, whenever it was said,   *)
(* its last status is last, marks are taken back, answers belong to the      *)
(* oldest use (runNode, ProviderTurnBridge).                                 *)
THEOREM EvidenceInOrderHolds == EvidenceSpec => []EvidenceInOrder
<1>1. EvidenceInv /\ [EvidenceNext]_evidenceVars => EvidenceInv'
  <2> SUFFICES ASSUME EvidenceInv, [EvidenceNext]_evidenceVars PROVE EvidenceInv'
    OBVIOUS
  <2>1. CASE UNCHANGED evidenceVars
    BY <2>1 DEF evidenceVars, EvidenceInv
  <2> QED
    BY <2>1, StartTurnKeeps, ContentKeeps, RawKeeps, SpawnThrowsKeeps, SpawnReturnsKeeps,
       StallFiresKeeps, CompleteKeeps, ConcludeKeeps DEF EvidenceNext
<1> QED
  BY <1>1, EvidenceInitially, OrderFromInv, PTL DEF EvidenceSpec
=============================================================================
