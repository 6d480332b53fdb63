---------------------------- MODULE ProviderInstall ----------------------------
(* Detection, installation and update of a provider whose command is on the  *)
(* PATH (api/routes.ts, probeVersion in adapters/base.ts). A probe runs the  *)
(* command and is shared by whoever asks meanwhile; what it found is kept    *)
(* for ten minutes, or for two seconds when it found nothing.                *)
EXTENDS Naturals, FiniteSets

CONSTANTS Requests,
          Probes,     \* bound: the probes there may be
          MaxVersion  \* bound: the versions a command may have

ASSUME InstallAssumption ==
    /\ IsFiniteSet(Requests) /\ IsFiniteSet(Probes) /\ MaxVersion \in Nat

VARIABLES
    installed,  \* External: the version on the PATH, 0 for none
    entry,      \* versionCache: nobody's probe, or one, and whether it counts
    probe,      \* each probe: not started, before or after it has looked, ended
    found,      \* what it saw
    kind, at,   \* each request, and where it is
    hears,      \* the probe a listing waits for
    reply,      \* the version a request was told
    running,    \* runningInstalls: whose recipe runs
    least       \* the version there was when a request's recipe had ended

installVars == <<installed, entry, probe, found, kind, at, hears, reply,
                 running, least>>

NoProbe == "nobody"
Versions == 0..MaxVersion
InstallTypeOK ==
    /\ installed \in Versions /\ entry \in {NoProbe} \cup Probes
    /\ probe \in [Probes -> {"new", "started", "looked", "ended"}]
    /\ found \in [Probes -> Versions]
    /\ kind \in [Requests -> {"none", "list", "refresh", "install", "update"}]
    /\ at \in [Requests -> {"idle", "listing", "checked", "recipe", "relisting", "done", "conflict"}]
    /\ hears \in [Requests -> {NoProbe} \cup Probes]
    /\ reply \in [Requests -> Versions] /\ least \in [Requests -> Versions]
    /\ running \subseteq Requests /\ Cardinality(running) <= 1

InstallInit ==
    /\ installed \in {0, 1} /\ entry = NoProbe
    /\ probe = [p \in Probes |-> "new"] /\ found = [p \in Probes |-> 0]
    /\ kind = [r \in Requests |-> "none"] /\ at = [r \in Requests |-> "idle"]
    /\ hears = [r \in Requests |-> NoProbe] /\ reply = [r \in Requests |-> 0]
    /\ running = {} /\ least = [r \in Requests |-> 0]

-----------------------------------------------------------------------------
(* listProviders, probeVersion: the cached probe, under way or not, or a new *)
(* one.                                                                      *)
List(r, cache) ==
    IF cache # NoProbe
    THEN entry' = cache /\ hears' = [hears EXCEPT ![r] = cache] /\ UNCHANGED probe
    ELSE /\ \E p \in Probes : probe[p] = "new"
         /\ LET p == CHOOSE p \in Probes : probe[p] = "new"
            IN  /\ probe' = [probe EXCEPT ![p] = "started"]
                /\ entry' = p /\ hears' = [hears EXCEPT ![r] = p]

(* External: the command looks at itself and exits, when it likes.           *)
Look(p) ==
    /\ probe[p] = "started" /\ probe' = [probe EXCEPT ![p] = "looked"]
    /\ found' = [found EXCEPT ![p] = installed]
    /\ UNCHANGED <<installed, entry, kind, at, hears, reply, running, least>>
ProbeEnds(p) ==
    /\ probe[p] = "looked" /\ probe' = [probe EXCEPT ![p] = "ended"]
    /\ UNCHANGED <<installed, entry, found, kind, at, hears, reply, running, least>>

(* The time to live of an entry begins when its probe has ended.             *)
Expire ==
    /\ entry # NoProbe /\ probe[entry] = "ended" /\ entry' = NoProbe
    /\ UNCHANGED <<installed, probe, found, kind, at, hears, reply, running, least>>

-----------------------------------------------------------------------------
(* A request arrives; a refresh forgets what was cached.                     *)
AskSetup(r, name) ==
    /\ kind[r] = "none" /\ kind' = [kind EXCEPT ![r] = name]
    /\ at' = [at EXCEPT ![r] = "listing"]
    /\ List(r, IF name = "refresh" THEN NoProbe ELSE entry)
    /\ UNCHANGED <<installed, found, reply, running, least>>

Heard(r) == at[r] \in {"listing", "relisting"} /\ probe[hears[r]] = "ended"
Refused(r) ==
    \/ kind[r] = "install" /\ found[hears[r]] # 0
    \/ kind[r] = "update" /\ found[hears[r]] = 0
RecipeRuns(r) == running # {}

(* The listing is there: the answer, a refusal, or the recipe, which starts  *)
(* in the same step as the check that no other runs. A provider without a    *)
(* recipe is answered like a refusal.                                        *)
Listed(r) ==
    /\ Heard(r) /\ at[r] = "listing"
    /\ \/ /\ kind[r] \in {"list", "refresh"} /\ UNCHANGED running
          /\ at' = [at EXCEPT ![r] = "done"]
          /\ reply' = [reply EXCEPT ![r] = found[hears[r]]]
       \/ /\ kind[r] \in {"install", "update"} /\ (Refused(r) \/ RecipeRuns(r))
          /\ at' = [at EXCEPT ![r] = "conflict"] /\ UNCHANGED <<reply, running>>
       \/ /\ kind[r] \in {"install", "update"} /\ ~Refused(r) /\ ~RecipeRuns(r)
          /\ at' = [at EXCEPT ![r] = "recipe"] /\ running' = running \cup {r}
          /\ UNCHANGED reply
    /\ UNCHANGED <<installed, entry, probe, found, kind, hears, least>>

(* External: a recipe changes the command before it ends, or does not.       *)
RecipeInstalls(r) ==
    /\ at[r] = "recipe" /\ installed < MaxVersion /\ installed' = installed + 1
    /\ UNCHANGED <<entry, probe, found, kind, at, hears, reply, running, least>>

(* runProviderRecipe: the recipe has ended or its time was up; the caches    *)
(* are cleared and the provider is looked at again.                          *)
KeptEntry == entry
ClearedEntry == NoProbe
RecipeEnds(r) ==
    /\ at[r] = "recipe" /\ at' = [at EXCEPT ![r] = "relisting"]
    /\ least' = [least EXCEPT ![r] = installed]
    /\ List(r, ClearedEntry)
    /\ UNCHANGED <<installed, found, kind, reply, running>>
Reply(r) ==
    /\ Heard(r) /\ at[r] = "relisting" /\ at' = [at EXCEPT ![r] = "done"]
    /\ reply' = [reply EXCEPT ![r] = found[hears[r]]] /\ running' = running \ {r}
    /\ UNCHANGED <<installed, entry, probe, found, kind, hears, least>>

InstallNext ==
    \/ \E r \in Requests :
        \/ \E name \in {"list", "refresh", "install", "update"} : AskSetup(r, name)
        \/ Listed(r) \/ RecipeInstalls(r) \/ RecipeEnds(r) \/ Reply(r)
    \/ \E p \in Probes : Look(p) \/ ProbeEnds(p)
    \/ Expire
InstallSpec == InstallInit /\ [][InstallNext]_installVars

-----------------------------------------------------------------------------
(* The version an installation or an update answers with was looked up after *)
(* its recipe had ended, whatever was probed or cached meanwhile             *)
(* (runProviderRecipe, probeVersion, clearVersionCache).                     *)
ReplyIsFresh ==
    \A r \in Requests : at[r] = "done" => reply[r] >= least[r]
=============================================================================
