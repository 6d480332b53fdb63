---------------------------- MODULE ManagedRuntimes ----------------------------
(* The executable of one provider family: how it is looked up and remembered *)
(* (runtime/resolve.ts), how a managed copy is put in place (install.ts), the*)
(* queue of such mutations and the provisioning at boot (triggers.ts), and   *)
(* the routes that ask for them (api/routes.ts).                             *)
(*                                                                           *)
(* A step is the code between two macrotasks. The disk, the PATH and the     *)
(* probes are the environment. No MAT_*_BIN override is set; download,       *)
(* digest and unpacking are one staging step, which may fail.                *)
EXTENDS Naturals, Sequences, FiniteSets

CONSTANTS Callers,       \* calls of resolveRuntimeBinary by turns and listings
          BootLookup, EndLookup,  \* the lookups of maybeSelfProvision and finishEvent
          MaxMutations,  \* bound: requests of the mutation routes
          MaxFlips,      \* bound: how often the CLI appears on or leaves PATH
          Flaky          \* TRUE if a probe of a working executable may time out

ASSUME RuntimesAssumption ==
    /\ BootLookup # EndLookup /\ {BootLookup, EndLookup} \cap Callers = {}
    /\ MaxMutations \in Nat /\ MaxFlips \in Nat /\ Flaky \in BOOLEAN

VARIABLES
    dir,       \* the directory of the pinned managed version
    backup,    \* the directory it is moved to while it is replaced
    onPath,    \* the user has the CLI on PATH
    cache,     \* cache.get(family)
    seen,      \* managedSeen.get(family)
    version,   \* versionCache of the command
    ask,       \* ask[a]: a lookup
    jobs,      \* the chain `tail` of mutations; the first one is active
    work,      \* the next step of the active mutation
    requests, flips

runtimeVars == <<dir, backup, onPath, cache, seen, version, ask, jobs, work,
                 requests, flips>>
memory == <<cache, seen, version>>

Lookups == Callers \cup {BootLookup, EndLookup}
Dirs   == {"none", "good", "bad"}

RuntimesTypeOK ==
    /\ dir \in Dirs /\ backup \in Dirs /\ onPath \in BOOLEAN
    /\ cache \in {"unset", "managed", "path", "null"}
    /\ seen \in {"unset", "yes", "no"}
    /\ version \in {"unset", "yes", "no"}
    /\ ask \in [Lookups -> [
         ph    : {"off", "status", "probing", "probed", "pathing", "over"},
         is    : BOOLEAN,   \* isManaged
         out   : {"none", "managed", "broken", "path", "null"},
         calm  : BOOLEAN,   \* history: dir is what it was when this began
         there : BOOLEAN]]  \* history: so is the CLI on PATH, and no recent failure
    /\ jobs \in {<<>>} \cup UNION {{<<k>>, <<k, l>>} : k, l \in {"install", "clear"}}
    /\ \A i, j \in DOMAIN jobs : jobs[i] = jobs[j] => i = j
    /\ work \in {"idle", "start", "stage", "swap", "publish", "remove", "ending"}
    /\ requests \in 0..MaxMutations /\ flips \in 0..MaxFlips

Off == [ph |-> "off", is |-> FALSE, out |-> "none", calm |-> FALSE, there |-> FALSE]
Begun(ph, v) == [ph |-> ph, is |-> FALSE, out |-> "none", calm |-> TRUE,
                 there |-> onPath /\ v # "no"]
RuntimesInit ==
    /\ dir \in Dirs /\ backup = "none" /\ onPath \in BOOLEAN
    /\ cache = "unset" /\ seen = "unset" /\ version = "unset"
    /\ ask = [a \in Lookups |-> Off]
    /\ jobs = <<>> /\ work = "idle" /\ requests = 0 /\ flips = 0

-----------------------------------------------------------------------------
(* What a probe may answer of something that works, or does not.             *)
ProbesOf(works) == {works} \cup (IF Flaky THEN {FALSE} ELSE {})

(* The directory becomes d: no lookup that has begun is calm any more.       *)
Disturbed(all, d) == IF d = dir THEN all ELSE [a \in Lookups |-> [all[a] EXCEPT !.calm = FALSE]]
Answer(a, out) == ask' = [ask EXCEPT ![a].ph = "over", ![a].out = out]

-----------------------------------------------------------------------------
(* resolveRuntimeBinary. The managed executable is probed; what is remembered*)
(* of it is used after that await.                                           *)
Resolve(c) ==
    /\ ask[c].ph = "off" /\ ask' = [ask EXCEPT ![c] = Begun("probing", version)]
    /\ UNCHANGED <<dir, backup, onPath, memory, jobs, work, requests, flips>>

(* POST /api/providers/refresh: forgets the versions and lists again.        *)
Refresh(c) ==
    /\ ask[c].ph = "off" /\ version' = "unset"
    /\ ask' = [ask EXCEPT ![c] = Begun("probing", "unset")]
    /\ UNCHANGED <<dir, backup, onPath, cache, seen, jobs, work, requests, flips>>

ProbeManaged(a) ==
    /\ ask[a].ph = "probing"
    /\ \E is \in ProbesOf(dir = "good") :
          ask' = [ask EXCEPT ![a].ph = "probed", ![a].is = is]
    /\ UNCHANGED <<dir, backup, onPath, memory, jobs, work, requests, flips>>

(* A remembered managed path is forgotten if its probe fails.                *)
TrustsCache == cache
Recalled == IF cache = "managed" THEN "unset" ELSE cache
UseProbe(a) ==
    /\ ask[a].ph = "probed"
    /\ IF ask[a].is
         THEN /\ version' = IF seen = "yes" THEN version ELSE "unset"
              /\ cache' = "managed" /\ seen' = "yes" /\ Answer(a, "managed")
         ELSE /\ seen' = "no" /\ cache' = Recalled /\ UNCHANGED version
              /\ IF Recalled # "unset" THEN Answer(a, Recalled)
                   ELSE ask' = [ask EXCEPT ![a].ph = "pathing"]
    /\ UNCHANGED <<dir, backup, onPath, jobs, work, requests, flips>>

(* probeVersion of the command on PATH answers, itself with a cache that     *)
(* forgets failures in seconds. The outcome is remembered for good.          *)
UsePath(a) ==
    /\ ask[a].ph = "pathing"
    /\ \E ok \in IF version = "unset" THEN ProbesOf(onPath) ELSE {version = "yes"} :
          /\ version' = IF ok THEN "yes" ELSE "no"
          /\ cache' = IF ok THEN "path" ELSE "null"
          /\ Answer(a, cache')
    /\ UNCHANGED <<dir, backup, onPath, seen, jobs, work, requests, flips>>
VersionExpires ==
    /\ version # "unset" /\ version' = "unset"
    /\ UNCHANGED <<dir, backup, onPath, cache, seen, ask, jobs, work, requests, flips>>

-----------------------------------------------------------------------------
(* runtimeStatus: a probe of its own, then whether the directory is there,   *)
(* then the lookup.                                                          *)
Status(a) ==
    /\ ask[a].ph = "status"
    /\ \E is \in ProbesOf(dir = "good") :
          IF is THEN Answer(a, "managed")
            ELSE IF dir # "none" THEN Answer(a, "broken")
            ELSE ask' = [ask EXCEPT ![a].ph = "probing"]
    /\ UNCHANGED <<dir, backup, onPath, memory, jobs, work, requests, flips>>

(* mutate: a mutation of the same kind is joined, others are waited for.     *)
NeverJoined(kind) == Append(jobs, kind)
Enqueued(kind) == IF \E i \in DOMAIN jobs : jobs[i] = kind THEN jobs ELSE Append(jobs, kind)
Awake(queue) == IF work = "idle" /\ queue # <<>> THEN "start" ELSE work

(* The routes refuse while a mutation is active.                             *)
Request(kind) ==
    /\ jobs = <<>> /\ requests < MaxMutations /\ requests' = requests + 1
    /\ jobs' = Enqueued(kind) /\ work' = Awake(jobs')
    /\ UNCHANGED <<dir, backup, onPath, memory, ask, flips>>

(* maybeSelfProvision: the status again, just before it installs.            *)
BootRechecks ==
    /\ ask[BootLookup].ph = "off" /\ ask' = [ask EXCEPT ![BootLookup] = Begun("status", version)]
    /\ UNCHANGED <<dir, backup, onPath, memory, jobs, work, requests, flips>>
BootInstalls ==
    /\ ask[BootLookup].ph = "over" /\ ask[BootLookup].out = "null"
    /\ jobs' = Enqueued("install") /\ work' = Awake(jobs')
    /\ ask' = [ask EXCEPT ![BootLookup].out = "none"]
    /\ UNCHANGED <<dir, backup, onPath, memory, requests, flips>>

-----------------------------------------------------------------------------
(* The steps of a mutation. Its last one, failed or not, leaves the directory*)
(* d and the backup b, forgets the resolution and starts the status of the   *)
(* event (finishEvent).                                                      *)
Doing(kind, step) == jobs # <<>> /\ Head(jobs) = kind /\ work = step
FinishWork(d, b) ==
    /\ dir' = d /\ backup' = b /\ work' = "ending"
    /\ cache' = "unset" /\ seen' = "unset"
    /\ ask' = [Disturbed(ask, d) EXCEPT ![EndLookup] = Begun("status", version)]
    /\ UNCHANGED <<onPath, version, jobs, requests, flips>>
WorkGoes(step, d, b) ==
    /\ dir' = d /\ backup' = b /\ work' = step /\ ask' = Disturbed(ask, d)
    /\ UNCHANGED <<onPath, memory, jobs, requests, flips>>

(* installRuntime: nothing to do if the runtime works; else it is staged and *)
(* probed beside the directory.                                              *)
CheckInstalled ==
    /\ Doing("install", "start")
    /\ \E is \in ProbesOf(dir = "good") :
          IF is THEN FinishWork(dir, backup) ELSE WorkGoes("stage", dir, backup)
Stage ==
    /\ Doing("install", "stage")
    /\ FinishWork(dir, backup) \/ WorkGoes("swap", dir, backup)

(* replaceRuntimeDir: the old directory is moved away, the new one in, or    *)
(* the old one back.                                                         *)
MoveAway ==
    /\ Doing("install", "swap")
    /\ \/ WorkGoes("publish", "none", dir)
       \/ dir # "none" /\ FinishWork(dir, backup)
RolledBack == IF backup = "none" THEN {dir} ELSE {dir, backup}
Publish ==
    /\ Doing("install", "publish")
    /\ \/ FinishWork("good", "none")
       \/ \E d \in RolledBack : FinishWork(d, IF d = dir THEN backup ELSE "none")

(* clearFamily removes the tree of the family, file by file, and may fail.   *)
RemoveStarts ==
    /\ Doing("clear", "start") /\ WorkGoes("remove", IF dir = "none" THEN "none" ELSE "bad", backup)
RemoveDir ==
    /\ Doing("clear", "remove") /\ (FinishWork("none", "none") \/ FinishWork(dir, backup))

(* The event is out: the next mutation, if there is one.                     *)
Emit ==
    /\ work = "ending" /\ ask[EndLookup].ph = "over"
    /\ jobs' = Tail(jobs) /\ work' = IF Tail(jobs) = <<>> THEN "idle" ELSE "start"
    /\ ask' = [ask EXCEPT ![EndLookup] = Off]
    /\ UNCHANGED <<dir, backup, onPath, memory, requests, flips>>

-----------------------------------------------------------------------------
(* The user installs the CLI, or removes it.                                 *)
Flip ==
    /\ flips < MaxFlips /\ flips' = flips + 1 /\ onPath' = ~onPath
    /\ ask' = [a \in Lookups |-> [ask[a] EXCEPT !.there = FALSE]]
    /\ UNCHANGED <<dir, backup, memory, jobs, work, requests>>

(* The server crashes, at any step of a mutation, and starts again.          *)
Restart ==
    /\ backup' = "none" /\ cache' = "unset" /\ seen' = "unset" /\ version' = "unset"
    /\ ask' = [a \in Lookups |-> Off] /\ jobs' = <<>> /\ work' = "idle"
    /\ UNCHANGED <<dir, onPath, requests, flips>>

RuntimesNext ==
    \/ \E c \in Callers : Resolve(c) \/ Refresh(c)
    \/ \E a \in Lookups : ProbeManaged(a) \/ UseProbe(a) \/ UsePath(a) \/ Status(a)
    \/ \E kind \in {"install", "clear"} : Request(kind)
    \/ VersionExpires \/ BootRechecks \/ BootInstalls
    \/ CheckInstalled \/ Stage \/ MoveAway \/ Publish \/ RemoveStarts \/ RemoveDir \/ Emit
    \/ Flip \/ Restart
RuntimesSpec == RuntimesInit /\ [][RuntimesNext]_runtimeVars

-----------------------------------------------------------------------------
(* A lookup during which the managed runtime stayed as it was never names a  *)
(* managed runtime that does not work, whatever lookups that raced with a    *)
(* mutation left in the caches after finishEvent had cleared them.           *)
ResolveHeals ==
    \A a \in Lookups :
        ask[a].ph = "over" /\ ask[a].calm => (ask[a].out = "managed" => dir = "good")

(* "Recheck immediately before each mutation: an earlier install or an       *)
(* external tool becoming available must never be overwritten"               *)
(* (maybeSelfProvision): a recheck all through which the CLI was on PATH     *)
(* does not say that it is missing.                                          *)
RecheckIsCurrent == ~(ask[BootLookup].out = "null" /\ ask[BootLookup].there)
=============================================================================
