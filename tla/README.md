# Multi-AI Terminal: specifications, model checks and proofs

Multi-AI Terminal (MAT) runs workflows of AI coding agents. A *run* goes through
the stages of a workflow; a stage is a set of nodes (agents) executed with bounded
parallelism; after a gated stage an orchestrator agent decides to advance, retry
or abort; the user may steer, abort, kill a node or retry a stage at any time.
The server is one JavaScript process (`src/server/src`), so nothing runs in
parallel *inside* it, but every `await`, timer and child process callback is a
point where anything else may happen, and almost every bug this code could have
is an interleaving at one of those points. That is what these modules are about.

Paths below are relative to `src/server/src/` unless they start with `src/`.

## 1. Inventory

| Part | State it keeps | Operations | Talks to | Module |
|---|---|---|---|---|
| Run manager `engine/runManager.ts` | `activeRuns`, `executions`, a mutex per run, `run.*` | create, execute, abort, steer, kill node, retry stage, apply patch, boot sweep | stage runner, steer cycle, store, log | `RunEngine`, `RunStore`, `Worktrees` |
| Stage runner `engine/stageRunner.ts` | `run.status`, `currentStageId`, `gateDecisions`, the control (`pendingRetry`, cut stages) | enter a stage, execute its nodes with workers, gate, retry | node runner, gate | `RunEngine` |
| Steer cycle `engine/steer.ts` | `run.steers`, the agent node of a steer | activate, execute, review, redo | stage runner, gate | `RunEngine` |
| Node runner `engine/nodeRunner.ts` | a NodeRun, `liveNodes`, stall and hard timers | prepare, spawn, kill, time out, finalize | adapters, worktrees, sign-in | `NodeRunner`, `AttemptEvidence` |
| Orchestrator gate `orchestrator/` | the orchestrator's node, a deadline | evaluate, fresh-session retry, re-ask | node runner | `RunEngine` |
| Run store `store/runs.ts` | a file per run, a mutation queue | save, get, prune, delete | disk | `RunStore` |
| Worktrees `engine/worktree.ts` | git worktrees, branches, patch files | create, capture, prune | git | `Worktrees` |
| One-shot CLI queue `providers/cli/manager.ts` | sessions map, queues, fallback timers | startRun, kill, dispose, end of child | grok and agy children | `CliSessions` |
| Codex connection `providers/codex/connection.ts` | slot (child, request table, handshake), deferred recycle | request, recycle, reap, lose | codex app-server | `CodexConnection` |
| Codex threads and runtime `providers/codex/threads.ts`, `runtime.ts` | sessions, running turn, stale turns, generation; the pair in use | startTurn, abort, notifications, recovery, retire | connection | `CodexThreads` |
| Claude runtime `providers/claude/` | sessions with a chain of turns and a warm query | startRun, kill, reap, runtime change | Claude agent SDK | `ClaudeSessions` |
| Sign-in and accounts `providers/signin.ts`, `codex/accounts.ts` | the active ceremony; shared credential, snapshots, index | start, submit code, cancel, settle; capture, switch, remove | codex runtime, child | `SignIn` |
| Managed runtimes `runtime/` | mutation queue, resolution cache, directories | install, clear, resolve, self-provision | providers, network, disk | `ManagedRuntimes` |
| Provider installs `api/routes.ts`, `adapters/base.ts` | running installs, version cache, probes under way | install, update, refresh | children | `ProviderInstall` |
| Model catalog `providers/openrouter/catalog.ts` | cache, download under way, last good answer | load, merge, sort | network | `ModelCatalog` |
| Event log and feed `store/eventLog.ts`, `api/wsHub.ts`, `src/web/src/api/ws.ts`, `app/store.ts` | sequence numbers, subscriptions, what the page calls live | append, subscribe, catch up, recover | web page | `EventFeed` |
| Adapters and contract `providers/contract.ts`, `adapters/base.ts` | per turn: buffer, tool ids, coalescer | receive, project, end | providers, log | `AttemptEvidence`, `TurnStream` |
| Local stores `store/workspaces.ts`, `workflows.ts` | files and a queue each | list, create, update, remove, duplicate | disk | `LocalStores` |
| Child processes `spawn.ts` | timers of one child | spawn, SIGTERM, SIGKILL, sweep of the group | operating system | `ChildGroup` |
| Web page `src/web/src/app/` | selected workspace, active and viewed run, snapshots | select, start, list, page, replay | HTTP API, feed | `WebPage` |
| Panels `src/web/src/panels/workspace`, `panels/workflow` | lists, selection, drafts, pending calls | create, edit, save, copy, run, remove | HTTP API | `Panels` |
| Setup dialog `src/web/src/components/ProviderSetup.tsx` | ceremony, accounts, buttons | sign in, poll, cancel, accounts, install | HTTP API | `SetupDialog` |
| Desktop shell `src/desktop/src-tauri/` | slot of the server child, `stopping` | start_server, stop, health poll | server | `DesktopShell` |
| Scripts `src/scripts/agent/` | launch lock, state file | launch, stop, inspect | server | `Launcher` |
| Prompts, digests, redaction, diagnostics, rendering, packaging, site | little or none | text | | |

How they interact: the page and the scripts reach the server over HTTP and a
socket; the routes call the run manager, sign-in, runtimes and stores, which share
one event loop; the run manager drives the stage runner, which drives node runners,
which spawn turns on the four providers and append what they say to the log, from
which the hub feeds the page. What survives a crash is files: runs, logs, stores,
credentials, runtime directories, worktrees, the launch state.

What makes each of them hard, and what makes it correct:

* **Engine.** The execution is one coroutine that assigns `run.status` and node
  fields after awaits during which the API may have aborted the run, killed nodes
  or queued steers. Correct means: an end is final; budgets of evaluations and
  attempts hold; a node is never attempted twice at once; what was accepted
  (a retry, a steer) is carried out or visibly given up; the execution promise,
  on which `abortRun` and `retryStage` wait, settles with nothing alive.
* **Node runner.** A kill during an await before the spawn has no process to kill.
  It must win all the same; timers and kills race for the reason of the end.
* **CLI queue.** A kill is answered by a timer while the old child may live on;
  turns that resume one vendor session must not overlap, and no path (spawn
  failure, kill of a queued turn, late exit, dispose) may strand the others.
* **Codex.** One child serves all sessions: loss of the connection, late
  responses, interrupts that must find the right turn id, recycling when idle,
  a pair replaced under a turn. A reply answers its own request; a thread that
  counts as loaded is loaded; a turn ends by its own messages; a kill ends it.
* **Claude.** A turn's interrupt or fallback must not hit the next turn of the
  session, and one of the two must end the turn.
* **Sign-in.** One ceremony at a time over global credentials; error, exit, cancel
  and timeout race to settle it, and no account may lose its newest credential.
* **Managed runtimes, installs.** A crash between two renames; caches written after
  awaits, so that what was true before a mutation outlives it.
* **Event log, feed.** Crash during an append; subscribe against catch-up; what
  the page calls live must be whole, and recovering must end.
* **Run store.** Saves fail, the server dies between them, children live on; the
  boot must account for every working run and every child it could know of.
* **Worktrees, stores.** Operations of several steps on shared files.
* **Evidence and text.** A transport speaks too early, too late, twice and in
  chunks; the log must tell an attempt's story in order, and the text once.
* **Page, panels and dialog.** Replies of requests that are no longer of interest, and
  handlers that go on after an await with the lists of an older render.
* **Shell and scripts.** Processes and threads that may stop between any two
  steps and must leave no server behind that nobody knows of.

`PROJECT.json` lists every hazard at its line, with the properties that cover it
or what is missing to state one.

## 2. Plan

Order: what decides the outcome of a user's run comes first. Done, in this order:
`SessionFifo`, `CliSessions`; `NodeRunner`, `RunLifecycle`, `RunEngine`, with their
proofs; `CodexConnection`, `CodexThreads`, `SignIn`; `EventFeed`, `ClaudeSessions`;
`RunStore`, `Launcher`, `DesktopShell`, `ManagedRuntimes`; `ChildGroup`,
`AttemptEvidence`, `LocalStores`, `ModelCatalog`, `ProviderInstall`, `TurnStream`;
`WebPage`, `Worktrees`, `SetupDialog`, `Panels`; then the proofs of section 6.

Left, in order of use:

1. Proofs of what is only checked, where the provers can (end of section 6): the types
   of the components in `run_alone`.
2. Deletion of a run beside an attempt that is still ending: `Worktrees` and
   `RunStore` have the two halves, apart.

No module uses a RECURSIVE operator, so that all of them can be proved about.

## 3. Modules and how they correspond to the code

* **`CliSessions`** models `CliSessionManager`. A method runs to completion, so
  an action is one call or callback: `StartRun` (`startRun`, `session`),
  `KillQueued`, `KillActive` (`kill`), `KillFallback` (its timer), `Dispose`,
  `FinishTransport` (`finishTransport`, `release`). `startNext` is recursive in
  the code, through spawn failures; `StartAfter` gives its result when the first
  `refused` turns of the queue cannot be spawned. A state object in the
  `sessions` map is named by the turn that created it, since turns keep their
  reference when the map forgets it. The text and usage of an answer are
  reduced to ok, failed or killed.
* **`SessionFifo`** is what callers of that queue rely on: a line per session
  key, one holder, order of arrival, one answer.
* **`NodeRunner`** is `runNode` cut at its awaits: `prep` (prepare, spawn slot),
  `resolve` (runtime lookup), `live`, `finish` (capture, verify, save) and `save`.
  Its operators are the steps and the kill helpers; what `runNode` asks its
  context (`getRunStatus`, `steerPending`) are parameters.
* **`RunEngine`** extends it with `executeRun`, `runStage`, `executeNodes`,
  `runSteerCycle`, `evaluateGate` and the API. `pc` names the await the execution
  is suspended in: `enter`, `select`/`again` (head of `runStage`'s loop),
  `executing` (workers), `gatePersist`, `gating`, `boundary`/`steers`/`activate`/
  `push` (between stages and in a steer cycle), `review`, `settle`, `idle`.
  `lock` is the run's mutex: `abort` holds it until the execution settles, `retry`
  waits in it for a settling execution, `start` is a reopened run being saved.
* **`RunLifecycle`** is the abstract engine: the status of a run, the fate of its
  steer messages and whether it is quiet.

Two simplifications of `RunEngine` deserve their reason. The workers of
`executeNodes` share a cursor and are interchangeable: a node is *left to pick*
when it is queued and at rest, because the cursor has passed every other node of
the selection or the node was not selected. The control's flags about a cut or
gating stage are functions of `pc`, `steers` and `status` and are not kept twice.
A stalled node is a running node to the engine.

* **`RunStore`**: a run's `activeRuns` entry, execution and child, its file, and
  the queue of writes; crashes, failing writes, pids reused by other processes.
* **`Worktrees`**: directories, registrations and branches of the trees of a run,
  patches, and `applyPatch`; git is what its commands do to these.
* **`CodexConnection`**: the current slot and the lost ones, whose children still
  write. **`CodexThreads`** stands on the promise of a connection (it answers,
  fails or is lost) and has pairs, sessions, their operations, the interrupt driver
  and the runtime's retirement of pairs. What runs as a chain of promise reactions
  runs before timers and exits (`Quiet`).
* **`ClaudeSessions`**: a queue of turns per session and queries named by the turn
  that built them, which outlive it.
* **`SignIn`**: ceremonies, the shared credential, the snapshots and the index. A
  credential is an account and a version, since a refresh token is used once.
* **`EventFeed`**: log, hub, socket, client and page, one run.
* **`ManagedRuntimes`**: one family's directory and its backup, the caches, and
  every lookup that is suspended between a probe and the cache.
* **`ProviderInstall`**: version cache, shared probes, install and update requests.
* **`ModelCatalog`**: `load` with its joined download, and grouping as functions.
* **`ChildGroup`**: a leader and a helper in its group, and the three ways a group
  is signalled.
* **`AttemptEvidence`**: `runNode`'s lines and the bridge's buffer and tool ids;
  **`TurnStream`**: the text itself, from deltas or chunks to evidence and answer.
* **`LocalStores`**: both JSON stores with their queues.
* **`WebPage`**, **`SetupDialog`**: the page's variables and its requests in flight.
* **`Panels`**: the panels' lists, drafts and selection, and one call of each form in
  flight, which keeps the lists of the render it began in; the content of a workflow
  is a number, a new one for every edit. The server's stores take one step, since
  `LocalStores` has their queues.
* **`DesktopShell`**: the two threads and the server; **`Launcher`**: scripts that
  may be killed between any two system calls.

Definitions that say of themselves what they get wrong (`Bad...`, `No...`,
`Hasty...`, `Forgetful...`, `Left...`, `Kept...` and the like, each just before the
definition it would replace) are faulty variants that a property must notice; no
specification uses them.

**Compositions.** `RunEngine` composes the node runner, stages, steers, gate and
API; `CodexThreads` the manager and the runtime; `SignIn` ceremonies, accounts and
turns; `EventFeed` four programs; `RunStore` the run manager, the store and the
processes. Components that do not interact are put side by side in one run: the
composites `MCProviders`, `MCLive`, `MCRunAlone` (which extends `MCParts`) and
`MCCliSessions` EXTEND their components, and a variable `part` says which one moves
in a behaviour; the others rest in their initial states. So a run explores the
disjoint union of its parts, and the properties it checks are the very definitions
that the theorems state. A part that rests enables none of its fair actions, so
fairness asks nothing of it; a property that mentions only its part holds there of
the initial state, and counts where it moves.

## 4. Runs

| Run | Instance | Shows |
|---|---|---|
| `run_gate` | stages {a1,a2} (gated, verification required) and {b1}, orchestrator, `maxParallel` 1, 1 retry, kills of a2 and o | `GateBudget`, `RetryHonoured`, `RunEnds` |
| `run_steer` | one gated stage, two steers of either mode, orchestrator, kill of a steer's agent | refinement of `RunLifecycle`, `QuietWhenIdle` |
| `run_alone`, engine | two stages, one steer, no orchestrator, `maxParallel` 2 | `NoStageLost`, `KillWins` where they hold |
| ... store | an old and a new run, one kept; one retry, crash, failing save, two together | `Recovered`, `OrphansSwept` |
| ... scripts | two launches, a stop, one kill | `RunnersAreKnown` |
| ... shell | two early calls of stop and the last | `NoServerLeft` |
| ... runtimes | a caller, the boot's lookup, one mutation, one change of the PATH, probes that time out, a crash | `ResolveHeals` |
| ... parts | see `MCParts`: two contents around a spawn, three clients, two downloads, two installs and three probes, two turns of three pieces; panels with 2 edits, 2 calls, one lost reply | `GroupReaped`, `EvidenceInOrder`, `NothingLost`, `OrderIrrelevant`, `ReplyIsFresh`, `TextIsWhole`, `PanelsFollow` |
| `cli_sessions`, queue | 4 turns, 3 of which share a key | `OneChildPerKey`, `KilledIsAnswered`, refinement of `SessionFifo` |
| ... worktrees | one node, two attempts, two applications, a crash, a refused removal, another commit | `ArtifactsHold` |
| ... page | 3 runs of 2 workspaces, 2 requests, a frame in flight, a lost socket | `PageIsOwn`, `PageFollows` |
| ... dialog | 2 ceremonies, 4 chains of requests, either kind of ceremony | `DialogFollows` |
| `providers` | two turns of one thread, 2 pairs, one fault; 2 calls on 3 children; 2 sign-ins, 2 accounts, a crash | `ThreadLoaded`, `ResumedKeepsThread`, `OwnEnd`, `KilledTurnEnds`; `OwnReply`; `CredentialsKept`, `CeremonyEnds` |
| `live` | 3 events, pages and ring of 2, one lost socket or crash; 3 turns of one session, one replaced runtime | `LiveIsContiguous`, `LiveMissesOnlyUnheard`, `EvidenceImmutable`, `RecoveringEnds`; `OnlyKilledEndKilled`, `KilledClaudeTurnEnds` |
| `run_lost_stage`, `run_late_spawn`, `run_overrun`, `codex_inherit`, `accounts_snapshot`, `runtime_forgotten` | smallest instances | the divergences of section 5 |

**Bounds.** In the engine, two nodes in a stage are needed for a retry of a part and
for workers that wait for each other; two stages for the order between a steer and
the next stage and for a retry of an earlier stage; two steers for one arriving
while another is carried out. `MaxSteers` (the length of `SteerAgent`; 8 in the
code, runManager.ts:240), `KillTargets` (nodes the user kills) and `MaxAttempts`
(attempts after which the user reopens no stage) are bounds of the environment and
appear in the guards of `SteerRun`, `User` and `RetryStage` only.
`maxRetriesPerStage` 1 separates "not yet used", "used" and "one too many".

Elsewhere a bound is a CONSTANT named `Max...` with its meaning beside it. They were
chosen as the least values with which each mutant of the component is caught and
every action fires: a queue behind a live child needs two turns of a key and a third
to be overtaken; a stale answer needs two children that reuse an id; two ceremonies
let the end of one meet the start of the other; two accounts and two versions make
an old credential different from another's; pages and ring of two events make a
catch-up of several pages and an overflow with three; a crash and what it cut short
need one crash; two pieces and a whole message show a lost and a doubled suffix.
One crash, one fault or one failing write at a time is a real limit of these runs:
two in a row in one behaviour are checked only where the bound says so
(`MaxTroubles`, which adds a retry).

**Deadlock** is not checked: a run that is over, a queue whose turns have all been
answered, a script that has ended and a bounded environment rightly stop. That an
execution, a ceremony, a kill or a recovery cannot stop *elsewhere* is what
`RunEnds`, `CeremonyEnds`, `KilledIsAnswered`, `KilledTurnEnds`,
`KilledClaudeTurnEnds` and `RecoveringEnds` say.

**Fairness.** The engine's own steps are weakly fair: between two awaits the code
waits for nothing but its turn in the event loop. A node's coroutine is fair
including the end of its child: the hard limit kills the child
(nodeRunner.ts:424), and SIGTERM turns into SIGKILL after ten seconds
(spawn.ts:208-213). The steps that prepare a node, find its runtime, capture and
verify are subprocesses with time limits of their own. Timers and users owe
nothing: no property needs a gate to time out or a user to act. In `CliSessions`
only the kill fallback timer is fair; no child has to end. In `CodexThreads`
promise reactions, timers that are armed and the reading of written lines are fair,
and a request is answered or times out; the app-server owes nothing else, and no
turn ever has to end by itself. In `ClaudeSessions` lookups and the fallback timer
are fair, results are not. In `SignIn` the spawn, the kill and the end of a login
child (it has a time limit, signin.ts:293), its settlement and the status probe
(timed as well, signin.ts:206) are fair. In `EventFeed` requests end, with an answer
or a failure; sockets need not come back. All other components are checked for
safety only, and their specifications state no fairness.

## 5. Divergences between code and documents

1. **A stage cut by a steer can be lost** (`run_lost_stage`). The cut stage is
   stored beside the steers and taken by the first one activated (steer.ts:47).
   If a second interrupt arrives before that steer's agent is live, the first is
   superseded and the stage goes with it: the second steer continues as if
   nothing had been interrupted, and the run ends *done* with nodes queued.
   SPEC.md says an interruption "deterministically retries".
2. **A kill during the runtime lookup does not win** (`run_late_spawn`): the
   checks stand before `await resolveRuntimeBinary` (nodeRunner.ts:333) and are
   not repeated after it, though the comment on the earlier await says a kill
   must win before an adapter process can be created. The child is spawned in an
   aborted run and lives until it ends by itself or at its hard limit.
3. **The gate's budget can be exceeded by one** (`run_overrun`): if the hard
   limit strikes a node that a steer is killing, its reason is replaced
   (nodeRunner.ts:427), the node counts as failed and the stage as intact, so it
   is gated; the steer has recorded the interruption nevertheless, redoes the
   stage, and it is gated again beyond `1 + maxRetriesPerStage`.
4. **A rejected start fails the turn that replaced its own** (`codex_inherit`). When
   `turn/start` is rejected, threads.ts:294 finishes whatever turn the session is
   running, which is the successor if the turn that asked was given up meanwhile.
   The comment at threads.ts:359-361 promises that ids keep the two apart. `OwnEnd`
   says where it does hold: as long as the app-server answers before the timers.
5. **A switch can overwrite an account's snapshot with another's credential**
   (`accounts_snapshot`). A codex login rewrites `auth.json` at once; if it is then
   cancelled, times out or is judged a failure, the index still names the old account
   and the next switch copies the new credential into the old account's snapshot
   (accounts.ts:178). `CredentialsKept` excludes what such a login has spoiled.
6. **The recheck before a mutation asks a cache that never forgets**
   (`runtime_forgotten`). A CLI that was missing once stays missing in
   `resolveRuntimeBinary` (resolve.ts:41-44) although the user has installed it, so
   the managed runtime is installed beside it against the comment at
   triggers.ts:113-114; POST /api/providers/refresh does not help, as it empties only
   the version cache.

The passing runs check the same properties where these cases are excluded:
`NoStageLost` with one steer and `KillWins` without a runtime lookup (`run_alone`),
`GateBudget` without steers (`run_gate`).

Observed while modelling, without a document that says otherwise, so that no run
states them: a codex sign-in that completes while a pair is being created leaves a
live turn without a setup, which a kill then does not reach (codex/runtime.ts:77-81;
`EarlyRetire` in `CodexThreads`, FALSE in the runs);
an aborted run that is deleted while a node's worktree is being created or captured
leaves that tree, branch or patch behind (`early` in `Worktrees`; README.md:121 says
that all are pruned); a save queued before a run's removal brings the run back;
`stop --clear-invalid-state` beside a launch may remove a state file that has just
become valid (stop.mjs:38-39); a late reply to a submitted code closes or fails the
ceremony that replaced its own (ProviderSetup.tsx:247-263; `adrift` in
`SetupDialog`).

## 6. What is proved

Eight modules hold the proofs. Each theorem is about the specification of one
component, for every value of its constants; what the constants are assumed to be
stands beside them as `<Component>Assumption` and is what the code justifies (ids
are apart, bounds are natural numbers). In the composites of section 4 a component's
behaviours are those of its own specification, so a theorem speaks of all its runs.

### The queue of the one-shot CLIs, worktrees (`CliSessions_proofs`)

For any set of turns, any set of keys and any assignment of turns to keys, `TypeOK`,
`OneChildPerKey`, `MapHoldsLiveSessions` and `AnswerOnce` hold. None is inductive
alone; `SessionInv` is. That a session has one child follows from three facts at
once: a child belongs to the active turn of its state object (`Children`), a busy
object is the one that the map holds under its key (`Holding`), and an object has
the key of its turns (`ObjectKeys`). To keep them when `startNext` hands the session
on, the waiting turns must be known to have no child and no answer (`Waiting`), to
be queued once (`Distinct`), and an idle object must have nobody waiting
(`IdleEmpty`), because otherwise `startRun` on an idle object would start a turn out
of order. All callers of `startNext` are brought to one lemma, `StartNextKeepsInv`,
whose hypotheses say in what condition a caller must leave the state.

`QueueIsFifo` proves that `CliSessions` implements `SessionFifo`. The line of a key is
the queue of the object that the map holds under it, so a turn that waits must be
known to wait there and nowhere else (`KeyIsHeld`, `WaitsInLine`). A hand-over passes
the holder's place to the first of the line and answers those whose child could not
be spawned, in order (`StartNextPasses`); every other action is one step or a stutter.

`ArtifactsAlwaysHold` proves `ArtifactsHold` for any candidates, attempts and requests.
`WorktreesInv` adds to it that a patch is in its place only after its attempt's
capture, and that the commit an attempt remembers is its tree's (`Captured`); that
trees are pruned beside an attempt only on deletion, after which no attempt follows
(`Quiet`); and that a request that was checked still fits, or the user has edited
(`Applying`). The argument is about deletion: everything else that removes a tree
waits until its attempt has ended.

### The engine (`RunEngine_proofs`)

For any team, any number of steers, any retry budget, any `maxParallel` and any set
of nodes the user kills: `TypeOK`, `BoundedConcurrency`, `QuietWhenIdle`,
`AttemptsApart`, `TerminalIsFinal`, `GateBudget`, `RetryHonoured`, and the engine
implements `RunLifecycle`. `EngineAssumption`: a run has finitely many nodes and at
least one stage, no stage is empty, the orchestrator's node belongs to no stage
and to no steer, and no node to two of them (runManager.ts:66-83 refuses a candidate
with the orchestrator's id, two with the same, and stages named like a steer's; a
steer's node id is composed from its stage). The parts of `EngineInv` need each other:

* `Place` says which stage the execution works on at each await. Without it a
  gate's decision could be applied to nodes of another stage.
* `BusyPlace` says that a node is busy only while the execution waits for it: for
  its stage in `executing`, for the orchestrator in `gating`. `AttemptsApart` is
  this fact seen from `ResetForRetry`: every reset happens at an await where
  everybody is at rest (lemma `RestWhenJoined`). `QuietWhenIdle` is its other use.
* `Crowd` bounds the busy nodes. A worker counts those of its stage only; by
  `BusyPlace` there are no others.
* `Ends` says where a run may be over, and who holds its mutex then. It is what
  makes the assignments `status = "running"` after an await harmless: at none of
  those places can the run be done or failed, and aborts are looked for.
* `OpenSteers` says that at most one steer is active, the one the execution works
  on. It gives the order of steers, and that none is left behind.

A step of the engine is one lemma each. For the refinement, `StepKinds` sorts the
steps into those that only move the execution (`Progress`, `Still`), and those
that accept, activate or close a steer, settle or reopen the run; each kind is
then one step of `RunLifecycle`. `TerminalIsFinal` follows from the same lemma.

The budgets are counts of what happened over many steps, so `BudgetInv` says of
every stage how many evaluations it may still get at each await (`OrderStands`: a
retry the user ordered is in the budget until it is over). It proves more than the
documented bound: with an orchestrator in the team no stage is gated more than
`1 + maxRetries` times plus once for every steer that was *reviewed*; the documented
bound, which `run_gate` checks, is the case without a review, and `run_overrun` is
how a review adds one. Without an orchestrator `retryStage` counts attempts instead.

`KillWins` is proved under `RuntimeNodes = {}`, which is the case the code keeps its
promise in: between the last check and the spawn there is no await (`Waiting`). With
a lookup there is one, and `run_late_spawn` violates the same property (section 5).

`NoStageLost` is proved for runs that are `Alone`: no orchestrator, at most one steer
and no node that the user kills by itself. Each clause is needed: a judge may advance
past a stage that was cut short, a second steer may supersede the first
(`run_lost_stage`), and a killed node stays killed. `StageInv` says what becomes of
every stage: those before the place of the execution are `Over`, those after it are
`Fresh` (`StageOrder`), where the place of a retried run that is being started is the
stage that was retried (`StageReached`). Of the stage in between `ThisStage` says at each
await that it is over, or that its nodes will be executed, or that the steer that cut
it short has noted so and will have it redone. For the last case the invariant must
know who ended the children: only an abort or the steer that waits (`Signs`), and that
the stage that was cut is the current one and its steer still pending (`CutKnown`).

### Processes of the machine (`Machine_proofs`)

* `GroupReaped` (`GroupInv`): a timer is armed only for a child that is there, an
  observed exit is one, and an escalation that has fired leaves the group empty;
  `OnExit` sweeps the group in every other case.
* `NoServerLeft` (`ShellInv`): a server that is alive is in the hands of one thread
  or in the slot, and the main thread leaves the slot empty. `Register` keeps both
  because it waits for the mutex that a terminating main thread holds. What
  `Register` does when it finds `stopping` set is not used: that spares the user a
  wait for the port and another stop.
* `ReplyIsFresh` (`InstallInv`): the probe a request waits for after its recipe was
  started, and had not looked, when the recipe ended; and versions only grow.
* `ResolveHeals` (`HealInv`): what a lookup holds between its probe and the cache
  was so when it looked; the caches themselves are not trusted by the invariant.
* `RunnersAreKnown` (`LaunchInv`): who is past the creation of the mutex holds it
  (`Holders`), a launch spawns one runner (`OnceSpawned`), whoever is to be cleared
  away is dead, and who builds has seen under the mutex that nobody else is at work
  (`BuildsAlone`). The three ways the files leave open are in the invariant as
  histories (`Excused`).
* `EvidenceInOrder` (`EvidenceInv`): the log, and what the bridge keeps back until the
  attempt is live, are each in order: any two lines fit each other (`Ordered`), the
  answers are older than every use that is still open (`Queued`, `Older`), and a stalled
  mark in the log is taken back by the next line but when it is the last (`Healed`,
  `Waits`, `Takes`). The attempt's own lines begin the log (`HasBegun`), before what was
  kept back joins it (`Joins`).

### Providers (`Providers_proofs`)

* `OwnReply` (`ConnInv`): a line of a child carries a number that this child was
  given, and if it finds an entry in the *current* child's table that entry is its
  own request (`LinesOwn`), since ids grow and a lost slot is no longer current.
* `CredentialsKept` (`CredentialInv`): whoever has begun a ceremony holds the
  reservation, the shared file holds the newest credential of its account, and before
  a login child writes there the account it replaces is in its snapshot
  (`LoginKeepsOld`), which is what capturing before the spawn is for.

The module also holds the last step of the argument about codex turns, below.

### Codex threads (`CodexThreads_proofs`)

For any number of turns, sessions, account changes, losses and timeouts. Three layers:

* `Basis`: the types; who waits in a session's queue is a turn of that session and
  that pair, once (`QueueOf`); a queue that waits for an interrupted turn still has its
  head (`BlockKnown`).
* `Wires`: an open request, or an answer nobody has read, is the one its turn waits
  for, and a turn has one at most, of each kind; an answer that the thread is loaded
  speaks of this child; no session's generation exceeds its connection's. A child is
  lost only when every promise reaction has run, so that no answer of it is looked at
  afterwards. `ThreadLoaded` is a part of `Wires`: `recoverThread` and the generation
  are needed precisely because without them a late answer would mark a new child's
  session as loaded.
* `Runs`: who waits for the setup of a pair is listed (`WaitsKnown`), a pair that is
  used was made or failed (`PairsKnown`), a kill that is chained on a setup is of a
  pair still being set up (`KillsKnown`), a turn past its setup is in a pair that is
  there (`PlaceKnown`); and a session with a vendor thread that a manager owns has
  adopted it, or there is a witness of the exception (`Strayed`). `ResumedKeepsThread`
  follows. The step that needs care is the abort after a setup: `NoneWaits` says that
  when it happens no turn of that pair still waits for its run to begin.

The exception in `ResumedKeepsThread` was found by the attempt to prove it without;
TLC then showed it with three turns, in 15 steps. Two turns wait for a session that
resumes a vendor thread; the account changes and their pair is retired; a third turn
has a new pair set up; the second, still queued in the retired manager, is killed.
`kill` chains on `this.setup`, whatever pair the turn is on (codex/runtime.ts:76-81),
so the new manager gets an abort for a run it never began and owns the session without
the thread (codex/runtime.ts:114). No document speaks of it, so no run states it.

### Whose codex turn ends (`CodexTurns_proofs`, `Providers_proofs`)

`OwnEnd` is proved for any number of turns, sessions, pairs, losses and timeouts, under
`~EarlyRetire`: no account change in the middle of a setup, which is the case the runs
take as well (section 5 names what an early one does). It says that a turn is ended by
nobody else as long as its app-server is not slow, and it relates an end that was
written long ago to the turn that runs when it is read; so the invariant must follow
every line from the moment it was asked for. Four more layers above `Basis`, `Wires`
and `Runs`:

* `Turning` (a theorem of its own): a turn that has begun and is not over is the one
  that runs in its session (`RunningKnown`, `TurnsRun`), a driver that has asked knew
  an id to ask for, and the child and the wire speak only of turns that have begun
  there (`Heard`).
* `RunOrder`: one pair at a time is set up, all who wait, wait for the same one, and
  the runtime knows the last run of a session as long as one of it waits or is queued
  (`LastRuns`); between two lines of one chunk nobody is about to begin (`Steady`). It
  is here that `~EarlyRetire` is needed: it is why a queue that rests stays at rest.
* `Askers`: a turn that waits for an answer of `beginTurn` runs, or it was finished by
  its own messages before that answer and nobody begins in its session until it is
  told (`Orphan`, `Rested`); so when a request fails, the turn that `finish` settles
  is the turn that asked. `codex_inherit` is what a slow app-server does to this.
* `Signs`: every event that can be read names the turn that runs or one that is
  remembered as stale, and comes after the answer to its `turn/start` (`EventSigns`,
  `Started`); of a turn's end the child speaks last (`LastSign`); the turn that runs
  is called by no other name (`RunSign`), so that `isEndOf` takes no other turn's end
  for its own; an interrupt is sent for the turn it means (`LineSigns`), and an answer
  that names another turn is never for the one that runs (`FoundSigns`).

The steps were first sorted by what they do to a turn (`EarlyMoves`, `Lost`, `Asks1`,
`Opens`, `Fails`, `Drives1`, `Begins`, `Stops`, `Reads`, `Works` and so on), each action being
shown to be one of these; every layer is then proved of those. `EndsOwn` is the step
that the property speaks of. `TurnsAssumption`, that no turn has the name of an answer,
stands in the model for the shape of the message that names a turn.


### Feed and Claude (`Live_proofs`)

* `EvidenceImmutable` (`EvidenceInv`): a line that was given a number is on disk
  under that number wherever it is still seen: client, frames, replies.
* `LiveIsContiguous`, `LiveMissesOnlyUnheard` (`FeedInv`): for any number of events,
  pages, drops and crashes. What was put into the page's store is shown, or was pushed
  out by a full ring, and merging keeps that (`Holds`); `Whole` says at each stage of a
  catch-up where the page may still have holes: between what it asked for and what the
  socket has brought since; the log never gets shorter (`Extent`), and a socket that
  is open has heard everything since it was opened (`HeardAll`), which is what
  subscribing before the catch-up is for.
* `OnlyKilledEndKilled` (`ClaudeInv`): a session has one turn at work (`OneAtWork`),
  and every mark by which a turn is told that it was killed (the session's flag, an
  interrupt asked for, the fallback) belongs to a killed turn (`MarksAreOwn`), or to
  one that had sent its message into a query that an earlier refused interrupt
  aborts. The proof found that second case; the run had two turns then and could
  not, and has three now.

### Stores (`RunEngine_proofs`)

* `NothingLost` (`KeptInv`): who waits in a store's queue is in it once, one whose
  operation has read is at its head, and what it has read is still there, so a writer
  that puts a list back takes nothing away.
* `Recovered`, `OrphansSwept` (`StoreInv`): while the server is up every run that is on
  disk as working has an execution or a mutation that will write it (`Working`), and
  what the boot may kill is what disk and pid table say (`OrphansFound`).

### The page (`Page_proofs`)

* `PanelsFollow` (`PanelsInv`): a call relies on the list of its render being the list
  of the page still (`ActionStands`, `SitesStand`), and a workflow that the page has
  wrong keeps its draft (`ListedIsStored`), so that a run is never asked for by an
  id whose content differs from what was shown.
* `PageIsOwn`, `PageFollows` (`PageInv`): `Following` says that what is under way
  will bring the rest: page, frames in flight and the list in a reply that is awaited
  (`Promised`) together make the state of the server. TLC has one frame in flight;
  the proof has any number, in order.
* `DialogFollows` (`DialogInv`): unless it went adrift (section 5), a disabled button
  has exactly one request that will enable it, and of the account changes one is
  followed at a time (`OneChange`).

`TypeOK` of `CliSessions` and of `RunEngine`, of the connection and of sign-in,
`AnswerOnce`, `MapHoldsLiveSessions`, `BoundedConcurrency`, `AttemptsApart` and
`TerminalIsFinal` are proved and are not among the properties of the runs any more,
whose number is better spent on what has no proof.

**How.** Where an argument counts or recurs (the first free name, the greatest run,
a sum over stages), an operator would need induction with an operator as a parameter;
the proofs take a minimal counterexample instead (`WFMin` of `WellFoundedInduction`).

**Model-checked only.** Liveness, which is out of the prover's reach (`RunEnds`,
`KilledIsAnswered`, `KilledTurnEnds`, `KilledClaudeTurnEnds`, `CeremonyEnds`,
`RecoveringEnds`). `TextIsWhole` and `OrderIrrelevant`, which compare what was folded piece by piece, or sorted,
with what a reference definition makes of the whole: induction over data. The
types of `RunStore`, `Launcher`, `DesktopShell` and `ManagedRuntimes`
(`AloneTypeOK`): the proofs above use those parts of them that they need.

## 7. Not modelled, and why

Whole parts: prompts, digests, reports and debug bundles (pure text), redaction and
diagnostics (text substitution and logging), rendering, translations and forms of the
page, packaging, test drivers and the site. They keep no state that another part
relies on.

Within the modelled parts:

* **Engine**: a node killed while a reopened run is being saved works on a copy read
  from disk (`KillNode` is disabled at `lock` = `start`). Saves succeed in
  `RunEngine`; failing ones are in `RunStore`, which has no stages.
* **RunStore**: listing; more than `MaxTroubles` retries, crashes and failures together.
* **Worktrees**: a prune removes a tree, its branch and its registration in one step;
  no retry begins beside a deletion; two different patches always conflict.
* **Codex**: approvals (always refused); the forms of notifications. In `CodexThreads`
  the handshake and loss of a connection are what `CodexConnection` shows in detail.
* **ClaudeSessions**: dispose; which runtime a query was built with.
* **SignIn**: the wait for a URL and the patterns in the output; the needsLogin mark;
  submit and status, which `SetupDialog` has.
* **ManagedRuntimes**: environment overrides, the lookup for a spawn with a stale
  cache (`runtimeBinaryForSpawn`), pruning of old versions, a second family, sharing
  of a version probe; download and archive are one step that may fail.
* **EventFeed**: the byte index, heartbeats, an append that fails in the middle.
* **ProviderInstall**: the PATH cache; providers that are not on the PATH.
* **ModelCatalog**: labels and the order of groups.
* **ChildGroup**: Windows' taskkill, helpers that leave the group, timers that do not
  keep a stopping server alive.
* **AttemptEvidence**: tools with ids of their own pass like messages; the bridge's
  native events, which nothing emits.
* **TurnStream**: marks of continued parts, limits and redaction, results that replace
  the text, items that stream in parallel.
* **LocalStores**: validation of paths, the guard on legacy runs; a client makes one
  request.
* **WebPage**: effects of React run with the change they follow; the list's limit; a
  viewed run that the page does not know. Several active runs of one workspace are
  modelled and excluded from `PageFollows` (`stale`).
* **SetupDialog**: closing the dialog, another provider in it, the API key, the install
  of a managed runtime; two alike requests at a time. What has gone adrift is followed
  no further.
* **Panels**: a reload of the page; the guard against a second active run, which is
  `WebPage`'s; texts and translations. An edit made while a save is under way is lost
  when its reply arrives (the draft is dropped); no document forbids it.
* **DesktopShell**: forwarding of output; Windows. **Launcher**: a pid reused between
  check and kill, a state file left half-written, doctor's report.
* **HTTP API**: validation that only refuses more than the components do
  (`validateRetryStage`) and request parsing.
