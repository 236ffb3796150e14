# Verification of ai-engkit

TLA+ models of the stateful core of ai-engkit, checked with TLC and, where it matters
most, proved with TLAPS.  ai-engkit is a container (`ai-dev`) in which OpenCode and its
web front end OpenChamber run, and beside it an *admin sidecar* (`src/src/admin`, Bun and
TypeScript) that upgrades, maintains and configures it, for an operator's browser and for
a remote *center*.  A start of ai-dev runs its own protocol: the scripts of `entrypoint.d/`,
the recovery of the managed core and a gate in front of the database.  The models are of
these two sides and of what passes between them.  Paths below are relative to
`src/src/admin` when they start with `lib/`, `routes/`, `agent/` or `static/`, and to `src`
otherwise.

## 1. Inventory

All of the sidecar runs in one JavaScript thread.  A stretch of code between two `await`s
is atomic; at every `await` anything else in the process may run: another request, a
command of the center, a timer.  There are few locks: a flag per subsystem (`currentState`,
`upgradeStartInFlight`, `connecting`, `startInFlight`), a directory for agent models, a chain
of promises per GitLab host, a semaphore for probes.  What the parts share are files (`.env`,
`compose.yml`, `opencode.json`, `omo.jsonc`, `auth.json`, `config.yml`, `settings.json`, the
state files), the `ai-dev` container, and OpenCode's SQLite database in a volume.  On the
other side the shell scripts of a start run one after the other, and the container may die
between any two commands of theirs.

| component | state it keeps | operations | what must be right |
|---|---|---|---|
| upgrade pipeline (`lib/upgrade.ts`, `routes/upgrade.ts`) | `currentState`, event log, subscribers; `.env`, `compose.yml`, the staged overlay base, backups | start (UI, center), seven steps, rollback, SSE log | one pipeline at a time; a backup of what was found; a failed recreate restored; an early failure without trace; it ends |
| agent connection (`agent/client.ts`, `index.ts`) | socket, `connecting`, reconnect timer, event target | start, reload, connect (reads TLS files), handshake, loss | never stranded; one connection; events go to the live socket |
| command dispatcher (`agent/commands.ts`, `queue.ts`, `lib/upgrade-event-bridge.ts`) | deferral queue of the connection, the bridge's subscription | handle, defer, drain after an upgrade | a command at most once, not forgotten |
| database maintenance (`lib/db-maintenance.ts`) | `currentState`, state file, backups; sessions in the database, ai-dev up or down | backup, verify, prune, wait for idle, stop, delete, checkpoint, vacuum, check, start | no delete without a backup or beside a writer; no orphan rows; nothing recent deleted; ai-dev comes back |
| maintenance scheduler (`lib/maintenance-scheduler.ts`) | timer, policy file | evaluate, reschedule | gated on a manual success; never silent |
| provider keys (`lib/provider-keys.ts`, `opencode-auth.ts`, `provider-meta.ts`, `routes/providers.ts`) | registry file, auth store, what OpenCode loaded | add, select, delete, import, drop, list | registry sound; the active key is in use; a failure is undone |
| OAuth logins and the health cache (`lib/openai-oauth.ts`, `routes/providers-oauth.ts`, `lib/model-probe.ts`) | pending flows, auth store, cache per model and credential fingerprint | start, poll, connect, disconnect, probe, classify | a connect is all or nothing; verdicts belong to a credential |
| agent models (`lib/agent-models.ts`, `agent-model-reconciler.ts`, `scripts/reconcile-agent-models.sh`) | `omo.jsonc` or `routing.json`, its copy in `opencode.json`, what OpenCode runs with, lock, pending trigger | batch, save, center's set, sweep, pass at a start; restore and deadline | an answer that says applied or restored is true; no trigger is lost |
| Git hosting (`lib/gitlab-token-rotation.ts`, `git-hosting-auth-scheduler.ts`, `glab-auth.ts`, `gh-auth.ts`) | `config.yml`, credential helpers, state file; GitLab's tokens | rotate, evaluate, connect, disconnect | a revoked token is never posted; every caller is answered |
| projects and OpenChamber (`lib/projects.ts`, `openchamber-projects.ts`, `routes/project-sync.ts`, `scripts/reconcile-openchamber-projects.sh`) | directories, registrations, disabled marks, features, the page's comparison | create, clone, enable, disable, delete, sync, the pass of starts and upgrades | registrations fit directories and marks; a start restores them |
| project tool status (`lib/project-tool-status.ts`) | caches, a scan in flight, a semaphore | overview, probe, invalidate | every overview is answered |
| language servers (`lib/lsp-reconciler.ts`, `entrypoint.d/01-install-packages.sh`) | `.env`, the container's environment, a managed file, packages, the `lsp` block | save, apply, install and generate at a start | what was applied is there, and comes back |
| lean-ctx (`lib/leanctx.ts`, `leanctx-applied-snapshot.ts`) | `config.toml`, daemon, snapshot, migration marker | save, reset, apply, start | the dashboard shows what is in effect |
| agent line (`routes/openchamber.ts`, `entrypoint.d/02-init-config.sh`) | marker, `OMO_ENABLED`, what is set up | migrate, reconfigure, start | a failed migration is undone |
| compose overlay (`lib/compose-overlay.ts`, `restart-ai-dev.ts`) | the reference in `.env`, the file, what ai-dev runs with | resolve, validate, recreate | the overlay named, or no recreation |
| managed core (`scripts/ai-engkit-core.py`) | `active`, generations, staging, the base of the image | recover at a start | a whole core, or the start is refused and nothing changed |
| database gate (`scripts/ai_engkit_db_compat_*.py`) | a private copy | list, look for writers, copy, classify | v1 never starts on a database it would damage |
| start scripts (`entrypoint.sh`, `entrypoint.d/02-init-config.sh`) | agent files and manifest, skill versions, `AGENTS.md` | the scripts in order | users' files survive; an upgrade is recorded when it is done |
| server, sessions and pages; wire protocol; suggestion and metadata; host scripts | rendering, parsing, ranking, sequential shell | - | see *Not modelled* |

How they interact:

* The agent's `upgrade` command calls `runUpgrade` as the route does, but without the
  route's flag.  `runUpgrade` emits events; each SSE client and the bridge subscribe.  The
  last event makes the client drain the dispatcher's queue after the state has changed.
* The upgrade, `restartAiDev`, key changes, migrations and maintenance all recreate or start
  `ai-dev`, and none asks about the others.
* A start of ai-dev is itself an actor: it installs, generates, repairs, migrates and
  registers, from the container's environment, the volume or the image.
* Three parties rotate a GitLab token, four apply agent models, and any login rewrites a file
  that holds other logins too.

The hard behaviours are therefore: interleavings at `await`s between a check and its
effect; failures of commands with and without effect, deadlines that pass while the work
goes on; deaths of the sidecar and of the container between two steps; reconnects; and
several sources that must agree after a start.  `PROJECT.json` lists them as hazards, each at
its line, with the properties that would notice.

## 2. The modules

| module | models |
|---|---|
| `Upgrade` | the pipeline, its route and its readers |
| `AgentSession` | connection, dispatcher, queue and bridge; of the upgrade its state, start and last event |
| `DbMaintenance` | the maintenance run, both callers, ai-dev, the sessions |
| `ProviderKeys` | registry, auth store and loaded credential of one key-managed provider |
| `Credentials` | OAuth login beside another provider's key in the same store, and the health cache |
| `ModelTransaction` | what applying agent models promises, abstractly |
| `AgentModels` | every application of agent models in detail; implements `ModelTransaction` |
| `GitHosting` | GitLab tokens, rotation with its lock, evaluation, logins, GitHub's login, the state file |
| `ToolStatus` | overviews, caches, shared scan and semaphore |
| `Projects` | operations on projects, sync, reconcile pass; extends `ToolStatus` |
| `ManagedCore`, `DbGate`, `InitConfig` | recovery of the core, the database gate, the configuration script |
| `Boot` | composes the three over the entrypoint, with crashes, deployments and changes in between |
| `LspServers`, `LeanCtx`, `AgentLine`, `ComposeOverlay` | the four groups of settings: sidecar and start |
| `Settings` | composes the four over one container that is restarted or recreated |
| `UpgradeProofs`, `DbMaintenanceProofs`, `AgentSessionProofs`, `AgentModelsProofs`, `GitHostingProofs`, `SettingsProofs` | theorems about the module they are named after, and about the modules it composes |
| `StartProofs` | theorems about `Boot` and the modules it composes, and about `Projects` and `ToolStatus`, the workspace that the last script of a start reconciles |
| `AuthStoreProofs` | theorems about `ProviderKeys` and `Credentials`, the two that write the auth store |
| `MC*` | the module with the values a `.cfg` gives its constants |

Conventions.  Control states are named for what is awaited.  An awaited command has one
disjunct for success and one for failure, and where an error tells nothing the failing one
leaves the effect done or not done.  History variables or fields (`before`, `met`, `solo`,
`alone`, `heard`, `deferred`, `gone`, `crossed`, ...) are marked as such and no guard reads
them, with two exceptions in `DbMaintenance` that describe surroundings: a deleted session is not written
again (`gone`, its id is not reused), and one updated since the run began does not become a
day old during it (`touched`).  Workers are interchangeable, so the next request always takes
the first that is free.  Definitions marked `MUTANT` are plausible bugs, each used to show
that one property notices it; they are not part of the specification.

Two consequences of JavaScript's scheduling are modelled with care.  An `await` of a promise
that is already settled resumes in a microtask before any other event, so while an invocation
of `runUpgrade` is *entering* only such invocations move (`Quiescent`).  And a caller that
starts several operations in one synchronous loop, as the drain does, starts them all before
the first has changed the state (`AgentStart(S)`).

**Upgrade.**  `RouteStart`, `AgentStart`, `Enter` and `Preflight` are the prefix of
`runUpgrade` with `ensureComposeFile`; `Pull` to `Prune` are its steps; `Fail` is the catch
block, which decides by the last step announced in the event log; `Rollback` is
`rollbackToBackup` after its restores.  `met` remembers that two calls have been between the
running check and the assignment of the state together (`Entering`).  A reader whose stream the server closed itself is
`stale`: it stays subscribed and its `enqueue` throws inside `emit` (`EmitThrows`).

**AgentSession.**  `Connect`, `Create` and `CreateFails` are `connect()`; with TLS files it
awaits their reading (`ReadDone`), and a reload may overtake that wait (`overtaken`).
`Disconnect`, `Lost`, `HelloAck`, `Unexpected` are the socket's callbacks; `Handle` is a
command; `LastEvent` is the terminal event with the drain and the bridge's detachment.

**DbMaintenance.**  `RouteRun` and `TimerFires` begin a run; the steps from `Guards` to
`HealthPoll` are the commands of `runMaintenance` in order; a failure before the stop ends the
run (`Refuse`), one inside the window goes through the start of ai-dev (`GiveUp`,
`RestartAiDev`).  `Write`, `Age`, `AutoCheckpoint` are what OpenCode and SQLite do meanwhile;
`OutsideStart` is any other part of the sidecar that starts ai-dev.

**ProviderKeys.**  `StartAdd` to `StartImport` begin an operation, `Answer` is its resumption
with the auth store as it was read, `Apply` and `Restart` put a credential into use, `Undo`,
`UndoAuth` and `UndoRestart` take a failed operation back.  Routes restore the selection
before the credential, commands after it (`Late`), as the code does.  A key's id is a reading of
the clock (`Readings`), and two keys may get the same; then the id names the first in the list
(`KeyIn`), and a deletion takes both.

**Credentials.**  `StartLogin`, `Poll`, `Expire` are a device login; `Connect` consumes the flow
and goes through `Snapshot`, `Exchange`, `Edit`, `Move`, `Clear`, `RestartAiDev`; `Fails` is the
rollback, which runs the same commands with the saved entry.  `Edit` and `Move` are the two
halves of the `jq` rewrite through one temporary name; `SetOther` is another provider's write
of the same file.  A probe is `Ask` to `Store`, with the fingerprint taken between.

**AgentModels.**  A job is one application: `Read`, `Snapshot`, then per agent `WriteModel`
and `InstallModel` (the two halves of the rewrite), `Sync` (the copy into `opencode.json`),
`Kill` and `WaitHealthy` (OpenChamber starts OpenCode again: `Lifecycle`), `Verify`, `Restore`.
`Direct` is the batch route, `CenterSets` the center, `Save` the single route, which answers
*verified* or *cleared* also where it finds nothing to change (phase `found`), and where it meets
the lock or cannot read the file (phase `assumed`); `Trigger` is the reconciler and `AiDevStarts` the pass at a start, which knows nothing of the sidecar's lock.
`Expire` is the deadline: the caller is answered and the lock goes, the work goes on.

**GitHosting.**  A rotation is `Ask` or `CenterAsks`, `Acquire`, `Inspect`, `Post`, `Persist`,
`Verify`; the evaluation (`TickStarts`, `TickInspects`, `TickSaves`) uses the same steps;
`Connect`, `Disconnect`, `Login`, `SetupHelper`, `Look`, `WriteBack` are glab's login and the
rewrites of the whole `config.yml`.  GitLab is what it must be for a rotation to matter:
tokens made, tokens that work, deadlines; a post revokes before its answer arrives, if it does.

**Projects, ToolStatus.**  An operation is the list of commands it has yet to run
(`Program`); a failing command goes to `Failed`, which knows which operations take back what;
a command that runs out of time goes on (`TimesOut`).  The page's comparison is kept (`page`)
until Fix All posts it.  `BootPass` is the loop of `07-reconcile-openchamber.sh`.  A viewer
takes its overview from `Overview` through `LeanBegins`, which starts a scan or joins one, and
`ProbeBegins` to `ProbeStores`, whose slot `SlotReleased` hands to the head of the queue.
*SemaphoreSound* and *ScanShared* say what the semaphore and the shared scan keep; no run checks
them, and section 5 proves them.

**Boot.**  `entrypoint.sh` as a stage; `ManagedCore` from `Verify` to `PruneGenerations` is
`cmd_recover`; `DbGate` from `LoadBaseline` to `StampAfter` is `run_gate`, beside
`OtherWriter`, which the scan of `/proc` sees unless it is in another container
(`FindWriters`); `InitConfig` has the agent files, manifest, skills and `AGENTS.md` of
`02-init-config.sh`, file by file.  `Crash` is possible anywhere, `Deploy` brings another
image, and users, OpenChamber and the admin change what the next start finds.

**Settings.**  Each part has its requests, step by step, and what a start does with it
(`LspBoots`, `LeanBoots`, `LineBoots`); `Restart` is a start with the environment the
container was created with, `Recreate` is `docker compose up`, which takes that of `.env` and
the overlay that was resolved and validated, and reads the overlay's file once more (`Up`).
In `LeanCtx` a reading that fails counts as an absent file (`Read`), so the snapshot that `Record`
writes may say less than the daemon was given; `heard` remembers whether all came back.  In
`AgentLine` a migration whose recreation leaves no container (`stranded`) can take back
`OMO_ENABLED` but not the marker (`left`).

## 3. What the runs check

Each run finishes within a few minutes on two workers.  `CHECK_DEADLOCK FALSE` is set
because every system here really stops when its bounds are used up.

* **upgrade** (1,831,007 states up to the symmetry of the UI callers): two UI callers and a
  center caller, two runs, `compose.yml` a file or a directory, two upstream releases, retention
  1, every overlay setting.  *OnePipeline*, *BackupCoversRun*, *RolledBackToPriorConfig*,
  *EarlyFailureUntouched*.  Two runs suffice for a run to meet another's files and backups, two
  releases for an upgrade to differ from what it replaces, and retention 1 is the one at which
  pruning is closest to the run's own backup.  With a directory the preflight waits, and a UI
  and a center caller do become two pipelines; once that has happened only *OnePipeline* says
  anything, and such behaviours are followed on one release (`MetOnFirstRelease`).
* **upgrade_live** (226,372 states): one caller with an SSE client, one concurrent edit
  of `.env`, `compose.yml` possibly a directory.  *EarlierEditsKept*, and the liveness
  property *UpgradeSettles*.
* **agent_session** (370,445 states): two connections, two waits for TLS files, three
  commands, two UI upgrades.  *NeverStranded*, *OneConnection*, *BridgeFollowsSocket*,
  *AtMostOnce*, and the liveness property *DeferredSettles*.  Three commands make two that are
  deferred and one that could overtake them; two waits are what a reload that overtakes one
  leaves.
* **db_maintenance** (2,601,925 states): two sessions, two runs, one start of ai-dev
  from elsewhere, one restart of the sidecar.  *SingleWriter*, *BackupBeforeDelete*,
  *NoOrphans*, *RecentKept*, *SchedulerAlive*, *AiDevComesBack*.  Two sessions let one be
  expired while the other is written; two runs let a manual one open the scheduler's gate and
  one run's backup meet the next one's pruning.
* **provider_keys** (2,387,001 states up to the symmetry of values and of clock readings): one
  route, one command and one listing, two values, two readings of the clock, three keys, four
  operations, one restart.  *RegistrySound*, *ActiveKeyApplied*,
  *FailureUndone*, *DeletedKeyUnused*.  Three keys let a deletion promote the key after the
  active one or the one before it; four operations are what it takes to fill a registry and
  then overlap two.
* **boot** (3,103,148 states): two images of which the second renames an agent, an agent of the
  user's own, two projects, two commits of another writer, two changes between starts, one
  fault.  *GateSound*, *SkillsMarked*, *RefusedUntouched*, *UserAgentsKept*, and the liveness
  property *RecoveryHeals*.  All schemas of the gate's classes are tried; two commits let one
  hit the main file and one the log; with two projects one is upgraded where the other fails;
  two changes let damage or a switch meet a deployment.
* **agent_models** (1,254,271 states): two agents (one that OpenCode takes from
  `opencode.json`, one it takes from `omo.jsonc`), two jobs, both lines, a chain to set or
  clear, one fault.  *Transactional* is the refinement of `ModelTransaction`; *SoloApply*; the
  liveness property *TriggersServed*.  Two jobs are a holder and a rival, or a sweep and its
  trigger; a deadline turns the holder into a rival.
* **projects** (152,060 states): two projects of which one is operated on, two
  operations, two viewers and a semaphore of one, two passes of the loop (eight in the code),
  one fault.  *SoloOps*, and the liveness properties *BootRestores* and *OverviewsAnswered*.
  A semaphore of one is where a slot that is not handed on is missed at once; the second
  project is what an operation must leave alone.
* **credentials** (2,684,457 states): one login, an older credential, two models of which
  each serves one, two operations, one probe, four requests, one fault.  *SoloConnect*.  Four
  requests are a login's start, its connect, another request beside it, and a probe.
* **git_hosting** (786,128 states): one host, the evaluation, one asked rotation and one
  user, three requests, one day, one fault.  *NoReuse*, and the liveness property
  *RotationsAnswered*.  Three requests are a rotation, one that queues behind it, and a login
  or logout that crosses both; the rewrite of the whole `config.yml` with what was read before
  a rotation needs no second host to do its harm.
* **settings** (3,960,152 states): a built-in server and two that share a package, two
  versions, one Apply, two editors of lean-ctx, one migration, one recreation with overlays
  that may and may not be used, three requests, two starts, one fault.  *ApplySettles*,
  *SnapshotTrue*, *MigrationWhole*, *OverlayHonoured*, and the action property
  *StartsConverge*.  The groups share the container, and every start is a start for all of
  them.
* **upgrade_wedged** ends in a violation, of *UpgradeEnds*: a log stream that the server
  closed after one upgrade makes `emit` throw in the next one, in its error handling too, and
  the state stays `running`.  `findings` in `PROJECT.json` has the quotation.

### Fairness

Every docker, compose, exec and fetch call of the sidecar has a timeout, so every `await`
settles: the `FairSpec`s assume weak fairness of the steps of each invocation, job, worker,
operation or viewer, and of nothing the operator, clients, upstream or the center do.  Beyond
that, each assumes what its surroundings do.  `Upgrade`: nothing more.  `AgentSession`:
microtasks run and a pipeline ends, which is what *UpgradeSettles* shows where no stale reader
is subscribed; nothing of the network.  `AgentModels`: OpenChamber starts OpenCode again when it
is killed.  `GitHosting`: nothing more; a request to GitLab has a time limit.  `Projects`: the
shell's loop goes on and the workspace's mount appears.  `Boot`: the scripts run and Docker
starts the container again (`restart: unless-stopped`), and the operator who is told that it is
blocked restarts it.  Nothing is assumed of crashes but their bound, which is what "eventually
no more crashes" means in a finite run.

### What qualifies the properties

*BackupCoversRun*, *RolledBackToPriorConfig*, *EarlyFailureUntouched* and *EarlierEditsKept*
exclude behaviours in which two calls of `runUpgrade` have met between its running check and its
assignment of the state (`met`): several that a drain starts in one stretch, or one that comes
while another waits for a missing `compose.yml` to be replaced.  Then there can be two pipelines
(section 4), and *OnePipeline* says which.
*OneConnection* and *BridgeFollowsSocket* exclude behaviours in which a reload overtook a wait
for the TLS files: then two sockets live.  *SingleWriter* excludes a start of ai-dev from
elsewhere.  *AiDevComesBack* excuses a failed stop or start and a restart of the sidecar, after
which the code does nothing.  *ActiveKeyApplied* is promised for operations that did not
overlap.  *RolledBackToPriorConfig* speaks of configuration: an unpinned image tag has moved by
the time of a rollback, and the former image does not return.  Properties named *Solo...* or
with `alone` speak of a request that nothing crossed, since the code does not serialise these;
what holds when they do cross is *Transactional*, *NoReuse* and *RegistrySound*.
*Transactional* lets an answer assume a configuration that nobody has looked at, as *SoloApply*
does, because the code does (`assumed`); the answer to a deadline that has passed promises
nothing; and both speak, of what is taken back, of the agents' file.  *RegistrySound* is about
values and the selection: that ids are distinct is false (section 4).  *SnapshotTrue* asks of
every Apply that nothing crossed that the dashboard does not call applied what is not, and that
it does call it applied only of one whose readings and write came back (`heard`).
*MigrationWhole* lets the marker stay when the recreation has left no container.
*NoReuse* excludes hosts whose token a rewrite of the whole `config.yml` changed (`crossed`).
*SkillsMarked* holds of images that are only replaced by newer ones (`Downgrade = FALSE`).
*ApplySettles* excludes pins of one package that disagree (`PinsAgree`) and a first Apply; *StartsConverge*
excludes a restart of a container whose environment chose the servers.

## 4. What the code does not keep

Where the repository promises something the code does not keep, the module ends with the
promise as a definition that no run checks (but *UpgradeEnds*).  TLC finds each of them
violated within the bounds of the module's run when it is added to the `.cfg`.

| definition | the code | the promise |
|---|---|---|
| `Upgrade!UpgradeEnds` | `routes/upgrade.ts:212`: a stream the server closed stays subscribed and throws inside `emit` | `agent/client.ts:173`: the state flips right after the terminal emit |
| `Upgrade!NeverTwoPipelines` | `lib/upgrade.ts:284` and `:327`: an `await` separates the running check from the assignment; a drain starts two deferred upgrades, or a command comes while a missing `compose.yml` is replaced | `openspec/specs/agent-command/spec.md:194`: executed after the running upgrade completes |
| `AgentSession!FifoOrder` | `lib/upgrade-event-bridge.ts:37`: the bridge detaches at the end of an upgrade; what the next one defers waits while later commands run | `agent-command/spec.md:235`: FIFO order |
| `AgentSession!QueueRetained` | `agent/client.ts:193`: a new connection has a new dispatcher and an empty queue | `agent-command/spec.md:238`: the queue is retained |
| `DbMaintenance!SingleWriterAlways` | `lib/restart-ai-dev.ts:47` starts ai-dev without asking about maintenance | `admin-db-maintenance/spec.md:46`: only while no writer is active |
| `DbMaintenance!BackupRestores` | `lib/db-maintenance.ts:357` copies the file without its log, while it is written | `admin-db-maintenance/spec.md:32`: a restorable backup |
| `ProviderKeys!KeysStayDeleted` | `lib/provider-meta.ts:141`: a listing imports what the auth store still holds | `provider-api-key-registry/spec.md:42`; `agent-command/spec.md:138`: queries do not mutate |
| `ProviderKeys!EachKeyNamed` | `lib/provider-keys.ts:75`: a key's id is the time in milliseconds; a drain starts two deferred additions in one loop (`agent/commands.ts:809`), and their keys have one id | `provider-api-key-registry/spec.md:58`: key B is selected while key A is active |
| `AgentModels!TriggersRetained` | `lib/agent-model-reconciler.ts:385`: only a sweep looks at the pending flag, an explicit save does not | `agent-model-reconciliation/spec.md:27` |
| `AgentModels!SavesApplied` | `lib/agent-model-reconciler.ts:62` and `:351`: a save that finds the lock taken, or cannot read the file, is answered *verified* or *cleared*, and not applied | `agent-model-reconciliation/spec.md:24` |
| `AgentModels!UndoneEverywhere` | `lib/agent-models.ts:114` and `:404`: the agents' file is put back and OpenCode restarted, but `opencode.json` is not synced again | `agent-model-reconciliation/spec.md:133`: configuration and managed runtime are restored |
| `Boot!NoUnseenLog` | `scripts/ai_engkit_db_compat_gate.py:170`: a log that appears after the files were listed is not copied | `managed-core-runtime/spec.md:187`; `docs/MANAGED_CORE.md:134` |
| `Boot!SkillsMarked` with `Downgrade = TRUE` | `entrypoint.d/02-init-config.sh:686`: one version for all; a project enabled under an older image keeps the older skill | `02-init-config.sh:653`: all projects are upgraded |
| `Projects!FixAllKeepsDisabled` | `static/projects-page.js:757` posts lists that may be older than a disable | `routes/project-sync.ts:34`: cannot re-add them |
| `Credentials!OnlyDeadBlocked` with `Responses <- MCMarked` | `lib/model-probe.ts:43`: markers are looked for in the whole text of a response | `lib/model-probe.ts:263` |
| `Credentials!VerdictsScoped` | the fingerprint is read before the answer, a connect may come between | `docs/knowledge/troubleshooting/opencode-model-request-failure-classification.md:101` |
| `GitHosting!AmbiguousNotRetried` | `lib/git-hosting-auth-scheduler.ts:184` does not look at the state it saved | `docs/GIT_AUTHENTICATION.md:86` and `:116` |
| `Settings!FirstApplySettles` | `lib/lsp-config.ts:48`: the first Apply writes `{}`, and the built-in servers are on | `admin-lsp-config/spec.md:84` |
| `Settings!RestartsConverge` | `entrypoint.d/02-init-config.sh:309`, `01-install-packages.sh:30`: the container's environment goes before the file that Apply wrote | `admin-lsp-config/spec.md:32` |
| `Settings!AppliesRecorded` | `lib/leanctx.ts:63` and `:427`: a reading that fails after `lean-ctx config apply` counts as an absent file, and the baseline is recorded as applied | `leanctx-admin-config/spec.md:84`: the snapshot is of the applied configuration |
| `Settings!MigrationUndone` | `lib/restart-ai-dev.ts:61`, `routes/openchamber.ts:215`: a failed recreation may have removed the container that the marker is removed through | `routes/openchamber.test.ts:245`: marker and env are rolled back when the restart fails |

The specifications named are those under `openspec/specs/`.

## 5. What is proved

TLAPS checks the following for every value of the constants that satisfies the assumptions
named in the modules: any callers, sockets, sessions, keys, logins, agents, jobs, hosts, images,
servers, recreators and viewers, and any bounds.  The assumptions are that bounds are
natural numbers, that the directories of the workspace and the viewers are finitely many, that sets of workers are disjoint, that names of one kind are not names of
another, that requests are well formed, that the catalogue of servers lists each once, and that
one version is the newest; TLC evaluates them in every run.  Every safety and
action property that a passing run checks is proved, and so is the refinement.

None of the properties is inductive, so each module of proofs begins with an invariant `IInv`
that is, and shows `Init => IInv`, `IInv /\ [Next]_vars => IInv'` with one lemma per action,
and that the properties follow.

* **`UpgradeProofs`**.  All for any callers, any number of starts from the drain and any state
  of `compose.yml`.  `SinglePipeline` (*OnePipeline*): of the route's callers only one is in
  `runUpgrade`, and its flag covers it (`RouteInv`); and until two calls have met between check
  and assignment, whoever is in `runUpgrade` is alone there.  That second part and
  `BackupThroughout` (*BackupCoversRun*) rest on `IInv`, which holds until two calls meet: the
  caller is alone (`SoleCaller`); the state is running while it is in the pipeline (`PipelineRuns`), which is
  what the running check reads; the last announced step fits the control state
  (`StepAnnounced`), since the catch block decides by it; files are as found until the step
  that changes them (`BeforeHeld`).  `RollbackReturns` (*RolledBackToPriorConfig*),
  `EarlyFailuresHarmless` (*EarlyFailureUntouched*) and `EditsSurvive` (*EarlierEditsKept*)
  rest on a second invariant over it, `JInv`: how far a run in a control state has changed what
  it found (`Progress`), what it may therefore report (`Reported`), and that no two backup
  directories have one name (`Numbered`), without which the rollback may read another run's.
* **`DbMaintenanceProofs`**.  Every property of the run: `DeletesAfterBackup`,
  `SequencesWithSessions`, `RecentSurvive`, `WindowIsOurs`, `ContainerReturned`,
  `SchedulerStays`, and `ScheduleGated`, that the scheduler runs only after a manual run has
  succeeded.  `Deletes` is the argument for the two statements: a session selected by the
  cutoff that is no longer old was touched and does not grow old again during the run, so
  between the statements none becomes expired, and the sequences of every expired one are
  gone.  `Protected`: past its verification a run has its backup.  `Container`: in the window
  ai-dev is down unless something else started it.  `Gated`: a remembered success, in memory
  or in the file, is a manual run's.  `Scheduled`: an evaluation is the scheduler's own run.
* **`AuthStoreProofs`**.  Of `ProviderKeys`: `SoundRegistry` for any number of overlapping operations: whatever
  the clock says, every key has a place of its own in the list, so that an id always names one
  (`Placed`), and the keys an operation remembers are real ones (`Remembered`).  `ActiveKeyInUse`, `FailuresUndone` and
  `DeletedKeysUnused` from `LoneInv`, which follows one operation that nothing overlaps: it is
  the only one that moves (`Solitary`); before its answer it has changed nothing, then the
  registry names the credential it is about to apply, and its way back ends where it began
  (`Fits`); and while nothing overlaps or fails half-way, registry, auth store and OpenCode
  agree between operations (`Agreed`).

  Of `Credentials`: `ConnectAllOrNothing` (*SoloConnect*) from `LoginInv`.  A button pressed
  twice makes two connects of one login, and both count as running alone.  What makes that
  true is that a code is good for one exchange: `CodeOnce` says that one connect of a login, at
  most, gets past the exchange, so only one of them writes, and `FlowsGone` that no third one
  begins once one has ended.  `Company` says that nothing else runs beside a job that is alone;
  `OtherCopied` that a temporary file on its way to `auth.json` holds the other provider's
  entry as it is.  `Whole` is what such a job knows at each step of file, temporary file,
  running OpenCode and cache, forwards and, since the rollback runs the same commands with the
  entry that was read, backwards (`Written`, `Recalls`).
* **`AgentSessionProofs`**.  `StaysReachable`, `OneSocketAlive`, `EventsToTheSocket`,
  `DispatchedOnce`: all safety of the agent.  `Reach` says how a started agent gets its
  socket; `Single` that the runtime's socket is the newest, and that unless a reload overtook
  a wait at most one `connect()` waits; `Distinct` that a command is in one place, so that
  drains which overlap cannot take one twice.
* **`AgentModelsProofs`**.  `Implements`: the specification implements `ModelTransaction`.
  A step of a job maps to the action of the transaction that its control state stands for, or
  to a stutter (`Maps`); that the action is enabled comes from `Consistent`, which ties phase,
  remaining work and gathered results to the control state.  An answer without a write is the
  transaction's `Find`, for which the job must have found all it was asked for in the file in
  that very step, or its `Assume`, which promises nothing about the file.  It needs nothing about who holds
  the lock, so the promise holds of jobs whose deadline has passed as well.  `AloneIsTrue`
  (*SoloApply*) from `SInv`: what a job beside which nothing runs knows at each step of the
  file, its staged copy, the heads in `opencode.json` and what OpenCode has loaded.
* **`GitHostingProofs`**.  `RevokedNeverPosted` (*NoReuse*).  Only the head of a host's queue
  is past `Acquire` (`Locked`), so nobody revokes a token between its inspection and its post;
  tokens are numbered as they are made and nothing refers to a later one (`Ages`); so the
  token about to be written is new: it works, and neither `config.yml` nor a copy of it on its
  way back holds it (`Fresh`).
* **`StartProofs`**.  Of `Boot`: `OnlyPinnedPasses` (*GateSound*) from `GateInv`: the main file only gets
  newer, and while it is the one that was stamped so does the log, so equal stamps before and
  after the copies mean that nothing was written between.  `RefusalsTouchNothing`
  (*RefusedUntouched*) from `CoreInv`: only a baseline whose archive is what its manifest says
  gets past the comparison.  `UsersKeepTheirAgents` (*UserAgentsKept*): the manifest names
  only agents that some image ships.  `MarkedWhenUpgraded` (*SkillsMarked*) under `~Downgrade`,
  without which it is false (section 4).

  Of `Projects`: `WorkspaceTypeCorrect`, and `LoneOperationsKeepTheirPromise` (*SoloOps*) from
  `SoloInv`.  A merge of the settings or of the hidden list goes through a temporary file, and
  `AllStaged` says that such a file belongs to the merge that the operation's next command
  installs.  `AllStanding` is about an operation that runs alone: nothing else runs
  (`Solitary`), nobody else's registration and no other key has changed (`OnlyOwn`), the
  temporary file is the present file edited as the operation's own command edits it, and
  `Midway` lists what it may have left to do, each with what it has done to directory,
  registration and mark by then.  What it answers then follows from what was left to do
  (`Resulted`): a disable goes on to its rollback when it cannot unregister, and a delete
  unregisters before it removes the directory.

  Of `ToolStatus`: `SlotsHandedOn` (*SemaphoreSound*) from `SlotInv`: the slots taken are as many
  as the probes that hold one; when a probe waits, all are taken; the queue lists the waiting
  probes, each once.  The last is what makes handing a slot on reach every waiter, and it needs
  that a viewer's probe begins only while that viewer probes, so that none is queued twice.
  `ScansAreRunning` (*ScanShared*) from `ScanInv`: an entry in flight is the scan of a viewer
  that scans the entry's list, so whoever joins it awaits a scan that will end and is of the
  list it asked for.
* **`SettingsProofs`**.  One invariant per group of settings, each of what an uncrossed request
  knows at each of its steps: `OverlayInv` for `OverlayStands` (*OverlayHonoured*), `LeanInv`
  for `SnapshotHolds` (*SnapshotTrue*), `LineInv` for `MigratesOrReturns` (*MigrationWhole*),
  `LspInv` for `AppliesSettle` (*ApplySettles*) and the action property `StartsBringTheApplied`
  (*StartsConverge*).  `LeanInv` distinguishes an Apply whose readings and write came back from one
  that recorded something else.  `LineInv` counts what may still have failed, since one failure
  is undone and two need not be.

What the proofs showed about the models.  The exception of *ApplySettles* for servers that
share a package was too narrow: beside two pins that differ it has to name a pin that a server
later in the catalogue overrides by wanting the newest version, since the last token of a
package is the one that is installed (`PinsAgree`).  `Misfits` took a package that is not
installed for one that is wanted in its newest version.  A log of the database may be there
from before a start of the gate, and was let in one step too late, after the gate had decided
whether the database is absent (`DbGate`).  All three are corrected.

Only model-checked:

* Liveness (*UpgradeSettles*, *DeferredSettles*, *RecoveryHeals*, *TriggersServed*,
  *BootRestores*, *OverviewsAnswered*, *RotationsAnswered*): proofs under fairness need
  ENABLED, which the prover does not handle.
* The violation of *UpgradeEnds* and those of section 4, which are counterexamples.

No module of the project uses a RECURSIVE operator.

## 6. What is not modelled

* In modelled components: a crash of the sidecar during an upgrade; heartbeats and the length
  of the backoff; replies to the center; a command reported as failed whose effect comes later
  still (but for those of `Projects` and the deadline of `AgentModels`); custom provider
  definitions; notes of keys; sizes and free space, which are guards that pass or refuse; the
  wall-clock computation of the scheduler's next run; the device codes of GitHub; SSH keys,
  the Git identity and secrets; the build of a core's base archive; the defaults of OMO's
  configuration that a start writes.
* The contents of files, images and credentials, except as versions or values that can be
  compared.  A configuration of lean-ctx is one field, a chain of models one value, an
  overlay the set of the parts it declares.
* Components that keep no state of a protocol: the server with its signed cookie and its pages,
  the parsing of envelopes, ranking and metadata of model suggestions.  `upgrade.sh` and
  `install.sh` are sequential shell around docker; the first is the host-side twin of the
  pipeline that `Upgrade` models.
* The composition of `DbMaintenance`, `Upgrade` and `Settings` over one ai-dev: each has the
  others as steps of its surroundings (`OutsideStart`, `Deploy`, `Restart`, `Recreate`), and
  the product is beyond TLC's reach.

## 7. Plan

The modules of the plan are written, and the safety and action properties that passing runs
check are proved.  What is left:

1. The crash of the sidecar during an upgrade (section 6), with what the next upgrade finds.
2. A reply for every command of the center: a query whose reading throws is answered by nobody
   (`agent/commands.ts:1742`), and replies are not modelled.
3. The crossing of an evaluation's save with the rotation that a page asks for
   (`lib/git-hosting-auth-scheduler.ts:208`), as a property of the state file.
