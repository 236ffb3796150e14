------------------------------ MODULE Upgrade ------------------------------
(***************************************************************************)
(* The ai-dev upgrade pipeline of the admin sidecar: runUpgrade() and its   *)
(* rollback in src/admin/lib/upgrade.ts, started by the POST handler of     *)
(* src/admin/routes/upgrade.ts or by the agent's upgrade command, observed  *)
(* by the SSE log streams of that route.                                    *)
(*                                                                         *)
(* JavaScript runs each segment between two awaits without interruption,    *)
(* so an action is the code from the settling of one awaited call to the    *)
(* next await.  Two awaits with no shared state touched between them        *)
(* (container reference and settings snapshot; compose fetch and project    *)
(* name) are one.  An await of a promise that is already settled resumes in *)
(* a microtask, before any other event: while a caller is "entering",       *)
(* nothing but such callers moves.  File contents, images and .env defaults *)
(* are versions 1..MaxVersion of the upstream release they came from.       *)
(***************************************************************************)
EXTENDS Integers, FiniteSets

CONSTANTS
    RouteCallers,    \* HTTP starts of the pipeline
    AgentCallers,    \* center commands that start the pipeline
    Readers,         \* SSE clients of /api/upgrade/log
    ComposeAtStart,  \* what compose.yml may be when the sidecar starts
    Retention,       \* BACKUP_RETENTION as resolveBackupRetention returns it
    MaxVersion,      \* bound: upstream releases published
    MaxRuns,         \* bound: calls of runUpgrade
    MaxEdits         \* bound: operator writes of .env

Callers == RouteCallers \cup AgentCallers

NoFile == 0          \* compose.yml absent, or the zero-byte staged base
Stub   == -1         \* the placeholder ensureComposeFile writes
Dir    == -2         \* compose.yml is the directory Docker made for a bind mount

ASSUME UpgradeAssumption ==
    /\ RouteCallers \cap AgentCallers = {} /\ IsFiniteSet(Callers)
    /\ ComposeAtStart \subseteq {Dir, 1}
    /\ Retention \in Nat \ {0}
    /\ MaxVersion \in Nat \ {0}
    /\ MaxRuns \in Nat
    /\ MaxEdits \in Nat

Steps == {"digest_compare", "backup", "merge_env", "recreate", "poll_health",
          "reconcile", "cleanup"}
Files == {"env", "compose", "base"}
Versions == 1..MaxVersion
Pins == 0..MaxVersion                    \* 0: AI_ENGKIT_VERSION unset, :latest
EnvFiles == [pin : Pins, edit : 0..MaxEdits, keys : Versions]
ComposeFiles == Dir..MaxVersion
Deployments == [image : Pins, conf : ComposeFiles, keys : Pins]

VARIABLES
    upstream,     \* newest version published upstream
    pulled,       \* version the local :latest image tag points to
    env,          \* .env
    compose,      \* compose.yml
    base,         \* compose-upgrade-base.yml
    deployed,     \* what ai-dev was last created from
    overlay,      \* AI_ENGKIT_COMPOSE_OVERLAY: none, valid or broken
    devBuild,     \* VERSION of the running image is "dev"
    state,        \* currentState
    lastRunning,  \* step of the last "running" event in eventLog
    backups,      \* the pre-<timestamp> directories
    run,          \* locals of each caller's invocation of runUpgrade
    inFlight,     \* upgradeStartInFlight of the route
    reader,       \* each SSE client's subscription
    stamp,        \* timestamps handed out to backups
    runs,         \* calls of runUpgrade so far
    met           \* history: two calls were past the running check, neither announced

files == <<env, compose, base>>
world == <<upstream, overlay, devBuild>>
vars == <<upstream, pulled, env, compose, base, deployed, overlay, devBuild, state,
          lastRunning, backups, run, inFlight, reader, stamp, runs, met>>

PCs == {"idle", "entering", "preflight", "pull", "snapshot", "merge", "fetch", "validate",
        "up", "health", "reconcile", "prune", "rollback"}

\* Control states in which the pipeline has announced a step.
InPipeline(c) == run[c].pc \notin {"idle", "entering", "preflight"}

\* Past the running check, and not yet past the assignment of the state.
Entering(c) == run[c].pc \in {"entering", "preflight"}

\* No microtask is pending.
Quiescent == \A c \in Callers : run[c].pc # "entering"

Idle == [pc |-> "idle", pin |-> 0, backup |-> 0,
         snap |-> [pin |-> 0, edit |-> 0, keys |-> 1], fetched |-> 0,
         useBase |-> FALSE, whole |-> TRUE, result |-> "none",
         before |-> [edit |-> 0, compose |-> 1, base |-> NoFile,
                     deployed |-> [image |-> 1, conf |-> 1, keys |-> 1]]]

\* upstreamBase: the release whose assets are fetched for a pin.
Upstream(pin) == IF pin = 0 THEN upstream ELSE pin
\* resolveImageRef: the release `docker run` gets for a pin.
Image(pin) == IF pin = 0 THEN pulled ELSE pin

\* resolveEffectiveCompose: the base file `docker compose` is given.
Effective(useBase) == IF useBase THEN base ELSE compose

\* docker compose up -d --force-recreate ai-dev, on the files as they are.
Recreated(useBase) ==
    [image |-> Image(env.pin), conf |-> Effective(useBase), keys |-> env.keys]
Down == [image |-> 0, conf |-> NoFile, keys |-> 0]

\* runUpgrade refuses while a pipeline is announced as running.
Conflict == state = "running"

\* emit() calls every subscriber; enqueue on a closed SSE stream throws.
EmitThrows == \E r \in Readers : reader[r] = "stale"

-----------------------------------------------------------------------------
Init ==
    /\ upstream = 1 /\ pulled = 1
    /\ env = [pin |-> 0, edit |-> 0, keys |-> 1]
    /\ compose \in ComposeAtStart
    /\ overlay \in {"none", "valid", "broken"}
    /\ base \in IF overlay = "valid" THEN {NoFile, 1} ELSE {NoFile}
    /\ deployed = [image |-> 1, conf |-> 1, keys |-> 1]
    /\ devBuild \in BOOLEAN
    /\ state = "idle" /\ lastRunning = "none"
    /\ backups = {} /\ stamp = 0 /\ runs = 0
    /\ run = [c \in Callers |-> Idle]
    /\ inFlight = FALSE /\ met = FALSE
    /\ reader = [r \in Readers |-> "none"]

(***************************************************************************)
(* The end of an invocation: the promise settles, the route's finally      *)
(* clears upgradeStartInFlight.                                             *)
(***************************************************************************)
Settle(c, result) ==
    /\ run' = [run EXCEPT ![c] = [Idle EXCEPT !.pin = run[c].pin, !.backup = run[c].backup,
                                              !.before = run[c].before, !.result = result]]
    /\ inFlight' = (inFlight /\ c \notin RouteCallers)

\* A cleanup success or failure event makes each open log stream close in 1 s.
CloseReaders(step) ==
    reader' = [r \in Readers |-> IF step = "cleanup" /\ reader[r] = "open"
                                 THEN "closing" ELSE reader[r]]

\* emit(failedStep, "failure") and the state change; if emit throws, runUpgrade
\* rejects with currentState still "running".
ReportFailure(c, step, result) ==
    \/ /\ EmitThrows
       /\ Settle(c, "wedged")
       /\ UNCHANGED <<state, reader>>
    \/ /\ ~EmitThrows
       /\ state' = "failed"
       /\ Settle(c, result)
       /\ CloseReaders(step)

\* The files as the catch block finds them.
Now == [env |-> env, compose |-> compose, base |-> base]

\* rollbackToBackup up to its first await: each file the backup holds is written
\* back unless its write fails (bad); a file it does not hold stays as it is.
\* MUTANT: rolls back to the oldest directory instead of the one made by this run.
OwnOldest(c) == {b \in backups : \A d \in backups : b.id <= d.id}
Own(c) == {b \in backups : b.id = run[c].backup}
\* MUTANT: the staged overlay base is left out of the restored files.
RestoredWithoutBase(c, bad) == {f \in {"env", "compose"} \ bad : \E b \in Own(c) : f \in b.has}
Restored(c, bad) == {f \in Files \ bad : \E b \in Own(c) : f \in b.has}
Restore(c, bad, now) ==
    LET back == Restored(c, bad)
        own  == CHOOSE b \in Own(c) : TRUE
    IN  /\ env' = IF "env" \in back THEN own.env ELSE now.env
        /\ compose' = IF "compose" \in back THEN own.compose ELSE now.compose
        /\ base' = IF "base" \in back THEN own.base ELSE now.base

\* No write failed, and with an overlay there is a base file to recreate from.
Whole(bad, baseRestored) ==
    bad = {} /\ (overlay = "valid" => compose' \notin {Dir, NoFile} \/ (baseRestored /\ base' > 0))

\* The catch block: failedStep is the last step eventLog shows as running.  Only
\* recreate and poll_health roll back, and only validation failures skip compose.
Fail(c, step, invalid, now) ==
    \/ /\ step \in {"recreate", "poll_health"} /\ run[c].backup # 0
       /\ \E bad \in SUBSET UNION {b.has : b \in Own(c)} :
            /\ Restore(c, bad, now)
            /\ \/ /\ invalid
                  /\ ReportFailure(c, step, IF Whole(bad, "base" \in Restored(c, bad))
                                            THEN "kept" ELSE "partial")
               \/ /\ ~invalid
                  /\ run' = [run EXCEPT ![c] = [@ EXCEPT
                        !.pc = "rollback",
                        !.useBase = "base" \in Restored(c, bad) /\ base' > 0,
                        !.whole = Whole(bad, "base" \in Restored(c, bad))]]
                  /\ UNCHANGED <<state, inFlight, reader>>
    \/ /\ step \notin {"recreate", "poll_health"} \/ run[c].backup = 0
       /\ ReportFailure(c, step, step)
       /\ env' = now.env /\ compose' = now.compose /\ base' = now.base

-----------------------------------------------------------------------------
(***************************************************************************)
(* Start: the synchronous prefix of runUpgrade.                             *)
(***************************************************************************)
\* From the dev-build guard to the pull: refuse, or announce digest_compare.
EnterPipeline(c) ==
    /\ \/ /\ devBuild
          /\ Settle(c, "refused")
          /\ UNCHANGED <<state, lastRunning>>
       \/ /\ ~devBuild /\ overlay = "broken"
          /\ lastRunning' = "none"
          /\ state' = "failed"
          /\ Settle(c, "refused")
       \/ /\ ~devBuild /\ overlay # "broken" /\ EmitThrows
          /\ lastRunning' = "digest_compare"
          /\ state' = "running"
          /\ Settle(c, "wedged")
       \/ /\ ~devBuild /\ overlay # "broken" /\ ~EmitThrows
          /\ lastRunning' = "digest_compare"
          /\ state' = "running"
          /\ run' = [run EXCEPT ![c] = [Idle EXCEPT !.pc = "pull", !.pin = env.pin,
                        !.before = [edit |-> env.edit, compose |-> compose', base |-> base,
                                    deployed |-> deployed]]]
          /\ UNCHANGED inFlight
    /\ UNCHANGED <<world, env, pulled, base, deployed, backups, reader, stamp, runs, met>>

\* The locals of new invocations; what earlier ones left is no longer of interest.
Begin(S, pc) ==
    run' = [c \in Callers |-> IF c \in S THEN [Idle EXCEPT !.pc = pc]
                              ELSE IF run[c].pc = "idle" THEN Idle ELSE run[c]]

\* runUpgrade() called for each of S in one synchronous stretch: the running check,
\* then ensureComposeFile, which waits for docker only on the path that replaces a
\* missing file or a directory.
RunUpgrade(S) ==
    /\ Quiescent /\ ~Conflict
    /\ \A c \in S : run[c].pc = "idle"
    /\ runs + Cardinality(S) <= MaxRuns
    /\ runs' = runs + Cardinality(S)
    /\ inFlight' = (inFlight \/ S \cap RouteCallers # {})
    /\ met' = (met \/ (\E c \in Callers : Entering(c)) \/ Cardinality(S) > 1)
    /\ \/ /\ compose # NoFile
          /\ compose' = compose          \* a file, or a directory that cannot be removed
          /\ Begin(S, "entering")
       \/ /\ compose \in {NoFile, Dir}
          /\ compose' = NoFile
          /\ Begin(S, "preflight")
    /\ UNCHANGED <<world, pulled, base, deployed, state, lastRunning, backups, reader, stamp>>

\* MUTANT: the route asks for the state only, as the agent does.
RouteStartUnflagged(c, pin) ==
    /\ ~devBuild
    /\ pin \in 0..upstream
    /\ env' = [env EXCEPT !.pin = pin]
    /\ RunUpgrade({c})
\* POST /api/upgrade after discovery: conflict check, pin write, start.
RouteStart(c, pin) ==
    /\ ~inFlight /\ ~devBuild
    /\ pin \in 0..upstream
    /\ env' = [env EXCEPT !.pin = pin]
    /\ RunUpgrade({c})

\* The center's upgrade commands start on the pin already in .env.  Several start
\* together when the dispatcher drains what was deferred during the run just ended:
\* handle() returns before any of them has set the state.
AgentStart(S) ==
    /\ S # {}
    /\ \/ \E c \in S : S = {c}
       \/ state \in {"completed", "failed"}
    /\ env' = env
    /\ RunUpgrade(S)

\* The microtask after an ensureComposeFile that did not wait.
Enter(c) ==
    /\ run[c].pc = "entering"
    /\ compose' = compose
    /\ EnterPipeline(c)

\* ensureComposeFile resumes from its wait: write the placeholder, or throw.
Preflight(c) ==
    /\ Quiescent /\ run[c].pc = "preflight"
    /\ \/ /\ compose' = Stub
          /\ EnterPipeline(c)
       \/ /\ compose' = compose
          /\ Settle(c, "refused")
          /\ UNCHANGED <<world, env, pulled, base, deployed, state, lastRunning, backups,
                         reader, stamp, runs, met>>

-----------------------------------------------------------------------------
(***************************************************************************)
(* The steps.  Each has the outcome in which the awaited call rejects, or   *)
(* the event that follows it cannot be emitted, and ends in Fail.           *)
(***************************************************************************)
At(c, pc) == Quiescent /\ run[c].pc = pc
Go(c, pc, step) ==
    /\ ~EmitThrows
    /\ lastRunning' = step
    /\ run' = [run EXCEPT ![c].pc = pc]
    /\ UNCHANGED <<state, inFlight, reader>>
Still == UNCHANGED <<world, runs, met>>

Saved == {f \in Files : (f = "compose" => compose # Dir) /\ (f = "base" => overlay = "valid")}

\* MUTANT: a failed copy of .env is swallowed too.
BackedAnyway(has) == TRUE
\* Whether the step goes on: only copies of compose.yml and of the base may be missing.
Backed(has) == "env" \in has

\* docker pull, then the backup directory is made and filled synchronously.  A failed
\* copy of .env (or of the key registry) throws; a failed copy of compose.yml or of
\* the staged base is swallowed and leaves a backup without that file.
Pull(c) ==
    /\ At(c, "pull") /\ Still
    /\ \/ /\ pulled' \in {pulled, IF run[c].pin = 0 THEN upstream ELSE pulled}
          /\ Fail(c, lastRunning, FALSE, Now)
          /\ UNCHANGED <<lastRunning, backups, stamp>>
       \/ /\ ~EmitThrows
          /\ pulled' = IF run[c].pin = 0 THEN upstream ELSE pulled
          /\ stamp' = stamp + 1
          /\ lastRunning' = "backup"
          /\ \E has \in {h \in SUBSET Saved : h # {} => "env" \in h} :
                /\ backups' = backups \cup {[id |-> stamp + 1, has |-> has, env |-> env,
                                             compose |-> compose, base |-> base]}
                /\ \/ /\ Backed(has)
                      /\ run' = [run EXCEPT ![c] = [@ EXCEPT !.pc = "snapshot",
                                                              !.backup = stamp + 1]]
                      /\ UNCHANGED <<files, state, inFlight, reader>>
                   \/ Fail(c, "backup", FALSE, Now)
    /\ UNCHANGED deployed

\* Settings snapshot (its failure is only noted), then the merge reads .env.
Snapshot(c) ==
    /\ At(c, "snapshot") /\ Still
    /\ \/ /\ Fail(c, lastRunning, FALSE, Now)
          /\ UNCHANGED lastRunning
       \/ /\ ~EmitThrows
          /\ lastRunning' = "merge_env"
          /\ run' = [run EXCEPT ![c] = [@ EXCEPT !.pc = "merge", !.snap = env]]
          /\ UNCHANGED <<files, state, inFlight, reader>>
    /\ UNCHANGED <<pulled, deployed, backups, stamp>>

\* The .env.example arrives: keys missing from the copy read before the await are
\* added and that copy is written back; nothing is written when the fetch fails.
Merged(c) ==
    LET snap == run[c].snap
        example == Upstream(snap.pin)
    IN  [snap EXCEPT !.keys = IF example > @ THEN example ELSE @]
Merge(c) ==
    /\ At(c, "merge") /\ Still
    /\ \/ /\ \E e \in IF EmitThrows THEN {env, Merged(c)} ELSE {env} :
                Fail(c, lastRunning, FALSE, [Now EXCEPT !.env = e])
          /\ UNCHANGED lastRunning
       \/ /\ env' \in {env, Merged(c)}
          /\ ~EmitThrows
          /\ lastRunning' = "recreate"
          /\ run' = [run EXCEPT ![c] = [@ EXCEPT !.pc = "fetch", !.snap = env']]
          /\ UNCHANGED <<compose, base, state, inFlight, reader>>
    /\ UNCHANGED <<pulled, deployed, backups, stamp>>

\* The upstream compose file arrives.  Without an overlay it replaces compose.yml;
\* with one it goes to the staging file for validation.
Fetch(c) ==
    /\ At(c, "fetch") /\ Still
    /\ \/ Fail(c, lastRunning, FALSE, Now)
       \/ LET new == Upstream(run[c].snap.pin) IN
          /\ run' = [run EXCEPT ![c] = [@ EXCEPT
                        !.pc = IF overlay = "valid" THEN "validate" ELSE "up",
                        !.fetched = new]]
          /\ overlay = "valid" \/ compose # Dir
          /\ compose' = IF overlay = "valid" THEN compose ELSE new
          /\ UNCHANGED <<env, base, state, inFlight, reader>>
    /\ UNCHANGED <<pulled, deployed, backups, stamp, lastRunning>>

\* MUTANT: the fetched base is staged before it is validated.
ValidateStaged(c) ==
    /\ At(c, "validate") /\ Still
    /\ \/ Fail(c, lastRunning, FALSE, [Now EXCEPT !.base = run[c].fetched])
       \/ /\ base' = run[c].fetched
          /\ ReportFailure(c, lastRunning, "kept")
          /\ UNCHANGED <<env, compose>>
       \/ /\ ~EmitThrows
          /\ base' = run[c].fetched
          /\ run' = [run EXCEPT ![c].pc = "up"]
          /\ UNCHANGED <<env, compose, state, inFlight, reader>>
    /\ UNCHANGED <<pulled, deployed, backups, stamp, lastRunning>>
\* validateEffectiveCompose answers; only a valid base+overlay is staged.
Validate(c) ==
    /\ At(c, "validate") /\ Still
    /\ \/ \E b \in IF EmitThrows THEN {base, run[c].fetched} ELSE {base} :
            Fail(c, lastRunning, FALSE, [Now EXCEPT !.base = b])
       \/ Fail(c, lastRunning, TRUE, Now)
       \/ /\ ~EmitThrows
          /\ base' = run[c].fetched
          /\ run' = [run EXCEPT ![c].pc = "up"]
          /\ UNCHANGED <<env, compose, state, inFlight, reader>>
    /\ UNCHANGED <<pulled, deployed, backups, stamp, lastRunning>>

\* docker compose up ends: a failure may leave ai-dev as it was, gone, or new.
Up(c) ==
    /\ At(c, "up") /\ Still
    /\ \/ /\ deployed' \in {deployed, Down, Recreated(overlay = "valid")}
          /\ Fail(c, lastRunning, FALSE, Now)
          /\ UNCHANGED lastRunning
       \/ /\ Effective(overlay = "valid") # Dir
          /\ deployed' = Recreated(overlay = "valid")
          /\ Go(c, "health", "poll_health")
          /\ UNCHANGED files
    /\ UNCHANGED <<pulled, backups, stamp>>

Health(c) ==
    /\ At(c, "health") /\ Still
    /\ \/ /\ Fail(c, lastRunning, FALSE, Now)
          /\ UNCHANGED lastRunning
       \/ /\ Go(c, "reconcile", "reconcile")
          /\ UNCHANGED files
    /\ UNCHANGED <<pulled, deployed, backups, stamp>>

\* The reconcile script's exit code is only reported; a rejected exec fails.
Reconcile(c) ==
    /\ At(c, "reconcile") /\ Still
    /\ \/ /\ Fail(c, lastRunning, FALSE, Now)
          /\ UNCHANGED lastRunning
       \/ /\ Go(c, "prune", "cleanup")
          /\ UNCHANGED files
    /\ UNCHANGED <<pulled, deployed, backups, stamp>>

\* pruneOldBackups: the oldest directories beyond the retention go.
Newer(b) == {d \in backups : d.id > b.id}
Pruned == {b \in backups : Cardinality(Newer(b)) < Retention}

\* Image prune, backup prune, the last event, completed.
Prune(c) ==
    /\ At(c, "prune") /\ Still
    /\ \/ /\ backups' \in {backups, Pruned}
          /\ Fail(c, lastRunning, FALSE, Now)
       \/ /\ ~EmitThrows
          /\ backups' = Pruned
          /\ state' = "completed"
          /\ Settle(c, "ok")
          /\ CloseReaders("cleanup")
          /\ UNCHANGED files
    /\ UNCHANGED <<pulled, deployed, stamp, lastRunning>>

\* rollbackToBackup after its await: compose up on the restored files.
Rollback(c) ==
    /\ At(c, "rollback") /\ Still
    /\ \/ /\ Effective(run[c].useBase) # Dir
          /\ deployed' = Recreated(run[c].useBase)
          /\ ReportFailure(c, "recreate", IF run[c].whole THEN "rolledback" ELSE "partial")
       \/ /\ deployed' \in {deployed, Down, Recreated(run[c].useBase)}
          /\ ReportFailure(c, "recreate", "partial")
    /\ UNCHANGED <<files, pulled, backups, stamp, lastRunning>>

\* MUTANT: the rollback is started and never awaited.
StepNoRollback(c) ==
    \/ Enter(c) \/ Preflight(c) \/ Pull(c) \/ Snapshot(c) \/ Merge(c) \/ Fetch(c)
    \/ Validate(c) \/ Up(c) \/ Health(c) \/ Reconcile(c) \/ Prune(c)
Step(c) ==
    \/ Enter(c) \/ Preflight(c) \/ Pull(c) \/ Snapshot(c) \/ Merge(c) \/ Fetch(c)
    \/ Validate(c) \/ Up(c) \/ Health(c) \/ Reconcile(c) \/ Prune(c) \/ Rollback(c)

-----------------------------------------------------------------------------
(***************************************************************************)
(* The environment: SSE clients, the operator and upstream.                 *)
(***************************************************************************)
SetReader(r, from, to) ==
    /\ Quiescent /\ reader[r] \in from
    /\ reader' = [reader EXCEPT ![r] = to]
    /\ UNCHANGED <<world, files, pulled, deployed, state, lastRunning, backups, run,
                   inFlight, stamp, runs, met>>

\* GET /api/upgrade/log subscribes; a client that goes away unsubscribes.
OpenLog(r) == SetReader(r, {"none"}, "open")
AbortLog(r) == SetReader(r, {"open", "closing"}, "none")
\* The 1 s timer closes the stream and leaves the subscriber registered.
CloseLog(r) == SetReader(r, {"closing"}, "stale")

\* Another admin page or command writes .env.
EditEnv ==
    /\ Quiescent /\ env.edit < MaxEdits
    /\ env' = [env EXCEPT !.edit = @ + 1]
    /\ UNCHANGED <<world, compose, base, pulled, deployed, state, lastRunning, backups, run,
                   inFlight, reader, stamp, runs, met>>

\* A new release is published and promoted to :latest.
Publish ==
    /\ Quiescent /\ upstream < MaxVersion
    /\ upstream' = upstream + 1
    /\ UNCHANGED <<overlay, devBuild, files, pulled, deployed, state, lastRunning, backups,
                   run, inFlight, reader, stamp, runs, met>>

Next ==
    \/ \E c \in Callers : Step(c)
    \/ \E c \in RouteCallers, pin \in Pins : RouteStart(c, pin)
    \/ \E S \in SUBSET AgentCallers : AgentStart(S)
    \/ \E r \in Readers : OpenLog(r) \/ AbortLog(r) \/ CloseLog(r)
    \/ EditEnv \/ Publish

-----------------------------------------------------------------------------
Spec == Init /\ [][Next]_vars

\* Every awaited docker, compose, exec and fetch call carries a timeout, so each
\* await settles; nothing obliges a client, the operator or upstream to act.
FairSpec == Spec /\ \A c \in Callers : WF_vars(Step(c))

-----------------------------------------------------------------------------
Results == {"none", "refused", "wedged", "ok", "kept", "partial", "rolledback"} \cup Steps
Snapshots == [edit : 0..MaxEdits, compose : ComposeFiles, base : Pins, deployed : Deployments]
Runs == [pc : PCs, pin : Pins, backup : Nat, snap : EnvFiles, fetched : Pins,
         useBase : BOOLEAN, whole : BOOLEAN, result : Results, before : Snapshots]
Backups == [id : Nat, has : SUBSET Files, env : EnvFiles, compose : ComposeFiles,
            base : Pins]

\* Type correctness of the sidecar's state and of the files it manages.
TypeOK ==
    /\ upstream \in Versions /\ pulled \in Versions
    /\ env \in EnvFiles /\ compose \in ComposeFiles /\ base \in Pins
    /\ deployed \in Deployments
    /\ overlay \in {"none", "valid", "broken"} /\ devBuild \in BOOLEAN
    /\ state \in {"idle", "running", "completed", "failed"}
    /\ lastRunning \in Steps \cup {"none"}
    /\ backups \subseteq Backups /\ stamp \in Nat /\ runs \in 0..MaxRuns
    /\ run \in [Callers -> Runs]
    /\ inFlight \in BOOLEAN /\ met \in BOOLEAN
    /\ reader \in [Readers -> {"none", "open", "closing", "stale"}]

\* Two pipelines are under way at once only when two calls have been between the running
\* check of runUpgrade and its assignment of the state together, and then never two that
\* the route started: its flag covers the await that the check leaves open.
OnePipeline ==
    \A c, d \in Callers :
        c # d /\ InPipeline(c) /\ InPipeline(d) => met /\ ~({c, d} \subseteq RouteCallers)

\* While no two calls have met there: from the merge on, the directory this run will roll
\* back to exists and holds, for every file it has, the content from before the run's
\* first change.
BackupCoversRun ==
    ~met => \A c \in Callers : InPipeline(c) /\ run[c].pc # "pull" =>
        \E b \in Own(c) :
            /\ "env" \in b.has
            /\ "compose" \in b.has => b.compose = run[c].before.compose
            /\ "base" \in b.has => b.base = run[c].before.base

Quiet(c) == \A d \in Callers : run[d].pc = "idle"
PriorConf(c) == IF overlay = "valid" /\ run[c].before.base > 0
                THEN run[c].before.base ELSE run[c].before.compose

\* A run that met no other and reports a complete rollback from a whole backup has left
\* the configuration it found: both files, and the one ai-dev runs on.
RolledBackToPriorConfig ==
    ~met => \A c \in Callers :
        /\ Quiet(c) /\ run[c].result = "rolledback"
        /\ \E b \in Own(c) : Saved \subseteq b.has
        => /\ compose = run[c].before.compose /\ base = run[c].before.base
           /\ deployed.conf = PriorConf(c)

\* A failure before recreate, and a rejected overlay, of a run that met no other, leave
\* the container and the compose files alone ("no container is recreated and the active
\* deployment remains unchanged").
EarlyFailureUntouched ==
    ~met => \A c \in Callers :
        Quiet(c) /\ run[c].result \in {"digest_compare", "backup", "merge_env", "kept"}
        => /\ deployed = run[c].before.deployed
           /\ compose = run[c].before.compose /\ base = run[c].before.base

\* What the operator wrote to .env before a run that met no other started, the run's
\* merge and its rollback have left in the file.
EarlierEditsKept ==
    ~met => \A c \in Callers :
        run[c].result \notin {"none", "refused"} => env.edit >= run[c].before.edit

\* A started upgrade ends, unless a closed log stream is still subscribed.
UpgradeSettles == state = "running" ~> (state # "running" \/ EmitThrows)

-----------------------------------------------------------------------------
(***************************************************************************)
(* Statements of the repository that the code does not keep.                *)
(***************************************************************************)
\* An upgrade that is requested during another one starts when that one is over: there
\* are never two pipelines.
NeverTwoPipelines ==
    \A c, d \in Callers : InPipeline(c) /\ InPipeline(d) => c = d

\* "runUpgrade flips state to completed/failed synchronously right after the terminal
\* emit": a started upgrade leaves the running state.
UpgradeEnds == state = "running" ~> state # "running"

=============================================================================
