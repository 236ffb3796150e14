--------------------------- MODULE DbMaintenance ---------------------------
(***************************************************************************)
(* Database maintenance: the run of src/admin/lib/db-maintenance.ts, its    *)
(* two callers (the admin route and the daily scheduler of                  *)
(* lib/maintenance-scheduler.ts), the ai-dev container it stops and starts  *)
(* and the sessions of the opencode database it deletes.                    *)
(*                                                                         *)
(* Every awaited command of the run is a step of its own.  The database is  *)
(* seen as the sessions it holds, split the way SQLite's WAL mode splits    *)
(* them: rows in the database file and rows only in the WAL.                *)
(***************************************************************************)
EXTENDS Integers, Sequences, FiniteSets

CONSTANTS
    Sessions,      \* session ids
    MaxRuns,       \* bound: maintenance runs
    MaxOutside,    \* bound: starts of ai-dev by other parts of the admin server
    MaxCrashes     \* bound: restarts of the admin process

ASSUME DbMaintenanceAssumption ==
    /\ IsFiniteSet(Sessions)
    /\ MaxRuns \in Nat /\ MaxOutside \in Nat /\ MaxCrashes \in Nat

VARIABLES
    state,          \* currentState
    pc,             \* the command the run awaits, "none" outside a run
    caller,         \* who started the run
    run,            \* runs begun so far; names the run's backup directory
    startInFlight,  \* the route's flag
    rescue,         \* the catch block awaits its best-effort start of ai-dev
    policy,         \* the retention policy file
    lastSuccess,    \* lastSuccessAt is set, in memory
    saved,          \* and in the state file
    armed,          \* the scheduler's timer is armed
    evaluating,     \* the scheduler awaits a run
    aidev,          \* the ai-dev container runs
    busy,           \* one of its sessions is in a turn
    present,        \* sessions with a row
    seqs,           \* sessions with event sequences
    old,            \* sessions last updated before the cutoff
    cut,            \* the sessions the run's fixed cutoff timestamp selects
    flushed,        \* sessions whose rows are in the database file, not only in the WAL
    touched,        \* sessions updated since the run began
    backups,        \* backup directories, by run
    holds,          \* the sessions in the run's backup
    torn,           \* the database file changed while the backup copied it
    gone,           \* history: sessions the run has deleted
    manualDone,     \* history: a manual run has succeeded
    intruded,       \* history: something else started ai-dev during the run
    excused,        \* history: a stop or start of ai-dev failed, or the admin process died,
                    \* since ai-dev last ran
    outside, crashes

control == <<state, pc, caller, run, startInFlight, rescue, lastSuccess, saved, evaluating>>
database == <<present, seqs, old, flushed, touched>>
rest == <<cut, backups, holds, torn, gone>>
vars == <<state, pc, caller, run, startInFlight, rescue, policy, lastSuccess, saved, armed,
          evaluating, aidev, busy, present, seqs, old, cut, flushed, touched, backups, holds,
          torn, gone, manualDone, intruded, excused, outside, crashes>>

Init ==
    /\ state = "idle" /\ pc = "none" /\ caller = "none" /\ run = 0
    /\ startInFlight = FALSE /\ rescue = FALSE
    /\ policy = "disabled" /\ lastSuccess = FALSE /\ saved = FALSE
    /\ armed = TRUE /\ evaluating = FALSE
    /\ aidev = TRUE /\ busy = FALSE
    /\ present = Sessions /\ seqs = Sessions /\ old \in SUBSET Sessions
    /\ flushed = Sessions /\ touched = {} /\ cut = {}
    /\ backups = {} /\ holds = {} /\ torn = FALSE /\ gone = {}
    /\ manualDone = FALSE /\ intruded = FALSE /\ excused = FALSE
    /\ outside = 0 /\ crashes = 0

\* What the retention policy file says; one that does not validate makes every reader throw.
Policies == {"disabled", "enabled", "malformed"}

\* From the stop to the restart the run holds the database for itself.
Window == {"frozen", "sequences", "sessions", "floor", "checkpoint", "headroom", "vacuum",
           "quick check"}

-----------------------------------------------------------------------------
(* ai-dev and its sessions. *)

TurnStarts ==
    /\ aidev /\ ~busy
    /\ busy' = TRUE
    /\ UNCHANGED <<control, database, rest, policy, armed, aidev, manualDone, intruded, excused,
                   outside, crashes>>

TurnEnds ==
    /\ busy
    /\ busy' = FALSE
    /\ UNCHANGED <<control, database, rest, policy, armed, aidev, manualDone, intruded, excused,
                   outside, crashes>>

\* A turn creates a session or updates one; the row goes to the WAL.
Write(s) ==
    /\ busy /\ s \notin gone
    /\ present' = present \cup {s}
    /\ seqs' = seqs \cup {s}
    /\ old' = old \ {s}
    /\ flushed' = flushed \ {s}
    /\ touched' = touched \cup {s}
    /\ UNCHANGED <<control, rest, policy, armed, aidev, busy, manualDone, intruded, excused,
                   outside, crashes>>

\* SQLite moves the WAL into the database file.
AutoCheckpoint ==
    /\ aidev /\ flushed # present
    /\ flushed' = present
    /\ torn' = (torn \/ pc = "copying")
    /\ UNCHANGED <<control, present, seqs, old, touched, cut, backups, holds, gone, policy, armed,
                   aidev, busy, manualDone, intruded, excused, outside, crashes>>

\* The cutoff is at least a day, a run takes less: only untouched sessions grow old.
Age(s) ==
    /\ s \in present \ (old \cup touched)
    /\ old' = old \cup {s}
    /\ UNCHANGED <<control, rest, present, seqs, flushed, touched, policy, armed, aidev, busy,
                   manualDone, intruded, excused, outside, crashes>>

\* A restart, an upgrade or a key change recreates ai-dev: none asks about maintenance.
OutsideStart ==
    /\ outside < MaxOutside
    /\ outside' = outside + 1
    /\ aidev' = TRUE /\ busy' = FALSE
    /\ intruded' = (intruded \/ pc # "none")
    /\ excused' = FALSE
    /\ UNCHANGED <<control, database, rest, policy, armed, manualDone, crashes>>

-----------------------------------------------------------------------------
(* A run begins. *)

\* runMaintenance up to its first await: the running check, the policy and its guard.
Begin(by) ==
    /\ run < MaxRuns
    /\ run' = run + 1
    /\ caller' = by
    /\ touched' = {} /\ gone' = {} /\ holds' = {} /\ torn' = FALSE /\ cut' = {}
    /\ intruded' = FALSE
    /\ IF policy = "malformed"
       THEN state' = "failed" /\ pc' = "none" /\ rescue' = TRUE
       ELSE state' = "running" /\ pc' = "guards" /\ UNCHANGED rescue
    /\ UNCHANGED <<lastSuccess, saved, policy, aidev, busy, present, seqs, old, flushed, backups,
                   manualDone, excused, outside, crashes>>

\* POST /api/admin/db-maintenance/run; a manual run may opt out of the policy's enabled flag.
RouteRun ==
    /\ state # "running" /\ ~startInFlight
    /\ startInFlight' = TRUE
    /\ Begin("route")
    /\ UNCHANGED <<armed, evaluating>>

\* evaluateMaintenanceScheduler's conditions for a run.
Gate == policy = "enabled" /\ lastSuccess /\ state # "running"

\* The timer fires and a run is due; without one the evaluation only records why it skips,
\* and rearms.
TimerFires ==
    /\ armed /\ Gate
    /\ armed' = FALSE
    /\ evaluating' = TRUE
    /\ Begin("scheduler")
    /\ UNCHANGED startInFlight

\* Saving the policy reschedules, during an evaluation too.
SavePolicy(p) ==
    /\ policy # p
    /\ policy' = p
    /\ armed' = (armed \/ p # "malformed")
    /\ UNCHANGED <<control, database, rest, aidev, busy, manualDone, intruded, excused, outside,
                   crashes>>

-----------------------------------------------------------------------------
(* The run's steps. *)

\* MUTANT: only a successful evaluation is followed by another.
RearmedOnSuccess(s) == armed \/ (caller = "scheduler" /\ s = "done")
\* scheduleNext after the evaluation, whatever its outcome.
Rearmed(s) == armed \/ caller = "scheduler"

\* The run's promise settles, and its caller resumes.
Settle(s) ==
    /\ state' = s
    /\ pc' = "none"
    /\ startInFlight' = (startInFlight /\ caller # "route")
    /\ evaluating' = (evaluating /\ caller # "scheduler")
    /\ armed' = Rearmed(s)

Step(at, next) ==
    /\ pc = at
    /\ pc' = next
    /\ UNCHANGED <<state, startInFlight, evaluating, armed>>

same == <<caller, run, rescue, policy, manualDone, intruded, outside, crashes>>

\* A guard or a command before the stop refuses or fails.
Refuse(at) ==
    /\ pc = at
    /\ Settle("failed")
    /\ UNCHANGED <<same, lastSuccess, saved, aidev, busy, database, rest, excused>>

Guards ==
    \/ Refuse("guards")
    \/ /\ Step("guards", "copying")
       /\ holds' = flushed
       /\ UNCHANGED <<same, lastSuccess, saved, aidev, busy, database, cut, backups, torn, gone,
                      excused>>

CreateBackup ==
    \/ Refuse("copying")
    \/ /\ Step("copying", "verify backup")
       /\ UNCHANGED <<same, lastSuccess, saved, aidev, busy, database, rest, excused>>

\* gzip -t and the size check: a torn copy passes them.
VerifyBackup ==
    \/ Refuse("verify backup")
    \/ /\ Step("verify backup", "prune")
       /\ backups' = backups \cup {run}
       /\ UNCHANGED <<same, lastSuccess, saved, aidev, busy, database, cut, holds, torn, gone,
                      excused>>

\* MUTANT: the run's own backup is no exception.
PrunableOwn == backups
\* Backups of any age but the run's own may have expired.
Prunable == backups \ {run}

PruneBackups ==
    \E expired \in SUBSET Prunable :
        /\ \/ pc = "prune" /\ Settle("failed")
           \/ Step("prune", "idle wait")
        /\ backups' = backups \ expired
        /\ UNCHANGED <<same, lastSuccess, saved, aidev, busy, database, cut, holds, torn, gone,
                       excused>>

\* The probe finds every session idle before the deadline, or the run gives up.
WaitForIdle ==
    \/ Refuse("idle wait")
    \/ /\ aidev /\ ~busy
       /\ Step("idle wait", "stop")
       /\ UNCHANGED <<same, lastSuccess, saved, aidev, busy, database, rest, excused>>

\* MUTANT: a stop that fails is ignored.
StopIgnored == Step("stop", "frozen")
StopFailed == Settle("failed")

\* compose stop, then docker stop.  One that fails may have stopped ai-dev all the same, and
\* the run ends without a start.
StopAiDev ==
    /\ pc = "stop"
    /\ UNCHANGED <<same, lastSuccess, saved, database, rest>>
    /\ \/ /\ Step("stop", "frozen")
          /\ aidev' = FALSE /\ busy' = FALSE
          /\ UNCHANGED excused
       \/ /\ StopFailed
          /\ \/ UNCHANGED <<aidev, busy, excused>>
             \/ aidev' = FALSE /\ busy' = FALSE /\ excused' = TRUE

\* The WAL's time is read by exec in ai-dev: from a stopped container there is none, and
\* none counts as frozen.  The cutoff timestamp is taken right after.
ConfirmFrozen ==
    /\ \/ aidev /\ Step("frozen", "restart") /\ UNCHANGED cut
       \/ Step("frozen", "sequences") /\ cut' = old
    /\ UNCHANGED <<same, lastSuccess, saved, aidev, busy, database, backups, holds, torn, gone,
                   excused>>

\* A command of the window fails: ai-dev is started before the run is given up.
\* MUTANT: the run is given up at once.
GiveUpAtOnce(at) == pc = at /\ Settle("failed")
GiveUp(at) == Step(at, "restart")

\* MUTANT: each statement takes the time anew.
ExpiredAnew == present \cap old
\* MUTANT: the expired ids are collected once.
ExpiredByList == present \cap cut
\* The rows below the cutoff timestamp taken once, and not updated since.
Expired == present \cap old \cap cut

\* A statement that is reported as failed was rolled back or committed.
DeleteSequences ==
    /\ pc = "sequences"
    /\ \/ GiveUp("sequences") /\ seqs' \in {seqs, seqs \ Expired}
       \/ Step("sequences", "sessions") /\ seqs' = seqs \ Expired
    /\ UNCHANGED <<same, lastSuccess, saved, aidev, busy, present, old, flushed, touched, rest,
                   excused>>

DeleteSessions ==
    /\ pc = "sessions"
    /\ \/ GiveUp("sessions") /\ gone' \in {gone, gone \cup Expired}
       \/ Step("sessions", "floor") /\ gone' = gone \cup Expired
    /\ present' = present \ gone'
    /\ old' = old \ gone'
    /\ flushed' = flushed \ gone'
    /\ UNCHANGED <<same, lastSuccess, saved, aidev, busy, seqs, touched, cut, backups, holds, torn,
                   excused>>

\* The disk floor, twice, the vacuum and the integrity check: they pass or end the run.
After == {<<"floor", "checkpoint">>, <<"headroom", "vacuum">>, <<"vacuum", "quick check">>,
          <<"quick check", "start">>}
CheckOrVacuum ==
    \E step \in After :
        /\ GiveUp(step[1]) \/ Step(step[1], step[2])
        /\ UNCHANGED <<same, lastSuccess, saved, aidev, busy, database, rest, excused>>

Checkpoint ==
    /\ pc = "checkpoint"
    /\ \/ GiveUp("checkpoint") /\ UNCHANGED flushed
       \/ Step("checkpoint", "headroom") /\ flushed' = present
    /\ UNCHANGED <<same, lastSuccess, saved, aidev, busy, present, seqs, old, touched, rest,
                   excused>>

\* up -d ai-dev, or docker start: it runs, or not.
Started ==
    \/ aidev' = TRUE /\ excused' = FALSE /\ UNCHANGED busy
    \/ ~aidev /\ excused' = TRUE /\ UNCHANGED <<aidev, busy>>

\* The start after a failure; its result is ignored.
RestartAiDev ==
    /\ pc = "restart"
    /\ Settle("failed")
    /\ Started
    /\ UNCHANGED <<same, lastSuccess, saved, database, rest>>

\* The start after the work, and the health poll.
StartAiDev ==
    /\ Started
    /\ \/ pc = "start" /\ Settle("failed")
       \/ aidev' /\ Step("start", "health")
    /\ UNCHANGED <<same, lastSuccess, saved, database, rest>>

HealthPoll ==
    /\ pc = "health"
    /\ \/ /\ Settle("failed")
          /\ UNCHANGED <<lastSuccess, saved, manualDone>>
       \/ /\ aidev /\ Settle("done")
          /\ lastSuccess' = TRUE
          /\ saved' \in {saved, TRUE}
          /\ manualDone' = (manualDone \/ caller = "route")
    /\ UNCHANGED <<caller, run, rescue, policy, intruded, outside, crashes, aidev, busy, database,
                   rest, excused>>

\* The catch block's best-effort start, when the malformed policy threw.
RescueDone ==
    /\ rescue
    /\ rescue' = FALSE
    /\ startInFlight' = FALSE
    /\ Started
    /\ intruded' = (intruded \/ pc # "none")
    /\ UNCHANGED <<state, pc, caller, run, lastSuccess, saved, evaluating, policy, armed, database,
                   rest, manualDone, outside, crashes>>

\* The admin process restarts: only what is on disk survives.
Crash ==
    /\ crashes < MaxCrashes
    /\ crashes' = crashes + 1
    /\ state' = "idle" /\ pc' = "none" /\ caller' = "none"
    /\ startInFlight' = FALSE /\ rescue' = FALSE /\ evaluating' = FALSE /\ armed' = TRUE
    /\ lastSuccess' = saved
    /\ excused' = ~aidev
    /\ UNCHANGED <<run, saved, policy, aidev, busy, database, rest, manualDone, intruded,
                   outside>>

RunStep ==
    \/ Guards \/ CreateBackup \/ VerifyBackup \/ PruneBackups \/ WaitForIdle \/ StopAiDev
    \/ ConfirmFrozen \/ DeleteSequences \/ DeleteSessions \/ CheckOrVacuum \/ Checkpoint
    \/ RestartAiDev \/ StartAiDev \/ HealthPoll

Next ==
    \/ TurnStarts \/ TurnEnds \/ AutoCheckpoint \/ OutsideStart
    \/ \E s \in Sessions : Write(s) \/ Age(s)
    \/ RouteRun \/ TimerFires
    \/ \E p \in Policies : SavePolicy(p)
    \/ RunStep \/ RescueDone \/ Crash

Spec == Init /\ [][Next]_vars
-----------------------------------------------------------------------------
Steps == Window \cup {"none", "guards", "copying", "verify backup", "prune", "idle wait",
                      "stop", "restart", "start", "health"}

\* Type correctness; a run is in progress exactly when the state says so.
TypeOK ==
    /\ state \in {"idle", "running", "done", "failed"} /\ pc \in Steps
    /\ state = "running" <=> pc # "none"
    /\ caller \in {"none", "route", "scheduler"} /\ run \in 0..MaxRuns
    /\ startInFlight \in BOOLEAN /\ rescue \in BOOLEAN
    /\ policy \in Policies
    /\ lastSuccess \in BOOLEAN /\ saved \in BOOLEAN /\ armed \in BOOLEAN
    /\ evaluating \in BOOLEAN /\ aidev \in BOOLEAN /\ busy \in BOOLEAN
    /\ present \cup seqs \cup old \cup cut \subseteq Sessions
    /\ flushed \cup touched \cup holds \cup gone \subseteq Sessions
    /\ backups \subseteq 1..MaxRuns /\ torn \in BOOLEAN /\ manualDone \in BOOLEAN
    /\ intruded \in BOOLEAN /\ excused \in BOOLEAN
    /\ outside \in 0..MaxOutside /\ crashes \in 0..MaxCrashes

\* "perform deletes and reclaim only while no database writer is active": ai-dev is down from
\* the first delete to the integrity check, unless something else started it during the run.
SingleWriter == pc \in Window \ {"frozen"} /\ ~intruded => ~aidev

\* Whatever path a run takes, what it has deleted is matched by its own verified backup, and
\* no pruning removes that.
BackupBeforeDelete == gone # {} => run \in backups

\* No event sequence outlives its session, whichever statements fail and however the clock
\* and the sessions move between them.
NoOrphans == seqs \subseteq present

\* A session updated since the run began is not deleted by it.
RecentKept == gone \cap touched = {}

\* The scheduler never runs before a manual run has succeeded, across restarts of the admin
\* process and failed saves of its state.
GatedSchedule == caller = "scheduler" => manualDone

\* The scheduler never falls silent: its timer is armed or it awaits a run that rearms it.
SchedulerAlive == armed \/ evaluating

\* A run gives ai-dev back: when it is down, a run has it down, or a command that stops or
\* starts it failed, or the admin process died since.
AiDevComesBack == ~aidev => excused \/ pc \in Window \cup {"restart", "start"}

-----------------------------------------------------------------------------
(* Statements of the repository that the code does not keep. *)

\* "SHALL perform deletes and reclaim only while no database writer is active".
SingleWriterAlways == pc \in Window \ {"frozen"} => ~aidev

\* "SHALL create a restorable backup before deleting anything".
BackupRestores == gone # {} => ~torn /\ gone \subseteq holds
=============================================================================
