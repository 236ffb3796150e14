------------------------ MODULE DbMaintenanceProofs ------------------------
(***************************************************************************)
(* What maintenance promises holds for any set of sessions and any number   *)
(* of runs, of starts of ai-dev from elsewhere and of restarts of the admin *)
(* process.                                                                 *)
(*                                                                         *)
(* The invariant has five parts, each inductive next to the types: who runs *)
(* (Scheduled), what the scheduler's gate remembers (Gated), which backup   *)
(* protects a run (Protected), what a run may delete (Deletes) and who has  *)
(* ai-dev down (Container).                                                 *)
(***************************************************************************)
EXTENDS DbMaintenance, TLAPS

\* The types, in four parts.
Counters ==
    /\ run \in 0..MaxRuns /\ (pc # "none" => run > 0)
    /\ backups \subseteq 1..MaxRuns
    /\ outside \in 0..MaxOutside /\ crashes \in 0..MaxCrashes
Flow ==
    /\ state \in {"idle", "running", "done", "failed"} /\ pc \in Steps
    /\ state = "running" <=> pc # "none"
    /\ caller \in {"none", "route", "scheduler"}
    /\ policy \in Policies
Flags ==
    /\ startInFlight \in BOOLEAN /\ rescue \in BOOLEAN
    /\ lastSuccess \in BOOLEAN /\ saved \in BOOLEAN /\ armed \in BOOLEAN
    /\ evaluating \in BOOLEAN /\ aidev \in BOOLEAN /\ busy \in BOOLEAN
    /\ torn \in BOOLEAN /\ manualDone \in BOOLEAN
    /\ intruded \in BOOLEAN /\ excused \in BOOLEAN
Sets ==
    /\ present \cup seqs \cup old \cup cut \subseteq Sessions
    /\ flushed \cup touched \cup holds \cup gone \subseteq Sessions

\* An evaluation in progress is the scheduler's own run, and every run has a caller.
Scheduled ==
    /\ SchedulerAlive
    /\ evaluating => pc # "none" /\ caller = "scheduler"
    /\ pc # "none" => caller # "none"

\* Neither the memory nor the file knows of a success no manual run has had.
Gated == GatedSchedule /\ (lastSuccess \/ saved => manualDone)

Verified == Window \cup {"prune", "idle wait", "stop", "restart", "start", "health"}

\* Past its verification a run has its backup.
Protected == BackupBeforeDelete /\ (pc \in Verified => run \in backups)

\* What a session that has been selected and is no longer expired has in common with one
\* updated since the run began: it was touched, and will not grow old during the run.
Deletes ==
    /\ NoOrphans /\ RecentKept
    /\ seqs \cap gone = {}
    /\ old \cap touched = {}
    /\ pc \in {"sequences", "sessions"} => present \cap cut \subseteq old \cup touched
    /\ pc = "sessions" => seqs \cap Expired = {}

Container == AiDevComesBack /\ (pc \in Window /\ ~intruded => ~aidev)

IInv == Counters /\ Flow /\ Flags /\ Sets /\ Scheduled /\ Gated /\ Protected /\ Deletes /\ Container

-----------------------------------------------------------------------------
(* The end of a run, whoever started it, leaves the scheduler's timer armed. *)

Settled ==
    /\ state' \in {"done", "failed"} /\ pc' = "none"
    /\ startInFlight' \in BOOLEAN
    /\ evaluating' \in BOOLEAN /\ ~evaluating'
    /\ armed' \in BOOLEAN /\ armed'

LEMMA SettleEffect ==
    ASSUME Flags, Scheduled, NEW s \in {"done", "failed"}, Settle(s)
    PROVE  Settled
<1>1. state' \in {"done", "failed"} /\ pc' = "none"
  BY DEF Settle
<1>2. startInFlight' \in BOOLEAN
  BY DEF Settle
<1>3. evaluating' \in BOOLEAN /\ ~evaluating'
  BY DEF Flags, Scheduled, Settle
<1>4. armed' \in BOOLEAN /\ armed'
  BY DEF Flags, Scheduled, SchedulerAlive, Settle, Rearmed
<1> QED
  BY <1>1, <1>2, <1>3, <1>4 DEF Settled

\* Outside a run a stopped ai-dev must be excused, no more.
LEMMA ContainerWithoutRun ==
    ASSUME pc' = "none", ~aidev' => excused'
    PROVE  Container'
<1>1. pc' \notin Window
  BY DEF Window
<1> QED
  BY <1>1 DEF Container, AiDevComesBack

LEMMA RefuseKeeps ==
    ASSUME IInv, NEW at \in {"guards", "copying", "verify backup", "idle wait"}, Refuse(at)
    PROVE  IInv'
<1>1. Settled
  BY SettleEffect DEF IInv, Refuse
<1>2. UNCHANGED <<same, lastSuccess, saved, aidev, busy, database, rest, excused>>
  BY DEF Refuse
<1>3. Counters' /\ Sets'
  BY <1>1, <1>2 DEF IInv, Settled, Counters, Sets, same, database, rest
<1>4. Flow'
  BY <1>1, <1>2 DEF IInv, Settled, Flow, Steps, Window, same
<1>5. Flags'
  BY <1>1, <1>2 DEF IInv, Settled, Flags, same, rest
<1>6. Scheduled'
  BY <1>1 DEF Settled, Scheduled, SchedulerAlive
<1>7. Gated'
  BY <1>1, <1>2 DEF IInv, Gated, GatedSchedule, same
<1>8. Protected' /\ Deletes'
  BY <1>1, <1>2 DEF IInv, Settled, Protected, BackupBeforeDelete, Verified, Window, Deletes,
     NoOrphans, RecentKept, same, database, rest
<1>9. Container'
  <2>1. pc \notin Window \cup {"restart", "start"}
    BY DEF Refuse, Window
  <2>2. ~aidev => excused
    BY <2>1 DEF IInv, Container, AiDevComesBack
  <2> QED
    BY <1>1, <1>2, <2>2, ContainerWithoutRun DEF Settled
<1> QED
  BY <1>3, <1>4, <1>5, <1>6, <1>7, <1>8, <1>9 DEF IInv

LEMMA CheckOrVacuumEffect ==
    ASSUME CheckOrVacuum
    PROVE  /\ pc \in {"floor", "headroom", "vacuum", "quick check"}
           /\ pc' \in {"checkpoint", "vacuum", "quick check", "start", "restart"}
           /\ UNCHANGED <<state, startInFlight, evaluating, armed>>
           /\ UNCHANGED <<same, lastSuccess, saved, aidev, busy, database, rest, excused>>
<1>1. PICK step \in After :
        /\ GiveUp(step[1]) \/ Step(step[1], step[2])
        /\ UNCHANGED <<same, lastSuccess, saved, aidev, busy, database, rest, excused>>
  BY DEF CheckOrVacuum
<1>2. /\ step[1] \in {"floor", "headroom", "vacuum", "quick check"}
      /\ step[2] \in {"checkpoint", "vacuum", "quick check", "start"}
  <2>1. CASE step = <<"floor", "checkpoint">>
    BY <2>1
  <2>2. CASE step = <<"headroom", "vacuum">>
    BY <2>2
  <2>3. CASE step = <<"vacuum", "quick check">>
    BY <2>3
  <2>4. CASE step = <<"quick check", "start">>
    BY <2>4
  <2> QED
    BY <2>1, <2>2, <2>3, <2>4 DEF After
<1>3. /\ pc = step[1] /\ pc' \in {step[2], "restart"}
      /\ UNCHANGED <<state, startInFlight, evaluating, armed>>
  BY <1>1 DEF GiveUp, Step
<1> QED
  BY <1>1, <1>2, <1>3

-----------------------------------------------------------------------------
(* ai-dev and its sessions, and the rest of the admin server. *)

LEMMA TurnStartsKeeps ==
    ASSUME IInv, TurnStarts
    PROVE  IInv'
<1>1. Counters' /\ Sets'
  BY DbMaintenanceAssumption DEF IInv, TurnStarts, control, database, rest,
       DbMaintenanceAssumption, Counters, Sets
<1>2. Flow'
  BY DEF IInv, TurnStarts, control, database, rest, Flow, Steps, Window
<1>3. Flags'
  BY DEF IInv, TurnStarts, control, database, rest, Flags
<1>4. Scheduled' /\ Gated'
  BY DEF IInv, TurnStarts, control, database, rest, Flow, Flags, Scheduled, SchedulerAlive,
       Gated, GatedSchedule
<1>5. Protected' /\ Deletes'
  BY DEF IInv, TurnStarts, control, database, rest, Counters, Flow, Sets, Protected,
       BackupBeforeDelete, Verified, Window, Deletes, NoOrphans, RecentKept, Expired
<1>6. Container'
  BY DEF IInv, TurnStarts, control, database, rest, Flow, Flags, Container, AiDevComesBack,
       Window
<1> QED
  BY <1>1, <1>2, <1>3, <1>4, <1>5, <1>6 DEF IInv

LEMMA TurnEndsKeeps ==
    ASSUME IInv, TurnEnds
    PROVE  IInv'
<1>1. Counters' /\ Sets'
  BY DbMaintenanceAssumption DEF IInv, TurnEnds, control, database, rest,
       DbMaintenanceAssumption, Counters, Sets
<1>2. Flow'
  BY DEF IInv, TurnEnds, control, database, rest, Flow, Steps, Window
<1>3. Flags'
  BY DEF IInv, TurnEnds, control, database, rest, Flags
<1>4. Scheduled' /\ Gated'
  BY DEF IInv, TurnEnds, control, database, rest, Flow, Flags, Scheduled, SchedulerAlive,
       Gated, GatedSchedule
<1>5. Protected' /\ Deletes'
  BY DEF IInv, TurnEnds, control, database, rest, Counters, Flow, Sets, Protected,
       BackupBeforeDelete, Verified, Window, Deletes, NoOrphans, RecentKept, Expired
<1>6. Container'
  BY DEF IInv, TurnEnds, control, database, rest, Flow, Flags, Container, AiDevComesBack,
       Window
<1> QED
  BY <1>1, <1>2, <1>3, <1>4, <1>5, <1>6 DEF IInv

\* A written session is touched, and no longer old.
LEMMA WriteKeeps ==
    ASSUME IInv, NEW s \in Sessions, Write(s)
    PROVE  IInv'
<1>1. Counters' /\ Sets'
  BY DbMaintenanceAssumption DEF IInv, Write, control, rest, DbMaintenanceAssumption,
       Counters, Sets
<1>2. Flow'
  BY DEF IInv, Write, control, rest, Flow, Steps, Window
<1>3. Flags'
  BY DEF IInv, Write, control, rest, Flags
<1>4. Scheduled' /\ Gated'
  BY DEF IInv, Write, control, rest, Flow, Flags, Scheduled, SchedulerAlive, Gated,
       GatedSchedule
<1>5. Protected' /\ Deletes'
  BY DEF IInv, Write, control, rest, Counters, Flow, Sets, Protected, BackupBeforeDelete,
       Verified, Window, Deletes, NoOrphans, RecentKept, Expired
<1>6. Container'
  BY DEF IInv, Write, control, rest, Flow, Flags, Container, AiDevComesBack, Window
<1> QED
  BY <1>1, <1>2, <1>3, <1>4, <1>5, <1>6 DEF IInv

LEMMA AutoCheckpointKeeps ==
    ASSUME IInv, AutoCheckpoint
    PROVE  IInv'
<1>1. Counters' /\ Sets'
  BY DbMaintenanceAssumption DEF IInv, AutoCheckpoint, control, DbMaintenanceAssumption,
       Counters, Sets
<1>2. Flow'
  BY DEF IInv, AutoCheckpoint, control, Flow, Steps, Window
<1>3. Flags'
  BY DEF IInv, AutoCheckpoint, control, Flags
<1>4. Scheduled' /\ Gated'
  BY DEF IInv, AutoCheckpoint, control, Flow, Flags, Scheduled, SchedulerAlive, Gated,
       GatedSchedule
<1>5. Protected' /\ Deletes'
  BY DEF IInv, AutoCheckpoint, control, Counters, Flow, Sets, Protected, BackupBeforeDelete,
       Verified, Window, Deletes, NoOrphans, RecentKept, Expired
<1>6. Container'
  BY DEF IInv, AutoCheckpoint, control, Flow, Flags, Container, AiDevComesBack, Window
<1> QED
  BY <1>1, <1>2, <1>3, <1>4, <1>5, <1>6 DEF IInv

\* A session that grows old now is neither touched nor selected.
LEMMA AgeKeeps ==
    ASSUME IInv, NEW s \in Sessions, Age(s)
    PROVE  IInv'
<1>1. Counters' /\ Sets'
  BY DbMaintenanceAssumption DEF IInv, Age, control, rest, DbMaintenanceAssumption, Counters,
       Sets
<1>2. Flow'
  BY DEF IInv, Age, control, rest, Flow, Steps, Window
<1>3. Flags'
  BY DEF IInv, Age, control, rest, Flags
<1>4. Scheduled' /\ Gated'
  BY DEF IInv, Age, control, rest, Flow, Flags, Scheduled, SchedulerAlive, Gated,
       GatedSchedule
<1>5. Protected' /\ Deletes'
  BY DEF IInv, Age, control, rest, Counters, Flow, Sets, Protected, BackupBeforeDelete,
       Verified, Window, Deletes, NoOrphans, RecentKept, Expired
<1>6. Container'
  BY DEF IInv, Age, control, rest, Flow, Flags, Container, AiDevComesBack, Window
<1> QED
  BY <1>1, <1>2, <1>3, <1>4, <1>5, <1>6 DEF IInv

LEMMA OutsideStartKeeps ==
    ASSUME IInv, OutsideStart
    PROVE  IInv'
<1>1. Counters' /\ Sets'
  BY DbMaintenanceAssumption DEF IInv, OutsideStart, control, database, rest,
       DbMaintenanceAssumption, Counters, Sets
<1>2. Flow'
  BY DEF IInv, OutsideStart, control, database, rest, Flow, Steps, Window
<1>3. Flags'
  BY DEF IInv, OutsideStart, control, database, rest, Flags
<1>4. Scheduled' /\ Gated'
  BY DEF IInv, OutsideStart, control, database, rest, Flow, Flags, Scheduled, SchedulerAlive,
       Gated, GatedSchedule
<1>5. Protected' /\ Deletes'
  BY DEF IInv, OutsideStart, control, database, rest, Counters, Flow, Sets, Protected,
       BackupBeforeDelete, Verified, Window, Deletes, NoOrphans, RecentKept, Expired
<1>6. Container'
  BY DEF IInv, OutsideStart, control, database, rest, Flow, Flags, Container, AiDevComesBack,
       Window
<1> QED
  BY <1>1, <1>2, <1>3, <1>4, <1>5, <1>6 DEF IInv

-----------------------------------------------------------------------------
(* A run begins. *)

\* No evaluation is in progress when a run begins.
LEMMA RouteRunKeeps ==
    ASSUME IInv, RouteRun
    PROVE  IInv'
<1>1. Counters' /\ Sets'
  BY DbMaintenanceAssumption DEF IInv, RouteRun, Begin, DbMaintenanceAssumption, Counters,
       Sets
<1>2. Flow'
  BY DEF IInv, RouteRun, Begin, Flow, Steps, Window
<1>3. Flags'
  BY DEF IInv, RouteRun, Begin, Flags
<1>4. Scheduled'
  BY DEF IInv, RouteRun, Begin, Flow, Flags, Scheduled, SchedulerAlive
<1>5. Gated'
  BY DEF IInv, RouteRun, Begin, Flow, Flags, Scheduled, Gated, GatedSchedule
<1>6. Protected' /\ Deletes'
  BY DEF IInv, RouteRun, Begin, Counters, Flow, Sets, Protected, BackupBeforeDelete,
       Verified, Window, Deletes, NoOrphans, RecentKept, Expired
<1>7. Container'
  BY DEF IInv, RouteRun, Begin, Flow, Flags, Container, AiDevComesBack, Window
<1> QED
  BY <1>1, <1>2, <1>3, <1>4, <1>5, <1>6, <1>7 DEF IInv

\* The gate's memory of a success is a manual run's.
LEMMA TimerFiresKeeps ==
    ASSUME IInv, TimerFires
    PROVE  IInv'
<1>1. Counters' /\ Sets'
  BY DbMaintenanceAssumption DEF IInv, TimerFires, Gate, Begin, DbMaintenanceAssumption,
       Counters, Sets
<1>2. Flow'
  BY DEF IInv, TimerFires, Gate, Begin, Flow, Steps, Window
<1>3. Flags'
  BY DEF IInv, TimerFires, Gate, Begin, Flags
<1>4. Scheduled'
  BY DEF IInv, TimerFires, Gate, Begin, Flow, Flags, Scheduled, SchedulerAlive
<1>5. Gated'
  BY DEF IInv, TimerFires, Gate, Begin, Flow, Flags, Scheduled, Gated, GatedSchedule
<1>6. Protected' /\ Deletes'
  BY DEF IInv, TimerFires, Gate, Begin, Counters, Flow, Sets, Protected, BackupBeforeDelete,
       Verified, Window, Deletes, NoOrphans, RecentKept, Expired
<1>7. Container'
  BY DEF IInv, TimerFires, Gate, Begin, Flow, Flags, Container, AiDevComesBack, Window
<1> QED
  BY <1>1, <1>2, <1>3, <1>4, <1>5, <1>6, <1>7 DEF IInv

LEMMA SavePolicyKeeps ==
    ASSUME IInv, NEW p \in Policies, SavePolicy(p)
    PROVE  IInv'
<1>1. Counters' /\ Sets'
  BY DbMaintenanceAssumption DEF IInv, SavePolicy, control, database, rest,
       DbMaintenanceAssumption, Counters, Sets
<1>2. Flow'
  BY DEF IInv, SavePolicy, control, database, rest, Flow, Steps, Window
<1>3. Flags'
  BY DEF IInv, SavePolicy, control, database, rest, Flags
<1>4. Scheduled' /\ Gated'
  BY DEF IInv, SavePolicy, control, database, rest, Flow, Flags, Scheduled, SchedulerAlive,
       Gated, GatedSchedule
<1>5. Protected' /\ Deletes'
  BY DEF IInv, SavePolicy, control, database, rest, Counters, Flow, Sets, Protected,
       BackupBeforeDelete, Verified, Window, Deletes, NoOrphans, RecentKept, Expired
<1>6. Container'
  BY DEF IInv, SavePolicy, control, database, rest, Flow, Flags, Container, AiDevComesBack,
       Window
<1> QED
  BY <1>1, <1>2, <1>3, <1>4, <1>5, <1>6 DEF IInv

-----------------------------------------------------------------------------
(* The run's steps. *)

LEMMA GuardsKeeps ==
    ASSUME IInv, Guards
    PROVE  IInv'
<1>1. CASE Refuse("guards")
  BY <1>1, RefuseKeeps
<1>2. CASE ~Refuse("guards")
  <2>1. /\ Step("guards", "copying") /\ holds' = flushed
        /\ UNCHANGED <<same, lastSuccess, saved, aidev, busy, database, cut, backups, torn,
                        gone, excused>>
    BY <1>2 DEF Guards
  <2>2. Counters' /\ Sets'
    BY <2>1, DbMaintenanceAssumption DEF IInv, Step, same, database, rest,
         DbMaintenanceAssumption, Counters, Sets
  <2>3. Flow'
    BY <2>1 DEF IInv, Step, same, database, rest, Flow, Steps, Window
  <2>4. Flags'
    BY <2>1 DEF IInv, Step, same, database, rest, Flags
  <2>5. Scheduled' /\ Gated'
    BY <2>1 DEF IInv, Step, same, database, rest, Flow, Flags, Scheduled, SchedulerAlive,
         Gated, GatedSchedule
  <2>6. Protected' /\ Deletes'
    BY <2>1 DEF IInv, Step, same, database, rest, Counters, Flow, Sets, Protected,
         BackupBeforeDelete, Verified, Window, Deletes, NoOrphans, RecentKept, Expired
  <2>7. Container'
    BY <2>1 DEF IInv, Step, same, database, rest, Flow, Flags, Container, AiDevComesBack,
         Window
  <2> QED
    BY <2>2, <2>3, <2>4, <2>5, <2>6, <2>7 DEF IInv
<1> QED
  BY <1>1, <1>2

LEMMA CreateBackupKeeps ==
    ASSUME IInv, CreateBackup
    PROVE  IInv'
<1>1. CASE Refuse("copying")
  BY <1>1, RefuseKeeps
<1>2. CASE ~Refuse("copying")
  <2>1. /\ Step("copying", "verify backup")
        /\ UNCHANGED <<same, lastSuccess, saved, aidev, busy, database, rest, excused>>
    BY <1>2 DEF CreateBackup
  <2>2. Counters' /\ Sets'
    BY <2>1, DbMaintenanceAssumption DEF IInv, Step, same, database, rest,
         DbMaintenanceAssumption, Counters, Sets
  <2>3. Flow'
    BY <2>1 DEF IInv, Step, same, database, rest, Flow, Steps, Window
  <2>4. Flags'
    BY ZenonT(30), <2>1 DEF IInv, Step, same, database, rest, Flags
  <2>5. Scheduled' /\ Gated'
    BY <2>1 DEF IInv, Step, same, database, rest, Flow, Flags, Scheduled, SchedulerAlive,
         Gated, GatedSchedule
  <2>6. Protected' /\ Deletes'
    BY <2>1 DEF IInv, Step, same, database, rest, Counters, Flow, Sets, Protected,
         BackupBeforeDelete, Verified, Window, Deletes, NoOrphans, RecentKept, Expired
  <2>7. Container'
    BY <2>1 DEF IInv, Step, same, database, rest, Flow, Flags, Container, AiDevComesBack,
         Window
  <2> QED
    BY <2>2, <2>3, <2>4, <2>5, <2>6, <2>7 DEF IInv
<1> QED
  BY <1>1, <1>2

\* From here on the run's backup is there.
LEMMA VerifyBackupKeeps ==
    ASSUME IInv, VerifyBackup
    PROVE  IInv'
<1>1. CASE Refuse("verify backup")
  BY <1>1, RefuseKeeps
<1>2. CASE ~Refuse("verify backup")
  <2>1. /\ Step("verify backup", "prune") /\ backups' = backups \cup {run}
        /\ UNCHANGED <<same, lastSuccess, saved, aidev, busy, database, cut, holds, torn, gone,
                        excused>>
    BY <1>2 DEF VerifyBackup
  <2>2. Counters' /\ Sets'
    <3>1. run \in 1..MaxRuns
      <4>1. pc # "none"
        BY <2>1 DEF Step
      <4>2. run \in 0..MaxRuns /\ run > 0
        BY <4>1 DEF IInv, Counters
      <4> QED
        BY <4>2, DbMaintenanceAssumption DEF DbMaintenanceAssumption
    <3>2. Counters'
      BY <2>1, <3>1 DEF IInv, Step, same, Counters
    <3>3. Sets'
      BY <2>1 DEF IInv, same, database, Sets
    <3> QED
      BY <3>2, <3>3
  <2>3. Flow'
    BY <2>1 DEF IInv, Step, same, database, rest, Flow, Steps, Window
  <2>4. Flags'
    BY <2>1 DEF IInv, Step, same, database, rest, Flags
  <2>5. Scheduled' /\ Gated'
    BY <2>1 DEF IInv, Step, same, database, rest, Flow, Flags, Scheduled, SchedulerAlive,
         Gated, GatedSchedule
  <2>6. Protected' /\ Deletes'
    BY <2>1 DEF IInv, Step, same, database, rest, Counters, Flow, Sets, Protected,
         BackupBeforeDelete, Verified, Window, Deletes, NoOrphans, RecentKept, Expired
  <2>7. Container'
    BY <2>1 DEF IInv, Step, same, database, rest, Flow, Flags, Container, AiDevComesBack,
         Window
  <2> QED
    BY <2>2, <2>3, <2>4, <2>5, <2>6, <2>7 DEF IInv
<1> QED
  BY <1>1, <1>2

LEMMA WaitForIdleKeeps ==
    ASSUME IInv, WaitForIdle
    PROVE  IInv'
<1>1. CASE Refuse("idle wait")
  BY <1>1, RefuseKeeps
<1>2. CASE ~Refuse("idle wait")
  <2>1. /\ aidev /\ Step("idle wait", "stop")
        /\ UNCHANGED <<same, lastSuccess, saved, aidev, busy, database, rest, excused>>
    BY <1>2 DEF WaitForIdle
  <2>2. Counters' /\ Sets'
    BY <2>1, DbMaintenanceAssumption DEF IInv, Step, same, database, rest,
         DbMaintenanceAssumption, Counters, Sets
  <2>3. Flow'
    BY <2>1 DEF IInv, Step, same, database, rest, Flow, Steps, Window
  <2>4. Flags'
    BY <2>1 DEF IInv, Step, same, database, rest, Flags
  <2>5. Scheduled' /\ Gated'
    BY <2>1 DEF IInv, Step, same, database, rest, Flow, Flags, Scheduled, SchedulerAlive,
         Gated, GatedSchedule
  <2>6. Protected' /\ Deletes'
    BY <2>1 DEF IInv, Step, same, database, rest, Counters, Flow, Sets, Protected,
         BackupBeforeDelete, Verified, Window, Deletes, NoOrphans, RecentKept, Expired
  <2>7. Container'
    BY <2>1 DEF IInv, Step, same, database, rest, Flow, Flags, Container, AiDevComesBack,
         Window
  <2> QED
    BY <2>2, <2>3, <2>4, <2>5, <2>6, <2>7 DEF IInv
<1> QED
  BY <1>1, <1>2

\* What the cutoff selects is old.
LEMMA ConfirmFrozenKeeps ==
    ASSUME IInv, ConfirmFrozen
    PROVE  IInv'
<1>1. Counters' /\ Sets'
  BY DbMaintenanceAssumption DEF IInv, ConfirmFrozen, Step, same, database,
       DbMaintenanceAssumption, Counters, Sets
<1>2. Flow'
  BY DEF IInv, ConfirmFrozen, Step, same, database, Flow, Steps, Window
<1>3. Flags'
  BY DEF IInv, ConfirmFrozen, Step, same, database, Flags
<1>4. Scheduled' /\ Gated'
  BY DEF IInv, ConfirmFrozen, Step, same, database, Flow, Flags, Scheduled, SchedulerAlive,
       Gated, GatedSchedule
<1>5. Protected' /\ Deletes'
  BY DEF IInv, ConfirmFrozen, Step, same, database, Counters, Flow, Sets, Protected,
       BackupBeforeDelete, Verified, Window, Deletes, NoOrphans, RecentKept, Expired
<1>6. Container'
  BY DEF IInv, ConfirmFrozen, Step, same, database, Flow, Flags, Container, AiDevComesBack,
       Window
<1> QED
  BY <1>1, <1>2, <1>3, <1>4, <1>5, <1>6 DEF IInv

LEMMA DeleteSequencesKeeps ==
    ASSUME IInv, DeleteSequences
    PROVE  IInv'
<1>1. Counters' /\ Sets'
  BY DbMaintenanceAssumption DEF IInv, DeleteSequences, GiveUp, Step, same, rest,
       DbMaintenanceAssumption, Counters, Sets
<1>2. Flow'
  BY DEF IInv, DeleteSequences, GiveUp, Step, same, rest, Flow, Steps, Window
<1>3. Flags'
  BY DEF IInv, DeleteSequences, GiveUp, Step, same, rest, Flags
<1>4. Scheduled' /\ Gated'
  BY DEF IInv, DeleteSequences, GiveUp, Step, same, rest, Flow, Flags, Scheduled,
       SchedulerAlive, Gated, GatedSchedule
<1>5. Protected' /\ Deletes'
  BY DEF IInv, DeleteSequences, GiveUp, Step, same, rest, Counters, Flow, Sets, Protected,
       BackupBeforeDelete, Verified, Window, Deletes, NoOrphans, RecentKept, Expired
<1>6. Container'
  BY DEF IInv, DeleteSequences, GiveUp, Step, same, rest, Flow, Flags, Container,
       AiDevComesBack, Window
<1> QED
  BY <1>1, <1>2, <1>3, <1>4, <1>5, <1>6 DEF IInv

\* What is deleted is expired: old, hence not touched, and without sequences.
LEMMA DeleteSessionsKeeps ==
    ASSUME IInv, DeleteSessions
    PROVE  IInv'
<1>1. Counters' /\ Sets'
  <2>1. pc = "sessions" /\ UNCHANGED <<same, seqs, touched, cut, backups, holds>>
    BY DEF DeleteSessions
  <2>2. Counters'
    BY <2>1 DEF IInv, Counters, same
  <2>3. /\ gone' \in {gone, gone \cup Expired}
        /\ present' \subseteq present /\ old' \subseteq old /\ flushed' \subseteq flushed
    BY DEF DeleteSessions
  <2>4. Sets'
    BY <2>1, <2>3 DEF IInv, Sets, Expired
  <2> QED
    BY <2>2, <2>4
<1>2. Flow'
  BY DEF IInv, DeleteSessions, GiveUp, Step, same, Flow, Steps, Window
<1>3. Flags'
  BY DEF IInv, DeleteSessions, GiveUp, Step, same, Flags
<1>4. Scheduled' /\ Gated'
  BY DEF IInv, DeleteSessions, GiveUp, Step, same, Flow, Flags, Scheduled, SchedulerAlive,
       Gated, GatedSchedule
<1>5. Protected' /\ Deletes'
  BY DEF IInv, DeleteSessions, GiveUp, Step, same, Counters, Flow, Sets, Protected,
       BackupBeforeDelete, Verified, Window, Deletes, NoOrphans, RecentKept, Expired
<1>6. Container'
  BY DEF IInv, DeleteSessions, GiveUp, Step, same, Flow, Flags, Container, AiDevComesBack,
       Window
<1> QED
  BY <1>1, <1>2, <1>3, <1>4, <1>5, <1>6 DEF IInv

LEMMA CheckOrVacuumKeeps ==
    ASSUME IInv, CheckOrVacuum
    PROVE  IInv'
<1>1. /\ pc \in {"floor", "headroom", "vacuum", "quick check"}
      /\ pc' \in {"checkpoint", "vacuum", "quick check", "start", "restart"}
  BY CheckOrVacuumEffect
<1>2. /\ UNCHANGED <<state, startInFlight, evaluating, armed>>
      /\ UNCHANGED <<same, lastSuccess, saved, aidev, busy, database, rest, excused>>
  BY CheckOrVacuumEffect
<1>3. Counters' /\ Sets'
  BY <1>1, <1>2 DEF IInv, same, database, rest, Counters, Sets
<1>4. Flow'
  BY <1>1, <1>2 DEF IInv, same, Flow, Steps, Window
<1>5. Flags'
  BY <1>2 DEF IInv, same, rest, Flags
<1>6. Scheduled'
  BY <1>1, <1>2 DEF IInv, same, Scheduled, SchedulerAlive
<1>7. Gated'
  BY <1>2 DEF IInv, same, Gated, GatedSchedule
<1>8. Protected' /\ Deletes'
  BY <1>1, <1>2 DEF IInv, same, database, rest, Protected, BackupBeforeDelete, Verified, Window,
     Deletes, NoOrphans, RecentKept
<1>9. Container'
  <2>1. pc \in Window /\ pc' \in Window \cup {"restart", "start"}
    BY <1>1 DEF Window
  <2>2. ~intruded' => ~aidev'
    BY <1>2, <2>1 DEF IInv, Container, same
  <2> QED
    BY <2>1, <2>2 DEF Container, AiDevComesBack
<1> QED
  BY <1>3, <1>4, <1>5, <1>6, <1>7, <1>8, <1>9 DEF IInv

LEMMA CheckpointKeeps ==
    ASSUME IInv, Checkpoint
    PROVE  IInv'
<1>1. Counters' /\ Sets'
  BY DbMaintenanceAssumption DEF IInv, Checkpoint, GiveUp, Step, same, rest,
       DbMaintenanceAssumption, Counters, Sets
<1>2. Flow'
  BY DEF IInv, Checkpoint, GiveUp, Step, same, rest, Flow, Steps, Window
<1>3. Flags'
  BY DEF IInv, Checkpoint, GiveUp, Step, same, rest, Flags
<1>4. Scheduled' /\ Gated'
  BY DEF IInv, Checkpoint, GiveUp, Step, same, rest, Flow, Flags, Scheduled, SchedulerAlive,
       Gated, GatedSchedule
<1>5. Protected' /\ Deletes'
  BY DEF IInv, Checkpoint, GiveUp, Step, same, rest, Counters, Flow, Sets, Protected,
       BackupBeforeDelete, Verified, Window, Deletes, NoOrphans, RecentKept, Expired
<1>6. Container'
  BY DEF IInv, Checkpoint, GiveUp, Step, same, rest, Flow, Flags, Container, AiDevComesBack,
       Window
<1> QED
  BY <1>1, <1>2, <1>3, <1>4, <1>5, <1>6 DEF IInv

\* The run's own backup is not prunable.
LEMMA PruneBackupsKeeps ==
    ASSUME IInv, PruneBackups
    PROVE  IInv'
<1>1. PICK expired \in SUBSET Prunable :
        /\ \/ pc = "prune" /\ Settle("failed")
           \/ Step("prune", "idle wait")
        /\ backups' = backups \ expired
        /\ UNCHANGED <<same, lastSuccess, saved, aidev, busy, database, cut, holds, torn, gone,
                       excused>>
  BY DEF PruneBackups
<1>2. CASE pc = "prune" /\ Settle("failed")
  <2>1. Settled
    BY <1>2, SettleEffect DEF IInv
  <2>2. Counters' /\ Sets'
    BY <1>1, <1>2, <2>1, DbMaintenanceAssumption DEF IInv, Settled, Prunable, same, database,
         DbMaintenanceAssumption, Counters, Sets
  <2>3. Flow'
    BY <1>1, <1>2, <2>1 DEF IInv, Settled, Prunable, same, database, Flow, Steps, Window
  <2>4. Flags'
    BY <1>1, <1>2, <2>1 DEF IInv, Settled, Prunable, same, database, Flags
  <2>5. Scheduled'
    BY <1>1, <1>2, <2>1 DEF IInv, Settled, Prunable, same, database, Flow, Flags, Scheduled,
         SchedulerAlive
  <2>6. Gated'
    BY <1>1, <1>2, <2>1 DEF IInv, Settled, Prunable, same, database, Flow, Flags, Scheduled,
         Gated, GatedSchedule
  <2>7. Protected' /\ Deletes'
    BY <1>1, <1>2, <2>1 DEF IInv, Settled, Prunable, same, database, Counters, Flow, Sets,
         Protected, BackupBeforeDelete, Verified, Window, Deletes, NoOrphans, RecentKept,
         Expired
  <2>8. Container'
    BY <1>1, <1>2, <2>1 DEF IInv, Settled, Prunable, same, database, Flow, Flags, Container,
         AiDevComesBack, Window
  <2> QED
    BY <2>2, <2>3, <2>4, <2>5, <2>6, <2>7, <2>8 DEF IInv
<1>3. CASE Step("prune", "idle wait")
  <2>1. Counters' /\ Sets'
    BY <1>1, <1>3, DbMaintenanceAssumption DEF IInv, Step, Prunable, same, database,
         DbMaintenanceAssumption, Counters, Sets
  <2>2. Flow'
    BY <1>1, <1>3 DEF IInv, Step, Prunable, same, database, Flow, Steps, Window
  <2>3. Flags'
    BY ZenonT(30), <1>1, <1>3 DEF IInv, Step, Prunable, same, database, Flags
  <2>4. Scheduled' /\ Gated'
    BY <1>1, <1>3 DEF IInv, Step, Prunable, same, database, Flow, Flags, Scheduled,
         SchedulerAlive, Gated, GatedSchedule
  <2>5. Protected' /\ Deletes'
    BY <1>1, <1>3 DEF IInv, Step, Prunable, same, database, Counters, Flow, Sets, Protected,
         BackupBeforeDelete, Verified, Window, Deletes, NoOrphans, RecentKept, Expired
  <2>6. Container'
    BY <1>1, <1>3 DEF IInv, Step, Prunable, same, database, Flow, Flags, Container,
         AiDevComesBack, Window
  <2> QED
    BY <2>1, <2>2, <2>3, <2>4, <2>5, <2>6 DEF IInv
<1> QED
  BY <1>1, <1>2, <1>3

LEMMA StopAiDevKeeps ==
    ASSUME IInv, StopAiDev
    PROVE  IInv'
<1>1. CASE StopFailed
  <2>1. Settled
    BY <1>1, SettleEffect DEF IInv, StopFailed
  <2>2. Counters' /\ Sets'
    BY <1>1, <2>1, DbMaintenanceAssumption DEF IInv, Settled, StopAiDev, same, database,
         rest, DbMaintenanceAssumption, Counters, Sets
  <2>3. Flow'
    BY <1>1, <2>1 DEF IInv, Settled, StopAiDev, same, database, rest, Flow, Steps, Window
  <2>4. Flags'
    BY <1>1, <2>1 DEF IInv, Settled, StopAiDev, same, database, rest, Flags
  <2>5. Scheduled'
    BY <1>1, <2>1 DEF IInv, Settled, StopAiDev, same, database, rest, Flow, Flags, Scheduled,
         SchedulerAlive
  <2>6. Gated'
    BY <1>1, <2>1 DEF IInv, Settled, StopAiDev, same, database, rest, Flow, Flags, Scheduled,
         Gated, GatedSchedule
  <2>7. Protected' /\ Deletes'
    BY <1>1, <2>1 DEF IInv, Settled, StopAiDev, same, database, rest, Counters, Flow, Sets,
         Protected, BackupBeforeDelete, Verified, Window, Deletes, NoOrphans, RecentKept,
         Expired
  <2>8. Container'
    <3>1. pc \notin Window \cup {"restart", "start"}
      BY DEF StopAiDev, Window
    <3>2. ~aidev => excused
      BY <3>1 DEF IInv, Container, AiDevComesBack
    <3>3. UNCHANGED <<aidev, busy, excused>> \/ excused' = TRUE
      BY <2>1 DEF StopAiDev, Step, Settled
    <3> QED
      BY <2>1, <3>2, <3>3, ContainerWithoutRun DEF Settled
  <2> QED
    BY <2>2, <2>3, <2>4, <2>5, <2>6, <2>7, <2>8 DEF IInv
<1>2. CASE Step("stop", "frozen") /\ aidev' = FALSE /\ busy' = FALSE /\ excused' = excused
  <2>1. Counters' /\ Sets'
    BY <1>2, DbMaintenanceAssumption DEF IInv, Step, StopAiDev, same, database, rest,
         DbMaintenanceAssumption, Counters, Sets
  <2>2. Flow'
    BY <1>2 DEF IInv, Step, StopAiDev, same, database, rest, Flow, Steps, Window
  <2>3. Flags'
    BY <1>2 DEF IInv, Step, StopAiDev, same, database, rest, Flags
  <2>4. Scheduled' /\ Gated'
    BY <1>2 DEF IInv, Step, StopAiDev, same, database, rest, Flow, Flags, Scheduled,
         SchedulerAlive, Gated, GatedSchedule
  <2>5. Protected' /\ Deletes'
    BY <1>2 DEF IInv, Step, StopAiDev, same, database, rest, Counters, Flow, Sets, Protected,
         BackupBeforeDelete, Verified, Window, Deletes, NoOrphans, RecentKept, Expired
  <2>6. Container'
    BY <1>2 DEF IInv, Step, StopAiDev, same, database, rest, Flow, Flags, Container,
         AiDevComesBack, Window
  <2> QED
    BY <2>1, <2>2, <2>3, <2>4, <2>5, <2>6 DEF IInv
<1> QED
  BY <1>1, <1>2 DEF StopAiDev

LEMMA RestartAiDevKeeps ==
    ASSUME IInv, RestartAiDev
    PROVE  IInv'
<1>1. CASE Settle("failed")
  <2>1. Settled
    BY <1>1, SettleEffect DEF IInv
  <2>2. Counters' /\ Sets'
    BY <1>1, <2>1, DbMaintenanceAssumption DEF IInv, Settled, RestartAiDev, Started, same,
         database, rest, DbMaintenanceAssumption, Counters, Sets
  <2>3. Flow'
    BY <1>1, <2>1 DEF IInv, Settled, RestartAiDev, Started, same, database, rest, Flow,
         Steps, Window
  <2>4. Flags'
    BY <1>1, <2>1 DEF IInv, Settled, RestartAiDev, Started, same, database, rest, Flags
  <2>5. Scheduled'
    BY <1>1, <2>1 DEF IInv, Settled, RestartAiDev, Started, same, database, rest, Flow,
         Flags, Scheduled, SchedulerAlive
  <2>6. Gated'
    BY <1>1, <2>1 DEF IInv, Settled, RestartAiDev, Started, same, database, rest, Flow,
         Flags, Scheduled, Gated, GatedSchedule
  <2>7. Protected' /\ Deletes'
    BY <1>1, <2>1 DEF IInv, Settled, RestartAiDev, Started, same, database, rest, Counters,
         Flow, Sets, Protected, BackupBeforeDelete, Verified, Window, Deletes, NoOrphans,
         RecentKept, Expired
  <2>8. Container'
    BY <1>1, <2>1 DEF IInv, Settled, RestartAiDev, Started, same, database, rest, Flow,
         Flags, Container, AiDevComesBack, Window
  <2> QED
    BY <2>2, <2>3, <2>4, <2>5, <2>6, <2>7, <2>8 DEF IInv
<1> QED
  BY <1>1 DEF RestartAiDev

LEMMA StartAiDevKeeps ==
    ASSUME IInv, StartAiDev
    PROVE  IInv'
<1>1. CASE pc = "start" /\ Settle("failed")
  <2>1. Settled
    BY <1>1, SettleEffect DEF IInv
  <2>2. Counters' /\ Sets'
    BY <1>1, <2>1, DbMaintenanceAssumption DEF IInv, Settled, StartAiDev, Started, same,
         database, rest, DbMaintenanceAssumption, Counters, Sets
  <2>3. Flow'
    BY <1>1, <2>1 DEF IInv, Settled, StartAiDev, Started, same, database, rest, Flow, Steps,
         Window
  <2>4. Flags'
    BY <1>1, <2>1 DEF IInv, Settled, StartAiDev, Started, same, database, rest, Flags
  <2>5. Scheduled'
    BY <1>1, <2>1 DEF IInv, Settled, StartAiDev, Started, same, database, rest, Flow, Flags,
         Scheduled, SchedulerAlive
  <2>6. Gated'
    BY <1>1, <2>1 DEF IInv, Settled, StartAiDev, Started, same, database, rest, Flow, Flags,
         Scheduled, Gated, GatedSchedule
  <2>7. Protected' /\ Deletes'
    BY <1>1, <2>1 DEF IInv, Settled, StartAiDev, Started, same, database, rest, Counters,
         Flow, Sets, Protected, BackupBeforeDelete, Verified, Window, Deletes, NoOrphans,
         RecentKept, Expired
  <2>8. Container'
    BY <1>1, <2>1 DEF IInv, Settled, StartAiDev, Started, same, database, rest, Flow, Flags,
         Container, AiDevComesBack, Window
  <2> QED
    BY <2>2, <2>3, <2>4, <2>5, <2>6, <2>7, <2>8 DEF IInv
<1>2. CASE aidev' /\ Step("start", "health")
  <2>1. Counters' /\ Sets'
    BY <1>2, DbMaintenanceAssumption DEF IInv, Step, StartAiDev, Started, same, database,
         rest, DbMaintenanceAssumption, Counters, Sets
  <2>2. Flow'
    BY <1>2 DEF IInv, Step, StartAiDev, Started, same, database, rest, Flow, Steps, Window
  <2>3. Flags'
    BY <1>2 DEF IInv, Step, StartAiDev, Started, same, database, rest, Flags
  <2>4. Scheduled' /\ Gated'
    BY <1>2 DEF IInv, Step, StartAiDev, Started, same, database, rest, Flow, Flags,
         Scheduled, SchedulerAlive, Gated, GatedSchedule
  <2>5. Protected' /\ Deletes'
    BY <1>2 DEF IInv, Step, StartAiDev, Started, same, database, rest, Counters, Flow, Sets,
         Protected, BackupBeforeDelete, Verified, Window, Deletes, NoOrphans, RecentKept,
         Expired
  <2>6. Container'
    BY <1>2 DEF IInv, Step, StartAiDev, Started, same, database, rest, Flow, Flags,
         Container, AiDevComesBack, Window
  <2> QED
    BY <2>1, <2>2, <2>3, <2>4, <2>5, <2>6 DEF IInv
<1> QED
  BY <1>1, <1>2 DEF StartAiDev

LEMMA HealthPollKeeps ==
    ASSUME IInv, HealthPoll
    PROVE  IInv'
<1>1. CASE Settle("failed") /\ UNCHANGED <<lastSuccess, saved, manualDone>>
  <2>1. Settled
    BY <1>1, SettleEffect DEF IInv
  <2>2. Counters' /\ Sets'
    BY <1>1, <2>1, DbMaintenanceAssumption DEF IInv, Settled, HealthPoll, database, rest,
         DbMaintenanceAssumption, Counters, Sets
  <2>3. Flow'
    BY <1>1, <2>1 DEF IInv, Settled, HealthPoll, database, rest, Flow, Steps, Window
  <2>4. Flags'
    BY <1>1, <2>1 DEF IInv, Settled, HealthPoll, database, rest, Flags
  <2>5. Scheduled'
    BY <1>1, <2>1 DEF IInv, Settled, HealthPoll, database, rest, Flow, Flags, Scheduled,
         SchedulerAlive
  <2>6. Gated'
    BY <1>1, <2>1 DEF IInv, Settled, HealthPoll, database, rest, Flow, Flags, Scheduled,
         Gated, GatedSchedule
  <2>7. Protected' /\ Deletes'
    BY <1>1, <2>1 DEF IInv, Settled, HealthPoll, database, rest, Counters, Flow, Sets,
         Protected, BackupBeforeDelete, Verified, Window, Deletes, NoOrphans, RecentKept,
         Expired
  <2>8. Container'
    BY <1>1, <2>1 DEF IInv, Settled, HealthPoll, database, rest, Flow, Flags, Container,
         AiDevComesBack, Window
  <2> QED
    BY <2>2, <2>3, <2>4, <2>5, <2>6, <2>7, <2>8 DEF IInv
<1>2. CASE /\ aidev /\ Settle("done") /\ saved' \in {saved, TRUE} /\ lastSuccess' = TRUE
          /\ manualDone' = (manualDone \/ caller = "route")
  <2>1. Settled
    BY <1>2, SettleEffect DEF IInv
  <2>2. Counters' /\ Sets'
    BY <1>2, <2>1, DbMaintenanceAssumption DEF IInv, Settled, HealthPoll, database, rest,
         DbMaintenanceAssumption, Counters, Sets
  <2>3. Flow'
    BY <1>2, <2>1 DEF IInv, Settled, HealthPoll, database, rest, Flow, Steps, Window
  <2>4. Flags'
    BY <1>2, <2>1 DEF IInv, Settled, HealthPoll, database, rest, Flags
  <2>5. Scheduled'
    BY <1>2, <2>1 DEF IInv, Settled, HealthPoll, database, rest, Flow, Flags, Scheduled,
         SchedulerAlive
  <2>6. Gated'
    BY <1>2, <2>1 DEF IInv, Settled, HealthPoll, database, rest, Flow, Flags, Scheduled,
         Gated, GatedSchedule
  <2>7. Protected' /\ Deletes'
    BY <1>2, <2>1 DEF IInv, Settled, HealthPoll, database, rest, Counters, Flow, Sets,
         Protected, BackupBeforeDelete, Verified, Window, Deletes, NoOrphans, RecentKept,
         Expired
  <2>8. Container'
    BY <1>2, <2>1 DEF IInv, Settled, HealthPoll, database, rest, Flow, Flags, Container,
         AiDevComesBack, Window
  <2> QED
    BY <2>2, <2>3, <2>4, <2>5, <2>6, <2>7, <2>8 DEF IInv
<1> QED
  BY <1>1, <1>2 DEF HealthPoll

LEMMA RescueDoneKeeps ==
    ASSUME IInv, RescueDone
    PROVE  IInv'
<1>1. Counters' /\ Sets'
  BY DbMaintenanceAssumption DEF IInv, RescueDone, Started, database, rest,
       DbMaintenanceAssumption, Counters, Sets
<1>2. Flow'
  BY DEF IInv, RescueDone, Started, database, rest, Flow, Steps, Window
<1>3. Flags'
  BY DEF IInv, RescueDone, Started, database, rest, Flags
<1>4. Scheduled' /\ Gated'
  BY DEF IInv, RescueDone, Started, database, rest, Flow, Flags, Scheduled, SchedulerAlive,
       Gated, GatedSchedule
<1>5. Protected' /\ Deletes'
  BY DEF IInv, RescueDone, Started, database, rest, Counters, Flow, Sets, Protected,
       BackupBeforeDelete, Verified, Window, Deletes, NoOrphans, RecentKept, Expired
<1>6. Container'
  BY DEF IInv, RescueDone, Started, database, rest, Flow, Flags, Container, AiDevComesBack,
       Window
<1> QED
  BY <1>1, <1>2, <1>3, <1>4, <1>5, <1>6 DEF IInv

LEMMA CrashKeeps ==
    ASSUME IInv, Crash
    PROVE  IInv'
<1>1. Counters' /\ Sets'
  BY DbMaintenanceAssumption DEF IInv, Crash, database, rest, DbMaintenanceAssumption,
       Counters, Sets
<1>2. Flow'
  BY DEF IInv, Crash, database, rest, Flow, Steps, Window
<1>3. Flags'
  BY DEF IInv, Crash, database, rest, Flags
<1>4. Scheduled'
  BY DEF IInv, Crash, database, rest, Flow, Flags, Scheduled, SchedulerAlive
<1>5. Gated'
  BY DEF IInv, Crash, database, rest, Flow, Flags, Scheduled, Gated, GatedSchedule
<1>6. Protected' /\ Deletes'
  BY DEF IInv, Crash, database, rest, Counters, Flow, Sets, Protected, BackupBeforeDelete,
       Verified, Window, Deletes, NoOrphans, RecentKept, Expired
<1>7. Container'
  BY DEF IInv, Crash, database, rest, Flow, Flags, Container, AiDevComesBack, Window
<1> QED
  BY <1>1, <1>2, <1>3, <1>4, <1>5, <1>6, <1>7 DEF IInv

LEMMA StutterKeeps ==
    ASSUME IInv, UNCHANGED vars
    PROVE  IInv'
<1>1. Counters' /\ Sets'
  BY DbMaintenanceAssumption DEF IInv, vars, DbMaintenanceAssumption, Counters, Sets
<1>2. Flow'
  BY DEF IInv, vars, Flow, Steps, Window
<1>3. Flags'
  BY DEF IInv, vars, Flags
<1>4. Scheduled' /\ Gated'
  BY DEF IInv, vars, Flow, Flags, Scheduled, SchedulerAlive, Gated, GatedSchedule
<1>5. Protected' /\ Deletes'
  BY DEF IInv, vars, Counters, Flow, Sets, Protected, BackupBeforeDelete, Verified, Window,
       Deletes, NoOrphans, RecentKept, Expired
<1>6. Container'
  BY DEF IInv, vars, Flow, Flags, Container, AiDevComesBack, Window
<1> QED
  BY <1>1, <1>2, <1>3, <1>4, <1>5, <1>6 DEF IInv

-----------------------------------------------------------------------------
LEMMA InitHolds == Init => IInv
<1> SUFFICES ASSUME Init PROVE IInv
  OBVIOUS
<1>1. Counters /\ Flow /\ Flags /\ Sets
  <2>1. Counters
    BY DbMaintenanceAssumption DEF Init, DbMaintenanceAssumption, Counters
  <2>2. Flow
    BY DEF Init, Flow, Steps, Policies
  <2>3. Flags
    BY DEF Init, Flags
  <2>4. Sets
    BY DEF Init, Sets
  <2> QED
    BY <2>1, <2>2, <2>3, <2>4
<1>2. Scheduled /\ Gated /\ Protected /\ Deletes /\ Container
  BY DEF Init, Scheduled, SchedulerAlive, Gated, GatedSchedule, Protected, BackupBeforeDelete,
     Verified, Window, Deletes, NoOrphans, RecentKept, Container, AiDevComesBack
<1> QED
  BY <1>1, <1>2 DEF IInv

LEMMA StepKeeps == IInv /\ [Next]_vars => IInv'
<1> SUFFICES ASSUME IInv, [Next]_vars PROVE IInv'
  OBVIOUS
<1>1. CASE RunStep
  BY <1>1, GuardsKeeps, CreateBackupKeeps, VerifyBackupKeeps, PruneBackupsKeeps,
     WaitForIdleKeeps, StopAiDevKeeps, ConfirmFrozenKeeps, DeleteSequencesKeeps,
     DeleteSessionsKeeps, CheckOrVacuumKeeps, CheckpointKeeps, RestartAiDevKeeps,
     StartAiDevKeeps, HealthPollKeeps DEF RunStep
<1>2. CASE \E s \in Sessions : Write(s) \/ Age(s)
  BY <1>2, WriteKeeps, AgeKeeps
<1>3. CASE \E p \in Policies : SavePolicy(p)
  BY <1>3, SavePolicyKeeps
<1>4. CASE TurnStarts \/ TurnEnds \/ AutoCheckpoint \/ OutsideStart
  BY <1>4, TurnStartsKeeps, TurnEndsKeeps, AutoCheckpointKeeps, OutsideStartKeeps
<1>5. CASE RouteRun \/ TimerFires \/ RescueDone \/ Crash \/ UNCHANGED vars
  BY <1>5, RouteRunKeeps, TimerFiresKeeps, RescueDoneKeeps, CrashKeeps, StutterKeeps
<1> QED
  BY <1>1, <1>2, <1>3, <1>4, <1>5 DEF Next

\* The inductive invariant holds throughout: of the run of lib/db-maintenance.ts, its callers
\* and the container around it.
THEOREM Invariance == Spec => []IInv
BY InitHolds, StepKeeps, PTL DEF Spec

\* The state of maintenance and of its surroundings keeps its types, and a run is in progress
\* exactly when the state says so.
THEOREM TypeCorrect == Spec => []TypeOK
<1>1. IInv => TypeOK
  BY DEF IInv, Counters, Flow, Flags, Sets, TypeOK
<1> QED
  BY <1>1, Invariance, PTL

\* Whatever fails, whatever is written meanwhile, what runMaintenance deletes is deleted
\* after its own verified backup.
THEOREM DeletesAfterBackup == Spec => []BackupBeforeDelete
<1>1. IInv => BackupBeforeDelete
  BY DEF IInv, Protected
<1> QED
  BY <1>1, Invariance, PTL

\* No sequence of events outlives its session, for what deleteEligible removes and what
\* ai-dev writes meanwhile.
THEOREM SequencesWithSessions == Spec => []NoOrphans
<1>1. IInv => NoOrphans
  BY DEF IInv, Deletes
<1> QED
  BY <1>1, Invariance, PTL

\* No session updated since the run began goes: deleteEligible asks the database again, and
\* never what an earlier count said.
THEOREM RecentSurvive == Spec => []RecentKept
<1>1. IInv => RecentKept
  BY DEF IInv, Deletes
<1> QED
  BY <1>1, Invariance, PTL

\* The window between stopping ai-dev and starting it belongs to the run, unless something
\* else starts ai-dev.
THEOREM WindowIsOurs == Spec => []SingleWriter
<1>1. IInv => SingleWriter
  BY DEF IInv, Container, SingleWriter
<1> QED
  BY <1>1, Invariance, PTL

\* Every path of runMaintenance that stops ai-dev gives it back.
THEOREM ContainerReturned == Spec => []AiDevComesBack
<1>1. IInv => AiDevComesBack
  BY DEF IInv, Container
<1> QED
  BY <1>1, Invariance, PTL

\* The scheduler of lib/maintenance-scheduler.ts never starts a run before a manual one has
\* succeeded.
THEOREM ScheduleGated == Spec => []GatedSchedule
<1>1. IInv => GatedSchedule
  BY DEF IInv, Gated
<1> QED
  BY <1>1, Invariance, PTL

\* The scheduler never falls silent: as long as it is on, its timer is armed or its run is
\* under way.
THEOREM SchedulerStays == Spec => []SchedulerAlive
<1>1. IInv => SchedulerAlive
  BY DEF IInv, Scheduled
<1> QED
  BY <1>1, Invariance, PTL
=============================================================================
