--------------------------- MODULE UpgradeProofs ---------------------------
(* Theorems about the upgrade pipeline, for every set of callers and log    *)
(* readers, every retention and every number of releases, runs and edits.   *)
EXTENDS Upgrade, FiniteSetTheorems, TLAPS

States == {"idle", "running", "completed", "failed"}
ReaderStates == {"none", "open", "closing", "stale"}

\* What the end of a step leaves in the variables it may write is well typed.
EndTyped ==
    /\ env' \in EnvFiles /\ compose' \in ComposeFiles /\ base' \in Pins
    /\ run' \in [Callers -> Runs]
    /\ state' \in States /\ inFlight' \in BOOLEAN
    /\ reader' \in [Readers -> ReaderStates]

LEMMA ConstantFacts ==
    /\ 0 \in Pins /\ 1 \in Pins /\ 0 \in ComposeFiles /\ 1 \in ComposeFiles
    /\ Stub \in ComposeFiles /\ Dir \in ComposeFiles
    /\ 1 \in Versions /\ Versions \subseteq Pins /\ Pins \subseteq ComposeFiles
    /\ 0 \in 0..MaxEdits
BY UpgradeAssumption DEF Pins, ComposeFiles, Versions, Stub, Dir

LEMMA IdleTyped == Idle \in Runs
BY ConstantFacts, UpgradeAssumption DEF Idle, Runs, PCs, EnvFiles, Snapshots, Deployments, Results, NoFile

LEMMA SettleTyped ==
    ASSUME TypeOK, NEW c \in Callers, NEW result \in Results, Settle(c, result)
    PROVE  run' \in [Callers -> Runs] /\ inFlight' \in BOOLEAN
<1>1. [Idle EXCEPT !.pin = run[c].pin, !.backup = run[c].backup,
                   !.before = run[c].before, !.result = result] \in Runs
    BY IdleTyped DEF TypeOK, Runs
<1> QED BY <1>1 DEF Settle, TypeOK

LEMMA ReportTyped ==
    ASSUME TypeOK, NEW c \in Callers, NEW step, NEW result \in Results,
           ReportFailure(c, step, result)
    PROVE  /\ run' \in [Callers -> Runs] /\ inFlight' \in BOOLEAN /\ state' \in States
           /\ reader' \in [Readers -> ReaderStates]
<1>1. CASE EmitThrows /\ Settle(c, "wedged") /\ UNCHANGED <<state, reader>>
    BY <1>1, SettleTyped DEF TypeOK, States, ReaderStates, Results
<1>2. CASE ~EmitThrows /\ state' = "failed" /\ Settle(c, result) /\ CloseReaders(step)
    BY <1>2, SettleTyped DEF TypeOK, States, ReaderStates, CloseReaders
<1> QED BY <1>1, <1>2 DEF ReportFailure

\* What a file may be restored to.
LEMMA RestoreTyped ==
    ASSUME TypeOK, NEW c \in Callers, NEW bad,
           NEW now \in [env : EnvFiles, compose : ComposeFiles, base : Pins],
           Restore(c, bad, now)
    PROVE  env' \in EnvFiles /\ compose' \in ComposeFiles /\ base' \in Pins
<1> DEFINE own == CHOOSE b \in Own(c) : TRUE
<1>1. ASSUME NEW f \in Restored(c, bad) PROVE own \in Backups
    BY <1>1 DEF Restored, Own, TypeOK
<1>2. own \in Backups => own.env \in EnvFiles /\ own.compose \in ComposeFiles /\ own.base \in Pins
    BY DEF Backups
<1> HIDE DEF own
<1> QED BY <1>1, <1>2 DEF Restore, own

LEMMA FailTyped ==
    ASSUME TypeOK, NEW c \in Callers, NEW step \in Steps \cup {"none"}, NEW invalid \in BOOLEAN,
           NEW now \in [env : EnvFiles, compose : ComposeFiles, base : Pins],
           Fail(c, step, invalid, now)
    PROVE  EndTyped
<1>1. CASE step \notin {"recreate", "poll_health"} \/ run[c].backup = 0
    <2>1. step \in Results BY DEF Results
    <2>2. ReportFailure(c, step, step) /\ env' = now.env /\ compose' = now.compose
          /\ base' = now.base
        BY <1>1 DEF Fail
    <2> QED BY <2>1, <2>2, ReportTyped DEF EndTyped
<1>2. CASE ~(step \notin {"recreate", "poll_health"} \/ run[c].backup = 0)
    <2>1. PICK bad \in SUBSET UNION {b.has : b \in Own(c)} :
            /\ Restore(c, bad, now)
            /\ \/ /\ invalid
                  /\ ReportFailure(c, step, IF Whole(bad, "base" \in Restored(c, bad))
                                            THEN "kept" ELSE "partial")
               \/ /\ ~invalid
                  /\ run' = [run EXCEPT ![c] = [@ EXCEPT
                        !.pc = "rollback",
                        !.useBase = "base" \in Restored(c, bad) /\ base' > 0,
                        !.whole = Whole(bad, "base" \in Restored(c, bad))]]
                  /\ UNCHANGED <<state, inFlight, reader>>
        BY <1>2 DEF Fail
    <2>2. env' \in EnvFiles /\ compose' \in ComposeFiles /\ base' \in Pins
        BY <2>1, RestoreTyped
    <2>3. CASE invalid
        BY <2>1, <2>2, <2>3, ReportTyped DEF EndTyped, Results
    <2>4. CASE ~invalid
        <3>1. Whole(bad, "base" \in Restored(c, bad)) \in BOOLEAN BY DEF Whole
        <3>2. ("base" \in Restored(c, bad) /\ base' > 0) \in BOOLEAN OBVIOUS
        <3>3. run' \in [Callers -> Runs]
            <4>1. \A u, w \in BOOLEAN :
                    [run[c] EXCEPT !.pc = "rollback", !.useBase = u, !.whole = w] \in Runs
                BY ZenonT(30) DEF TypeOK, Runs, PCs
            <4>2. [run[c] EXCEPT !.pc = "rollback",
                        !.useBase = "base" \in Restored(c, bad) /\ base' > 0,
                        !.whole = Whole(bad, "base" \in Restored(c, bad))] \in Runs
                BY <3>1, <3>2, <4>1
            <4> QED BY <2>1, <2>4, <4>2 DEF TypeOK
        <3> QED BY <2>1, <2>2, <2>4, <3>3 DEF EndTyped, TypeOK, States, ReaderStates
    <2> QED BY <2>3, <2>4
<1> QED BY <1>1, <1>2

-----------------------------------------------------------------------------
(* Type correctness, one lemma per kind of action. *)
LEMMA BeginTyped ==
    ASSUME TypeOK, NEW S, NEW pc \in PCs, Begin(S, pc)
    PROVE  run' \in [Callers -> Runs]
<1>1. [Idle EXCEPT !.pc = pc] \in Runs BY IdleTyped DEF Runs
<1> QED BY <1>1, IdleTyped DEF Begin, TypeOK

LEMMA EnterTyped ==
    ASSUME TypeOK, NEW c \in Callers, EnterPipeline(c), compose' \in ComposeFiles
    PROVE  TypeOK'
<1>0. UNCHANGED <<world, env, pulled, base, deployed, backups, reader, stamp, runs, met>>
    BY DEF EnterPipeline
<1> SUFFICES /\ run' \in [Callers -> Runs] /\ inFlight' \in BOOLEAN /\ state' \in States
             /\ lastRunning' \in Steps \cup {"none"}
    BY <1>0 DEF TypeOK, world, States
<1>2. CASE devBuild /\ Settle(c, "refused") /\ UNCHANGED <<state, lastRunning>>
    BY <1>2, SettleTyped DEF TypeOK, Results, States
<1>3. CASE lastRunning' = "none" /\ state' = "failed" /\ Settle(c, "refused")
    BY <1>3, SettleTyped DEF Results, States
<1>4. CASE lastRunning' = "digest_compare" /\ state' = "running" /\ Settle(c, "wedged")
    BY <1>4, SettleTyped DEF Results, States, Steps
<1>5. CASE /\ lastRunning' = "digest_compare" /\ state' = "running"
           /\ run' = [run EXCEPT ![c] = [Idle EXCEPT !.pc = "pull", !.pin = env.pin,
                        !.before = [edit |-> env.edit, compose |-> compose', base |-> base,
                                    deployed |-> deployed]]]
           /\ UNCHANGED inFlight
    <2>1. [edit |-> env.edit, compose |-> compose', base |-> base, deployed |-> deployed]
            \in Snapshots
        BY DEF TypeOK, Snapshots, EnvFiles
    <2>2. env.pin \in Pins BY DEF EnvFiles, TypeOK
    <2>3. [Idle EXCEPT !.pc = "pull", !.pin = env.pin,
                        !.before = [edit |-> env.edit, compose |-> compose', base |-> base,
                                    deployed |-> deployed]] \in Runs
        BY <2>1, <2>2, IdleTyped DEF Runs, PCs
    <2> QED BY <1>5, <2>3 DEF TypeOK, States, Steps
<1> QED BY <1>2, <1>3, <1>4, <1>5 DEF EnterPipeline

LEMMA StartTyped ==
    ASSUME TypeOK, NEW S \in SUBSET Callers, RunUpgrade(S), env' \in EnvFiles
    PROVE  TypeOK'
<1>0. Cardinality(S) \in Nat
    BY UpgradeAssumption, FS_Subset, FS_CardinalityType
<1>1. /\ runs' \in 0..MaxRuns
      /\ UNCHANGED <<world, pulled, base, deployed, state, lastRunning, backups, reader, stamp>>
    BY <1>0, UpgradeAssumption DEF RunUpgrade, TypeOK
<1>2. inFlight' \in BOOLEAN /\ met' \in BOOLEAN BY DEF RunUpgrade
<1>3. compose' \in ComposeFiles BY ConstantFacts DEF RunUpgrade, TypeOK, NoFile
<1>4. run' \in [Callers -> Runs] BY BeginTyped DEF RunUpgrade, PCs
<1> QED BY <1>1, <1>2, <1>3, <1>4 DEF TypeOK, world

LEMMA FileFacts ==
    ASSUME TypeOK, NEW c \in Callers
    PROVE  /\ Now \in [env : EnvFiles, compose : ComposeFiles, base : Pins]
           /\ lastRunning \in Steps \cup {"none"}
           /\ Merged(c) \in EnvFiles
           /\ run[c].fetched \in Pins
           /\ Upstream(run[c].snap.pin) \in Versions
           /\ \A useBase \in BOOLEAN : Recreated(useBase) \in Deployments
           /\ Down \in Deployments
<1>1. run[c] \in Runs BY DEF TypeOK
<1>2. run[c].snap \in EnvFiles /\ run[c].fetched \in Pins BY <1>1 DEF Runs
<1>3. \A pin \in Pins : Upstream(pin) \in Versions
    BY DEF TypeOK, Upstream, Pins, Versions
<1>4. Upstream(run[c].snap.pin) \in Versions BY <1>2, <1>3 DEF EnvFiles
<1>5. Merged(c) \in EnvFiles
    BY <1>2, <1>4 DEF Merged, EnvFiles
<1>6. \A useBase \in BOOLEAN : Recreated(useBase) \in Deployments
    BY ConstantFacts DEF Recreated, Effective, Image, Deployments, TypeOK, EnvFiles
<1>7. Down \in Deployments BY ConstantFacts DEF Down, Deployments, NoFile
<1> QED BY <1>2, <1>4, <1>5, <1>6, <1>7 DEF Now, TypeOK

\* The end of a step in which the files, the announced step and the outcome change.
LEMMA EndedTyped ==
    ASSUME TypeOK, EndTyped, UNCHANGED <<world, runs, met>>,
           pulled' \in Versions, deployed' \in Deployments,
           backups' \subseteq Backups, stamp' \in Nat, lastRunning' \in Steps \cup {"none"}
    PROVE  TypeOK'
BY DEF EndTyped, TypeOK, world, States, ReaderStates

LEMMA GoTyped ==
    ASSUME TypeOK, NEW c \in Callers, NEW pc \in PCs, NEW step \in Steps, Go(c, pc, step),
           UNCHANGED files
    PROVE  EndTyped /\ lastRunning' \in Steps
<1>1. [run[c] EXCEPT !.pc = pc] \in Runs BY DEF TypeOK, Runs
<1> QED BY <1>1 DEF Go, EndTyped, TypeOK, files, States, ReaderStates

LEMMA PullTyped ==
    ASSUME TypeOK, NEW c \in Callers, Pull(c)
    PROVE  TypeOK'
<1>1. UNCHANGED <<world, runs, met, deployed>> BY DEF Pull, Still
<1>2. pulled' \in Versions /\ deployed' \in Deployments
    BY DEF Pull, TypeOK
<1>3. CASE UNCHANGED <<lastRunning, backups, stamp>> /\ Fail(c, lastRunning, FALSE, Now)
    <2>1. EndTyped BY <1>3, FileFacts, FailTyped
    <2>2. backups' \subseteq Backups /\ stamp' \in Nat /\ lastRunning' \in Steps \cup {"none"}
        BY <1>3 DEF TypeOK
    <2> QED BY <1>1, <1>2, <2>1, <2>2, EndedTyped
<1>4. CASE /\ stamp' = stamp + 1 /\ lastRunning' = "backup"
           /\ \E has \in {h \in SUBSET Saved : h # {} => "env" \in h} :
                /\ backups' = backups \cup {[id |-> stamp + 1, has |-> has, env |-> env,
                                             compose |-> compose, base |-> base]}
                /\ \/ /\ Backed(has)
                      /\ run' = [run EXCEPT ![c] = [@ EXCEPT !.pc = "snapshot",
                                                             !.backup = stamp + 1]]
                      /\ UNCHANGED <<files, state, inFlight, reader>>
                   \/ Fail(c, "backup", FALSE, Now)
    <2>1. PICK has \in SUBSET Saved :
                /\ backups' = backups \cup {[id |-> stamp + 1, has |-> has, env |-> env,
                                             compose |-> compose, base |-> base]}
                /\ \/ /\ Backed(has)
                      /\ run' = [run EXCEPT ![c] = [@ EXCEPT !.pc = "snapshot",
                                                             !.backup = stamp + 1]]
                      /\ UNCHANGED <<files, state, inFlight, reader>>
                   \/ Fail(c, "backup", FALSE, Now)
        BY <1>4
    <2>2. has \in SUBSET Files BY DEF Saved
    <2>3. stamp + 1 \in Nat BY DEF TypeOK
    <2>4. backups' \subseteq Backups BY <2>1, <2>2, <2>3 DEF TypeOK, Backups
    <2>5. CASE /\ run' = [run EXCEPT ![c] = [@ EXCEPT !.pc = "snapshot", !.backup = stamp + 1]]
               /\ UNCHANGED <<files, state, inFlight, reader>>
        <3>1. [run[c] EXCEPT !.pc = "snapshot", !.backup = stamp + 1] \in Runs
            BY ZenonT(30), <2>3 DEF TypeOK, Runs, PCs
        <3>2. EndTyped BY <2>5, <3>1 DEF EndTyped, TypeOK, files, States, ReaderStates
        <3> QED BY <1>1, <1>2, <1>4, <2>3, <2>4, <3>2, EndedTyped DEF Steps
    <2>6. CASE Fail(c, "backup", FALSE, Now)
        <3>1. EndTyped BY <2>6, FileFacts, FailTyped DEF Steps
        <3> QED BY <1>1, <1>2, <1>4, <2>3, <2>4, <3>1, EndedTyped DEF Steps
    <2> QED BY <2>1, <2>5, <2>6
<1> QED BY <1>3, <1>4 DEF Pull

LEMMA StepTyped ==
    ASSUME TypeOK, NEW c \in Callers, Step(c)
    PROVE  TypeOK'
<1> USE FileFacts
<1>0. run[c] \in Runs BY DEF TypeOK
<1>e. CASE Enter(c)
    BY <1>e, EnterTyped DEF Enter, TypeOK
<1>1. CASE Preflight(c)
    <2>1. compose' \in ComposeFiles BY <1>1, ConstantFacts DEF Preflight, TypeOK
    <2>2. CASE EnterPipeline(c) BY <2>1, <2>2, EnterTyped
    <2>3. CASE /\ Settle(c, "refused")
               /\ UNCHANGED <<world, env, pulled, base, deployed, state, lastRunning, backups,
                              reader, stamp, runs, met>>
        BY <2>1, <2>3, SettleTyped DEF TypeOK, world, Results
    <2> QED BY <1>1, <2>2, <2>3 DEF Preflight
<1>2. CASE Pull(c)
    BY <1>2, PullTyped
<1>3. CASE Snapshot(c)
    <2>1. UNCHANGED <<world, runs, met, pulled, deployed, backups, stamp>>
        BY <1>3 DEF Snapshot, Still
    <2>2. EndTyped /\ lastRunning' \in Steps \cup {"none"}
        <3>1. CASE Fail(c, lastRunning, FALSE, Now) /\ UNCHANGED lastRunning
            BY <3>1, FailTyped
        <3>2. CASE /\ lastRunning' = "merge_env"
                   /\ run' = [run EXCEPT ![c] = [@ EXCEPT !.pc = "merge", !.snap = env]]
                   /\ UNCHANGED <<files, state, inFlight, reader>>
            <4>1. [run[c] EXCEPT !.pc = "merge", !.snap = env] \in Runs
                BY <1>0 DEF TypeOK, Runs, PCs
            <4> QED BY <3>2, <4>1 DEF EndTyped, TypeOK, files, States, ReaderStates, Steps
        <3> QED BY <1>3, <3>1, <3>2 DEF Snapshot
    <2> QED BY <2>1, <2>2, EndedTyped DEF TypeOK
<1>4. CASE Merge(c)
    <2>1. UNCHANGED <<world, runs, met, pulled, deployed, backups, stamp>>
        BY <1>4 DEF Merge, Still
    <2>2. EndTyped /\ lastRunning' \in Steps \cup {"none"}
        <3>1. CASE /\ UNCHANGED lastRunning
                   /\ \E e \in {env, Merged(c)} :
                        Fail(c, lastRunning, FALSE, [Now EXCEPT !.env = e])
            <4>1. PICK e \in {env, Merged(c)} :
                        Fail(c, lastRunning, FALSE, [Now EXCEPT !.env = e])
                BY <3>1
            <4>2. e \in EnvFiles BY DEF TypeOK
            <4>3. [Now EXCEPT !.env = e] \in [env : EnvFiles, compose : ComposeFiles, base : Pins]
                BY <4>2
            <4> QED BY <3>1, <4>1, <4>3, FailTyped
        <3>2. CASE /\ env' \in {env, Merged(c)}
                   /\ lastRunning' = "recreate"
                   /\ run' = [run EXCEPT ![c] = [@ EXCEPT !.pc = "fetch", !.snap = env']]
                   /\ UNCHANGED <<compose, base, state, inFlight, reader>>
            <4>1. env' \in EnvFiles BY <3>2 DEF TypeOK
            <4>2. [run[c] EXCEPT !.pc = "fetch", !.snap = env'] \in Runs
                BY <1>0, <4>1 DEF Runs, PCs
            <4> QED BY <3>2, <4>1, <4>2 DEF EndTyped, TypeOK, States, ReaderStates, Steps
        <3> QED BY <1>4, <3>1, <3>2 DEF Merge
    <2> QED BY <2>1, <2>2, EndedTyped DEF TypeOK
<1>5. CASE Fetch(c)
    <2>1. UNCHANGED <<world, runs, met, pulled, deployed, backups, stamp, lastRunning>>
        BY <1>5 DEF Fetch, Still
    <2>2. EndTyped
        <3> DEFINE new == Upstream(run[c].snap.pin)
        <3>1. CASE Fail(c, lastRunning, FALSE, Now)
            BY <3>1, FailTyped
        <3>2. CASE /\ run' = [run EXCEPT ![c] = [@ EXCEPT
                            !.pc = IF overlay = "valid" THEN "validate" ELSE "up",
                            !.fetched = new]]
                   /\ compose' = IF overlay = "valid" THEN compose ELSE new
                   /\ UNCHANGED <<env, base, state, inFlight, reader>>
            <4>1. new \in Pins /\ new \in ComposeFiles BY ConstantFacts
            <4> HIDE DEF new
            <4>2. [run[c] EXCEPT !.pc = IF overlay = "valid" THEN "validate" ELSE "up",
                                 !.fetched = new] \in Runs
                BY <1>0, <4>1 DEF Runs, PCs
            <4> QED BY <3>2, <4>1, <4>2 DEF EndTyped, TypeOK, States, ReaderStates
        <3> QED BY <1>5, <3>1, <3>2 DEF Fetch
    <2> QED BY <2>1, <2>2, EndedTyped DEF TypeOK
<1>6. CASE Validate(c)
    <2>1. UNCHANGED <<world, runs, met, pulled, deployed, backups, stamp, lastRunning>>
        BY <1>6 DEF Validate, Still
    <2>2. EndTyped
        <3>1. CASE \E b \in {base, run[c].fetched} :
                        Fail(c, lastRunning, FALSE, [Now EXCEPT !.base = b])
            <4>1. PICK b \in {base, run[c].fetched} :
                        Fail(c, lastRunning, FALSE, [Now EXCEPT !.base = b])
                BY <3>1
            <4>2. b \in Pins BY DEF TypeOK
            <4>3. [Now EXCEPT !.base = b] \in [env : EnvFiles, compose : ComposeFiles, base : Pins]
                BY <4>2
            <4> QED BY <4>1, <4>3, FailTyped
        <3>2. CASE Fail(c, lastRunning, TRUE, Now)
            BY <3>2, FailTyped
        <3>3. CASE /\ base' = run[c].fetched
                   /\ run' = [run EXCEPT ![c].pc = "up"]
                   /\ UNCHANGED <<env, compose, state, inFlight, reader>>
            <4>1. [run[c] EXCEPT !.pc = "up"] \in Runs BY <1>0 DEF Runs, PCs
            <4> QED BY <3>3, <4>1 DEF EndTyped, TypeOK, States, ReaderStates
        <3> QED BY <1>6, <3>1, <3>2, <3>3 DEF Validate
    <2> QED BY <2>1, <2>2, EndedTyped DEF TypeOK
<1>7. CASE Up(c)
    <2>1. UNCHANGED <<world, runs, met, pulled, backups, stamp>> /\ deployed' \in Deployments
        BY <1>7 DEF Up, Still, TypeOK
    <2>2. EndTyped /\ lastRunning' \in Steps \cup {"none"}
        <3>1. CASE Fail(c, lastRunning, FALSE, Now) /\ UNCHANGED lastRunning
            BY <3>1, FailTyped
        <3>2. CASE Go(c, "health", "poll_health") /\ UNCHANGED files
            BY <3>2, GoTyped DEF PCs, Steps
        <3> QED BY <1>7, <3>1, <3>2 DEF Up
    <2> QED BY <2>1, <2>2, EndedTyped DEF TypeOK
<1>8. CASE Health(c)
    <2>1. UNCHANGED <<world, runs, met, pulled, deployed, backups, stamp>>
        BY <1>8 DEF Health, Still
    <2>2. EndTyped /\ lastRunning' \in Steps \cup {"none"}
        <3>1. CASE Fail(c, lastRunning, FALSE, Now) /\ UNCHANGED lastRunning
            BY <3>1, FailTyped
        <3>2. CASE Go(c, "reconcile", "reconcile") /\ UNCHANGED files
            BY <3>2, GoTyped DEF PCs, Steps
        <3> QED BY <1>8, <3>1, <3>2 DEF Health
    <2> QED BY <2>1, <2>2, EndedTyped DEF TypeOK
<1>9. CASE Reconcile(c)
    <2>1. UNCHANGED <<world, runs, met, pulled, deployed, backups, stamp>>
        BY <1>9 DEF Reconcile, Still
    <2>2. EndTyped /\ lastRunning' \in Steps \cup {"none"}
        <3>1. CASE Fail(c, lastRunning, FALSE, Now) /\ UNCHANGED lastRunning
            BY <3>1, FailTyped
        <3>2. CASE Go(c, "prune", "cleanup") /\ UNCHANGED files
            BY <3>2, GoTyped DEF PCs, Steps
        <3> QED BY <1>9, <3>1, <3>2 DEF Reconcile
    <2> QED BY <2>1, <2>2, EndedTyped DEF TypeOK
<1>10. CASE Prune(c)
    <2>1. UNCHANGED <<world, runs, met, pulled, deployed, stamp, lastRunning>>
        BY <1>10 DEF Prune, Still
    <2>2. backups' \subseteq Backups BY <1>10 DEF Prune, Pruned, TypeOK
    <2>3. EndTyped
        <3>1. CASE Fail(c, lastRunning, FALSE, Now)
            BY <3>1, FailTyped
        <3>2. CASE /\ state' = "completed" /\ Settle(c, "ok") /\ CloseReaders("cleanup")
                   /\ UNCHANGED files
            BY <3>2, SettleTyped
               DEF EndTyped, TypeOK, files, States, ReaderStates, Results, CloseReaders
        <3> QED BY <1>10, <3>1, <3>2 DEF Prune
    <2> QED BY <2>1, <2>2, <2>3, EndedTyped DEF TypeOK
<1>11. CASE Rollback(c)
    <2>1. UNCHANGED <<world, runs, met, files, pulled, backups, stamp, lastRunning>>
        BY <1>11 DEF Rollback, Still
    <2>2. deployed' \in Deployments BY <1>0, <1>11 DEF Rollback, TypeOK, Runs
    <2>3. \E result \in Results : ReportFailure(c, "recreate", result)
        BY <1>11 DEF Rollback, Results
    <2>4. EndTyped BY <2>1, <2>3, ReportTyped DEF EndTyped, files, TypeOK
    <2> QED BY <2>1, <2>2, <2>4, EndedTyped DEF TypeOK
<1> QED BY <1>e, <1>1, <1>2, <1>3, <1>4, <1>5, <1>6, <1>7, <1>8, <1>9, <1>10, <1>11 DEF Step

LEMMA InitTyped == Init => TypeOK
<1> SUFFICES ASSUME Init PROVE TypeOK OBVIOUS
<1>1. compose \in ComposeFiles
    BY UpgradeAssumption, ConstantFacts DEF Init
<1>2. run \in [Callers -> Runs] BY IdleTyped DEF Init
<1>3. [pin |-> 0, edit |-> 0, keys |-> 1] \in EnvFiles BY ConstantFacts DEF EnvFiles
<1>4. [image |-> 1, conf |-> 1, keys |-> 1] \in Deployments BY ConstantFacts DEF Deployments
<1>5. base \in Pins BY ConstantFacts DEF Init, NoFile
<1>6. runs \in 0..MaxRuns /\ stamp \in Nat /\ backups \subseteq Backups
    BY UpgradeAssumption DEF Init
<1>7. reader \in [Readers -> {"none", "open", "closing", "stale"}]
    BY DEF Init
<1>8. env \in EnvFiles /\ deployed \in Deployments /\ upstream \in Versions /\ pulled \in Versions
    BY <1>3, <1>4, ConstantFacts DEF Init
<1>9. /\ overlay \in {"none", "valid", "broken"} /\ devBuild \in BOOLEAN
      /\ state \in {"idle", "running", "completed", "failed"}
      /\ lastRunning \in Steps \cup {"none"} /\ inFlight \in BOOLEAN /\ met \in BOOLEAN
    BY DEF Init
<1> QED BY <1>1, <1>2, <1>5, <1>6, <1>7, <1>8, <1>9 DEF TypeOK

LEMMA NextTyped == TypeOK /\ [Next]_vars => TypeOK'
<1> SUFFICES ASSUME TypeOK, [Next]_vars PROVE TypeOK' OBVIOUS
<1>1. ASSUME NEW c \in Callers, Step(c) PROVE TypeOK'
    BY <1>1, StepTyped
<1>2. ASSUME NEW S \in SUBSET AgentCallers, AgentStart(S) PROVE TypeOK'
    <2>1. env' \in EnvFiles BY <1>2 DEF AgentStart, TypeOK
    <2> QED BY <1>2, <2>1, StartTyped DEF AgentStart, Callers
<1>3. ASSUME NEW c \in RouteCallers, NEW pin \in Pins, RouteStart(c, pin) PROVE TypeOK'
    <2>1. env' \in EnvFiles BY <1>3 DEF RouteStart, TypeOK, EnvFiles
    <2>2. {c} \in SUBSET Callers BY DEF Callers
    <2> QED BY <1>3, <2>1, <2>2, StartTyped DEF RouteStart
<1>4. ASSUME NEW r \in Readers, OpenLog(r) \/ AbortLog(r) \/ CloseLog(r) PROVE TypeOK'
    BY <1>4 DEF OpenLog, AbortLog, CloseLog, SetReader, TypeOK, world, files
<1>5. CASE EditEnv
    <2>1. env' \in EnvFiles BY <1>5, UpgradeAssumption DEF EditEnv, TypeOK, EnvFiles
    <2> QED BY <1>5, <2>1 DEF EditEnv, TypeOK, world
<1>6. CASE Publish
    BY <1>6, UpgradeAssumption DEF Publish, TypeOK, Versions, files
<1>7. CASE UNCHANGED vars
    BY <1>7 DEF vars, TypeOK
<1> QED BY <1>1, <1>2, <1>3, <1>4, <1>5, <1>6, <1>7 DEF Next

\* In every behaviour the sidecar's state, its files and every invocation's locals are
\* well typed, whatever compose.yml was at the start.
THEOREM TypeCorrect == Spec => []TypeOK
BY InitTyped, NextTyped, PTL DEF Spec

-----------------------------------------------------------------------------
(***************************************************************************)
(* One pipeline at a time, and its backup.  What the route starts is alone   *)
(* among what the route starts, whatever else happens, since the flag       *)
(* stands until the invocation settles (RouteInv).  Everything else holds   *)
(* until two calls meet between the running check and the assignment of     *)
(* the state.  As long as none have, OnePipeline is inductive with the      *)
(* facts that a pipeline keeps state at "running" and that no other caller  *)
(* is anywhere in runUpgrade; BackupCoversRun needs that nobody else        *)
(* prunes, and that the catch block reads from eventLog the step the run    *)
(* is really in.                                                            *)
(***************************************************************************)
\* Whatever the route has started is flagged, and alone among the route's.
RouteInv ==
    /\ \A c \in RouteCallers : run[c].pc # "idle" => inFlight
    /\ \A c, d \in RouteCallers : run[c].pc # "idle" /\ run[d].pc # "idle" => c = d

SoleCaller ==
    \A c, d \in Callers : run[c].pc # "idle" /\ run[d].pc # "idle" => c = d

PipelineRuns == \A c \in Callers : InPipeline(c) => state = "running"

Announced == [pull |-> {"digest_compare"}, snapshot |-> {"backup"}, merge |-> {"merge_env"},
              fetch |-> {"recreate"}, validate |-> {"recreate"}, up |-> {"recreate"},
              health |-> {"poll_health"}, reconcile |-> {"reconcile"}, prune |-> {"cleanup"},
              rollback |-> {"recreate", "poll_health"}]
StepAnnounced == \A c \in Callers : InPipeline(c) => lastRunning \in Announced[run[c].pc]

BeforeHeld ==
    \A c \in Callers : run[c].pc = "pull" => /\ compose = run[c].before.compose
                                             /\ base = run[c].before.base

IInv == /\ TypeOK /\ ~met /\ SoleCaller /\ PipelineRuns /\ StepAnnounced
        /\ BeforeHeld /\ BackupCoversRun

\* The invocation's own part of IInv, after a step of it.
Covered(c) ==
    \E b \in Own(c) :
        /\ "env" \in b.has
        /\ "compose" \in b.has => b.compose = run[c].before.compose
        /\ "base" \in b.has => b.base = run[c].before.base
OwnPart(c) ==
    InPipeline(c) =>
        /\ state = "running"
        /\ lastRunning \in Announced[run[c].pc]
        /\ run[c].pc = "pull" => /\ compose = run[c].before.compose
                                 /\ base = run[c].before.base
        /\ run[c].pc # "pull" => Covered(c)

\* Under the invariant a pipeline is alone, and every other caller idle.
LEMMA Alone ==
    ASSUME IInv, NEW c \in Callers, InPipeline(c)
    PROVE  /\ state = "running" /\ OwnPart(c)
           /\ \A d \in Callers \ {c} : run[d].pc = "idle"
<1>1. \A d \in Callers \ {c} : run[d].pc = "idle"
    BY DEF IInv, SoleCaller, InPipeline
<1>2. state = "running" /\ lastRunning \in Announced[run[c].pc]
    BY DEF IInv, PipelineRuns, StepAnnounced
<1>3. run[c].pc # "pull" => Covered(c)
    <2>1. run[c].pc \in PCs BY DEF IInv, TypeOK, Runs
    <2> QED BY <2>1 DEF IInv, BackupCoversRun, Covered, InPipeline
<1> QED BY <1>1, <1>2, <1>3 DEF OwnPart, IInv, BeforeHeld

\* When a step leaves every caller but c idle, IInv' is c's own part of it.
LEMMA Focus ==
    ASSUME TypeOK', ~met', NEW c \in Callers, OwnPart(c)',
           \A d \in Callers \ {c} : run'[d].pc = "idle"
    PROVE  IInv'
<1>2. PipelineRuns' /\ StepAnnounced' BY DEF PipelineRuns, StepAnnounced, InPipeline, OwnPart
<1>3. BeforeHeld'
    <2> SUFFICES ASSUME NEW d \in Callers, run'[d].pc = "pull"
                 PROVE  compose' = run'[d].before.compose /\ base' = run'[d].before.base
        BY DEF BeforeHeld
    <2> QED BY DEF OwnPart, InPipeline
<1>4. SoleCaller' BY DEF SoleCaller
<1>5. BackupCoversRun'
    <2> SUFFICES ASSUME NEW d \in Callers,
                        InPipeline(d)', run'[d].pc # "pull"
                 PROVE  Covered(d)'
        BY DEF BackupCoversRun, Covered
    <2> QED BY DEF OwnPart, InPipeline
<1> QED BY <1>2, <1>3, <1>4, <1>5 DEF IInv

\* How an invocation ends.
LEMMA SettleEffect ==
    ASSUME TypeOK, NEW c \in Callers, NEW result, Settle(c, result)
    PROVE  /\ run'[c].pc = "idle" /\ run'[c].result = result
           /\ run'[c].before = run[c].before /\ run'[c].backup = run[c].backup
           /\ \A d \in Callers \ {c} : run'[d] = run[d]
<1> DEFINE r == [Idle EXCEPT !.pin = run[c].pin, !.backup = run[c].backup,
                             !.before = run[c].before, !.result = result]
<1>1. r.pc = "idle" /\ r.result = result /\ r.before = run[c].before /\ r.backup = run[c].backup
    BY DEF Idle
<1>2. run' = [run EXCEPT ![c] = r] BY DEF Settle
<1> HIDE DEF r
<1>3. run'[c] = r /\ \A d \in Callers \ {c} : run'[d] = run[d] BY <1>2 DEF TypeOK
<1> QED BY <1>1, <1>3

\* The catch block leaves c idle, or rolling back from the step it was in with the
\* backup and the history it had; it touches nobody else.
LEMMA FailEffect ==
    ASSUME TypeOK, NEW c \in Callers, NEW step, NEW invalid, NEW now,
           Fail(c, step, invalid, now)
    PROVE  /\ \A d \in Callers \ {c} : run'[d] = run[d]
           /\ \/ run'[c].pc = "idle"
              \/ /\ run'[c].pc = "rollback" /\ step \in {"recreate", "poll_health"}
                 /\ state' = state
                 /\ run'[c].backup = run[c].backup /\ run'[c].before = run[c].before
<1>s. ASSUME NEW result, Settle(c, result)
      PROVE  run'[c].pc = "idle" /\ \A d \in Callers \ {c} : run'[d] = run[d]
    <2>1. [Idle EXCEPT !.pin = run[c].pin, !.backup = run[c].backup,
                       !.before = run[c].before, !.result = result].pc = "idle"
        BY DEF Idle
    <2> QED BY <1>s, <2>1 DEF Settle, TypeOK
<1>r. ASSUME NEW result, ReportFailure(c, step, result)
      PROVE  run'[c].pc = "idle" /\ \A d \in Callers \ {c} : run'[d] = run[d]
    BY <1>r, <1>s DEF ReportFailure
<1>1. CASE step \notin {"recreate", "poll_health"} \/ run[c].backup = 0
    BY <1>1, <1>r DEF Fail
<1>2. CASE ~(step \notin {"recreate", "poll_health"} \/ run[c].backup = 0)
    <2>1. PICK bad \in SUBSET UNION {b.has : b \in Own(c)} :
            /\ Restore(c, bad, now)
            /\ \/ /\ invalid
                  /\ ReportFailure(c, step, IF Whole(bad, "base" \in Restored(c, bad))
                                            THEN "kept" ELSE "partial")
               \/ /\ ~invalid
                  /\ run' = [run EXCEPT ![c] = [@ EXCEPT
                        !.pc = "rollback",
                        !.useBase = "base" \in Restored(c, bad) /\ base' > 0,
                        !.whole = Whole(bad, "base" \in Restored(c, bad))]]
                  /\ UNCHANGED <<state, inFlight, reader>>
        BY <1>2 DEF Fail
    <2>3. CASE /\ run' = [run EXCEPT ![c] = [@ EXCEPT
                        !.pc = "rollback",
                        !.useBase = "base" \in Restored(c, bad) /\ base' > 0,
                        !.whole = Whole(bad, "base" \in Restored(c, bad))]]
               /\ UNCHANGED <<state, inFlight, reader>>
        <3> DEFINE now_c == [run[c] EXCEPT !.pc = "rollback",
                        !.useBase = "base" \in Restored(c, bad) /\ base' > 0,
                        !.whole = Whole(bad, "base" \in Restored(c, bad))]
        <3>1. now_c.pc = "rollback" /\ now_c.backup = run[c].backup
              /\ now_c.before = run[c].before
            BY DEF TypeOK, Runs
        <3>2. run' = [run EXCEPT ![c] = now_c] BY <2>3
        <3> HIDE DEF now_c
        <3>3. run'[c] = now_c /\ \A d \in Callers \ {c} : run'[d] = run[d]
            BY <3>2 DEF TypeOK
        <3> QED BY <1>2, <2>3, <3>1, <3>3
    <2> QED BY <2>1, <2>3, <1>r
<1> QED BY <1>1, <1>2

\* A step of c that goes on keeps the run's backup and history.
LEMMA GoSafe ==
    ASSUME IInv, NEW c \in Callers, InPipeline(c), run[c].pc # "pull", TypeOK',
           NEW new, run' = [run EXCEPT ![c] = new],
           new.pc \notin {"idle", "preflight", "pull"},
           new.backup = run[c].backup, new.before = run[c].before,
           lastRunning' \in Announced[new.pc],
           state' = state, backups' = backups, ~met'
    PROVE  IInv'
<1>1. run'[c] = new /\ \A d \in Callers \ {c} : run'[d] = run[d] BY DEF IInv, TypeOK
<1>2. Covered(c)
    BY Alone DEF OwnPart
<1>3. Covered(c)' BY <1>1, <1>2 DEF Covered, Own
<1>4. OwnPart(c)' BY <1>1, <1>3, Alone DEF OwnPart
<1> QED BY <1>1, <1>4, Alone, Focus

\* So does one that ends in the catch block with no backup deleted.
LEMMA FailSafe ==
    ASSUME IInv, NEW c \in Callers, InPipeline(c), TypeOK',
           NEW invalid, NEW now, Fail(c, lastRunning, invalid, now),
           lastRunning' = lastRunning, ~met',
           \/ backups' = backups
           \/ /\ backups' \subseteq backups
              /\ run[c].pc \notin {"fetch", "validate", "up", "health", "rollback"}
    PROVE  IInv'
<1>3. /\ \A d \in Callers \ {c} : run'[d] = run[d]
      /\ \/ run'[c].pc = "idle"
         \/ /\ run'[c].pc = "rollback" /\ lastRunning \in {"recreate", "poll_health"}
            /\ state' = state
            /\ run'[c].backup = run[c].backup /\ run'[c].before = run[c].before
    BY FailEffect DEF IInv
<1>4. CASE run'[c].pc = "idle"
    BY <1>3, <1>4, Alone, Focus DEF OwnPart, InPipeline
<1>5. CASE run'[c].pc = "rollback" /\ lastRunning \in {"recreate", "poll_health"}
           /\ state' = state
           /\ run'[c].backup = run[c].backup /\ run'[c].before = run[c].before
    <2>1. run[c].pc \in {"fetch", "validate", "up", "health", "rollback"}
        <3>1. lastRunning \in Announced[run[c].pc] BY Alone DEF OwnPart
        <3>2. run[c].pc \in PCs BY DEF IInv, TypeOK, Runs
        <3> QED BY <1>5, <3>1, <3>2 DEF Announced, PCs, InPipeline
    <2>2. Covered(c) BY <2>1, Alone DEF OwnPart
    <2>3. Covered(c)' BY <1>5, <2>1, <2>2 DEF Covered, Own
    <2>4. OwnPart(c)' BY <1>5, <2>3, Alone DEF OwnPart, Announced
    <2> QED BY <1>3, <1>5, <2>4, Alone, Focus
<1> QED BY <1>3, <1>4, <1>5

LEMMA PullSafe ==
    ASSUME IInv, NEW c \in Callers, Pull(c), TypeOK'
    PROVE  IInv'
<1>0. run[c].pc = "pull" /\ InPipeline(c) BY DEF Pull, At, InPipeline
<1>1. ~met' BY DEF Pull, Still, IInv
<1>2. compose = run[c].before.compose /\ base = run[c].before.base
    BY <1>0, Alone DEF OwnPart
<1>4. CASE UNCHANGED <<lastRunning, backups, stamp>> /\ Fail(c, lastRunning, FALSE, Now)
    BY <1>0, <1>1, <1>4, FailSafe
<1>5. CASE /\ lastRunning' = "backup"
           /\ \E has \in {h \in SUBSET Saved : h # {} => "env" \in h} :
                /\ backups' = backups \cup {[id |-> stamp + 1, has |-> has, env |-> env,
                                             compose |-> compose, base |-> base]}
                /\ \/ /\ Backed(has)
                      /\ run' = [run EXCEPT ![c] = [@ EXCEPT !.pc = "snapshot",
                                                             !.backup = stamp + 1]]
                      /\ UNCHANGED <<files, state, inFlight, reader>>
                   \/ Fail(c, "backup", FALSE, Now)
    <2>1. PICK has \in SUBSET Saved :
                /\ backups' = backups \cup {[id |-> stamp + 1, has |-> has, env |-> env,
                                             compose |-> compose, base |-> base]}
                /\ \/ /\ Backed(has)
                      /\ run' = [run EXCEPT ![c] = [@ EXCEPT !.pc = "snapshot",
                                                             !.backup = stamp + 1]]
                      /\ UNCHANGED <<files, state, inFlight, reader>>
                   \/ Fail(c, "backup", FALSE, Now)
        BY <1>5
    <2> DEFINE made == [id |-> stamp + 1, has |-> has, env |-> env,
                        compose |-> compose, base |-> base]
    <2>3. CASE /\ Backed(has)
               /\ run' = [run EXCEPT ![c] = [@ EXCEPT !.pc = "snapshot", !.backup = stamp + 1]]
               /\ UNCHANGED <<files, state, inFlight, reader>>
        <3> DEFINE new == [run[c] EXCEPT !.pc = "snapshot", !.backup = stamp + 1]
        <3>1. new.pc = "snapshot" /\ new.backup = stamp + 1 /\ new.before = run[c].before
            BY DEF IInv, TypeOK, Runs
        <3>2. run'[c] = new /\ \A d \in Callers \ {c} : run'[d] = run[d]
            BY <2>3 DEF IInv, TypeOK
        <3> HIDE DEF new
        <3>3. made \in Own(c)' BY <2>1, <3>1, <3>2 DEF Own
        <3>4. "env" \in has BY <2>3 DEF Backed
        <3>5. Covered(c)' BY <1>2, <3>1, <3>2, <3>3, <3>4 DEF Covered
        <3>6. OwnPart(c)'
            BY <1>0, <1>5, <2>3, <3>1, <3>2, <3>5, Alone DEF OwnPart, Announced
        <3>7. \A d \in Callers \ {c} : run'[d].pc = "idle"
            BY <1>0, <3>2, Alone
        <3> QED BY <1>1, <3>6, <3>7, Focus
    <2>4. CASE Fail(c, "backup", FALSE, Now)
        <3>1. /\ \A d \in Callers \ {c} : run'[d] = run[d]
              /\ run'[c].pc = "idle" \/ "backup" \in {"recreate", "poll_health"}
            BY <2>4, FailEffect DEF IInv
        <3>2. run'[c].pc = "idle" BY <3>1
        <3> QED BY <1>0, <1>1, <3>1, <3>2, Alone, Focus DEF OwnPart, InPipeline
    <2> QED BY <2>1, <2>3, <2>4
<1> QED BY <1>4, <1>5 DEF Pull

\* The last event and the end of a rollback leave c idle.
LEMMA SettledSafe ==
    ASSUME IInv, NEW c \in Callers, InPipeline(c), TypeOK', NEW result, Settle(c, result),
           ~met'
    PROVE  IInv'
<1>1. [Idle EXCEPT !.pin = run[c].pin, !.backup = run[c].backup,
                   !.before = run[c].before, !.result = result].pc = "idle"
    BY DEF Idle
<1>2. run'[c].pc = "idle" /\ \A d \in Callers \ {c} : run'[d] = run[d]
    BY <1>1 DEF Settle, IInv, TypeOK
<1> QED BY <1>2, Alone, Focus DEF OwnPart, InPipeline

\* Entering the pipeline, or being refused, where no other caller is in runUpgrade.
LEMMA EnterSafe ==
    ASSUME IInv, NEW c \in Callers, Entering(c), TypeOK',
           \/ EnterPipeline(c)
           \/ Settle(c, "refused") /\ UNCHANGED <<base, met>>
    PROVE  IInv'
<1>1. \A d \in Callers \ {c} : run[d].pc = "idle" BY DEF IInv, SoleCaller, Entering
<1>2. base' = base /\ ~met' BY DEF EnterPipeline, IInv
<1>3. ASSUME NEW result, Settle(c, result) PROVE IInv'
    <2>1. [Idle EXCEPT !.pin = run[c].pin, !.backup = run[c].backup,
                       !.before = run[c].before, !.result = result].pc = "idle"
        BY DEF Idle
    <2>2. run'[c].pc = "idle" /\ \A d \in Callers \ {c} : run'[d] = run[d]
        BY <1>3, <2>1 DEF Settle, IInv, TypeOK
    <2> QED BY <1>1, <1>2, <2>2, Focus DEF OwnPart, InPipeline
<1>4. CASE /\ lastRunning' = "digest_compare" /\ state' = "running"
           /\ run' = [run EXCEPT ![c] = [Idle EXCEPT !.pc = "pull", !.pin = env.pin,
                        !.before = [edit |-> env.edit, compose |-> compose', base |-> base,
                                    deployed |-> deployed]]]
    <2> DEFINE new == [Idle EXCEPT !.pc = "pull", !.pin = env.pin,
                        !.before = [edit |-> env.edit, compose |-> compose', base |-> base,
                                    deployed |-> deployed]]
    <2>1. new.pc = "pull" /\ new.before.compose = compose' /\ new.before.base = base
        BY DEF Idle
    <2>2. run' = [run EXCEPT ![c] = new] BY <1>4
    <2> HIDE DEF new
    <2>3. run'[c] = new /\ \A d \in Callers \ {c} : run'[d].pc = "idle"
        BY <1>1, <2>2 DEF IInv, TypeOK
    <2>4. lastRunning' \in Announced[new.pc] BY <1>4, <2>1 DEF Announced
    <2>5. OwnPart(c)' BY <1>2, <1>4, <2>1, <2>3, <2>4 DEF OwnPart
    <2> QED BY <1>2, <2>3, <2>5, Focus
<1> QED BY <1>3, <1>4 DEF EnterPipeline

LEMMA StepSafe ==
    ASSUME IInv, NEW c \in Callers, Step(c)
    PROVE  IInv'
<1>t. TypeOK' BY StepTyped DEF IInv
<1>r. run[c] \in Runs BY DEF IInv, TypeOK
<1>e. CASE Enter(c) BY <1>e, <1>t, EnterSafe DEF Enter, Entering
<1>1. CASE Preflight(c) BY <1>1, <1>t, EnterSafe DEF Preflight, Entering
<1>2. CASE Pull(c) BY <1>2, <1>t, PullSafe
<1>3. CASE Snapshot(c)
    <2>0. run[c].pc = "snapshot" /\ InPipeline(c) /\ ~met' /\ UNCHANGED backups
        BY <1>3 DEF Snapshot, At, InPipeline, Still, IInv
    <2>1. CASE Fail(c, lastRunning, FALSE, Now) /\ UNCHANGED lastRunning
        BY <1>t, <2>0, <2>1, FailSafe
    <2>2. CASE /\ lastRunning' = "merge_env"
               /\ run' = [run EXCEPT ![c] = [@ EXCEPT !.pc = "merge", !.snap = env]]
               /\ UNCHANGED <<files, state, inFlight, reader>>
        <3> DEFINE new == [run[c] EXCEPT !.pc = "merge", !.snap = env]
        <3>1. new.pc = "merge" /\ new.backup = run[c].backup /\ new.before = run[c].before
            BY <1>r DEF Runs
        <3>2. run' = [run EXCEPT ![c] = new] BY <2>2
        <3> HIDE DEF new
        <3>3. lastRunning' \in Announced[new.pc] BY <2>2, <3>1 DEF Announced
        <3> QED BY <1>t, <2>0, <2>2, <3>1, <3>2, <3>3, GoSafe DEF files
    <2> QED BY <1>3, <2>1, <2>2 DEF Snapshot
<1>4. CASE Merge(c)
    <2>0. run[c].pc = "merge" /\ InPipeline(c) /\ ~met' /\ UNCHANGED backups
        BY <1>4 DEF Merge, At, InPipeline, Still, IInv
    <2>1. CASE /\ UNCHANGED lastRunning
               /\ \E e \in {env, Merged(c)} : Fail(c, lastRunning, FALSE, [Now EXCEPT !.env = e])
        <3>1. PICK e : Fail(c, lastRunning, FALSE, [Now EXCEPT !.env = e]) BY <2>1
        <3> QED BY <1>t, <2>0, <2>1, <3>1, FailSafe
    <2>2. CASE /\ lastRunning' = "recreate"
               /\ run' = [run EXCEPT ![c] = [@ EXCEPT !.pc = "fetch", !.snap = env']]
               /\ UNCHANGED <<compose, base, state, inFlight, reader>>
        <3> DEFINE new == [run[c] EXCEPT !.pc = "fetch", !.snap = env']
        <3>1. new.pc = "fetch" /\ new.backup = run[c].backup /\ new.before = run[c].before
            BY <1>r DEF Runs
        <3>2. run' = [run EXCEPT ![c] = new] BY <2>2
        <3> HIDE DEF new
        <3>3. lastRunning' \in Announced[new.pc] BY <2>2, <3>1 DEF Announced
        <3> QED BY <1>t, <2>0, <2>2, <3>1, <3>2, <3>3, GoSafe
    <2> QED BY <1>4, <2>1, <2>2 DEF Merge
<1>5. CASE Fetch(c)
    <2>0. run[c].pc = "fetch" /\ InPipeline(c) /\ ~met' /\ UNCHANGED <<backups, lastRunning>>
        BY <1>5 DEF Fetch, At, InPipeline, Still, IInv
    <2>1. CASE Fail(c, lastRunning, FALSE, Now)
        BY <1>t, <2>0, <2>1, FailSafe
    <2>2. CASE /\ run' = [run EXCEPT ![c] = [@ EXCEPT
                        !.pc = IF overlay = "valid" THEN "validate" ELSE "up",
                        !.fetched = Upstream(run[c].snap.pin)]]
               /\ compose' = IF overlay = "valid" THEN compose ELSE Upstream(run[c].snap.pin)
               /\ UNCHANGED <<env, base, state, inFlight, reader>>
        <3> DEFINE new == [run[c] EXCEPT !.pc = IF overlay = "valid" THEN "validate" ELSE "up",
                                         !.fetched = Upstream(run[c].snap.pin)]
        <3>1. /\ new.pc \in {"validate", "up"} /\ new.backup = run[c].backup
              /\ new.before = run[c].before
            BY <1>r DEF Runs
        <3>2. run' = [run EXCEPT ![c] = new] BY <2>2
        <3> HIDE DEF new
        <3>4. lastRunning' \in Announced[new.pc]
            BY <2>0, <3>1, Alone DEF OwnPart, Announced
        <3> QED BY <1>t, <2>0, <2>2, <3>1, <3>2, <3>4, GoSafe
    <2> QED BY <1>5, <2>1, <2>2 DEF Fetch
<1>6. CASE Validate(c)
    <2>0. run[c].pc = "validate" /\ InPipeline(c) /\ ~met' /\ UNCHANGED <<backups, lastRunning>>
        BY <1>6 DEF Validate, At, InPipeline, Still, IInv
    <2>1. CASE \E b \in {base, run[c].fetched} :
                    Fail(c, lastRunning, FALSE, [Now EXCEPT !.base = b])
        <3>1. PICK b : Fail(c, lastRunning, FALSE, [Now EXCEPT !.base = b]) BY <2>1
        <3> QED BY <1>t, <2>0, <3>1, FailSafe
    <2>2. CASE Fail(c, lastRunning, TRUE, Now)
        BY <1>t, <2>0, <2>2, FailSafe
    <2>3. CASE /\ run' = [run EXCEPT ![c].pc = "up"]
               /\ UNCHANGED <<env, compose, state, inFlight, reader>>
        <3> DEFINE new == [run[c] EXCEPT !.pc = "up"]
        <3>1. new.pc = "up" /\ new.backup = run[c].backup /\ new.before = run[c].before
            BY <1>r DEF Runs
        <3>2. run' = [run EXCEPT ![c] = new] BY <2>3
        <3> HIDE DEF new
        <3>3. lastRunning' \in Announced[new.pc]
            BY <2>0, <3>1, Alone DEF OwnPart, Announced
        <3> QED BY <1>t, <2>0, <2>3, <3>1, <3>2, <3>3, GoSafe
    <2> QED BY <1>6, <2>1, <2>2, <2>3 DEF Validate
<1>g. ASSUME NEW pc \in {"health", "reconcile", "prune"}, NEW step, Go(c, pc, step),
             step \in Announced[pc], UNCHANGED backups, ~met',
             InPipeline(c), run[c].pc # "pull"
      PROVE  IInv'
    <2> DEFINE new == [run[c] EXCEPT !.pc = pc]
    <2>1. new.pc = pc /\ new.backup = run[c].backup /\ new.before = run[c].before
        BY <1>r DEF Runs
    <2>2. run' = [run EXCEPT ![c] = new] BY <1>g DEF Go
    <2> HIDE DEF new
    <2> QED BY <1>g, <1>t, <2>1, <2>2, GoSafe DEF Go
<1>7. CASE Up(c)
    <2>0. run[c].pc = "up" /\ InPipeline(c) /\ ~met' /\ UNCHANGED backups
        BY <1>7 DEF Up, At, InPipeline, Still, IInv
    <2>1. CASE Fail(c, lastRunning, FALSE, Now) /\ UNCHANGED lastRunning
        BY <1>t, <2>0, <2>1, FailSafe
    <2>2. CASE Go(c, "health", "poll_health") /\ UNCHANGED files
        BY <1>g, <2>0, <2>2 DEF Announced
    <2> QED BY <1>7, <2>1, <2>2 DEF Up
<1>8. CASE Health(c)
    <2>0. run[c].pc = "health" /\ InPipeline(c) /\ ~met' /\ UNCHANGED backups
        BY <1>8 DEF Health, At, InPipeline, Still, IInv
    <2>1. CASE Fail(c, lastRunning, FALSE, Now) /\ UNCHANGED lastRunning
        BY <1>t, <2>0, <2>1, FailSafe
    <2>2. CASE Go(c, "reconcile", "reconcile") /\ UNCHANGED files
        BY <1>g, <2>0, <2>2 DEF Announced
    <2> QED BY <1>8, <2>1, <2>2 DEF Health
<1>9. CASE Reconcile(c)
    <2>0. run[c].pc = "reconcile" /\ InPipeline(c) /\ ~met' /\ UNCHANGED backups
        BY <1>9 DEF Reconcile, At, InPipeline, Still, IInv
    <2>1. CASE Fail(c, lastRunning, FALSE, Now) /\ UNCHANGED lastRunning
        BY <1>t, <2>0, <2>1, FailSafe
    <2>2. CASE Go(c, "prune", "cleanup") /\ UNCHANGED files
        BY <1>g, <2>0, <2>2 DEF Announced
    <2> QED BY <1>9, <2>1, <2>2 DEF Reconcile
<1>10. CASE Prune(c)
    <2>0. run[c].pc = "prune" /\ InPipeline(c) /\ ~met' /\ UNCHANGED lastRunning
          /\ backups' \subseteq backups
        BY <1>10 DEF Prune, At, InPipeline, Still, IInv, Pruned
    <2>1. CASE Fail(c, lastRunning, FALSE, Now)
        BY <1>t, <2>0, <2>1, FailSafe
    <2>2. CASE Settle(c, "ok") /\ UNCHANGED files
        BY <1>t, <2>0, <2>2, SettledSafe DEF files
    <2> QED BY <1>10, <2>1, <2>2 DEF Prune
<1>11. CASE Rollback(c)
    <2>0. InPipeline(c) /\ ~met'
        BY <1>11 DEF Rollback, At, InPipeline, Still, IInv
    <2>1. \E result : Settle(c, result)
        BY <1>11 DEF Rollback, ReportFailure
    <2> QED BY <1>t, <2>0, <2>1, SettledSafe
<1> QED BY <1>e, <1>1, <1>2, <1>3, <1>4, <1>5, <1>6, <1>7, <1>8, <1>9, <1>10, <1>11 DEF Step

\* A start that meets no other finds every caller idle: a pipeline refuses it.
LEMMA StartSafe ==
    ASSUME IInv, NEW S \in SUBSET Callers, S # {}, RunUpgrade(S), env' \in EnvFiles, ~met'
    PROVE  /\ IInv'
           /\ \A d \in Callers : run[d].pc = "idle"
           /\ \E c \in Callers : S = {c}
<1>t. TypeOK' BY StartTyped DEF IInv
<1>1. \A d \in Callers : run[d].pc = "idle"
    BY DEF RunUpgrade, Conflict, IInv, PipelineRuns, Entering, InPipeline
<1>2. PICK c \in Callers : S = {c}
    <2>1. IsFiniteSet(S) BY UpgradeAssumption, FS_Subset
    <2>2. Cardinality(S) \in Nat /\ ~(Cardinality(S) > 1) BY <2>1, FS_CardinalityType DEF RunUpgrade
    <2>3. Cardinality(S) = 1 BY <2>1, <2>2, FS_EmptySet
    <2> QED BY <2>1, <2>3, FS_Singleton
<1>3. /\ run'[c].pc = "entering" \/ run'[c].pc = "preflight"
      /\ \A d \in Callers \ {c} : run'[d].pc = "idle"
    BY <1>1, <1>2 DEF RunUpgrade, Begin, Idle
<1>4. IInv' BY <1>t, <1>3, Focus DEF OwnPart, InPipeline
<1> QED BY <1>1, <1>2, <1>4

\* Calls that have met stay on record.
LEMMA MetStays == [Next]_vars /\ ~met' => ~met
<1> SUFFICES ASSUME [Next]_vars, met, ~met' PROVE FALSE
    <2>1. (~met') \in BOOLEAN OBVIOUS
    <2> QED OBVIOUS
<1>1. ASSUME NEW c \in Callers, Step(c) PROVE met' = met
    BY <1>1 DEF Step, Enter, Preflight, EnterPipeline, Pull, Snapshot, Merge, Fetch, Validate,
                Up, Health, Reconcile, Prune, Rollback, Still
<1>2. ASSUME NEW S, RunUpgrade(S) PROVE met' BY <1>2 DEF RunUpgrade
<1>3. ASSUME NEW r \in Readers, OpenLog(r) \/ AbortLog(r) \/ CloseLog(r) PROVE met' = met
    BY <1>3 DEF OpenLog, AbortLog, CloseLog, SetReader
<1>4. CASE EditEnv \/ Publish \/ UNCHANGED vars BY <1>4 DEF EditEnv, Publish, vars
<1> QED BY <1>1, <1>2, <1>3, <1>4 DEF Next, AgentStart, RouteStart

LEMMA NextSafe == IInv /\ [Next]_vars /\ ~met' => IInv'
<1> SUFFICES ASSUME IInv, [Next]_vars, ~met' PROVE IInv' OBVIOUS
<1>t. TypeOK' BY NextTyped DEF IInv
<1>1. ASSUME NEW c \in Callers, Step(c) PROVE IInv'
    BY <1>1, StepSafe
<1>2. ASSUME NEW S \in SUBSET AgentCallers, AgentStart(S) PROVE IInv'
    <2>1. env' \in EnvFiles /\ RunUpgrade(S) /\ S # {}
        BY <1>2 DEF AgentStart, IInv, TypeOK
    <2> QED BY <2>1, StartSafe DEF Callers
<1>3. ASSUME NEW c \in RouteCallers, NEW pin \in Pins, RouteStart(c, pin) PROVE IInv'
    <2>1. env' \in EnvFiles BY <1>3 DEF RouteStart, IInv, TypeOK, EnvFiles
    <2>2. {c} \in SUBSET Callers /\ {c} # {} BY DEF Callers
    <2> QED BY <1>3, <2>1, <2>2, StartSafe DEF RouteStart
<1>o. ASSUME UNCHANGED <<compose, base, backups, run, state, lastRunning>> PROVE IInv'
    BY <1>t, <1>o DEF IInv, PipelineRuns, StepAnnounced, BeforeHeld, SoleCaller,
                      BackupCoversRun, InPipeline, Own
<1>4. ASSUME NEW r \in Readers, OpenLog(r) \/ AbortLog(r) \/ CloseLog(r) PROVE IInv'
    BY <1>4, <1>o DEF OpenLog, AbortLog, CloseLog, SetReader, files
<1>5. CASE EditEnv BY <1>5, <1>o DEF EditEnv
<1>6. CASE Publish BY <1>6, <1>o DEF Publish, files
<1>7. CASE UNCHANGED vars BY <1>7, <1>o DEF vars
<1> QED BY <1>1, <1>2, <1>3, <1>4, <1>5, <1>6, <1>7 DEF Next

LEMMA InitSafe == Init => IInv
<1> SUFFICES ASSUME Init PROVE IInv OBVIOUS
<1>1. TypeOK BY InitTyped
<1>2. \A c \in Callers : run[c].pc = "idle" BY DEF Init, Idle
<1>3. ~met BY DEF Init
<1> QED BY <1>1, <1>2, <1>3
        DEF IInv, PipelineRuns, StepAnnounced, BeforeHeld, SoleCaller,
            BackupCoversRun, InPipeline

\* The inductive invariant holds until two calls meet.
LEMMA Safe == Spec => [](~met => IInv)
<1>1. (~met => IInv) /\ [Next]_vars => (~met => IInv)' BY NextSafe, MetStays
<1> QED BY <1>1, InitSafe, PTL DEF Spec

\* How a step of one caller moves the others: not at all.
LEMMA OthersStay ==
    ASSUME TypeOK, NEW c \in Callers, Step(c)
    PROVE  /\ run[c].pc # "idle"
           /\ \A d \in Callers \ {c} : run'[d] = run[d]
           /\ \/ inFlight' = inFlight
              \/ run'[c].pc = "idle" /\ inFlight' = (inFlight /\ c \notin RouteCallers)
<1>s. ASSUME NEW result, Settle(c, result)
      PROVE  /\ run'[c].pc = "idle" /\ \A d \in Callers \ {c} : run'[d] = run[d]
             /\ inFlight' = (inFlight /\ c \notin RouteCallers)
    BY <1>s, SettleEffect DEF Settle
<1>r. ASSUME NEW step, NEW result, ReportFailure(c, step, result)
      PROVE  /\ run'[c].pc = "idle" /\ \A d \in Callers \ {c} : run'[d] = run[d]
             /\ inFlight' = (inFlight /\ c \notin RouteCallers)
    BY <1>r, <1>s DEF ReportFailure
<1>f. ASSUME NEW step, NEW invalid, NEW now, Fail(c, step, invalid, now)
      PROVE  /\ \A d \in Callers \ {c} : run'[d] = run[d]
             /\ \/ inFlight' = inFlight
                \/ run'[c].pc = "idle" /\ inFlight' = (inFlight /\ c \notin RouteCallers)
    <2>1. \A d \in Callers \ {c} : run'[d] = run[d] BY <1>f, FailEffect
    <2>2. inFlight' = inFlight \/ \E st, result : ReportFailure(c, st, result) BY <1>f DEF Fail
    <2> QED BY <2>1, <2>2, <1>r
<1>g. ASSUME NEW new, run' = [run EXCEPT ![c] = new]
      PROVE  \A d \in Callers \ {c} : run'[d] = run[d]
    BY <1>g DEF TypeOK
<1>e. CASE EnterPipeline(c) /\ run[c].pc # "idle"
    BY <1>e, <1>s, <1>g DEF EnterPipeline
<1>1. CASE Enter(c) BY <1>1, <1>e DEF Enter
<1>2. CASE Preflight(c) BY <1>2, <1>e, <1>s DEF Preflight
<1>3. CASE Pull(c) BY <1>3, <1>f, <1>g DEF Pull, At
<1>4. CASE Snapshot(c) BY <1>4, <1>f, <1>g DEF Snapshot, At
<1>5. CASE Merge(c) BY <1>5, <1>f, <1>g DEF Merge, At
<1>6. CASE Fetch(c) BY <1>6, <1>f, <1>g DEF Fetch, At
<1>7. CASE Validate(c) BY <1>7, <1>f, <1>g DEF Validate, At
<1>8. CASE Up(c) BY <1>8, <1>f, <1>g DEF Up, At, Go
<1>9. CASE Health(c) BY <1>9, <1>f, <1>g DEF Health, At, Go
<1>10. CASE Reconcile(c) BY <1>10, <1>f, <1>g DEF Reconcile, At, Go
<1>11. CASE Prune(c) BY <1>11, <1>f, <1>s DEF Prune, At
<1>12. CASE Rollback(c) BY <1>12, <1>r DEF Rollback, At
<1> QED BY <1>1, <1>2, <1>3, <1>4, <1>5, <1>6, <1>7, <1>8, <1>9, <1>10, <1>11, <1>12 DEF Step

\* The route's flag stands as long as an invocation that the route started.
LEMMA RouteStays == TypeOK /\ RouteInv /\ [Next]_vars => RouteInv'
<1> SUFFICES ASSUME TypeOK, RouteInv, [Next]_vars PROVE RouteInv' OBVIOUS
<1>1. ASSUME NEW c \in Callers, Step(c) PROVE RouteInv'
    <2>1. /\ run[c].pc # "idle" /\ \A d \in Callers \ {c} : run'[d] = run[d]
          /\ \/ inFlight' = inFlight
             \/ run'[c].pc = "idle" /\ inFlight' = (inFlight /\ c \notin RouteCallers)
        BY <1>1, OthersStay
    <2>2. \A d \in RouteCallers : run'[d].pc # "idle" => run[d].pc # "idle"
        BY <2>1 DEF Callers
    <2>3. ASSUME NEW d \in RouteCallers, run'[d].pc # "idle" PROVE inFlight'
        <3>1. inFlight /\ run[d].pc # "idle" BY <2>2, <2>3 DEF RouteInv
        <3>2. d # c => c \notin RouteCallers BY <2>1, <3>1 DEF RouteInv
        <3> QED BY <2>1, <2>3, <3>1, <3>2
    <2> QED BY <2>2, <2>3 DEF RouteInv
<1>2. ASSUME NEW S \in SUBSET AgentCallers, AgentStart(S) PROVE RouteInv'
    <2>1. \A c \in RouteCallers : c \notin S BY UpgradeAssumption
    <2>2. inFlight => inFlight' BY <1>2 DEF AgentStart, RunUpgrade
    <2>3. \E pc : Begin(S, pc) BY <1>2 DEF AgentStart, RunUpgrade
    <2>4. \A c \in RouteCallers : run'[c].pc # "idle" => run[c].pc # "idle"
        BY <2>1, <2>3 DEF Begin, Idle, Callers
    <2> QED BY <2>2, <2>4 DEF RouteInv
<1>3. ASSUME NEW c \in RouteCallers, NEW pin \in Pins, RouteStart(c, pin) PROVE RouteInv'
    <2>1. ~inFlight /\ RunUpgrade({c}) BY <1>3 DEF RouteStart
    <2>2. \A d \in RouteCallers : run[d].pc = "idle" BY <2>1 DEF RouteInv
    <2>3. inFlight' BY <2>1 DEF RunUpgrade
    <2>4. \E pc : Begin({c}, pc) BY <2>1 DEF RunUpgrade
    <2>5. \A d \in RouteCallers \ {c} : run'[d].pc = "idle"
        BY <2>2, <2>4 DEF Begin, Idle, Callers
    <2> QED BY <2>3, <2>5 DEF RouteInv
<1>4. ASSUME NEW r \in Readers, OpenLog(r) \/ AbortLog(r) \/ CloseLog(r) PROVE RouteInv'
    BY <1>4 DEF OpenLog, AbortLog, CloseLog, SetReader, RouteInv
<1>5. CASE EditEnv \/ Publish \/ UNCHANGED vars BY <1>5 DEF EditEnv, Publish, vars, RouteInv
<1> QED BY <1>1, <1>2, <1>3, <1>4, <1>5 DEF Next

\* However HTTP starts, agent commands, whole drains and log readers interleave, and
\* whatever compose.yml is at the start: two pipelines are under way at once only when two
\* calls have met between the running check and the assignment of the state, and the
\* route's own calls never do.
THEOREM SinglePipeline == Spec => []OnePipeline
<1>1. (~met => IInv) /\ RouteInv => OnePipeline
    BY DEF IInv, SoleCaller, RouteInv, OnePipeline, InPipeline
<1>2. Init => RouteInv BY DEF Init, Idle, RouteInv, Callers
<1> QED BY <1>1, <1>2, Safe, RouteStays, TypeCorrect, PTL DEF Spec

\* While no two calls have met, a pipeline past its backup step always has its own backup directory, and what that
\* directory holds of compose.yml and of the staged base is what the run found.
THEOREM BackupThroughout == Spec => []BackupCoversRun
<1>1. (~met => IInv) => BackupCoversRun BY DEF IInv, BackupCoversRun
<1> QED BY <1>1, Safe, PTL

-----------------------------------------------------------------------------
(***************************************************************************)
(* What a run leaves behind.  The invariant JInv follows what a run has     *)
(* changed of what it found, and what it may report for it: inductive only  *)
(* with the facts that directories have names of their own, that a run's    *)
(* own directory holds what it found, and that earlier results are          *)
(* forgotten when a run begins.                                             *)
(***************************************************************************)
\* Backup directories have names of their own, and without an overlay no staged base.
Numbered ==
    \A b \in backups :
        /\ b.id <= stamp
        /\ "base" \in b.has => overlay = "valid"
        /\ \A d \in backups : b.id = d.id => b = d

\* What this run's own directory holds is what it found.
OwnHolds(c) ==
    \A b \in Own(c) :
        /\ "compose" \in b.has => b.compose = run[c].before.compose
        /\ "base" \in b.has => b.base = run[c].before.base
        /\ b.env.edit >= run[c].before.edit

WholeBackup(c) == \E b \in Own(c) : Saved \subseteq b.has

\* How far a run has changed what it found.
Progress(c) ==
    LET before == run[c].before
        pc     == run[c].pc
    IN  /\ env.edit >= before.edit
        /\ pc = "merge" => run[c].snap.edit >= before.edit
        /\ pc # "pull" => OwnHolds(c)
        /\ pc \in {"pull", "snapshot", "merge", "fetch", "validate", "up"} =>
             deployed = before.deployed
        /\ pc \in {"pull", "snapshot", "merge", "fetch", "validate"} =>
             compose = before.compose /\ base = before.base
        /\ pc = "validate" => overlay = "valid"
        /\ overlay # "valid" => base = before.base
        /\ compose = Dir => before.compose = Dir
        /\ pc = "rollback" /\ run[c].whole /\ WholeBackup(c) =>
             /\ compose = before.compose /\ base = before.base
             /\ run[c].useBase = (overlay = "valid" /\ before.base > 0)

\* What a run that is over has reported.
Reported(c) ==
    LET before == run[c].before
        result == run[c].result
    IN  /\ result \notin {"none", "refused"} => env.edit >= before.edit
        /\ result \in {"digest_compare", "backup", "merge_env", "kept"} =>
             deployed = before.deployed /\ compose = before.compose /\ base = before.base
        /\ result = "rolledback" /\ WholeBackup(c) =>
             /\ compose = before.compose /\ base = before.base
             /\ deployed.conf = PriorConf(c)

\* As long as somebody is in runUpgrade, earlier results are forgotten.
Forgotten ==
    \A c \in Callers : run[c].pc # "idle" =>
        /\ \A d \in Callers : run[d].result = "none"
        /\ Entering(c) => run[c].before.edit = 0

JInv ==
    /\ Numbered /\ Forgotten
    /\ \A c \in Callers : (InPipeline(c) => Progress(c)) /\ Reported(c)

\* A step of c leaves JInv, when c's own part of it does.
LEMMA Follows ==
    ASSUME IInv, JInv, IInv', NEW c \in Callers, run[c].pc # "idle",
           \A d \in Callers \ {c} : run'[d] = run[d], Numbered',
           run'[c].pc # "idle" => run'[c].result = "none" /\ ~Entering(c)',
           InPipeline(c)' => Progress(c)', Reported(c)'
    PROVE  JInv'
<1>1. \A d \in Callers \ {c} : run'[d].pc = "idle" /\ run'[d].result = "none"
    BY DEF IInv, SoleCaller, JInv, Forgotten
<1>2. Forgotten' BY <1>1 DEF Forgotten
<1>3. \A d \in Callers \ {c} : ~InPipeline(d)' /\ Reported(d)'
    BY <1>1 DEF InPipeline, Reported
<1> QED BY <1>2, <1>3 DEF JInv

\* A run that reports nothing about what it leaves but that the operator's edits are there.
LEMMA ReportsLittle ==
    ASSUME IInv, JInv, IInv', NEW c \in Callers, InPipeline(c), NEW result, Settle(c, result),
           result \notin {"digest_compare", "backup", "merge_env", "kept", "rolledback"},
           env'.edit >= run[c].before.edit, Numbered'
    PROVE  JInv'
<1>1. /\ run'[c].pc = "idle" /\ run'[c].result = result
      /\ run'[c].before = run[c].before
      /\ \A d \in Callers \ {c} : run'[d] = run[d]
    BY SettleEffect DEF IInv
<1>2. Reported(c)' BY <1>1 DEF Reported
<1> QED BY <1>1, <1>2, Follows DEF InPipeline

\* The directory a run restores from has what it found.
LEMMA RestoreBrings ==
    ASSUME TypeOK, Numbered, NEW c \in Callers, OwnHolds(c), NEW bad, NEW now, Restore(c, bad, now)
    PROVE  /\ compose' = IF "compose" \in Restored(c, bad) THEN run[c].before.compose
                         ELSE now.compose
           /\ base' = IF "base" \in Restored(c, bad) THEN run[c].before.base ELSE now.base
           /\ now.env.edit >= run[c].before.edit => env'.edit >= run[c].before.edit
<1> DEFINE own == CHOOSE b \in Own(c) : TRUE
<1>1. ASSUME NEW f \in Restored(c, bad) PROVE own \in Own(c) /\ f \in own.has
    <2>1. PICK b \in Own(c) : f \in b.has BY <1>1 DEF Restored
    <2>2. own \in Own(c) BY <2>1
    <2> HIDE DEF own
    <2>3. own = b BY <2>1, <2>2 DEF Own, Numbered
    <2> QED BY <2>1, <2>2, <2>3
<1>2. /\ env' = IF "env" \in Restored(c, bad) THEN own.env ELSE now.env
      /\ compose' = IF "compose" \in Restored(c, bad) THEN own.compose ELSE now.compose
      /\ base' = IF "base" \in Restored(c, bad) THEN own.base ELSE now.base
    BY DEF Restore
<1> HIDE DEF own
<1> QED BY <1>1, <1>2 DEF OwnHolds

\* The catch block: an early failure reports what is so, a rejected overlay too, and
\* a rollback begins from what is restored.
LEMMA FailReports ==
    ASSUME IInv, JInv, IInv', NEW c \in Callers, InPipeline(c),
           NEW step \in Steps, NEW invalid \in BOOLEAN, NEW now, Fail(c, step, invalid, now),
           UNCHANGED overlay, Numbered',
           now.env.edit >= run[c].before.edit,
           overlay # "valid" => now.base = run[c].before.base,
           now.compose = Dir => run[c].before.compose = Dir,
           step \in {"digest_compare", "backup", "merge_env"} \/ invalid =>
             /\ deployed' = run[c].before.deployed
             /\ now.compose = run[c].before.compose /\ now.base = run[c].before.base,
           step \in {"recreate", "poll_health"} => OwnHolds(c) /\ UNCHANGED backups
    PROVE  JInv'
<1>t. TypeOK /\ run[c] \in Runs BY DEF IInv, TypeOK
<1>1. CASE step \notin {"recreate", "poll_health"} \/ run[c].backup = 0
    <2>1. /\ ReportFailure(c, step, step)
          /\ env' = now.env /\ compose' = now.compose /\ base' = now.base
        BY <1>1 DEF Fail
    <2>2. PICK result \in {step, "wedged"} : Settle(c, result) BY <2>1 DEF ReportFailure
    <2>3. /\ run'[c].pc = "idle" /\ run'[c].result = result
          /\ run'[c].before = run[c].before
          /\ \A d \in Callers \ {c} : run'[d] = run[d]
        BY <1>t, <2>2, SettleEffect
    <2>4. result # "rolledback" /\ result # "kept" BY DEF Steps
    <2>5. Reported(c)' BY <2>1, <2>2, <2>3, <2>4 DEF Reported
    <2> QED BY <2>3, <2>5, Follows DEF InPipeline
<1>2. CASE ~(step \notin {"recreate", "poll_health"} \/ run[c].backup = 0)
    <2>1. PICK bad \in SUBSET UNION {b.has : b \in Own(c)} :
            /\ Restore(c, bad, now)
            /\ \/ /\ invalid
                  /\ ReportFailure(c, step, IF Whole(bad, "base" \in Restored(c, bad))
                                            THEN "kept" ELSE "partial")
               \/ /\ ~invalid
                  /\ run' = [run EXCEPT ![c] = [@ EXCEPT
                        !.pc = "rollback",
                        !.useBase = "base" \in Restored(c, bad) /\ base' > 0,
                        !.whole = Whole(bad, "base" \in Restored(c, bad))]]
                  /\ UNCHANGED <<state, inFlight, reader>>
        BY <1>2 DEF Fail
    <2>2. OwnHolds(c) /\ UNCHANGED backups BY <1>2
    <2>3. /\ compose' = IF "compose" \in Restored(c, bad) THEN run[c].before.compose
                        ELSE now.compose
          /\ base' = IF "base" \in Restored(c, bad) THEN run[c].before.base ELSE now.base
          /\ env'.edit >= run[c].before.edit
        BY <1>t, <2>1, <2>2, RestoreBrings DEF JInv
    <2>4. CASE invalid
        <3>1. PICK result \in {"kept", "partial", "wedged"} : Settle(c, result)
            BY <2>1, <2>4 DEF ReportFailure
        <3>2. /\ run'[c].pc = "idle" /\ run'[c].result = result
              /\ run'[c].before = run[c].before
              /\ \A d \in Callers \ {c} : run'[d] = run[d]
            BY <1>t, <3>1, SettleEffect
        <3>3. Reported(c)' BY <2>3, <2>4, <3>1, <3>2 DEF Reported
        <3> QED BY <3>2, <3>3, Follows DEF InPipeline
    <2>5. CASE ~invalid
        <3> DEFINE use == "base" \in Restored(c, bad) /\ base' > 0
                   whole == Whole(bad, "base" \in Restored(c, bad))
                   new == [run[c] EXCEPT !.pc = "rollback", !.useBase = use, !.whole = whole]
        <3>1. run' = [run EXCEPT ![c] = new] BY <2>1, <2>5
        <3>2. /\ new.pc = "rollback" /\ new.useBase = use /\ new.whole = whole
              /\ new.before = run[c].before /\ new.backup = run[c].backup
              /\ new.result = run[c].result
            BY <1>t DEF Runs
        <3>3. whole => bad = {} BY DEF Whole
        <3> HIDE DEF use, whole, new
        <3>4. run'[c] = new /\ \A d \in Callers \ {c} : run'[d] = run[d] BY <1>t, <3>1 DEF TypeOK
        <3>5. Own(c)' = Own(c) BY <2>2, <3>2, <3>4 DEF Own
        <3>6. OwnHolds(c)' BY <2>2, <3>2, <3>4, <3>5 DEF OwnHolds
        <3>7. "base" \in Restored(c, bad) => overlay = "valid"
            BY DEF Restored, Own, JInv, Numbered
        <3>8. overlay # "valid" => base' = run[c].before.base BY <2>3, <3>7
        <3>9. ASSUME whole, WholeBackup(c)'
              PROVE  /\ compose' = run[c].before.compose /\ base' = run[c].before.base
                     /\ use = (overlay = "valid" /\ run[c].before.base > 0)
            <4>1. PICK b \in Own(c) : Saved' \subseteq b.has BY <3>5, <3>9 DEF WholeBackup
            <4>2. compose' # Dir => "compose" \in Saved' BY DEF Saved, Files
            <4>3. compose' # Dir => "compose" \in Restored(c, bad)
                BY <3>3, <3>9, <4>1, <4>2 DEF Restored, Files
            <4>4. overlay = "valid" => "base" \in Saved' BY DEF Saved, Files
            <4>5. compose' = run[c].before.compose BY <2>3, <4>3
            <4>6. overlay = "valid" => "base" \in Restored(c, bad)
                BY <3>3, <3>9, <4>1, <4>4 DEF Restored, Files
            <4> QED BY <2>3, <3>7, <3>8, <4>5, <4>6 DEF use
        <3>10. Progress(c)'
            <4>1. compose' = Dir => run[c].before.compose = Dir BY <2>3
            <4> QED BY <2>3, <3>2, <3>4, <3>6, <3>8, <3>9, <4>1 DEF Progress
        <3>11. run[c].result = "none" BY DEF JInv, Forgotten, InPipeline
        <3>12. Reported(c)' BY <3>2, <3>4, <3>11 DEF Reported
        <3> QED BY <3>2, <3>4, <3>10, <3>11, <3>12, Follows DEF InPipeline, Entering
    <2> QED BY <2>4, <2>5
<1> QED BY <1>1, <1>2

\* A step of c that goes on.
LEMMA GoesOn ==
    ASSUME IInv, JInv, IInv', NEW c \in Callers, InPipeline(c), NEW new,
           run' = [run EXCEPT ![c] = new], new.pc \notin {"idle", "entering", "preflight"},
           new.result = run[c].result, Numbered', Progress(c)'
    PROVE  JInv'
<1>1. run'[c] = new /\ \A d \in Callers \ {c} : run'[d] = run[d] BY DEF IInv, TypeOK
<1>2. run[c].result = "none" BY DEF JInv, Forgotten, InPipeline
<1>3. Reported(c)' BY <1>1, <1>2 DEF Reported
<1> QED BY <1>1, <1>2, <1>3, Follows DEF InPipeline, Entering

LEMMA NumberedStays ==
    ASSUME TypeOK, Numbered, UNCHANGED <<overlay, stamp>>, backups' \subseteq backups
    PROVE  Numbered'
BY DEF Numbered

LEMMA EnterReports ==
    ASSUME IInv, JInv, IInv', NEW c \in Callers, Entering(c),
           \/ EnterPipeline(c)
           \/ /\ Settle(c, "refused")
              /\ UNCHANGED <<world, env, base, deployed, backups, stamp>>
    PROVE  JInv'
<1>0. run[c].pc # "idle" BY DEF Entering
<1>1. /\ UNCHANGED <<overlay, env, base, deployed, backups, stamp>> /\ Numbered'
    BY NumberedStays DEF EnterPipeline, world, IInv, JInv
<1>2. ASSUME NEW result \in {"refused", "wedged"}, Settle(c, result) PROVE JInv'
    <2>1. /\ run'[c].pc = "idle" /\ run'[c].result = result
          /\ run'[c].before = run[c].before
          /\ \A d \in Callers \ {c} : run'[d] = run[d]
        BY <1>2, SettleEffect DEF IInv
    <2>2. run[c].before.edit = 0 BY DEF JInv, Forgotten, Entering
    <2>3. env.edit >= 0 BY UpgradeAssumption DEF IInv, TypeOK, EnvFiles
    <2>4. Reported(c)' BY <1>1, <1>2, <2>1, <2>2, <2>3 DEF Reported
    <2> QED BY <1>0, <1>1, <2>1, <2>4, Follows DEF InPipeline
<1>3. CASE run' = [run EXCEPT ![c] = [Idle EXCEPT !.pc = "pull", !.pin = env.pin,
                        !.before = [edit |-> env.edit, compose |-> compose', base |-> base,
                                    deployed |-> deployed]]]
    <2> DEFINE before == [edit |-> env.edit, compose |-> compose', base |-> base,
                          deployed |-> deployed]
               new == [Idle EXCEPT !.pc = "pull", !.pin = env.pin, !.before = before]
    <2>1. run' = [run EXCEPT ![c] = new] BY <1>3
    <2>2. /\ new.pc = "pull" /\ new.result = "none" /\ new.before.edit = env.edit
          /\ new.before.compose = compose' /\ new.before.base = base
          /\ new.before.deployed = deployed
        BY DEF Idle
    <2> HIDE DEF new
    <2>3. run'[c] = new /\ \A d \in Callers \ {c} : run'[d] = run[d]
        BY <2>1 DEF IInv, TypeOK
    <2>4. env.edit \in Int BY UpgradeAssumption DEF IInv, TypeOK, EnvFiles
    <2>5. Progress(c)' BY <1>1, <2>2, <2>3, <2>4 DEF Progress
    <2>6. Reported(c)' BY <2>2, <2>3 DEF Reported
    <2> QED BY <1>0, <1>1, <2>2, <2>3, <2>5, <2>6, Follows DEF InPipeline, Entering
<1> QED BY <1>2, <1>3 DEF EnterPipeline

\* What a pipeline knows as it stands.
LEMMA Stands ==
    ASSUME IInv, JInv, NEW c \in Callers, InPipeline(c)
    PROVE  /\ Progress(c) /\ Numbered /\ run[c] \in Runs /\ run[c].result = "none"
           /\ lastRunning \in Announced[run[c].pc] /\ lastRunning \in Steps
           /\ run[c].before.edit \in Int /\ env.edit \in Int
           /\ Now.env = env /\ Now.compose = compose /\ Now.base = base
<1>1. Progress(c) /\ Numbered /\ run[c] \in Runs BY DEF JInv, IInv, TypeOK
<1>2. run[c].result = "none" BY DEF JInv, Forgotten, InPipeline
<1>3. lastRunning \in Announced[run[c].pc] BY DEF IInv, StepAnnounced
<1>4. run[c].pc \in PCs \ {"idle", "entering", "preflight"} BY <1>1 DEF Runs, InPipeline
<1>5. lastRunning \in Steps BY <1>3, <1>4 DEF Announced, PCs, Steps
<1>6. run[c].before.edit \in Int /\ env.edit \in Int
    BY <1>1, UpgradeAssumption DEF Runs, Snapshots, IInv, TypeOK, EnvFiles
<1> QED BY <1>1, <1>2, <1>3, <1>5, <1>6 DEF Now

LEMMA PullReports == ASSUME IInv, JInv, IInv', NEW c \in Callers, Pull(c) PROVE JInv'
<1>0. run[c].pc = "pull" /\ InPipeline(c) BY DEF Pull, At, InPipeline
<1>1. UNCHANGED <<overlay, deployed>> BY DEF Pull, Still, world
<1>2. /\ env.edit >= run[c].before.edit
      /\ compose = run[c].before.compose /\ base = run[c].before.base
      /\ deployed = run[c].before.deployed
    BY <1>0, Stands DEF Progress
<1>3. CASE UNCHANGED <<backups, stamp>> /\ Fail(c, lastRunning, FALSE, Now)
    <2>1. lastRunning = "digest_compare" BY <1>0, Stands DEF Announced
    <2>2. Numbered' BY <1>1, <1>3, NumberedStays DEF JInv, IInv
    <2> QED BY <1>0, <1>1, <1>2, <1>3, <2>1, <2>2, Stands, FailReports DEF Steps
<1>4. CASE /\ stamp' = stamp + 1
           /\ \E has \in {h \in SUBSET Saved : h # {} => "env" \in h} :
                /\ backups' = backups \cup {[id |-> stamp + 1, has |-> has, env |-> env,
                                             compose |-> compose, base |-> base]}
                /\ \/ /\ Backed(has)
                      /\ run' = [run EXCEPT ![c] = [@ EXCEPT !.pc = "snapshot",
                                                             !.backup = stamp + 1]]
                      /\ UNCHANGED <<files, state, inFlight, reader>>
                   \/ Fail(c, "backup", FALSE, Now)
    <2>1. PICK has \in SUBSET Saved :
                /\ backups' = backups \cup {[id |-> stamp + 1, has |-> has, env |-> env,
                                             compose |-> compose, base |-> base]}
                /\ \/ /\ Backed(has)
                      /\ run' = [run EXCEPT ![c] = [@ EXCEPT !.pc = "snapshot",
                                                             !.backup = stamp + 1]]
                      /\ UNCHANGED <<files, state, inFlight, reader>>
                   \/ Fail(c, "backup", FALSE, Now)
        BY <1>4
    <2> DEFINE made == [id |-> stamp + 1, has |-> has, env |-> env,
                        compose |-> compose, base |-> base]
    <2>2. /\ made.id = stamp + 1 /\ made.has = has /\ made.env = env
          /\ made.compose = compose /\ made.base = base
        OBVIOUS
    <2>3. backups' = backups \cup {made} BY <2>1
    <2>4. "base" \in has => overlay = "valid" BY DEF Saved
    <2> HIDE DEF made
    <2>5. stamp \in Nat /\ \A b \in backups : b.id \in Nat /\ b.id <= stamp
        BY DEF IInv, TypeOK, Backups, JInv, Numbered
    <2>6. \A b \in backups : b.id # made.id BY <2>2, <2>5
    <2>7. Numbered'
        BY <1>1, <1>4, <2>2, <2>3, <2>4, <2>5, <2>6 DEF JInv, Numbered
    <2>8. CASE /\ run' = [run EXCEPT ![c] = [@ EXCEPT !.pc = "snapshot", !.backup = stamp + 1]]
               /\ UNCHANGED files
        <3> DEFINE new == [run[c] EXCEPT !.pc = "snapshot", !.backup = stamp + 1]
        <3>1. /\ new.pc = "snapshot" /\ new.backup = stamp + 1 /\ new.before = run[c].before
              /\ new.result = run[c].result
            BY <1>0, Stands DEF Runs
        <3>2. run' = [run EXCEPT ![c] = new] BY <2>8
        <3> HIDE DEF new
        <3>3. run'[c] = new BY <3>2 DEF IInv, TypeOK
        <3>4. Own(c)' = {made} BY <2>2, <2>3, <2>6, <3>1, <3>3 DEF Own
        <3>5. OwnHolds(c)' BY <1>2, <2>2, <3>1, <3>3, <3>4 DEF OwnHolds
        <3>6. Progress(c)' BY <1>1, <1>2, <2>8, <3>1, <3>3, <3>5 DEF Progress, files
        <3> QED BY <1>0, <2>7, <3>1, <3>2, <3>6, GoesOn
    <2>9. CASE Fail(c, "backup", FALSE, Now)
        BY <1>0, <1>1, <1>2, <2>7, <2>9, Stands, FailReports DEF Steps
    <2> QED BY <2>1, <2>8, <2>9
<1> QED BY <1>3, <1>4 DEF Pull

\* A step that goes on and changes no file and no backup.
LEMMA OnlyGoes ==
    ASSUME IInv, JInv, IInv', NEW c \in Callers, InPipeline(c), run[c].pc # "pull", NEW new,
           run' = [run EXCEPT ![c] = new], new.result = run[c].result,
           new.before = run[c].before, new.backup = run[c].backup,
           new.pc \in {"merge", "fetch", "validate", "up", "health", "reconcile", "prune"},
           new.pc = "merge" => new.snap.edit >= run[c].before.edit,
           new.pc = "validate" => overlay = "valid",
           new.pc \in {"merge", "fetch", "validate", "up"} => deployed' = run[c].before.deployed,
           new.pc \in {"merge", "fetch", "validate"} =>
             compose' = run[c].before.compose /\ base' = run[c].before.base,
           overlay # "valid" => base' = run[c].before.base,
           compose' = Dir => run[c].before.compose = Dir,
           env'.edit >= run[c].before.edit,
           UNCHANGED <<overlay, backups, stamp>>
    PROVE  JInv'
<1>1. run'[c] = new BY DEF IInv, TypeOK
<1>2. Own(c)' = Own(c) BY <1>1 DEF Own
<1>3. OwnHolds(c) BY Stands DEF Progress
<1>4. OwnHolds(c)' BY <1>1, <1>2, <1>3 DEF OwnHolds
<1>5. Progress(c)' BY <1>1, <1>4 DEF Progress
<1>6. Numbered' BY NumberedStays DEF JInv, IInv
<1> QED BY <1>5, <1>6, GoesOn

LEMMA SnapshotReports == ASSUME IInv, JInv, IInv', NEW c \in Callers, Snapshot(c) PROVE JInv'
<1>0. run[c].pc = "snapshot" /\ InPipeline(c) BY DEF Snapshot, At, InPipeline
<1>1. UNCHANGED <<overlay, deployed, backups, stamp>> BY DEF Snapshot, Still, world
<1>2. Numbered' BY <1>1, NumberedStays DEF JInv, IInv
<1>3. /\ env.edit >= run[c].before.edit
      /\ compose = run[c].before.compose /\ base = run[c].before.base
      /\ deployed = run[c].before.deployed
    BY <1>0, Stands DEF Progress
<1>4. CASE Fail(c, lastRunning, FALSE, Now)
    <2>1. lastRunning = "backup" BY <1>0, Stands DEF Announced
    <2> QED BY <1>0, <1>1, <1>2, <1>3, <1>4, <2>1, Stands, FailReports DEF Steps
<1>5. CASE /\ run' = [run EXCEPT ![c] = [@ EXCEPT !.pc = "merge", !.snap = env]]
           /\ UNCHANGED files
    <2> DEFINE new == [run[c] EXCEPT !.pc = "merge", !.snap = env]
    <2>1. /\ new.pc = "merge" /\ new.snap = env /\ new.before = run[c].before
          /\ new.backup = run[c].backup /\ new.result = run[c].result
        BY <1>0, Stands DEF Runs
    <2>2. run' = [run EXCEPT ![c] = new] BY <1>5
    <2> HIDE DEF new
    <2> QED BY <1>0, <1>1, <1>3, <1>5, <2>1, <2>2, OnlyGoes DEF files
<1> QED BY <1>4, <1>5 DEF Snapshot

LEMMA MergeReports == ASSUME IInv, JInv, IInv', NEW c \in Callers, Merge(c) PROVE JInv'
<1>0. run[c].pc = "merge" /\ InPipeline(c) BY DEF Merge, At, InPipeline
<1>1. UNCHANGED <<overlay, deployed, backups, stamp>> BY DEF Merge, Still, world
<1>2. Numbered' BY <1>1, NumberedStays DEF JInv, IInv
<1>3. /\ env.edit >= run[c].before.edit /\ run[c].snap.edit >= run[c].before.edit
      /\ compose = run[c].before.compose /\ base = run[c].before.base
      /\ deployed = run[c].before.deployed
    BY <1>0, Stands DEF Progress
<1>4. Merged(c).edit = run[c].snap.edit BY <1>0, Stands DEF Merged, Runs, EnvFiles
<1>5. CASE \E e \in {env, Merged(c)} : Fail(c, lastRunning, FALSE, [Now EXCEPT !.env = e])
    <2>1. PICK e \in {env, Merged(c)} : Fail(c, lastRunning, FALSE, [Now EXCEPT !.env = e])
        BY <1>5
    <2>2. e.edit >= run[c].before.edit BY <1>3, <1>4, <2>1
    <2> DEFINE now == [Now EXCEPT !.env = e]
    <2>3. now.env = e /\ now.compose = compose /\ now.base = base BY DEF Now
    <2>4. Fail(c, lastRunning, FALSE, now) BY <2>1
    <2> HIDE DEF now
    <2>5. lastRunning = "merge_env" BY <1>0, Stands DEF Announced
    <2> QED BY <1>0, <1>1, <1>2, <1>3, <2>2, <2>3, <2>4, <2>5, FailReports DEF Steps
<1>6. CASE /\ env' \in {env, Merged(c)}
           /\ run' = [run EXCEPT ![c] = [@ EXCEPT !.pc = "fetch", !.snap = env']]
           /\ UNCHANGED <<compose, base>>
    <2> DEFINE new == [run[c] EXCEPT !.pc = "fetch", !.snap = env']
    <2>1. /\ new.pc = "fetch" /\ new.before = run[c].before
          /\ new.backup = run[c].backup /\ new.result = run[c].result
        BY <1>0, Stands DEF Runs
    <2>2. run' = [run EXCEPT ![c] = new] BY <1>6
    <2> HIDE DEF new
    <2>3. env'.edit >= run[c].before.edit BY <1>3, <1>4, <1>6
    <2> QED BY <1>0, <1>1, <1>3, <1>6, <2>1, <2>2, <2>3, OnlyGoes
<1> QED BY <1>5, <1>6 DEF Merge

LEMMA FetchReports == ASSUME IInv, JInv, IInv', NEW c \in Callers, Fetch(c) PROVE JInv'
<1>0. run[c].pc = "fetch" /\ InPipeline(c) BY DEF Fetch, At, InPipeline
<1>1. UNCHANGED <<overlay, deployed, backups, stamp>> BY DEF Fetch, Still, world
<1>2. Numbered' BY <1>1, NumberedStays DEF JInv, IInv
<1>3. /\ env.edit >= run[c].before.edit /\ OwnHolds(c)
      /\ compose = run[c].before.compose /\ base = run[c].before.base
      /\ deployed = run[c].before.deployed
    BY <1>0, Stands DEF Progress
<1>4. CASE Fail(c, lastRunning, FALSE, Now)
    <2>1. lastRunning = "recreate" BY <1>0, Stands DEF Announced
    <2> QED BY <1>0, <1>1, <1>2, <1>3, <1>4, <2>1, Stands, FailReports DEF Steps
<1>5. CASE /\ run' = [run EXCEPT ![c] = [@ EXCEPT
                        !.pc = IF overlay = "valid" THEN "validate" ELSE "up",
                        !.fetched = Upstream(run[c].snap.pin)]]
           /\ compose' = IF overlay = "valid" THEN compose ELSE Upstream(run[c].snap.pin)
           /\ UNCHANGED <<env, base>>
    <2> DEFINE new == [run[c] EXCEPT !.pc = IF overlay = "valid" THEN "validate" ELSE "up",
                                     !.fetched = Upstream(run[c].snap.pin)]
    <2>1. /\ new.pc = (IF overlay = "valid" THEN "validate" ELSE "up")
          /\ new.before = run[c].before
          /\ new.backup = run[c].backup /\ new.result = run[c].result
        BY <1>0, Stands DEF Runs
    <2>2. run' = [run EXCEPT ![c] = new] BY <1>5
    <2> HIDE DEF new
    <2>3. compose' = Dir => run[c].before.compose = Dir
        BY <1>3, <1>5, FileFacts DEF IInv, Versions, Dir
    <2> QED BY <1>0, <1>1, <1>3, <1>5, <2>1, <2>2, <2>3, OnlyGoes
<1> QED BY <1>4, <1>5 DEF Fetch

LEMMA ValidateReports == ASSUME IInv, JInv, IInv', NEW c \in Callers, Validate(c) PROVE JInv'
<1>0. run[c].pc = "validate" /\ InPipeline(c) BY DEF Validate, At, InPipeline
<1>1. UNCHANGED <<overlay, deployed, backups, stamp>> BY DEF Validate, Still, world
<1>2. Numbered' BY <1>1, NumberedStays DEF JInv, IInv
<1>3. /\ env.edit >= run[c].before.edit /\ OwnHolds(c) /\ overlay = "valid"
      /\ compose = run[c].before.compose /\ base = run[c].before.base
      /\ deployed = run[c].before.deployed
    BY <1>0, Stands DEF Progress
<1>4. lastRunning = "recreate" BY <1>0, Stands DEF Announced
<1>5. CASE \E b \in {base, run[c].fetched} :
             Fail(c, lastRunning, FALSE, [Now EXCEPT !.base = b])
    <2>1. PICK b \in {base, run[c].fetched} : Fail(c, lastRunning, FALSE, [Now EXCEPT !.base = b])
        BY <1>5
    <2> DEFINE now == [Now EXCEPT !.base = b]
    <2>2. now.env = env /\ now.compose = compose /\ now.base = b BY DEF Now
    <2>3. Fail(c, lastRunning, FALSE, now) BY <2>1
    <2> HIDE DEF now
    <2> QED BY <1>0, <1>1, <1>2, <1>3, <1>4, <2>2, <2>3, FailReports DEF Steps
<1>6. CASE Fail(c, lastRunning, TRUE, Now)
    BY <1>0, <1>1, <1>2, <1>3, <1>4, <1>6, Stands, FailReports DEF Steps
<1>7. CASE run' = [run EXCEPT ![c].pc = "up"] /\ UNCHANGED <<env, compose>>
    <2> DEFINE new == [run[c] EXCEPT !.pc = "up"]
    <2>1. /\ new.pc = "up" /\ new.before = run[c].before
          /\ new.backup = run[c].backup /\ new.result = run[c].result
        BY <1>0, Stands DEF Runs
    <2>2. run' = [run EXCEPT ![c] = new] BY <1>7
    <2> HIDE DEF new
    <2> QED BY <1>0, <1>1, <1>3, <1>7, <2>1, <2>2, OnlyGoes
<1> QED BY <1>5, <1>6, <1>7 DEF Validate

\* The steps after the files are in place: they fail into a rollback, or announce the next.
LEMMA LaterReports ==
    ASSUME IInv, JInv, IInv', NEW c \in Callers, InPipeline(c),
           run[c].pc \in {"up", "health", "reconcile"}, UNCHANGED <<overlay, backups, stamp>>,
           \/ Fail(c, lastRunning, FALSE, Now)
           \/ /\ UNCHANGED files
              /\ \E step : \E pc \in {"health", "reconcile", "prune"} : Go(c, pc, step)
    PROVE  JInv'
<1>1. Numbered' BY NumberedStays DEF JInv, IInv
<1>2. /\ env.edit >= run[c].before.edit /\ OwnHolds(c)
      /\ overlay # "valid" => base = run[c].before.base
      /\ compose = Dir => run[c].before.compose = Dir
    BY Stands DEF Progress
<1>3. CASE Fail(c, lastRunning, FALSE, Now)
    <2>1. lastRunning \in {"recreate", "poll_health", "reconcile"} BY Stands DEF Announced
    <2> QED BY <1>1, <1>2, <1>3, <2>1, Stands, FailReports DEF Steps
<1>4. ASSUME NEW pc \in {"health", "reconcile", "prune"}, NEW step, Go(c, pc, step), UNCHANGED files
      PROVE  JInv'
    <2> DEFINE new == [run[c] EXCEPT !.pc = pc]
    <2>1. /\ new.pc = pc /\ new.before = run[c].before
          /\ new.backup = run[c].backup /\ new.result = run[c].result
        BY Stands DEF Runs
    <2>2. run' = [run EXCEPT ![c] = new] BY <1>4 DEF Go
    <2> HIDE DEF new
    <2> QED BY <1>2, <1>4, <2>1, <2>2, OnlyGoes DEF files
<1> QED BY <1>3, <1>4

LEMMA UpReports == ASSUME IInv, JInv, IInv', NEW c \in Callers, Up(c) PROVE JInv'
<1>0. run[c].pc = "up" /\ InPipeline(c) /\ UNCHANGED <<overlay, backups, stamp>>
    BY DEF Up, At, InPipeline, Still, world
<1> QED BY <1>0, LaterReports DEF Up

LEMMA HealthReports == ASSUME IInv, JInv, IInv', NEW c \in Callers, Health(c) PROVE JInv'
<1>0. run[c].pc = "health" /\ InPipeline(c) /\ UNCHANGED <<overlay, backups, stamp>>
    BY DEF Health, At, InPipeline, Still, world
<1> QED BY <1>0, LaterReports DEF Health

LEMMA ReconcileReports == ASSUME IInv, JInv, IInv', NEW c \in Callers, Reconcile(c) PROVE JInv'
<1>0. run[c].pc = "reconcile" /\ InPipeline(c) /\ UNCHANGED <<overlay, backups, stamp>>
    BY DEF Reconcile, At, InPipeline, Still, world
<1> QED BY <1>0, LaterReports DEF Reconcile

LEMMA PruneReports == ASSUME IInv, JInv, IInv', NEW c \in Callers, Prune(c) PROVE JInv'
<1>0. /\ run[c].pc = "prune" /\ InPipeline(c) /\ UNCHANGED <<overlay, stamp>>
      /\ backups' \subseteq backups
    BY DEF Prune, At, InPipeline, Still, world, Pruned
<1>1. Numbered' BY <1>0, NumberedStays DEF JInv, IInv
<1>2. /\ env.edit >= run[c].before.edit
      /\ overlay # "valid" => base = run[c].before.base
      /\ compose = Dir => run[c].before.compose = Dir
    BY <1>0, Stands DEF Progress
<1>3. CASE Fail(c, lastRunning, FALSE, Now)
    <2>1. lastRunning = "cleanup" BY <1>0, Stands DEF Announced
    <2> QED BY <1>0, <1>1, <1>2, <1>3, <2>1, Stands, FailReports DEF Steps
<1>4. CASE Settle(c, "ok") /\ UNCHANGED files
    BY <1>0, <1>1, <1>2, <1>4, ReportsLittle DEF files
<1> QED BY <1>3, <1>4 DEF Prune

LEMMA RollbackReports == ASSUME IInv, JInv, IInv', NEW c \in Callers, Rollback(c) PROVE JInv'
<1>0. /\ run[c].pc = "rollback" /\ InPipeline(c)
      /\ UNCHANGED <<overlay, backups, stamp, env, compose, base>>
    BY DEF Rollback, At, InPipeline, Still, world, files
<1>1. Numbered' BY <1>0, NumberedStays DEF JInv, IInv
<1>2. env.edit >= run[c].before.edit BY <1>0, Stands DEF Progress
<1>3. ASSUME NEW result \in {"partial", "wedged"}, Settle(c, result) PROVE JInv'
    BY <1>0, <1>1, <1>2, <1>3, ReportsLittle
<1>4. CASE Settle(c, "rolledback") /\ run[c].whole /\ deployed' = Recreated(run[c].useBase)
    <2>1. /\ run'[c].pc = "idle" /\ run'[c].result = "rolledback"
          /\ run'[c].before = run[c].before /\ run'[c].backup = run[c].backup
          /\ \A d \in Callers \ {c} : run'[d] = run[d]
        BY <1>4, SettleEffect DEF IInv
    <2>2. WholeBackup(c)' <=> WholeBackup(c) BY <1>0, <2>1 DEF WholeBackup, Own, Saved
    <2>3. WholeBackup(c) =>
            /\ compose = run[c].before.compose /\ base = run[c].before.base
            /\ run[c].useBase = (overlay = "valid" /\ run[c].before.base > 0)
        BY <1>0, <1>4, Stands DEF Progress
    <2>4. deployed'.conf = IF run[c].useBase THEN base ELSE compose
        BY <1>4 DEF Recreated, Effective
    <2>5. PriorConf(c)' = IF overlay = "valid" /\ run[c].before.base > 0
                          THEN run[c].before.base ELSE run[c].before.compose
        BY <1>0, <2>1 DEF PriorConf
    <2>6. Reported(c)' BY <1>0, <1>2, <2>1, <2>2, <2>3, <2>4, <2>5 DEF Reported
    <2> QED BY <1>0, <1>1, <2>1, <2>6, Follows DEF InPipeline
<1> QED BY <1>3, <1>4 DEF Rollback, ReportFailure

LEMMA StepReports == ASSUME IInv, JInv, IInv', NEW c \in Callers, Step(c) PROVE JInv'
<1>0. CASE Enter(c) BY <1>0, EnterReports DEF Enter, Entering
<1>1. CASE Preflight(c) BY <1>1, EnterReports DEF Preflight, Entering
<1> QED BY <1>0, <1>1, PullReports, SnapshotReports, MergeReports, FetchReports,
           ValidateReports, UpReports, HealthReports, ReconcileReports, PruneReports,
           RollbackReports DEF Step

\* A start finds everybody idle, and forgets what was reported.
LEMMA StartReports ==
    ASSUME IInv, JInv, NEW S \in SUBSET Callers, S # {}, RunUpgrade(S), env' \in EnvFiles, ~met'
    PROVE  JInv'
<1>1. \A d \in Callers : run[d].pc = "idle" BY StartSafe
<1>2. PICK c \in Callers : S = {c} BY StartSafe
<1>3. PICK pc \in {"entering", "preflight"} : Begin(S, pc) BY DEF RunUpgrade
<1>4. /\ Idle.pc = "idle" /\ Idle.result = "none"
      /\ [Idle EXCEPT !.pc = pc].pc = pc
      /\ [Idle EXCEPT !.pc = pc].result = "none"
      /\ [Idle EXCEPT !.pc = pc].before.edit = 0
    BY DEF Idle
<1> HIDE DEF Idle
<1>5. \A d \in Callers : run'[d] = IF d = c THEN [Idle EXCEPT !.pc = pc] ELSE Idle
    BY <1>1, <1>2, <1>3 DEF Begin
<1>6. \A d \in Callers : /\ run'[d].result = "none" /\ ~InPipeline(d)'
                         /\ run'[d].pc # "idle" => run'[d].before.edit = 0
    BY <1>4, <1>5 DEF InPipeline
<1>7. Numbered'
    <2>1. UNCHANGED <<overlay, stamp, backups>> BY DEF RunUpgrade, world
    <2> QED BY <2>1, NumberedStays DEF JInv, IInv
<1> QED BY <1>6, <1>7 DEF JInv, Forgotten, Reported

\* What happens around the runs adds to .env at most.
LEMMA AroundReports ==
    ASSUME IInv, JInv, UNCHANGED <<compose, base, deployed, run, backups, overlay, stamp>>,
           env'.edit >= env.edit, env'.edit \in Int
    PROVE  JInv'
<1>1. Numbered' /\ Forgotten' BY NumberedStays DEF JInv, IInv, Forgotten, Entering
<1>2. ASSUME NEW c \in Callers, InPipeline(c)' PROVE Progress(c)'
    <2>1. InPipeline(c) BY <1>2 DEF InPipeline
    <2>2. Own(c)' = Own(c) /\ (WholeBackup(c)' <=> WholeBackup(c))
        BY DEF Own, WholeBackup, Saved
    <2>3. OwnHolds(c)' <=> OwnHolds(c) BY <2>2 DEF OwnHolds
    <2> QED BY <2>1, <2>2, <2>3, Stands DEF Progress
<1>3. ASSUME NEW c \in Callers PROVE Reported(c)'
    <2>1. WholeBackup(c)' <=> WholeBackup(c) BY DEF Own, WholeBackup, Saved
    <2>2. PriorConf(c)' = PriorConf(c) BY DEF PriorConf
    <2>3. run[c].before.edit \in Int /\ env.edit \in Int
        BY UpgradeAssumption DEF IInv, TypeOK, Runs, Snapshots, EnvFiles
    <2>4. Reported(c) BY DEF JInv
    <2> QED BY <2>1, <2>2, <2>3, <2>4 DEF Reported
<1> QED BY <1>1, <1>2, <1>3 DEF JInv

LEMMA NextReports == IInv /\ JInv /\ [Next]_vars /\ ~met' => JInv'
<1> SUFFICES ASSUME IInv, JInv, [Next]_vars, ~met' PROVE JInv' OBVIOUS
<1>i. IInv' BY NextSafe
<1>e. env.edit \in Int BY UpgradeAssumption DEF IInv, TypeOK, EnvFiles
<1>1. ASSUME NEW c \in Callers, Step(c) PROVE JInv'
    BY <1>i, <1>1, StepReports
<1>2. ASSUME NEW S \in SUBSET AgentCallers, AgentStart(S) PROVE JInv'
    <2>1. RunUpgrade(S) /\ S # {} /\ env' \in EnvFiles /\ S \in SUBSET Callers
        BY <1>2 DEF AgentStart, IInv, TypeOK, Callers
    <2> QED BY <2>1, StartReports
<1>3. ASSUME NEW c \in RouteCallers, NEW pin \in Pins, RouteStart(c, pin) PROVE JInv'
    <2>1. env' \in EnvFiles /\ RunUpgrade({c})
        BY <1>3 DEF RouteStart, IInv, TypeOK, EnvFiles
    <2>2. {c} \in SUBSET Callers /\ {c} # {} BY DEF Callers
    <2> QED BY <2>1, <2>2, StartReports
<1>4. ASSUME NEW r \in Readers, OpenLog(r) \/ AbortLog(r) \/ CloseLog(r) PROVE JInv'
    BY <1>4, <1>e, AroundReports DEF OpenLog, AbortLog, CloseLog, SetReader, files, world
<1>5. CASE EditEnv
    <2>1. env'.edit = env.edit + 1 BY <1>5 DEF EditEnv, IInv, TypeOK, EnvFiles
    <2> QED BY <1>5, <1>e, <2>1, AroundReports DEF EditEnv, world
<1>6. CASE Publish BY <1>6, <1>e, AroundReports DEF Publish, files
<1>7. CASE UNCHANGED vars BY <1>7, <1>e, AroundReports DEF vars
<1> QED BY <1>1, <1>2, <1>3, <1>4, <1>5, <1>6, <1>7 DEF Next

LEMMA InitReports == Init => JInv
<1> SUFFICES ASSUME Init PROVE JInv OBVIOUS
<1>1. \A c \in Callers : run[c].pc = "idle" /\ run[c].result = "none" BY DEF Init, Idle
<1>2. backups = {} BY DEF Init
<1> QED BY <1>1, <1>2 DEF JInv, Numbered, Forgotten, Reported, InPipeline

LEMMA Reports == Spec => [](~met => IInv /\ JInv)
<1>1. (~met => IInv /\ JInv) /\ [Next]_vars => (~met => IInv /\ JInv)'
    BY NextSafe, NextReports, MetStays
<1> QED BY <1>1, InitSafe, InitReports, PTL DEF Spec

\* The catch block of runUpgrade and rollbackToBackup: a run that reports a complete
\* rollback, of a backup in which no file is missing, has left compose.yml and the staged
\* base as it found them, and ai-dev runs on the one it ran on.
THEOREM RollbackReturns == Spec => []RolledBackToPriorConfig
<1>1. (~met => IInv /\ JInv) => RolledBackToPriorConfig
    BY DEF JInv, Reported, WholeBackup, RolledBackToPriorConfig
<1> QED BY <1>1, Reports, PTL

\* A run that fails before recreate, or whose overlay is rejected, has touched neither the
\* container nor the compose files.
THEOREM EarlyFailuresHarmless == Spec => []EarlyFailureUntouched
<1>1. (~met => IInv /\ JInv) => EarlyFailureUntouched BY DEF JInv, Reported, EarlyFailureUntouched
<1> QED BY <1>1, Reports, PTL

\* Whatever runUpgrade merges into .env or restores, the operator's edits from before the
\* run are in the file when it ends.
THEOREM EditsSurvive == Spec => []EarlierEditsKept
<1>1. (~met => IInv /\ JInv) => EarlierEditsKept BY DEF JInv, Reported, EarlierEditsKept
<1> QED BY <1>1, Reports, PTL
=============================================================================
