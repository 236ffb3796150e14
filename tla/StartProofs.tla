------------------------------ MODULE StartProofs ------------------------------
(***************************************************************************)
(* Theorems about a start of ai-dev.  First about Boot, the scripts of the  *)
(* entrypoint: what the database gate lets through, what a refused recovery *)
(* of the core leaves alone, whose agent files a start deletes, and what    *)
(* .skill-versions says.  Then about Projects, the workspace that the last  *)
(* of these scripts reconciles: what an operation comes to that nobody,     *)
(* neither a start nor another operation, has disturbed.                    *)
(***************************************************************************)
EXTENDS Boot, Projects, FiniteSetTheorems, SequenceTheorems, TLAPS

(* Only the script whose turn it is does anything. *)
TurnInv ==
    /\ stage \in Stages /\ selection \in Selections
    /\ faults \in 0..MaxFaults /\ changes \in 0..MaxChanges
    /\ stage # "core" => rpc = "idle"
    /\ stage # "gate" => gpc = "idle"

(* What is staged at each step of the recovery; only a baseline whose archive is what *)
(* its manifest says takes it past the comparison. *)
CoreInv ==
    /\ CoreTypeOK
    /\ rpc \in {"idle", "switch", "relink", "prune", "done", "refused"} => staging = "none"
    /\ rpc = "extract" => staging \in {"none", "half"}
    /\ rpc = "compare" => staging \in {"whole", "drifted"} /\ (staging = "whole" => base = "sound")
    /\ rpc = "place" => staging = "whole"
    /\ rpc \in {"place", "switch", "relink", "prune"} => base = "sound"

(* The main file only gets newer, and while it is the one that was stamped so does   *)
(* the log: a log that shrinks has gone into the main file. *)
GateInv ==
    /\ GateTypeOK /\ main + wal <= MaxWrites
    /\ gpc = "idle" => main = 0 /\ wal = 0
    /\ gpc \in {"copyMain", "copyWal", "restamp"} =>
          /\ stamps[1] <= main
          /\ listed /\ main = stamps[1] => stamps[2] <= wal
          /\ ~listed => stamps[2] = 0
    /\ gpc \in {"copyWal", "restamp"} => stamps[1] <= copy[1] /\ copy[1] <= main
    /\ gpc = "copyWal" => listed
    /\ gpc = "restamp" =>
          /\ ~listed => copy[2] = 0
          /\ listed /\ main = stamps[1] => stamps[2] <= copy[2] /\ copy[2] <= wal
    /\ GateSound

(* What a manifest records has been shipped by some image. *)
Released == UNION {Ships[i] : i \in Images}
ConfigInv == ConfigTypeOK /\ manifest \subseteq Released

(* Without a downgrade the version that is recorded is never ahead of the image. *)
MarkInv == mark <= image /\ (mark = image => \A p \in Enabled : skill[p] = image)

IInv == TurnInv /\ CoreInv /\ GateInv /\ ConfigInv

-----------------------------------------------------------------------------
(* The core. *)

LEMMA CoreStays ==
    ASSUME CoreInv, UNCHANGED coreVars
    PROVE  CoreInv'
BY DEF CoreInv, CoreTypeOK, coreVars

LEMMA RecoveryCore ==
    ASSUME CoreInv, Recovery
    PROVE  CoreInv'
<1> USE DEF CoreInv, CoreTypeOK, Steps, Trees, Nodes, Actives, Bases
<1>1. CASE Verify
  BY <1>1 DEF Verify
<1>2. CASE Unpack
  BY <1>2 DEF Unpack
<1>3. CASE CompareStaged
  BY <1>3 DEF CompareStaged, StagedMatches
<1>4. CASE Place
  BY <1>4 DEF Place
<1>5. CASE Switch
  BY <1>5 DEF Switch
<1>6. CASE Relink
  BY <1>6 DEF Relink
<1>7. CASE PruneGenerations
  BY <1>7 DEF PruneGenerations
<1> QED BY <1>1, <1>2, <1>3, <1>4, <1>5, <1>6, <1>7 DEF Recovery

LEMMA NextCore ==
    ASSUME TurnInv, CoreInv, [Next]_vars
    PROVE  CoreInv'
<1>1. CASE RecoverCore
  BY <1>1, RecoveryCore DEF RecoverCore
<1>2. CASE CoreReturns
  BY <1>2 DEF CoreReturns, CoreInv, CoreTypeOK, Steps
<1>3. CASE Crash
  BY <1>3 DEF Crash, CoreDies, CoreInv, CoreTypeOK, Steps, Trees
<1>4. CASE Deploy
  BY <1>4 DEF Deploy, CoreDeployed, CoreInv, CoreTypeOK, Steps, Trees, Nodes, Actives, Bases
<1>5. CASE CoreChanges
  BY <1>5 DEF CoreChanges, CoreDrifts, TurnInv, CoreInv, CoreTypeOK, Trees, Nodes, Actives, Bases
<1>6. CASE Start \/ RunGate \/ GateReturns \/ EnsureSelection \/ InstallPackages \/ RefuseReserved
             \/ RunConfig \/ ConfigReturns \/ RunRest
  BY <1>6, CoreStays DEF Start, RunGate, GateReturns, EnsureSelection, InstallPackages, RefuseReserved,
     RunConfig, ConfigReturns, RunRest
<1>7. CASE Restart \/ SelectionChanges \/ LineSwitched \/ AgentWritten \/ SkillEnabled
             \/ SchemaChanges \/ Writes
  BY <1>7, CoreStays DEF Restart, SelectionChanges, LineSwitched, AgentWritten, SkillEnabled,
     SchemaChanges, Writes
<1>8. CASE UNCHANGED vars
  BY <1>8, CoreStays DEF vars
<1> QED BY <1>1, <1>2, <1>3, <1>4, <1>5, <1>6, <1>7, <1>8 DEF Next, Entrypoint, Changes

-----------------------------------------------------------------------------
(* The turns. *)

LEMMA NextTurn ==
    ASSUME TurnInv, [Next]_vars
    PROVE  TurnInv'
<1> USE BoundsAssumption DEF TurnInv, Stages, Selections
<1>1. CASE Start \/ Restart
  BY <1>1 DEF Start, Restart, coreVars, gateVars
<1>2. CASE RecoverCore \/ CoreReturns
  BY <1>2 DEF RecoverCore, CoreReturns, Fault, gateVars
<1>3. CASE RunGate \/ GateReturns
  BY <1>3 DEF RunGate, GateReturns, GateLeaves, coreVars, bootVars
<1>4. CASE EnsureSelection \/ InstallPackages \/ RefuseReserved
  BY <1>4 DEF EnsureSelection, InstallPackages, RefuseReserved, Repaired, Fault, coreVars, gateVars
<1>5. CASE RunConfig \/ ConfigReturns \/ RunRest
  BY <1>5 DEF RunConfig, ConfigReturns, RunRest, Seeded, Fault, coreVars, gateVars
<1>6. CASE Crash
  BY <1>6 DEF Crash, CoreDies, GateLeaves, Fault
<1>7. CASE Deploy
  BY <1>7 DEF Deploy, CoreDeployed, Change, gateVars
<1>8. CASE CoreChanges \/ SelectionChanges \/ LineSwitched \/ AgentWritten \/ SkillEnabled \/ SchemaChanges
  BY <1>8 DEF CoreChanges, CoreDrifts, SelectionChanges, LineSwitched, AgentWritten, SkillEnabled,
     SchemaChanges, Change, coreVars, gateVars
<1>9. CASE Writes
  BY <1>9 DEF Writes, OtherWriter, Change, coreVars
<1>10. CASE UNCHANGED vars
  BY <1>10 DEF vars, coreVars, gateVars, bootVars
<1> QED BY <1>1, <1>2, <1>3, <1>4, <1>5, <1>6, <1>7, <1>8, <1>9, <1>10 DEF Next, Entrypoint, Changes

-----------------------------------------------------------------------------
(* The gate. *)

\* The order in which the classification looks makes no difference to what it allows.
LEMMA AllowsPinned ==
    ASSUME NEW f \in Facts, InspectCopy(f) \in {"allow_fresh", "allow_v1"}
    PROVE  PinnedV1(f)
<1> DEFINE ids == IF "migration" \in f.tables THEN f.ids ELSE LegacyIds(f)
<1>1. /\ f.tables \in SUBSET Tables /\ f.ids \in SUBSET Ids /\ f.sound \in BOOLEAN
      /\ f.legacy # "empty" => "drizzle" \in f.tables /\ "migration" \notin f.tables
  BY DEF Facts
<1>2. f.sound /\ ClassifySchema(f.tables, ids) \in {"allow_fresh", "allow_v1"}
  <2>1. f.sound
    BY DEF InspectCopy
  <2>2. CASE "drizzle" \in f.tables /\ "migration" \notin f.tables
    BY <2>1, <2>2 DEF InspectCopy
  <2>3. CASE ~("drizzle" \in f.tables /\ "migration" \notin f.tables)
    <3>1. ids = IF "migration" \in f.tables THEN f.ids ELSE {}
      BY <1>1, <2>3 DEF LegacyIds
    <3> QED BY <2>1, <2>3, <3>1 DEF InspectCopy
  <2> QED BY <2>2, <2>3, <2>1
<1>3. ids \subseteq Ids
  BY <1>1 DEF LegacyIds, Ids
<1> HIDE DEF ids
<1>4. /\ "session_v2" \notin f.tables /\ "v2" \notin ids /\ "unknown" \notin ids
  BY <1>2 DEF ClassifySchema
<1>5. CASE f.tables = {}
  BY <1>2, <1>5 DEF PinnedV1
<1>6. CASE f.tables # {}
  <2>1. /\ ~(ids = {} /\ {"migration", "drizzle"} \intersect f.tables # {})
        /\ "foreign" \notin f.tables \ {"drizzle"} /\ "required" \in f.tables \ {"drizzle"}
        /\ HasJournal(f.tables)
    BY <1>2, <1>4, <1>6 DEF ClassifySchema
  <2>2. ids = {"pinned"}
    BY <1>3, <1>4, <2>1 DEF HasJournal, Ids
  <2> QED BY <1>2, <1>4, <2>1, <2>2 DEF PinnedV1, ids
<1> QED BY <1>5, <1>6

Versions == 0..MaxWrites

LEMMA GateTypes ==
    ASSUME GateInv
    PROVE  /\ facts \in Facts /\ main \in Versions /\ wal \in Versions /\ writer \in BOOLEAN
           /\ copy = <<copy[1], copy[2]>> /\ copy[1] \in Versions /\ copy[2] \in Versions
           /\ stamps = <<stamps[1], stamps[2]>> /\ stamps[1] \in Versions /\ stamps[2] \in Versions
           /\ listed \in BOOLEAN /\ verdict \in Statuses
           /\ main \in Nat /\ wal \in Nat /\ main + wal <= MaxWrites /\ MaxWrites \in Nat \ {0}
BY WritesAssumption DEF GateInv, GateTypeOK, Versions

LEMMA GateStays ==
    ASSUME GateInv, UNCHANGED gateVars
    PROVE  GateInv'
BY DEF GateInv, GateTypeOK, GateSound, gateVars

LEMMA RefusalGate ==
    ASSUME GateInv, NEW s \in Statuses \ {"allow_fresh", "allow_v1"}, Return(s), copy' \in Versions \X Versions,
           UNCHANGED <<facts, main, wal, writer, stamps, listed>>
    PROVE  GateInv'
BY DEF GateInv, GateTypeOK, GateSound, Return, Versions

LEMMA StepsGate ==
    ASSUME GateInv, Gate
    PROVE  GateInv'
<1>1. /\ "refuse_baseline" \in Statuses \ {"allow_fresh", "allow_v1"}
      /\ "allow_absent" \in Statuses \ {"allow_fresh", "allow_v1"}
      /\ "refuse_orphan_sidecars" \in Statuses \ {"allow_fresh", "allow_v1"}
      /\ "refuse_locked" \in Statuses \ {"allow_fresh", "allow_v1"}
      /\ "refuse_temp" \in Statuses \ {"allow_fresh", "allow_v1"}
      /\ "refuse_space" \in Statuses \ {"allow_fresh", "allow_v1"}
      /\ "refuse_unstable" \in Statuses \ {"allow_fresh", "allow_v1"}
  BY DEF Statuses, Allowed
<1>2. copy \in Versions \X Versions
  BY GateTypes
<1>3. CASE LoadBaseline
  <2>1. CASE Return("refuse_baseline") /\ UNCHANGED wal
    BY <1>1, <1>2, <1>3, <2>1, RefusalGate DEF LoadBaseline
  <2>2. CASE gpc' = "open" /\ wal' \in {0, 1} /\ UNCHANGED verdict
    <3>1. UNCHANGED <<facts, main, writer, copy, stamps, listed>> /\ main = 0
      BY <1>3 DEF LoadBaseline, GateInv
    <3>2. wal' \in 0..MaxWrites /\ main' + wal' <= MaxWrites
      <4>1. main' = 0 /\ (wal' = 0 \/ wal' = 1)
        BY <2>2, <3>1
      <4> QED BY <4>1, WritesAssumption
    <3> QED BY <2>2, <3>1, <3>2 DEF GateInv, GateTypeOK, GateSound
  <2> QED BY <1>3, <2>1, <2>2 DEF LoadBaseline
<1>4. CASE GateBegins
  <2>1. CASE gpc' = "list" /\ UNCHANGED verdict
    BY <1>4, <2>1 DEF GateBegins, GateInv, GateTypeOK, GateSound
  <2> QED BY <1>1, <1>2, <1>4, <2>1, RefusalGate DEF GateBegins
<1>5. CASE ListFiles
  BY <1>5 DEF ListFiles, GateInv, GateTypeOK, GateSound
<1>6. CASE FindWriters
  <2>1. CASE gpc' = "stamp" /\ UNCHANGED verdict
    BY <1>6, <2>1 DEF FindWriters, GateInv, GateTypeOK, GateSound
  <2> QED BY <1>1, <1>2, <1>6, <2>1, RefusalGate DEF FindWriters
<1>7. CASE StampBefore
  <2>1. /\ gpc' = "copyMain" /\ UNCHANGED <<facts, main, wal, writer, copy, listed, verdict>>
        /\ stamps' = <<main, IF listed THEN wal ELSE 0>>
    BY <1>7 DEF StampBefore, Stamped
  <2>2. stamps'[1] = main /\ stamps'[2] = IF listed THEN wal ELSE 0
    BY <2>1
  <2>3. stamps' \in Versions \X Versions
    BY <2>1, GateTypes DEF Versions
  <2> QED BY <2>1, <2>2, <2>3, GateTypes DEF GateInv, GateTypeOK, GateSound, Versions
<1>8. CASE CopyMain
  <2>1. /\ gpc = "copyMain" /\ UNCHANGED <<facts, main, wal, writer, stamps, listed, verdict>>
        /\ copy' = <<main, 0>> /\ gpc' = IF listed THEN "copyWal" ELSE "restamp"
    BY <1>8 DEF CopyMain
  <2>2. copy'[1] = main /\ copy'[2] = 0 /\ copy' \in Versions \X Versions
    BY <2>1, GateTypes DEF Versions
  <2> QED BY <2>1, <2>2, GateTypes DEF GateInv, GateTypeOK, GateSound, Versions
<1>9. CASE CopyWal
  <2>1. CASE copy' = <<copy[1], wal>> /\ gpc' = "restamp" /\ UNCHANGED verdict
    <3>1. gpc = "copyWal" /\ UNCHANGED <<facts, main, wal, writer, stamps, listed>>
      BY <1>9 DEF CopyWal
    <3>2. copy'[1] = copy[1] /\ copy'[2] = wal /\ copy' \in Versions \X Versions
      BY <2>1, GateTypes
    <3> QED BY <2>1, <3>1, <3>2, GateTypes DEF GateInv, GateTypeOK, GateSound, Versions
  <2> QED BY <1>1, <1>2, <1>9, <2>1, RefusalGate DEF CopyWal
<1>10. CASE StampAfter
  <2>1. /\ gpc = "restamp" /\ UNCHANGED <<facts, main, wal, writer, copy, stamps, listed>>
        /\ Return(IF Stamped = stamps THEN InspectCopy(facts) ELSE "refuse_unstable")
    BY <1>10 DEF StampAfter
  <2>2. CASE Stamped # stamps
    BY <1>1, <1>2, <2>1, <2>2, RefusalGate
  <2>3. CASE Stamped = stamps
    <3>1. copy = stamps
      <4>1. stamps[1] = main /\ stamps[2] = IF listed THEN wal ELSE 0
        BY <2>3 DEF Stamped
      <4>2. copy[1] = stamps[1] /\ copy[2] = stamps[2]
        BY <2>1, <4>1, GateTypes DEF GateInv, Versions
      <4> QED BY <4>2, GateTypes
    <3>2. PICK s : s = InspectCopy(facts)
      OBVIOUS
    <3>3. s \in Statuses
      BY <3>2 DEF InspectCopy, ClassifySchema, Statuses, Allowed
    <3>4. s \in {"allow_fresh", "allow_v1"} => PinnedV1(facts)
      BY <3>2, AllowsPinned, GateTypes
    <3>5. gpc' = "over" /\ verdict' = s
      BY <2>1, <2>3, <3>2 DEF Return
    <3> QED BY <2>1, <3>1, <3>3, <3>4, <3>5 DEF GateInv, GateTypeOK, GateSound
  <2> QED BY <2>2, <2>3
<1> QED BY <1>3, <1>4, <1>5, <1>6, <1>7, <1>8, <1>9, <1>10 DEF Gate

LEMMA WriterGate ==
    ASSUME GateInv, OtherWriter
    PROVE  GateInv'
<1>1. gpc \notin {"idle", "over"} /\ UNCHANGED <<facts, copy, stamps, listed, gpc, verdict>>
  BY DEF OtherWriter
<1>2. CASE main + wal < MaxWrites /\ wal' = wal + 1 /\ writer' = TRUE /\ UNCHANGED main
  <2>1. /\ main' = main /\ wal' \in Nat /\ wal <= wal' /\ main' + wal' <= MaxWrites /\ wal' \in Versions
    BY <1>2, GateTypes DEF Versions
  <2>2. writer' \in BOOLEAN
    BY <1>2
  <2> QED BY <1>1, <2>1, <2>2, GateTypes DEF GateInv, GateTypeOK, GateSound, Versions
<1>3. CASE wal > 0 /\ main' = main + wal /\ wal' = 0 /\ writer' = FALSE
  <2>1. /\ main < main' /\ main' \in Versions /\ wal' = 0 /\ main' + wal' <= MaxWrites
    BY <1>3, GateTypes DEF Versions
  <2>2. writer' \in BOOLEAN
    BY <1>3
  <2> QED BY <1>1, <2>1, <2>2, GateTypes DEF GateInv, GateTypeOK, GateSound, Versions
<1> QED BY <1>2, <1>3 DEF OtherWriter

LEMMA LeavesGate ==
    ASSUME GateInv, GateLeaves
    PROVE  GateInv'
<1>1. <<0, 0>> \in Versions \X Versions /\ 0 \in Versions /\ 0 + 0 <= MaxWrites
  BY WritesAssumption DEF Versions
<1>2. /\ main' = 0 /\ wal' = 0 /\ writer' = FALSE /\ copy' = <<0, 0>> /\ stamps' = <<0, 0>>
      /\ listed' = FALSE /\ gpc' = "idle" /\ verdict' = "none" /\ UNCHANGED facts
  BY DEF GateLeaves
<1> QED BY <1>1, <1>2 DEF GateInv, GateTypeOK, GateSound, Statuses, Versions

LEMMA NextGate ==
    ASSUME TurnInv, GateInv, [Next]_vars
    PROVE  GateInv'
<1>1. CASE RunGate
  BY <1>1, StepsGate DEF RunGate
<1>2. CASE GateReturns \/ Crash
  BY <1>2, LeavesGate DEF GateReturns, Crash
<1>3. CASE Writes
  BY <1>3, WriterGate DEF Writes
<1>4. CASE SchemaChanges
  <2>1. /\ gpc = "idle" /\ facts' \in Facts
        /\ UNCHANGED <<main, wal, writer, copy, stamps, listed, gpc, verdict>>
    BY <1>4 DEF SchemaChanges, TurnInv
  <2> QED BY <2>1 DEF GateInv, GateTypeOK, GateSound
<1>5. CASE Start \/ RecoverCore \/ CoreReturns \/ EnsureSelection \/ InstallPackages \/ RefuseReserved
             \/ RunConfig \/ ConfigReturns \/ RunRest
  BY <1>5, GateStays DEF Start, RecoverCore, CoreReturns, EnsureSelection, InstallPackages,
     RefuseReserved, RunConfig, ConfigReturns, RunRest
<1>6. CASE Restart \/ Deploy \/ CoreChanges \/ SelectionChanges \/ LineSwitched \/ AgentWritten
             \/ SkillEnabled
  BY <1>6, GateStays DEF Restart, Deploy, CoreChanges, SelectionChanges, LineSwitched, AgentWritten,
     SkillEnabled
<1>7. CASE UNCHANGED vars
  BY <1>7, GateStays DEF vars
<1> QED BY <1>1, <1>2, <1>3, <1>4, <1>5, <1>6, <1>7 DEF Next, Entrypoint, Changes

-----------------------------------------------------------------------------
(* The configuration. *)

LEMMA ShippedIs ==
    ASSUME ConfigInv
    PROVE  /\ Shipped \subseteq Agents /\ Shipped \subseteq Released
           /\ Shipped \subseteq Names /\ image \in Images
BY ShipsAssumption DEF ConfigInv, ConfigTypeOK, Shipped, Released, Names

LEMMA ConfigStays ==
    ASSUME ConfigInv, UNCHANGED configVars
    PROVE  ConfigInv'
BY DEF ConfigInv, ConfigTypeOK, configVars

LEMMA ConfigureConfig ==
    ASSUME ConfigInv, Configure
    PROVE  ConfigInv'
<1> USE DEF ConfigInv, ConfigTypeOK, Parts, Blocks
<1>1. CASE Line
  BY <1>1 DEF Line
<1>2. CASE PruneAgents
  BY <1>2 DEF PruneAgents
<1>3. CASE DeployAgent
  BY <1>3 DEF DeployAgent
<1>4. CASE RecordManifest
  BY <1>4, ShippedIs DEF RecordManifest
<1>5. CASE UndeployAgents
  BY <1>5 DEF UndeployAgents
<1>6. CASE MergeProjectLsp \/ SkillsCurrent
  BY <1>6 DEF MergeProjectLsp, SkillsCurrent
<1>7. CASE UpgradeSkill
  BY <1>7 DEF UpgradeSkill
<1>8. CASE MarkSkills
  BY <1>8 DEF MarkSkills
<1>9. CASE SyncAgentsMd
  BY <1>9 DEF SyncAgentsMd
<1> QED BY <1>1, <1>2, <1>3, <1>4, <1>5, <1>6, <1>7, <1>8, <1>9 DEF Configure

LEMMA NextConfig ==
    ASSUME ConfigInv, [Next]_vars
    PROVE  ConfigInv'
<1>1. CASE RunConfig
  BY <1>1, ConfigureConfig DEF RunConfig
<1>2. CASE ConfigReturns \/ Crash
  BY <1>2 DEF ConfigReturns, Crash, ConfigLeaves, ConfigInv, ConfigTypeOK, Parts
<1>3. CASE Deploy
  BY <1>3 DEF Deploy, ConfigInv, ConfigTypeOK, Blocks
<1>4. CASE LineSwitched
  BY <1>4 DEF LineSwitched, ConfigInv, ConfigTypeOK
<1>5. CASE AgentWritten
  BY <1>5 DEF AgentWritten, ConfigInv, ConfigTypeOK
<1>6. CASE SkillEnabled
  BY <1>6 DEF SkillEnabled, ConfigInv, ConfigTypeOK
<1>7. CASE Start \/ RecoverCore \/ CoreReturns \/ RunGate \/ GateReturns \/ EnsureSelection
             \/ InstallPackages \/ RefuseReserved \/ RunRest
  BY <1>7, ConfigStays DEF Start, RecoverCore, CoreReturns, RunGate, GateReturns, EnsureSelection,
     InstallPackages, RefuseReserved, RunRest
<1>8. CASE Restart \/ CoreChanges \/ SelectionChanges \/ SchemaChanges \/ Writes
  BY <1>8, ConfigStays DEF Restart, CoreChanges, SelectionChanges, SchemaChanges, Writes
<1>9. CASE UNCHANGED vars
  BY <1>9, ConfigStays DEF vars
<1> QED BY <1>1, <1>2, <1>3, <1>4, <1>5, <1>6, <1>7, <1>8, <1>9 DEF Next, Entrypoint, Changes

LEMMA MarkStays ==
    ASSUME MarkInv, UNCHANGED <<image, skill, mark>>
    PROVE  MarkInv'
BY DEF MarkInv, Enabled

LEMMA NextMark ==
    ASSUME ~Downgrade, ConfigInv, MarkInv, [Next]_vars
    PROVE  MarkInv'
<1>1. /\ image \in Images /\ Images \subseteq Nat \ {0} /\ mark \in Images \union {0}
      /\ skill \in [Projects -> Images \union {0}]
  BY ImagesAssumption DEF ConfigInv, ConfigTypeOK
<1>2. CASE RunConfig
  <2>1. CASE UpgradeSkill
    BY <2>1 DEF UpgradeSkill, MarkInv
  <2>2. CASE MarkSkills
    <3>1. UNCHANGED <<image, skill>> /\ (mark' = mark \/ (mark' = image /\ ~failed))
      BY <2>2 DEF MarkSkills, AllUpgraded
    <3>2. CASE mark' = mark
      BY <3>1, <3>2, MarkStays
    <3>3. CASE mark' = image /\ ~failed
      <4>1. \A p \in Enabled : skill[p] = image
        BY <2>2, <3>3 DEF MarkSkills
      <4> QED BY <1>1, <3>1, <3>3, <4>1 DEF MarkInv, Enabled
    <3> QED BY <3>1, <3>2, <3>3
  <2>3. CASE Line \/ PruneAgents \/ DeployAgent \/ RecordManifest \/ UndeployAgents
               \/ MergeProjectLsp \/ SkillsCurrent \/ SyncAgentsMd
    BY <2>3, MarkStays DEF Line, PruneAgents, DeployAgent, RecordManifest, UndeployAgents,
       MergeProjectLsp, SkillsCurrent, SyncAgentsMd
  <2> QED BY <1>2, <2>1, <2>2, <2>3 DEF RunConfig, Configure
<1>3. CASE Deploy
  <2>1. image' \in Images /\ image' > image /\ UNCHANGED <<skill, mark>>
    BY <1>3 DEF Deploy
  <2>2. mark < image'
    BY <1>1, <2>1 DEF MarkInv
  <2> QED BY <1>1, <2>1, <2>2 DEF MarkInv
<1>4. CASE SkillEnabled
  BY <1>1, <1>4 DEF SkillEnabled, MarkInv, Enabled
<1>5. CASE Start \/ RecoverCore \/ CoreReturns \/ RunGate \/ GateReturns \/ EnsureSelection
             \/ InstallPackages \/ RefuseReserved \/ ConfigReturns \/ RunRest \/ Crash
  BY <1>5, MarkStays DEF Start, RecoverCore, CoreReturns, RunGate, GateReturns, EnsureSelection,
     InstallPackages, RefuseReserved, ConfigReturns, RunRest, Crash, ConfigLeaves, configVars
<1>6. CASE Restart \/ CoreChanges \/ SelectionChanges \/ SchemaChanges \/ Writes \/ LineSwitched
             \/ AgentWritten
  BY <1>6, MarkStays DEF Restart, CoreChanges, SelectionChanges, SchemaChanges, Writes, LineSwitched,
     AgentWritten, configVars
<1>7. CASE UNCHANGED vars
  BY <1>7, MarkStays DEF vars, configVars
<1> QED BY <1>2, <1>3, <1>4, <1>5, <1>6, <1>7 DEF Next, Entrypoint, Changes

-----------------------------------------------------------------------------
(* The specification. *)

LEMMA InitIInv == Init => IInv
<1> SUFFICES ASSUME Init PROVE IInv
  OBVIOUS
<1>1. TurnInv
  BY BoundsAssumption DEF Init, CoreInit, GateInit, TurnInv, Stages, Selections
<1>2. CoreInv
  BY DEF Init, CoreInit, CoreInv, CoreTypeOK, Actives, Nodes, Trees, Bases, Steps
<1>3. GateInv
  <2>1. V1Facts \in Facts
    BY DEF V1Facts, NoFacts, Facts, Tables, Ids, Legacy
  <2>2. <<0, 0>> \in Versions \X Versions /\ 0 \in Versions /\ 0 + 0 <= MaxWrites
    BY WritesAssumption DEF Versions
  <2> QED BY <2>1, <2>2 DEF Init, GateInit, GateInv, GateTypeOK, GateSound, Statuses, Versions
<1>4. ConfigInv
  BY DEF Init, ConfigInit, ConfigInv, ConfigTypeOK, Parts, Blocks
<1> QED BY <1>1, <1>2, <1>3, <1>4 DEF IInv

LEMMA NextIInv == IInv /\ [Next]_vars => IInv'
BY NextTurn, NextCore, NextGate, NextConfig DEF IInv

LEMMA Invariance == Spec => []IInv
<1> QED BY InitIInv, NextIInv, PTL DEF Spec

(* Everything a start keeps and changes stays in its type (TypeOK). *)
THEOREM TypeCorrect == Spec => []TypeOK
<1>1. IInv => TypeOK
  BY DEF IInv, TurnInv, CoreInv, GateInv, ConfigInv, TypeOK
<1> QED BY <1>1, Invariance, PTL

(* The gate lets a database through only when its copy is one version of it and that  *)
(* version is fresh or the pinned v1 schema, whoever writes meanwhile (run_gate).     *)
THEOREM OnlyPinnedPasses == Spec => []GateSound
<1>1. IInv => GateSound
  BY DEF IInv, GateInv
<1> QED BY <1>1, Invariance, PTL

(* Where images only get newer, a version stands in .skill-versions only when every  *)
(* project that has the skill carries it (upgrade_bootstrapped_skills).              *)
THEOREM MarkedWhenUpgraded == ~Downgrade => (Spec => []SkillsMarked)
<1> SUFFICES ASSUME ~Downgrade PROVE Spec => []SkillsMarked
  OBVIOUS
<1>1. Init => MarkInv
  BY ImagesAssumption DEF Init, ConfigInit, MarkInv
<1>2. IInv /\ MarkInv /\ [Next]_vars => MarkInv'
  BY NextMark DEF IInv
<1>3. MarkInv => SkillsMarked
  BY DEF MarkInv, SkillsMarked
<1> QED BY <1>1, <1>2, <1>3, Invariance, PTL DEF Spec

(* A recovery that refuses, or would have to, touches neither the active entry nor a *)
(* generation: not with a baseline that does not load, and not with an archive that  *)
(* is not what the manifest says (cmd_recover).                                      *)
THEOREM RefusalsTouchNothing == Spec => RefusedUntouched
<1>1. ASSUME IInv, [Next]_vars
      PROVE  [stage = "core" /\ stage' \in {"core", "blocked"} /\ base # "sound"
                => active' = active /\ gen' = gen]_vars
  <2> SUFFICES ASSUME stage = "core", stage' \in {"core", "blocked"}, base # "sound"
               PROVE  active' = active /\ gen' = gen
    OBVIOUS
  <2>1. CoreInv
    BY <1>1 DEF IInv
  <2>2. CASE RecoverCore
    <3>1. rpc \in {"idle", "extract", "compare", "done", "refused"} /\ (rpc = "compare" => ~StagedMatches)
      BY <2>1 DEF CoreInv, CoreTypeOK, Steps, StagedMatches
    <3> QED BY <2>2, <3>1 DEF RecoverCore, Recovery, Verify, Unpack, CompareStaged, Place, Switch, Relink,
              PruneGenerations
  <2>3. CASE CoreReturns
    BY <2>3 DEF CoreReturns
  <2>4. CASE UNCHANGED vars
    BY <2>4 DEF vars, coreVars
  <2>5. ~(Crash \/ Restart \/ Deploy \/ Changes \/ Writes)
    BY DEF Crash, Restart, Deploy, Changes, CoreChanges, SelectionChanges, LineSwitched, AgentWritten,
       SkillEnabled, SchemaChanges, Writes
  <2>6. ~(Start \/ RunGate \/ GateReturns \/ EnsureSelection \/ InstallPackages \/ RefuseReserved
            \/ RunConfig \/ ConfigReturns \/ RunRest)
    BY DEF Start, RunGate, GateReturns, EnsureSelection, InstallPackages, RefuseReserved, RunConfig,
       ConfigReturns, RunRest
  <2> QED BY <1>1, <2>2, <2>3, <2>4, <2>5, <2>6 DEF Next, Entrypoint
<1> QED BY <1>1, Invariance, PTL DEF Spec, RefusedUntouched

(* No start overwrites or removes an agent that a user wrote under a name that no     *)
(* image ships, whatever crashes in the middle (deploy_native_agents,                 *)
(* undeploy_native_agents).                                                           *)
THEOREM UsersKeepTheirAgents == Spec => UserAgentsKept
<1>1. ASSUME IInv, [Next]_vars
      PROVE  [\A n \in Agents \ UNION {Ships[i] : i \in Images} :
                 agent[n] = "user" => agent'[n] = "user"]_vars
  <2> SUFFICES ASSUME NEW n \in Agents \ UNION {Ships[i] : i \in Images}, agent[n] = "user"
               PROVE  agent'[n] = "user"
    OBVIOUS
  <2>1. /\ n \in Names /\ n \notin Ghosts /\ n \notin manifest /\ n \notin Shipped
        /\ agent \in [Names -> {"none", "user", "image"}]
    BY <1>1, ShippedIs, NamesAssumption DEF IInv, ConfigInv, ConfigTypeOK, Released, Names
  <2>2. CASE RunConfig
    <3>1. CASE PruneAgents
      BY <2>1, <3>1 DEF PruneAgents, Deletable
    <3>2. CASE DeployAgent
      BY <2>1, <3>2 DEF DeployAgent
    <3>3. CASE UndeployAgents
      BY <2>1, <3>3 DEF UndeployAgents
    <3>4. CASE Line \/ RecordManifest \/ MergeProjectLsp \/ SkillsCurrent \/ UpgradeSkill \/ MarkSkills
                 \/ SyncAgentsMd
      BY <3>4 DEF Line, RecordManifest, MergeProjectLsp, SkillsCurrent, UpgradeSkill, MarkSkills,
         SyncAgentsMd
    <3> QED BY <2>2, <3>1, <3>2, <3>3, <3>4 DEF RunConfig, Configure
  <2>3. CASE AgentWritten
    BY <2>1, <2>3 DEF AgentWritten
  <2>4. CASE Start \/ RecoverCore \/ CoreReturns \/ RunGate \/ GateReturns \/ EnsureSelection
               \/ InstallPackages \/ RefuseReserved \/ ConfigReturns \/ RunRest \/ Crash
    BY <2>4 DEF Start, RecoverCore, CoreReturns, RunGate, GateReturns, EnsureSelection,
       InstallPackages, RefuseReserved, ConfigReturns, RunRest, Crash, ConfigLeaves, configVars
  <2>5. CASE Restart \/ Deploy \/ CoreChanges \/ SelectionChanges \/ SchemaChanges \/ Writes
               \/ LineSwitched \/ SkillEnabled
    BY <2>5 DEF Restart, Deploy, CoreChanges, SelectionChanges, SchemaChanges, Writes, LineSwitched,
       SkillEnabled, configVars
  <2>6. CASE UNCHANGED vars
    BY <2>6 DEF vars, configVars
  <2> QED BY <1>1, <2>2, <2>3, <2>4, <2>5, <2>6 DEF Next, Entrypoint, Changes
<1> QED BY <1>1, Invariance, PTL DEF Spec, UserAgentsKept

-----------------------------------------------------------------------------
(* The workspace: types. *)

\* What a step of an operation may change beside the files.
OpsTyped ==
    /\ op \in [Ops -> OpStates]
    /\ \A o \in Ops : op[o].pc = "run" => op[o].todo # <<>>
    /\ page \in Lists \union {Unset}
    /\ boot \in [pc : {"first", "sleep", "pass", "consistent", "gave up"}, round : 0..Rounds,
                 op : Ops \union {Unset}]
FilesTyped ==
    /\ dirs \subseteq ProjectNames /\ visible \in BOOLEAN /\ settings \in Settings
    /\ disabled \subseteq ProjectNames /\ feats \in [ProjectNames -> SUBSET Features]
    /\ remotes \subseteq ProjectNames
    /\ requests \in 0..MaxRequests /\ mishaps \in 0..MaxMishaps

\* A temporary file is of the merge that is under way.
Staged(o) ==
    op[o].tmp # Unset =>
      /\ op[o].pc = "run"
      /\ \/ Now(o).do \in {"register", "unregister", "notify"} /\ op[o].tmp \in Settings
         \/ Now(o).do \in {"hide", "unhide"} /\ op[o].tmp \in Marks
AllStaged == \A o \in Ops : Staged(o)
WorkspaceTyped == FilesTyped /\ OpsTyped /\ AllStaged

LEMMA IsTyped == ProjectTypeOK <=> FilesTyped /\ OpsTyped
BY DEF ProjectTypeOK, FilesTyped, OpsTyped

LEMMA NoOpTyped == NoOp \in OpStates /\ NoOp.pc = "idle" /\ NoOp.tmp = Unset /\ NoOp.name \in Targets
<1>1. (CHOOSE n \in Targets : TRUE) \in Targets /\ (CHOOSE f \in Features : TRUE) \in Features
  BY TargetsAssumption, FeaturesAssumption
<1>2. <<>> \in Seq(OpSteps)
  OBVIOUS
<1> QED BY <1>1, <1>2 DEF NoOp, OpStates, Kinds, Sights, NoSight

LEMMA StepTyped ==
    ASSUME NEW c \in Commands, NEW n \in ProjectNames
    PROVE  Step(c, n) \in OpSteps /\ Step(c, n).do = c /\ Step(c, n).name = n
BY DEF Step, OpSteps

\* A sequence of the elements of a set of steps.
LEMMA ListTyped ==
    ASSUME NEW S, IsFiniteSet(S), S \subseteq OpSteps
    PROVE  SetToSeq(S) \in Seq(OpSteps) /\ (S # {} => SetToSeq(S) # <<>>)
<1>1. Cardinality(S) \in Nat /\ ExistsBijection(1..Cardinality(S), S)
  BY FS_CardinalityType
<1>2. PICK f : f \in Bijection(1..Cardinality(S), S)
  BY <1>1 DEF ExistsBijection
<1>3. f \in [1..Cardinality(S) -> S] /\ IsInjective(f)
  BY <1>2 DEF Bijection, Injection, IsInjective
<1>4. SetToSeq(S) \in [1..Cardinality(S) -> S]
  BY <1>3 DEF SetToSeq
<1>5. SetToSeq(S) \in Seq(S) /\ Len(SetToSeq(S)) = Cardinality(S)
  BY <1>1, <1>4
<1>6. S # {} => Cardinality(S) # 0
  BY FS_EmptySet
<1> QED BY <1>5, <1>6

LEMMA OrderTyped ==
    ASSUME NEW S, IsFiniteSet(S), S # {}, S \subseteq OpSteps, NEW s \in SetToSeqs(S)
    PROVE  s \in Seq(OpSteps) /\ s # <<>> /\ \A i \in DOMAIN s : s[i] \in S
<1>1. Cardinality(S) \in Nat /\ Cardinality(S) # 0
  BY FS_CardinalityType, FS_EmptySet
<1>2. s \in [1..Cardinality(S) -> S]
  BY DEF SetToSeqs
<1>3. s \in Seq(S) /\ Len(s) = Cardinality(S)
  BY <1>1, <1>2
<1> QED BY <1>1, <1>2, <1>3

LEMMA NamesOf ==
    ASSUME NEW c \in Commands, NEW S \in SUBSET ProjectNames
    PROVE  /\ SetToSeq({Step(c, n) : n \in S}) \in Seq(OpSteps)
           /\ S # {} => SetToSeq({Step(c, n) : n \in S}) # <<>>
<1>1. IsFiniteSet(S)
  BY DirectoriesAssumption, FS_Subset
<1>2. IsFiniteSet({Step(c, n) : n \in S})
  <2> DEFINE f == [n \in S |-> Step(c, n)]
  <2>1. f \in Surjection(S, {Step(c, n) : n \in S})
    BY DEF Surjection
  <2> QED BY <1>1, <2>1, FS_Surjection
<1>3. {Step(c, n) : n \in S} \subseteq OpSteps
  BY StepTyped
<1> QED BY <1>2, <1>3, ListTyped

LEMMA SyncTyped ==
    ASSUME NEW add \in SUBSET ProjectNames, NEW remove \in SUBSET ProjectNames
    PROVE  /\ Syncing(add, remove) \in Seq(OpSteps)
           /\ add \union remove # {} => Syncing(add, remove) # <<>>
<1>1. "register" \in Commands /\ "unregister" \in Commands
  BY DEF Commands
<1>2. \A s, t \in Seq(OpSteps) : s \o t \in Seq(OpSteps) /\ (s # <<>> \/ t # <<>> => s \o t # <<>>)
  <2> TAKE s, t \in Seq(OpSteps)
  <2>1. s \o t \in Seq(OpSteps) /\ Len(s \o t) = Len(s) + Len(t)
    OBVIOUS
  <2>2. s # <<>> \/ t # <<>> => Len(s) + Len(t) # 0
    BY EmptySeq
  <2> QED BY <2>1, <2>2, EmptySeq
<1>3. add # {} \/ remove # {} <=> add \union remove # {}
  OBVIOUS
<1>4. /\ SetToSeq({Step("register", n) : n \in add}) \in Seq(OpSteps)
      /\ add # {} => SetToSeq({Step("register", n) : n \in add}) # <<>>
      /\ SetToSeq({Step("unregister", n) : n \in remove}) \in Seq(OpSteps)
      /\ remove # {} => SetToSeq({Step("unregister", n) : n \in remove}) # <<>>
  BY <1>1, NamesOf
<1> QED BY <1>2, <1>3, <1>4 DEF Syncing

\* A list of steps as it is written down.
LEMMA Listed ==
    ASSUME NEW S, NEW s \in S, NEW t \in S, NEW u \in S, NEW v \in S
    PROVE  /\ <<s>> \in Seq(S) \ {<<>>} /\ <<s, t>> \in Seq(S) \ {<<>>}
           /\ <<s, t, u>> \in Seq(S) \ {<<>>} /\ <<s, t, u, v>> \in Seq(S) \ {<<>>}
OBVIOUS

LEMMA ProgramTyped ==
    ASSUME NEW n \in Targets,
           NEW kind \in {"create", "clone", "enable", "disable", "delete", "remote", "no remote", "reindex"}
    PROVE  Program(kind, n) \in Seq(OpSteps) /\ Program(kind, n) # <<>>
<1>1. n \in ProjectNames
  BY TargetsAssumption
<1>2. \A c \in Commands : Step(c, n) \in OpSteps
  BY <1>1, StepTyped
<1>3. ASSUME NEW s \in OpSteps, NEW t \in OpSteps, NEW u \in OpSteps, NEW v \in OpSteps
      PROVE  /\ <<s>> \in Seq(OpSteps) \ {<<>>} /\ <<s, t>> \in Seq(OpSteps) \ {<<>>}
             /\ <<s, t, u>> \in Seq(OpSteps) \ {<<>>} /\ <<s, t, u, v>> \in Seq(OpSteps) \ {<<>>}
  BY Listed
<1>4. Program(kind, n) \in {Creation("mkdir", n), Creation("clone", n), Enabling(n), Disabling(n),
                           Deletion(n), Remoting(n), Unremoting(n), Indexing(n)}
  BY DEF Program
<1>5. \A c \in {"test", "mkdir", "clone", "register", "unregister", "hide", "unhide", "recall", "rm",
                "look", "origin", "fetch", "remove", "index"} : Step(c, n) \in OpSteps
  BY <1>2 DEF Commands
<1>6. Creation("mkdir", n) \in Seq(OpSteps) \ {<<>>} /\ Creation("clone", n) \in Seq(OpSteps) \ {<<>>}
  BY <1>3, <1>5 DEF Creation
<1>7. Enabling(n) \in Seq(OpSteps) \ {<<>>} /\ Disabling(n) \in Seq(OpSteps) \ {<<>>}
  BY <1>3, <1>5 DEF Enabling, Disabling
<1>8. Deletion(n) \in Seq(OpSteps) \ {<<>>} /\ Remoting(n) \in Seq(OpSteps) \ {<<>>}
  BY <1>3, <1>5 DEF Deletion, Remoting
<1>9. Unremoting(n) \in Seq(OpSteps) \ {<<>>} /\ Indexing(n) \in Seq(OpSteps) \ {<<>>}
  BY <1>3, <1>5 DEF Unremoting, Indexing
<1> QED BY <1>4, <1>6, <1>7, <1>8, <1>9

-----------------------------------------------------------------------------

\* The operation goes on or ends: what it keeps of the record r it stands in.
Moves(o, r) ==
    /\ OpsTyped'
    /\ \A k \in Ops \ {o} : op'[k] = op[k]
    /\ op'[o].tmp = Unset /\ ~op'[o].dead /\ op'[o].pc # "idle"
    /\ op'[o].kind = r.kind /\ op'[o].name = r.name /\ op'[o].before = r.before
    /\ op'[o].solo = r.solo /\ op'[o].late = r.late
Results == {"ok", "failed", "partial", "missing"}

LEMMA EndsStep ==
    ASSUME OpsTyped, NEW o \in Ops, NEW r \in OpStates, NEW result \in Results,
           Ends(o, r, result)
    PROVE  Moves(o, r) /\ op'[o].pc = result
<1> DEFINE s == [r EXCEPT !.pc = result, !.todo = <<>>, !.tmp = Unset, !.dead = FALSE]
<1>1. s \in OpStates /\ s.pc = result /\ s.tmp = Unset /\ ~s.dead /\ s.kind = r.kind
      /\ s.name = r.name /\ s.before = r.before /\ s.solo = r.solo /\ s.late = r.late
  <2>1. <<>> \in Seq(OpSteps)
    OBVIOUS
  <2> QED BY <2>1 DEF OpStates, Results
<1>2. op' = [op EXCEPT ![o] = s]
  BY DEF Ends
<1>3. op' \in [Ops -> OpStates] /\ op'[o] = s /\ \A k \in Ops \ {o} : op'[k] = op[k]
  BY <1>1, <1>2 DEF OpsTyped
<1>4. \A k \in Ops : op'[k].pc = "run" => op'[k].todo # <<>>
  BY <1>1, <1>3 DEF OpsTyped, Results
<1>5. page' \in Lists \union {Unset}
  <2>1. op[o].shown \in Lists \union {Unset}
    BY DEF OpsTyped, OpStates
  <2> QED BY <2>1 DEF Ends, OpsTyped
<1>6. boot' = [boot EXCEPT !.pc = "sleep", !.op = Unset] \/ boot' = boot
  BY DEF Ends, AfterPass
<1>7. boot' \in [pc : {"first", "sleep", "pass", "consistent", "gave up"}, round : 0..Rounds,
                 op : Ops \union {Unset}]
  BY <1>6 DEF OpsTyped
<1> QED BY <1>1, <1>3, <1>4, <1>5, <1>7 DEF Moves, OpsTyped, Results

LEMMA GoStep ==
    ASSUME OpsTyped, NEW o \in Ops, NEW r \in OpStates, r.pc = "run", NEW todo \in Seq(OpSteps),
           Go(o, r, todo)
    PROVE  /\ Moves(o, r)
           /\ todo # <<>> => op'[o].pc = "run" /\ op'[o].todo = todo
           /\ todo = <<>> => op'[o].pc = IF r.ok THEN "ok" ELSE IF r.kind = "undo" THEN "partial" ELSE "failed"
<1>1. CASE todo = <<>>
  <2> DEFINE result == IF r.ok THEN "ok" ELSE IF r.kind = "undo" THEN "partial" ELSE "failed"
  <2>1. result \in Results /\ Ends(o, r, result)
    BY <1>1 DEF Results, Go
  <2> QED BY <1>1, <2>1, EndsStep
<1>2. CASE todo # <<>>
  <2> DEFINE s == [r EXCEPT !.todo = todo, !.tmp = Unset, !.dead = FALSE]
  <2>1. s \in OpStates /\ s.pc = "run" /\ s.tmp = Unset /\ ~s.dead /\ s.kind = r.kind
        /\ s.name = r.name /\ s.before = r.before /\ s.solo = r.solo /\ s.late = r.late
        /\ s.todo = todo
    BY DEF OpStates
  <2>2. op' = [op EXCEPT ![o] = s] /\ page' = page /\ boot' = boot
    BY <1>2 DEF Go
  <2>3. op' \in [Ops -> OpStates] /\ op'[o] = s /\ \A k \in Ops \ {o} : op'[k] = op[k]
    BY <2>1, <2>2 DEF OpsTyped
  <2>4. \A k \in Ops : op'[k].pc = "run" => op'[k].todo # <<>>
    BY <1>2, <2>1, <2>3 DEF OpsTyped
  <2> QED BY <1>2, <2>1, <2>2, <2>3, <2>4 DEF Moves, OpsTyped
<1> QED BY <1>1, <1>2

\* The first of what is left, and the rest of it.
LEMMA FirstTyped ==
    ASSUME OpsTyped, NEW o \in Ops, op[o].pc = "run"
    PROVE  /\ op[o] \in OpStates /\ op[o].todo \in Seq(OpSteps) /\ op[o].todo # <<>>
           /\ Now(o) \in OpSteps /\ Now(o).do \in Commands /\ Target(o) \in ProjectNames
           /\ Tail(op[o].todo) \in Seq(OpSteps)
<1>1. op[o] \in OpStates /\ op[o].todo \in Seq(OpSteps) /\ op[o].todo # <<>>
  BY DEF OpsTyped, OpStates
<1>2. Now(o) \in OpSteps /\ Tail(op[o].todo) \in Seq(OpSteps)
  BY <1>1 DEF Now
<1> QED BY <1>1, <1>2 DEF OpSteps, Target

\* Where a failing command takes its operation.
\* Where a failing command takes its operation: what it did is left, its program may go on.
Ceases(o) ==
    \/ Moves(o, op[o]) /\ op'[o].pc \in {"failed", "partial"}
    \/ Moves(o, op[o]) /\ op[o].kind = "delete" /\ Now(o).do = "unhide"
    \/ Moves(o, op[o]) /\ op[o].kind \in {"sync", "center sync"}
    \/ Moves(o, [op[o] EXCEPT !.kind = "undo"]) /\ op[o].kind = "disable" /\ Now(o).do = "unregister"

LEMMA FailedStep ==
    ASSUME OpsTyped, NEW o \in Ops, op[o].pc = "run", Failed(o)
    PROVE  /\ Ceases(o)
           /\ op[o].kind = "disable" /\ Now(o).do = "unregister" =>
                op'[o].pc = "run" /\ op'[o].todo = <<Step("unhide", Target(o))>>
           /\ op[o].kind = "delete" /\ Now(o).do = "unhide" /\ Tail(op[o].todo) # <<>> =>
                op'[o].pc = "run" /\ op'[o].todo = Tail(op[o].todo)
           /\ op'[o].pc = "partial" => \/ op[o].kind \in {"enable", "remote", "undo"}
                                       \/ op[o].kind = "delete" /\ Now(o).do \in {"rm", "fetch"}
<1> DEFINE kind == op[o].kind
           c == Now(o).do
<1>1. op[o] \in OpStates /\ op[o].pc = "run" /\ Tail(op[o].todo) \in Seq(OpSteps)
      /\ Target(o) \in ProjectNames
  BY FirstTyped
<1>2. CASE kind = "disable" /\ c = "unregister"
  <2> DEFINE r == [op[o] EXCEPT !.kind = "undo", !.ok = FALSE]
  <2>1. r \in OpStates /\ r.pc = "run" /\ r.kind = "undo"
    BY <1>1 DEF OpStates, Kinds
  <2>2. <<Step("unhide", Target(o))>> \in Seq(OpSteps) /\ <<Step("unhide", Target(o))>> # <<>>
    BY <1>1, StepTyped DEF Commands
  <2>3. Go(o, r, <<Step("unhide", Target(o))>>)
    BY <1>2 DEF Failed, Undo
  <2> HIDE DEF r
  <2>4. Moves(o, r) /\ op'[o].pc = "run" /\ op'[o].todo = <<Step("unhide", Target(o))>>
    BY <2>1, <2>2, <2>3, GoStep
  <2>5. Moves(o, [op[o] EXCEPT !.kind = "undo"])
    BY <1>1, <2>4 DEF r, Moves, OpStates
  <2> QED BY <1>2, <2>4, <2>5 DEF Ceases
<1>3. CASE \/ kind = "enable" /\ c = "register"
           \/ kind \in {"delete", "remote"} /\ c \in {"rm", "fetch"}
           \/ kind = "undo"
  <2>1. Ends(o, op[o], "partial")
    BY <1>3 DEF Failed, End
  <2> QED BY <1>1, <1>3, <2>1, EndsStep DEF Ceases, Results
<1>4. CASE kind = "delete" /\ c = "unhide"
  <2>1. Go(o, op[o], Tail(op[o].todo))
    BY <1>4 DEF Failed, Done
  <2> QED BY <1>1, <1>4, <2>1, GoStep DEF Ceases
<1>5. CASE kind \in {"sync", "center sync"}
  <2> DEFINE r == [op[o] EXCEPT !.ok = FALSE]
  <2>1. r \in OpStates /\ r.pc = "run" /\ r.kind = kind
    BY <1>1 DEF OpStates
  <2>2. Go(o, r, Tail(op[o].todo))
    BY <1>5 DEF Failed
  <2> HIDE DEF r
  <2>3. Moves(o, r) /\ op'[o].pc # "partial"
    BY <1>1, <1>5, <2>1, <2>2, GoStep
  <2>4. Moves(o, op[o])
    BY <1>1, <2>3 DEF r, Moves, OpStates
  <2> QED BY <1>5, <2>3, <2>4 DEF Ceases
<1>6. CASE /\ ~(kind = "disable" /\ c = "unregister") /\ ~(kind = "enable" /\ c = "register")
           /\ ~(kind = "delete" /\ c = "unhide") /\ ~(kind \in {"delete", "remote"} /\ c \in {"rm", "fetch"})
           /\ kind \notin {"sync", "center sync", "undo"}
  <2>1. Ends(o, op[o], "failed")
    BY <1>6 DEF Failed, End
  <2> QED BY <1>1, <1>6, <2>1, EndsStep DEF Ceases, Results
<1> QED BY <1>2, <1>3, <1>4, <1>5, <1>6

\* A command out of time is taken for done, and the operation is late.
LEMMA TimesOutStep ==
    ASSUME OpsTyped, NEW o \in Ops, op[o].pc = "run", TimesOut(o)
    PROVE  Moves(o, [op[o] EXCEPT !.late = TRUE])
<1>1. op[o] \in OpStates /\ op[o].pc = "run" /\ Tail(op[o].todo) \in Seq(OpSteps)
  BY FirstTyped
<1> DEFINE r == [op[o] EXCEPT !.late = TRUE]
<1>2. r \in OpStates /\ r.pc = "run"
  BY <1>1 DEF OpStates
<1>3. Go(o, r, Tail(op[o].todo))
  BY DEF TimesOut
<1> HIDE DEF r
<1> QED BY <1>1, <1>2, <1>3, GoStep DEF r

\* The next command, when one is done.
LEMMA DoneStep ==
    ASSUME OpsTyped, NEW o \in Ops, op[o].pc = "run", Done(o)
    PROVE  /\ Moves(o, op[o])
           /\ Tail(op[o].todo) # <<>> => op'[o].pc = "run" /\ op'[o].todo = Tail(op[o].todo)
           /\ Tail(op[o].todo) = <<>> =>
                op'[o].pc = IF op[o].ok THEN "ok" ELSE IF op[o].kind = "undo" THEN "partial" ELSE "failed"
<1>1. op[o] \in OpStates /\ op[o].pc = "run" /\ Tail(op[o].todo) \in Seq(OpSteps)
  BY FirstTyped
<1> QED BY <1>1, GoStep DEF Done

LEMMA StagedTyped ==
    ASSUME AllStaged, NEW o \in Ops, NEW r, Moves(o, r)
    PROVE  OpsTyped' /\ AllStaged'
<1>1. \A k \in Ops \ {o} : Staged(k)' <=> Staged(k)
  BY DEF Moves, Staged, Now
<1>2. Staged(o)'
  BY DEF Moves, Staged
<1> QED BY <1>1, <1>2 DEF AllStaged, Moves

LEMMA CeasesTyped ==
    ASSUME AllStaged, NEW o \in Ops, Ceases(o)
    PROVE  OpsTyped' /\ AllStaged'
BY StagedTyped DEF Ceases

\* What a merge prepares.
LEMMA EditedTyped ==
    ASSUME FilesTyped, OpsTyped, NEW o \in Ops, op[o].pc = "run", Now(o).do \in Merges
    PROVE  \/ Now(o).do \in {"register", "unregister", "notify"} /\ Edited(o) \in Settings
           \/ Now(o).do \in {"hide", "unhide"} /\ Edited(o) \in Marks
<1>1. Target(o) \in ProjectNames
  BY FirstTyped
<1> QED BY <1>1 DEF FilesTyped, Merges, Edited, Notified, Settings, Marks

\* A step of an operation keeps the types, nobody else's record changes, and of its own it
\* keeps what it began with.
Holds(o, r) ==
    /\ r.name = op[o].name /\ r.before = op[o].before /\ r.solo = op[o].solo
    /\ op[o].late => r.late
Works(o) ==
    /\ FilesTyped' /\ OpsTyped' /\ AllStaged'
    /\ \A k \in Ops \ {o} : op'[k] = op[k]
    /\ Holds(o, op'[o]) /\ op'[o].pc # "idle" /\ (op[o].dead \/ ~op'[o].dead)

LEMMA MovesWork ==
    ASSUME AllStaged, OpsTyped, NEW o \in Ops, FilesTyped',
           Ceases(o) \/ \E r \in OpStates : Moves(o, r) /\ Holds(o, r)
    PROVE  Works(o)
<1>1. CASE Ceases(o)
  <2>1. Holds(o, op[o]) /\ Holds(o, [op[o] EXCEPT !.kind = "undo"])
    BY DEF Holds, OpsTyped, OpStates
  <2> QED BY <1>1, <2>1, StagedTyped DEF Works, Holds, Moves, Ceases
<1>2. CASE \E r \in OpStates : Moves(o, r) /\ Holds(o, r)
  BY <1>2, StagedTyped DEF Works, Holds, Moves
<1> QED BY <1>1, <1>2

LEMMA LeftTyped ==
    ASSUME WorkspaceTyped, NEW o \in Ops, op[o].pc = "run"
    PROVE  /\ \A result \in Results : End(o, result) => Works(o) \/ ~FilesTyped'
           /\ Failed(o) \/ TimesOut(o) \/ Done(o) => Works(o) \/ ~FilesTyped'
<1>1. op[o] \in OpStates /\ [op[o] EXCEPT !.late = TRUE] \in OpStates
  <2>1. op[o] \in OpStates
    BY FirstTyped DEF WorkspaceTyped
  <2> QED BY <2>1 DEF OpStates
<1>2. Holds(o, op[o]) /\ Holds(o, [op[o] EXCEPT !.late = TRUE])
  BY <1>1 DEF Holds, OpStates
<1> QED BY <1>1, <1>2, EndsStep, FailedStep, TimesOutStep, DoneStep, MovesWork DEF WorkspaceTyped, End

LEMMA MishapTyped ==
    ASSUME mishaps \in 0..MaxMishaps, Mishap PROVE mishaps' \in 0..MaxMishaps
BY ProjectBoundsAssumption DEF Mishap

LEMMA MoreLeft ==
    ASSUME NEW S, NEW s \in Seq(S), s # <<>>, Len(s) # 1
    PROVE  Tail(s) # <<>>
<1>1. Len(s) \in Nat \ {0} /\ Len(<<>>) = 0
  BY EmptySeq
<1>2. Len(Tail(s)) = Len(s) - 1
  BY HeadTailProperties
<1>3. Len(Tail(s)) # 0
  BY <1>1, <1>2
<1> QED BY <1>1, <1>3, Zenon

LEMMA WorkTyped ==
    ASSUME WorkspaceTyped, NEW o \in Ops, OpWork(o)
    PROVE  Works(o) /\ op[o].pc = "run"
<1>1. op[o].pc = "run"
  BY DEF OpWork, Test, MakeDirectory, Edit, Install, Recall, RemoveDirectory, Feature, Remote,
     Reindex, See, Lost, Runs
<1>2. /\ op[o] \in OpStates /\ op[o].todo \in Seq(OpSteps) /\ op[o].todo # <<>>
      /\ Now(o) \in OpSteps /\ Target(o) \in ProjectNames /\ Tail(op[o].todo) \in Seq(OpSteps)
  BY <1>1, FirstTyped DEF WorkspaceTyped
<1>3. /\ \A result \in Results : End(o, result) => Works(o) \/ ~FilesTyped'
      /\ Failed(o) \/ TimesOut(o) \/ Done(o) => Works(o) \/ ~FilesTyped'
  BY <1>1, LeftTyped
<1>4. Mishap => mishaps' \in 0..MaxMishaps
  BY MishapTyped DEF WorkspaceTyped, FilesTyped
<1> USE DEF FilesTyped
<1>5. CASE Test(o)
  BY <1>1, <1>3, <1>5 DEF Test, WorkspaceTyped, Results
<1>6. CASE MakeDirectory(o)
  BY <1>1, <1>2, <1>3, <1>4, <1>6 DEF MakeDirectory, WorkspaceTyped
<1>7. CASE Edit(o)
  <2>1. CASE Mishap /\ Failed(o)
    BY <1>1, <1>3, <1>4, <1>7, <2>1 DEF Edit, WorkspaceTyped
  <2>2. CASE /\ op' = [op EXCEPT ![o].tmp = Edited(o)]
             /\ UNCHANGED <<boot, page, mishaps>>
    <3> DEFINE r == [op[o] EXCEPT !.tmp = Edited(o)]
    <3>1. \/ Now(o).do \in {"register", "unregister", "notify"} /\ Edited(o) \in Settings
          \/ Now(o).do \in {"hide", "unhide"} /\ Edited(o) \in Marks
      BY <1>1, <1>7, EditedTyped DEF Edit, WorkspaceTyped
    <3>2. r \in OpStates /\ r.pc = "run" /\ r.todo = op[o].todo /\ r.tmp = Edited(o)
      BY <1>1, <1>2, <3>1 DEF OpStates
    <3> HIDE DEF r
    <3>3. op' = [op EXCEPT ![o] = r]
      BY <2>2 DEF r
    <3>4. op' \in [Ops -> OpStates] /\ op'[o] = r /\ \A k \in Ops \ {o} : op'[k] = op[k]
      BY <3>2, <3>3 DEF WorkspaceTyped, OpsTyped
    <3>5. OpsTyped'
      BY <1>2, <2>2, <3>2, <3>4 DEF WorkspaceTyped, OpsTyped
    <3>6. AllStaged'
      <4>1. \A k \in Ops \ {o} : Staged(k)' <=> Staged(k)
        BY <3>4 DEF Staged, Now
      <4>2. Staged(o)'
        BY <3>1, <3>2, <3>4 DEF Staged, Now
      <4> QED BY <4>1, <4>2 DEF AllStaged, WorkspaceTyped
    <3>7. FilesTyped'
      BY <1>7, <2>2 DEF Edit, WorkspaceTyped
    <3>8. Holds(o, op'[o]) /\ op'[o].pc # "idle" /\ op'[o].dead = op[o].dead
      BY <1>2, <3>2, <3>4 DEF Holds, OpStates, r
    <3> QED BY <1>1, <3>4, <3>5, <3>6, <3>7, <3>8 DEF Works
  <2> QED BY <1>7, <2>1, <2>2 DEF Edit
<1>8. CASE Install(o)
  <2>1. Staged(o)
    BY DEF WorkspaceTyped, AllStaged
  <2>2. settings' \in Settings /\ disabled' \subseteq ProjectNames
    BY <1>8, <2>1 DEF Install, Staged, WorkspaceTyped, Marks, Merges
  <2> QED BY <1>1, <1>3, <1>4, <1>8, <2>2 DEF Install, WorkspaceTyped
<1>9. CASE Recall(o)
  <2>1. CASE Go(o, op[o], <<Step("unhide", Target(o))>> \o Tail(op[o].todo))
    <3>1. <<Step("unhide", Target(o))>> \o Tail(op[o].todo) \in Seq(OpSteps)
      BY <1>2, StepTyped DEF Commands
    <3>2. Holds(o, op[o])
      BY DEF Holds
    <3> QED BY <1>1, <1>2, <1>9, <2>1, <3>1, <3>2, GoStep, MovesWork DEF Recall, WorkspaceTyped
  <2> QED BY <1>1, <1>3, <1>9, <2>1 DEF Recall, WorkspaceTyped
<1>10. CASE RemoveDirectory(o)
  BY <1>1, <1>2, <1>3, <1>4, <1>10 DEF RemoveDirectory, WorkspaceTyped
<1>11. CASE Feature(o)
  <2>1. op[o].feature \in Features
    BY <1>2 DEF OpStates
  <2>2. dirs' \subseteq ProjectNames /\ feats' \in [ProjectNames -> SUBSET Features]
    BY <1>2, <1>11, <2>1 DEF Feature, WorkspaceTyped
  <2> QED BY <1>1, <1>2, <1>3, <1>4, <1>11, <2>2 DEF Feature, WorkspaceTyped
<1>12. CASE Remote(o)
  <2>1. CASE Runs(o, "look") /\ UNCHANGED <<remotes, mishaps>>
             /\ Go(o, [op[o] EXCEPT !.seen.projects = remotes \intersect {Target(o)}], Tail(op[o].todo))
    <3> DEFINE r == [op[o] EXCEPT !.seen.projects = remotes \intersect {Target(o)}]
    <3>1. r \in OpStates /\ r.pc = "run" /\ Holds(o, r)
      BY <1>1, <1>2 DEF OpStates, Sights, WorkspaceTyped, Holds
    <3> HIDE DEF r
    <3>2. Go(o, r, Tail(op[o].todo))
      BY <2>1 DEF r
    <3> QED BY <1>1, <1>2, <1>12, <2>1, <3>1, <3>2, GoStep, MovesWork DEF Remote, WorkspaceTyped
  <2> QED BY <1>1, <1>2, <1>3, <1>4, <1>12, <2>1 DEF Remote, WorkspaceTyped
<1>13. CASE Reindex(o)
  BY <1>1, <1>2, <1>3, <1>4, <1>13 DEF Reindex, WorkspaceTyped
<1>14. CASE See(o)
  <2> DEFINE seen == CASE Now(o).do = "seeDirs" -> [op[o].seen EXCEPT !.dirs = IF visible THEN dirs ELSE {}]
                       [] Now(o).do = "seeProjects" -> [op[o].seen EXCEPT !.projects = settings.projects]
                       [] OTHER -> [op[o].seen EXCEPT !.disabled = disabled]
             last == Len(op[o].todo) = 1
             script == last /\ op[o].kind = "pass"
             work == SetToSeq({Step("register", n) : n \in Missing(seen)})
             todo == IF script THEN work ELSE Tail(op[o].todo)
             pc == IF ~last \/ (script /\ work # <<>>) THEN "run" ELSE "ok"
             r == [op[o] EXCEPT !.seen = seen, !.todo = todo, !.pc = pc]
  <2>1. seen \in Sights
    BY <1>2 DEF OpStates, Sights, Settings, WorkspaceTyped
  <2>2. Missing(seen) \subseteq ProjectNames /\ seen.projects \ seen.dirs \subseteq ProjectNames
    BY <2>1 DEF Missing, Sights
  <2>3. work \in Seq(OpSteps)
    BY <2>2, NamesOf DEF Commands
  <2>4. op' = [op EXCEPT ![o].seen = seen, ![o].todo = IF script THEN work ELSE Tail(@),
                         ![o].pc = IF ~last \/ (script /\ work # <<>>) THEN "run" ELSE "ok"]
    BY <1>14 DEF See
  <2> HIDE DEF seen, work
  <2>5. todo \in Seq(OpSteps) /\ (pc = "run" => todo # <<>>) /\ pc \in {"run", "ok"}
    <3>1. Len(op[o].todo) # 1 => Tail(op[o].todo) # <<>>
      BY <1>2, MoreLeft
    <3>2. todo \in Seq(OpSteps) /\ pc \in {"run", "ok"}
      BY <1>2, <2>3
    <3>3. pc = "run" => todo # <<>>
      BY <3>1
    <3> QED BY <3>2, <3>3
  <2>6. op' = [op EXCEPT ![o] = r]
    BY <2>4 DEF WorkspaceTyped, OpsTyped
  <2> HIDE DEF todo, pc
  <2>7. r \in OpStates /\ r.pc = pc /\ r.todo = todo /\ r.tmp = op[o].tmp /\ r.dead = op[o].dead
        /\ Holds(o, r)
    BY <1>2, <2>1, <2>5 DEF OpStates, Holds
  <2> HIDE DEF r
  <2>8. op' \in [Ops -> OpStates] /\ op'[o] = r /\ \A k \in Ops \ {o} : op'[k] = op[k]
    BY <2>6, <2>7 DEF WorkspaceTyped, OpsTyped
  <2>9. page' \in Lists \union {Unset}
    <3>1. page' \in {[missing |-> Missing(seen), stale |-> seen.projects \ seen.dirs], page}
      BY <1>14 DEF See, seen
    <3>2. [missing |-> Missing(seen), stale |-> seen.projects \ seen.dirs] \in Lists
      BY <2>2 DEF Lists
    <3> QED BY <3>1, <3>2 DEF WorkspaceTyped, OpsTyped
  <2>10. boot' \in [pc : {"first", "sleep", "pass", "consistent", "gave up"}, round : 0..Rounds,
                    op : Ops \union {Unset}]
    <3>1. \/ boot' = boot
          \/ boot' = [boot EXCEPT !.pc = IF boot.round = 0 THEN "sleep" ELSE "consistent", !.op = Unset]
      BY <1>14 DEF See
    <3> QED BY <3>1 DEF WorkspaceTyped, OpsTyped
  <2>11. OpsTyped'
    BY <2>5, <2>7, <2>8, <2>9, <2>10 DEF WorkspaceTyped, OpsTyped
  <2>12. AllStaged'
    <3>1. \A k \in Ops \ {o} : Staged(k)' <=> Staged(k)
      BY <2>8 DEF Staged, Now
    <3>2. op[o].tmp = Unset
      BY <1>14 DEF See, Staged, AllStaged, WorkspaceTyped
    <3>3. Staged(o)'
      BY <2>7, <2>8, <3>2 DEF Staged
    <3> QED BY <3>1, <3>3 DEF AllStaged, WorkspaceTyped
  <2>13. FilesTyped'
    BY <1>14 DEF See, WorkspaceTyped
  <2> QED BY <1>1, <2>5, <2>7, <2>8, <2>11, <2>12, <2>13 DEF Works
<1>15. CASE Lost(o)
  BY <1>1, <1>3, <1>15 DEF Lost, WorkspaceTyped
<1> QED BY <1>1, <1>5, <1>6, <1>7, <1>8, <1>9, <1>10, <1>11, <1>12, <1>13, <1>14, <1>15 DEF OpWork

-----------------------------------------------------------------------------

\* A request begins: what becomes of those that are there.
Arrives(o, r) ==
    /\ op' \in [Ops -> OpStates] /\ AllStaged'
    /\ \A k \in Ops : op'[k].pc = "run" => op'[k].todo # <<>>
    /\ \A k \in Ops \ {o} :
         IF Idle(k) THEN op'[k] = NoOp ELSE op'[k] = [op[k] EXCEPT !.solo = FALSE]
    /\ op'[o] = [r EXCEPT !.pc = "run", !.before = settings,
                         !.solo = visible /\ \A k \in Ops : Idle(k)]

LEMMA AloneTyped ==
    ASSUME WorkspaceTyped, NEW k \in Ops
    PROVE  /\ Alone(op)[k] = [op[k] EXCEPT !.solo = FALSE]
           /\ Alone(op)[k] \in OpStates /\ ~Alone(op)[k].solo /\ Alone(op)[k].pc = op[k].pc
           /\ Alone(op)[k].todo = op[k].todo /\ Alone(op)[k].tmp = op[k].tmp
<1>1. op[k] \in OpStates
  BY DEF WorkspaceTyped, OpsTyped
<1> QED BY <1>1 DEF Alone, OpStates

LEMMA StartedStep ==
    ASSUME WorkspaceTyped, NEW o \in Ops, NEW r \in OpStates, r.todo # <<>>, r.tmp = Unset,
           Started(o, r)
    PROVE  Arrives(o, r)
<1> DEFINE new == [r EXCEPT !.pc = "run", !.before = settings,
                            !.solo = visible /\ \A k \in Ops : Idle(k)]
<1>1. new \in OpStates /\ new.todo # <<>> /\ new.tmp = Unset
  <2> DEFINE alone == visible /\ \A k \in Ops : Idle(k)
  <2>1. settings \in Settings /\ alone \in BOOLEAN
    BY DEF WorkspaceTyped, FilesTyped
  <2> HIDE DEF alone
  <2>2. r.todo # <<>> /\ r.tmp = Unset /\ r \in OpStates
    OBVIOUS
  <2>3. [r EXCEPT !.pc = "run", !.before = settings, !.solo = alone] \in OpStates
    BY <2>1, <2>2 DEF OpStates
  <2>4. /\ [r EXCEPT !.pc = "run", !.before = settings, !.solo = alone].todo = r.todo
        /\ [r EXCEPT !.pc = "run", !.before = settings, !.solo = alone].tmp = r.tmp
    BY <2>2 DEF OpStates
  <2> QED BY <2>2, <2>3, <2>4 DEF alone
<1>2. op' = [k \in Ops |-> IF k = o THEN new ELSE IF Idle(k) THEN NoOp ELSE Alone(op)[k]]
  BY DEF Started
<1> HIDE DEF new
<1>3. op' \in [Ops -> OpStates] /\ op'[o] = new
  BY <1>1, <1>2, NoOpTyped, AloneTyped
<1>4. \A k \in Ops \ {o} :
        IF Idle(k) THEN op'[k] = NoOp ELSE op'[k] = [op[k] EXCEPT !.solo = FALSE]
  BY <1>2, AloneTyped
<1>5. \A k \in Ops : op'[k].pc = "run" => op'[k].todo # <<>>
  <2> SUFFICES ASSUME NEW k \in Ops, k # o, ~Idle(k) PROVE op'[k].todo # <<>>
    BY <1>1, <1>3, <1>4, NoOpTyped
  <2> QED BY <1>2, AloneTyped DEF WorkspaceTyped, OpsTyped, Idle
<1>6. ASSUME NEW k \in Ops PROVE Staged(k)'
  <2>1. CASE k = o
    BY <1>1, <1>3, <2>1 DEF Staged
  <2>2. CASE k # o /\ Idle(k)
    BY <1>4, <2>2, NoOpTyped DEF Staged
  <2>3. CASE k # o /\ ~Idle(k)
    <3>1. op'[k].todo = op[k].todo /\ op'[k].pc = op[k].pc /\ op'[k].tmp = op[k].tmp
      BY <1>2, <2>3, AloneTyped
    <3>2. Staged(k)
      BY DEF WorkspaceTyped, AllStaged
    <3> QED BY <3>1, <3>2 DEF Staged, Now
  <2> QED BY <2>1, <2>2, <2>3
<1> QED BY <1>3, <1>4, <1>5, <1>6 DEF Arrives, AllStaged, new

\* Kinds of operations of which nothing is promised, and commands that merge nothing.
Untold == {"sync", "center sync", "pass", "notify"}
Programs == {"create", "clone", "enable", "disable", "delete", "remote", "no remote", "reindex"}
Harmless == Commands \ (Merges \union {"recall"})

\* What a request may ask for.
Asked(r) ==
    /\ r \in OpStates /\ r.todo # <<>> /\ r.tmp = Unset /\ ~r.dead /\ ~r.late
    /\ \/ r.kind \in Programs /\ r.todo = Program(r.kind, r.name)
       \/ r.kind \in {"feature", "compare"} /\ \A i \in DOMAIN r.todo : r.todo[i].do \in Harmless
       \/ r.kind \in Untold

LEMMA OneStep ==
    ASSUME NEW c \in Commands, NEW n \in Targets
    PROVE  /\ <<Step(c, n)>> \in Seq(OpSteps) /\ <<Step(c, n)>> # <<>>
           /\ \A i \in DOMAIN <<Step(c, n)>> : <<Step(c, n)>>[i].do = c
<1>1. Step(c, n) \in OpSteps /\ Step(c, n).do = c
  BY StepTyped, TargetsAssumption
<1> QED BY <1>1

LEMMA AskedProgram ==
    ASSUME NEW kind \in Programs, NEW n \in Targets
    PROVE  Asked([NoOp EXCEPT !.kind = kind, !.name = n, !.todo = Program(kind, n)])
<1>1. Program(kind, n) \in Seq(OpSteps) /\ Program(kind, n) # <<>>
  BY ProgramTyped DEF Programs
<1>2. kind \in Kinds
  BY DEF Kinds, Programs
<1>3. NoOp \in OpStates /\ NoOp.tmp = Unset /\ ~NoOp.dead /\ ~NoOp.late
  BY NoOpTyped DEF NoOp
<1> QED BY <1>1, <1>2, <1>3 DEF Asked, OpStates

LEMMA AskedFeature ==
    ASSUME NEW does \in {"enable", "disable"}, NEW n \in Targets, NEW f \in Features
    PROVE  Asked([NoOp EXCEPT !.kind = "feature", !.name = n, !.feature = f, !.todo = <<Step(does, n)>>])
<1>1. does \in Commands /\ does \in Harmless
  BY DEF Commands, Harmless, Merges
<1>2. NoOp \in OpStates /\ NoOp.tmp = Unset /\ ~NoOp.dead /\ ~NoOp.late
  BY NoOpTyped DEF NoOp
<1>3. "feature" \in Kinds
  BY DEF Kinds
<1> DEFINE todo == <<Step(does, n)>>
<1>4. todo \in Seq(OpSteps) /\ todo # <<>> /\ \A i \in DOMAIN todo : todo[i].do \in Harmless
  BY <1>1, OneStep
<1> HIDE DEF todo
<1>5. Asked([NoOp EXCEPT !.kind = "feature", !.name = n, !.feature = f, !.todo = todo])
  BY <1>2, <1>3, <1>4 DEF Asked, OpStates
<1> QED BY <1>5 DEF todo

LEMMA AskedUntold ==
    ASSUME NEW kind \in Untold, NEW todo \in Seq(OpSteps), todo # <<>>, NEW shown \in Lists \union {Unset}
    PROVE  /\ Asked([NoOp EXCEPT !.kind = kind, !.todo = todo])
           /\ Asked([NoOp EXCEPT !.kind = kind, !.todo = todo, !.shown = shown])
<1>1. NoOp \in OpStates /\ NoOp.tmp = Unset /\ ~NoOp.dead /\ ~NoOp.late
  BY NoOpTyped DEF NoOp
<1>2. kind \in Kinds
  BY DEF Kinds, Untold
<1> QED BY <1>1, <1>2 DEF Asked, OpStates

LEMMA ReadingTyped ==
    ASSUME NEW n \in ProjectNames
    PROVE  Reading(n) \in Seq(OpSteps) /\ Reading(n) # <<>>
BY StepTyped DEF Reading, Commands

LEMMA AskedCompare ==
    ASSUME NEW order \in SetToSeqs({Step(c, NoOp.name) : c \in {"seeDirs", "seeProjects", "seeDisabled"}})
    PROVE  Asked([NoOp EXCEPT !.kind = "compare", !.todo = order])
<1> DEFINE sees == {Step(c, NoOp.name) : c \in {"seeDirs", "seeProjects", "seeDisabled"}}
<1>1. NoOp \in OpStates /\ NoOp.tmp = Unset /\ ~NoOp.dead /\ ~NoOp.late /\ NoOp.name \in ProjectNames
  BY NoOpTyped, TargetsAssumption DEF NoOp
<1>2. \A s \in sees : s \in OpSteps /\ s.do \in Harmless
  BY <1>1, StepTyped DEF Commands, Harmless, Merges
<1>3. sees = {Step("seeDirs", NoOp.name), Step("seeProjects", NoOp.name), Step("seeDisabled", NoOp.name)}
  OBVIOUS
<1>4. IsFiniteSet(sees) /\ sees # {}
  <2> DEFINE a == {Step("seeDirs", NoOp.name)}
             b == a \union {Step("seeProjects", NoOp.name)}
             c == b \union {Step("seeDisabled", NoOp.name)}
  <2>1. IsFiniteSet(a)
    BY FS_Singleton
  <2>2. IsFiniteSet(b)
    BY <2>1, FS_AddElement
  <2>3. IsFiniteSet(c)
    BY <2>2, FS_AddElement
  <2>4. sees = c
    BY <1>3
  <2> QED BY <2>3, <2>4
<1>5. order \in Seq(OpSteps) /\ order # <<>> /\ \A i \in DOMAIN order : order[i] \in sees
  BY <1>2, <1>4, OrderTyped
<1>6. \A i \in DOMAIN order : order[i].do \in Harmless
  BY <1>2, <1>5
<1>7. "compare" \in Kinds
  BY DEF Kinds
<1> QED BY <1>1, <1>5, <1>6, <1>7 DEF Asked, OpStates

\* Who asks: the admin's pages, the center, an upgrade, and the loop of a start.
Requests(o) == Begin(o) \/ Notify(o) \/ Reconcile(o) \/ Compare(o) \/ FixAll(o) \/ CenterAsks(o)

LEMMA RequestTyped ==
    ASSUME requests \in 0..MaxRequests, Request PROVE requests' \in 0..MaxRequests
BY ProjectBoundsAssumption DEF Request

LEMMA RequestStep ==
    ASSUME WorkspaceTyped, NEW o \in Ops, Requests(o)
    PROVE  /\ \E r : Asked(r) /\ Started(o, r)
           /\ UNCHANGED <<dirs, visible, settings, disabled, feats, remotes, boot, mishaps>>
           /\ page' \in Lists \union {Unset} /\ requests' \in 0..MaxRequests
<1> USE DEF WorkspaceTyped, FilesTyped, OpsTyped
<1>1. NoOp.name \in Targets /\ NoOp.name \in ProjectNames
  BY NoOpTyped, TargetsAssumption
<1>2. Request => requests' \in 0..MaxRequests
  BY RequestTyped
<1>3. CASE Begin(o)
  <2>1. CASE \E kind \in Programs, n \in Targets :
               Started(o, [NoOp EXCEPT !.kind = kind, !.name = n, !.todo = Program(kind, n)])
    BY <1>2, <1>3, <2>1, AskedProgram DEF Begin
  <2>2. CASE \E does \in {"enable", "disable"}, n \in Targets, f \in Features :
               Started(o, [NoOp EXCEPT !.kind = "feature", !.name = n, !.feature = f, !.todo = <<Step(does, n)>>])
    BY <1>2, <1>3, <2>2, AskedFeature DEF Begin
  <2> QED BY <1>3, <2>1, <2>2 DEF Begin, Programs
<1>4. CASE Notify(o)
  <2>1. Asked([NoOp EXCEPT !.kind = "notify", !.todo = <<Step("notify", NoOp.name)>>])
    BY <1>1, OneStep, AskedUntold DEF Commands, Untold
  <2> QED BY <1>2, <1>4, <2>1 DEF Notify
<1>5. CASE Reconcile(o)
  <2>1. Asked([NoOp EXCEPT !.kind = "pass", !.todo = Reading(NoOp.name)])
    BY <1>1, ReadingTyped, AskedUntold DEF Untold
  <2> QED BY <1>2, <1>5, <2>1 DEF Reconcile
<1>6. CASE Compare(o)
  BY <1>2, <1>6, AskedCompare DEF Compare
<1>7. CASE FixAll(o)
  <2>1. page \in Lists /\ page.missing \union page.stale # {}
    BY <1>7 DEF FixAll
  <2>2. Syncing(page.missing, page.stale) \in Seq(OpSteps) /\ Syncing(page.missing, page.stale) # <<>>
    BY <2>1, SyncTyped DEF Lists
  <2>3. Asked([NoOp EXCEPT !.kind = "sync", !.todo = Syncing(page.missing, page.stale), !.shown = page])
    BY <2>1, <2>2, AskedUntold DEF Untold
  <2> QED BY <1>7, <2>3 DEF FixAll, Post
<1>8. CASE CenterAsks(o)
  <2>1. PICK n \in Targets :
          \/ \E kind \in Programs :
               Started(o, [NoOp EXCEPT !.kind = kind, !.name = n, !.todo = Program(kind, n)])
          \/ \E f \in Features :
               Started(o, [NoOp EXCEPT !.kind = "feature", !.name = n, !.feature = f, !.todo = <<Step("enable", n)>>])
          \/ \E sync \in {Syncing({n}, {}), Syncing({}, {n})} :
               Started(o, [NoOp EXCEPT !.kind = "center sync", !.todo = sync])
    BY <1>8 DEF CenterAsks, Programs
  <2>2. \A sync \in {Syncing({n}, {}), Syncing({}, {n})} :
          Asked([NoOp EXCEPT !.kind = "center sync", !.todo = sync])
    <3>1. {n} \in SUBSET ProjectNames /\ {} \in SUBSET ProjectNames
      BY TargetsAssumption
    <3>2. Syncing({n}, {}) \in Seq(OpSteps) /\ Syncing({n}, {}) # <<>>
      BY <3>1, SyncTyped
    <3>3. Syncing({}, {n}) \in Seq(OpSteps) /\ Syncing({}, {n}) # <<>>
      BY <3>1, SyncTyped
    <3> QED BY <3>2, <3>3, AskedUntold DEF Untold
  <2> QED BY <1>2, <1>8, <2>1, <2>2, AskedProgram, AskedFeature DEF CenterAsks
<1> QED BY <1>3, <1>4, <1>5, <1>6, <1>7, <1>8 DEF Requests

LEMMA PassStep ==
    ASSUME WorkspaceTyped, NEW o \in Ops, BootPass(o)
    PROVE  /\ op' = op \/ \E r : Asked(r) /\ Started(o, r)
           /\ UNCHANGED <<dirs, visible, settings, disabled, feats, remotes, page, requests, mishaps>>
           /\ boot' \in [pc : {"first", "sleep", "pass", "consistent", "gave up"}, round : 0..Rounds,
                        op : Ops \union {Unset}]
<1> DEFINE round == IF boot.pc = "first" THEN 0 ELSE boot.round + 1
<1>1. boot.round \in 0..Rounds /\ Rounds \in Nat
  BY ProjectBoundsAssumption DEF WorkspaceTyped, OpsTyped
<1>2. round \in Nat
  BY <1>1
<1>3. /\ round > Rounds => boot' = [boot EXCEPT !.pc = "gave up"] /\ op' = op
      /\ ~(round > Rounds) /\ WorkspaceReady =>
           /\ Started(o, [NoOp EXCEPT !.kind = "pass", !.todo = Reading(NoOp.name)])
           /\ boot' = [pc |-> "pass", round |-> round, op |-> o]
      /\ ~(round > Rounds) /\ ~WorkspaceReady =>
           boot' = [boot EXCEPT !.pc = "sleep", !.round = round] /\ op' = op
      /\ UNCHANGED <<dirs, visible, settings, disabled, feats, remotes, page, requests, mishaps>>
  BY DEF BootPass
<1> HIDE DEF round
<1>4. ~(round > Rounds) => round \in 0..Rounds
  BY <1>1, <1>2
<1>5. Asked([NoOp EXCEPT !.kind = "pass", !.todo = Reading(NoOp.name)])
  BY NoOpTyped, TargetsAssumption, ReadingTyped, AskedUntold DEF Untold
<1>6. boot' \in [pc : {"first", "sleep", "pass", "consistent", "gave up"}, round : 0..Rounds,
                op : Ops \union {Unset}]
  <2>1. boot \in [pc : {"first", "sleep", "pass", "consistent", "gave up"}, round : 0..Rounds,
                 op : Ops \union {Unset}]
    BY DEF WorkspaceTyped, OpsTyped
  <2>2. CASE round > Rounds
    <3>1. boot' = [boot EXCEPT !.pc = "gave up"]
      BY <1>3, <2>2
    <3> QED BY <2>1, <3>1
  <2>3. CASE ~(round > Rounds) /\ WorkspaceReady
    <3>1. boot' = [pc |-> "pass", round |-> round, op |-> o] /\ round \in 0..Rounds
      BY <1>3, <1>4, <2>3
    <3> QED BY <3>1
  <2>4. CASE ~(round > Rounds) /\ ~WorkspaceReady
    <3>1. boot' = [boot EXCEPT !.pc = "sleep", !.round = round] /\ round \in 0..Rounds
      BY <1>3, <1>4, <2>4
    <3> QED BY <2>1, <3>1
  <2> QED BY <2>2, <2>3, <2>4
<1> QED BY <1>3, <1>5, <1>6

\* ai-dev starts: what it was running is lost, and nobody was alone.
LEMMA RestartStep ==
    ASSUME WorkspaceTyped, AiDevStarts
    PROVE  WorkspaceTyped' /\ \A o \in Ops : ~op'[o].solo
<1> DEFINE next(o) == IF boot.op = o THEN NoOp ELSE [Alone(op)[o] EXCEPT !.dead = op[o].tmp # Unset]
<1>1. ASSUME NEW o \in Ops
      PROVE  /\ op'[o] = next(o) /\ next(o) \in OpStates /\ ~next(o).solo
             /\ next(o).pc = "run" => next(o).todo # <<>>
             /\ \/ next(o) = NoOp
                \/ /\ next(o).pc = op[o].pc /\ next(o).todo = op[o].todo
                   /\ next(o).tmp = op[o].tmp
  <2>1. Alone(op)[o] \in OpStates /\ ~Alone(op)[o].solo /\ Alone(op)[o].pc = op[o].pc
        /\ Alone(op)[o].todo = op[o].todo /\ Alone(op)[o].tmp = op[o].tmp
    BY AloneTyped
  <2>2. NoOp \in OpStates /\ ~NoOp.solo /\ NoOp.pc = "idle"
    BY NoOpTyped DEF NoOp
  <2>3. op'[o] = next(o)
    BY DEF AiDevStarts
  <2>4. op[o].pc = "run" => op[o].todo # <<>>
    BY DEF WorkspaceTyped, OpsTyped
  <2>5. CASE boot.op = o
    BY <2>2, <2>3, <2>5
  <2>6. CASE boot.op # o
    <3> DEFINE a == Alone(op)[o]
    <3> HIDE DEF a
    <3>1. next(o) = [a EXCEPT !.dead = op[o].tmp # Unset]
      BY <2>6 DEF a
    <3>2. a \in OpStates /\ ~a.solo /\ a.pc = op[o].pc /\ a.todo = op[o].todo /\ a.tmp = op[o].tmp
      BY <2>1 DEF a
    <3>3. (op[o].tmp # Unset) \in BOOLEAN
      OBVIOUS
    <3> HIDE DEF next
    <3> QED BY <2>3, <2>4, <3>1, <3>2, <3>3 DEF OpStates
  <2> QED BY <2>5, <2>6
<1>2. op' \in [Ops -> OpStates]
  <2>1. op' = [o \in Ops |-> next(o)]
    BY DEF AiDevStarts
  <2> QED BY <1>1, <2>1
<1>3. AllStaged'
  <2> SUFFICES ASSUME NEW o \in Ops PROVE Staged(o)'
    BY DEF AllStaged
  <2>1. CASE next(o) = NoOp
    BY <1>1, <2>1, NoOpTyped DEF Staged
  <2>2. CASE next(o) # NoOp
    <3>1. Staged(o)
      BY DEF WorkspaceTyped, AllStaged
    <3> QED BY <1>1, <2>2, <3>1 DEF Staged, Now
  <2> QED BY <2>1, <2>2
<1>4. boot' \in [pc : {"first", "sleep", "pass", "consistent", "gave up"}, round : 0..Rounds,
                op : Ops \union {Unset}]
  BY ProjectBoundsAssumption DEF AiDevStarts
<1>5. FilesTyped'
  BY RequestTyped DEF AiDevStarts, WorkspaceTyped, FilesTyped
<1> QED BY <1>1, <1>2, <1>3, <1>4, <1>5 DEF WorkspaceTyped, OpsTyped, AiDevStarts

\* OpenChamber writes the settings: nobody was alone.
LEMMA PersistStep ==
    ASSUME WorkspaceTyped, OpenChamberPersists
    PROVE  WorkspaceTyped' /\ \A o \in Ops : ~op'[o].solo
<1>1. \A o \in Ops : /\ op'[o] = Alone(op)[o] /\ op'[o] \in OpStates /\ ~op'[o].solo
                     /\ op'[o].pc = op[o].pc /\ op'[o].todo = op[o].todo /\ op'[o].tmp = op[o].tmp
  BY AloneTyped DEF OpenChamberPersists
<1>2. op' \in [Ops -> OpStates]
  BY <1>1 DEF OpenChamberPersists, Alone
<1>3. AllStaged'
  BY <1>1 DEF AllStaged, Staged, Now, WorkspaceTyped
<1>4. FilesTyped'
  BY MishapTyped DEF OpenChamberPersists, WorkspaceTyped, FilesTyped, Settings
<1> QED BY <1>1, <1>2, <1>3, <1>4 DEF WorkspaceTyped, OpsTyped, OpenChamberPersists

LEMMA WorkspaceInit == ProjectInit => WorkspaceTyped
<1> SUFFICES ASSUME ProjectInit PROVE WorkspaceTyped
  OBVIOUS
<1>1. FilesTyped
  BY ProjectBoundsAssumption, TargetsAssumption DEF ProjectInit, FilesTyped, Settings
<1>2. op \in [Ops -> OpStates] /\ \A o \in Ops : op[o] = NoOp
  BY NoOpTyped DEF ProjectInit
<1>3. OpsTyped
  BY <1>2, NoOpTyped, ProjectBoundsAssumption DEF ProjectInit, OpsTyped
<1>4. AllStaged
  BY <1>2, NoOpTyped DEF AllStaged, Staged
<1> QED BY <1>1, <1>3, <1>4 DEF WorkspaceTyped

LEMMA ArrivesTyped ==
    ASSUME WorkspaceTyped, NEW o \in Ops, NEW r, Asked(r), Started(o, r), FilesTyped',
           page' \in Lists \union {Unset},
           boot' \in [pc : {"first", "sleep", "pass", "consistent", "gave up"}, round : 0..Rounds,
                     op : Ops \union {Unset}]
    PROVE  WorkspaceTyped' /\ Arrives(o, r)
<1>1. Arrives(o, r)
  BY StartedStep DEF Asked
<1> QED BY <1>1 DEF Arrives, WorkspaceTyped, OpsTyped

\* The steps that are nobody's operation, of the tool status and of the mount.
Elsewhere ==
    /\ UNCHANGED <<dirs, settings, disabled, feats, remotes, page, op, boot>>
    /\ visible' \in {visible, TRUE} /\ requests' \in 0..MaxRequests /\ mishaps' \in 0..MaxMishaps
    /\ mishaps' >= mishaps

LEMMA ElsewhereTyped ==
    ASSUME WorkspaceTyped, Elsewhere PROVE WorkspaceTyped'
BY DEF Elsewhere, WorkspaceTyped, FilesTyped, OpsTyped, AllStaged, Staged, Now

LEMMA MishapGrows ==
    ASSUME mishaps \in 0..MaxMishaps, Mishap PROVE mishaps' >= mishaps /\ mishaps' >= 1
BY DEF Mishap

LEMMA ElsewhereSteps ==
    ASSUME WorkspaceTyped,
           \/ MountAppears \/ Refresh \/ Expires \/ UNCHANGED workspaceVars
           \/ \E v \in Viewers : AskOverview(v) \/ ToolSteps(v)
    PROVE  Elsewhere
<1>1. /\ visible \in BOOLEAN /\ requests \in 0..MaxRequests /\ mishaps \in 0..MaxMishaps
      /\ mishaps >= mishaps
  BY DEF WorkspaceTyped, FilesTyped
<1>2. CASE MountAppears
  BY <1>1, <1>2 DEF MountAppears, Elsewhere
<1>3. CASE Refresh
  BY <1>1, <1>3, RequestTyped DEF Refresh, Elsewhere, projectVars
<1>4. CASE Expires
  BY <1>1, <1>4, MishapTyped, MishapGrows DEF Expires, Elsewhere, projectVars
<1>5. CASE UNCHANGED workspaceVars
  BY <1>1, <1>5 DEF workspaceVars, projectVars, Elsewhere
<1>6. CASE \E v \in Viewers : AskOverview(v) \/ ToolSteps(v)
  BY <1>1, <1>6, RequestTyped DEF AskOverview, ToolSteps, Elsewhere, projectVars
<1> QED BY <1>2, <1>3, <1>4, <1>5, <1>6

LEMMA WorkspaceNext == WorkspaceTyped /\ [ProjectNext]_workspaceVars => WorkspaceTyped'
<1> SUFFICES ASSUME WorkspaceTyped, [ProjectNext]_workspaceVars PROVE WorkspaceTyped'
  OBVIOUS
<1>1. ASSUME NEW o \in Ops, Requests(o) PROVE WorkspaceTyped'
  <2>1. FilesTyped' /\ page' \in Lists \union {Unset}
    BY <1>1, RequestStep DEF WorkspaceTyped, FilesTyped
  <2>2. boot' = boot
    BY <1>1, RequestStep
  <2> QED BY <1>1, <2>1, <2>2, RequestStep, ArrivesTyped DEF WorkspaceTyped, OpsTyped
<1>2. ASSUME NEW o \in Ops, BootPass(o) PROVE WorkspaceTyped'
  <2>1. FilesTyped' /\ page' \in Lists \union {Unset}
    BY <1>2, PassStep DEF WorkspaceTyped, FilesTyped, OpsTyped
  <2>2. CASE op' = op
    BY <1>2, <2>1, <2>2, PassStep DEF WorkspaceTyped, OpsTyped, AllStaged, Staged, Now
  <2> QED BY <1>2, <2>1, <2>2, PassStep, ArrivesTyped
<1>3. ASSUME NEW o \in Ops, OpWork(o) PROVE WorkspaceTyped'
  BY <1>3, WorkTyped DEF Works, WorkspaceTyped
<1>4. CASE AiDevStarts \/ OpenChamberPersists
  BY <1>4, RestartStep, PersistStep
<1>5. CASE \/ MountAppears \/ Refresh \/ Expires \/ UNCHANGED workspaceVars
           \/ \E v \in Viewers : AskOverview(v) \/ ToolSteps(v)
  BY <1>5, ElsewhereSteps, ElsewhereTyped
<1> QED BY <1>1, <1>2, <1>3, <1>4, <1>5 DEF ProjectNext, Requests

-----------------------------------------------------------------------------
(* An operation that runs alone. *)

Making == {"create", "clone", "enable"}
Merging == Making \union {"disable", "undo", "delete"}
Quiet == {"compare", "remote", "no remote", "reindex", "feature"}

\* Nobody else's registration and no other key differs from what it began with.
OnlyOwn(o) ==
    /\ settings.notify = op[o].before.notify
    /\ settings.projects \ {op[o].name} = op[o].before.projects \ {op[o].name}

\* What a program has left to do, and what it has done so far.
Midway(o) ==
    LET n == op[o].name
        kind == op[o].kind
        left == op[o].todo
    IN
    \/ kind \in {"create", "clone"} /\ left \in {Creation("mkdir", n), Creation("clone", n)}
    \/ kind = "enable" /\ left = Enabling(n)
    \/ kind \in Making /\ n \in dirs /\ left = <<Step("unhide", n), Step("register", n)>>
    \/ kind \in Making /\ n \in dirs \ disabled /\ left = <<Step("register", n)>>
    \/ kind = "disable" /\ left = Disabling(n)
    \/ kind = "disable" /\ left = <<Step("hide", n), Step("unregister", n)>>
    \/ kind = "disable" /\ n \in disabled /\ left = <<Step("unregister", n)>>
    \/ kind = "undo" /\ mishaps >= 1 /\ left = <<Step("unhide", n)>>
    \/ kind = "delete" /\ left = Deletion(n)
    \/ /\ kind = "delete" /\ n \in dirs
       /\ left = <<Step("unregister", n), Step("recall", n), Step("rm", n)>>
    \/ /\ kind = "delete" /\ n \notin settings.projects
       /\ left \in {<<Step("recall", n), Step("rm", n)>>, <<Step("unhide", n), Step("rm", n)>>,
                    <<Step("rm", n)>>}

\* What it has come to.
Resulted(o) ==
    LET n == op[o].name
        kind == op[o].kind
    IN
    /\ op[o].pc = "ok" =>
         /\ kind \in Making => n \in (dirs \intersect settings.projects) \ disabled
         /\ kind = "disable" => n \in disabled \ settings.projects
         /\ kind = "delete" => n \notin dirs \union settings.projects
    /\ kind = "delete" /\ op[o].pc # "missing" => n \notin settings.projects \ dirs
    /\ kind \in {"disable", "undo"} /\ op[o].pc = "partial" /\ mishaps <= 1 => n \notin disabled

\* The workspace is there, and nobody else is under way.
Solitary(o) ==
    /\ op[o].pc # "idle" /\ visible /\ ~op[o].dead /\ op[o].before \in Settings
    /\ \A k \in Ops \ {o} : op[k].pc = "idle"

Standing(o) ==
    /\ Solitary(o)
    /\ op[o].kind \notin Untold => OnlyOwn(o)
    /\ op[o].pc = "run" /\ op[o].kind \in Merging =>
         Midway(o) /\ (op[o].tmp # Unset => op[o].tmp = Edited(o))
    /\ op[o].pc = "run" /\ op[o].kind \in Quiet =>
         \A i \in DOMAIN op[o].todo : op[o].todo[i].do \in Harmless
    /\ op[o].pc # "run" => Resulted(o)

AllStanding == \A o \in Ops : op[o].solo /\ ~op[o].late => Standing(o)
SoloInv == WorkspaceTyped /\ AllStanding

LEMMA InitStanding == ProjectInit => AllStanding
<1> SUFFICES ASSUME ProjectInit, NEW o \in Ops PROVE ~op[o].solo
  BY DEF AllStanding
<1> QED BY DEF ProjectInit, NoOp

\* What belongs to no operation.
Aside ==
    /\ UNCHANGED <<dirs, settings, disabled, op>> /\ visible' \in {visible, TRUE}
    /\ mishaps' \in 0..MaxMishaps /\ mishaps' >= mishaps

\* It disturbs none that runs alone.
LEMMA AsideStands ==
    ASSUME SoloInv, Aside PROVE AllStanding'
<1> SUFFICES ASSUME NEW o \in Ops, op[o].solo, ~op[o].late, Standing(o)
             PROVE  Standing(o)'
  BY DEF SoloInv, AllStanding, Aside
<1>1. mishaps \in Nat /\ mishaps' \in Nat /\ mishaps' >= mishaps
  BY ProjectBoundsAssumption DEF SoloInv, WorkspaceTyped, FilesTyped, Aside
<1>2. UNCHANGED <<dirs, settings, disabled, op>>
  BY DEF Aside
<1>3. Solitary(o)'
  BY DEF Aside, Standing, Solitary
<1>4. op[o].kind \notin Untold => OnlyOwn(o)'
  BY <1>2 DEF Standing, OnlyOwn, Aside
<1>5. op[o].pc = "run" /\ op[o].kind \in Merging =>
         Midway(o)' /\ (op[o].tmp # Unset => op[o].tmp = Edited(o)')
  <2>1. Edited(o)' = Edited(o)
    BY DEF Aside, Edited, Now, Target, Notified
  <2>2. Midway(o) => Midway(o)'
    BY <1>1 DEF Aside, Midway
  <2> QED BY <2>1, <2>2 DEF Standing
<1>6. op[o].pc # "run" => Resulted(o)'
  BY <1>1 DEF Standing, Resulted, Aside
<1> QED BY <1>3, <1>4, <1>5, <1>6 DEF Standing, Aside

LEMMA ArrivesStands ==
    ASSUME SoloInv, NEW o \in Ops, NEW r, Asked(r), Arrives(o, r),
           UNCHANGED <<dirs, visible, settings, disabled, mishaps>>
    PROVE  AllStanding'
<1> SUFFICES ASSUME NEW k \in Ops, op'[k].solo, ~op'[k].late PROVE Standing(k)'
  BY DEF AllStanding
<1>1. r \in OpStates /\ r.tmp = Unset /\ ~r.dead /\ r.todo # <<>>
  BY DEF Asked
<1>2. k = o
  <2>1. ~NoOp.solo
    BY DEF NoOp
  <2>2. op[k] \in OpStates
    BY DEF SoloInv, WorkspaceTyped, OpsTyped
  <2>3. ~[op[k] EXCEPT !.solo = FALSE].solo
    BY <2>2 DEF OpStates
  <2> QED BY <2>1, <2>3 DEF Arrives
<1>3. /\ op'[o].pc = "run" /\ op'[o].before = settings /\ op'[o].tmp = Unset /\ ~op'[o].dead
      /\ op'[o].kind = r.kind /\ op'[o].name = r.name /\ op'[o].todo = r.todo
      /\ op'[o].solo = (visible /\ \A j \in Ops : Idle(j))
  BY <1>1 DEF Arrives, OpStates
<1>4. visible /\ \A j \in Ops \ {o} : op'[j].pc = "idle"
  BY <1>2, <1>3, NoOpTyped DEF Arrives
<1>5. settings \in Settings
  BY DEF SoloInv, WorkspaceTyped, FilesTyped
<1>6. Solitary(o)'
  BY <1>3, <1>4, <1>5 DEF Solitary
<1>7. OnlyOwn(o)'
  BY <1>3 DEF OnlyOwn
<1>8. ASSUME r.kind \in Merging PROVE Midway(o)'
  <2>1. r.kind \in Programs /\ r.todo = Program(r.kind, r.name)
    BY <1>8 DEF Asked, Merging, Making, Untold
  <2>2. r.todo = CASE r.kind = "create" -> Creation("mkdir", r.name)
                   [] r.kind = "clone" -> Creation("clone", r.name)
                   [] r.kind = "enable" -> Enabling(r.name)
                   [] r.kind = "disable" -> Disabling(r.name)
                   [] r.kind = "delete" -> Deletion(r.name)
    BY <1>8, <2>1 DEF Program, Merging, Making, Programs
  <2> QED BY <1>3, <1>8, <2>1, <2>2 DEF Midway, Programs, Merging, Making
<1>9. ASSUME r.kind \in Quiet, NEW i \in DOMAIN r.todo PROVE r.todo[i].do \in Harmless
  <2>1. CASE r.kind \in {"feature", "compare"}
    BY <1>9, <2>1 DEF Asked, Programs, Untold
  <2>2. CASE r.kind \in {"remote", "no remote", "reindex"}
    <3>1. r.todo = Program(r.kind, r.name)
      BY <2>2 DEF Asked, Untold
    <3>2. r.todo \in {<<Step("look", r.name), Step("origin", r.name), Step("fetch", r.name)>>,
                     <<Step("remove", r.name)>>, <<Step("test", r.name), Step("index", r.name)>>}
      BY <2>2, <3>1 DEF Program, Remoting, Unremoting, Indexing
    <3>3. \A c \in {"look", "origin", "fetch", "remove", "test", "index"} : Step(c, r.name).do \in Harmless
      BY DEF Step, Harmless, Commands, Merges
    <3> QED BY <1>9, <3>2, <3>3
  <2> QED BY <1>9, <2>1, <2>2 DEF Quiet
<1> QED BY <1>2, <1>3, <1>6, <1>7, <1>8, <1>9 DEF Standing

\* The next command is up, or the operation has come to its end.
Goes(o) ==
    /\ op'[o].kind = op[o].kind /\ op'[o].name = op[o].name /\ op'[o].tmp = Unset
    /\ Tail(op[o].todo) # <<>> => op'[o].pc = "run" /\ op'[o].todo = Tail(op[o].todo)
    /\ Tail(op[o].todo) = <<>> =>
         op'[o].pc \in {"ok", "failed"} \/ (op[o].kind = "undo" /\ op'[o].pc = "partial")

\* The operation has come to an early end.
Stops(o) ==
    /\ op'[o].kind = op[o].kind /\ op'[o].name = op[o].name
    /\ op'[o].pc \in {"failed", "partial"}
    /\ op'[o].pc = "partial" => op[o].kind \in {"enable", "remote", "undo", "delete"}

LEMMA DoneGoes ==
    ASSUME OpsTyped, NEW o \in Ops, op[o].pc = "run", Done(o)
    PROVE  Goes(o)
BY DoneStep DEF Goes, Moves

LEMMA FailedStops ==
    ASSUME OpsTyped, NEW o \in Ops, op[o].pc = "run", Failed(o), op[o].kind \notin Untold,
           ~(op[o].kind = "disable" /\ Now(o).do = "unregister"),
           ~(op[o].kind = "delete" /\ Now(o).do = "unhide")
    PROVE  Stops(o)
BY FailedStep DEF Ceases, Moves, Untold, Stops

LEMMA LateMoves ==
    ASSUME OpsTyped, NEW o \in Ops, op[o].pc = "run", TimesOut(o)
    PROVE  op'[o].late
BY TimesOutStep DEF Moves, OpsTyped, OpStates

LEMMA WorkFrame ==
    ASSUME WorkspaceTyped, NEW o \in Ops, OpWork(o)
    PROVE  visible' = visible /\ mishaps \in Nat /\ mishaps' \in Nat /\ mishaps' >= mishaps
<1>1. mishaps \in Nat /\ (Mishap => mishaps' \in Nat /\ mishaps' >= mishaps)
  BY ProjectBoundsAssumption DEF WorkspaceTyped, FilesTyped, Mishap
<1> DEFINE frame == visible' = visible /\ (mishaps' = mishaps \/ Mishap)
<1> SUFFICES frame
  BY <1>1
<1>2. CASE Test(o) \/ Recall(o) \/ Lost(o) \/ See(o) \/ Install(o) \/ Edit(o)
  <2>1. Test(o) \/ Recall(o) \/ Lost(o) => frame
    BY DEF Test, Recall, Lost
  <2>2. See(o) => frame
    BY DEF See
  <2>3. Install(o) \/ Edit(o) => frame
    BY DEF Install, Edit
  <2> QED BY <1>2, <2>1, <2>2, <2>3
<1>3. CASE MakeDirectory(o) \/ RemoveDirectory(o)
  BY <1>3 DEF MakeDirectory, RemoveDirectory
<1>4. CASE Feature(o)
  BY <1>4 DEF Feature
<1>5. CASE Remote(o) \/ Reindex(o)
  BY <1>5 DEF Remote, Reindex
<1> QED BY <1>2, <1>3, <1>4, <1>5 DEF OpWork

LEMMA SolitaryStays ==
    ASSUME WorkspaceTyped, NEW o \in Ops, Standing(o), OpWork(o)
    PROVE  Solitary(o)' /\ op'[o].name = op[o].name /\ op'[o].before = op[o].before
BY WorkTyped, WorkFrame DEF Works, Holds, Standing, Solitary

\* What an operation knows that merges nothing.
LEMMA QuietWork ==
    ASSUME WorkspaceTyped, NEW o \in Ops, op[o].kind \in Quiet, ~op[o].dead, OpWork(o), ~op'[o].late,
           Now(o).do \in Harmless
    PROVE  /\ settings' = settings /\ op'[o].kind = op[o].kind
           /\ op'[o].pc = "run" => op'[o].todo = Tail(op[o].todo)
<1>1. op[o].pc = "run" /\ OpsTyped
  BY WorkTyped DEF WorkspaceTyped
<1>2. /\ op[o] \in OpStates /\ op[o].todo \in Seq(OpSteps) /\ op[o].todo # <<>>
      /\ Tail(op[o].todo) \in Seq(OpSteps)
  BY <1>1, FirstTyped
<1>3. op[o].kind \notin Untold /\ op[o].kind \notin {"disable", "delete", "undo", "pass"}
  BY DEF Quiet, Untold
<1>4. Done(o) => op'[o].kind = op[o].kind /\ (op'[o].pc = "run" => op'[o].todo = Tail(op[o].todo))
  BY <1>1, <1>3, DoneGoes DEF Goes
<1>5. Failed(o) => op'[o].kind = op[o].kind /\ op'[o].pc # "run"
  BY <1>1, <1>3, FailedStops DEF Stops
<1>6. ~TimesOut(o)
  BY <1>1, LateMoves
<1>7. CASE Test(o)
  <2>1. CASE Done(o)
    BY <1>4, <1>7, <2>1 DEF Test
  <2>2. CASE End(o, "missing")
    BY <1>1, <1>2, <1>7, <2>2, EndsStep DEF Test, End, Moves, Results
  <2> QED BY <1>7, <2>1, <2>2 DEF Test
<1>8. CASE MakeDirectory(o)
  BY <1>4, <1>5, <1>6, <1>8 DEF MakeDirectory
<1>9. CASE Edit(o) \/ Install(o) \/ Recall(o) \/ Lost(o)
  BY <1>9 DEF Edit, Install, Recall, Lost, Harmless, Runs
<1>10. CASE RemoveDirectory(o)
  BY <1>4, <1>5, <1>6, <1>10 DEF RemoveDirectory
<1>11. CASE Feature(o)
  BY <1>4, <1>5, <1>6, <1>11 DEF Feature
<1>12. CASE Remote(o)
  <2>1. CASE Go(o, [op[o] EXCEPT !.seen.projects = remotes \intersect {Target(o)}], Tail(op[o].todo))
    <3> DEFINE r == [op[o] EXCEPT !.seen.projects = remotes \intersect {Target(o)}]
    <3>1. r \in OpStates /\ r.pc = "run" /\ r.kind = op[o].kind
      BY <1>1, <1>2 DEF OpStates, Sights, WorkspaceTyped, FilesTyped
    <3> HIDE DEF r
    <3>2. Go(o, r, Tail(op[o].todo))
      BY <2>1 DEF r
    <3>3. Moves(o, r) /\ (op'[o].pc = "run" => op'[o].todo = Tail(op[o].todo))
      BY <1>1, <1>2, <3>1, <3>2, GoStep
    <3> QED BY <1>12, <3>1, <3>3 DEF Remote, Moves
  <2> QED BY <1>4, <1>5, <1>6, <1>12, <2>1 DEF Remote
<1>13. CASE Reindex(o)
  BY <1>4, <1>5, <1>6, <1>13 DEF Reindex
<1>14. CASE See(o)
  <2>1. PICK seen, pc : op' = [op EXCEPT ![o].seen = seen, ![o].todo = Tail(@), ![o].pc = pc]
    BY <1>3, <1>14 DEF See
  <2>2. op'[o].kind = op[o].kind /\ op'[o].todo = Tail(op[o].todo)
    BY <1>1, <1>2, <2>1 DEF OpsTyped, OpStates
  <2> QED BY <1>14, <2>2 DEF See
<1> QED BY <1>7, <1>8, <1>9, <1>10, <1>11, <1>12, <1>13, <1>14 DEF OpWork

LEMMA QuietStands ==
    ASSUME WorkspaceTyped, NEW o \in Ops, Standing(o), op[o].kind \in Quiet, OpWork(o), ~op'[o].late
    PROVE  Standing(o)'
<1>1. op[o].pc = "run" /\ ~op[o].dead /\ op[o].todo \in Seq(OpSteps) /\ op[o].todo # <<>>
  BY WorkTyped, FirstTyped DEF Standing, Solitary, WorkspaceTyped
<1>2. \A i \in DOMAIN op[o].todo : op[o].todo[i].do \in Harmless
  BY <1>1 DEF Standing
<1>3. Now(o).do \in Harmless
  BY <1>1, <1>2, EmptySeq DEF Now
<1>4. /\ settings' = settings /\ op'[o].kind = op[o].kind
      /\ op'[o].pc = "run" => op'[o].todo = Tail(op[o].todo)
  BY <1>1, <1>3, QuietWork
<1>5. \A i \in DOMAIN Tail(op[o].todo) : Tail(op[o].todo)[i].do \in Harmless
  <2>1. Tail(op[o].todo) \in Seq(OpSteps) /\ Len(Tail(op[o].todo)) = Len(op[o].todo) - 1
        /\ \A i \in 1 .. Len(Tail(op[o].todo)) : Tail(op[o].todo)[i] = op[o].todo[i + 1]
    BY <1>1, HeadTailProperties
  <2>2. Len(op[o].todo) \in Nat /\ DOMAIN op[o].todo = 1..Len(op[o].todo)
        /\ DOMAIN Tail(op[o].todo) = 1..Len(Tail(op[o].todo))
    BY <1>1, <2>1, LenProperties
  <2> QED BY <1>2, <2>1, <2>2
<1>6. Solitary(o)' /\ op'[o].name = op[o].name /\ op'[o].before = op[o].before
  BY SolitaryStays
<1>7. op[o].kind \notin Untold \union Merging
  BY DEF Quiet, Untold, Merging, Making
<1>8. OnlyOwn(o)'
  BY <1>4, <1>6, <1>7 DEF Standing, OnlyOwn
<1>9. Resulted(o)'
  BY <1>4, <1>7 DEF Resulted, Merging, Making
<1> QED BY <1>4, <1>5, <1>6, <1>7, <1>8, <1>9 DEF Standing

LEMMA UntoldStands ==
    ASSUME WorkspaceTyped, NEW o \in Ops, Standing(o), op[o].kind \in Untold, OpWork(o),
           op'[o].kind = op[o].kind
    PROVE  Standing(o)'
<1>1. Solitary(o)'
  BY SolitaryStays
<1>2. op[o].kind \notin Quiet \union Merging
  BY DEF Quiet, Untold, Merging, Making
<1>3. Resulted(o)'
  BY <1>2 DEF Resulted, Merging, Making
<1> QED BY <1>1, <1>2, <1>3 DEF Standing

\* The first command of a program, and what follows it.
LEMMA Unrolled ==
    ASSUME NEW S, NEW a \in S, NEW b \in S, NEW c \in S, NEW d \in S
    PROVE  /\ Head(<<a>>) = a /\ Tail(<<a>>) = <<>>
           /\ Head(<<a, b>>) = a /\ Tail(<<a, b>>) = <<b>>
           /\ Head(<<a, b, c>>) = a /\ Tail(<<a, b, c>>) = <<b, c>>
           /\ Head(<<a, b, c, d>>) = a /\ Tail(<<a, b, c, d>>) = <<b, c, d>>
           /\ <<a>> # <<>> /\ <<a, b>> # <<>> /\ <<a, b, c>> # <<>>
           /\ <<a>> \o <<b>> = <<a, b>>
<1>1. Head(<<a>>) = a /\ Tail(<<a>>) = <<>>
  OBVIOUS
<1>2. Head(<<a, b>>) = a /\ Tail(<<a, b>>) = <<b>>
  OBVIOUS
<1>3. Head(<<a, b, c>>) = a /\ Tail(<<a, b, c>>) = <<b, c>>
  OBVIOUS
<1>4. Head(<<a, b, c, d>>) = a /\ Tail(<<a, b, c, d>>) = <<b, c, d>>
  OBVIOUS
<1>5. <<a>> # <<>> /\ <<a, b>> # <<>> /\ <<a, b, c>> # <<>>
  OBVIOUS
<1>6. <<a>> \o <<b>> = <<a, b>>
  <2> DEFINE s == <<a>> \o <<b>>
             t == <<a, b>>
  <2>1. <<a>> \in Seq(S) /\ <<b>> \in Seq(S) /\ Len(<<a>>) = 1 /\ Len(<<b>>) = 1
        /\ <<a>>[1] = a /\ <<b>>[1] = b
    OBVIOUS
  <2>2. s \in Seq(S) /\ Len(s) = 2 /\ s[1] = a /\ s[2] = b
    BY <2>1, ConcatProperties
  <2>3. t \in Seq(S) /\ Len(t) = 2 /\ t[1] = a /\ t[2] = b
    OBVIOUS
  <2> HIDE DEF s, t
  <2>4. s = t
    BY <2>2, <2>3, SeqEqual
  <2> QED BY <2>4 DEF s, t
<1> QED BY <1>1, <1>2, <1>3, <1>4, <1>5, <1>6

LEMMA FirstCommand ==
    ASSUME NEW o \in Ops, NEW n \in ProjectNames, NEW a \in Commands, NEW b \in Commands,
           NEW c \in Commands, NEW d \in Commands
    PROVE  /\ op[o].todo = <<Step(a, n)>> =>
                Now(o).do = a /\ Target(o) = n /\ Tail(op[o].todo) = <<>>
           /\ op[o].todo = <<Step(a, n), Step(b, n)>> =>
                Now(o).do = a /\ Target(o) = n /\ Tail(op[o].todo) = <<Step(b, n)>>
           /\ op[o].todo = <<Step(a, n), Step(b, n), Step(c, n)>> =>
                Now(o).do = a /\ Target(o) = n /\ Tail(op[o].todo) = <<Step(b, n), Step(c, n)>>
           /\ op[o].todo = <<Step(a, n), Step(b, n), Step(c, n), Step(d, n)>> =>
                /\ Now(o).do = a /\ Target(o) = n
                /\ Tail(op[o].todo) = <<Step(b, n), Step(c, n), Step(d, n)>>
<1>1. /\ Step(a, n) \in OpSteps /\ Step(b, n) \in OpSteps /\ Step(c, n) \in OpSteps
      /\ Step(d, n) \in OpSteps /\ Step(a, n).do = a /\ Step(a, n).name = n
  BY StepTyped
<1> DEFINE s1 == Step(a, n)
           s2 == Step(b, n)
           s3 == Step(c, n)
           s4 == Step(d, n)
<1>2. s1 \in OpSteps /\ s2 \in OpSteps /\ s3 \in OpSteps /\ s4 \in OpSteps /\ s1.do = a /\ s1.name = n
  BY <1>1
<1> HIDE DEF s1, s2, s3, s4
<1>3. op[o].todo = <<s1>> =>
        Head(op[o].todo) = s1 /\ Tail(op[o].todo) = <<>>
  BY <1>2, Unrolled
<1>4. op[o].todo = <<s1, s2>> =>
        Head(op[o].todo) = s1 /\ Tail(op[o].todo) = <<s2>>
  BY <1>2, Unrolled
<1>5. op[o].todo = <<s1, s2, s3>> =>
        Head(op[o].todo) = s1 /\ Tail(op[o].todo) = <<s2, s3>>
  BY <1>2, Unrolled
<1>6. op[o].todo = <<s1, s2, s3, s4>> =>
        Head(op[o].todo) = s1 /\ Tail(op[o].todo) = <<s2, s3, s4>>
  BY <1>2, Unrolled
<1>7. Head(op[o].todo) = s1 => Now(o).do = a /\ Target(o) = n
  BY <1>2 DEF Now, Target
<1> QED BY <1>3, <1>4, <1>5, <1>6, <1>7 DEF s1, s2, s3, s4

\* A merge: prepared, failed, or installed and then done or taken for failed.
LEMMA MergeTurns ==
    ASSUME WorkspaceTyped, NEW o \in Ops, ~op[o].dead, Now(o).do \in Merges, OpWork(o)
    PROVE  /\ dirs' = dirs
           /\ \/ /\ UNCHANGED <<settings, disabled, mishaps>>
                 /\ op'[o].kind = op[o].kind /\ op'[o].pc = "run" /\ op'[o].todo = op[o].todo
                 /\ op'[o].tmp = Edited(o)
              \/ UNCHANGED <<settings, disabled>> /\ Mishap /\ Failed(o)
              \/ /\ op[o].tmp # Unset
                 /\ IF Now(o).do \in {"hide", "unhide"}
                    THEN disabled' = op[o].tmp.hidden /\ settings' = settings
                    ELSE settings' = op[o].tmp /\ disabled' = disabled
                 /\ (Done(o) /\ mishaps' = mishaps) \/ (Mishap /\ Failed(o))
<1>1. op[o] \in OpStates /\ op[o].pc = "run"
  BY WorkTyped, FirstTyped DEF WorkspaceTyped
<1>2. ~Test(o) /\ ~MakeDirectory(o) /\ ~Recall(o) /\ ~RemoveDirectory(o)
  BY DEF Merges, Runs, Test, MakeDirectory, Recall, RemoveDirectory
<1>3. ~Feature(o) /\ ~Remote(o) /\ ~Reindex(o) /\ ~See(o) /\ ~Lost(o)
  BY DEF Merges, Runs, Feature, Remote, Reindex, See, Lost
<1>4. Edit(o) \/ Install(o)
  BY <1>2, <1>3 DEF OpWork
<1>5. CASE Edit(o)
  <2>1. CASE op' = [op EXCEPT ![o].tmp = Edited(o)] /\ mishaps' = mishaps
    <3>1. op'[o] = [op[o] EXCEPT !.tmp = Edited(o)]
      BY <2>1 DEF WorkspaceTyped, OpsTyped
    <3>2. op'[o].kind = op[o].kind /\ op'[o].pc = "run" /\ op'[o].todo = op[o].todo
          /\ op'[o].tmp = Edited(o)
      BY <1>1, <3>1 DEF OpStates
    <3> QED BY <1>5, <2>1, <3>2 DEF Edit
  <2>2. CASE Mishap /\ Failed(o)
    BY <1>5, <2>2 DEF Edit
  <2> QED BY <1>5, <2>1, <2>2 DEF Edit
<1>6. CASE Install(o)
  BY <1>6 DEF Install
<1> QED BY <1>4, <1>5, <1>6

LEMMA OwnStays ==
    ASSUME NEW o \in Ops, OnlyOwn(o), settings \in Settings,
           op'[o].name = op[o].name, op'[o].before = op[o].before,
           settings' \in {settings, [settings EXCEPT !.projects = @ \union {op[o].name}],
                         [settings EXCEPT !.projects = @ \ {op[o].name}]}
    PROVE  OnlyOwn(o)'
BY DEF OnlyOwn, Settings

\* What a merge of the operation's own name leaves.
LEMMA EditedIs ==
    ASSUME NEW o \in Ops
    PROVE  /\ Now(o).do = "register" => Edited(o) = [settings EXCEPT !.projects = @ \union {Target(o)}]
           /\ Now(o).do = "unregister" => Edited(o) = [settings EXCEPT !.projects = @ \ {Target(o)}]
           /\ Now(o).do = "hide" => Edited(o).hidden = disabled \union {Target(o)}
           /\ Now(o).do = "unhide" => Edited(o).hidden = disabled \ {Target(o)}
BY DEF Edited

\* The programs of the operations that merge, command by command.
LEMMA Lefts ==
    ASSUME NEW o \in Ops, NEW n \in ProjectNames
    PROVE  /\ \A make \in {"mkdir", "clone"} : op[o].todo = Creation(make, n) =>
                /\ Now(o).do = make /\ Target(o) = n
                /\ Tail(op[o].todo) = <<Step("unhide", n), Step("register", n)>>
           /\ op[o].todo = Enabling(n) =>
                /\ Now(o).do = "test" /\ Target(o) = n
                /\ Tail(op[o].todo) = <<Step("unhide", n), Step("register", n)>>
           /\ op[o].todo = Disabling(n) =>
                /\ Now(o).do = "test" /\ Target(o) = n
                /\ Tail(op[o].todo) = <<Step("hide", n), Step("unregister", n)>>
           /\ op[o].todo = Deletion(n) =>
                /\ Now(o).do = "test" /\ Target(o) = n
                /\ Tail(op[o].todo) = <<Step("unregister", n), Step("recall", n), Step("rm", n)>>
           /\ op[o].todo = <<Step("unregister", n), Step("recall", n), Step("rm", n)>> =>
                /\ Now(o).do = "unregister" /\ Target(o) = n
                /\ Tail(op[o].todo) = <<Step("recall", n), Step("rm", n)>>
<1>1. {"mkdir", "clone", "test", "unhide", "register", "hide", "unregister", "recall", "rm"}
        \subseteq Commands
  BY DEF Commands
<1>2. ASSUME NEW make \in {"mkdir", "clone"}, op[o].todo = Creation(make, n)
      PROVE  /\ Now(o).do = make /\ Target(o) = n
             /\ Tail(op[o].todo) = <<Step("unhide", n), Step("register", n)>>
  <2>1. make \in Commands /\ "unhide" \in Commands /\ "register" \in Commands
    BY <1>1
  <2>2. op[o].todo = <<Step(make, n), Step("unhide", n), Step("register", n)>>
    BY <1>2 DEF Creation
  <2> QED BY <2>1, <2>2, FirstCommand
<1>3. ASSUME op[o].todo = Enabling(n)
      PROVE  /\ Now(o).do = "test" /\ Target(o) = n
             /\ Tail(op[o].todo) = <<Step("unhide", n), Step("register", n)>>
  <2>1. "test" \in Commands /\ "unhide" \in Commands /\ "register" \in Commands
    BY <1>1
  <2>2. op[o].todo = <<Step("test", n), Step("unhide", n), Step("register", n)>>
    BY <1>3 DEF Enabling
  <2> QED BY <2>1, <2>2, FirstCommand
<1>4. ASSUME op[o].todo = Disabling(n)
      PROVE  /\ Now(o).do = "test" /\ Target(o) = n
             /\ Tail(op[o].todo) = <<Step("hide", n), Step("unregister", n)>>
  <2>1. "test" \in Commands /\ "hide" \in Commands /\ "unregister" \in Commands
    BY <1>1
  <2>2. op[o].todo = <<Step("test", n), Step("hide", n), Step("unregister", n)>>
    BY <1>4 DEF Disabling
  <2> QED BY <2>1, <2>2, FirstCommand
<1>5. ASSUME op[o].todo = Deletion(n)
      PROVE  /\ Now(o).do = "test" /\ Target(o) = n
             /\ Tail(op[o].todo) = <<Step("unregister", n), Step("recall", n), Step("rm", n)>>
  <2>1. "test" \in Commands /\ "unregister" \in Commands /\ "recall" \in Commands /\ "rm" \in Commands
    BY <1>1
  <2>2. op[o].todo = <<Step("test", n), Step("unregister", n), Step("recall", n), Step("rm", n)>>
    BY <1>5 DEF Deletion
  <2> QED BY <2>1, <2>2, FirstCommand
<1>6. "unregister" \in Commands /\ "recall" \in Commands /\ "rm" \in Commands
  BY <1>1
<1> QED BY <1>2, <1>3, <1>4, <1>5, <1>6, FirstCommand

LEMMA ShortLefts ==
    ASSUME NEW o \in Ops, NEW n \in ProjectNames, NEW a \in Commands
    PROVE  /\ op[o].todo = <<Step(a, n)>> =>
                Now(o).do = a /\ Target(o) = n /\ Tail(op[o].todo) = <<>>
           /\ \A b \in Commands : op[o].todo = <<Step(a, n), Step(b, n)>> =>
                Now(o).do = a /\ Target(o) = n /\ Tail(op[o].todo) = <<Step(b, n)>>
BY FirstCommand

LEMMA NotDone ==
    ASSUME NEW a, NEW b, NEW c
    PROVE  <<a>> # <<>> /\ <<a, b>> # <<>> /\ <<a, b, c>> # <<>>
OBVIOUS

\* The command decides what the operation does.
LEMMA CommandDecides ==
    ASSUME NEW o \in Ops, ~op[o].dead, OpWork(o)
    PROVE  /\ Now(o).do = "test" => Test(o)
           /\ Now(o).do \in {"mkdir", "clone"} => MakeDirectory(o)
           /\ Now(o).do = "recall" => Recall(o)
           /\ Now(o).do = "rm" => RemoveDirectory(o)
<1>1. Test(o) => Now(o).do = "test"
  BY DEF Test, Runs
<1>2. MakeDirectory(o) => Now(o).do \in {"mkdir", "clone"}
  BY DEF MakeDirectory, Runs
<1>3. Edit(o) \/ Install(o) => Now(o).do \in {"register", "unregister", "notify", "hide", "unhide"}
  BY DEF Edit, Install, Merges
<1>4. (Recall(o) => Now(o).do = "recall") /\ (RemoveDirectory(o) => Now(o).do = "rm")
  BY DEF Recall, RemoveDirectory, Runs
<1>5. Feature(o) \/ Remote(o) \/ Reindex(o) =>
        Now(o).do \in {"enable", "disable", "look", "origin", "fetch", "remove", "index"}
  BY DEF Feature, Remote, Reindex, Runs
<1>6. (See(o) => Now(o).do \in {"seeDirs", "seeProjects", "seeDisabled"}) /\ ~Lost(o)
  BY DEF See, Lost
<1> QED BY <1>1, <1>2, <1>3, <1>4, <1>5, <1>6 DEF OpWork

-----------------------------------------------------------------------------
(* How an operation that merges goes on, or comes to its end, alone. *)

OwnEdits(o) == settings' \in {settings, [settings EXCEPT !.projects = @ \union {op[o].name}],
                              [settings EXCEPT !.projects = @ \ {op[o].name}]}
Alike(o) == Standing(o) /\ op[o].kind \in Merging /\ OpWork(o) /\ ~op'[o].late

LEMMA AlikeOwn ==
    ASSUME WorkspaceTyped, NEW o \in Ops, Alike(o), OwnEdits(o)
    PROVE  Solitary(o)' /\ OnlyOwn(o)' /\ op'[o].name = op[o].name
<1>1. OnlyOwn(o) /\ settings \in Settings
  BY DEF Alike, Standing, Merging, Making, Untold, WorkspaceTyped, FilesTyped
<1> QED BY <1>1, SolitaryStays, OwnStays DEF Alike, OwnEdits

LEMMA ToNext ==
    ASSUME WorkspaceTyped, NEW o \in Ops, Alike(o), OwnEdits(o), op'[o].kind \in Merging,
           op'[o].pc = "run", op'[o].tmp = Unset, Midway(o)'
    PROVE  Standing(o)'
BY AlikeOwn DEF Standing, Merging, Making, Untold, Quiet

LEMMA ToEnd ==
    ASSUME WorkspaceTyped, NEW o \in Ops, Alike(o), OwnEdits(o), op'[o].kind \in Merging,
           op'[o].pc # "run", Resulted(o)'
    PROVE  Standing(o)'
BY AlikeOwn DEF Standing

LEMMA ToStop ==
    ASSUME WorkspaceTyped, NEW o \in Ops, Alike(o), OwnEdits(o), Stops(o),
           op[o].kind = "delete" => op[o].name \notin settings'.projects \ dirs',
           op[o].kind = "undo" => mishaps' >= 2
    PROVE  Standing(o)'
<1>1. mishaps' \in Nat
  BY WorkFrame DEF Alike
<1>2. op[o].kind = "undo" => ~(mishaps' <= 1)
  BY <1>1
<1>3. Resulted(o)'
  BY <1>2 DEF Stops, Resulted
<1> QED BY <1>3, ToEnd DEF Stops, Alike

\* A merge of an operation that runs alone.
LEMMA AloneMerge ==
    ASSUME WorkspaceTyped, NEW o \in Ops, Alike(o), Now(o).do \in Merges \ {"notify"},
           Target(o) = op[o].name
    PROVE  \/ Standing(o)'
           \/ UNCHANGED <<settings, disabled, dirs>> /\ Mishap /\ Failed(o)
           \/ /\ dirs' = dirs
              /\ IF Now(o).do = "hide" THEN disabled' = disabled \union {op[o].name}
                 ELSE IF Now(o).do = "unhide" THEN disabled' = disabled \ {op[o].name}
                 ELSE disabled' = disabled
              /\ IF Now(o).do = "register" THEN settings' = [settings EXCEPT !.projects = @ \union {op[o].name}]
                 ELSE IF Now(o).do = "unregister" THEN settings' = [settings EXCEPT !.projects = @ \ {op[o].name}]
                 ELSE settings' = settings
              /\ (Done(o) /\ mishaps' = mishaps) \/ (Mishap /\ Failed(o))
<1>1. /\ op[o].pc = "run" /\ ~op[o].dead /\ OpWork(o) /\ Now(o).do \in Merges
      /\ Midway(o) /\ (op[o].tmp # Unset => op[o].tmp = Edited(o))
  BY WorkTyped DEF Alike, Standing, Solitary
<1>2. CASE /\ UNCHANGED <<dirs, settings, disabled, mishaps>>
           /\ op'[o].kind = op[o].kind /\ op'[o].pc = "run" /\ op'[o].todo = op[o].todo
           /\ op'[o].tmp = Edited(o)
  <2>1. OwnEdits(o)
    BY <1>2 DEF OwnEdits
  <2>2. Solitary(o)' /\ OnlyOwn(o)' /\ op'[o].name = op[o].name
    BY <2>1, AlikeOwn
  <2>3. Edited(o)' = Edited(o)
    BY <1>2 DEF Edited, Now, Target, Notified
  <2>4. Midway(o)'
    BY <1>1, <1>2, <2>2 DEF Midway
  <2> QED BY <1>2, <2>2, <2>3, <2>4 DEF Standing, Alike, Merging, Making, Untold, Quiet
<1>3. CASE UNCHANGED <<dirs, settings, disabled>> /\ Mishap /\ Failed(o)
  BY <1>3
<1>4. CASE /\ op[o].tmp # Unset /\ dirs' = dirs
           /\ IF Now(o).do \in {"hide", "unhide"}
              THEN disabled' = op[o].tmp.hidden /\ settings' = settings
              ELSE settings' = op[o].tmp /\ disabled' = disabled
           /\ (Done(o) /\ mishaps' = mishaps) \/ (Mishap /\ Failed(o))
  <2>1. op[o].tmp = Edited(o)
    BY <1>1, <1>4
  <2>2. Now(o).do \in {"register", "unregister", "hide", "unhide"}
    BY DEF Merges
  <2> QED BY <1>4, <2>1, <2>2, EditedIs
<1> QED BY <1>1, <1>2, <1>3, <1>4, MergeTurns

\* test -d of an operation that runs alone.
LEMMA AloneTest ==
    ASSUME WorkspaceTyped, NEW o \in Ops, Alike(o), Now(o).do = "test"
    PROVE  \/ Standing(o)'
           \/ UNCHANGED <<dirs, settings, disabled, mishaps>> /\ Target(o) \in dirs /\ Goes(o)
<1>1. op[o].pc = "run" /\ ~op[o].dead /\ OpsTyped /\ op[o] \in OpStates /\ Test(o)
  BY WorkTyped, FirstTyped, CommandDecides DEF Alike, Standing, Solitary, WorkspaceTyped
<1>2. UNCHANGED <<dirs, settings, disabled, mishaps>>
  BY <1>1 DEF Test
<1>3. CASE Target(o) \in dirs /\ Done(o)
  BY <1>1, <1>2, <1>3, DoneGoes
<1>4. CASE End(o, "missing")
  <2>1. Moves(o, op[o]) /\ op'[o].pc = "missing"
    BY <1>1, <1>4, EndsStep DEF End, Results
  <2>2. Resulted(o)'
    BY <2>1 DEF Resulted
  <2>3. OwnEdits(o) /\ op'[o].kind \in Merging
    BY <1>2, <2>1 DEF OwnEdits, Moves, Alike
  <2> QED BY <2>1, <2>2, <2>3, ToEnd
<1> QED BY <1>1, <1>3, <1>4 DEF Test

\* The next command is up, with what Midway says of it.
LEMMA GoesOn ==
    ASSUME WorkspaceTyped, NEW o \in Ops, Alike(o), OwnEdits(o), Goes(o),
           Tail(op[o].todo) # <<>>, op'[o].todo = Tail(op[o].todo) => Midway(o)'
    PROVE  Standing(o)'
<1>1. op'[o].pc = "run" /\ op'[o].todo = Tail(op[o].todo) /\ op'[o].tmp = Unset
      /\ op'[o].kind \in Merging
  BY DEF Goes, Alike
<1> QED BY <1>1, ToNext

LEMMA GoesOut ==
    ASSUME WorkspaceTyped, NEW o \in Ops, Alike(o), OwnEdits(o), Goes(o),
           Tail(op[o].todo) = <<>>, Resulted(o)'
    PROVE  Standing(o)'
<1>1. op'[o].pc # "run" /\ op'[o].kind \in Merging
  BY DEF Goes, Alike
<1> QED BY <1>1, ToEnd

\* Creating, cloning, enabling.
LEMMA MakingStands ==
    ASSUME WorkspaceTyped, NEW o \in Ops, Alike(o), op[o].kind \in Making
    PROVE  Standing(o)'
<1> DEFINE n == op[o].name
<1>1. /\ op[o].pc = "run" /\ ~op[o].dead /\ OpsTyped /\ Midway(o) /\ visible /\ OpWork(o)
      /\ n \in ProjectNames /\ ~op'[o].late
  BY WorkTyped, FirstTyped, TargetsAssumption DEF Alike, Standing, Solitary, WorkspaceTyped, OpStates
<1>2. op[o].kind \notin {"disable", "undo", "delete"} \union Untold
  BY DEF Making, Untold
<1>3. Failed(o) => Stops(o)
  BY <1>1, <1>2, FailedStops
<1>4. Done(o) => Goes(o)
  BY <1>1, DoneGoes
<1>5. {"unhide", "register"} \subseteq Commands
  BY DEF Commands
<1>6. Step("unhide", n) \in OpSteps /\ Step("register", n) \in OpSteps
  BY <1>1, <1>5, StepTyped
<1>7. CASE /\ op[o].kind \in {"create", "clone"}
           /\ op[o].todo \in {Creation("mkdir", n), Creation("clone", n)}
  <2>1. /\ Now(o).do \in {"mkdir", "clone"} /\ Target(o) = n
        /\ Tail(op[o].todo) = <<Step("unhide", n), Step("register", n)>>
    BY <1>1, <1>7, Lefts
  <2>2. MakeDirectory(o)
    BY <1>1, <2>1, CommandDecides
  <2>3. settings' = settings /\ OwnEdits(o)
    BY <2>2 DEF MakeDirectory, OwnEdits
  <2>4. CASE Failed(o)
    BY <1>2, <1>3, <2>3, <2>4, ToStop
  <2>5. CASE n \in dirs' /\ Done(o)
    <3>1. op'[o].name = n /\ op'[o].kind = op[o].kind
      BY <1>4, <2>5 DEF Goes
    <3>2. op'[o].todo = Tail(op[o].todo) => Midway(o)'
      BY <2>1, <2>5, <3>1 DEF Midway
    <3>3. Tail(op[o].todo) # <<>>
      BY <2>1, NotDone
    <3> QED BY <1>4, <2>1, <2>3, <2>5, <3>2, <3>3, GoesOn
  <2>6. ~TimesOut(o)
    BY <1>1, LateMoves
  <2> QED BY <1>1, <2>1, <2>2, <2>4, <2>5, <2>6 DEF MakeDirectory
<1>8. CASE op[o].kind = "enable" /\ op[o].todo = Enabling(n)
  <2>1. /\ Now(o).do = "test" /\ Target(o) = n
        /\ Tail(op[o].todo) = <<Step("unhide", n), Step("register", n)>>
    BY <1>1, <1>8, Lefts
  <2>2. CASE UNCHANGED <<dirs, settings, disabled, mishaps>> /\ Target(o) \in dirs /\ Goes(o)
    <3>1. OwnEdits(o)
      BY <2>2 DEF OwnEdits
    <3>2. op'[o].todo = Tail(op[o].todo) => Midway(o)'
      BY <1>8, <2>1, <2>2 DEF Midway, Goes, Making
    <3>3. Tail(op[o].todo) # <<>>
      BY <2>1, NotDone
    <3> QED BY <2>1, <2>2, <3>1, <3>2, <3>3, GoesOn
  <2> QED BY <2>1, <2>2, AloneTest
<1>9. CASE n \in dirs /\ op[o].todo = <<Step("unhide", n), Step("register", n)>>
  <2>1. Now(o).do = "unhide" /\ Target(o) = n /\ Tail(op[o].todo) = <<Step("register", n)>>
    BY <1>1, <1>5, <1>9, ShortLefts
  <2>2. \/ Standing(o)'
        \/ UNCHANGED <<settings, disabled, dirs>> /\ Mishap /\ Failed(o)
        \/ /\ dirs' = dirs /\ settings' = settings /\ disabled' = disabled \ {n}
           /\ Done(o) \/ Failed(o)
    BY <2>1, AloneMerge DEF Merges
  <2>3. CASE Failed(o) /\ settings' = settings
    <3>1. OwnEdits(o)
      BY <2>3 DEF OwnEdits
    <3> QED BY <1>2, <1>3, <2>3, <3>1, ToStop
  <2>4. CASE dirs' = dirs /\ settings' = settings /\ disabled' = disabled \ {n} /\ Done(o)
    <3>1. OwnEdits(o)
      BY <2>4 DEF OwnEdits
    <3>2. op'[o].name = n /\ op'[o].kind = op[o].kind
      BY <1>4, <2>4 DEF Goes
    <3>3. op'[o].todo = Tail(op[o].todo) => Midway(o)'
      BY <1>9, <2>1, <2>4, <3>2 DEF Midway
    <3>4. Tail(op[o].todo) # <<>>
      BY <2>1, NotDone
    <3> QED BY <1>4, <2>1, <2>4, <3>1, <3>3, <3>4, GoesOn
  <2> QED BY <2>2, <2>3, <2>4
<1>10. CASE n \in dirs \ disabled /\ op[o].todo = <<Step("register", n)>>
  <2>1. Now(o).do = "register" /\ Target(o) = n /\ Tail(op[o].todo) = <<>>
    BY <1>1, <1>5, <1>10, ShortLefts
  <2>2. \/ Standing(o)'
        \/ UNCHANGED <<settings, disabled, dirs>> /\ Mishap /\ Failed(o)
        \/ /\ dirs' = dirs /\ settings' = [settings EXCEPT !.projects = @ \union {n}] /\ disabled' = disabled
           /\ Done(o) \/ Failed(o)
    BY <2>1, AloneMerge DEF Merges
  <2>3. CASE Failed(o) /\ settings' \in {settings, [settings EXCEPT !.projects = @ \union {n}]}
    <3>1. OwnEdits(o)
      BY <2>3 DEF OwnEdits
    <3> QED BY <1>2, <1>3, <2>3, <3>1, ToStop
  <2>4. CASE /\ dirs' = dirs /\ settings' = [settings EXCEPT !.projects = @ \union {n}]
             /\ disabled' = disabled /\ Done(o)
    <3>1. OwnEdits(o)
      BY <2>4 DEF OwnEdits
    <3>2. op'[o].name = n /\ op'[o].kind = op[o].kind
      BY <1>4, <2>4 DEF Goes
    <3>3. n \in settings'.projects
      BY <2>4 DEF WorkspaceTyped, FilesTyped, Settings
    <3>4. Resulted(o)'
      BY <1>2, <1>10, <2>4, <3>2, <3>3 DEF Resulted
    <3> QED BY <1>4, <2>1, <2>4, <3>1, <3>4, GoesOut
  <2> QED BY <2>2, <2>3, <2>4
<1> QED BY <1>1, <1>2, <1>7, <1>8, <1>9, <1>10 DEF Midway

\* Disabling, and taking the mark back when the registration stays.
LEMMA DisableStands ==
    ASSUME WorkspaceTyped, NEW o \in Ops, Alike(o), op[o].kind = "disable"
    PROVE  Standing(o)'
<1> DEFINE n == op[o].name
<1>1. /\ op[o].pc = "run" /\ ~op[o].dead /\ OpsTyped /\ Midway(o) /\ OpWork(o)
      /\ n \in ProjectNames /\ ~op'[o].late /\ mishaps \in 0..MaxMishaps
  BY WorkTyped, FirstTyped, TargetsAssumption
  DEF Alike, Standing, Solitary, WorkspaceTyped, OpStates, FilesTyped
<1>2. op[o].kind \notin Untold \union Making \union {"undo", "delete"}
  BY DEF Making, Untold
<1>3. Failed(o) /\ Now(o).do # "unregister" => Stops(o)
  BY <1>1, <1>2, FailedStops
<1>4. Done(o) => Goes(o)
  BY <1>1, DoneGoes
<1>5. {"hide", "unregister", "unhide"} \subseteq Commands
  BY DEF Commands
<1>6. CASE op[o].todo = Disabling(n)
  <2>1. /\ Now(o).do = "test" /\ Target(o) = n
        /\ Tail(op[o].todo) = <<Step("hide", n), Step("unregister", n)>>
    BY <1>1, <1>6, Lefts
  <2>2. CASE UNCHANGED <<dirs, settings, disabled, mishaps>> /\ Target(o) \in dirs /\ Goes(o)
    <3>1. OwnEdits(o)
      BY <2>2 DEF OwnEdits
    <3>2. op'[o].todo = Tail(op[o].todo) => Midway(o)'
      BY <2>1, <2>2 DEF Midway, Goes
    <3>3. Tail(op[o].todo) # <<>>
      BY <2>1, NotDone
    <3> QED BY <2>2, <3>1, <3>2, <3>3, GoesOn
  <2> QED BY <2>1, <2>2, AloneTest
<1>7. CASE op[o].todo = <<Step("hide", n), Step("unregister", n)>>
  <2>1. Now(o).do = "hide" /\ Target(o) = n /\ Tail(op[o].todo) = <<Step("unregister", n)>>
    BY <1>1, <1>5, <1>7, ShortLefts
  <2>2. \/ Standing(o)'
        \/ UNCHANGED <<settings, disabled, dirs>> /\ Mishap /\ Failed(o)
        \/ /\ settings' = settings /\ disabled' = disabled \union {n}
           /\ Done(o) \/ Failed(o)
    BY <2>1, AloneMerge DEF Merges
  <2>3. CASE Failed(o) /\ settings' = settings
    <3>1. OwnEdits(o) /\ Stops(o)
      BY <1>3, <2>1, <2>3 DEF OwnEdits
    <3> QED BY <1>2, <3>1, ToStop
  <2>4. CASE settings' = settings /\ disabled' = disabled \union {n} /\ Done(o)
    <3>1. OwnEdits(o)
      BY <2>4 DEF OwnEdits
    <3>2. op'[o].name = n /\ op'[o].kind = op[o].kind
      BY <1>4, <2>4 DEF Goes
    <3>3. op'[o].todo = Tail(op[o].todo) => Midway(o)'
      BY <2>1, <2>4, <3>2 DEF Midway
    <3>4. Tail(op[o].todo) # <<>>
      BY <2>1, NotDone
    <3> QED BY <1>4, <2>4, <3>1, <3>3, <3>4, GoesOn
  <2> QED BY <2>2, <2>3, <2>4
<1>8. CASE n \in disabled /\ op[o].todo = <<Step("unregister", n)>>
  <2>1. Now(o).do = "unregister" /\ Target(o) = n /\ Tail(op[o].todo) = <<>>
    BY <1>1, <1>5, <1>8, ShortLefts
  <2>2. \/ Standing(o)'
        \/ UNCHANGED <<settings, disabled, dirs>> /\ Mishap /\ Failed(o)
        \/ /\ settings' = [settings EXCEPT !.projects = @ \ {n}] /\ disabled' = disabled
           /\ Done(o) \/ (Mishap /\ Failed(o))
    BY <2>1, AloneMerge DEF Merges
  <2>3. CASE Mishap /\ Failed(o) /\ settings' \in {settings, [settings EXCEPT !.projects = @ \ {n}]}
    <3>1. OwnEdits(o) /\ mishaps' >= 1
      BY <1>1, <2>3, MishapGrows DEF OwnEdits
    <3>2. Ceases(o) /\ op'[o].pc = "run" /\ op'[o].todo = <<Step("unhide", n)>>
      BY <1>1, <2>1, <2>3, FailedStep
    <3>3. Moves(o, [op[o] EXCEPT !.kind = "undo"])
      BY <3>2, <1>2 DEF Ceases, Untold
    <3>4. op'[o].kind = "undo" /\ op'[o].name = n /\ op'[o].tmp = Unset
      <4> DEFINE r == [op[o] EXCEPT !.kind = "undo"]
      <4>1. op[o] \in OpStates
        BY <1>1, FirstTyped
      <4>2. r.kind = "undo" /\ r.name = n
        BY <4>1 DEF OpStates
      <4>3. Moves(o, r)
        BY <3>3
      <4> HIDE DEF r
      <4> QED BY <4>2, <4>3 DEF Moves
    <3>5. Midway(o)'
      BY <3>1, <3>2, <3>4 DEF Midway
    <3> QED BY <3>1, <3>2, <3>4, <3>5, ToNext DEF Merging
  <2>4. CASE settings' = [settings EXCEPT !.projects = @ \ {n}] /\ disabled' = disabled /\ Done(o)
    <3>1. OwnEdits(o)
      BY <2>4 DEF OwnEdits
    <3>2. op'[o].name = n /\ op'[o].kind = op[o].kind /\ op'[o].pc # "partial"
      BY <1>2, <1>4, <2>1, <2>4 DEF Goes
    <3>3. n \notin settings'.projects
      BY <2>4 DEF WorkspaceTyped, FilesTyped, Settings
    <3>4. Resulted(o)'
      BY <1>2, <1>8, <2>4, <3>2, <3>3 DEF Resulted
    <3> QED BY <1>4, <2>1, <2>4, <3>1, <3>4, GoesOut
  <2> QED BY <2>2, <2>3, <2>4
<1> QED BY <1>1, <1>2, <1>6, <1>7, <1>8 DEF Midway

LEMMA SecondMishap ==
    ASSUME mishaps \in Nat, mishaps >= 1, Mishap PROVE mishaps' >= 2
BY DEF Mishap

LEMMA UndoStands ==
    ASSUME WorkspaceTyped, NEW o \in Ops, Alike(o), op[o].kind = "undo"
    PROVE  Standing(o)'
<1> DEFINE n == op[o].name
<1>1. /\ op[o].pc = "run" /\ ~op[o].dead /\ OpsTyped /\ Midway(o) /\ OpWork(o)
      /\ n \in ProjectNames /\ ~op'[o].late /\ mishaps \in Nat
  BY WorkTyped, WorkFrame, FirstTyped, TargetsAssumption
  DEF Alike, Standing, Solitary, WorkspaceTyped, OpStates
<1>2. op[o].kind \notin Untold \union Making \union {"disable", "delete"}
  BY DEF Making, Untold
<1>3. Failed(o) => Stops(o)
  BY <1>1, <1>2, FailedStops
<1>4. Done(o) => Goes(o)
  BY <1>1, DoneGoes
<1>5. mishaps >= 1 /\ op[o].todo = <<Step("unhide", n)>>
  BY <1>1, <1>2 DEF Midway
<1>6. Now(o).do = "unhide" /\ Target(o) = n /\ Tail(op[o].todo) = <<>>
  <2>1. "unhide" \in Commands
    BY DEF Commands
  <2> QED BY <1>1, <1>5, <2>1, ShortLefts
<1>7. \/ Standing(o)'
      \/ UNCHANGED <<settings, disabled, dirs>> /\ Mishap /\ Failed(o)
      \/ /\ settings' = settings /\ disabled' = disabled \ {n}
         /\ Done(o) \/ (Mishap /\ Failed(o))
  BY <1>6, AloneMerge DEF Merges
<1>8. CASE settings' = settings /\ Mishap /\ Failed(o)
  <2>1. OwnEdits(o) /\ mishaps' >= 2
    BY <1>1, <1>5, <1>8, SecondMishap DEF OwnEdits
  <2> QED BY <1>2, <1>3, <1>8, <2>1, ToStop
<1>9. CASE settings' = settings /\ disabled' = disabled \ {n} /\ Done(o)
  <2>1. OwnEdits(o)
    BY <1>9 DEF OwnEdits
  <2>2. op'[o].name = n /\ op'[o].kind = op[o].kind
    BY <1>4, <1>9 DEF Goes
  <2>3. Resulted(o)'
    BY <1>2, <1>9, <2>2 DEF Resulted
  <2> QED BY <1>4, <1>6, <1>9, <2>1, <2>3, GoesOut
<1> QED BY <1>7, <1>8, <1>9

\* Deleting: the registration goes first, the directory last.
LEMMA DeleteStands ==
    ASSUME WorkspaceTyped, NEW o \in Ops, Alike(o), op[o].kind = "delete"
    PROVE  Standing(o)'
<1> DEFINE n == op[o].name
<1>1. /\ op[o].pc = "run" /\ ~op[o].dead /\ OpsTyped /\ Midway(o) /\ visible /\ OpWork(o)
      /\ n \in ProjectNames /\ ~op'[o].late /\ op[o] \in OpStates /\ settings \in Settings
  BY WorkTyped, FirstTyped, TargetsAssumption
  DEF Alike, Standing, Solitary, WorkspaceTyped, OpStates, FilesTyped
<1>2. op[o].kind \notin Untold \union Making \union {"undo", "disable"}
  BY DEF Making, Untold
<1>3. Failed(o) /\ Now(o).do # "unhide" => Stops(o)
  BY <1>1, <1>2, FailedStops
<1>4. Done(o) => Goes(o)
  BY <1>1, DoneGoes
<1>5. {"unregister", "recall", "unhide", "rm"} \subseteq Commands
  BY DEF Commands
<1>6. n \notin [settings EXCEPT !.projects = @ \ {n}].projects
  BY <1>1 DEF Settings
<1>7. CASE op[o].todo = Deletion(n)
  <2>1. /\ Now(o).do = "test" /\ Target(o) = n
        /\ Tail(op[o].todo) = <<Step("unregister", n), Step("recall", n), Step("rm", n)>>
    BY <1>1, <1>7, Lefts
  <2>2. CASE UNCHANGED <<dirs, settings, disabled, mishaps>> /\ Target(o) \in dirs /\ Goes(o)
    <3>1. OwnEdits(o)
      BY <2>2 DEF OwnEdits
    <3>2. op'[o].todo = Tail(op[o].todo) => Midway(o)'
      BY <2>1, <2>2 DEF Midway, Goes
    <3>3. Tail(op[o].todo) # <<>>
      BY <2>1, NotDone
    <3> QED BY <2>2, <3>1, <3>2, <3>3, GoesOn
  <2> QED BY <2>1, <2>2, AloneTest
<1>8. CASE /\ n \in dirs
           /\ op[o].todo = <<Step("unregister", n), Step("recall", n), Step("rm", n)>>
  <2>1. Now(o).do = "unregister" /\ Target(o) = n /\ Tail(op[o].todo) = <<Step("recall", n), Step("rm", n)>>
    BY <1>1, <1>8, Lefts
  <2>2. \/ Standing(o)'
        \/ UNCHANGED <<settings, disabled, dirs>> /\ Mishap /\ Failed(o)
        \/ /\ settings' = [settings EXCEPT !.projects = @ \ {n}] /\ dirs' = dirs
           /\ Done(o) \/ Failed(o)
    BY <2>1, AloneMerge DEF Merges
  <2>3. CASE /\ Failed(o) /\ dirs' = dirs
             /\ settings' \in {settings, [settings EXCEPT !.projects = @ \ {n}]}
    <3>1. OwnEdits(o) /\ Stops(o)
      BY <1>3, <2>1, <2>3 DEF OwnEdits
    <3> QED BY <1>2, <1>8, <2>3, <3>1, ToStop
  <2>4. CASE settings' = [settings EXCEPT !.projects = @ \ {n}] /\ Done(o)
    <3>1. OwnEdits(o)
      BY <2>4 DEF OwnEdits
    <3>2. op'[o].name = n /\ op'[o].kind = op[o].kind
      BY <1>4, <2>4 DEF Goes
    <3>3. op'[o].todo = Tail(op[o].todo) => Midway(o)'
      BY <1>6, <2>1, <2>4, <3>2 DEF Midway
    <3>4. Tail(op[o].todo) # <<>>
      BY <2>1, NotDone
    <3> QED BY <1>4, <2>4, <3>1, <3>3, <3>4, GoesOn
  <2> QED BY <2>2, <2>3, <2>4
<1>9. CASE n \notin settings.projects /\ op[o].todo = <<Step("recall", n), Step("rm", n)>>
  <2>1. Now(o).do = "recall" /\ Target(o) = n /\ Tail(op[o].todo) = <<Step("rm", n)>>
    BY <1>1, <1>5, <1>9, ShortLefts
  <2>2. Recall(o)
    BY <1>1, <2>1, CommandDecides
  <2>3. settings' = settings /\ OwnEdits(o)
    BY <2>2 DEF Recall, OwnEdits
  <2>4. CASE Done(o)
    <3>1. op'[o].name = n /\ op'[o].kind = op[o].kind
      BY <1>4, <2>4 DEF Goes
    <3>2. op'[o].todo = Tail(op[o].todo) => Midway(o)'
      BY <1>9, <2>1, <2>3, <3>1 DEF Midway
    <3>3. Tail(op[o].todo) # <<>>
      BY <2>1, NotDone
    <3> QED BY <1>4, <2>3, <2>4, <3>2, <3>3, GoesOn
  <2>5. CASE Go(o, op[o], <<Step("unhide", n)>> \o Tail(op[o].todo))
    <3> DEFINE u == Step("unhide", n)
               r == Step("rm", n)
    <3>1. u \in OpSteps /\ r \in OpSteps
      BY <1>1, <1>5, StepTyped
    <3> HIDE DEF u, r
    <3>2. <<u>> \o <<r>> = <<u, r>>
      BY <3>1, Unrolled
    <3>3. <<u, r>> \in Seq(OpSteps) /\ <<u, r>> # <<>>
      BY <3>1
    <3>4. Go(o, op[o], <<u, r>>)
      BY <2>1, <2>5, <3>2 DEF u, r
    <3>5. Moves(o, op[o]) /\ op'[o].pc = "run" /\ op'[o].todo = <<u, r>>
      BY <1>1, <3>3, <3>4, GoStep
    <3>6. op'[o].name = n /\ op'[o].kind = op[o].kind /\ op'[o].tmp = Unset
      BY <3>5 DEF Moves
    <3>7. Midway(o)'
      BY <1>9, <2>3, <3>5, <3>6 DEF Midway, u, r
    <3> QED BY <2>3, <3>5, <3>6, <3>7, ToNext DEF Merging
  <2> QED BY <2>1, <2>2, <2>4, <2>5 DEF Recall
<1>10. CASE n \notin settings.projects /\ op[o].todo = <<Step("unhide", n), Step("rm", n)>>
  <2>1. Now(o).do = "unhide" /\ Target(o) = n /\ Tail(op[o].todo) = <<Step("rm", n)>>
    BY <1>1, <1>5, <1>10, ShortLefts
  <2>2. \/ Standing(o)'
        \/ settings' = settings /\ (Done(o) \/ Failed(o))
    BY <2>1, AloneMerge DEF Merges
  <2>3. CASE settings' = settings /\ (Done(o) \/ Failed(o))
    <3>1. Tail(op[o].todo) # <<>>
      BY <2>1, NotDone
    <3>2. Moves(o, op[o]) /\ op'[o].pc = "run" /\ op'[o].todo = <<Step("rm", n)>>
      <4>1. Done(o) => Moves(o, op[o]) /\ op'[o].pc = "run" /\ op'[o].todo = Tail(op[o].todo)
        BY <1>1, <3>1, DoneStep
      <4>2. Failed(o) => Ceases(o) /\ op'[o].pc = "run" /\ op'[o].todo = Tail(op[o].todo)
        BY <1>1, <2>1, <3>1, FailedStep
      <4>3. Ceases(o) => Moves(o, op[o])
        BY <1>2 DEF Ceases
      <4> QED BY <2>1, <2>3, <4>1, <4>2, <4>3
    <3>3. OwnEdits(o)
      BY <2>3 DEF OwnEdits
    <3>4. op'[o].name = n /\ op'[o].kind = op[o].kind /\ op'[o].tmp = Unset
      BY <3>2 DEF Moves
    <3>5. Midway(o)'
      BY <1>10, <2>3, <3>2, <3>4 DEF Midway
    <3> QED BY <3>2, <3>3, <3>4, <3>5, ToNext DEF Merging
  <2> QED BY <2>2, <2>3
<1>11. CASE n \notin settings.projects /\ op[o].todo = <<Step("rm", n)>>
  <2>1. Now(o).do = "rm" /\ Target(o) = n /\ Tail(op[o].todo) = <<>>
    BY <1>1, <1>5, <1>11, ShortLefts
  <2>2. RemoveDirectory(o)
    BY <1>1, <2>1, CommandDecides
  <2>3. settings' = settings /\ OwnEdits(o)
    BY <2>2 DEF RemoveDirectory, OwnEdits
  <2>4. CASE dirs' = dirs \ {n} /\ Done(o)
    <3>1. op'[o].name = n /\ op'[o].kind = op[o].kind
      BY <1>4, <2>4 DEF Goes
    <3>2. Resulted(o)'
      BY <1>2, <1>11, <2>3, <2>4, <3>1 DEF Resulted
    <3> QED BY <1>4, <2>1, <2>3, <2>4, <3>2, GoesOut
  <2>5. CASE Failed(o)
    <3>1. Stops(o)
      BY <1>3, <2>1, <2>5
    <3> QED BY <1>2, <1>11, <2>3, <3>1, ToStop
  <2>6. ~TimesOut(o)
    BY <1>1, LateMoves
  <2> QED BY <1>1, <2>1, <2>2, <2>4, <2>5, <2>6 DEF RemoveDirectory
<1> QED BY <1>1, <1>2, <1>7, <1>8, <1>9, <1>10, <1>11 DEF Midway

\* Only a disable changes what it is.
LEMMA KindStays ==
    ASSUME WorkspaceTyped, NEW o \in Ops, op[o].kind # "disable", OpWork(o)
    PROVE  op'[o].kind = op[o].kind
<1>1. op[o].pc = "run" /\ OpsTyped
  BY WorkTyped DEF WorkspaceTyped
<1>2. /\ op[o] \in OpStates /\ op[o].todo \in Seq(OpSteps) /\ op[o].todo # <<>>
      /\ Tail(op[o].todo) \in Seq(OpSteps) /\ Target(o) \in ProjectNames
  BY <1>1, FirstTyped
<1>3. Done(o) => op'[o].kind = op[o].kind
  BY <1>1, DoneGoes DEF Goes
<1>4. Failed(o) => op'[o].kind = op[o].kind
  BY <1>1, FailedStep DEF Ceases, Moves
<1>5. TimesOut(o) => op'[o].kind = op[o].kind
  <2>1. [op[o] EXCEPT !.late = TRUE].kind = op[o].kind
    BY <1>2 DEF OpStates
  <2> QED BY <1>1, <2>1, TimesOutStep DEF Moves
<1>6. ASSUME NEW todo \in Seq(OpSteps), Go(o, op[o], todo) PROVE op'[o].kind = op[o].kind
  BY <1>1, <1>2, <1>6, GoStep DEF Moves
<1>7. CASE Test(o)
  <2>1. End(o, "missing") => op'[o].kind = op[o].kind
    BY <1>1, <1>2, EndsStep DEF End, Moves, Results
  <2> QED BY <1>3, <1>7, <2>1 DEF Test
<1>8. CASE MakeDirectory(o) \/ RemoveDirectory(o) \/ Lost(o)
  BY <1>3, <1>4, <1>5, <1>8 DEF MakeDirectory, RemoveDirectory, Lost
<1>9. CASE Feature(o) \/ Reindex(o) \/ Install(o)
  BY <1>3, <1>4, <1>5, <1>9 DEF Feature, Reindex, Install
<1>10. CASE Edit(o)
  <2>1. CASE op' = [op EXCEPT ![o].tmp = Edited(o)]
    BY <1>1, <1>2, <2>1 DEF OpsTyped, OpStates
  <2> QED BY <1>4, <1>10, <2>1 DEF Edit
<1>11. CASE Recall(o)
  <2>1. CASE Go(o, op[o], <<Step("unhide", Target(o))>> \o Tail(op[o].todo))
    <3>1. Step("unhide", Target(o)) \in OpSteps
      BY <1>2, StepTyped DEF Commands
    <3>2. <<Step("unhide", Target(o))>> \in Seq(OpSteps)
      BY <3>1
    <3>3. <<Step("unhide", Target(o))>> \o Tail(op[o].todo) \in Seq(OpSteps)
      BY <1>2, <3>2, ConcatProperties
    <3> QED BY <1>6, <2>1, <3>3
  <2> QED BY <1>3, <1>11, <2>1 DEF Recall
<1>12. CASE Remote(o)
  <2>1. CASE Go(o, [op[o] EXCEPT !.seen.projects = remotes \intersect {Target(o)}], Tail(op[o].todo))
    <3> DEFINE r == [op[o] EXCEPT !.seen.projects = remotes \intersect {Target(o)}]
    <3>1. r \in OpStates /\ r.pc = "run" /\ r.kind = op[o].kind
      BY <1>1, <1>2 DEF OpStates, Sights, WorkspaceTyped, FilesTyped
    <3> HIDE DEF r
    <3>2. Go(o, r, Tail(op[o].todo))
      BY <2>1 DEF r
    <3>3. Moves(o, r)
      BY <1>1, <1>2, <3>1, <3>2, GoStep
    <3> QED BY <3>1, <3>3 DEF Moves
  <2> QED BY <1>3, <1>4, <1>5, <1>12, <2>1 DEF Remote
<1>13. CASE See(o)
  <2>1. PICK seen, todo, pc : op' = [op EXCEPT ![o].seen = seen, ![o].todo = todo, ![o].pc = pc]
    <3> DEFINE saw == CASE Now(o).do = "seeDirs" -> [op[o].seen EXCEPT !.dirs = IF visible THEN dirs ELSE {}]
                        [] Now(o).do = "seeProjects" -> [op[o].seen EXCEPT !.projects = settings.projects]
                        [] OTHER -> [op[o].seen EXCEPT !.disabled = disabled]
               last == Len(op[o].todo) = 1
               script == last /\ op[o].kind = "pass"
               work == SetToSeq({Step("register", n) : n \in Missing(saw)})
               left == IF script THEN work ELSE Tail(op[o].todo)
               ends == IF ~last \/ (script /\ work # <<>>) THEN "run" ELSE "ok"
    <3>1. op' = [op EXCEPT ![o].seen = saw, ![o].todo = left, ![o].pc = ends]
      BY <1>13 DEF See
    <3> HIDE DEF saw, left, ends
    <3> QED BY <3>1
  <2> QED BY <1>1, <1>2, <2>1 DEF OpsTyped, OpStates
<1> QED BY <1>7, <1>8, <1>9, <1>10, <1>11, <1>12, <1>13 DEF OpWork

LEMMA WorkStands ==
    ASSUME SoloInv, NEW o \in Ops, OpWork(o)
    PROVE  AllStanding'
<1> SUFFICES ASSUME NEW k \in Ops, op'[k].solo, ~op'[k].late PROVE Standing(k)'
  BY DEF AllStanding
<1>1. WorkspaceTyped /\ Works(o) /\ op[o].pc = "run"
  BY WorkTyped DEF SoloInv
<1>2. op[k].solo /\ ~op[k].late
  <2>1. CASE k = o
    <3>1. op'[o].solo = op[o].solo /\ (op[o].late => op'[o].late)
      BY <1>1 DEF Works, Holds
    <3>2. op[o].late \in BOOLEAN /\ op'[o].late \in BOOLEAN
      BY <1>1 DEF WorkspaceTyped, Works, OpsTyped, OpStates
    <3> QED BY <2>1, <3>1, <3>2
  <2>2. CASE k # o
    BY <1>1, <2>2 DEF Works
  <2> QED BY <2>1, <2>2
<1>3. Standing(k)
  BY <1>2 DEF SoloInv, AllStanding
<1>4. k = o
  BY <1>1, <1>3 DEF Standing, Solitary
<1>5. op[o].kind \in Untold \union Quiet \union Making \union {"disable", "undo", "delete"}
  <2>1. op[o] \in OpStates
    BY <1>1, FirstTyped DEF WorkspaceTyped
  <2>2. op[o].kind \in Kinds
    BY <2>1 DEF OpStates
  <2> QED BY <2>2 DEF Kinds, Untold, Quiet, Making
<1>6. CASE op[o].kind \in Untold
  <2>1. op[o].kind # "disable"
    BY <1>6 DEF Untold
  <2> QED BY <1>1, <1>3, <1>4, <1>6, <2>1, KindStays, UntoldStands
<1>7. CASE op[o].kind \in Quiet
  BY <1>1, <1>3, <1>4, <1>7, QuietStands
<1>8. CASE op[o].kind \in Making \union {"disable", "undo", "delete"}
  <2>1. Alike(o)
    BY <1>3, <1>4, <1>8 DEF Alike, Merging
  <2> QED BY <1>1, <1>4, <1>8, <2>1, MakingStands, DisableStands, UndoStands, DeleteStands
<1> QED BY <1>5, <1>6, <1>7, <1>8

LEMMA NextStanding == SoloInv /\ [ProjectNext]_workspaceVars => SoloInv'
<1> SUFFICES ASSUME SoloInv, [ProjectNext]_workspaceVars PROVE AllStanding'
  BY WorkspaceNext DEF SoloInv
<1>1. WorkspaceTyped
  BY DEF SoloInv
<1>2. ASSUME NEW o \in Ops, Requests(o) PROVE AllStanding'
  <2>1. PICK r : Asked(r) /\ Started(o, r)
    BY <1>1, <1>2, RequestStep
  <2>2. /\ UNCHANGED <<dirs, visible, settings, disabled, feats, remotes, boot, mishaps>>
        /\ page' \in Lists \union {Unset} /\ requests' \in 0..MaxRequests
    BY <1>1, <1>2, RequestStep
  <2>3. FilesTyped' /\ boot' \in [pc : {"first", "sleep", "pass", "consistent", "gave up"},
                                 round : 0..Rounds, op : Ops \union {Unset}]
    BY <1>1, <2>2 DEF WorkspaceTyped, FilesTyped, OpsTyped
  <2>4. Arrives(o, r)
    BY <1>1, <2>1, <2>2, <2>3, ArrivesTyped
  <2> QED BY <2>1, <2>2, <2>4, ArrivesStands
<1>3. ASSUME NEW o \in Ops, BootPass(o) PROVE AllStanding'
  <2>1. UNCHANGED <<dirs, visible, settings, disabled, feats, remotes, page, requests, mishaps>>
    BY <1>1, <1>3, PassStep
  <2>2. CASE op' = op
    <3>1. mishaps \in 0..MaxMishaps /\ mishaps >= mishaps
      BY <1>1, ProjectBoundsAssumption DEF WorkspaceTyped, FilesTyped
    <3>2. Aside
      BY <2>1, <2>2, <3>1 DEF Aside
    <3> QED BY <3>2, AsideStands
  <2>3. CASE \E r : Asked(r) /\ Started(o, r)
    <3>1. PICK r : Asked(r) /\ Started(o, r)
      BY <2>3
    <3>2. FilesTyped' /\ page' \in Lists \union {Unset}
      BY <1>1, <2>1 DEF WorkspaceTyped, FilesTyped, OpsTyped
    <3>3. Arrives(o, r)
      BY <1>1, <1>3, <3>1, <3>2, PassStep, ArrivesTyped
    <3> QED BY <2>1, <3>1, <3>3, ArrivesStands
  <2> QED BY <1>1, <1>3, <2>2, <2>3, PassStep
<1>4. ASSUME NEW o \in Ops, OpWork(o) PROVE AllStanding'
  BY <1>4, WorkStands
<1>5. CASE AiDevStarts \/ OpenChamberPersists
  BY <1>1, <1>5, RestartStep, PersistStep DEF AllStanding
<1>6. CASE \/ MountAppears \/ Refresh \/ Expires \/ UNCHANGED workspaceVars
           \/ \E v \in Viewers : AskOverview(v) \/ ToolSteps(v)
  <2>1. Aside
    BY <1>1, <1>6, ElsewhereSteps DEF Elsewhere, Aside
  <2> QED BY <2>1, AsideStands
<1> QED BY <1>2, <1>3, <1>4, <1>5, <1>6 DEF ProjectNext, Requests

LEMMA StandingKeeps == SoloInv => SoloOps
<1> SUFFICES ASSUME SoloInv, NEW o \in Ops, op[o].pc \notin {"idle", "run"}, op[o].solo, ~op[o].late
             PROVE  LET n == op[o].name
                        k == op[o].kind
                        before == op[o].before
                    IN
                    /\ k \notin {"sync", "center sync", "pass", "notify"} =>
                         settings = [before EXCEPT !.projects = (@ \ {n}) \union (settings.projects \intersect {n})]
                    /\ op[o].pc = "ok" =>
                         /\ k \in {"create", "clone", "enable"} => n \in (dirs \intersect settings.projects) \ disabled
                         /\ k = "disable" => n \in disabled \ settings.projects
                         /\ k = "delete" => n \notin dirs \union settings.projects
                    /\ k = "delete" /\ op[o].pc # "missing" => n \notin settings.projects \ dirs
                    /\ k \in {"disable", "undo"} /\ op[o].pc = "partial" /\ mishaps <= 1 => n \notin disabled
  BY DEF SoloOps
<1> DEFINE n == op[o].name
           before == op[o].before
<1>1. Standing(o)
  BY DEF SoloInv, AllStanding
<1>2. Resulted(o) /\ before \in Settings /\ settings \in Settings
  BY <1>1 DEF Standing, Solitary, SoloInv, WorkspaceTyped, FilesTyped
<1>3. ASSUME op[o].kind \notin Untold
      PROVE  settings = [before EXCEPT !.projects = (@ \ {n}) \union (settings.projects \intersect {n})]
  <2> DEFINE kept == (before.projects \ {n}) \union (settings.projects \intersect {n})
  <2>1. settings.notify = before.notify /\ settings.projects \ {n} = before.projects \ {n}
    BY <1>1, <1>3 DEF Standing, OnlyOwn
  <2>2. settings.projects = kept
    BY <2>1
  <2>3. settings = [projects |-> settings.projects, notify |-> settings.notify]
    BY <1>2 DEF Settings
  <2>4. before = [projects |-> before.projects, notify |-> before.notify]
    BY <1>2 DEF Settings
  <2> HIDE DEF kept, before
  <2>5. [before EXCEPT !.projects = kept] = [projects |-> kept, notify |-> before.notify]
    BY <2>4
  <2>6. settings = [before EXCEPT !.projects = kept]
    BY <2>1, <2>2, <2>3, <2>5
  <2> QED BY <2>6 DEF kept
<1> QED BY <1>2, <1>3 DEF Resulted, Making, Untold

\* An operation that ran alone has come to what its route promises.
THEOREM LoneOperationsKeepTheirPromise == ProjectSpec => []SoloOps
<1>1. ProjectInit => SoloInv
  BY WorkspaceInit, InitStanding DEF SoloInv
<1>2. SoloInv /\ [ProjectNext]_workspaceVars => SoloInv'
  BY NextStanding
<1>3. SoloInv => SoloOps
  BY StandingKeeps
<1> QED BY <1>1, <1>2, <1>3, PTL DEF ProjectSpec

-----------------------------------------------------------------------------
(* Queues. *)

\* The members of a queue, and that none is there twice.
Members(q) == {q[i] : i \in DOMAIN q}
Once(q) == \A i, j \in DOMAIN q : q[i] = q[j] => i = j

LEMMA JoinsQueue ==
    ASSUME NEW S, NEW q \in Seq(S), NEW w \in S, Once(q), w \notin Members(q)
    PROVE  /\ Append(q, w) \in Seq(S) /\ Append(q, w) # <<>> /\ Once(Append(q, w))
           /\ Members(Append(q, w)) = Members(q) \union {w} /\ Len(Append(q, w)) = Len(q) + 1
<1> DEFINE a == Append(q, w)
<1>1. /\ a \in Seq(S) /\ Len(a) = Len(q) + 1 /\ Len(q) \in Nat /\ a[Len(q) + 1] = w
      /\ \A i \in 1 .. Len(q) : a[i] = q[i]
      /\ DOMAIN q = 1 .. Len(q) /\ DOMAIN a = 1 .. Len(q) + 1
  BY AppendProperties, LenProperties
<1> HIDE DEF a
<1>2. a # <<>>
  BY <1>1, EmptySeq
<1>3. \A i \in DOMAIN q : q[i] # w
  BY DEF Members
<1>4. \A i \in DOMAIN a : i \in DOMAIN q \/ i = Len(q) + 1
  BY <1>1
<1>5. Once(a)
  <2> SUFFICES ASSUME NEW i \in DOMAIN a, NEW j \in DOMAIN a, a[i] = a[j] PROVE i = j
    BY DEF Once
  <2>1. CASE i \in DOMAIN q /\ j \in DOMAIN q
    BY <1>1, <2>1 DEF Once
  <2>2. CASE i \in DOMAIN q /\ j = Len(q) + 1
    BY <1>1, <1>3, <2>2
  <2>3. CASE j \in DOMAIN q /\ i = Len(q) + 1
    BY <1>1, <1>3, <2>3
  <2> QED BY <1>4, <2>1, <2>2, <2>3
<1>6. Members(a) = Members(q) \union {w}
  <2>1. \A x \in Members(a) : x \in Members(q) \union {w}
    BY <1>1, <1>4 DEF Members
  <2>2. \A x \in Members(q) : x \in Members(a)
    BY <1>1 DEF Members
  <2>3. w \in Members(a)
    BY <1>1 DEF Members
  <2> QED BY <2>1, <2>2, <2>3
<1> QED BY <1>1, <1>2, <1>5, <1>6 DEF a

LEMMA LeavesQueue ==
    ASSUME NEW S, NEW q \in Seq(S), q # <<>>, Once(q)
    PROVE  /\ Head(q) \in Members(q) /\ Head(q) \in S /\ Tail(q) \in Seq(S) /\ Once(Tail(q))
           /\ Members(Tail(q)) = Members(q) \ {Head(q)} /\ Len(Tail(q)) = Len(q) - 1
<1> DEFINE t == Tail(q)
           h == Head(q)
<1>1. /\ h \in S /\ t \in Seq(S) /\ Len(t) = Len(q) - 1 /\ h = q[1]
      /\ \A i \in 1 .. Len(t) : t[i] = q[i + 1]
  BY HeadTailProperties
<1>2. Len(q) \in Nat /\ Len(q) > 0 /\ DOMAIN q = 1 .. Len(q) /\ DOMAIN t = 1 .. Len(t)
  BY <1>1, EmptySeq, LenProperties
<1> HIDE DEF t, h
<1>3. h \in Members(q)
  BY <1>1, <1>2 DEF Members
<1>4. \A i \in DOMAIN t : i + 1 \in DOMAIN q /\ t[i] = q[i + 1] /\ i + 1 # 1
  BY <1>1, <1>2
<1>5. Once(t)
  <2> SUFFICES ASSUME NEW i \in DOMAIN t, NEW j \in DOMAIN t, t[i] = t[j] PROVE i = j
    BY DEF Once
  <2>1. i + 1 = j + 1
    BY <1>4 DEF Once
  <2> QED BY <1>2, <2>1
<1>6. \A x \in Members(t) : x \in Members(q) \ {h}
  <2> SUFFICES ASSUME NEW i \in DOMAIN t PROVE t[i] \in Members(q) \ {h}
    BY DEF Members
  <2>1. 1 \in DOMAIN q /\ q[i + 1] # q[1]
    BY <1>2, <1>4 DEF Once
  <2> QED BY <1>1, <1>4, <2>1 DEF Members
<1>7. \A x \in Members(q) \ {h} : x \in Members(t)
  <2> SUFFICES ASSUME NEW i \in DOMAIN q, q[i] # h PROVE q[i] \in Members(t)
    BY DEF Members
  <2>1. i - 1 \in DOMAIN t /\ (i - 1) + 1 = i
    BY <1>1, <1>2
  <2>2. t[i - 1] = q[i]
    BY <1>4, <2>1
  <2> QED BY <2>1, <2>2 DEF Members
<1> QED BY <1>1, <1>3, <1>5, <1>6, <1>7 DEF t, h

-----------------------------------------------------------------------------
(* The tool status: slots, queue and shared scans. *)

\* Slots, queue and probes agree; only a viewer whose scan is over has probes.
SlotInv ==
    /\ slots = Cardinality(Holding)
    /\ queue # <<>> => slots = Concurrency
    /\ Once(queue) /\ Members(queue) = Waiting /\ Len(queue) = Cardinality(Waiting)
    /\ \A v \in Viewers : view[v].pc # "probes" => \A n \in ProjectNames : probe[v][n].pc = "idle"
ToolInv == ToolTypeOK /\ SlotInv

LEMMA PairsFinite == IsFiniteSet(Holding) /\ IsFiniteSet(Waiting)
<1>1. IsFiniteSet(Viewers \X ProjectNames)
  BY ProbesAssumption, DirectoriesAssumption, FS_Product
<1>2. Holding \in SUBSET (Viewers \X ProjectNames) /\ Waiting \in SUBSET (Viewers \X ProjectNames)
  BY DEF Holding, Waiting
<1> QED BY <1>1, <1>2, FS_Subset

LEMMA ToolInitial == ToolInit => ToolInv
<1> SUFFICES ASSUME ToolInit PROVE ToolInv
  OBVIOUS
<1>1. ToolTypeOK
  BY ProbesAssumption DEF ToolInit, ToolTypeOK, Views, Probes, NoView, NoProbe
<1>2. Holding = {} /\ Waiting = {}
  BY DEF ToolInit, Holding, Waiting, NoProbe
<1>3. Cardinality(Holding) = 0 /\ Cardinality(Waiting) = 0
  BY <1>2, FS_EmptySet
<1>4. Once(queue) /\ Members(queue) = {} /\ Len(queue) = 0
  BY DEF ToolInit, Once, Members
<1> QED BY <1>1, <1>2, <1>3, <1>4 DEF ToolInv, SlotInv, ToolInit, NoView, NoProbe

\* One probe goes on.
LEMMA ProbeGoes ==
    ASSUME NEW v \in Viewers, NEW n \in ProjectNames,
           \A u \in Viewers, m \in ProjectNames : <<u, m>> # <<v, n>> => probe'[u][m] = probe[u][m]
    PROVE  /\ Holding' = IF probe'[v][n].pc \in {"held", "running", "stored"}
                         THEN Holding \union {<<v, n>>} ELSE Holding \ {<<v, n>>}
           /\ Waiting' = IF probe'[v][n].pc = "queued"
                         THEN Waiting \union {<<v, n>>} ELSE Waiting \ {<<v, n>>}
<1>1. ASSUME NEW w \in Viewers \X ProjectNames
      PROVE  /\ w = <<v, n>> => probe'[w[1]][w[2]] = probe'[v][n]
             /\ w # <<v, n>> => probe'[w[1]][w[2]] = probe[w[1]][w[2]]
  OBVIOUS
<1>2. Holding' = IF probe'[v][n].pc \in {"held", "running", "stored"}
                 THEN Holding \union {<<v, n>>} ELSE Holding \ {<<v, n>>}
  BY <1>1 DEF Holding
<1>3. Waiting' = IF probe'[v][n].pc = "queued" THEN Waiting \union {<<v, n>>} ELSE Waiting \ {<<v, n>>}
  BY <1>1 DEF Waiting
<1> QED BY <1>2, <1>3

\* Only a viewer whose scan is over has probes under way.
Still(v) == view[v].pc # "probes" => \A n \in ProjectNames : probe[v][n].pc = "idle"

LEMMA HeldTyped ==
    \A r \in Probes : [r EXCEPT !.pc = "held"] \in Probes /\ [r EXCEPT !.pc = "held"].pc = "held"
BY DEF Probes

LEMMA OneMore ==
    ASSUME NEW S, NEW w, IsFiniteSet(S), w \notin S, Cardinality(S) < Concurrency
    PROVE  /\ Cardinality(S \union {w}) = Cardinality(S) + 1
           /\ Cardinality(S) + 1 \in 0..Concurrency
<1>1. Cardinality(S \union {w}) = Cardinality(S) + 1
  BY FS_AddElement
<1>2. Cardinality(S) \in Nat /\ Concurrency \in Nat
  BY ProbesAssumption, FS_CardinalityType
<1> QED BY <1>1, <1>2

\* The slot of a probe that has come to its end goes to the first in the queue.
LEMMA SlotGoesOn ==
    ASSUME ToolInv, NEW v \in Viewers, NEW n \in ProjectNames, NEW r \in Probes, r.pc = "idle",
           <<v, n>> \in Holding, view' = view, SlotReleased([probe EXCEPT ![v][n] = r])
    PROVE  /\ SlotInv' /\ slots' \in 0..Concurrency /\ queue' \in Seq(Viewers \X ProjectNames)
           /\ probe' \in [Viewers -> [ProjectNames -> Probes]]
<1> DEFINE pr == [probe EXCEPT ![v][n] = r]
           w == <<v, n>>
           S == Viewers \X ProjectNames
<1>1. /\ ToolTypeOK /\ slots = Cardinality(Holding) /\ slots \in 0..Concurrency /\ Concurrency \in Nat
      /\ queue \in Seq(S)
      /\ queue # <<>> => slots = Concurrency
      /\ Once(queue) /\ Members(queue) = Waiting /\ Len(queue) = Cardinality(Waiting)
  BY ProbesAssumption DEF ToolInv, SlotInv, ToolTypeOK
<1>2. probe \in [Viewers -> [ProjectNames -> Probes]]
  BY <1>1 DEF ToolTypeOK
<1>3. probe[v][n].pc \in {"held", "running", "stored"} /\ view[v].pc = "probes"
      /\ w \notin Waiting
  BY DEF Holding, Waiting, ToolInv, SlotInv
<1>4. /\ slots' = PassOn[1] /\ queue' = PassOn[2]
      /\ probe' = [u \in Viewers |-> [m \in ProjectNames |->
           IF <<u, m>> \in PassOn[3] THEN [pr[u][m] EXCEPT !.pc = "held"] ELSE pr[u][m]]]
  BY DEF SlotReleased
<1>5. IsFiniteSet(Holding) /\ IsFiniteSet(Waiting) /\ Cardinality(Holding) \in Nat
  BY PairsFinite, FS_CardinalityType
<1>6. Cardinality(Holding \ {w}) = Cardinality(Holding) - 1 /\ IsFiniteSet(Holding \ {w})
  BY <1>5, FS_RemoveElement
<1>7. Cardinality(Holding \ {w}) \in Nat
  BY <1>6, FS_CardinalityType
<1>8. CASE queue = <<>>
  <2>1. PassOn = <<slots - 1, queue, {}>>
    BY <1>8 DEF PassOn
  <2>2. slots' = slots - 1 /\ queue' = queue
    BY <1>4, <2>1
  <2>3. probe' = pr
    <3>1. probe' = [u \in Viewers |-> [m \in ProjectNames |-> pr[u][m]]]
      BY <1>4, <2>1
    <3>2. pr \in [Viewers -> [ProjectNames -> Probes]]
      BY <1>2
    <3> HIDE DEF pr
    <3> QED BY <3>1, <3>2
  <2>4. /\ probe' \in [Viewers -> [ProjectNames -> Probes]]
        /\ \A u \in Viewers, m \in ProjectNames : <<u, m>> # w => probe'[u][m] = probe[u][m]
        /\ Holding' = Holding \ {w} /\ Waiting' = Waiting \ {w}
    <3>1. probe' = [probe EXCEPT ![v][n] = r]
      BY <2>3
    <3>2. /\ probe' \in [Viewers -> [ProjectNames -> Probes]] /\ probe'[v][n] = r
          /\ \A u \in Viewers, m \in ProjectNames : <<u, m>> # <<v, n>> => probe'[u][m] = probe[u][m]
      BY <1>2, <3>1
    <3>3. Holding' = Holding \ {w} /\ Waiting' = Waiting \ {w}
      BY <3>2, ProbeGoes
    <3> QED BY <3>2, <3>3
  <2>5. Waiting' = Waiting
    BY <1>3, <2>4
  <2>6. slots' = Cardinality(Holding') /\ slots' \in 0..Concurrency
    BY <1>1, <1>6, <1>7, <2>2, <2>4
  <2>7. \A u \in Viewers : Still(u)'
    BY <1>3, <2>4 DEF ToolInv, SlotInv, Still
  <2> QED BY <1>1, <1>8, <2>2, <2>4, <2>5, <2>6, <2>7 DEF SlotInv, Still
<1>9. CASE queue # <<>>
  <2> DEFINE h == Head(queue)
  <2>1. PassOn = <<slots, Tail(queue), {h}>>
    BY <1>9 DEF PassOn
  <2>2. /\ h \in Waiting /\ h \in S /\ Tail(queue) \in Seq(S) /\ Once(Tail(queue))
        /\ Members(Tail(queue)) = Waiting \ {h} /\ Len(Tail(queue)) = Len(queue) - 1
    BY <1>1, <1>9, LeavesQueue
  <2>3. slots' = slots /\ queue' = Tail(queue)
    BY <1>4, <2>1
  <2> HIDE DEF h
  <2>4. PICK hv \in Viewers, hn \in ProjectNames : h = <<hv, hn>>
    BY <2>2
  <2>5. probe[hv][hn].pc = "queued" /\ h # w
    BY <1>3, <2>2, <2>4 DEF Waiting
  <2>6. pr \in [Viewers -> [ProjectNames -> Probes]] /\ pr[v][n] = r
        /\ \A u \in Viewers, m \in ProjectNames : <<u, m>> # w => pr[u][m] = probe[u][m]
    BY <1>2
  <2>7. /\ probe' = [u \in Viewers |-> [m \in ProjectNames |->
             IF <<u, m>> = h THEN [pr[u][m] EXCEPT !.pc = "held"] ELSE pr[u][m]]]
    BY <1>4, <2>1
  <2> HIDE DEF pr
  <2>8. /\ probe' \in [Viewers -> [ProjectNames -> Probes]]
        /\ \A u \in Viewers, m \in ProjectNames : <<u, m>> \notin {w, h} => probe'[u][m] = probe[u][m]
        /\ probe'[v][n] = r /\ probe'[hv][hn].pc = "held"
    <3>1. \A u \in Viewers, m \in ProjectNames : [pr[u][m] EXCEPT !.pc = "held"] \in Probes
                                                 /\ [pr[u][m] EXCEPT !.pc = "held"].pc = "held"
      BY <2>6, HeldTyped
    <3>2. probe' \in [Viewers -> [ProjectNames -> Probes]]
      BY <2>6, <2>7, <3>1
    <3>3. \A u \in Viewers, m \in ProjectNames : <<u, m>> # h => probe'[u][m] = pr[u][m]
      BY <2>7
    <3>4. \A u \in Viewers, m \in ProjectNames : <<u, m>> \notin {w, h} => probe'[u][m] = probe[u][m]
      BY <2>6, <3>3
    <3>5. probe'[v][n] = r
      BY <2>5, <2>6, <3>3
    <3>6. probe'[hv][hn].pc = "held"
      BY <2>4, <2>7, <3>1
    <3> QED BY <3>2, <3>4, <3>5, <3>6
  <2>9. Holding' = (Holding \ {w}) \union {h}
    <3>1. \A x \in S : x \notin {w, h} => (x \in Holding' <=> x \in Holding)
      BY <2>8 DEF Holding
    <3>2. w \notin Holding' /\ h \in Holding'
      BY <2>4, <2>8 DEF Holding
    <3>3. Holding' \subseteq S /\ Holding \subseteq S /\ h \in S /\ w \in S
      BY <2>2 DEF Holding
    <3> QED BY <2>5, <3>1, <3>2, <3>3
  <2>10. Waiting' = Waiting \ {h}
    <3>1. \A x \in S : x \notin {w, h} => (x \in Waiting' <=> x \in Waiting)
      BY <2>8 DEF Waiting
    <3>2. w \notin Waiting' /\ h \notin Waiting'
      BY <2>4, <2>8 DEF Waiting
    <3>3. Waiting' \subseteq S /\ Waiting \subseteq S
      BY DEF Waiting
    <3> QED BY <1>3, <3>1, <3>2, <3>3
  <2>11. slots' = Cardinality(Holding')
    <3>1. h \notin Holding
      BY <2>4, <2>5 DEF Holding
    <3>2. Cardinality((Holding \ {w}) \union {h}) = Cardinality(Holding \ {w}) + 1
      BY <1>6, <3>1, FS_AddElement
    <3>3. slots' = Cardinality(Holding) /\ Cardinality(Holding) \in Nat
      BY <1>1, <1>5, <2>3, FS_CardinalityType
    <3>4. Cardinality(Holding') = (Cardinality(Holding) - 1) + 1
      BY <1>6, <2>9, <3>2
    <3> QED BY <3>3, <3>4
  <2>12. Len(queue') = Cardinality(Waiting')
    <3>1. Len(queue') = Len(queue) - 1 /\ Len(queue) = Cardinality(Waiting) /\ h \in Waiting
      BY <1>1, <2>2, <2>3
    <3>2. Cardinality(Waiting \ {h}) = Cardinality(Waiting) - 1
      BY <1>5, <3>1, FS_RemoveElement
    <3> QED BY <2>10, <3>1, <3>2
  <2>13. \A u \in Viewers : Still(u)'
    <3>1. probe[hv][hn].pc # "idle" /\ view[hv].pc = "probes"
      BY <2>5 DEF ToolInv, SlotInv
    <3> QED BY <1>3, <2>4, <2>8, <3>1 DEF ToolInv, SlotInv, Still
  <2> QED BY <1>1, <1>9, <2>2, <2>3, <2>8, <2>10, <2>11, <2>12, <2>13 DEF SlotInv, Still
<1> QED BY <1>8, <1>9

\* A probe begins: it is answered from the cache, takes a slot, or waits.
LEMMA ProbeBeginsKeeps ==
    ASSUME ToolInv, NEW v \in Viewers, NEW n \in ProjectNames, ProbeBegins(v, n)
    PROVE  /\ SlotInv' /\ slots' \in 0..Concurrency /\ queue' \in Seq(Viewers \X ProjectNames)
           /\ probe' \in [Viewers -> [ProjectNames -> Probes]]
<1> DEFINE w == <<v, n>>
           S == Viewers \X ProjectNames
           to(pc) == [probe[v][n] EXCEPT !.pc = pc]
<1>1. /\ ToolTypeOK /\ slots = Cardinality(Holding) /\ slots \in 0..Concurrency /\ Concurrency \in Nat
      /\ queue \in Seq(S)
      /\ queue # <<>> => slots = Concurrency
      /\ Once(queue) /\ Members(queue) = Waiting /\ Len(queue) = Cardinality(Waiting)
  BY ProbesAssumption DEF ToolInv, SlotInv, ToolTypeOK
<1>2. /\ probe \in [Viewers -> [ProjectNames -> Probes]] /\ probe[v][n].pc = "due" /\ view' = view
      /\ view[v].pc = "probes" /\ w \notin Waiting /\ w \notin Holding
  BY DEF ToolInv, SlotInv, ToolTypeOK, ProbeBegins, Holding, Waiting
<1>3. \A pc \in {"idle", "held", "queued"} : to(pc) \in Probes /\ to(pc).pc = pc
  BY <1>2 DEF Probes
<1>4. IsFiniteSet(Holding) /\ IsFiniteSet(Waiting)
  BY PairsFinite
<1>5. \/ probe' = [probe EXCEPT ![v][n] = to("idle")] /\ UNCHANGED <<slots, queue>>
      \/ /\ slots < Concurrency /\ probe' = [probe EXCEPT ![v][n] = to("held")]
         /\ slots' = slots + 1 /\ queue' = queue
      \/ /\ ~(slots < Concurrency) /\ probe' = [probe EXCEPT ![v][n] = to("queued")]
         /\ queue' = Append(queue, w) /\ slots' = slots
  BY <1>2 DEF ProbeBegins
<1>6. ASSUME NEW pc \in {"idle", "held", "queued"}, probe' = [probe EXCEPT ![v][n] = to(pc)]
      PROVE  /\ probe' \in [Viewers -> [ProjectNames -> Probes]]
             /\ Holding' = IF pc = "held" THEN Holding \union {w} ELSE Holding
             /\ Waiting' = IF pc = "queued" THEN Waiting \union {w} ELSE Waiting
             /\ \A u \in Viewers : Still(u)'
  <2> DEFINE r == to(pc)
  <2>1. r \in Probes /\ r.pc = pc
    BY <1>3
  <2> HIDE DEF r
  <2>2. probe' = [probe EXCEPT ![v][n] = r]
    BY <1>6 DEF r
  <2>3. /\ probe' \in [Viewers -> [ProjectNames -> Probes]]
        /\ \A u \in Viewers, m \in ProjectNames : <<u, m>> # <<v, n>> => probe'[u][m] = probe[u][m]
        /\ Holding' = IF r.pc \in {"held", "running", "stored"} THEN Holding \union {w} ELSE Holding \ {w}
        /\ Waiting' = IF r.pc = "queued" THEN Waiting \union {w} ELSE Waiting \ {w}
    <3>1. /\ probe' \in [Viewers -> [ProjectNames -> Probes]] /\ probe'[v][n] = r
          /\ \A u \in Viewers, m \in ProjectNames : <<u, m>> # <<v, n>> => probe'[u][m] = probe[u][m]
      BY <1>2, <2>1, <2>2
    <3>2. /\ Holding' = IF probe'[v][n].pc \in {"held", "running", "stored"}
                        THEN Holding \union {<<v, n>>} ELSE Holding \ {<<v, n>>}
          /\ Waiting' = IF probe'[v][n].pc = "queued"
                        THEN Waiting \union {<<v, n>>} ELSE Waiting \ {<<v, n>>}
      BY <3>1, ProbeGoes
    <3> QED BY <3>1, <3>2
  <2>4. \A u \in Viewers : Still(u)'
    BY <1>2, <2>3 DEF ToolInv, SlotInv, Still
  <2> QED BY <1>2, <2>1, <2>3, <2>4
<1>7. CASE probe' = [probe EXCEPT ![v][n] = to("idle")] /\ UNCHANGED <<slots, queue>>
  BY <1>1, <1>6, <1>7 DEF SlotInv, Still
<1>8. CASE /\ slots < Concurrency /\ probe' = [probe EXCEPT ![v][n] = to("held")]
           /\ slots' = slots + 1 /\ queue' = queue
  <2>1. queue = <<>>
    BY <1>1, <1>8
  <2>2. /\ probe' \in [Viewers -> [ProjectNames -> Probes]] /\ Holding' = Holding \union {w}
        /\ Waiting' = Waiting /\ \A u \in Viewers : Still(u)'
    BY <1>6, <1>8
  <2>3. slots' = Cardinality(Holding') /\ slots' \in 0..Concurrency
    <3>1. Cardinality(Holding) < Concurrency
      BY <1>1, <1>8
    <3>2. /\ Cardinality(Holding \union {w}) = Cardinality(Holding) + 1
          /\ Cardinality(Holding) + 1 \in 0..Concurrency
      BY <1>2, <1>4, <3>1, OneMore
    <3> QED BY <1>1, <1>8, <2>2, <3>2
  <2> QED BY <1>1, <1>8, <2>1, <2>2, <2>3 DEF SlotInv, Still
<1>9. CASE /\ ~(slots < Concurrency) /\ probe' = [probe EXCEPT ![v][n] = to("queued")]
           /\ queue' = Append(queue, w) /\ slots' = slots
  <2>1. /\ probe' \in [Viewers -> [ProjectNames -> Probes]] /\ Holding' = Holding
        /\ Waiting' = Waiting \union {w} /\ \A u \in Viewers : Still(u)'
    BY <1>6, <1>9
  <2>2. slots' = Concurrency
    BY <1>1, <1>9
  <2>3. /\ queue' \in Seq(S) /\ queue' # <<>> /\ Once(queue')
        /\ Members(queue') = Waiting \union {w} /\ Len(queue') = Len(queue) + 1
    <3>1. /\ queue \in Seq(S) /\ Once(queue) /\ Members(queue) = Waiting
          /\ queue' = Append(queue, w) /\ w \in S /\ w \notin Waiting
      BY <1>1, <1>2, <1>9
    <3> HIDE DEF S, w
    <3> QED BY <3>1, JoinsQueue
  <2>4. Len(queue') = Cardinality(Waiting')
    <3>1. Len(queue) = Cardinality(Waiting) /\ IsFiniteSet(Waiting) /\ w \notin Waiting
      BY <1>1, <1>2, <1>4
    <3>2. Cardinality(Waiting \union {w}) = Cardinality(Waiting) + 1
      BY <3>1, FS_AddElement
    <3>3. Waiting' = Waiting \union {w} /\ Len(queue') = Len(queue) + 1
      BY <2>1, <2>3
    <3> QED BY <3>1, <3>2, <3>3
  <2> QED BY <1>1, <1>9, <2>1, <2>2, <2>3, <2>4 DEF SlotInv, Still
<1> QED BY <1>5, <1>7, <1>8, <1>9

\* A probe that has its slot goes on with it.
LEMMA SlotStays ==
    ASSUME ToolInv, NEW v \in Viewers, NEW n \in ProjectNames, NEW r \in Probes,
           r.pc \in {"running", "stored"}, <<v, n>> \in Holding, probe' = [probe EXCEPT ![v][n] = r],
           UNCHANGED <<view, slots, queue>>
    PROVE  SlotInv' /\ probe' \in [Viewers -> [ProjectNames -> Probes]]
<1>1. probe \in [Viewers -> [ProjectNames -> Probes]] /\ <<v, n>> \notin Waiting
      /\ probe[v][n].pc # "idle"
  BY DEF ToolInv, ToolTypeOK, Holding, Waiting
<1>2. /\ probe' \in [Viewers -> [ProjectNames -> Probes]] /\ probe'[v][n] = r
      /\ \A u \in Viewers, m \in ProjectNames : <<u, m>> # <<v, n>> => probe'[u][m] = probe[u][m]
  BY <1>1
<1>3. Holding' = Holding /\ Waiting' = Waiting
  <2>1. /\ Holding' = IF probe'[v][n].pc \in {"held", "running", "stored"}
                      THEN Holding \union {<<v, n>>} ELSE Holding \ {<<v, n>>}
        /\ Waiting' = IF probe'[v][n].pc = "queued"
                      THEN Waiting \union {<<v, n>>} ELSE Waiting \ {<<v, n>>}
    BY <1>2, ProbeGoes
  <2>2. probe'[v][n].pc \in {"running", "stored"}
    BY <1>2
  <2> QED BY <1>1, <2>1, <2>2
<1>4. \A u \in Viewers : Still(u)'
  BY <1>1, <1>2 DEF ToolInv, SlotInv, Still
<1> QED BY <1>2, <1>3, <1>4 DEF ToolInv, SlotInv, Still

\* The steps of one probe.
LEMMA ProbeKeeps ==
    ASSUME ToolInv, NEW v \in Viewers, NEW n \in ProjectNames,
           ProbeBegins(v, n) \/ ProbeHeld(v, n) \/ ProbeReads(v, n) \/ ProbeStores(v, n)
    PROVE  ToolInv'
<1>1. /\ probe \in [Viewers -> [ProjectNames -> Probes]] /\ slots \in 0..Concurrency
      /\ queue \in Seq(Viewers \X ProjectNames) /\ probe[v][n] \in Probes
  BY DEF ToolInv, ToolTypeOK
<1>2. ASSUME SlotInv', slots' \in 0..Concurrency, queue' \in Seq(Viewers \X ProjectNames),
             probe' \in [Viewers -> [ProjectNames -> Probes]],
             cache' \in [ProjectNames -> Readings \union {Unset}],
             UNCHANGED <<indexed, leanCache, inFlight, view>>
      PROVE  ToolInv'
  BY <1>2 DEF ToolInv, ToolTypeOK
<1>3. CASE ProbeBegins(v, n)
  BY <1>2, <1>3, ProbeBeginsKeeps DEF ProbeBegins, ToolInv, ToolTypeOK
<1>4. CASE ProbeHeld(v, n)
  <2>1. <<v, n>> \in Holding /\ UNCHANGED <<indexed, cache, leanCache, inFlight, view>>
    BY <1>4 DEF ProbeHeld, Holding
  <2>2. CASE SlotReleased([probe EXCEPT ![v][n].pc = "idle"])
    <3> DEFINE r == [probe[v][n] EXCEPT !.pc = "idle"]
    <3>1. r \in Probes /\ r.pc = "idle"
      BY <1>1 DEF Probes
    <3>2. [probe EXCEPT ![v][n].pc = "idle"] = [probe EXCEPT ![v][n] = r]
      BY <1>1
    <3> HIDE DEF r
    <3>3. SlotReleased([probe EXCEPT ![v][n] = r])
      BY <2>2, <3>2
    <3>4. /\ SlotInv' /\ slots' \in 0..Concurrency /\ queue' \in Seq(Viewers \X ProjectNames)
          /\ probe' \in [Viewers -> [ProjectNames -> Probes]]
      BY <2>1, <3>1, <3>3, SlotGoesOn
    <3> QED BY <1>2, <2>1, <3>4 DEF ToolInv, ToolTypeOK
  <2>3. CASE probe' = [probe EXCEPT ![v][n].pc = "running"] /\ UNCHANGED <<slots, queue>>
    <3> DEFINE r == [probe[v][n] EXCEPT !.pc = "running"]
    <3>1. r \in Probes /\ r.pc = "running"
      BY <1>1 DEF Probes
    <3>2. probe' = [probe EXCEPT ![v][n] = r]
      BY <1>1, <2>3
    <3> HIDE DEF r
    <3>3. SlotInv' /\ probe' \in [Viewers -> [ProjectNames -> Probes]]
      BY <2>1, <2>3, <3>1, <3>2, SlotStays
    <3> QED BY <1>1, <1>2, <2>1, <2>3, <3>3 DEF ToolInv, ToolTypeOK
  <2> QED BY <1>4, <2>2, <2>3 DEF ProbeHeld
<1>5. CASE ProbeReads(v, n)
  <2>1. <<v, n>> \in Holding /\ UNCHANGED <<indexed, cache, leanCache, inFlight, view, slots, queue>>
    BY <1>5 DEF ProbeReads, Holding
  <2>2. PICK read \in {Truth(n), "unknown"} : probe' = [probe EXCEPT ![v][n] = [pc |-> "stored", read |-> read]]
    BY <1>5 DEF ProbeReads
  <2> DEFINE r == [pc |-> "stored", read |-> read]
  <2>3. r \in Probes /\ r.pc = "stored"
    BY DEF Probes, Truth, Readings
  <2> HIDE DEF r
  <2>4. SlotInv' /\ probe' \in [Viewers -> [ProjectNames -> Probes]]
    BY <2>1, <2>2, <2>3, SlotStays DEF r
  <2> QED BY <1>1, <1>2, <2>1, <2>4 DEF ToolInv, ToolTypeOK
<1>6. CASE ProbeStores(v, n)
  <2>1. /\ <<v, n>> \in Holding /\ UNCHANGED <<indexed, leanCache, inFlight, view>>
        /\ cache' = [cache EXCEPT ![n] = probe[v][n].read]
        /\ SlotReleased([probe EXCEPT ![v][n] = NoProbe])
    BY <1>6 DEF ProbeStores, Holding
  <2>2. NoProbe \in Probes /\ NoProbe.pc = "idle"
    BY DEF Probes, NoProbe
  <2>3. /\ SlotInv' /\ slots' \in 0..Concurrency /\ queue' \in Seq(Viewers \X ProjectNames)
        /\ probe' \in [Viewers -> [ProjectNames -> Probes]]
    BY <2>1, <2>2, SlotGoesOn
  <2>4. cache' \in [ProjectNames -> Readings \union {Unset}]
    BY <1>1, <2>1 DEF ToolInv, ToolTypeOK, Probes
  <2> QED BY <1>2, <2>1, <2>3, <2>4
<1> QED BY <1>3, <1>4, <1>5, <1>6

\* Viewers whose scan is over begin their probes.
LEMMA ToProbesKeeps ==
    ASSUME ToolInv, NEW viewers \in SUBSET Viewers, ToProbes(viewers),
           \A v \in viewers : view[v].pc # "probes", UNCHANGED <<slots, queue>>
    PROVE  /\ SlotInv' /\ view' \in [Viewers -> Views]
           /\ probe' \in [Viewers -> [ProjectNames -> Probes]]
<1>1. view \in [Viewers -> Views] /\ probe \in [Viewers -> [ProjectNames -> Probes]]
  BY DEF ToolInv, ToolTypeOK
<1>2. \A v \in Viewers : [view[v] EXCEPT !.pc = "probes", !.on = Unset] \in Views
                         /\ [view[v] EXCEPT !.pc = "probes", !.on = Unset].pc = "probes"
  BY <1>1 DEF Views
<1>3. /\ view' \in [Viewers -> Views]
      /\ \A v \in Viewers : IF v \in viewers THEN view'[v].pc = "probes" ELSE view'[v] = view[v]
  BY <1>1, <1>2 DEF ToProbes
<1>4. [NoProbe EXCEPT !.pc = "due"] \in Probes /\ [NoProbe EXCEPT !.pc = "due"].pc = "due"
  BY DEF NoProbe, Probes
<1>5. /\ probe' \in [Viewers -> [ProjectNames -> Probes]]
      /\ \A v \in Viewers, n \in ProjectNames :
           \/ probe'[v][n] = probe[v][n]
           \/ v \in viewers /\ probe'[v][n].pc = "due"
  BY <1>1, <1>4 DEF ToProbes
<1>6. \A v \in viewers, n \in ProjectNames : probe[v][n].pc = "idle"
  BY DEF ToolInv, SlotInv
<1>7. \A v \in Viewers, n \in ProjectNames :
        \/ probe'[v][n].pc = probe[v][n].pc
        \/ probe'[v][n].pc = "due" /\ probe[v][n].pc = "idle"
  BY <1>5, <1>6
<1>8. Holding' = Holding /\ Waiting' = Waiting
  BY <1>7 DEF Holding, Waiting
<1>9. \A v \in Viewers : Still(v)'
  BY <1>3, <1>5 DEF ToolInv, SlotInv, Still
<1> QED BY <1>3, <1>5, <1>8, <1>9 DEF ToolInv, SlotInv, Still

\* One viewer goes on, and none of its probes is under way.
LEMMA ViewKeeps ==
    ASSUME ToolInv, NEW v \in Viewers, NEW r \in Views, view' = [view EXCEPT ![v] = r],
           \A n \in ProjectNames : probe[v][n].pc = "idle", UNCHANGED <<probe, slots, queue>>
    PROVE  SlotInv' /\ view' \in [Viewers -> Views]
<1>1. view \in [Viewers -> Views]
  BY DEF ToolInv, ToolTypeOK
<1>2. view' \in [Viewers -> Views] /\ \A u \in Viewers \ {v} : view'[u] = view[u]
  BY <1>1
<1>3. Holding' = Holding /\ Waiting' = Waiting
  BY DEF Holding, Waiting
<1>4. \A u \in Viewers : Still(u)'
  BY <1>2 DEF ToolInv, SlotInv, Still
<1> QED BY <1>2, <1>3, <1>4 DEF ToolInv, SlotInv, Still

LEMMA ToolWorkKeeps ==
    ASSUME ToolInv, NEW v \in Viewers, ProbeWork(v)
    PROVE  ToolInv'
<1>1. /\ view \in [Viewers -> Views] /\ view[v] \in Views
      /\ inFlight \in [SUBSET ProjectNames -> Viewers \union {Unset}] /\ view[v].list \in SUBSET ProjectNames
  BY DEF ToolInv, ToolTypeOK, Views
<1>2. ASSUME SlotInv', view' \in [Viewers -> Views], probe' \in [Viewers -> [ProjectNames -> Probes]],
             inFlight' \in [SUBSET ProjectNames -> Viewers \union {Unset}],
             leanCache' \in (SUBSET ProjectNames) \union {Unset}, UNCHANGED <<indexed, cache, slots, queue>>
      PROVE  ToolInv'
  BY <1>2 DEF ToolInv, ToolTypeOK
<1>3. ToolTypeOK
  BY DEF ToolInv
<1>4. CASE LeanBegins(v)
  <2>1. view[v].pc = "lean" /\ UNCHANGED <<indexed, cache, leanCache, slots, queue>>
    BY <1>4 DEF LeanBegins
  <2>2. \A n \in ProjectNames : probe[v][n].pc = "idle"
    BY <2>1 DEF ToolInv, SlotInv
  <2>3. CASE ToProbes({v}) /\ inFlight' = inFlight
    <3>1. SlotInv' /\ view' \in [Viewers -> Views] /\ probe' \in [Viewers -> [ProjectNames -> Probes]]
      BY <2>1, <2>3, ToProbesKeeps
    <3> QED BY <1>2, <1>3, <2>1, <2>3, <3>1 DEF ToolTypeOK
  <2>4. CASE /\ inFlight[view[v].list] # Unset /\ UNCHANGED <<inFlight, probe>>
             /\ view' = [view EXCEPT ![v].pc = "join", ![v].on = inFlight[view[v].list]]
    <3> DEFINE r == [view[v] EXCEPT !.pc = "join", !.on = inFlight[view[v].list]]
    <3>1. r \in Views
      BY <1>1 DEF Views
    <3>2. view' = [view EXCEPT ![v] = r]
      BY <1>1, <2>4
    <3> HIDE DEF r
    <3>3. SlotInv' /\ view' \in [Viewers -> Views]
      BY <2>1, <2>2, <2>4, <3>1, <3>2, ViewKeeps
    <3> QED BY <1>2, <1>3, <2>1, <2>4, <3>3 DEF ToolTypeOK
  <2>5. CASE /\ inFlight' = [inFlight EXCEPT ![view[v].list] = v]
             /\ view' = [view EXCEPT ![v].pc = "scan"] /\ probe' = probe
    <3> DEFINE r == [view[v] EXCEPT !.pc = "scan"]
    <3>1. r \in Views
      BY <1>1 DEF Views
    <3>2. view' = [view EXCEPT ![v] = r]
      BY <1>1, <2>5
    <3> HIDE DEF r
    <3>3. SlotInv' /\ view' \in [Viewers -> Views]
      BY <2>1, <2>2, <2>5, <3>1, <3>2, ViewKeeps
    <3>4. inFlight' \in [SUBSET ProjectNames -> Viewers \union {Unset}]
      BY <1>1, <2>5
    <3> QED BY <1>2, <1>3, <2>1, <2>5, <3>3, <3>4 DEF ToolTypeOK
  <2> QED BY <1>4, <2>3, <2>4, <2>5 DEF LeanBegins
<1>5. CASE LeanEnds(v)
  <2>1. /\ view[v].pc = "scan" /\ leanCache' = view[v].list /\ ToProbes(Joined(v))
        /\ inFlight' = [inFlight EXCEPT ![view[v].list] = Unset]
        /\ UNCHANGED <<indexed, cache, slots, queue>>
    BY <1>5 DEF LeanEnds
  <2>2. Joined(v) \in SUBSET Viewers /\ \A w \in Joined(v) : view[w].pc # "probes"
    BY <2>1 DEF Joined
  <2>3. SlotInv' /\ view' \in [Viewers -> Views] /\ probe' \in [Viewers -> [ProjectNames -> Probes]]
    BY <2>1, <2>2, ToProbesKeeps
  <2>4. inFlight' \in [SUBSET ProjectNames -> Viewers \union {Unset}]
    BY <1>1, <2>1
  <2> QED BY <1>1, <1>2, <2>1, <2>3, <2>4
<1>6. CASE OverviewEnds(v)
  <2>1. NoView \in Views
    BY DEF NoView, Views
  <2>2. SlotInv' /\ view' \in [Viewers -> Views]
    BY <1>6, <2>1, ViewKeeps DEF OverviewEnds
  <2> QED BY <1>2, <1>3, <1>6, <2>2 DEF OverviewEnds, ToolTypeOK
<1>7. CASE \E n \in ProjectNames :
             ProbeBegins(v, n) \/ ProbeHeld(v, n) \/ ProbeReads(v, n) \/ ProbeStores(v, n)
  BY <1>7, ProbeKeeps
<1> QED BY <1>4, <1>5, <1>6, <1>7 DEF ProbeWork

\* What the rest of the workspace does to the tool status: nothing, or an invalidation.
Apart ==
    /\ indexed' \subseteq ProjectNames
    /\ \/ UNCHANGED <<cache, leanCache, inFlight, view, probe, slots, queue>>
       \/ \E names : Invalidate(names)

LEMMA ApartKeeps == ASSUME ToolInv, Apart PROVE ToolInv'
<1>1. UNCHANGED <<view, probe, slots, queue>>
  BY DEF Apart, Invalidate
<1>2. /\ cache' \in [ProjectNames -> Readings \union {Unset}]
      /\ leanCache' \in (SUBSET ProjectNames) \union {Unset}
      /\ inFlight' \in [SUBSET ProjectNames -> Viewers \union {Unset}]
  <2>1. CASE UNCHANGED <<cache, leanCache, inFlight, view, probe, slots, queue>>
    BY <2>1 DEF ToolInv, ToolTypeOK
  <2>2. CASE \E names : Invalidate(names)
    BY <2>2 DEF ToolInv, ToolTypeOK, Invalidate
  <2> QED BY <2>1, <2>2 DEF Apart
<1>3. ToolTypeOK'
  BY <1>1, <1>2 DEF ToolInv, ToolTypeOK, Apart
<1>4. Holding' = Holding /\ Waiting' = Waiting
  BY <1>1 DEF Holding, Waiting
<1> QED BY <1>1, <1>3, <1>4 DEF ToolInv, SlotInv

LEMMA OpApart ==
    ASSUME WorkspaceTyped, ToolInv, NEW o \in Ops, OpWork(o)
    PROVE  Apart
<1> DEFINE calm == UNCHANGED <<cache, leanCache, inFlight, view, probe, slots, queue>>
                   \/ \E names : Invalidate(names)
<1>1. indexed \subseteq ProjectNames /\ Target(o) \in ProjectNames
  BY WorkTyped, FirstTyped DEF ToolInv, ToolTypeOK, WorkspaceTyped
<1>2. ASSUME NEW r, NEW result, Ends(o, r, result) PROVE calm
  BY <1>2 DEF Ends
<1>3. ASSUME NEW r, NEW todo, Go(o, r, todo) PROVE calm
  BY <1>2, <1>3 DEF Go
<1>4. Done(o) => calm
  BY <1>3 DEF Done
<1>5. TimesOut(o) => calm
  BY <1>3 DEF TimesOut
<1>6. \A result : End(o, result) => calm
  BY <1>2 DEF End
<1>7. Failed(o) => calm
  <2>1. Failed(o) => \/ Undo(o) \/ Done(o) \/ End(o, "partial") \/ End(o, "failed")
                     \/ Go(o, [op[o] EXCEPT !.ok = FALSE], Tail(op[o].todo))
    BY Zenon DEF Failed
  <2> QED BY <1>3, <1>4, <1>6, <2>1 DEF Undo
<1> HIDE DEF calm
<1>8. calm /\ indexed' \subseteq ProjectNames => Apart
  BY DEF calm, Apart
<1>9. CASE Test(o)
  BY <1>1, <1>4, <1>6, <1>8, <1>9 DEF Test
<1>10. CASE MakeDirectory(o)
  BY <1>1, <1>4, <1>5, <1>7, <1>8, <1>10 DEF MakeDirectory
<1>11. CASE Edit(o)
  <2>1. UNCHANGED <<boot, page, cache, leanCache, inFlight, view, probe, slots, queue, mishaps>> => calm
    BY DEF calm
  <2> QED BY <1>1, <1>7, <1>8, <1>11, <2>1 DEF Edit
<1>12. CASE Install(o)
  BY <1>1, <1>4, <1>7, <1>8, <1>12 DEF Install
<1>13. CASE Recall(o)
  BY <1>1, <1>3, <1>4, <1>8, <1>13 DEF Recall
<1>14. CASE RemoveDirectory(o)
  BY <1>1, <1>4, <1>5, <1>7, <1>8, <1>14 DEF RemoveDirectory
<1>15. CASE Feature(o)
  BY <1>1, <1>4, <1>5, <1>7, <1>8, <1>15 DEF Feature
<1>16. CASE Remote(o)
  BY <1>1, <1>3, <1>4, <1>5, <1>7, <1>8, <1>16 DEF Remote
<1>17. CASE Reindex(o)
  BY <1>1, <1>4, <1>5, <1>7, <1>8, <1>17 DEF Reindex
<1>18. CASE See(o)
  BY <1>1, <1>8, <1>18 DEF See, toolVars, calm
<1>19. CASE Lost(o)
  BY <1>1, <1>7, <1>8, <1>19 DEF Lost
<1> QED BY <1>9, <1>10, <1>11, <1>12, <1>13, <1>14, <1>15, <1>16, <1>17, <1>18, <1>19 DEF OpWork

LEMMA ToolNext == WorkspaceTyped /\ ToolInv /\ [ProjectNext]_workspaceVars => ToolInv'
<1> SUFFICES ASSUME WorkspaceTyped, ToolInv, [ProjectNext]_workspaceVars PROVE ToolInv'
  OBVIOUS
<1>1. indexed \subseteq ProjectNames
  BY DEF ToolInv, ToolTypeOK
<1>2. UNCHANGED toolVars => ToolInv'
  <2>1. UNCHANGED toolVars => Apart
    BY <1>1 DEF Apart, toolVars
  <2> QED BY <2>1, ApartKeeps
<1>3. ASSUME NEW o \in Ops, Requests(o) \/ BootPass(o) PROVE ToolInv'
  <2>1. UNCHANGED toolVars
    BY <1>3 DEF Requests, Begin, Notify, Reconcile, Compare, FixAll, CenterAsks, BootPass
  <2> QED BY <1>2, <2>1
<1>4. ASSUME NEW o \in Ops, OpWork(o) PROVE ToolInv'
  BY <1>4, OpApart, ApartKeeps
<1>5. CASE AiDevStarts \/ MountAppears \/ OpenChamberPersists \/ UNCHANGED workspaceVars
  <2>1. UNCHANGED toolVars
    BY <1>5 DEF AiDevStarts, MountAppears, OpenChamberPersists, workspaceVars
  <2> QED BY <1>2, <2>1
<1>6. CASE Refresh
  <2>1. Apart
    BY <1>1, <1>6 DEF Refresh, Apart
  <2> QED BY <2>1, ApartKeeps
<1>7. CASE Expires
  <2>1. UNCHANGED <<indexed, inFlight, view, probe, slots, queue>>
    BY <1>7 DEF Expires, CacheExpires
  <2>2. /\ cache' \in [ProjectNames -> Readings \union {Unset}]
        /\ leanCache' \in (SUBSET ProjectNames) \union {Unset}
    BY <1>7 DEF Expires, CacheExpires, ToolInv, ToolTypeOK
  <2>3. ToolTypeOK'
    BY <2>1, <2>2 DEF ToolInv, ToolTypeOK
  <2>4. Holding' = Holding /\ Waiting' = Waiting
    BY <2>1 DEF Holding, Waiting
  <2> QED BY <2>1, <2>3, <2>4 DEF ToolInv, SlotInv
<1>8. ASSUME NEW v \in Viewers, AskOverview(v) PROVE ToolInv'
  <2> DEFINE list == IF visible THEN dirs ELSE {}
             r == [NoView EXCEPT !.pc = "lean", !.list = list]
  <2>1. list \in SUBSET ProjectNames
    BY DEF WorkspaceTyped, FilesTyped
  <2>2. view[v].pc = "idle" /\ view' = [view EXCEPT ![v] = r]
        /\ UNCHANGED <<indexed, cache, leanCache, inFlight, probe, slots, queue>>
    BY <1>8 DEF AskOverview, Overview
  <2> HIDE DEF list
  <2>3. r \in Views
    BY <2>1 DEF Views, NoView
  <2> HIDE DEF r
  <2>4. \A n \in ProjectNames : probe[v][n].pc = "idle"
    BY <2>2 DEF ToolInv, SlotInv
  <2>5. SlotInv' /\ view' \in [Viewers -> Views]
    BY <2>2, <2>3, <2>4, ViewKeeps
  <2> QED BY <2>2, <2>5 DEF ToolInv, ToolTypeOK
<1>9. ASSUME NEW v \in Viewers, ToolSteps(v) PROVE ToolInv'
  BY <1>9, ToolWorkKeeps DEF ToolSteps
<1> QED BY <1>3, <1>4, <1>5, <1>6, <1>7, <1>8, <1>9 DEF ProjectNext, Requests

LEMMA SlotsSound == ToolInv => SemaphoreSound
<1> SUFFICES ASSUME ToolInv PROVE SemaphoreSound
  OBVIOUS
<1>1. /\ slots = Cardinality(Holding) /\ slots \in 0..Concurrency /\ queue \in Seq(Viewers \X ProjectNames)
      /\ Members(queue) = Waiting /\ Len(queue) = Cardinality(Waiting)
      /\ queue # <<>> => slots = Concurrency
  BY DEF ToolInv, SlotInv, ToolTypeOK
<1>2. Waiting # {} => queue # <<>>
  BY <1>1 DEF Members
<1>3. Cardinality(Holding) <= Concurrency
  BY <1>1, ProbesAssumption
<1> QED BY <1>1, <1>2, <1>3 DEF SemaphoreSound, Members

\* A scan that may be joined is under way, and of the projects it is entered for.
ScanInv ==
    /\ ScanShared
    /\ \A S \in SUBSET ProjectNames : inFlight[S] # Unset =>
         view[inFlight[S]].pc = "scan" /\ view[inFlight[S]].list = S

LEMMA ScanSame ==
    ASSUME ScanInv, view' = view,
           inFlight' = inFlight \/ \A S \in SUBSET ProjectNames : inFlight'[S] = Unset
    PROVE  ScanInv'
BY DEF ScanInv, ScanShared

\* A viewer that was not scanning goes on, to scan for nobody yet or not at all.
LEMMA ScanOther ==
    ASSUME ScanInv, ToolTypeOK, NEW v \in Viewers, NEW r \in Views, view[v].pc # "scan",
           view' = [view EXCEPT ![v] = r], inFlight' = inFlight,
           r.pc = "join" => r.on \in Viewers /\ view[r.on].pc = "scan" /\ view[r.on].list = r.list
    PROVE  ScanInv'
<1>1. /\ view \in [Viewers -> Views] /\ view'[v] = r
      /\ \A u \in Viewers : u # v => view'[u] = view[u]
      /\ \A S \in SUBSET ProjectNames : inFlight[S] \in Viewers \union {Unset}
  BY DEF ToolTypeOK
<1>2. ScanShared'
  <2> SUFFICES ASSUME NEW u \in Viewers, view'[u].pc = "join"
               PROVE  /\ view'[u].on \in Viewers /\ view'[view'[u].on].pc = "scan"
                      /\ view'[view'[u].on].list = view'[u].list
    BY DEF ScanShared
  <2>1. CASE u = v
    BY <1>1, <2>1
  <2>2. CASE u # v
    BY <1>1, <2>2 DEF ScanInv, ScanShared
  <2> QED BY <2>1, <2>2
<1>3. ASSUME NEW S \in SUBSET ProjectNames, inFlight'[S] # Unset
      PROVE  view'[inFlight'[S]].pc = "scan" /\ view'[inFlight'[S]].list = S
  BY <1>1, <1>3 DEF ScanInv
<1> QED BY <1>2, <1>3 DEF ScanInv

LEMMA ScanWork ==
    ASSUME ToolTypeOK, ScanInv, NEW v \in Viewers, ProbeWork(v)
    PROVE  ScanInv'
<1>1. /\ view \in [Viewers -> Views] /\ view[v] \in Views
      /\ inFlight \in [SUBSET ProjectNames -> Viewers \union {Unset}] /\ view[v].list \in SUBSET ProjectNames
  BY DEF ToolTypeOK, Views
<1>2. ASSUME NEW viewers \in SUBSET Viewers, ToProbes(viewers)
      PROVE  /\ \A u \in viewers : view'[u].pc = "probes"
             /\ \A u \in Viewers \ viewers : view'[u] = view[u]
  <2>1. \A u \in Viewers : [view[u] EXCEPT !.pc = "probes", !.on = Unset].pc = "probes"
    BY <1>1 DEF Views
  <2> QED BY <1>2, <2>1 DEF ToProbes
<1>3. CASE LeanBegins(v)
  <2>1. view[v].pc = "lean"
    BY <1>3 DEF LeanBegins
  <2>2. CASE ToProbes({v}) /\ inFlight' = inFlight
    <3>1. view'[v].pc = "probes" /\ \A u \in Viewers : u # v => view'[u] = view[u]
      BY <1>2, <2>2
    <3>2. ScanShared'
      BY <2>1, <3>1 DEF ScanInv, ScanShared
    <3>3. \A S \in SUBSET ProjectNames : inFlight'[S] # Unset =>
             view'[inFlight'[S]].pc = "scan" /\ view'[inFlight'[S]].list = S
      BY <1>1, <2>1, <2>2, <3>1 DEF ScanInv
    <3> QED BY <3>2, <3>3 DEF ScanInv
  <2>3. CASE /\ inFlight[view[v].list] # Unset /\ inFlight' = inFlight
             /\ view' = [view EXCEPT ![v].pc = "join", ![v].on = inFlight[view[v].list]]
    <3> DEFINE u == inFlight[view[v].list]
               r == [view[v] EXCEPT !.pc = "join", !.on = u]
    <3>1. u \in Viewers /\ view[u].pc = "scan" /\ view[u].list = view[v].list
      BY <1>1, <2>3 DEF ScanInv
    <3>2. view' = [view EXCEPT ![v] = r]
      BY <1>1, <2>3
    <3> HIDE DEF u
    <3>3. r \in Views /\ r.on = u /\ r.list = view[v].list
      BY <1>1, <3>1 DEF Views
    <3> HIDE DEF r
    <3>4. view[v].pc # "scan"
      BY <2>1
    <3>5. inFlight' = inFlight
      BY <2>3
    <3> QED BY <3>1, <3>2, <3>3, <3>4, <3>5, ScanOther
  <2>4. CASE /\ inFlight' = [inFlight EXCEPT ![view[v].list] = v]
             /\ view' = [view EXCEPT ![v].pc = "scan"]
    <3> DEFINE r == [view[v] EXCEPT !.pc = "scan"]
    <3>1. r.pc = "scan" /\ r.list = view[v].list
      BY <1>1 DEF Views
    <3>2. view'[v] = r /\ \A u \in Viewers : u # v => view'[u] = view[u]
      BY <1>1, <2>4
    <3> HIDE DEF r
    <3>3. ScanShared'
      <4> SUFFICES ASSUME NEW u \in Viewers, view'[u].pc = "join"
                   PROVE  /\ view'[u].on \in Viewers /\ view'[view'[u].on].pc = "scan"
                          /\ view'[view'[u].on].list = view'[u].list
        BY DEF ScanShared
      <4>1. u # v /\ view'[u] = view[u]
        BY <3>1, <3>2
      <4>2. view[u].on \in Viewers /\ view[view[u].on].pc = "scan" /\ view[view[u].on].list = view[u].list
        BY <4>1 DEF ScanInv, ScanShared
      <4>3. view[u].on # v
        BY <2>1, <4>2
      <4> QED BY <3>2, <4>1, <4>2, <4>3
    <3>4. ASSUME NEW S \in SUBSET ProjectNames, inFlight'[S] # Unset
          PROVE  view'[inFlight'[S]].pc = "scan" /\ view'[inFlight'[S]].list = S
      <4>1. CASE S = view[v].list
        BY <1>1, <2>4, <3>1, <3>2, <4>1
      <4>2. CASE S # view[v].list
        <5>1. inFlight'[S] = inFlight[S]
          BY <1>1, <2>4, <4>2
        <5>2. inFlight[S] \in Viewers /\ view[inFlight[S]].pc = "scan" /\ view[inFlight[S]].list = S
          BY <1>1, <3>4, <5>1 DEF ScanInv
        <5>3. inFlight[S] # v
          BY <2>1, <5>2
        <5> QED BY <3>2, <5>1, <5>2, <5>3
      <4> QED BY <4>1, <4>2
    <3> QED BY <3>3, <3>4 DEF ScanInv
  <2> QED BY <1>3, <2>2, <2>3, <2>4 DEF LeanBegins
<1>4. CASE LeanEnds(v)
  <2>1. /\ view[v].pc = "scan" /\ inFlight' = [inFlight EXCEPT ![view[v].list] = Unset]
        /\ ToProbes(Joined(v)) /\ Joined(v) \in SUBSET Viewers
    BY <1>4 DEF LeanEnds, Joined
  <2>2. /\ \A u \in Joined(v) : view'[u].pc = "probes"
        /\ \A u \in Viewers \ Joined(v) : view'[u] = view[u]
    BY <1>2, <2>1
  <2>3. ScanShared'
    <3> SUFFICES ASSUME NEW u \in Viewers, view'[u].pc = "join"
                 PROVE  /\ view'[u].on \in Viewers /\ view'[view'[u].on].pc = "scan"
                        /\ view'[view'[u].on].list = view'[u].list
      BY DEF ScanShared
    <3>1. u \notin Joined(v) /\ view'[u] = view[u]
      BY <2>2
    <3>2. view[u].on \in Viewers /\ view[view[u].on].pc = "scan" /\ view[view[u].on].list = view[u].list
      BY <3>1 DEF ScanInv, ScanShared
    <3>3. view[u].on \notin Joined(v)
      BY <3>1, <3>2 DEF Joined
    <3> QED BY <2>2, <3>1, <3>2, <3>3
  <2>4. ASSUME NEW S \in SUBSET ProjectNames, inFlight'[S] # Unset
        PROVE  view'[inFlight'[S]].pc = "scan" /\ view'[inFlight'[S]].list = S
    <3>1. S # view[v].list /\ inFlight'[S] = inFlight[S]
      BY <1>1, <2>1, <2>4
    <3>2. inFlight[S] \in Viewers /\ view[inFlight[S]].pc = "scan" /\ view[inFlight[S]].list = S
      BY <1>1, <2>4, <3>1 DEF ScanInv
    <3>3. inFlight[S] \notin Joined(v)
      BY <3>1, <3>2 DEF Joined
    <3> QED BY <2>2, <3>1, <3>2, <3>3
  <2> QED BY <2>3, <2>4 DEF ScanInv
<1>5. CASE OverviewEnds(v)
  <2>1. NoView \in Views /\ NoView.pc # "join"
    BY DEF NoView, Views
  <2>2. view[v].pc # "scan" /\ view' = [view EXCEPT ![v] = NoView] /\ inFlight' = inFlight
    BY <1>5 DEF OverviewEnds
  <2> QED BY <2>1, <2>2, ScanOther
<1>6. CASE \E n \in ProjectNames :
             ProbeBegins(v, n) \/ ProbeHeld(v, n) \/ ProbeReads(v, n) \/ ProbeStores(v, n)
  <2>1. view' = view /\ inFlight' = inFlight
    BY <1>6 DEF ProbeBegins, ProbeHeld, ProbeReads, ProbeStores
  <2> QED BY <2>1, ScanSame
<1> QED BY <1>3, <1>4, <1>5, <1>6 DEF ProbeWork

LEMMA ScanNext ==
    WorkspaceTyped /\ ToolInv /\ ScanInv /\ [ProjectNext]_workspaceVars => ScanInv'
<1> SUFFICES ASSUME WorkspaceTyped, ToolInv, ScanInv, [ProjectNext]_workspaceVars PROVE ScanInv'
  OBVIOUS
<1>1. UNCHANGED <<view, inFlight>> => ScanInv'
  BY ScanSame
<1>2. Apart => ScanInv'
  <2>1. Apart => view' = view /\ (inFlight' = inFlight \/ \A S \in SUBSET ProjectNames : inFlight'[S] = Unset)
    BY DEF Apart, Invalidate
  <2> QED BY <2>1, ScanSame
<1>3. ASSUME NEW o \in Ops, Requests(o) \/ BootPass(o) PROVE ScanInv'
  <2>1. UNCHANGED toolVars
    BY <1>3 DEF Requests, Begin, Notify, Reconcile, Compare, FixAll, CenterAsks, BootPass
  <2> QED BY <1>1, <2>1 DEF toolVars
<1>4. ASSUME NEW o \in Ops, OpWork(o) PROVE ScanInv'
  BY <1>2, <1>4, OpApart
<1>5. CASE AiDevStarts \/ MountAppears \/ OpenChamberPersists \/ UNCHANGED workspaceVars
  <2>1. UNCHANGED toolVars
    BY <1>5 DEF AiDevStarts, MountAppears, OpenChamberPersists, workspaceVars
  <2> QED BY <1>1, <2>1 DEF toolVars
<1>6. CASE Refresh
  <2>1. Apart
    BY <1>6 DEF Refresh, Apart, ToolInv, ToolTypeOK
  <2> QED BY <1>2, <2>1
<1>7. CASE Expires
  BY <1>1, <1>7 DEF Expires, CacheExpires
<1>8. ASSUME NEW v \in Viewers, AskOverview(v) PROVE ScanInv'
  <2> DEFINE list == IF visible THEN dirs ELSE {}
             r == [NoView EXCEPT !.pc = "lean", !.list = list]
  <2>1. list \in SUBSET ProjectNames
    BY DEF WorkspaceTyped, FilesTyped
  <2>2. view[v].pc = "idle" /\ view' = [view EXCEPT ![v] = r] /\ inFlight' = inFlight
    BY <1>8 DEF AskOverview, Overview
  <2> HIDE DEF list
  <2>3. r \in Views /\ r.pc # "join"
    BY <2>1 DEF Views, NoView
  <2> HIDE DEF r
  <2> QED BY <2>2, <2>3, ScanOther DEF ToolInv
<1>9. ASSUME NEW v \in Viewers, ToolSteps(v) PROVE ScanInv'
  BY <1>9, ScanWork DEF ToolSteps, ToolInv
<1> QED BY <1>3, <1>4, <1>5, <1>6, <1>7, <1>8, <1>9 DEF ProjectNext, Requests

LEMMA ScanInitial == ToolInit => ScanInv
<1> SUFFICES ASSUME ToolInit PROVE ScanInv
  OBVIOUS
<1>1. ScanShared
  BY DEF ToolInit, ScanShared, NoView
<1>2. \A S \in SUBSET ProjectNames : inFlight[S] = Unset
  BY DEF ToolInit
<1> QED BY <1>1, <1>2 DEF ScanInv

\* The types of the workspace, its operations, the boot loop and the tool status.
THEOREM WorkspaceTypeCorrect == ProjectSpec => [](ToolTypeOK /\ ProjectTypeOK)
<1>1. ProjectInit => WorkspaceTyped /\ ToolInv
  BY WorkspaceInit, ToolInitial DEF ProjectInit
<1>2. WorkspaceTyped /\ ToolInv /\ [ProjectNext]_workspaceVars => (WorkspaceTyped /\ ToolInv)'
  BY WorkspaceNext, ToolNext
<1>3. WorkspaceTyped /\ ToolInv => ToolTypeOK /\ ProjectTypeOK
  BY IsTyped DEF WorkspaceTyped, ToolInv
<1> QED BY <1>1, <1>2, <1>3, PTL DEF ProjectSpec

\* The semaphore of the probes is sound, whatever the operations invalidate meanwhile.
THEOREM SlotsHandedOn == ProjectSpec => []SemaphoreSound
<1>1. ProjectInit => WorkspaceTyped /\ ToolInv
  BY WorkspaceInit, ToolInitial DEF ProjectInit
<1>2. WorkspaceTyped /\ ToolInv /\ [ProjectNext]_workspaceVars => (WorkspaceTyped /\ ToolInv)'
  BY WorkspaceNext, ToolNext
<1>3. ToolInv => SemaphoreSound
  BY SlotsSound
<1> QED BY <1>1, <1>2, <1>3, PTL DEF ProjectSpec

\* Who waits for a shared scan waits for one that is under way.
THEOREM ScansAreRunning == ProjectSpec => []ScanShared
<1>1. ProjectInit => WorkspaceTyped /\ ToolInv /\ ScanInv
  BY WorkspaceInit, ToolInitial, ScanInitial DEF ProjectInit
<1>2. WorkspaceTyped /\ ToolInv /\ ScanInv /\ [ProjectNext]_workspaceVars => (WorkspaceTyped /\ ToolInv /\ ScanInv)'
  BY WorkspaceNext, ToolNext, ScanNext
<1>3. ScanInv => ScanShared
  BY DEF ScanInv
<1> QED BY <1>1, <1>2, <1>3, PTL DEF ProjectSpec
=============================================================================
