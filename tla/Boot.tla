-------------------------------- MODULE Boot --------------------------------
(* The start of an ai-dev container: entrypoint.sh runs the scripts of        *)
(* entrypoint.d in order.  The three preflights block the container when they *)
(* refuse; any other script that fails ends it, and Docker starts it again    *)
(* (restart: unless-stopped).  What runs between two starts (OpenChamber,     *)
(* users, the admin page, an upgrade) changes what the next start finds.      *)
EXTENDS ManagedCore, DbGate, InitConfig

CONSTANTS
  MaxFaults,   \* bound: crashes, failing scripts and failing extractions
  MaxChanges,  \* bound: changes made between starts
  Downgrade    \* may the image go back to an older one?

ASSUME BoundsAssumption == MaxFaults \in Nat /\ MaxChanges \in Nat /\ Downgrade \in BOOLEAN

VARIABLES
  stage,       \* where the entrypoint is
  selection,   \* opencodeBinary in OpenChamber's settings
  faults, changes

bootVars == <<stage, selection, faults, changes>>
vars == <<coreVars, gateVars, configVars, bootVars>>

Stages == {"down", "core", "gate", "select", "packages", "config", "optional",
           "running", "blocked"}

\* No settings, an unsafe file, no selection, the managed launcher, a known path
\* that is gone, a custom v1 CLI, a custom path that is gone or not v1.
Selections == {"none", "unsafe", "unset", "managed", "stale", "custom", "refusable"}

TypeOK ==
  /\ CoreTypeOK /\ GateTypeOK /\ ConfigTypeOK
  /\ stage \in Stages /\ selection \in Selections
  /\ faults \in 0..MaxFaults /\ changes \in 0..MaxChanges

Init ==
  /\ CoreInit /\ GateInit /\ ConfigInit
  /\ stage = "down" /\ selection = "stale"
  /\ faults = 0 /\ changes = 0

Fault == faults < MaxFaults /\ faults' = faults + 1
Change == changes < MaxChanges /\ changes' = changes + 1

Start ==
  /\ stage = "down" /\ stage' = "core"
  /\ UNCHANGED <<coreVars, gateVars, configVars, selection, faults, changes>>

\* 00-core-recovery.sh; tar failing is a fault, a refusal for any other reason is
\* what the core's state asks for.
RecoverCore ==
  /\ stage = "core" /\ Recovery
  /\ IF rpc = "extract" /\ rpc' = "refused" THEN Fault ELSE UNCHANGED faults
  /\ UNCHANGED <<gateVars, configVars, stage, selection, changes>>

CoreReturns ==
  /\ stage = "core" /\ rpc \in {"done", "refused"}
  /\ rpc' = "idle" /\ stage' = IF rpc = "done" THEN "gate" ELSE "blocked"
  /\ UNCHANGED <<active, gen, stray, staging, litter, base>>
  /\ UNCHANGED <<gateVars, configVars, selection, faults, changes>>

\* 00-db-compat-gate.sh.
RunGate ==
  /\ stage = "gate" /\ Gate
  /\ UNCHANGED <<coreVars, configVars, bootVars>>

GateReturns ==
  /\ stage = "gate" /\ gpc = "over"
  /\ GateLeaves /\ stage' = IF verdict \in Allowed THEN "select" ELSE "blocked"
  /\ UNCHANGED <<coreVars, configVars, selection, faults, changes>>

\* 00-opencode-selection-repair.sh: a known path of the image that is gone becomes
\* the managed launcher, a custom selection is never rewritten.
Repaired(s) == IF s = "stale" THEN "managed" ELSE s

EnsureSelection ==
  /\ stage = "select"
  /\ selection' = Repaired(selection)
  /\ stage' = IF selection \in {"unsafe", "refusable"} THEN "blocked" ELSE "packages"
  /\ UNCHANGED <<coreVars, gateVars, configVars, faults, changes>>

\* 01-install-packages.sh fails when apt, brew or bun do, and before bun runs when
\* BUN_PACKAGES names a package of the core.
InstallPackages ==
  /\ stage = "packages"
  /\ \/ stage' = "config" /\ UNCHANGED faults
     \/ stage' = "down" /\ Fault
  /\ UNCHANGED <<coreVars, gateVars, configVars, selection, changes>>

RefuseReserved ==
  /\ stage = "packages" /\ stage' = "down" /\ Fault
  /\ UNCHANGED <<coreVars, gateVars, configVars, selection, changes>>

\* ensure_openchamber_default_settings writes a file where there is none.
Seeded(s) == IF s = "none" THEN "unset" ELSE s

\* 02-init-config.sh.
RunConfig ==
  /\ stage = "config" /\ Configure
  /\ IF cpc' = "failed" THEN Fault ELSE UNCHANGED faults
  /\ UNCHANGED <<coreVars, gateVars, stage, selection, changes>>

ConfigReturns ==
  /\ stage = "config" /\ cpc \in {"done", "failed"}
  /\ ConfigLeaves /\ stage' = IF cpc = "done" THEN "optional" ELSE "down"
  /\ selection' = IF cpc = "done" THEN Seeded(selection) ELSE selection
  /\ UNCHANGED <<coreVars, gateVars, faults, changes>>

\* 03 to 07: a failing optional script is reported, one that is not ends the start.
RunRest ==
  /\ stage = "optional"
  /\ \/ stage' = "running" /\ UNCHANGED faults
     \/ stage' = "down" /\ Fault
  /\ UNCHANGED <<coreVars, gateVars, configVars, selection, changes>>

\* docker stop, kill or a restart of the host, at any point of a start.
Crash ==
  /\ stage \notin {"down", "running", "blocked"} /\ Fault
  /\ CoreDies /\ GateLeaves /\ ConfigLeaves /\ stage' = "down"
  /\ UNCHANGED <<selection, changes>>

\* An operator, or the admin page, restarts a container that runs or is blocked.
Restart ==
  /\ stage \in {"running", "blocked"} /\ stage' = "down"
  /\ UNCHANGED <<coreVars, gateVars, configVars, selection, faults, changes>>

\* Another image is deployed: the core is the new image's, the volumes stay.
Deploy ==
  /\ stage \in {"running", "blocked"} /\ Change
  /\ image' \in {i \in Images : Downgrade \/ i > image} \ {image}
  /\ CoreDeployed /\ stage' = "down"
  /\ block' = IF block = "current" THEN "old" ELSE block
  /\ UNCHANGED <<native, agent, manifest, recorded, skill, mark, failed, cpc>>
  /\ UNCHANGED <<gateVars, selection, faults>>

\* While it runs, root changes the core, OpenChamber stores a selection, the admin
\* page switches the line, users write agents, and a project enables the skill.
CoreChanges ==
  /\ stage = "running" /\ Change /\ CoreDrifts
  /\ UNCHANGED <<gateVars, configVars, stage, selection, faults>>

SelectionChanges ==
  /\ stage = "running" /\ Change /\ selection' \in Selections
  /\ UNCHANGED <<coreVars, gateVars, configVars, stage, faults>>

LineSwitched ==
  /\ stage = "running" /\ Change /\ native' = ~native
  /\ UNCHANGED <<image, agent, manifest, recorded, block, skill, mark, failed, cpc>>
  /\ UNCHANGED <<coreVars, gateVars, stage, selection, faults>>

AgentWritten ==
  /\ stage = "running" /\ Change
  /\ \E n \in Names : agent' = [agent EXCEPT ![n] = "user"]
  /\ UNCHANGED <<image, native, manifest, recorded, block, skill, mark, failed, cpc>>
  /\ UNCHANGED <<coreVars, gateVars, stage, selection, faults>>

SkillEnabled ==
  /\ stage = "running" /\ Change
  /\ \E p \in Projects : skill[p] = 0 /\ skill' = [skill EXCEPT ![p] = image]
  /\ UNCHANGED <<image, native, agent, manifest, recorded, block, mark, failed, cpc>>
  /\ UNCHANGED <<coreVars, gateVars, stage, selection, faults>>

\* What ran on the database, this core or another, leaves some schema.
SchemaChanges ==
  /\ stage = "running" /\ Change /\ facts' \in Facts
  /\ UNCHANGED <<main, wal, writer, copy, stamps, listed, gpc, verdict>>
  /\ UNCHANGED <<coreVars, configVars, stage, selection, faults>>

Writes ==
  /\ stage = "gate" /\ Change /\ OtherWriter
  /\ UNCHANGED <<coreVars, configVars, stage, selection, faults>>

Entrypoint ==
  \/ Start \/ RecoverCore \/ CoreReturns \/ RunGate \/ GateReturns \/ EnsureSelection
  \/ InstallPackages \/ RefuseReserved \/ RunConfig \/ ConfigReturns \/ RunRest

Changes == CoreChanges \/ SelectionChanges \/ LineSwitched \/ AgentWritten \/ SkillEnabled
             \/ SchemaChanges

Next == Entrypoint \/ Crash \/ Restart \/ Deploy \/ Changes \/ Writes

Spec == Init /\ [][Next]_vars

\* Docker starts a container that is down and the scripts run; the operator who is
\* told that the container is blocked restarts it.
FairSpec ==
  /\ Spec /\ WF_vars(Entrypoint) /\ WF_vars(stage = "blocked" /\ Restart)

(* Properties *)

\* What the v1 schema is, whatever the order in which classify_schema looks.
PinnedV1(f) ==
  LET ids == IF "migration" \in f.tables THEN f.ids ELSE LegacyIds(f) IN
  /\ f.sound /\ {"session_v2", "foreign"} \intersect f.tables = {}
  /\ \/ f.tables = {}
     \/ "required" \in f.tables /\ ids = {"pinned"}

\* The gate lets a database through only when the copy it looked at is one
\* version of it and that version is fresh or the pinned v1 schema: no order of
\* tests, no empty or half-recognized journal and no writer during the copy
\* gets anything else past run_gate.
GateSound ==
  gpc = "over" /\ verdict \in {"allow_fresh", "allow_v1"} => copy = stamps /\ PinnedV1(facts)

\* A recovery whose source is missing, corrupt or not what its manifest says
\* changes neither the active entry nor a generation (cmd_recover fails closed).
RefusedUntouched ==
  [][stage = "core" /\ stage' \in {"core", "blocked"} /\ base # "sound"
       => active' = active /\ gen' = gen]_vars

\* An agent that a user wrote under a name that no image ships is never
\* overwritten or removed, across switches of the line, upgrades and crashes in
\* the middle of a deployment (deploy_native_agents, undeploy_native_agents).
UserAgentsKept ==
  [][\A n \in Agents \ UNION {Ships[i] : i \in Images} :
       agent[n] = "user" => agent'[n] = "user"]_vars

\* A version is recorded in .skill-versions only once every project that has the
\* skill carries it (upgrade_bootstrapped_skills).
SkillsMarked ==
  stage = "running" /\ mark = image => \A p \in Enabled : skill[p] = image

\* A core that drifted in a way the recovery can repair is whole again, however
\* often the container dies or tar fails on the way.
RecoveryHeals == stage = "core" /\ Healable ~> Intact \/ ~Healable

(* A statement of the repository that the code does not keep. *)

\* The copy is of the database as it stands at the verdict: the spec has the gate
\* inspect the database "without ignoring write-ahead log" files.
NoUnseenLog ==
  gpc = "over" /\ verdict \in {"allow_fresh", "allow_v1"} => copy = <<main, wal>>
=============================================================================
