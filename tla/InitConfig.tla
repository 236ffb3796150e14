----------------------------- MODULE InitConfig -----------------------------
(* What entrypoint.d/02-init-config.sh keeps on the configuration volume from *)
(* one container to the next: the agent files of the native line with their   *)
(* manifest, the knowledge block in AGENTS.md, and the version up to which    *)
(* the projects' bootstrapped skill was upgraded.                             *)
EXTENDS Naturals, FiniteSets

CONSTANTS
  Images,    \* the images that can be deployed, numbered in order of release
  Agents,    \* agent file names with no " - " in them
  Ghosts,    \* the display names that the OMO line writes, all with " - "
  Ships,     \* Ships[i]: the agents that image i ships
  Projects   \* projects of the workspace

ASSUME ShipsAssumption == Ships \in [Images -> SUBSET Agents]
ASSUME ImagesAssumption == Images \subseteq Nat \ {0}
ASSUME NamesAssumption == Agents \intersect Ghosts = {}

VARIABLES
  image,     \* the image of the container
  native,    \* the marker file that selects the native line
  agent,     \* agent[n]: what stands at agent/n.md
  manifest,  \* names in .ai-engkit-native-manifest
  recorded,  \* is there a manifest?
  block,     \* AGENTS.md: absent, no markers, malformed, another image's block or this one's
  skill,     \* skill[p]: version of the skill in project p, 0 when not enabled
  mark,      \* the version in .skill-versions, 0 when none
  failed,    \* did an upgrade of this start fail for some project?
  cpc        \* where the script is

configVars == <<image, native, agent, manifest, recorded, block, skill, mark, failed, cpc>>

Names  == Agents \union Ghosts
Blocks == {"absent", "plain", "malformed", "old", "current"}
Parts  == {"idle", "prune", "deploy", "undeploy", "lsp", "skills", "agents_md",
           "done", "failed"}

ConfigTypeOK ==
  /\ image \in Images /\ native \in BOOLEAN
  /\ agent \in [Names -> {"none", "user", "image"}]
  /\ manifest \subseteq Names /\ recorded \in BOOLEAN /\ block \in Blocks
  /\ skill \in [Projects -> Images \union {0}] /\ mark \in Images \union {0}
  /\ failed \in BOOLEAN /\ cpc \in Parts

\* A first start of the first image on an empty volume, and what users keep in
\* their workspace and home already.
ConfigInit ==
  /\ image \in Images /\ \A i \in Images : image <= i
  /\ native = FALSE /\ agent = [n \in Names |-> "none"]
  /\ manifest = {} /\ recorded = FALSE /\ block \in {"plain", "malformed"}
  /\ skill \in [Projects -> {0, image}] /\ mark = 0
  /\ failed = FALSE /\ cpc = "idle"

Shipped == Ships[image]
FromImage == {n \in Names : agent[n] = "image"}

\* ensure_leanctx_config fails without lean-ctx; then the line is read once.
Line ==
  /\ cpc = "idle"
  /\ failed' = FALSE
  /\ cpc' \in {IF native THEN "prune" ELSE "undeploy", "failed"}
  /\ UNCHANGED <<image, native, agent, manifest, recorded, block, skill, mark>>

\* MUTANT: whatever the image does not ship goes.
AllNames == Names
\* What a deployment may delete: what an earlier one recorded, and display names.
Deletable == (IF recorded THEN manifest ELSE {}) \union Ghosts

\* deploy_native_agents, 1 and 2: files of the manifest that the image no longer
\* ships, and display names of the OMO line, go.
PruneAgents ==
  /\ cpc = "prune"
  /\ agent' = [n \in Names |-> IF n \in Deletable \ Shipped THEN "none" ELSE agent[n]]
  /\ cpc' = "deploy"
  /\ UNCHANGED <<image, native, manifest, recorded, block, skill, mark, failed>>

\* deploy_native_agents, 3: one copy at a time.
DeployAgent ==
  /\ cpc = "deploy"
  /\ \E n \in Shipped : agent[n] # "image" /\ agent' = [agent EXCEPT ![n] = "image"]
  /\ UNCHANGED <<image, native, manifest, recorded, block, skill, mark, failed, cpc>>

RecordManifest ==
  /\ cpc = "deploy"
  /\ \A n \in Shipped : agent[n] = "image"
  /\ manifest' = Shipped /\ recorded' = TRUE /\ cpc' = "lsp"
  /\ UNCHANGED <<image, native, agent, block, skill, mark, failed>>

\* undeploy_native_agents: one file at a time, the manifest last.
UndeployAgents ==
  /\ cpc = "undeploy"
  /\ \/ \E n \in manifest : recorded /\ agent[n] # "none"
          /\ agent' = [agent EXCEPT ![n] = "none"] /\ UNCHANGED <<manifest, recorded, cpc>>
     \/ /\ recorded => \A n \in manifest : agent[n] = "none"
        /\ manifest' = {} /\ recorded' = FALSE /\ cpc' = "lsp" /\ UNCHANGED agent
  /\ UNCHANGED <<image, native, block, skill, mark, failed>>

\* merge_project_lsp_config fails on a file of the project that is not JSON.
MergeProjectLsp ==
  /\ cpc = "lsp"
  /\ cpc' \in {"skills", "failed"}
  /\ UNCHANGED <<image, native, agent, manifest, recorded, block, skill, mark, failed>>

\* upgrade_bootstrapped_skills: the template of this image against the version
\* recorded; then every project that has the skill, each of which may fail.
Enabled == {p \in Projects : skill[p] # 0}

SkillsCurrent ==
  /\ cpc = "skills" /\ mark = image
  /\ cpc' = "agents_md"
  /\ UNCHANGED <<image, native, agent, manifest, recorded, block, skill, mark, failed>>

UpgradeSkill ==
  /\ cpc = "skills" /\ mark # image
  /\ \/ \E p \in Enabled :
          skill[p] # image /\ skill' = [skill EXCEPT ![p] = image] /\ UNCHANGED failed
     \/ Enabled # {} /\ ~failed /\ failed' = TRUE /\ UNCHANGED skill
  /\ UNCHANGED <<image, native, agent, manifest, recorded, block, mark, cpc>>

\* MUTANT: one upgraded project is enough.
SomeUpgraded == \E p \in Enabled : skill[p] = image
\* Some project was upgraded and none failed.
AllUpgraded == ~failed /\ Enabled # {}

\* The version is recorded when some project was upgraded and none failed; a
\* failure makes the function, and with it the script, fail.
MarkSkills ==
  /\ cpc = "skills" /\ mark # image
  /\ failed \/ \A p \in Enabled : skill[p] = image
  /\ mark' = IF AllUpgraded THEN image ELSE mark
  /\ cpc' = IF failed THEN "failed" ELSE "agents_md"
  /\ UNCHANGED <<image, native, agent, manifest, recorded, block, skill, failed>>

\* sync_ai_engkit_agents_md: a file whose markers are out of order is left alone.
SyncAgentsMd ==
  /\ cpc = "agents_md"
  /\ block' = IF block = "malformed" THEN block ELSE "current"
  /\ cpc' = "done"
  /\ UNCHANGED <<image, native, agent, manifest, recorded, skill, mark, failed>>

Configure == Line \/ PruneAgents \/ DeployAgent \/ RecordManifest \/ UndeployAgents
               \/ MergeProjectLsp \/ SkillsCurrent \/ UpgradeSkill \/ MarkSkills \/ SyncAgentsMd

\* The script is over, or its container is.
ConfigLeaves ==
  /\ cpc' = "idle" /\ failed' = FALSE
  /\ UNCHANGED <<image, native, agent, manifest, recorded, block, skill, mark>>
=============================================================================
