---------------------------- MODULE ManagedCore ----------------------------
(* The image-managed core (scripts/ai-engkit-core.py, `recover`): a pristine *)
(* baseline, generations of the installed tree and the `active` entry that   *)
(* the wrappers run.  A tree is abstracted to how it compares with the       *)
(* manifest: whole, drifted (anything else that somebody left), or half (the *)
(* work of an extraction or a removal that is not finished).                 *)
EXTENDS Naturals

VARIABLES
  active,   \* the entry `active`: absent, a link, a real directory or a file
  gen,      \* what stands at generations/<id of the baseline>
  stray,    \* are there other generations?
  staging,  \* the staging directory of the running recovery
  litter,   \* are there staging directories of recoveries that died?
  base,     \* the baseline: sound, refused on load, or not what its manifest says
  rpc       \* where cmd_recover is

coreVars == <<active, gen, stray, staging, litter, base, rpc>>

Trees   == {"none", "whole", "drifted", "half"}
Nodes   == Trees \union {"symlink", "file"}
Actives == {"none", "gen", "other", "dirWhole", "dirDrifted", "dirHalf", "file"}
Bases   == {"sound", "broken", "skewed"}
Steps   == {"idle", "extract", "compare", "place", "switch", "relink", "prune",
            "done", "refused"}

CoreTypeOK ==
  /\ active \in Actives /\ gen \in Nodes /\ stray \in BOOLEAN
  /\ staging \in Trees /\ litter \in BOOLEAN /\ base \in Bases /\ rpc \in Steps

\* compare_tree follows `active` when it is a link; what cannot be read counts
\* as a difference.
ActiveTree == CASE active = "gen"        -> gen
                [] active = "dirWhole"   -> "whole"
                [] active = "dirHalf"    -> "half"
                [] active = "none"       -> "none"
                [] OTHER                 -> "drifted"

Intact == ActiveTree = "whole"

\* MUTANT: the generation is compared in place of what `active` stands for.
GenerationWhole == gen = "whole"
\* What makes cmd_recover report a clean core.
Clean == Intact

\* What a new container of the image holds.
CoreInit ==
  /\ active = "gen" /\ gen = "whole" /\ stray = FALSE /\ base = "sound"
  /\ staging = "none" /\ litter = FALSE /\ rpc = "idle"

\* Leftover staging goes first; the baseline is validated before `active` is
\* looked at, and a clean tree ends the recovery.
Verify ==
  /\ rpc = "idle"
  /\ litter' = FALSE
  /\ rpc' = CASE base = "broken" -> "refused"
              [] base # "broken" /\ Clean -> "done"
              [] OTHER -> "extract"
  /\ UNCHANGED <<active, gen, stray, staging, base>>

\* tar works file by file; it may fail, and the finally clause removes staging.
Unpack ==
  /\ rpc = "extract"
  /\ \/ staging = "none" /\ staging' = "half" /\ UNCHANGED rpc
     \/ staging = "half" /\ rpc' = "compare"
        /\ staging' = IF base = "sound" THEN "whole" ELSE "drifted"
     \/ staging = "half" /\ staging' = "none" /\ rpc' = "refused"
  /\ UNCHANGED <<active, gen, stray, litter, base>>

\* MUTANT: what tar unpacked is taken as it is.
StagedAtAll == staging # "none"
\* The staged tree is the manifest's.
StagedMatches == staging = "whole"

\* A staged tree that is not the manifest's is dropped; an intact generation is
\* kept and the staged copy dropped; a drifted one is removed.
CompareStaged ==
  /\ rpc = "compare"
  /\ CASE ~StagedMatches ->
            staging' = "none" /\ rpc' = "refused" /\ UNCHANGED gen
       [] StagedMatches /\ gen = "whole" ->
            staging' = "none" /\ rpc' = "switch" /\ UNCHANGED gen
       [] StagedMatches /\ gen \in {"drifted", "half"} ->
            \/ gen' = "half" /\ UNCHANGED <<staging, rpc>>
            \/ gen' = "none" /\ rpc' = "place" /\ UNCHANGED staging
       [] OTHER -> rpc' = "place" /\ UNCHANGED <<staging, gen>>
  /\ UNCHANGED <<active, stray, litter, base>>

\* os.replace(staging, generation): a directory replaces nothing but an absent
\* entry; over a file or a link it raises and staging is removed.
Place ==
  /\ rpc = "place"
  /\ staging' = "none"
  /\ IF gen = "none" THEN gen' = staging /\ rpc' = "switch"
     ELSE rpc' = "refused" /\ UNCHANGED gen
  /\ UNCHANGED <<active, stray, litter, base>>

\* _switch_active: a link or an absent entry is replaced in one step, a real
\* directory is removed first, and removing a file as a directory raises.
Switch ==
  /\ rpc = "switch"
  /\ CASE active \in {"none", "gen", "other"} -> active' = "gen" /\ rpc' = "prune"
       [] active = "file" -> rpc' = "refused" /\ UNCHANGED active
       [] OTHER -> \/ active' = "dirHalf" /\ UNCHANGED rpc
                   \/ active' = "none" /\ rpc' = "relink"
  /\ UNCHANGED <<gen, stray, staging, litter, base>>

Relink ==
  /\ rpc = "relink"
  /\ active' = "gen" /\ rpc' = "prune"
  /\ UNCHANGED <<gen, stray, staging, litter, base>>

PruneGenerations ==
  /\ rpc = "prune"
  /\ stray' = FALSE /\ rpc' = "done"
  /\ UNCHANGED <<active, gen, staging, litter, base>>

Recovery ==
  Verify \/ Unpack \/ CompareStaged \/ Place \/ Switch \/ Relink \/ PruneGenerations

\* A new container holds the core of its image.
CoreDeployed ==
  /\ active' = "gen" /\ gen' = "whole" /\ stray' = FALSE /\ base' = "sound"
  /\ staging' = "none" /\ litter' = FALSE /\ rpc' = "idle"

\* The container dies: the process is gone and what it staged stays.
CoreDies ==
  /\ rpc' = "idle" /\ staging' = "none"
  /\ litter' = (litter \/ staging # "none")
  /\ UNCHANGED <<active, gen, stray, base>>

\* A running container's root changes the core or its baseline.
CoreDrifts ==
  /\ \/ /\ active' \in {"none", "gen", "other", "dirDrifted", "file"}
        /\ gen' \in {"none", "whole", "drifted", "symlink", "file"}
        /\ stray' \in BOOLEAN /\ UNCHANGED base
     \/ base' \in {"broken", "skewed"} /\ UNCHANGED <<active, gen, stray>>
  /\ UNCHANGED <<staging, litter, rpc>>

\* What the recovery can repair: the entries it does not know how to remove
\* make its os.replace or rmtree raise.
Healable == base = "sound" /\ gen \notin {"symlink", "file"} /\ active # "file"
=============================================================================
