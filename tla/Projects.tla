------------------------------- MODULE Projects -------------------------------
(* Projects of the workspace: their registrations in OpenChamber's settings     *)
(* file, the list of disabled ones, the operations of the admin server          *)
(* (src/admin/lib/projects.ts, openchamber-projects.ts and their routes) and    *)
(* the reconciliation after a start of ai-dev.                                  *)
EXTENDS ToolStatus

CONSTANTS
  Targets,      \* the names that requests use
  Features,     \* what a project may have enabled; "superpowers" is one of them
  Kept,         \* the features whose files a disable leaves
  Ops,          \* operations under way at one time
  Rounds,       \* passes of the background loop (8 in the code)
  MaxRequests,  \* bound: requests, starts of ai-dev
  MaxMishaps    \* bound: failing commands, OpenChamber persisting its settings

ASSUME TargetsAssumption == Targets \subseteq ProjectNames /\ Targets # {}
ASSUME FeaturesAssumption == Kept \subseteq Features /\ Features # {}
ASSUME ProjectBoundsAssumption == {Rounds, MaxRequests, MaxMishaps} \subseteq Nat

VARIABLES
  dirs,      \* directories of the workspace
  visible,   \* is the workspace's mount visible in ai-dev?
  settings,  \* settings.json: the registered projects, and another key
  disabled,  \* disabled-projects.json
  feats,     \* the features of each project
  remotes,   \* projects with an origin
  page,      \* what the projects page would send for "Fix All", or Unset
  op,        \* the operations
  boot,      \* the loop that a start of ai-dev leaves in the background
  requests, mishaps

projectVars == <<dirs, visible, settings, disabled, feats, remotes, page, op, boot>>
workspaceVars == <<toolVars, projectVars, requests, mishaps>>

Settings == [projects : SUBSET ProjectNames, notify : BOOLEAN]
Step(c, n) == [do |-> c, name |-> n]
Commands == {"test", "mkdir", "clone", "register", "unregister", "notify", "hide", "unhide", "recall", "rm",
             "seeDirs", "seeProjects", "seeDisabled", "enable", "disable", "look", "origin",
             "fetch", "remove", "index"}
NoSight == [dirs |-> {}, projects |-> {}, disabled |-> {}]

\* The commands of an operation that succeeds.
Creation(makes, n) == <<Step(makes, n), Step("unhide", n), Step("register", n)>>
Enabling(n) == <<Step("test", n), Step("unhide", n), Step("register", n)>>
Disabling(n) == <<Step("test", n), Step("hide", n), Step("unregister", n)>>
Deletion(n) == <<Step("test", n), Step("unregister", n), Step("recall", n), Step("rm", n)>>
Remoting(n) == <<Step("look", n), Step("origin", n), Step("fetch", n)>>
Unremoting(n) == <<Step("remove", n)>>
Indexing(n) == <<Step("test", n), Step("index", n)>>
Syncing(add, remove) ==
  SetToSeq({Step("register", n) : n \in add}) \o SetToSeq({Step("unregister", n) : n \in remove})
\* The reconcile script reads in this order; the page's comparison in any.
Reading(n) == <<Step("seeProjects", n), Step("seeDisabled", n), Step("seeDirs", n)>>

Program(kind, n) ==
  CASE kind = "create"  -> Creation("mkdir", n)
    [] kind = "clone"   -> Creation("clone", n)
    [] kind = "enable"  -> Enabling(n)
    [] kind = "disable" -> Disabling(n)
    [] kind = "delete"  -> Deletion(n)
    [] kind = "remote"  -> Remoting(n)
    [] kind = "no remote" -> Unremoting(n)
    [] kind = "reindex" -> Indexing(n)

NoOp == [pc |-> "idle", kind |-> "notify", name |-> CHOOSE n \in Targets : TRUE, todo |-> <<>>,
         tmp |-> Unset, dead |-> FALSE, seen |-> NoSight, ok |-> TRUE, late |-> FALSE, solo |-> FALSE,
         before |-> Unset, shown |-> Unset, feature |-> CHOOSE f \in Features : TRUE]

Kinds == {"create", "clone", "enable", "disable", "undo", "delete", "remote", "no remote", "reindex",
          "feature", "notify", "pass", "compare", "sync", "center sync"}
OpSteps == [do : Commands, name : ProjectNames]
Sights == [dirs : SUBSET ProjectNames, projects : SUBSET ProjectNames, disabled : SUBSET ProjectNames]
Marks == [hidden : SUBSET ProjectNames]
Lists == [missing : SUBSET ProjectNames, stale : SUBSET ProjectNames]
OpStates ==
  [pc : {"idle", "run", "ok", "failed", "partial", "missing"}, kind : Kinds, name : Targets,
   todo : Seq(OpSteps), tmp : Settings \union Marks \union {Unset}, dead : BOOLEAN,
   seen : Sights, ok : BOOLEAN, late : BOOLEAN, solo : BOOLEAN, before : Settings \union {Unset},
   shown : Lists \union {Unset}, feature : Features]

ProjectTypeOK ==
  /\ dirs \subseteq ProjectNames /\ visible \in BOOLEAN /\ settings \in Settings
  /\ disabled \subseteq ProjectNames /\ feats \in [ProjectNames -> SUBSET Features]
  /\ remotes \subseteq ProjectNames /\ page \in Lists \union {Unset}
  /\ op \in [Ops -> OpStates]
  /\ \A o \in Ops : op[o].pc = "run" => op[o].todo # <<>>
  /\ boot \in [pc : {"first", "sleep", "pass", "consistent", "gave up"}, round : 0..Rounds,
               op : Ops \union {Unset}]
  /\ requests \in 0..MaxRequests /\ mishaps \in 0..MaxMishaps

ProjectInit ==
  /\ ToolInit
  /\ dirs \in {ProjectNames, ProjectNames \ Targets} /\ visible = TRUE
  /\ settings = [projects |-> dirs, notify |-> FALSE]
  /\ disabled = {} /\ feats = [n \in ProjectNames |-> {}] /\ remotes = {} /\ page = Unset
  /\ op = [o \in Ops |-> NoOp]
  /\ boot = [pc |-> "consistent", round |-> 0, op |-> Unset]
  /\ requests = 0 /\ mishaps = 0

Mishap == mishaps < MaxMishaps /\ mishaps' = mishaps + 1
Request == requests < MaxRequests /\ requests' = requests + 1
Idle(o) == op[o].pc # "run"
Free(o) == Idle(o) /\ o = CHOOSE k \in Ops : Idle(k)
Alone(ops) == [o \in Ops |-> [ops[o] EXCEPT !.solo = FALSE]]

\* An operation starts; nobody that is under way runs alone from now on.
Started(o, r) ==
  LET new == [r EXCEPT !.pc = "run", !.before = settings,
                       !.solo = visible /\ \A k \in Ops : Idle(k)]
  IN op' = [k \in Ops |-> IF k = o THEN new ELSE IF Idle(k) THEN NoOp ELSE Alone(op)[k]]

Begin(o) ==
  /\ Free(o) /\ Request
  /\ \/ \E kind \in {"create", "clone", "enable", "disable", "delete", "remote", "no remote", "reindex"}, n \in Targets :
          Started(o, [NoOp EXCEPT !.kind = kind, !.name = n, !.todo = Program(kind, n)])
     \/ \E does \in {"enable", "disable"}, n \in Targets, f \in Features :
          Started(o, [NoOp EXCEPT !.kind = "feature", !.name = n, !.feature = f, !.todo = <<Step(does, n)>>])
  /\ UNCHANGED <<toolVars, dirs, visible, settings, disabled, feats, remotes, page, boot, mishaps>>

\* PUT /api/openchamber/settings
Notify(o) ==
  /\ Free(o) /\ Request
  /\ Started(o, [NoOp EXCEPT !.kind = "notify", !.todo = <<Step("notify", NoOp.name)>>])
  /\ UNCHANGED <<toolVars, dirs, visible, settings, disabled, feats, remotes, page, boot, mishaps>>

\* An upgrade runs the reconcile script in the container.
Reconcile(o) ==
  /\ Free(o) /\ Request
  /\ Started(o, [NoOp EXCEPT !.kind = "pass", !.todo = Reading(NoOp.name)])
  /\ UNCHANGED <<toolVars, dirs, visible, settings, disabled, feats, remotes, page, boot, mishaps>>

\* The page's "Sync" asks for the lists; GET reads the three sources at once.
Compare(o) ==
  /\ Free(o) /\ Request
  /\ \E order \in SetToSeqs({Step(c, NoOp.name) : c \in {"seeDirs", "seeProjects", "seeDisabled"}}) :
       Started(o, [NoOp EXCEPT !.kind = "compare", !.todo = order])
  /\ UNCHANGED <<toolVars, dirs, visible, settings, disabled, feats, remotes, page, boot, mishaps>>

\* POST of the names to add and to remove.
Post(o, lists) ==
  Started(o, [NoOp EXCEPT !.kind = "sync", !.todo = Syncing(lists.missing, lists.stale), !.shown = lists])

\* "Fix All" posts the lists that the page has been shown, whenever that was; its
\* button is back only when the sync has failed.
FixAll(o) ==
  /\ Free(o) /\ page # Unset /\ page' = Unset
  /\ page.missing \union page.stale # {} /\ Post(o, page)
  /\ UNCHANGED <<toolVars, dirs, visible, settings, disabled, feats, remotes, boot, requests, mishaps>>

\* The center's commands run the same operations, a sync with names of its own and
\* without the callback that drops the tool status.
CenterAsks(o) ==
  /\ Free(o) /\ Request
  /\ \E n \in Targets :
       \/ \E kind \in {"create", "clone", "remote", "no remote", "enable", "disable"} :
            Started(o, [NoOp EXCEPT !.kind = kind, !.name = n, !.todo = Program(kind, n)])
       \/ \E f \in Features :
            Started(o, [NoOp EXCEPT !.kind = "feature", !.name = n, !.feature = f, !.todo = <<Step("enable", n)>>])
       \/ \E sync \in {Syncing({n}, {}), Syncing({}, {n})} :
            Started(o, [NoOp EXCEPT !.kind = "center sync", !.todo = sync])
  /\ UNCHANGED <<toolVars, dirs, visible, settings, disabled, feats, remotes, page, boot, mishaps>>

\* What an operation drops from the tool status when it ends well enough.
Drops(o, result) ==
  CASE op[o].kind = "sync" -> ProjectNames
    [] op[o].kind = "delete" /\ result = "ok" -> ProjectNames
    [] op[o].kind = "reindex" /\ result # "missing" -> {op[o].name}
    [] OTHER -> {}

\* A pass that has added something, or failed, is followed by another.
AfterPass(o) == boot' = IF boot.op = o THEN [boot EXCEPT !.pc = "sleep", !.op = Unset] ELSE boot

\* The operation ends, as it stands in r.
Ends(o, r, result) ==
  /\ op' = [op EXCEPT ![o] = [r EXCEPT !.pc = result, !.todo = <<>>, !.tmp = Unset, !.dead = FALSE]]
  /\ AfterPass(o)
  /\ page' = IF op[o].kind = "sync" /\ result = "failed" THEN op[o].shown ELSE page
  /\ LET gone == Drops(o, result) IN
     IF gone = {} THEN UNCHANGED <<cache, leanCache, inFlight, view, probe, slots, queue>>
     ELSE Invalidate(gone)
End(o, result) == Ends(o, op[o], result)

\* The next command, if there is one; else the operation has ended.
Go(o, r, todo) ==
  IF todo = <<>>
  THEN Ends(o, r, IF r.ok THEN "ok" ELSE IF r.kind = "undo" THEN "partial" ELSE "failed")
  ELSE /\ op' = [op EXCEPT ![o] = [r EXCEPT !.todo = todo, !.tmp = Unset, !.dead = FALSE]]
       /\ UNCHANGED <<boot, page, cache, leanCache, inFlight, view, probe, slots, queue>>
Done(o) == Go(o, op[o], Tail(op[o].todo))

Now(o) == Head(op[o].todo)
Runs(o, c) == op[o].pc = "run" /\ Now(o).do = c
Target(o) == Now(o).name

\* MUTANT: a disable that cannot unregister leaves its mark.
UndoNothing(o) == End(o, "partial")
\* disableProject rolls its mark back when the registration cannot be removed.
Undo(o) ==
  Go(o, [op[o] EXCEPT !.kind = "undo", !.ok = FALSE], <<Step("unhide", Target(o))>>)

\* What follows a command that has failed.
Failed(o) ==
  LET kind == op[o].kind c == Now(o).do IN
  CASE kind = "disable" /\ c = "unregister" -> Undo(o)
    [] kind = "enable" /\ c = "register" -> End(o, "partial")
    [] kind = "delete" /\ c = "unhide" -> Done(o)
    [] kind \in {"delete", "remote"} /\ c \in {"rm", "fetch"} -> End(o, "partial")
    [] kind \in {"sync", "center sync"} -> Go(o, [op[o] EXCEPT !.ok = FALSE], Tail(op[o].todo))
    [] kind = "undo" -> End(o, "partial")
    [] OTHER -> End(o, "failed")

\* Exit status -1 (out of time) is not an error for the commands that are not merges.
TimesOut(o) == Go(o, [op[o] EXCEPT !.late = TRUE], Tail(op[o].todo))
Merges == {"register", "unregister", "notify", "hide", "unhide"}

\* test -d
Test(o) ==
  /\ Runs(o, "test")
  /\ IF visible /\ Target(o) \in dirs THEN Done(o) ELSE End(o, "missing")
  /\ UNCHANGED <<indexed, dirs, visible, settings, disabled, feats, remotes, requests, mishaps>>

\* mkdir -p (with or without a git init, whose failure leaves the directory), or git
\* clone into a directory that is not there.
MakeDirectory(o) ==
  /\ Runs(o, "mkdir") \/ Runs(o, "clone")
  /\ \/ /\ Runs(o, "clone") /\ Target(o) \in dirs /\ Failed(o) /\ UNCHANGED <<dirs, remotes, mishaps>>
     \/ /\ Runs(o, "clone") => Target(o) \notin dirs
        /\ dirs' = IF visible THEN dirs \union {Target(o)} ELSE dirs
        /\ remotes' = IF Runs(o, "clone") /\ visible THEN remotes \union {Target(o)} ELSE remotes
        /\ Done(o) /\ UNCHANGED mishaps
     \/ /\ Mishap /\ Failed(o) /\ UNCHANGED remotes
        /\ dirs' \in {dirs} \union (IF Runs(o, "mkdir") /\ visible THEN {dirs \union {Target(o)}} ELSE {})
     \/ Mishap /\ Runs(o, "clone") /\ TimesOut(o) /\ UNCHANGED <<dirs, remotes>>
  /\ UNCHANGED <<indexed, visible, settings, disabled, feats, requests>>

\* A merge: jq reads the file into a temporary one, which is then moved.
Notified == [settings EXCEPT !.notify = ~@]
Edited(o) ==
  LET n == Target(o) IN
  CASE Now(o).do = "register"   -> [settings EXCEPT !.projects = @ \union {n}]
    [] Now(o).do = "unregister" -> [settings EXCEPT !.projects = @ \ {n}]
    [] Now(o).do = "notify"     -> Notified
    [] Now(o).do = "hide"       -> [hidden |-> disabled \union {n}]
    [] Now(o).do = "unhide"     -> [hidden |-> disabled \ {n}]

Edit(o) ==
  /\ op[o].pc = "run" /\ Now(o).do \in Merges /\ op[o].tmp = Unset
  /\ \/ /\ op' = [op EXCEPT ![o].tmp = Edited(o)]
        /\ UNCHANGED <<boot, page, cache, leanCache, inFlight, view, probe, slots, queue, mishaps>>
     \/ Mishap /\ Failed(o)
  /\ UNCHANGED <<indexed, dirs, visible, settings, disabled, feats, remotes, requests>>

\* The file is moved into place; a merge that runs out of time is a failure, moved or not.
Install(o) ==
  /\ op[o].pc = "run" /\ Now(o).do \in Merges /\ op[o].tmp # Unset
  /\ IF Now(o).do \in {"hide", "unhide"}
     THEN disabled' = op[o].tmp.hidden /\ UNCHANGED settings
     ELSE settings' = op[o].tmp /\ UNCHANGED disabled
  /\ \/ Done(o) /\ UNCHANGED mishaps
     \/ Mishap /\ Failed(o)
  /\ UNCHANGED <<indexed, dirs, visible, feats, remotes, requests>>

\* deleteProject looks whether the project is disabled.
Recall(o) ==
  /\ Runs(o, "recall")
  /\ IF Target(o) \in disabled
     THEN Go(o, op[o], <<Step("unhide", Target(o))>> \o Tail(op[o].todo))
     ELSE Done(o)
  /\ UNCHANGED <<indexed, dirs, visible, settings, disabled, feats, remotes, requests, mishaps>>

\* rm -rf of the directory, with the project's index and features.
RemoveDirectory(o) ==
  /\ Runs(o, "rm")
  /\ LET n == Target(o)
         removed == /\ visible /\ dirs' = dirs \ {n} /\ remotes' = remotes \ {n}
                    /\ feats' = [feats EXCEPT ![n] = {}] /\ indexed' = indexed \ {n}
     IN \/ (removed \/ (~visible /\ UNCHANGED <<dirs, remotes, feats, indexed>>)) /\ Done(o) /\ UNCHANGED mishaps
        \/ Mishap /\ (Failed(o) \/ TimesOut(o)) /\ UNCHANGED <<dirs, remotes, feats, indexed>>
  /\ UNCHANGED <<visible, settings, disabled, requests>>

\* bootstrap.sh and openspec need the directory, "superpowers" makes it.
Feature(o) ==
  /\ Runs(o, "enable") \/ Runs(o, "disable")
  /\ LET n == Target(o) f == op[o].feature
         makes == Runs(o, "enable") /\ f = "superpowers" /\ visible
         keeps == Runs(o, "disable") /\ f \in Kept
     IN \/ /\ (visible /\ n \in dirs) \/ makes
           /\ dirs' = IF makes THEN dirs \union {n} ELSE dirs
           /\ feats' = [feats EXCEPT ![n] =
                IF Runs(o, "enable") THEN @ \union {f} ELSE IF keeps THEN @ ELSE @ \ {f}]
           /\ Done(o) /\ UNCHANGED mishaps
        \/ ~(visible /\ n \in dirs) /\ ~makes /\ (IF keeps THEN Done(o) ELSE Failed(o))
           /\ UNCHANGED <<dirs, feats, mishaps>>
        \/ Mishap /\ ~keeps /\ (Failed(o) \/ TimesOut(o)) /\ UNCHANGED <<dirs, feats>>
  /\ UNCHANGED <<indexed, visible, settings, disabled, remotes, requests>>

\* setProjectRemote: add or set-url as the look before it has told, then a first fetch;
\* an empty URL removes the origin, and has done so whatever the command says.
Remote(o) ==
  /\ Runs(o, "look") \/ Runs(o, "origin") \/ Runs(o, "fetch") \/ Runs(o, "remove")
  /\ LET n == Target(o) there == visible /\ n \in dirs IN
     \/ /\ Runs(o, "look")
        /\ Go(o, [op[o] EXCEPT !.seen.projects = remotes \intersect {n}], Tail(op[o].todo))
        /\ UNCHANGED <<remotes, mishaps>>
     \/ /\ Runs(o, "origin")
        /\ IF there /\ ((n \in op[o].seen.projects) <=> (n \in remotes))
           THEN remotes' = remotes \union {n} /\ Done(o) ELSE Failed(o) /\ UNCHANGED remotes
        /\ UNCHANGED mishaps
     \/ Runs(o, "fetch") /\ there /\ Done(o) /\ UNCHANGED <<remotes, mishaps>>
     \/ /\ Runs(o, "remove") /\ Done(o)
        /\ \/ there /\ remotes' = remotes \ {n} /\ UNCHANGED mishaps
           \/ ~there /\ UNCHANGED <<remotes, mishaps>>
           \/ Mishap /\ UNCHANGED remotes
     \/ (Runs(o, "origin") \/ Runs(o, "fetch")) /\ Mishap /\ (Failed(o) \/ TimesOut(o)) /\ UNCHANGED remotes
     \/ Runs(o, "fetch") /\ ~there /\ Failed(o) /\ UNCHANGED <<remotes, mishaps>>
  /\ UNCHANGED <<indexed, dirs, visible, settings, disabled, feats, requests>>

\* codegraph init or index; what is cached of the project goes, whatever came of it.
Reindex(o) ==
  /\ Runs(o, "index")
  /\ \/ /\ visible /\ Target(o) \in dirs
        /\ indexed' = indexed \union {Target(o)} /\ Done(o) /\ UNCHANGED mishaps
     \/ ~(visible /\ Target(o) \in dirs) /\ Failed(o) /\ UNCHANGED <<indexed, mishaps>>
     \/ Mishap /\ (Failed(o) \/ TimesOut(o)) /\ UNCHANGED indexed
  /\ UNCHANGED <<dirs, visible, settings, disabled, feats, remotes, requests>>

\* What the sync route and the reconcile script find missing.
Missing(s) == s.dirs \ (s.projects \union s.disabled)

\* One of the three readings; after the last the page has its lists, the script its work.
See(o) ==
  /\ op[o].pc = "run" /\ Now(o).do \in {"seeDirs", "seeProjects", "seeDisabled"}
  /\ LET seen == CASE Now(o).do = "seeDirs" -> [op[o].seen EXCEPT !.dirs = IF visible THEN dirs ELSE {}]
                   [] Now(o).do = "seeProjects" -> [op[o].seen EXCEPT !.projects = settings.projects]
                   [] OTHER -> [op[o].seen EXCEPT !.disabled = disabled]
         last == Len(op[o].todo) = 1
         script == last /\ op[o].kind = "pass"
         work == SetToSeq({Step("register", n) : n \in Missing(seen)})
     IN /\ op' = [op EXCEPT ![o].seen = seen, ![o].todo = IF script THEN work ELSE Tail(@),
                            ![o].pc = IF ~last \/ (script /\ work # <<>>) THEN "run" ELSE "ok"]
        /\ boot' = IF script /\ work = <<>> /\ boot.op = o
                   THEN [boot EXCEPT !.pc = IF boot.round = 0 THEN "sleep" ELSE "consistent", !.op = Unset]
                   ELSE boot
        /\ page' = IF last /\ op[o].kind = "compare"
                   THEN [missing |-> Missing(seen), stale |-> seen.projects \ seen.dirs] ELSE page
  /\ UNCHANGED <<toolVars, dirs, visible, settings, disabled, feats, remotes, requests, mishaps>>

\* ai-dev starts: the merges it was running are lost, the mount may come later.
AiDevStarts ==
  /\ Request
  /\ visible' \in BOOLEAN
  /\ op' = [o \in Ops |-> IF boot.op = o THEN NoOp
                          ELSE [Alone(op)[o] EXCEPT !.dead = op[o].tmp # Unset]]
  /\ boot' = [pc |-> "first", round |-> 0, op |-> Unset]
  /\ UNCHANGED <<toolVars, dirs, settings, disabled, feats, remotes, page, mishaps>>

Lost(o) ==
  /\ op[o].pc = "run" /\ op[o].dead /\ Failed(o)
  /\ UNCHANGED <<indexed, dirs, visible, settings, disabled, feats, remotes, requests, mishaps>>

MountAppears ==
  /\ ~visible /\ visible' = TRUE
  /\ UNCHANGED <<toolVars, dirs, settings, disabled, feats, remotes, page, op, boot, requests, mishaps>>

\* MUTANT: the loop does not wait for the workspace.
ReadyAlways == TRUE
\* workspace_ready
WorkspaceReady == visible /\ dirs # {}

\* 07-reconcile-openchamber.sh: one pass, then the loop in the background.
BootPass(o) ==
  /\ boot.pc = "first" \/ boot.pc = "sleep"
  /\ LET round == IF boot.pc = "first" THEN 0 ELSE boot.round + 1 IN
     IF round > Rounds THEN boot' = [boot EXCEPT !.pc = "gave up"] /\ UNCHANGED op
     ELSE IF WorkspaceReady
     THEN /\ Free(o)
          /\ Started(o, [NoOp EXCEPT !.kind = "pass", !.todo = Reading(NoOp.name)])
          /\ boot' = [pc |-> "pass", round |-> round, op |-> o]
     ELSE boot' = [boot EXCEPT !.pc = "sleep", !.round = round] /\ UNCHANGED op
  /\ UNCHANGED <<toolVars, dirs, visible, settings, disabled, feats, remotes, page, requests, mishaps>>

\* External: OpenChamber persists its settings, without what it cannot stat.
OpenChamberPersists ==
  /\ Mishap
  /\ settings' = [settings EXCEPT !.projects = IF visible THEN @ \intersect dirs ELSE {}]
  /\ op' = Alone(op)
  /\ UNCHANGED <<toolVars, dirs, visible, disabled, feats, remotes, page, boot, requests>>

OpWork(o) ==
  \/ Test(o) \/ MakeDirectory(o) \/ Edit(o) \/ Install(o) \/ Recall(o) \/ RemoveDirectory(o)
  \/ Feature(o) \/ Remote(o) \/ Reindex(o) \/ See(o) \/ Lost(o)

AskOverview(v) ==
  /\ Request /\ Overview(v, IF visible THEN dirs ELSE {})
  /\ UNCHANGED <<projectVars, mishaps>>

\* POST tool-status/refresh, and the repair of lean-ctx's stores when it succeeds.
Refresh ==
  /\ Request /\ Invalidate(ProjectNames)
  /\ UNCHANGED <<indexed, projectVars, mishaps>>

ToolSteps(v) == ProbeWork(v) /\ UNCHANGED <<projectVars, requests, mishaps>>
Expires == Mishap /\ CacheExpires /\ UNCHANGED <<projectVars, requests>>

ProjectNext ==
  \/ \E o \in Ops : Begin(o) \/ Notify(o) \/ Reconcile(o) \/ Compare(o) \/ FixAll(o) \/ CenterAsks(o)
                     \/ OpWork(o) \/ BootPass(o)
  \/ \E v \in Viewers : AskOverview(v) \/ ToolSteps(v)
  \/ AiDevStarts \/ MountAppears \/ OpenChamberPersists \/ Refresh \/ Expires

ProjectSpec == ProjectInit /\ [][ProjectNext]_workspaceVars

\* Commands return; the shell's loop and the event loop go on; the mount appears.
ProjectFairSpec ==
  /\ ProjectSpec /\ WF_workspaceVars(MountAppears)
  /\ \A o \in Ops : WF_workspaceVars(OpWork(o)) /\ WF_workspaceVars(BootPass(o))
  /\ \A v \in Viewers : WF_workspaceVars(ToolSteps(v))

-----------------------------------------------------------------------------
(* Properties *)

\* What an operation that ran alone, without a command out of time, has come to:
\* on success what its route promises; a disable that could not unregister has
\* taken its mark back; a delete, however far it came, leaves no registration
\* without a directory; nobody else's registration and no other key has changed.
SoloOps ==
  \A o \in Ops : op[o].pc \notin {"idle", "run"} /\ op[o].solo /\ ~op[o].late =>
    LET n == op[o].name
        k == op[o].kind
        before == op[o].before
    IN
    /\ k \notin {"sync", "center sync", "pass", "notify"} =>
         settings = [before EXCEPT !.projects = (@ \ {n}) \union (settings.projects \intersect {n})]
    /\ op[o].pc = "ok" =>
         /\ k \in {"create", "clone", "enable"} => n \in (dirs \intersect settings.projects) \ disabled
         /\ k = "disable" => n \in disabled \ settings.projects
         /\ k = "delete" => n \notin dirs \union settings.projects
    /\ k = "delete" /\ op[o].pc # "missing" => n \notin settings.projects \ dirs
    /\ k \in {"disable", "undo"} /\ op[o].pc = "partial" /\ mishaps <= 1 => n \notin disabled

\* When nothing disturbs ai-dev any more, its boot loop registers every project
\* directory that is not disabled, unless it runs out of passes.
Calm == requests = MaxRequests /\ mishaps = MaxMishaps /\ \A o \in Ops : Idle(o)
BootRestores ==
  (Calm /\ boot.pc \in {"first", "sleep"}) ~>
    (boot.pc = "gave up" \/ dirs \ disabled \subseteq settings.projects)

\* Every overview is answered: no probe waits for ever for the semaphore.
OverviewsAnswered == \A v \in Viewers : view[v].pc # "idle" ~> view[v].pc = "idle"

-----------------------------------------------------------------------------
(* A statement of the repository that the code does not keep. *)

\* What projects-page's "Fix All" promises (routes/project-sync.ts): it does not
\* re-add a disabled project.  The lists it posts may be older than the disable.
FixAllKeepsDisabled ==
  [][\A o \in Ops : op[o].kind = "sync" /\ settings' # settings =>
       (settings'.projects \ settings.projects) \intersect disabled = {}]_workspaceVars
=============================================================================
