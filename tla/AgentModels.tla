----------------------------- MODULE AgentModels -----------------------------
(* Applying agent models (src/admin/lib/agent-models.ts and its callers): the *)
(* routes, the center's agent-models.set, and the reconciler that the         *)
(* provider pages and the start of ai-dev run.  A model stands for a chain of *)
(* provider/model references with their variants.                             *)
EXTENDS Naturals, FiniteSets

CONSTANTS
  Agents,        \* configurable agents
  NativeAgents,  \* those that OpenCode itself resolves on the OMO line (general, plan)
  Models,        \* models of the catalog
  Unset,         \* no content
  Asked,         \* what requests ask for: an agent they do not name keeps its model
  Jobs,          \* applications under way at one time
  MaxRequests,   \* bound: requests, triggers and starts of ai-dev
  MaxFaults      \* bound: failing commands, deadlines that pass, deaths of the admin process

ASSUME AgentsAssumption == NativeAgents \subseteq Agents
ASSUME ModelsAssumption == Models \intersect {"none", "keep"} = {}
ASSUME BoundsAssumption == MaxRequests \in Nat /\ MaxFaults \in Nat
ASSUME AskedAssumption == Asked \subseteq [Agents -> Models \union {"none", "keep"}]

VARIABLES
  line,     \* "omo" (omo.jsonc) or "routing" (routing.json)
  store,    \* primary model per agent in that file
  heads,    \* the same in opencode.json
  live,     \* what the running OpenCode has loaded
  up,       \* is OpenCode up?
  staged,   \* /tmp/omo.jsonc.tmp
  lock,     \* who holds the admin process's lock; its directory outlives the process
  pending,  \* a trigger came while the lock was held
  job,      \* the jobs
  requests, faults

vars == <<line, store, heads, live, up, staged, lock, pending, job, requests, faults>>

Values == Models \union {"none"}
Configs == [Agents -> Values]
Wants == [Agents -> Values \union {"keep"}]
\* "save" is the route for one agent, "direct" the batch route and the center,
\* "sweep" the reconciler, "boot" the reconciler that ai-dev runs as it starts.
Kinds == {"save", "direct", "sweep", "boot"}
Statuses == {"verified", "cleared", "applied_with_quota_warning", "runtime_mismatch", "unverified",
             "write_failed", "restart_failed", "probe_failed", "rollback_failed", "none"}

NoJob == [pc |-> "idle", kind |-> "direct", want |-> [a \in Agents |-> "keep"],
          saved |-> Unset, todo |-> {}, res |-> [a \in Agents |-> "none"],
          expired |-> FALSE, cause |-> "none", phase |-> "idle", solo |-> FALSE]

Steps == {"idle", "read", "snapshot", "write", "install", "sync", "kill", "wait", "verify",
          "restore", "rekill", "rewait", "over"}
\* A job that writes nothing has found the file as asked for, or assumed it.
JobStates ==
  [pc : Steps, kind : Kinds, want : Wants, saved : Configs \union {Unset}, todo : SUBSET Agents,
   res : [Agents -> Statuses], expired : BOOLEAN,
   cause : {"none", "write_failed", "restart_failed", "probe_failed"},
   phase : {"idle", "found", "assumed", "open", "written", "undone"}, solo : BOOLEAN]

TypeOK ==
  /\ line \in {"omo", "routing"} /\ store \in Configs /\ heads \in Configs /\ live \in Configs
  /\ up \in BOOLEAN /\ staged \in Configs \union {Unset}
  /\ lock \in Jobs \union {"free", "due", "stale"} /\ pending \in BOOLEAN
  /\ job \in [Jobs -> JobStates]
  /\ requests \in 0..MaxRequests /\ faults \in 0..MaxFaults

Named(w) == {a \in Agents : w[a] # "keep"}
Active(j) == job[j].pc \notin {"idle", "over"}
\* The next job is kept under the first name that is free.
Free(j) == ~Active(j) /\ j = CHOOSE k \in Jobs : ~Active(k)

\* The agents whose models OpenCode takes from opencode.json.
Mirrored == IF line = "routing" THEN Agents ELSE NativeAgents
\* What OpenCode resolves when it starts.
Loaded == [a \in Agents |-> IF a \in Mirrored THEN heads[a] ELSE store[a]]
\* opencode.json as a container start or the OMO line's sync derives it.
Mirror == [a \in Agents |-> IF a \in Mirrored THEN store[a] ELSE "none"]

Init ==
  /\ line \in {"omo", "routing"}
  /\ store = [a \in Agents |-> "none"]
  /\ heads = Mirror /\ live = Loaded /\ up = TRUE /\ staged = Unset
  /\ lock = "free" /\ pending = FALSE /\ job = [j \in Jobs |-> NoJob]
  /\ requests = 0 /\ faults = 0

Fault == faults < MaxFaults /\ faults' = faults + 1
Request == requests < MaxRequests /\ requests' = requests + 1

\* A new job runs beside those that are under way, none of them alone from now
\* on; the finished ones are forgotten.
Started(j, r) ==
  job' = [k \in Jobs |->
    IF k = j THEN [r EXCEPT !.solo = \A i \in Jobs \ {j} : ~Active(i)]
    ELSE IF Active(k) THEN [job[k] EXCEPT !.solo = FALSE] ELSE NoJob]

\* resultForNoop: what the one who asked is told of a change that was not needed.
Answer(w) ==
  [a \in Agents |-> CASE w[a] = "keep" -> "none" [] w[a] = "none" -> "cleared" [] OTHER -> "verified"]
Results(w, s) == [a \in Agents |-> IF w[a] = "keep" THEN "none" ELSE s]

\* collectAgentModelState: OpenCode names the agents that can be set, and how the
\* page shows one; one whose model no request has used yet counts as effective.
Offered == IF up THEN Agents ELSE {}
Shown(a) ==
  IF store[a] = "none" THEN "plugin"
  ELSE IF ~up THEN "unverified"
  ELSE IF live[a] # store[a] THEN "runtime_mismatch" ELSE "effective"

\* PUT /api/agent-models takes no lock.
Direct(j) ==
  /\ Free(j) /\ Request
  /\ \E w \in Asked :
       /\ Named(w) # {} /\ Named(w) \subseteq Offered
       /\ Started(j, [NoJob EXCEPT !.pc = "snapshot", !.want = w])
  /\ UNCHANGED <<line, store, heads, live, up, staged, lock, pending, faults>>

\* Nor does the center's agent-models.set, for one agent.
CenterSets(j) ==
  /\ Free(j) /\ Request
  /\ \E w \in Asked :
       /\ Cardinality(Named(w)) = 1 /\ Named(w) \subseteq Offered
       /\ Started(j, [NoJob EXCEPT !.pc = "snapshot", !.want = w])
  /\ UNCHANGED <<line, store, heads, live, up, staged, lock, pending, faults>>

\* PUT /api/agent-models/:agent: withLock hands out its fallback, the result of
\* a change that was not needed, when the lock is held, and looks at no file.
Save(j) ==
  /\ Free(j) /\ Request
  /\ \E w \in Asked :
       /\ Cardinality(Named(w)) = 1 /\ Named(w) \subseteq Offered
       /\ LET r == [NoJob EXCEPT !.kind = "save", !.want = w] IN
          IF lock = "free"
          THEN lock' = j /\ Started(j, [r EXCEPT !.pc = "read"]) /\ UNCHANGED pending
          ELSE /\ pending' = TRUE /\ UNCHANGED lock
               /\ Started(j, [r EXCEPT !.pc = "over", !.phase = "assumed", !.res = Answer(w)])
  /\ UNCHANGED <<line, store, heads, live, up, staged, faults>>

\* A provider credential has changed: reconcileAll.
Trigger(j) ==
  /\ Free(j) /\ Request
  /\ IF lock = "free"
     THEN /\ lock' = j /\ pending' = FALSE
          /\ Started(j, [NoJob EXCEPT !.kind = "sweep", !.pc = "read"])
     ELSE pending' = TRUE /\ UNCHANGED <<lock, job>>
  /\ UNCHANGED <<line, store, heads, live, up, staged, faults>>

\* reconcileAll goes round again.
SweepAgain(j) ==
  /\ lock = "due" /\ Free(j)
  /\ lock' = j
  /\ Started(j, [NoJob EXCEPT !.kind = "sweep", !.pc = "read"])
  /\ UNCHANGED <<line, store, heads, live, up, staged, pending, requests, faults>>

\* ai-dev starts: opencode.json is derived anew, OpenCode comes up, and the
\* reconciler runs under a lock of that container's own.
AiDevStarts(j) ==
  /\ Free(j) /\ Request
  /\ heads' = Mirror /\ staged' \in {staged, Unset} /\ up' = TRUE
  /\ live' = [a \in Agents |-> store[a]]
  /\ \A k \in Jobs : job[k].kind = "boot" => ~Active(k)
  /\ Started(j, [NoJob EXCEPT !.kind = "boot", !.pc = "read"])
  /\ UNCHANGED <<line, store, lock, pending, faults>>

\* MUTANT: a round that ends does not look for triggers it has missed.
LoopsNever == FALSE
\* The loop condition of reconcileAll, in the turn in which the lock is released.
Loops == pending

\* The caller has its results: withLock releases the lock, reconcileAll loops.
Release(j) ==
  IF lock = j
  THEN IF job[j].kind = "sweep" /\ Loops
       THEN lock' = "due" /\ pending' = FALSE
       ELSE lock' = "free" /\ UNCHANGED pending
  ELSE UNCHANGED <<lock, pending>>

\* The end of a job: a caller whose deadline has passed has been told already.
EndAt(j, phase, results) ==
  /\ job' = [job EXCEPT ![j].pc = "over", ![j].phase = phase, ![j].todo = {}, ![j].cause = "none",
                        ![j].res = IF job[j].expired THEN @ ELSE results]
  /\ Release(j)

End(j, results) == EndAt(j, job[j].phase, results)
EndAll(j, s) == End(j, Results(job[j].want, s))

\* After an awaited command the deadline is looked at before anything else.
Proceed(j, pc) ==
  IF job[j].expired THEN EndAll(j, "unverified")
  ELSE job' = [job EXCEPT ![j].pc = pc] /\ UNCHANGED <<lock, pending>>

\* One pass of the reconciler knows one verdict per model: an agent whose model is
\* out of use, or that has none, may get one that is healthy; nobody else does.
Picked(healthy, seen) ==
  {w \in [Agents -> healthy \union {"keep"}] : \A a \in Agents : seen[a] \in healthy => w[a] = "keep"}

\* runOnce: nothing on the routing line, nor while OpenCode names no agent.
Decided(seen) ==
  IF line = "omo" /\ up THEN UNION {Picked(healthy, seen) : healthy \in SUBSET Models}
  ELSE {[a \in Agents |-> "keep"]}

\* applyAgent compares with the configuration it has seen, runOnce with what it
\* has decided; the phase says what an end without a change rests on.
Considers(j, seen, phase) ==
  \E w \in IF job[j].kind = "save" THEN {job[j].want} ELSE Decided(seen) :
    LET needed == [a \in Agents |-> IF w[a] = seen[a] THEN "keep" ELSE w[a]] IN
    IF Named(needed) = {} THEN EndAt(j, phase, Answer(job[j].want))
    ELSE /\ job' = [job EXCEPT ![j].pc = "snapshot", ![j].want = needed]
         /\ UNCHANGED <<lock, pending>>

\* readAgentModelsConfig: a reading that fails is one of an empty configuration.
Unconfigured == [a \in Agents |-> "none"]

Read(j) ==
  /\ job[j].pc = "read"
  /\ \/ Considers(j, store, "found") /\ UNCHANGED faults
     \/ Considers(j, Unconfigured, "assumed") /\ Fault
  /\ UNCHANGED <<line, store, heads, live, up, staged, requests>>

Snapshot(j) ==
  /\ job[j].pc = "snapshot"
  /\ \/ /\ ~job[j].expired
        /\ job' = [job EXCEPT ![j].saved = store, ![j].phase = "open", ![j].todo = Named(job[j].want), ![j].pc = "write"]
        /\ UNCHANGED <<lock, pending, faults>>
     \/ job[j].expired /\ Proceed(j, "write") /\ UNCHANGED faults
     \/ ~job[j].expired /\ Fault /\ EndAll(j, "write_failed")
  /\ UNCHANGED <<line, store, heads, live, up, staged, requests>>

FailsInto(j, cause) ==
  IF job[j].expired THEN EndAll(j, "unverified")
  ELSE /\ job' = [job EXCEPT ![j].pc = "restore", ![j].cause = cause]
       /\ UNCHANGED <<lock, pending>>

\* One agent at a time, in one command: jq into a file that is then moved.  The
\* routing line has a file of its own per command, the OMO line one name for all.
Next1(j) == CHOOSE a \in job[j].todo : TRUE
\* MUTANT: the command writes a table with the one agent.
EditedAlone(j) == [a \in Agents |-> IF a = Next1(j) THEN job[j].want[a] ELSE "none"]
Edited(j) == [store EXCEPT ![Next1(j)] = job[j].want[Next1(j)]]
Installed(j, content) ==
  LET rest == job[j].todo \ {Next1(j)} IN
  /\ store' = content
  /\ job' = [job EXCEPT ![j].todo = rest, ![j].phase = "written",
       ![j].pc = IF rest # {} THEN "write" ELSE "sync"]

WriteModel(j) ==
  /\ job[j].pc = "write"
  /\ \/ /\ line = "routing" /\ Installed(j, Edited(j))
        /\ UNCHANGED <<lock, pending, staged, faults>>
     \/ /\ line = "omo" /\ staged' = Edited(j)
        /\ job' = [job EXCEPT ![j].pc = "install"]
        /\ UNCHANGED <<lock, pending, store, faults>>
     \/ Fault /\ FailsInto(j, "write_failed") /\ UNCHANGED <<store, staged>>
  /\ UNCHANGED <<line, heads, live, up, requests>>

InstallModel(j) ==
  /\ job[j].pc = "install"
  /\ IF staged # Unset
     THEN Installed(j, staged) /\ staged' = Unset /\ UNCHANGED <<lock, pending>>
     ELSE FailsInto(j, "write_failed") /\ UNCHANGED <<store, staged>>
  /\ UNCHANGED <<line, heads, live, up, requests, faults>>

\* The deadline is looked at when the command has returned; then opencode.json
\* takes the changed heads, or on the OMO line all of its own.
Synced(j) ==
  IF line = "omo" THEN Mirror
  ELSE [a \in Agents |-> IF job[j].want[a] = "keep" THEN heads[a] ELSE job[j].want[a]]

Sync(j) ==
  /\ job[j].pc = "sync"
  /\ IF job[j].expired THEN EndAll(j, "unverified") /\ UNCHANGED <<heads, faults>>
     ELSE \/ heads' = Synced(j) /\ Proceed(j, "kill") /\ UNCHANGED faults
          \/ Fault /\ FailsInto(j, "write_failed") /\ UNCHANGED heads
  /\ UNCHANGED <<line, store, live, up, staged, requests>>

\* restartManagedOpenCode: without a process to kill it fails; at the start of
\* ai-dev it kills nothing.
RestartFails(j) ==
  IF job[j].pc \in {"kill", "wait"} THEN FailsInto(j, "restart_failed")
  ELSE EndAll(j, "rollback_failed")

Kill(j) ==
  /\ job[j].pc \in {"kill", "rekill"}
  /\ \/ /\ up \/ job[j].kind = "boot"
        /\ up' = (up /\ job[j].kind = "boot")
        /\ job' = [job EXCEPT ![j].pc = IF job[j].pc = "kill" THEN "wait" ELSE "rewait"]
        /\ UNCHANGED <<lock, pending, faults>>
     \/ ~up /\ job[j].kind # "boot" /\ RestartFails(j) /\ UNCHANGED <<up, faults>>
     \/ Fault /\ RestartFails(j) /\ UNCHANGED up
  /\ UNCHANGED <<line, store, heads, live, staged, requests>>

\* OpenChamber starts OpenCode again.
Lifecycle ==
  /\ ~up /\ up' = TRUE /\ live' = Loaded
  /\ UNCHANGED <<line, store, heads, staged, lock, pending, job, requests, faults>>

\* The batch that is rolled back reports the failed probe for one agent.
Blamed(j) ==
  LET failed == CHOOSE a \in Agents : job[j].res[a] = "probe_failed" IN
  [Results(job[j].want, "rollback_failed") EXCEPT ![failed] = "probe_failed"]

WaitHealthy(j) ==
  /\ job[j].pc \in {"wait", "rewait"}
  /\ \/ /\ up
        /\ IF job[j].pc = "rewait" THEN End(j, Blamed(j))
           ELSE IF job[j].expired THEN EndAll(j, "unverified")
           ELSE /\ job' = [job EXCEPT ![j].pc = "verify", ![j].todo = Named(job[j].want)]
                /\ UNCHANGED <<lock, pending>>
        /\ UNCHANGED faults
     \/ Fault /\ RestartFails(j)
  /\ UNCHANGED <<line, store, heads, live, up, staged, requests>>

\* verifyAppliedAgent: the runtime's model against the one asked for; some
\* requests (inference) ask the model itself as well.
Verdicts(j, a) ==
  {"unverified"} \union
  (CASE ~up -> {}
     [] up /\ job[j].want[a] = "none" -> {"cleared"}
     [] up /\ job[j].want[a] # "none" /\ live[a] # job[j].want[a] -> {"runtime_mismatch"}
     [] OTHER -> {"verified", "applied_with_quota_warning", "runtime_mismatch", "probe_failed"})

Verify(j) ==
  /\ job[j].pc = "verify"
  /\ \E s \in Verdicts(j, Next1(j)) :
       LET rest == job[j].todo \ {Next1(j)}
           res  == [job[j].res EXCEPT ![Next1(j)] = s]
       IN IF job[j].expired THEN EndAll(j, "unverified")
          ELSE IF rest # {} THEN job' = [job EXCEPT ![j].todo = rest, ![j].res = res]
                                 /\ UNCHANGED <<lock, pending>>
          ELSE IF \E a \in Agents : res[a] = "probe_failed"
               THEN /\ job' = [job EXCEPT ![j].todo = {}, ![j].res = res, ![j].pc = "restore",
                                          ![j].cause = "probe_failed"]
                    /\ UNCHANGED <<lock, pending>>
          ELSE End(j, res)
  /\ UNCHANGED <<line, store, heads, live, up, staged, requests, faults>>

\* MUTANT: the failed application stays.
RestoredNot(j) == store
\* restoreAgentModelsConfig puts the whole snapshot back and removes it; what
\* opencode.json has taken stays there.
Restored(j) == job[j].saved

Restore(j) ==
  /\ job[j].pc = "restore"
  /\ \/ /\ store' = Restored(j)
        /\ IF job[j].cause = "probe_failed"
           THEN /\ job' = [job EXCEPT ![j].pc = "rekill", ![j].phase = "undone"]
                /\ UNCHANGED <<lock, pending>>
           ELSE EndAt(j, "undone", Results(job[j].want, job[j].cause))
        /\ UNCHANGED faults
     \/ Fault /\ EndAll(j, "rollback_failed") /\ UNCHANGED store
  /\ UNCHANGED <<line, heads, live, up, staged, requests>>

\* The deadline of applyAndVerifyBatch: the caller gets its answer and the lock
\* is free, while the work goes on to its next look at the clock.
Expire(j) ==
  /\ Active(j) /\ job[j].pc # "read" /\ ~job[j].expired /\ Fault
  /\ job' = [job EXCEPT ![j].expired = TRUE,
                        ![j].res = Results(job[j].want, "unverified")]
  /\ Release(j)
  /\ UNCHANGED <<line, store, heads, live, up, staged, requests>>

\* The admin process dies and comes back: its jobs are gone, the directory that
\* is the lock stays.
AdminDies ==
  /\ Fault
  /\ job' = [j \in Jobs |-> IF job[j].kind = "boot" THEN job[j] ELSE NoJob]
  /\ lock' = IF lock = "free" THEN "free" ELSE "stale"
  /\ pending' = FALSE
  /\ UNCHANGED <<line, store, heads, live, up, staged, requests>>

Work(j) ==
  \/ Read(j) \/ Snapshot(j) \/ WriteModel(j) \/ InstallModel(j) \/ Sync(j) \/ Kill(j)
  \/ WaitHealthy(j) \/ Verify(j) \/ Restore(j) \/ SweepAgain(j)

Next ==
  \/ \E j \in Jobs :
       Direct(j) \/ CenterSets(j) \/ Save(j) \/ Trigger(j) \/ AiDevStarts(j) \/ Work(j) \/ Expire(j)
  \/ Lifecycle \/ AdminDies

Spec == Init /\ [][Next]_vars

\* Awaited commands return, OpenChamber restarts OpenCode.
FairSpec == Spec /\ (\A j \in Jobs : WF_vars(Work(j))) /\ WF_vars(Lifecycle)

-----------------------------------------------------------------------------
(* Properties *)

ToldOf(j) == IF job[j].pc = "over" \/ job[j].expired THEN {job[j].res[a] : a \in Agents} \ {"none"} ELSE {}

Abs == INSTANCE ModelTransaction
  WITH phase  <- [j \in Jobs |-> job[j].phase],
       before <- [j \in Jobs |-> job[j].saved],
       asked  <- [j \in Jobs |-> job[j].want],
       told   <- [j \in Jobs |-> ToldOf(j)]

\* Whatever runs beside an application - other applications, the start of
\* ai-dev, deadlines, failing commands, deaths of the admin process - its
\* answer keeps the promise of the transaction (applyAndVerifyBatch; applyAgent
\* where nothing has to be applied).
Transactional == Abs!Spec

\* Of a job that ran alone more holds: what it reports as done is in the agents'
\* file, unless it has assumed it to be there; what it has applied and reports as
\* verified is in opencode.json and in the running OpenCode as well; and an agent
\* it did not name has the model it had, as has every agent of what it took back.
SoloApply ==
  \A j \in Jobs : job[j].pc = "over" /\ job[j].solo =>
    \A a \in Agents :
      /\ job[j].res[a] \in {"verified", "cleared"} /\ job[j].phase # "assumed" =>
           store[a] = job[j].want[a]
      /\ job[j].res[a] = "verified" /\ job[j].phase = "written" =>
           Loaded[a] = store[a] /\ Shown(a) = "effective"
      /\ job[j].phase = "written" /\ job[j].want[a] = "keep" => store[a] = job[j].saved[a]
      /\ job[j].phase = "undone" => store = job[j].saved

\* A trigger that comes while a sweep holds the lock is followed by another
\* sweep, unless the admin process dies (reconcileAll's loop).
TriggersServed ==
  \A j \in Jobs : (pending /\ lock = j /\ job[j].kind = "sweep") ~> ~pending

-----------------------------------------------------------------------------
(* Statements of the repository that the code does not keep. *)

\* What openspec/specs/agent-model-reconciliation says of every trigger that
\* overlaps a run: it is retained and served.  It is not when an explicit save
\* holds the lock.
TriggersRetained == pending ~> ~pending

\* What the same document says of an explicit save: it is applied.  One that finds
\* the lock taken, or whose reading of the configuration fails, is told "verified"
\* or "cleared" and nothing is applied.
SavesApplied ==
  [][\A j \in Jobs :
       job'[j].kind = "save" /\ job'[j].pc = "over" /\ (job[j].pc # "over" \/ requests' # requests) =>
         \A a \in Agents : job'[j].res[a] \in {"verified", "cleared"} => store'[a] = job'[j].want[a]]_vars

\* And of an application that is taken back: the previous configuration and the
\* managed runtime are restored.  The agents' file is; opencode.json, and with it
\* the OpenCode that is started anew, keeps the models that were to be applied.
UndoneEverywhere ==
  \A j \in Jobs : job[j].pc = "over" /\ job[j].solo /\ job[j].phase = "undone" =>
    Loaded = store /\ (up => live = store)
=============================================================================
