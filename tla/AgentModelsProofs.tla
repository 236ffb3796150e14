-------------------------- MODULE AgentModelsProofs --------------------------
(***************************************************************************)
(* Applying agent models keeps the promise of ModelTransaction, for any     *)
(* agents, models, overlapping jobs, failing commands, missed deadlines and *)
(* deaths of the admin process.                                             *)
(*                                                                         *)
(* A step of one job maps to the action of the transaction its control      *)
(* state stands for.  Which one that is, and that its guard holds, comes    *)
(* from the invariant Consistent: a job's phase follows its control state,  *)
(* and as long as it has not told a result the ones it has gathered are     *)
(* verdicts of the verification.                                            *)
(***************************************************************************)
EXTENDS AgentModels, FiniteSetTheorems, TLAPS

Gathered == {"none", "verified", "cleared", "applied_with_quota_warning", "runtime_mismatch",
             "unverified", "probe_failed"}

\* The phase of a job in a given control state.
PhaseFits(r) ==
    /\ r.pc \in {"idle", "read", "snapshot"} => r.phase = "idle"
    /\ r.pc \in {"write", "install", "restore"} => r.phase \in {"open", "written"}
    /\ r.pc \in {"sync", "kill", "wait", "verify"} => r.phase = "written"
    /\ r.pc \in {"rekill", "rewait"} => r.phase = "undone"
    /\ r.phase \in {"open", "written", "undone"} => r.saved \in Configs

\* What it still has to do is part of what it was asked for.
WorkFits(r) ==
    /\ r.pc \notin {"idle", "read", "over"} => Named(r.want) # {}
    /\ r.pc \in {"write", "install", "verify"} => r.todo # {}
    /\ r.pc \in {"idle", "read", "snapshot"} => r.todo = {}
    /\ r.todo \subseteq Named(r.want)
    /\ r.pc = "restore" => r.cause # "none"
    /\ r.pc = "read" /\ r.kind # "save" => Named(r.want) = {}

\* What it has found out, until it tells.
ResultsFit(r) ==
    /\ r.pc \in {"idle", "read"} => ~r.expired
    /\ r.pc # "over" /\ ~r.expired => \A a \in Agents : r.res[a] \in Gathered

Consistent(r) == PhaseFits(r) /\ WorkFits(r) /\ ResultsFit(r)

\* The rest of the state: files, OpenCode, lock and bounds.
Files ==
    /\ line \in {"omo", "routing"} /\ store \in Configs /\ heads \in Configs /\ live \in Configs
    /\ up \in BOOLEAN /\ staged \in Configs \union {Unset}
Locks == lock \in Jobs \union {"free", "due", "stale"} /\ pending \in BOOLEAN
Bounds == requests \in 0..MaxRequests /\ faults \in 0..MaxFaults
Surroundings == Files /\ Locks /\ Bounds

IInv == Surroundings /\ job \in [Jobs -> JobStates] /\ \A j \in Jobs : Consistent(job[j])

-----------------------------------------------------------------------------
(* How a step of one job maps. *)

\* What a job in state r has told.
Told(r) ==
    IF r.pc = "over" \/ r.expired THEN {r.res[a] : a \in Agents} \ {"none"} ELSE {}

\* A job that goes from old to new does what one action of the transaction allows, or nothing.
Maps(old, new) ==
    \/ /\ store' = store /\ new.phase = old.phase /\ new.saved = old.saved
       /\ \/ Told(new) = Told(old)
          \/ Told(old) = {} /\ Abs!Promise(Told(new), new.phase)
    \/ /\ store' = store /\ old.phase = "idle" /\ new.phase = "open" /\ new.saved = store
       /\ Told(new) = Told(old)
    \/ /\ store' \in Configs /\ old.phase \in {"open", "written"} /\ new.phase = "written"
       /\ new.saved = old.saved /\ Told(new) = Told(old)
    \/ /\ store' = old.saved /\ old.phase \in {"open", "written"} /\ new.phase = "undone"
       /\ new.saved = old.saved
       /\ \/ Told(new) = Told(old)
          \/ Told(old) = {} /\ Abs!Promise(Told(new), new.phase)
    \/ /\ store' = store /\ old.phase = "idle" /\ new.saved = old.saved
       /\ \/ new.phase = "assumed"
          \/ /\ new.phase = "found"
             /\ \A a \in Agents : old.want[a] # "keep" => store[a] = old.want[a]
       /\ Told(old) = {} /\ Abs!Promise(Told(new), new.phase)

LEMMA ToldIsAbstract == \A j \in Jobs : ToldOf(j) = Told(job[j])
BY DEF ToldOf, Told

LEMMA ToldIsAbstractNext == \A j \in Jobs : ToldOf(j)' = Told(job'[j])
BY DEF ToldOf, Told

\* The invariant and the mapping, for a step that changes one job.
LEMMA Moves ==
    ASSUME IInv, Surroundings', NEW j \in Jobs, NEW r \in JobStates, Consistent(r),
           job' = [job EXCEPT ![j] = r], Maps(job[j], r)
    PROVE  IInv' /\ [Abs!Next]_(Abs!vars)
<1>1. IInv' BY DEF IInv
<1>2. job'[j] = r /\ \A k \in Jobs \ {j} : job'[k] = job[k] BY DEF IInv
<1> DEFINE phase == [k \in Jobs |-> job[k].phase]
           before == [k \in Jobs |-> job[k].saved]
           told == [k \in Jobs |-> ToldOf(k)]
<1>3. phase' = [phase EXCEPT ![j] = r.phase] /\ phase[j] = job[j].phase
    <2>1. \A k \in Jobs : phase'[k] = IF k = j THEN r.phase ELSE phase[k] BY <1>2
    <2>2. phase[j] = job[j].phase OBVIOUS
    <2>3. phase' = [k \in Jobs |-> phase'[k]] /\ phase = [k \in Jobs |-> phase[k]] OBVIOUS
    <2> HIDE DEF phase
    <2> QED BY <2>1, <2>2, <2>3
<1>4. before' = [before EXCEPT ![j] = r.saved] /\ before[j] = job[j].saved
    <2>1. \A k \in Jobs : before'[k] = IF k = j THEN r.saved ELSE before[k] BY <1>2
    <2>2. before[j] = job[j].saved OBVIOUS
    <2>3. before' = [k \in Jobs |-> before'[k]] /\ before = [k \in Jobs |-> before[k]] OBVIOUS
    <2> HIDE DEF before
    <2> QED BY <2>1, <2>2, <2>3
<1>5. told' = [told EXCEPT ![j] = Told(r)] /\ told'[j] = Told(r) /\ told[j] = Told(job[j])
    <2>1. \A k \in Jobs : told'[k] = IF k = j THEN Told(r) ELSE Told(job[k])
        BY <1>2, ToldIsAbstractNext
    <2>2. \A k \in Jobs : told[k] = Told(job[k]) BY ToldIsAbstract
    <2>3. told' = [k \in Jobs |-> told'[k]] /\ told = [k \in Jobs |-> told[k]] OBVIOUS
    <2> HIDE DEF told
    <2> QED BY <2>1, <2>2, <2>3
<1>6. phase'[j] = r.phase BY <1>3
<1>7. store \in Configs BY DEF IInv, Surroundings, Files
<1> HIDE DEF phase, before, told
<1>a. /\ Abs!vars = <<store, phase, before, told>>
      /\ Abs!vars' = <<store', phase', before', told'>>
    BY DEF Abs!vars, phase, before, told
<1>b. /\ Abs!Open(j) <=> /\ phase[j] = "idle" /\ phase' = [phase EXCEPT ![j] = "open"]
                         /\ before' = [before EXCEPT ![j] = store] /\ store' = store /\ told' = told
      /\ Abs!Write(j) <=> /\ phase[j] \in {"open", "written"}
                          /\ phase' = [phase EXCEPT ![j] = "written"]
                          /\ store' \in Configs /\ before' = before /\ told' = told
      /\ Abs!Tells(j) <=> /\ told[j] = {} /\ told' = [told EXCEPT ![j] = told'[j]]
                          /\ Abs!Promise(told'[j], phase'[j])
      /\ Abs!Undo(j) <=> /\ phase[j] \in {"open", "written"}
                         /\ phase' = [phase EXCEPT ![j] = "undone"]
                         /\ store' = before[j] /\ before' = before /\ (told' = told \/ Abs!Tells(j))
      /\ Abs!Tell(j) <=> Abs!Tells(j) /\ store' = store /\ phase' = phase /\ before' = before
    BY DEF Abs!Open, Abs!Write, Abs!Tells, Abs!Undo, Abs!Tell, phase, before, told
<1>f. /\ Abs!Find(j) <=> /\ phase[j] = "idle"
                         /\ \A a \in DOMAIN job[j].want :
                              job[j].want[a] # "keep" => store[a] = job[j].want[a]
                         /\ phase' = [phase EXCEPT ![j] = "found"]
                         /\ Abs!Tells(j) /\ store' = store /\ before' = before
      /\ Abs!Assume(j) <=> /\ phase[j] = "idle" /\ phase' = [phase EXCEPT ![j] = "assumed"]
                           /\ Abs!Tells(j) /\ store' = store /\ before' = before
    BY DEF Abs!Find, Abs!Assume, phase, before
<1>g. DOMAIN job[j].want = Agents BY DEF IInv, JobStates, Wants
<1>8. phase = [k \in Jobs |-> phase[k]] /\ before = [k \in Jobs |-> before[k]]
      /\ told = [k \in Jobs |-> told[k]]
    BY DEF phase, before, told
<1>9. /\ r.phase = job[j].phase => phase' = phase
      /\ r.saved = job[j].saved => before' = before
      /\ Told(r) = Told(job[j]) => told' = told
    BY <1>3, <1>4, <1>5, <1>8
<1>10. /\ Told(job[j]) = {} /\ Abs!Promise(Told(r), r.phase) => Abs!Tells(j)
    BY <1>5, <1>6, <1>b
<1>11. \/ Abs!Open(j) \/ Abs!Find(j) \/ Abs!Assume(j) \/ Abs!Write(j) \/ Abs!Undo(j)
       \/ Abs!Tell(j) \/ UNCHANGED Abs!vars
    BY <1>3, <1>4, <1>5, <1>9, <1>10, <1>a, <1>b, <1>f, <1>g DEF Maps
<1> QED BY <1>1, <1>11 DEF Abs!Next

-----------------------------------------------------------------------------
(* The steps. *)

LEMMA FaultCounts == ASSUME Bounds, requests' = requests, Fault \/ UNCHANGED faults PROVE Bounds'
BY BoundsAssumption DEF Bounds, Fault

LEMMA RequestCounts == ASSUME Bounds, faults' = faults, Request PROVE Bounds'
BY BoundsAssumption DEF Bounds, Request

LEMMA ReleaseTyped == ASSUME Locks, NEW j \in Jobs, Release(j) PROVE Locks'
BY DEF Locks, Release

\* What a job is when it has ended.
Phases == {"idle", "found", "assumed", "open", "written", "undone"}
LEMMA EndAtEnds ==
    ASSUME IInv, NEW j \in Jobs, NEW phase \in Phases, NEW results \in [Agents -> Statuses],
           EndAt(j, phase, results)
    PROVE  \E r \in JobStates :
             /\ job' = [job EXCEPT ![j] = r] /\ job'[j] = r
             /\ r.pc = "over" /\ r.phase = phase /\ r.saved = job[j].saved
             /\ r.res = (IF job[j].expired THEN job[j].res ELSE results)
             /\ r.todo = {} /\ r.want = job[j].want /\ r.expired = job[j].expired
             /\ r.solo = job[j].solo
<1> DEFINE res == IF job[j].expired THEN job[j].res ELSE results
           r == [job[j] EXCEPT !.pc = "over", !.phase = phase, !.todo = {}, !.cause = "none",
                               !.res = res]
<1>1. job[j] \in JobStates BY DEF IInv
<1>2. res \in [Agents -> Statuses] BY <1>1 DEF JobStates
<1>3. job' = [job EXCEPT ![j] = r] BY <1>1 DEF EndAt, JobStates
<1> HIDE DEF res
<1>4. r \in JobStates BY <1>1, <1>2 DEF JobStates, Steps, Phases
<1>5. /\ r.pc = "over" /\ r.phase = phase /\ r.saved = job[j].saved /\ r.res = res
      /\ r.todo = {} /\ r.want = job[j].want /\ r.expired = job[j].expired
      /\ r.solo = job[j].solo
    BY <1>1 DEF JobStates
<1> HIDE DEF r
<1>6. job'[j] = r BY <1>3 DEF IInv
<1> QED BY <1>3, <1>4, <1>5, <1>6 DEF res

\* A job that is over keeps its phase; what it tells now is what it has found.
LEMMA Ends ==
    ASSUME IInv, Files', Bounds', store' = store, NEW j \in Jobs, Active(j),
           NEW results \in [Agents -> Statuses], End(j, results),
           ~job[j].expired => Abs!Promise({results[a] : a \in Agents} \ {"none"}, job[j].phase)
    PROVE  IInv' /\ [Abs!Next]_(Abs!vars)
<1>1. job[j] \in JobStates /\ Consistent(job[j]) BY DEF IInv
<1>2. job[j].phase \in Phases BY <1>1 DEF JobStates, Phases
<1>3. PICK r \in JobStates :
        /\ job' = [job EXCEPT ![j] = r]
        /\ r.pc = "over" /\ r.phase = job[j].phase /\ r.saved = job[j].saved
        /\ r.res = (IF job[j].expired THEN job[j].res ELSE results)
        /\ r.todo = {} /\ r.want = job[j].want /\ r.expired = job[j].expired
    BY <1>2, EndAtEnds DEF End
<1>4. Consistent(r)
    BY <1>1, <1>3 DEF Consistent, PhaseFits, WorkFits, ResultsFit
<1>5. Locks' BY ReleaseTyped DEF End, EndAt, IInv, Surroundings
<1>6. Maps(job[j], r)
    <2>1. CASE job[j].expired
        <3>1. Told(r) = Told(job[j]) BY <1>3, <2>1 DEF Told
        <3> QED BY <1>3, <3>1 DEF Maps
    <2>2. CASE ~job[j].expired
        <3>1. Told(job[j]) = {} BY <2>2 DEF Told, Active
        <3>2. Told(r) = {results[a] : a \in Agents} \ {"none"} BY <1>3, <2>2 DEF Told
        <3> QED BY <1>3, <2>2, <3>1, <3>2 DEF Maps
    <2> QED BY <1>1, <2>1, <2>2 DEF JobStates
<1> QED BY <1>3, <1>4, <1>5, <1>6, Moves DEF Surroundings

LEMMA ResultsTyped ==
    ASSUME NEW w, NEW s \in Statuses
    PROVE  /\ Results(w, s) \in [Agents -> Statuses]
           /\ {Results(w, s)[a] : a \in Agents} \ {"none"} \subseteq {s}
BY DEF Results, Statuses

\* One result for all who were named, when the phase allows it.
LEMMA EndsAll ==
    ASSUME IInv, Files', Bounds', store' = store, NEW j \in Jobs, Active(j),
           NEW s \in Statuses, EndAll(j, s),
           \/ s \in {"unverified", "rollback_failed"}
           \/ s \in Abs!IsBack /\ job[j].phase = "idle"
    PROVE  IInv' /\ [Abs!Next]_(Abs!vars)
<1> DEFINE results == Results(job[j].want, s)
<1>1. results \in [Agents -> Statuses] /\ {results[a] : a \in Agents} \ {"none"} \subseteq {s}
    BY ResultsTyped
<1>2. End(j, results) BY DEF EndAll
<1> HIDE DEF results
<1>3. Abs!Promise({results[a] : a \in Agents} \ {"none"}, job[j].phase)
    BY <1>1 DEF Abs!Promise, Abs!Stands, Abs!IsBack
<1> QED BY <1>1, <1>2, <1>3, Ends

\* A job that goes on, with nothing written and nothing told.
LEMMA Continues ==
    ASSUME IInv, Files', Locks', Bounds', store' = store, NEW j \in Jobs, Active(j),
           NEW r \in JobStates, job' = [job EXCEPT ![j] = r], Consistent(r), r.pc # "over",
           r.phase = job[j].phase, r.saved = job[j].saved, r.expired = job[j].expired,
           r.res = job[j].res \/ ~r.expired
    PROVE  IInv' /\ [Abs!Next]_(Abs!vars)
<1>1. Told(r) = Told(job[j]) BY DEF Told, Active
<1>2. Maps(job[j], r) BY <1>1 DEF Maps
<1> QED BY <1>2, Moves DEF Surroundings

\* A command has failed before or after something was written.
LEMMA FailsSafe ==
    ASSUME IInv, Files', Bounds', store' = store, NEW j \in Jobs,
           job[j].pc \in {"write", "install", "sync", "kill", "wait"},
           NEW cause \in {"write_failed", "restart_failed"}, FailsInto(j, cause)
    PROVE  IInv' /\ [Abs!Next]_(Abs!vars)
<1>a. Active(j) BY DEF Active
<1>1. CASE job[j].expired
    <2>1. EndAll(j, "unverified") BY <1>1 DEF FailsInto
    <2> QED BY <1>a, <2>1, EndsAll DEF Statuses
<1>2. CASE ~job[j].expired
    <2> DEFINE r == [job[j] EXCEPT !.pc = "restore", !.cause = cause]
    <2>1. job' = [job EXCEPT ![j] = r] /\ UNCHANGED <<lock, pending>> BY <1>2 DEF FailsInto
    <2>2. job[j] \in JobStates /\ Consistent(job[j]) BY DEF IInv
    <2>3. /\ r \in JobStates /\ r.pc = "restore" /\ r.cause = cause /\ r.phase = job[j].phase
          /\ r.saved = job[j].saved /\ r.todo = job[j].todo /\ r.want = job[j].want
          /\ r.expired = job[j].expired /\ r.res = job[j].res
        BY <2>2 DEF JobStates, Steps
    <2> HIDE DEF r
    <2>4. Consistent(r) BY <2>2, <2>3 DEF Consistent, PhaseFits, WorkFits, ResultsFit
    <2>5. Locks' BY <2>1 DEF Locks, IInv, Surroundings
    <2> QED BY <1>a, <2>1, <2>3, <2>4, <2>5, Continues
<1> QED BY <1>1, <1>2, <1>a DEF IInv, JobStates

\* What the reconciler decides on, and what a request asks for, is a wish.
LEMMA DecidedTyped == ASSUME NEW seen PROVE Decided(seen) \subseteq Wants
BY DEF Decided, Picked, Wants, Values

\* Comparing ends the job, when everything it was asked for has been seen, or gives it work.
LEMMA Considered ==
    ASSUME IInv, NEW j \in Jobs, job[j].pc = "read", NEW seen \in Configs, NEW phase,
           Considers(j, seen, phase)
    PROVE  \/ /\ EndAt(j, phase, Answer(job[j].want))
              /\ \A a \in Agents : job[j].want[a] # "keep" => seen[a] = job[j].want[a]
           \/ \E needed \in Wants :
                /\ Named(needed) # {}
                /\ job' = [job EXCEPT ![j].pc = "snapshot", ![j].want = needed]
                /\ UNCHANGED <<lock, pending>>
<1>c. job[j] \in JobStates /\ Consistent(job[j]) BY DEF IInv
<1>1. PICK w \in IF job[j].kind = "save" THEN {job[j].want} ELSE Decided(seen) :
        LET needed == [a \in Agents |-> IF w[a] = seen[a] THEN "keep" ELSE w[a]] IN
        IF Named(needed) = {} THEN EndAt(j, phase, Answer(job[j].want))
        ELSE /\ job' = [job EXCEPT ![j].pc = "snapshot", ![j].want = needed]
             /\ UNCHANGED <<lock, pending>>
    BY DEF Considers
<1> DEFINE needed == [a \in Agents |-> IF w[a] = seen[a] THEN "keep" ELSE w[a]]
<1>2. w \in Wants BY <1>1, <1>c, DecidedTyped DEF JobStates
<1>3. needed \in Wants BY <1>2 DEF Wants
<1>4. CASE Named(needed) = {}
    <2>1. \A a \in Agents : w[a] # "keep" => seen[a] = w[a] BY <1>4 DEF Named
    <2>2. CASE job[j].kind = "save" BY <1>1, <1>4, <2>1, <2>2
    <2>3. CASE job[j].kind # "save"
        <3>1. \A a \in Agents : job[j].want[a] = "keep"
            BY <1>c, <2>3 DEF Consistent, WorkFits, Named
        <3> QED BY <1>1, <1>4, <3>1
    <2> QED BY <2>2, <2>3
<1>5. CASE Named(needed) # {} BY <1>1, <1>3, <1>5
<1> QED BY <1>4, <1>5

LEMMA AnswerTyped ==
    ASSUME NEW w
    PROVE  /\ Answer(w) \in [Agents -> Statuses]
           /\ {Answer(w)[a] : a \in Agents} \ {"none"} \subseteq {"verified", "cleared"}
BY DEF Answer, Statuses

LEMMA AnswerPromises ==
    ASSUME NEW w, NEW phase \in {"found", "assumed"}
    PROVE  Abs!Promise({Answer(w)[a] : a \in Agents} \ {"none"}, phase)
<1> DEFINE told == {Answer(w)[a] : a \in Agents} \ {"none"}
<1>1. told \subseteq {"verified", "cleared"} BY AnswerTyped
<1> HIDE DEF told
<1>2. Abs!Promise(told, phase) BY <1>1 DEF Abs!Promise, Abs!Stands, Abs!IsBack
<1> QED BY <1>2 DEF told

\* A job that has nothing to do answers as if it had done it.
LEMMA AnswersSafe ==
    ASSUME IInv, Files', Bounds', store' = store, NEW j \in Jobs, job[j].pc = "read",
           NEW phase \in {"found", "assumed"}, EndAt(j, phase, Answer(job[j].want)),
           phase = "found" =>
             \A a \in Agents : job[j].want[a] # "keep" => store[a] = job[j].want[a]
    PROVE  IInv' /\ [Abs!Next]_(Abs!vars)
<1> DEFINE results == Answer(job[j].want)
<1>1. job[j] \in JobStates /\ Consistent(job[j]) BY DEF IInv
<1>2. EndAt(j, phase, results) OBVIOUS
<1>3. results \in [Agents -> Statuses] BY AnswerTyped
<1>4. Abs!Promise({results[a] : a \in Agents} \ {"none"}, phase) BY AnswerPromises
<1> HIDE DEF results
<1>5. ~job[j].expired /\ job[j].phase = "idle"
    BY <1>1 DEF Consistent, PhaseFits, ResultsFit
<1>6. PICK r \in JobStates :
        /\ job' = [job EXCEPT ![j] = r]
        /\ r.pc = "over" /\ r.phase = phase /\ r.saved = job[j].saved
        /\ r.res = results /\ r.todo = {} /\ r.want = job[j].want /\ ~r.expired
    BY <1>2, <1>3, <1>5, EndAtEnds DEF Phases
<1>7. Consistent(r) BY <1>6 DEF Consistent, PhaseFits, WorkFits, ResultsFit
<1>8. Locks' BY ReleaseTyped DEF EndAt, IInv, Surroundings
<1>9. Told(job[j]) = {} /\ Told(r) = {results[a] : a \in Agents} \ {"none"}
    BY <1>5, <1>6 DEF Told
<1>10. Maps(job[j], r) BY <1>4, <1>5, <1>6, <1>9 DEF Maps
<1> QED BY <1>6, <1>7, <1>8, <1>10, Moves DEF Surroundings

LEMMA ReadSafe == ASSUME IInv, NEW j \in Jobs, Read(j) PROVE IInv' /\ [Abs!Next]_(Abs!vars)
<1>a. Active(j) /\ job[j].pc = "read" BY DEF Read, Active
<1>b. Files' /\ Bounds' /\ store' = store
    BY FaultCounts DEF Read, IInv, Surroundings, Files
<1>c. job[j] \in JobStates /\ Consistent(job[j]) BY DEF IInv
<1>1. PICK seen \in Configs, phase \in {"found", "assumed"} :
        Considers(j, seen, phase) /\ (phase = "found" => seen = store)
    <2>1. store \in Configs /\ Unconfigured \in Configs
        BY DEF IInv, Surroundings, Files, Unconfigured, Configs, Values
    <2> QED BY <2>1 DEF Read
<1>2. CASE /\ EndAt(j, phase, Answer(job[j].want))
           /\ \A a \in Agents : job[j].want[a] # "keep" => seen[a] = job[j].want[a]
    BY <1>1, <1>2, <1>a, <1>b, AnswersSafe
<1>3. ASSUME NEW needed \in Wants, Named(needed) # {},
             job' = [job EXCEPT ![j].pc = "snapshot", ![j].want = needed],
             UNCHANGED <<lock, pending>>
      PROVE  IInv' /\ [Abs!Next]_(Abs!vars)
    <2> DEFINE r == [job[j] EXCEPT !.pc = "snapshot", !.want = needed]
    <2>1. job' = [job EXCEPT ![j] = r] BY <1>3
    <2>2. /\ r \in JobStates /\ r.pc = "snapshot" /\ r.want = needed /\ r.phase = job[j].phase
          /\ r.saved = job[j].saved /\ r.todo = job[j].todo
          /\ r.expired = job[j].expired /\ r.res = job[j].res
        BY <1>3, <1>c DEF JobStates, Steps
    <2> HIDE DEF r
    <2>3. Consistent(r)
        BY <1>a, <1>c, <1>3, <2>2 DEF Consistent, PhaseFits, WorkFits, ResultsFit
    <2>4. Locks' BY <1>3 DEF Locks, IInv, Surroundings
    <2> QED BY <1>a, <1>b, <2>1, <2>2, <2>3, <2>4, Continues
<1> QED BY <1>1, <1>2, <1>3, <1>a, Considered

LEMMA SnapshotSafe ==
    ASSUME IInv, NEW j \in Jobs, Snapshot(j) PROVE IInv' /\ [Abs!Next]_(Abs!vars)
<1>a. Active(j) /\ job[j].pc = "snapshot" BY DEF Snapshot, Active
<1>b. Files' /\ Bounds' /\ store' = store
    BY FaultCounts DEF Snapshot, IInv, Surroundings, Files
<1>c. job[j] \in JobStates /\ Consistent(job[j]) BY DEF IInv
<1>d. job[j].phase = "idle" BY <1>a, <1>c DEF Consistent, PhaseFits
<1>1. CASE /\ ~job[j].expired
           /\ job' = [job EXCEPT ![j].saved = store, ![j].phase = "open",
                                 ![j].todo = Named(job[j].want), ![j].pc = "write"]
           /\ UNCHANGED <<lock, pending>>
    <2> DEFINE r == [job[j] EXCEPT !.saved = store, !.phase = "open",
                                   !.todo = Named(job[j].want), !.pc = "write"]
    <2>1. job' = [job EXCEPT ![j] = r] BY <1>1
    <2>2. store \in Configs /\ Named(job[j].want) \subseteq Agents
        BY DEF IInv, Surroundings, Files, Named
    <2>3. /\ r \in JobStates /\ r.pc = "write" /\ r.want = job[j].want /\ r.phase = "open"
          /\ r.saved = store /\ r.todo = Named(job[j].want)
          /\ r.expired = job[j].expired /\ r.res = job[j].res
        BY <1>c, <2>2 DEF JobStates, Steps
    <2> HIDE DEF r
    <2>4. Consistent(r)
        BY <1>a, <1>c, <2>2, <2>3 DEF Consistent, PhaseFits, WorkFits, ResultsFit
    <2>5. Locks' BY <1>1 DEF Locks, IInv, Surroundings
    <2>6. Told(r) = Told(job[j]) BY <1>a, <2>3 DEF Told
    <2>7. Maps(job[j], r) BY <1>b, <1>d, <2>3, <2>6 DEF Maps
    <2> QED BY <1>b, <2>1, <2>3, <2>4, <2>5, <2>7, Moves DEF Surroundings
<1>2. CASE job[j].expired /\ Proceed(j, "write")
    <2>1. EndAll(j, "unverified") BY <1>2 DEF Proceed
    <2> QED BY <1>a, <1>b, <2>1, EndsAll DEF Statuses
<1>3. CASE EndAll(j, "write_failed")
    BY <1>3, <1>a, <1>b, <1>d, EndsAll DEF Statuses, Abs!IsBack
<1> QED BY <1>1, <1>2, <1>3 DEF Snapshot

LEMMA NextOne == ASSUME NEW j, job[j].todo # {} PROVE Next1(j) \in job[j].todo
BY DEF Next1

\* A model goes into the file: the job has written.
LEMMA InstalledSafe ==
    ASSUME IInv, Files', Locks', Bounds', NEW j \in Jobs, job[j].pc \in {"write", "install"},
           NEW content \in Configs, Installed(j, content)
    PROVE  IInv' /\ [Abs!Next]_(Abs!vars)
<1>c. job[j] \in JobStates /\ Consistent(job[j]) BY DEF IInv
<1> DEFINE rest == job[j].todo \ {Next1(j)}
           r == [job[j] EXCEPT !.todo = rest, !.phase = "written",
                               !.pc = IF rest # {} THEN "write" ELSE "sync"]
<1>1. store' = content /\ job' = [job EXCEPT ![j] = r] BY DEF Installed
<1>2. /\ r \in JobStates /\ r.pc = (IF rest # {} THEN "write" ELSE "sync")
      /\ r.want = job[j].want /\ r.phase = "written" /\ r.saved = job[j].saved
      /\ r.todo = rest /\ r.expired = job[j].expired /\ r.res = job[j].res
    BY <1>c DEF JobStates, Steps
<1>3. rest \subseteq job[j].todo OBVIOUS
<1> HIDE DEF r, rest
<1>4. Consistent(r) BY <1>c, <1>2, <1>3 DEF Consistent, PhaseFits, WorkFits, ResultsFit
<1>5. Told(r) = Told(job[j]) BY <1>2 DEF Told
<1>6. Maps(job[j], r) BY <1>1, <1>2, <1>c, <1>5 DEF Maps, Consistent, PhaseFits
<1> QED BY <1>1, <1>2, <1>4, <1>6, Moves DEF Surroundings

LEMMA EditedTyped ==
    ASSUME IInv, NEW j \in Jobs, job[j].pc = "write" PROVE Edited(j) \in Configs
<1>1. job[j].todo \subseteq Named(job[j].want) /\ job[j].todo # {} /\ job[j].want \in Wants
    BY DEF IInv, Consistent, WorkFits, JobStates
<1>2. Next1(j) \in Named(job[j].want) BY <1>1, NextOne
<1>3. Next1(j) \in Agents /\ job[j].want[Next1(j)] \in Values BY <1>1, <1>2 DEF Named, Wants
<1>4. store \in Configs BY DEF IInv, Surroundings, Files
<1> QED BY <1>3, <1>4 DEF Edited, Configs

LEMMA WriteModelSafe ==
    ASSUME IInv, NEW j \in Jobs, WriteModel(j) PROVE IInv' /\ [Abs!Next]_(Abs!vars)
<1>a. Active(j) /\ job[j].pc = "write" BY DEF WriteModel, Active
<1>b. Files /\ Locks /\ Bounds' BY FaultCounts DEF WriteModel, IInv, Surroundings
<1>c. job[j] \in JobStates /\ Consistent(job[j]) BY DEF IInv
<1>d. Edited(j) \in Configs BY <1>a, EditedTyped
<1>1. CASE Installed(j, Edited(j)) /\ UNCHANGED <<lock, pending, staged>>
    <2>1. store' = Edited(j) BY <1>1 DEF Installed
    <2>2. Files' /\ Locks' BY <1>1, <1>b, <1>d, <2>1 DEF WriteModel, Files, Locks
    <2> QED BY <1>1, <1>a, <1>b, <1>d, <2>2, InstalledSafe
<1>2. CASE /\ staged' = Edited(j) /\ job' = [job EXCEPT ![j].pc = "install"]
           /\ UNCHANGED <<lock, pending, store>>
    <2> DEFINE r == [job[j] EXCEPT !.pc = "install"]
    <2>1. job' = [job EXCEPT ![j] = r] BY <1>2
    <2>2. Files' /\ Locks' BY <1>2, <1>b, <1>d DEF WriteModel, Files, Locks
    <2>3. /\ r \in JobStates /\ r.pc = "install" /\ r.want = job[j].want
          /\ r.phase = job[j].phase /\ r.saved = job[j].saved /\ r.todo = job[j].todo
          /\ r.expired = job[j].expired /\ r.res = job[j].res
        BY <1>c DEF JobStates, Steps
    <2> HIDE DEF r
    <2>4. Consistent(r) BY <1>a, <1>c, <2>3 DEF Consistent, PhaseFits, WorkFits, ResultsFit
    <2> QED BY <1>2, <1>a, <1>b, <2>1, <2>2, <2>3, <2>4, Continues
<1>3. CASE FailsInto(j, "write_failed") /\ UNCHANGED <<store, staged>>
    <2>1. Files' BY <1>3, <1>b DEF WriteModel, Files
    <2> QED BY <1>3, <1>a, <1>b, <2>1, FailsSafe
<1> QED BY <1>1, <1>2, <1>3 DEF WriteModel

LEMMA InstallModelSafe ==
    ASSUME IInv, NEW j \in Jobs, InstallModel(j) PROVE IInv' /\ [Abs!Next]_(Abs!vars)
<1>a. job[j].pc = "install" BY DEF InstallModel
<1>b. Files /\ Locks /\ Bounds' BY DEF InstallModel, IInv, Surroundings, Bounds
<1>1. CASE /\ staged # Unset /\ Installed(j, staged) /\ staged' = Unset
           /\ UNCHANGED <<lock, pending>>
    <2>1. staged \in Configs BY <1>1, <1>b DEF Files
    <2>2. Files' /\ Locks' BY <1>1, <1>b, <2>1 DEF InstallModel, Installed, Files, Locks
    <2> QED BY <1>1, <1>a, <1>b, <2>1, <2>2, InstalledSafe
<1>2. CASE FailsInto(j, "write_failed") /\ UNCHANGED <<store, staged>>
    <2>1. Files' BY <1>2, <1>b DEF InstallModel, Files
    <2> QED BY <1>2, <1>a, <1>b, <2>1, FailsSafe
<1> QED BY <1>1, <1>2 DEF InstallModel

\* opencode.json takes models that the files or the request hold.
LEMMA MirrorTyped == ASSUME Files PROVE Mirror \in Configs /\ Loaded \in Configs
BY DEF Files, Mirror, Loaded, Configs, Values

LEMMA SyncSafe == ASSUME IInv, NEW j \in Jobs, Sync(j) PROVE IInv' /\ [Abs!Next]_(Abs!vars)
<1>a. Active(j) /\ job[j].pc = "sync" /\ store' = store BY DEF Sync, Active
<1>b. Files /\ Locks /\ Bounds' BY FaultCounts DEF Sync, IInv, Surroundings
<1>c. job[j] \in JobStates /\ Consistent(job[j]) BY DEF IInv
<1>d. Synced(j) \in Configs
    <2>1. job[j].want \in Wants BY <1>c DEF JobStates
    <2> QED BY <1>b, <2>1, MirrorTyped DEF Synced, Files, Configs, Wants
<1>e. Files'
    <2>1. heads' \in Configs BY <1>b, <1>d DEF Sync, Files
    <2> QED BY <1>b, <2>1 DEF Sync, Files
<1>1. CASE EndAll(j, "unverified")
    BY <1>1, <1>a, <1>b, <1>e, EndsAll DEF Statuses
<1>2. CASE Proceed(j, "kill") /\ ~job[j].expired
    <2> DEFINE r == [job[j] EXCEPT !.pc = "kill"]
    <2>1. job' = [job EXCEPT ![j] = r] /\ UNCHANGED <<lock, pending>> BY <1>2 DEF Proceed
    <2>2. /\ r \in JobStates /\ r.pc = "kill" /\ r.want = job[j].want
          /\ r.phase = job[j].phase /\ r.saved = job[j].saved /\ r.todo = job[j].todo
          /\ r.expired = job[j].expired /\ r.res = job[j].res
        BY <1>c DEF JobStates, Steps
    <2> HIDE DEF r
    <2>3. Consistent(r) BY <1>a, <1>c, <2>2 DEF Consistent, PhaseFits, WorkFits, ResultsFit
    <2>4. Locks' BY <1>b, <2>1 DEF Locks
    <2> QED BY <1>a, <1>b, <1>e, <2>1, <2>2, <2>3, <2>4, Continues
<1>3. CASE FailsInto(j, "write_failed")
    BY <1>3, <1>a, <1>b, <1>e, FailsSafe
<1> QED BY <1>1, <1>2, <1>3 DEF Sync

\* A restart that fails is rolled back, or ends the rollback.
LEMMA RestartFailsSafe ==
    ASSUME IInv, Files', Bounds', store' = store, NEW j \in Jobs,
           job[j].pc \in {"kill", "wait", "rekill", "rewait"}, RestartFails(j)
    PROVE  IInv' /\ [Abs!Next]_(Abs!vars)
<1>a. Active(j) BY DEF Active
<1>1. CASE job[j].pc \in {"kill", "wait"} BY <1>1, FailsSafe DEF RestartFails
<1>2. CASE job[j].pc \notin {"kill", "wait"} BY <1>2, <1>a, EndsAll DEF RestartFails, Statuses
<1> QED BY <1>1, <1>2

LEMMA KillSafe == ASSUME IInv, NEW j \in Jobs, Kill(j) PROVE IInv' /\ [Abs!Next]_(Abs!vars)
<1>a. Active(j) /\ job[j].pc \in {"kill", "rekill"} /\ store' = store BY DEF Kill, Active
<1>b. Files /\ Locks /\ Bounds' BY FaultCounts DEF Kill, IInv, Surroundings
<1>c. job[j] \in JobStates /\ Consistent(job[j]) BY DEF IInv
<1>e. Files'
    <2>1. up' \in BOOLEAN BY <1>b DEF Kill, Files
    <2> QED BY <1>b, <2>1 DEF Kill, Files
<1>1. CASE /\ job' = [job EXCEPT ![j].pc = IF job[j].pc = "kill" THEN "wait" ELSE "rewait"]
           /\ UNCHANGED <<lock, pending>>
    <2> DEFINE r == [job[j] EXCEPT !.pc = IF job[j].pc = "kill" THEN "wait" ELSE "rewait"]
    <2>1. job' = [job EXCEPT ![j] = r] BY <1>1
    <2>2. /\ r \in JobStates /\ r.pc = (IF job[j].pc = "kill" THEN "wait" ELSE "rewait")
          /\ r.want = job[j].want
          /\ r.phase = job[j].phase /\ r.saved = job[j].saved /\ r.todo = job[j].todo
          /\ r.expired = job[j].expired /\ r.res = job[j].res
        BY <1>c DEF JobStates, Steps
    <2> HIDE DEF r
    <2>3. Consistent(r) BY <1>a, <1>c, <2>2 DEF Consistent, PhaseFits, WorkFits, ResultsFit
    <2>4. Locks' BY <1>1, <1>b DEF Locks
    <2>5. r.pc # "over" BY <2>2
    <2> QED BY <1>a, <1>b, <1>e, <2>1, <2>2, <2>3, <2>4, <2>5, Continues
<1>2. CASE RestartFails(j) BY <1>2, <1>a, <1>b, <1>e, RestartFailsSafe
<1> QED BY <1>1, <1>2 DEF Kill

\* The batch that was rolled back tells of a failed probe and of nothing that stands.
LEMMA BlamedTyped ==
    ASSUME NEW j
    PROVE  /\ Blamed(j) \in [Agents -> Statuses]
           /\ {Blamed(j)[a] : a \in Agents} \ {"none"} \subseteq {"rollback_failed", "probe_failed"}
<1> DEFINE failed == CHOOSE a \in Agents : job[j].res[a] = "probe_failed"
           results == Results(job[j].want, "rollback_failed")
<1>1. /\ results \in [Agents -> Statuses]
      /\ \A a \in Agents : results[a] \in {"none", "rollback_failed"}
    BY DEF Results, Statuses
<1>2. Blamed(j) = [results EXCEPT ![failed] = "probe_failed"] BY DEF Blamed
<1> HIDE DEF failed, results
<1>3. \A a \in Agents : Blamed(j)[a] \in {"none", "rollback_failed", "probe_failed"} BY <1>1, <1>2
<1>4. Blamed(j) \in [Agents -> Statuses] BY <1>1, <1>2 DEF Statuses
<1> QED BY <1>3, <1>4

LEMMA WaitHealthySafe ==
    ASSUME IInv, NEW j \in Jobs, WaitHealthy(j) PROVE IInv' /\ [Abs!Next]_(Abs!vars)
<1>a. Active(j) /\ job[j].pc \in {"wait", "rewait"} /\ store' = store BY DEF WaitHealthy, Active
<1>b. Files' /\ Locks /\ Bounds' BY FaultCounts DEF WaitHealthy, IInv, Surroundings, Files
<1>c. job[j] \in JobStates /\ Consistent(job[j]) BY DEF IInv
<1>1. CASE job[j].pc = "rewait" /\ End(j, Blamed(j))
    <2>1. job[j].phase = "undone" BY <1>1, <1>c DEF Consistent, PhaseFits
    <2>2. Blamed(j) \in [Agents -> Statuses] BY BlamedTyped
    <2>3. Abs!Promise({Blamed(j)[a] : a \in Agents} \ {"none"}, job[j].phase)
        BY <2>1, BlamedTyped DEF Abs!Promise, Abs!Stands, Abs!IsBack
    <2> HIDE DEF Blamed
    <2> QED BY <1>1, <1>a, <1>b, <2>2, <2>3, Ends
<1>2. CASE EndAll(j, "unverified") BY <1>2, <1>a, <1>b, EndsAll DEF Statuses
<1>3. CASE /\ job[j].pc = "wait"
           /\ job' = [job EXCEPT ![j].pc = "verify", ![j].todo = Named(job[j].want)]
           /\ UNCHANGED <<lock, pending>>
    <2> DEFINE r == [job[j] EXCEPT !.pc = "verify", !.todo = Named(job[j].want)]
    <2>1. job' = [job EXCEPT ![j] = r] BY <1>3
    <2>2. /\ r \in JobStates /\ r.pc = "verify" /\ r.todo = Named(job[j].want)
          /\ r.want = job[j].want /\ r.phase = job[j].phase /\ r.saved = job[j].saved
          /\ r.expired = job[j].expired /\ r.res = job[j].res
        BY <1>c DEF JobStates, Steps, Named
    <2> HIDE DEF r
    <2>3. Consistent(r) BY <1>3, <1>c, <2>2 DEF Consistent, PhaseFits, WorkFits, ResultsFit
    <2>4. Locks' BY <1>3, <1>b DEF Locks
    <2> QED BY <1>a, <1>b, <2>1, <2>2, <2>3, <2>4, Continues
<1>4. CASE RestartFails(j) BY <1>4, <1>a, <1>b, RestartFailsSafe
<1> QED BY <1>a, <1>1, <1>2, <1>3, <1>4 DEF WaitHealthy

LEMMA VerdictsGathered == ASSUME NEW j, NEW a PROVE Verdicts(j, a) \subseteq Gathered
BY DEF Verdicts, Gathered

LEMMA VerifySafe == ASSUME IInv, NEW j \in Jobs, Verify(j) PROVE IInv' /\ [Abs!Next]_(Abs!vars)
<1>a. Active(j) /\ job[j].pc = "verify" /\ store' = store BY DEF Verify, Active
<1>b. Files' /\ Locks /\ Bounds' BY DEF Verify, IInv, Surroundings, Files, Bounds
<1>c. job[j] \in JobStates /\ Consistent(job[j]) BY DEF IInv
<1>1. PICK s \in Verdicts(j, Next1(j)) :
        LET rest == job[j].todo \ {Next1(j)}
            res  == [job[j].res EXCEPT ![Next1(j)] = s]
        IN IF job[j].expired THEN EndAll(j, "unverified")
           ELSE IF rest # {} THEN job' = [job EXCEPT ![j].todo = rest, ![j].res = res]
                                  /\ UNCHANGED <<lock, pending>>
           ELSE IF \E a \in Agents : res[a] = "probe_failed"
                THEN /\ job' = [job EXCEPT ![j].todo = {}, ![j].res = res, ![j].pc = "restore",
                                           ![j].cause = "probe_failed"]
                     /\ UNCHANGED <<lock, pending>>
           ELSE End(j, res)
    BY DEF Verify
<1> DEFINE rest == job[j].todo \ {Next1(j)}
           res  == [job[j].res EXCEPT ![Next1(j)] = s]
<1>2. s \in Gathered BY VerdictsGathered
<1>3. job[j].res \in [Agents -> Statuses] BY <1>c DEF JobStates
<1>4. res \in [Agents -> Statuses] BY <1>2, <1>3 DEF Gathered, Statuses
<1>5. ~job[j].expired => \A a \in Agents : res[a] \in Gathered
    BY <1>2, <1>3, <1>a, <1>c DEF Consistent, ResultsFit
<1>6. rest \subseteq job[j].todo OBVIOUS
<1>7. CASE job[j].expired
    BY <1>1, <1>7, <1>a, <1>b, EndsAll DEF Statuses
<1> HIDE DEF rest, res
<1>8. CASE /\ ~job[j].expired /\ rest # {} /\ UNCHANGED <<lock, pending>>
           /\ job' = [job EXCEPT ![j].todo = rest, ![j].res = res]
    <2> DEFINE r == [job[j] EXCEPT !.todo = rest, !.res = res]
    <2>1. job' = [job EXCEPT ![j] = r] BY <1>8
    <2>2. /\ r \in JobStates /\ r.pc = job[j].pc /\ r.todo = rest /\ r.cause = job[j].cause
          /\ r.want = job[j].want /\ r.phase = job[j].phase /\ r.saved = job[j].saved
          /\ r.expired = job[j].expired /\ r.res = res
        BY <1>c, <1>4, <1>6 DEF JobStates
    <2> HIDE DEF r
    <2>3. Consistent(r)
        BY <1>8, <1>a, <1>c, <1>5, <1>6, <2>2 DEF Consistent, PhaseFits, WorkFits, ResultsFit
    <2>4. Locks' BY <1>8, <1>b DEF Locks
    <2> QED BY <1>8, <1>a, <1>b, <2>1, <2>2, <2>3, <2>4, Continues
<1>9. CASE /\ ~job[j].expired /\ UNCHANGED <<lock, pending>>
           /\ job' = [job EXCEPT ![j].todo = {}, ![j].res = res, ![j].pc = "restore",
                                 ![j].cause = "probe_failed"]
    <2> DEFINE r == [job[j] EXCEPT !.todo = {}, !.res = res, !.pc = "restore",
                                   !.cause = "probe_failed"]
    <2>1. job' = [job EXCEPT ![j] = r] BY <1>9
    <2>2. /\ r \in JobStates /\ r.pc = "restore" /\ r.todo = {} /\ r.cause = "probe_failed"
          /\ r.want = job[j].want /\ r.phase = job[j].phase /\ r.saved = job[j].saved
          /\ r.expired = job[j].expired /\ r.res = res
        BY <1>c, <1>4 DEF JobStates, Steps
    <2> HIDE DEF r
    <2>3. Consistent(r)
        BY <1>a, <1>c, <1>5, <2>2 DEF Consistent, PhaseFits, WorkFits, ResultsFit
    <2>4. Locks' BY <1>9, <1>b DEF Locks
    <2> QED BY <1>9, <1>a, <1>b, <2>1, <2>2, <2>3, <2>4, Continues
<1>10. CASE ~job[j].expired /\ ~(\E a \in Agents : res[a] = "probe_failed") /\ End(j, res)
    <2>1. job[j].phase = "written" BY <1>a, <1>c DEF Consistent, PhaseFits
    <2>2. {res[a] : a \in Agents} \ {"none"} \subseteq Gathered \ {"none", "probe_failed"}
        BY <1>5, <1>10
    <2>3. Abs!Promise({res[a] : a \in Agents} \ {"none"}, job[j].phase)
        BY <2>1, <2>2 DEF Gathered, Abs!Promise, Abs!Stands, Abs!IsBack
    <2> QED BY <1>a, <1>b, <1>4, <1>10, <2>3, Ends
<1> QED BY <1>1, <1>7, <1>8, <1>9, <1>10 DEF rest, res

\* What was saved comes back, and the caller hears of it when nothing more is to do.
LEMMA RestoreSafe == ASSUME IInv, NEW j \in Jobs, Restore(j) PROVE IInv' /\ [Abs!Next]_(Abs!vars)
<1>a. Active(j) /\ job[j].pc = "restore" BY DEF Restore, Active
<1>b. Files /\ Locks /\ Bounds' BY FaultCounts DEF Restore, IInv, Surroundings
<1>c. job[j] \in JobStates /\ Consistent(job[j]) BY DEF IInv
<1>d. /\ job[j].saved \in Configs /\ job[j].phase \in {"open", "written"}
      /\ job[j].cause \in Abs!IsBack /\ job[j].cause \in Statuses
    BY <1>a, <1>c DEF Consistent, PhaseFits, WorkFits, JobStates, Abs!IsBack, Statuses
<1>1. CASE /\ store' = Restored(j) /\ UNCHANGED <<lock, pending>>
           /\ job' = [job EXCEPT ![j].pc = "rekill", ![j].phase = "undone"]
    <2> DEFINE r == [job[j] EXCEPT !.pc = "rekill", !.phase = "undone"]
    <2>1. job' = [job EXCEPT ![j] = r] BY <1>1
    <2>2. /\ r \in JobStates /\ r.pc = "rekill" /\ r.phase = "undone" /\ r.saved = job[j].saved
          /\ r.todo = job[j].todo /\ r.want = job[j].want
          /\ r.expired = job[j].expired /\ r.res = job[j].res
        BY <1>c DEF JobStates, Steps
    <2> HIDE DEF r
    <2>3. Consistent(r) BY <1>a, <1>c, <1>d, <2>2 DEF Consistent, PhaseFits, WorkFits, ResultsFit
    <2>4. Files' /\ Locks' BY <1>1, <1>b, <1>d DEF Restore, Restored, Files, Locks
    <2>5. Told(r) = Told(job[j]) BY <1>a, <2>2 DEF Told
    <2>6. Maps(job[j], r) BY <1>1, <1>d, <2>2, <2>5 DEF Maps, Restored
    <2> QED BY <1>b, <2>1, <2>2, <2>3, <2>4, <2>6, Moves DEF Surroundings
<1>2. CASE store' = Restored(j) /\ EndAt(j, "undone", Results(job[j].want, job[j].cause))
    <2> DEFINE results == Results(job[j].want, job[j].cause)
    <2>1. /\ results \in [Agents -> Statuses]
          /\ {results[a] : a \in Agents} \ {"none"} \subseteq {job[j].cause}
        BY SMTT(30), <1>d, ResultsTyped
    <2>2. EndAt(j, "undone", results) /\ Release(j) BY <1>2 DEF EndAt
    <2> HIDE DEF results
    <2>3. PICK r \in JobStates :
            /\ job' = [job EXCEPT ![j] = r]
            /\ r.pc = "over" /\ r.phase = "undone" /\ r.saved = job[j].saved
            /\ r.res = (IF job[j].expired THEN job[j].res ELSE results)
            /\ r.todo = {} /\ r.expired = job[j].expired
        BY <2>1, <2>2, EndAtEnds DEF Phases
    <2>4. Consistent(r) BY <1>d, <2>3 DEF Consistent, PhaseFits, WorkFits, ResultsFit
    <2>5. Files' BY <1>2, <1>b, <1>d DEF Restore, Restored, Files
    <2>6. Locks' BY <2>2, <1>b, ReleaseTyped
    <2>7. CASE job[j].expired
        <3>1. Told(r) = Told(job[j]) BY <2>3, <2>7 DEF Told
        <3>2. Maps(job[j], r) BY <1>2, <1>d, <2>3, <3>1 DEF Maps, Restored
        <3> QED BY <1>b, <2>2, <2>3, <2>4, <2>5, <2>6, <3>2, Moves DEF Surroundings
    <2>8. CASE ~job[j].expired
        <3>1. Told(job[j]) = {} BY <1>a, <2>8 DEF Told
        <3>2. Told(r) = {results[a] : a \in Agents} \ {"none"} BY <2>3, <2>8 DEF Told
        <3>3. Abs!Promise(Told(r), r.phase)
            BY <1>d, <2>1, <2>3, <3>2 DEF Abs!Promise, Abs!Stands, Abs!IsBack
        <3>4. Maps(job[j], r) BY <1>2, <1>d, <2>3, <3>1, <3>3 DEF Maps, Restored
        <3> QED BY <1>b, <2>2, <2>3, <2>4, <2>5, <2>6, <3>4, Moves DEF Surroundings
    <2> QED BY <2>7, <2>8
<1>3. CASE EndAll(j, "rollback_failed") /\ UNCHANGED store
    <2>1. Files' BY <1>3, <1>b DEF Restore, Files
    <2> QED BY <1>3, <1>a, <1>b, <2>1, EndsAll DEF Statuses
<1> QED BY <1>1, <1>2, <1>3 DEF Restore

\* The deadline answers for the job, once.
LEMMA ExpireSafe == ASSUME IInv, NEW j \in Jobs, Expire(j) PROVE IInv' /\ [Abs!Next]_(Abs!vars)
<1>a. Active(j) /\ job[j].pc # "read" /\ ~job[j].expired /\ store' = store BY DEF Expire
<1>b. Files' /\ Locks /\ Bounds' BY FaultCounts DEF Expire, IInv, Surroundings, Files
<1>c. job[j] \in JobStates /\ Consistent(job[j]) BY DEF IInv
<1> DEFINE results == Results(job[j].want, "unverified")
<1>1. /\ results \in [Agents -> Statuses]
      /\ {results[a] : a \in Agents} \ {"none"} \subseteq {"unverified"}
    <2>1. "unverified" \in Statuses BY DEF Statuses
    <2> QED BY ZenonT(30), <2>1, ResultsTyped
<1> HIDE DEF results
<1> DEFINE r == [job[j] EXCEPT !.expired = TRUE, !.res = results]
<1>2. job' = [job EXCEPT ![j] = r] BY DEF Expire, results
<1>3. /\ r \in JobStates /\ r.pc = job[j].pc /\ r.phase = job[j].phase /\ r.saved = job[j].saved
      /\ r.todo = job[j].todo /\ r.want = job[j].want /\ r.cause = job[j].cause
      /\ r.expired = TRUE /\ r.res = results
    BY <1>c, <1>1 DEF JobStates
<1> HIDE DEF r
<1>4. Consistent(r)
    BY <1>a, <1>c, <1>3 DEF Active, Consistent, PhaseFits, WorkFits, ResultsFit
<1>5. Locks' BY <1>b, ReleaseTyped DEF Expire
<1>6. Told(job[j]) = {} /\ Told(r) = {results[a] : a \in Agents} \ {"none"}
    BY <1>a, <1>3 DEF Told, Active
<1>7. Abs!Promise(Told(r), r.phase) BY <1>1, <1>6 DEF Abs!Promise, Abs!Stands, Abs!IsBack
<1>8. Maps(job[j], r) BY <1>a, <1>3, <1>6, <1>7 DEF Maps
<1> QED BY <1>b, <1>2, <1>3, <1>4, <1>5, <1>8, Moves DEF Surroundings

-----------------------------------------------------------------------------
(* The steps that put jobs in the place of others. *)

\* Those in news have done nothing and promise nothing, unless they are turned
\* away; the others are as they were.
LEMMA Renews ==
    ASSUME IInv, Surroundings', store' = store, job' \in [Jobs -> JobStates],
           \A k \in Jobs : Consistent(job'[k]), NEW news \in SUBSET Jobs, NEW turned \in SUBSET news,
           \A k \in news : job'[k].saved = Unset,
           \A k \in turned : job'[k].phase = "assumed" /\ Abs!Promise(Told(job'[k]), "assumed"),
           \A k \in news \ turned : job'[k].phase = "idle" /\ Told(job'[k]) = {},
           \A k \in Jobs \ news : /\ job'[k].phase = job[k].phase /\ job'[k].saved = job[k].saved
                                  /\ Told(job'[k]) = Told(job[k])
    PROVE  IInv' /\ [Abs!Next]_(Abs!vars)
<1>1. IInv' BY DEF IInv
<1> DEFINE phase == [k \in Jobs |-> job[k].phase]
           before == [k \in Jobs |-> job[k].saved]
           told == [k \in Jobs |-> ToldOf(k)]
<1>2. phase' = [k \in Jobs |-> IF k \in turned THEN "assumed"
                               ELSE IF k \in news THEN "idle" ELSE phase[k]]
    OBVIOUS
<1>3. before' = [k \in Jobs |-> IF k \in news THEN Unset ELSE before[k]] OBVIOUS
<1>4. \A k \in Jobs : told'[k] = Told(job'[k]) /\ told[k] = Told(job[k])
    BY ToldIsAbstract, ToldIsAbstractNext
<1>5. \A k \in Jobs : /\ k \in turned => Abs!Promise(told'[k], "assumed")
                      /\ k \in news \ turned => told'[k] = {}
                      /\ k \notin news => told'[k] = told[k]
    <2> HIDE DEF told
    <2> QED BY <1>4
<1>6. Abs!Again <=>
        /\ store' = store
        /\ \E n \in SUBSET Jobs : \E t \in SUBSET n :
             /\ phase' = [k \in Jobs |-> IF k \in t THEN "assumed"
                                         ELSE IF k \in n THEN "idle" ELSE phase[k]]
             /\ before' = [k \in Jobs |-> IF k \in n THEN Unset ELSE before[k]]
             /\ \A k \in Jobs : /\ k \in t => Abs!Promise(told'[k], "assumed")
                                /\ k \in n \ t => told'[k] = {}
                                /\ k \notin n => told'[k] = told[k]
    BY DEF Abs!Again
<1> HIDE DEF phase, before, told
<1>7. Abs!Again BY <1>2, <1>3, <1>5, <1>6
<1> QED BY <1>1, <1>7 DEF Abs!Next

LEMMA NoJobConsistent == NoJob \in JobStates /\ Consistent(NoJob) /\ Told(NoJob) = {}
<1>1. NoJob.want \in Wants BY DEF NoJob, Wants
<1>2. NoJob.res \in [Agents -> Statuses] BY DEF NoJob, Statuses
<1>3. NoJob \in JobStates BY <1>1, <1>2 DEF NoJob, JobStates, Steps, Kinds
<1>4. Told(NoJob) = {} BY DEF NoJob, Told
<1>5. Consistent(NoJob)
    BY DEF NoJob, Consistent, PhaseFits, WorkFits, ResultsFit, Gathered
<1> QED BY <1>3, <1>4, <1>5

\* A job starts: those that were over are forgotten.
LEMMA StartedSafe ==
    ASSUME IInv, Surroundings', store' = store, NEW j \in Jobs, ~Active(j),
           NEW r \in JobStates, Consistent(r), Started(j, r), r.saved = Unset,
           \/ r.phase = "idle" /\ Told(r) = {}
           \/ r.phase = "assumed" /\ Abs!Promise(Told(r), "assumed")
    PROVE  IInv' /\ [Abs!Next]_(Abs!vars)
<1> DEFINE solo == \A i \in Jobs \ {j} : ~Active(i)
           first == [r EXCEPT !.solo = solo]
           news == {k \in Jobs : ~Active(k)}
           turned == {k \in {j} : r.phase = "assumed"}
<1>1. /\ first \in JobStates /\ Consistent(first) /\ first.phase = r.phase /\ first.saved = Unset
      /\ Told(first) = Told(r)
    <2>1. /\ first \in JobStates /\ first.pc = r.pc /\ first.phase = r.phase
          /\ first.saved = r.saved /\ first.want = r.want /\ first.todo = r.todo
          /\ first.cause = r.cause /\ first.expired = r.expired /\ first.res = r.res
          /\ first.kind = r.kind
        BY DEF JobStates
    <2> HIDE DEF first
    <2> QED BY <2>1 DEF Consistent, PhaseFits, WorkFits, ResultsFit, Told
<1>2. \A k \in Jobs : LET other == [job[k] EXCEPT !.solo = FALSE] IN
        /\ other \in JobStates /\ Consistent(other) /\ other.phase = job[k].phase
        /\ other.saved = job[k].saved /\ Told(other) = Told(job[k])
    <2> SUFFICES ASSUME NEW k \in Jobs
                 PROVE LET other == [job[k] EXCEPT !.solo = FALSE] IN
                   /\ other \in JobStates /\ Consistent(other) /\ other.phase = job[k].phase
                   /\ other.saved = job[k].saved /\ Told(other) = Told(job[k])
        OBVIOUS
    <2> DEFINE other == [job[k] EXCEPT !.solo = FALSE]
    <2>1. job[k] \in JobStates /\ Consistent(job[k]) BY DEF IInv
    <2>2. /\ other \in JobStates /\ other.pc = job[k].pc /\ other.phase = job[k].phase
          /\ other.saved = job[k].saved /\ other.want = job[k].want /\ other.todo = job[k].todo
          /\ other.cause = job[k].cause /\ other.expired = job[k].expired
          /\ other.res = job[k].res /\ other.kind = job[k].kind
        BY <2>1 DEF JobStates
    <2> HIDE DEF other
    <2>3. Consistent(other) /\ Told(other) = Told(job[k])
        BY <2>1, <2>2 DEF Consistent, PhaseFits, WorkFits, ResultsFit, Told
    <2> QED BY <2>2, <2>3 DEF other
<1>3. job' = [k \in Jobs |-> IF k = j THEN first
                             ELSE IF Active(k) THEN [job[k] EXCEPT !.solo = FALSE] ELSE NoJob]
    BY DEF Started
<1> HIDE DEF first
<1>4. NoJob.phase = "idle" /\ NoJob.saved = Unset BY DEF NoJob
<1>5. job' \in [Jobs -> JobStates] /\ \A k \in Jobs : Consistent(job'[k])
    BY <1>1, <1>2, <1>3, NoJobConsistent
<1>6. job'[j] = first /\ \A k \in news \ {j} : job'[k] = NoJob BY <1>3
<1>7. /\ \A k \in news : job'[k].saved = Unset
      /\ \A k \in turned : job'[k].phase = "assumed" /\ Abs!Promise(Told(job'[k]), "assumed")
      /\ \A k \in news \ turned : job'[k].phase = "idle" /\ Told(job'[k]) = {}
    <2>1. \A k \in turned : k = j /\ r.phase = "assumed" OBVIOUS
    <2>2. r.phase # "idle" => j \in turned OBVIOUS
    <2> HIDE DEF turned
    <2> QED BY <1>1, <1>4, <1>6, <2>1, <2>2, NoJobConsistent
<1>n. turned \in SUBSET news OBVIOUS
<1> HIDE DEF news, turned
<1>8. \A k \in Jobs \ news : job'[k] = [job[k] EXCEPT !.solo = FALSE] BY <1>3 DEF news
<1>9. \A k \in Jobs \ news : /\ job'[k].phase = job[k].phase /\ job'[k].saved = job[k].saved
                             /\ Told(job'[k]) = Told(job[k])
    BY <1>2, <1>8
<1>10. news \in SUBSET Jobs BY DEF news
<1> QED BY <1>5, <1>7, <1>n, <1>9, <1>10, Renews

LEMMA NoJobFields ==
    /\ NoJob \in JobStates /\ NoJob.expired = FALSE /\ NoJob.phase = "idle"
    /\ NoJob.saved = Unset /\ NoJob.todo = {} /\ NoJob.want = [a \in Agents |-> "keep"]
    /\ NoJob.res = [a \in Agents |-> "none"]
BY NoJobConsistent DEF NoJob

\* A job that has yet to look, or to save what it will change.
LEMMA FreshSafe ==
    ASSUME NEW r \in JobStates, r.pc \in {"read", "snapshot"},
           r.pc = "snapshot" => Named(r.want) # {}, r.expired = FALSE, r.phase = "idle",
           r.pc = "read" /\ r.kind # "save" => Named(r.want) = {},
           r.todo = {}, r.res = [a \in Agents |-> "none"]
    PROVE  Consistent(r) /\ Told(r) = {}
<1>1. Consistent(r) BY DEF Consistent, PhaseFits, WorkFits, ResultsFit, Gathered
<1>2. Told(r) = {} BY DEF Told
<1> QED BY <1>1, <1>2

\* A request for a batch, or for one agent, without the lock.
LEMMA AskedSafe ==
    ASSUME IInv, Surroundings', store' = store, NEW j \in Jobs, ~Active(j), NEW w \in Asked,
           Named(w) # {}, Started(j, [NoJob EXCEPT !.pc = "snapshot", !.want = w])
    PROVE  IInv' /\ [Abs!Next]_(Abs!vars)
<1> DEFINE r == [NoJob EXCEPT !.pc = "snapshot", !.want = w]
<1>1. w \in Wants BY AskedAssumption DEF Wants, Values
<1>2. Started(j, r) OBVIOUS
<1>3. /\ r \in JobStates /\ r.pc = "snapshot" /\ r.want = w /\ r.expired = FALSE
      /\ r.phase = "idle" /\ r.saved = Unset /\ r.todo = {} /\ r.res = NoJob.res
    BY <1>1, NoJobFields DEF JobStates, Steps
<1> HIDE DEF r
<1>4. Consistent(r) /\ Told(r) = {} BY <1>3, NoJobFields, FreshSafe
<1> QED BY <1>2, <1>3, <1>4, StartedSafe

LEMMA OneIsSome == ASSUME NEW S, Cardinality(S) = 1 PROVE S # {}
BY FS_EmptySet

LEMMA DirectSafe == ASSUME IInv, NEW j \in Jobs, Direct(j) PROVE IInv' /\ [Abs!Next]_(Abs!vars)
<1>1. Surroundings' /\ store' = store /\ ~Active(j)
    BY RequestCounts DEF Direct, Free, IInv, Surroundings, Files, Locks
<1> QED BY <1>1, AskedSafe DEF Direct

LEMMA CenterSetsSafe ==
    ASSUME IInv, NEW j \in Jobs, CenterSets(j) PROVE IInv' /\ [Abs!Next]_(Abs!vars)
<1>1. Surroundings' /\ store' = store /\ ~Active(j)
    BY RequestCounts DEF CenterSets, Free, IInv, Surroundings, Files, Locks
<1> QED BY <1>1, AskedSafe, OneIsSome DEF CenterSets

\* A sweep of the reconciler, of this process or of a container that starts.
LEMMA SweepSafe ==
    ASSUME IInv, Surroundings', store' = store, NEW j \in Jobs, ~Active(j),
           NEW kind \in Kinds, Started(j, [NoJob EXCEPT !.kind = kind, !.pc = "read"])
    PROVE  IInv' /\ [Abs!Next]_(Abs!vars)
<1> DEFINE r == [NoJob EXCEPT !.kind = kind, !.pc = "read"]
<1>1. Started(j, r) OBVIOUS
<1>2. /\ r \in JobStates /\ r.pc = "read" /\ r.expired = FALSE /\ r.want = NoJob.want
      /\ r.phase = "idle" /\ r.saved = Unset /\ r.todo = {} /\ r.res = NoJob.res
    BY NoJobFields DEF JobStates, Steps
<1> HIDE DEF r
<1>w. Named(r.want) = {} BY <1>2, NoJobFields DEF Named
<1>3. Consistent(r) /\ Told(r) = {} BY <1>2, <1>w, NoJobFields, FreshSafe
<1> QED BY <1>1, <1>2, <1>3, StartedSafe

LEMMA TriggerSafe == ASSUME IInv, NEW j \in Jobs, Trigger(j) PROVE IInv' /\ [Abs!Next]_(Abs!vars)
<1>1. Surroundings' /\ store' = store /\ ~Active(j)
    BY RequestCounts DEF Trigger, Free, IInv, Surroundings, Files, Locks
<1>2. CASE Started(j, [NoJob EXCEPT !.kind = "sweep", !.pc = "read"])
    <2>1. "sweep" \in Kinds BY DEF Kinds
    <2> QED BY <1>1, <1>2, <2>1, SweepSafe
<1>3. CASE UNCHANGED job
    <2>1. IInv' BY <1>1, <1>3 DEF IInv
    <2>2. UNCHANGED Abs!vars BY <1>1, <1>3 DEF Abs!vars, ToldOf
    <2> QED BY <2>1, <2>2
<1> QED BY <1>2, <1>3 DEF Trigger

LEMMA SweepAgainSafe ==
    ASSUME IInv, NEW j \in Jobs, SweepAgain(j) PROVE IInv' /\ [Abs!Next]_(Abs!vars)
<1>1. Surroundings' /\ store' = store /\ ~Active(j)
    BY DEF SweepAgain, Free, IInv, Surroundings, Files, Locks, Bounds
<1>2. "sweep" \in Kinds BY DEF Kinds
<1> QED BY <1>1, <1>2, SweepSafe DEF SweepAgain

LEMMA AiDevStartsSafe ==
    ASSUME IInv, NEW j \in Jobs, AiDevStarts(j) PROVE IInv' /\ [Abs!Next]_(Abs!vars)
<1>1. Files /\ Locks /\ Bounds' BY RequestCounts DEF AiDevStarts, IInv, Surroundings
<1>2. live' \in Configs
    <2>1. live' = [a \in Agents |-> store[a]] BY DEF AiDevStarts
    <2>2. store \in Configs BY <1>1 DEF Files
    <2> QED BY <2>1, <2>2 DEF Configs
<1>3. Files' BY <1>1, <1>2, MirrorTyped DEF AiDevStarts, Files
<1>4. Surroundings' /\ store' = store /\ ~Active(j)
    BY <1>1, <1>3 DEF AiDevStarts, Free, Surroundings, Locks
<1>5. "boot" \in Kinds BY DEF Kinds
<1> QED BY <1>4, <1>5, SweepSafe DEF AiDevStarts

\* A save that finds the lock taken is answered at once, on an assumption.
LEMMA SaveSafe == ASSUME IInv, NEW j \in Jobs, Save(j) PROVE IInv' /\ [Abs!Next]_(Abs!vars)
<1>1. Surroundings' /\ store' = store /\ ~Active(j)
    BY RequestCounts DEF Save, Free, IInv, Surroundings, Files, Locks
<1>2. PICK w \in Asked :
        \/ Started(j, [NoJob EXCEPT !.kind = "save", !.want = w, !.pc = "read"])
        \/ Started(j, [NoJob EXCEPT !.kind = "save", !.want = w, !.pc = "over",
                                    !.phase = "assumed", !.res = Answer(w)])
    BY DEF Save, NoJob
<1>3. w \in Wants BY AskedAssumption DEF Wants, Values
<1>4. "save" \in Kinds BY DEF Kinds
<1>5. CASE Started(j, [NoJob EXCEPT !.kind = "save", !.want = w, !.pc = "read"])
    <2> DEFINE r == [NoJob EXCEPT !.kind = "save", !.want = w, !.pc = "read"]
    <2>1. Started(j, r) BY <1>5
    <2>2. /\ r \in JobStates /\ r.pc = "read" /\ r.expired = FALSE /\ r.kind = "save"
          /\ r.phase = "idle" /\ r.saved = Unset /\ r.todo = {} /\ r.res = NoJob.res
        BY <1>3, <1>4, NoJobFields DEF JobStates, Steps
    <2> HIDE DEF r
    <2>3. Consistent(r) /\ Told(r) = {} BY <2>2, NoJobFields, FreshSafe
    <2> QED BY <1>1, <2>1, <2>2, <2>3, StartedSafe
<1>6. CASE Started(j, [NoJob EXCEPT !.kind = "save", !.want = w, !.pc = "over",
                                    !.phase = "assumed", !.res = Answer(w)])
    <2> DEFINE results == Answer(w)
               r == [NoJob EXCEPT !.kind = "save", !.want = w, !.pc = "over",
                                  !.phase = "assumed", !.res = results]
    <2>1. Started(j, r) BY <1>6
    <2>2. results \in [Agents -> Statuses] BY AnswerTyped
    <2>3. Abs!Promise({results[a] : a \in Agents} \ {"none"}, "assumed") BY AnswerPromises
    <2> HIDE DEF results
    <2>4. /\ r \in JobStates /\ r.pc = "over" /\ r.res = results /\ r.phase = "assumed"
          /\ r.saved = Unset /\ r.todo = {}
        BY <1>3, <1>4, <2>2, NoJobFields DEF JobStates, Steps
    <2> HIDE DEF r
    <2>5. Consistent(r) BY <2>4 DEF Consistent, PhaseFits, WorkFits, ResultsFit
    <2>6. Abs!Promise(Told(r), "assumed") BY <2>3, <2>4 DEF Told
    <2> QED BY <1>1, <2>1, <2>4, <2>5, <2>6, StartedSafe
<1> QED BY <1>2, <1>5, <1>6

\* The admin process dies: its jobs are forgotten, that of a starting ai-dev is not.
LEMMA AdminDiesSafe == ASSUME IInv, AdminDies PROVE IInv' /\ [Abs!Next]_(Abs!vars)
<1> DEFINE news == {k \in Jobs : job[k].kind # "boot"}
<1>1. Surroundings' /\ store' = store
    BY FaultCounts DEF AdminDies, IInv, Surroundings, Files, Locks
<1>2. \A k \in news : job'[k] = NoJob BY DEF AdminDies
<1>3. \A k \in Jobs \ news : job'[k] = job[k] BY DEF AdminDies
<1>4. NoJob.phase = "idle" /\ NoJob.saved = Unset BY DEF NoJob
<1>5. job' \in [Jobs -> JobStates] /\ \A k \in Jobs : Consistent(job'[k])
    BY NoJobConsistent DEF AdminDies, IInv
<1>6. \A k \in news : job'[k].phase = "idle" /\ job'[k].saved = Unset /\ Told(job'[k]) = {}
    BY <1>2, <1>4, NoJobConsistent
<1>7. news \in SUBSET Jobs /\ {} \in SUBSET news OBVIOUS
<1> HIDE DEF news
<1> QED BY <1>1, <1>3, <1>5, <1>6, <1>7, Renews

LEMMA LifecycleSafe == ASSUME IInv, Lifecycle PROVE IInv' /\ [Abs!Next]_(Abs!vars)
<1>1. Surroundings'
    BY MirrorTyped DEF Lifecycle, IInv, Surroundings, Files, Locks, Bounds
<1>2. IInv' BY <1>1 DEF Lifecycle, IInv
<1>3. UNCHANGED Abs!vars BY DEF Lifecycle, Abs!vars, ToldOf
<1> QED BY <1>2, <1>3

-----------------------------------------------------------------------------
(* The theorems. *)

LEMMA InitSafe == Init => IInv /\ Abs!Init
<1> SUFFICES ASSUME Init PROVE IInv /\ Abs!Init OBVIOUS
<1>1. store \in Configs BY DEF Init, Configs, Values
<1>2. heads \in Configs BY <1>1 DEF Init, Mirror, Configs, Values
<1>3. live \in Configs BY <1>1, <1>2 DEF Init, Loaded, Configs
<1>4. Files BY <1>1, <1>2, <1>3 DEF Init, Files
<1>5. Locks BY DEF Init, Locks
<1>6. Bounds BY BoundsAssumption DEF Init, Bounds
<1>7. job = [j \in Jobs |-> NoJob] BY DEF Init
<1>8. IInv BY <1>4, <1>5, <1>6, <1>7, NoJobConsistent DEF IInv, Surroundings
<1>9. /\ [j \in Jobs |-> job[j].phase] = [j \in Jobs |-> "idle"]
      /\ [j \in Jobs |-> job[j].saved] = [j \in Jobs |-> Unset]
    BY <1>7 DEF NoJob
<1>10. \A j \in Jobs : ToldOf(j) = {} BY <1>7, ToldIsAbstract, NoJobConsistent
<1>11. Abs!Init BY <1>1, <1>9, <1>10 DEF Abs!Init
<1> QED BY <1>8, <1>11

LEMMA NextSafe == IInv /\ [Next]_vars => IInv' /\ [Abs!Next]_(Abs!vars)
<1> SUFFICES ASSUME IInv, [Next]_vars PROVE IInv' /\ [Abs!Next]_(Abs!vars) OBVIOUS
<1>1. CASE UNCHANGED vars
    <2>1. IInv'
        BY <1>1 DEF vars, IInv, Surroundings, Files, Locks, Bounds
    <2>2. UNCHANGED Abs!vars BY <1>1 DEF vars, Abs!vars, ToldOf
    <2> QED BY <2>1, <2>2
<1>2. ASSUME NEW j \in Jobs, Work(j) PROVE IInv' /\ [Abs!Next]_(Abs!vars)
    BY <1>2, ReadSafe, SnapshotSafe, WriteModelSafe, InstallModelSafe, SyncSafe, KillSafe,
       WaitHealthySafe, VerifySafe, RestoreSafe, SweepAgainSafe DEF Work
<1>3. ASSUME NEW j \in Jobs,
             Direct(j) \/ CenterSets(j) \/ Save(j) \/ Trigger(j) \/ AiDevStarts(j) \/ Expire(j)
      PROVE  IInv' /\ [Abs!Next]_(Abs!vars)
    BY <1>3, DirectSafe, CenterSetsSafe, SaveSafe, TriggerSafe, AiDevStartsSafe, ExpireSafe
<1>4. CASE Lifecycle BY <1>4, LifecycleSafe
<1>5. CASE AdminDies BY <1>5, AdminDiesSafe
<1> QED BY <1>1, <1>2, <1>3, <1>4, <1>5 DEF Next

\* Every reachable state has the types TypeOK names (the jobs of
\* applyAndVerifyBatch, the lock of withLock, the files they write).
THEOREM TypeCorrect == Spec => []TypeOK
<1>1. IInv => TypeOK BY DEF IInv, Surroundings, Files, Locks, Bounds, TypeOK
<1>2. Init => IInv BY InitSafe
<1>3. IInv /\ [Next]_vars => IInv' BY NextSafe
<1> QED BY <1>1, <1>2, <1>3, PTL DEF Spec

\* Applying agent models implements ModelTransaction: for any agents, models and
\* number of jobs, under any overlap of applications with each other and with
\* starts of ai-dev, with failing commands and readings, deadlines and deaths of
\* the admin process, an answer that says the new models stand comes from a job
\* whose last act was to write them, that found them in the file, or that never
\* saw the file; and one that says the old ones are back from a job that wrote
\* nothing or put back what it had saved (applyAndVerifyBatch, applyAgent).
THEOREM Implements == Spec => Transactional
<1>1. Init => IInv /\ Abs!Init BY InitSafe
<1>2. IInv /\ [Next]_vars => IInv' /\ [Abs!Next]_(Abs!vars) BY NextSafe
<1>3. Spec => Abs!Init /\ [][Abs!Next]_(Abs!vars) BY <1>1, <1>2, PTL DEF Spec
<1> QED BY <1>3 DEF Transactional, Abs!Spec

-----------------------------------------------------------------------------
(* Jobs that run alone. *)

\* The change that the next command makes for a job in state r.
EditOf(r) ==
    LET a == CHOOSE a \in r.todo : TRUE IN [store EXCEPT ![a] = r.want[a]]

\* What a job that runs alone knows of the files and of OpenCode.
SoloFits(r) ==
    /\ r.phase \in {"open", "written"} =>
         \A a \in Agents : r.want[a] = "keep" => store[a] = r.saved[a]
    /\ r.phase = "undone" => store = r.saved
    /\ r.pc \in {"write", "install"} => \A a \in Named(r.want) \ r.todo : store[a] = r.want[a]
    /\ r.pc = "install" => staged = EditOf(r)
    /\ r.pc \in {"sync", "kill", "wait", "verify"} =>
         \A a \in Named(r.want) : store[a] = r.want[a]
    /\ r.pc \in {"kill", "wait", "verify"} => \A a \in Named(r.want) : Loaded[a] = store[a]

\* A result that reports success is true of the agents' file, unless it was assumed;
\* and "verified", of what was applied, of the files and of the running OpenCode.
Success == {"verified", "cleared"}
VerifiedFits(r) ==
    /\ r.pc \notin {"verify", "restore", "rekill", "rewait", "over"} \/ r.expired =>
         \A a \in Agents : r.res[a] \notin Success
    /\ r.pc \in {"verify", "over"} =>
         \A a \in Agents :
           /\ r.res[a] \in Success /\ r.phase # "assumed" => store[a] = r.want[a]
           /\ r.res[a] = "verified" /\ r.phase \notin {"found", "assumed"} =>
                r.want[a] # "none" /\ Loaded[a] = store[a] /\ up /\ live[a] = r.want[a]

\* Nobody else runs beside a job that is alone.
SInv ==
    \A j \in Jobs : job[j].solo =>
      /\ \A k \in Jobs \ {j} : ~Active(k)
      /\ SoloFits(job[j]) /\ VerifiedFits(job[j])

\* What SInv says of one job.
SoloKnows(j) == job[j].solo => SoloFits(job[j]) /\ VerifiedFits(job[j])

\* A job that goes on: no other one is alone, and nobody else has moved.
LEMMA SoloMoves ==
    ASSUME IInv, SInv, NEW j \in Jobs, Active(j), NEW r \in JobStates,
           job' = [job EXCEPT ![j] = r], r.solo = job[j].solo, SoloKnows(j)'
    PROVE  SInv'
<1>1. job'[j] = r /\ \A k \in Jobs \ {j} : job'[k] = job[k] BY DEF IInv
<1>2. \A k \in Jobs \ {j} : ~job[k].solo BY DEF SInv
<1>3. \A k \in Jobs \ {j} : job[j].solo => ~Active(k)' BY <1>1 DEF SInv, Active
<1>4. \A k \in Jobs : job'[k].solo => k = j BY <1>1, <1>2
<1> QED BY <1>1, <1>3, <1>4 DEF SInv, SoloKnows

\* The end of a job, when what it tells is true.
LEMMA SoloEnds ==
    ASSUME IInv, SInv, NEW j \in Jobs, Active(j), store' = store,
           NEW results \in [Agents -> Statuses], End(j, results),
           \A a \in Agents : job[j].solo /\ ~job[j].expired /\ results[a] \in Success =>
             /\ store[a] = job[j].want[a]
             /\ results[a] = "verified" =>
                  job[j].want[a] # "none" /\ Loaded'[a] = store[a] /\ up' /\ live'[a] = job[j].want[a]
    PROVE  SInv'
<1>1. job[j] \in JobStates BY DEF IInv
<1>2. job[j].phase \in Phases BY <1>1 DEF JobStates, Phases
<1>3. PICK r \in JobStates :
        /\ job' = [job EXCEPT ![j] = r] /\ job'[j] = r
        /\ r.pc = "over" /\ r.phase = job[j].phase /\ r.saved = job[j].saved
        /\ r.res = (IF job[j].expired THEN job[j].res ELSE results)
        /\ r.todo = {} /\ r.want = job[j].want /\ r.expired = job[j].expired
        /\ r.solo = job[j].solo
    BY <1>2, EndAtEnds DEF End
<1>4. job[j].solo => SoloFits(job[j]) /\ VerifiedFits(job[j]) BY DEF SInv
<1>5. job[j].solo => SoloFits(job[j])' BY <1>3, <1>4 DEF SoloFits
<1>6. job[j].solo => VerifiedFits(job[j])'
    BY <1>1, <1>3, <1>4 DEF VerifiedFits, JobStates, Success
<1> QED BY <1>3, <1>5, <1>6, SoloMoves DEF SoloKnows

LEMMA SoloEndsAll ==
    ASSUME IInv, SInv, NEW j \in Jobs, Active(j), store' = store,
           NEW s \in Statuses \ Success, EndAll(j, s)
    PROVE  SInv'
<1> DEFINE results == Results(job[j].want, s)
<1>1. /\ results \in [Agents -> Statuses] /\ End(j, results)
      /\ \A a \in Agents : results[a] \notin Success
    BY DEF EndAll, Results, Statuses, Success
<1> HIDE DEF results
<1> QED BY <1>1, SoloEnds

LEMMA SoloFailsInto ==
    ASSUME IInv, SInv, NEW j \in Jobs, store' = store,
           job[j].pc \in {"write", "install", "sync", "kill", "wait"},
           NEW cause \in {"write_failed", "restart_failed"}, FailsInto(j, cause)
    PROVE  SInv'
<1>a. Active(j) BY DEF Active
<1>1. CASE EndAll(j, "unverified") BY <1>1, <1>a, SoloEndsAll DEF Statuses, Success
<1>2. CASE job' = [job EXCEPT ![j].pc = "restore", ![j].cause = cause]
    <2> DEFINE r == [job[j] EXCEPT !.pc = "restore", !.cause = cause]
    <2>1. job[j] \in JobStates BY DEF IInv
    <2>2. job' = [job EXCEPT ![j] = r] /\ job'[j] = r BY <1>2 DEF IInv
    <2>3. /\ r \in JobStates /\ r.pc = "restore" /\ r.phase = job[j].phase
          /\ r.saved = job[j].saved /\ r.want = job[j].want /\ r.todo = job[j].todo
          /\ r.expired = job[j].expired /\ r.res = job[j].res /\ r.solo = job[j].solo
        BY <2>1 DEF JobStates, Steps
    <2> HIDE DEF r
    <2>4. job[j].solo => SoloFits(job[j]) /\ VerifiedFits(job[j]) BY DEF SInv
    <2>5. SoloKnows(j)' BY <2>2, <2>3, <2>4 DEF SoloFits, VerifiedFits, SoloKnows
    <2> QED BY <1>a, <2>2, <2>3, <2>5, SoloMoves
<1> QED BY <1>1, <1>2 DEF FailsInto

LEMMA SoloRead == ASSUME IInv, SInv, NEW j \in Jobs, Read(j) PROVE SInv'
<1>a. Active(j) /\ job[j].pc = "read" /\ store' = store BY DEF Read, Active
<1>c. job[j] \in JobStates /\ Consistent(job[j]) BY DEF IInv
<1>d. ~job[j].expired /\ job[j].phase = "idle"
    BY <1>a, <1>c DEF Consistent, PhaseFits, ResultsFit
<1>1. PICK seen \in Configs, phase \in {"found", "assumed"} :
        Considers(j, seen, phase) /\ (phase = "found" => seen = store)
    <2>1. store \in Configs /\ Unconfigured \in Configs
        BY DEF IInv, Surroundings, Files, Unconfigured, Configs, Values
    <2> QED BY <2>1 DEF Read
<1>2. CASE /\ EndAt(j, phase, Answer(job[j].want))
           /\ \A a \in Agents : job[j].want[a] # "keep" => seen[a] = job[j].want[a]
    <2> DEFINE results == Answer(job[j].want)
    <2>1. EndAt(j, phase, results) BY <1>2
    <2>2. /\ results \in [Agents -> Statuses]
          /\ \A a \in Agents : results[a] \in Success => job[j].want[a] # "keep"
        BY AnswerTyped DEF Answer, Success
    <2> HIDE DEF results
    <2>3. PICK r \in JobStates :
            /\ job' = [job EXCEPT ![j] = r] /\ job'[j] = r
            /\ r.pc = "over" /\ r.phase = phase /\ r.res = results
            /\ r.want = job[j].want /\ ~r.expired /\ r.solo = job[j].solo
        BY <1>d, <2>1, <2>2, EndAtEnds DEF Phases
    <2>4. SoloKnows(j)'
        BY <1>a, <1>1, <1>2, <2>2, <2>3 DEF SoloFits, VerifiedFits, SoloKnows
    <2> QED BY <1>a, <2>3, <2>4, SoloMoves
<1>3. ASSUME NEW needed \in Wants, job' = [job EXCEPT ![j].pc = "snapshot", ![j].want = needed]
      PROVE  SInv'
    <2> DEFINE r == [job[j] EXCEPT !.pc = "snapshot", !.want = needed]
    <2>1. job' = [job EXCEPT ![j] = r] /\ job'[j] = r BY <1>3 DEF IInv
    <2>2. /\ r \in JobStates /\ r.pc = "snapshot" /\ r.phase = "idle"
          /\ r.expired = job[j].expired /\ r.res = job[j].res /\ r.solo = job[j].solo
        BY <1>c, <1>d DEF JobStates, Steps
    <2> HIDE DEF r
    <2>3. job[j].solo => VerifiedFits(job[j]) BY DEF SInv
    <2>4. SoloKnows(j)'
        BY <1>a, <2>1, <2>2, <2>3 DEF SoloFits, VerifiedFits, SoloKnows
    <2> QED BY <1>a, <2>1, <2>2, <2>4, SoloMoves
<1> QED BY <1>1, <1>2, <1>3, <1>a, Considered

LEMMA SoloSnapshot == ASSUME IInv, SInv, NEW j \in Jobs, Snapshot(j) PROVE SInv'
<1>a. Active(j) /\ job[j].pc = "snapshot" /\ store' = store BY DEF Snapshot, Active
<1>1. CASE job' = [job EXCEPT ![j].saved = store, ![j].phase = "open",
                              ![j].todo = Named(job[j].want), ![j].pc = "write"]
    <2> DEFINE r == [job[j] EXCEPT !.saved = store, !.phase = "open",
                                   !.todo = Named(job[j].want), !.pc = "write"]
    <2>1. job[j] \in JobStates /\ store \in Configs /\ Named(job[j].want) \subseteq Agents
        BY DEF IInv, Surroundings, Files, Named
    <2>2. job' = [job EXCEPT ![j] = r] /\ job'[j] = r BY <1>1 DEF IInv
    <2>3. /\ r \in JobStates /\ r.pc = "write" /\ r.phase = "open" /\ r.saved = store
          /\ r.todo = Named(r.want) /\ r.solo = job[j].solo
          /\ r.expired = job[j].expired /\ r.res = job[j].res
        BY <2>1 DEF JobStates, Steps
    <2> HIDE DEF r
    <2>4. job[j].solo => VerifiedFits(job[j]) BY DEF SInv
    <2>5. SoloKnows(j)'
        BY <1>a, <2>2, <2>3, <2>4 DEF SoloFits, VerifiedFits, SoloKnows, Named
    <2> QED BY <1>a, <2>2, <2>3, <2>5, SoloMoves
<1>2. CASE EndAll(j, "unverified") BY <1>2, <1>a, SoloEndsAll DEF Statuses, Success
<1>3. CASE EndAll(j, "write_failed") BY <1>3, <1>a, SoloEndsAll DEF Statuses, Success
<1> QED BY <1>1, <1>2, <1>3 DEF Snapshot, Proceed

\* The edit of one agent leaves the others, and the agents already done, as they are.
LEMMA SoloInstalled ==
    ASSUME IInv, SInv, NEW j \in Jobs, job[j].pc \in {"write", "install"},
           NEW content, Installed(j, content), job[j].todo # {},
           job[j].solo => content = Edited(j)
    PROVE  SInv'
<1>a. Active(j) BY DEF Active
<1>c. job[j] \in JobStates /\ Consistent(job[j]) /\ store \in Configs
    BY DEF IInv, Surroundings, Files
<1> DEFINE next == Next1(j)
           rest == job[j].todo \ {next}
           r == [job[j] EXCEPT !.todo = rest, !.phase = "written",
                               !.pc = IF rest # {} THEN "write" ELSE "sync"]
<1>1. store' = content /\ job' = [job EXCEPT ![j] = r] /\ job'[j] = r
    BY DEF Installed, IInv
<1>2. /\ r \in JobStates /\ r.pc = (IF rest # {} THEN "write" ELSE "sync")
      /\ r.want = job[j].want /\ r.phase = "written" /\ r.saved = job[j].saved
      /\ r.todo = rest /\ r.expired = job[j].expired /\ r.res = job[j].res
      /\ r.solo = job[j].solo
    BY <1>c DEF JobStates, Steps
<1>3. next \in job[j].todo /\ next \in Agents /\ job[j].want[next] # "keep"
    BY <1>c, NextOne DEF Consistent, WorkFits, Named
<1>4. job[j].solo => store' = [store EXCEPT ![next] = job[j].want[next]]
    BY <1>1 DEF Edited
<1>5. rest = job[j].todo \ {next} OBVIOUS
<1> HIDE DEF r, rest, next
<1>6. job[j].solo => SoloFits(job[j]) /\ VerifiedFits(job[j]) BY DEF SInv
<1>7. job[j].solo => store'[next] = job[j].want[next]
                     /\ \A a \in Agents \ {next} : store'[a] = store[a]
    BY <1>3, <1>4, <1>c DEF Configs
<1>8. job[j].solo => \A a \in Agents : job[j].want[a] = "keep" => store'[a] = job[j].saved[a]
    BY <1>3, <1>6, <1>7, <1>c DEF SoloFits, Consistent, PhaseFits
<1>9. job[j].solo => \A a \in Named(job[j].want) \ rest : store'[a] = job[j].want[a]
    BY <1>5, <1>6, <1>7 DEF SoloFits, Named
<1>10. job[j].solo => SoloFits(job[j])'
    BY <1>1, <1>2, <1>8, <1>9 DEF SoloFits, Named
<1>11. job[j].solo => VerifiedFits(job[j])'
    BY <1>1, <1>2, <1>6 DEF VerifiedFits
<1> QED BY <1>a, <1>1, <1>2, <1>10, <1>11, SoloMoves DEF SoloKnows

LEMMA SoloWriteModel == ASSUME IInv, SInv, NEW j \in Jobs, WriteModel(j) PROVE SInv'
<1>a. Active(j) /\ job[j].pc = "write" BY DEF WriteModel, Active
<1>c. job[j] \in JobStates /\ Consistent(job[j]) BY DEF IInv
<1>d. job[j].todo # {} BY <1>a, <1>c DEF Consistent, WorkFits
<1>1. CASE Installed(j, Edited(j)) BY <1>1, <1>a, <1>d, SoloInstalled
<1>2. CASE /\ staged' = Edited(j) /\ job' = [job EXCEPT ![j].pc = "install"]
           /\ UNCHANGED store
    <2> DEFINE r == [job[j] EXCEPT !.pc = "install"]
    <2>1. job' = [job EXCEPT ![j] = r] /\ job'[j] = r BY <1>2 DEF IInv
    <2>2. /\ r \in JobStates /\ r.pc = "install" /\ r.want = job[j].want
          /\ r.phase = job[j].phase /\ r.saved = job[j].saved /\ r.todo = job[j].todo
          /\ r.expired = job[j].expired /\ r.res = job[j].res /\ r.solo = job[j].solo
        BY <1>c DEF JobStates, Steps
    <2> HIDE DEF r
    <2>3. job[j].solo => SoloFits(job[j]) /\ VerifiedFits(job[j]) BY DEF SInv
    <2>4. EditOf(job[j])' = Edited(j) BY <1>2, <2>1, <2>2 DEF EditOf, Edited, Next1
    <2>5. SoloKnows(j)'
        BY <1>2, <1>a, <2>1, <2>2, <2>3, <2>4 DEF SoloFits, VerifiedFits, SoloKnows, Named
    <2> QED BY <1>a, <2>1, <2>2, <2>5, SoloMoves
<1>3. CASE FailsInto(j, "write_failed") /\ UNCHANGED <<store, staged>>
    BY <1>3, <1>a, SoloFailsInto
<1> QED BY <1>1, <1>2, <1>3 DEF WriteModel

LEMMA SoloInstallModel == ASSUME IInv, SInv, NEW j \in Jobs, InstallModel(j) PROVE SInv'
<1>a. Active(j) /\ job[j].pc = "install" BY DEF InstallModel, Active
<1>1. CASE Installed(j, staged)
    <2>1. job[j].todo # {} BY <1>a DEF IInv, Consistent, WorkFits
    <2>2. job[j].solo => staged = Edited(j)
        BY <1>a DEF SInv, SoloFits, EditOf, Edited, Next1
    <2> QED BY <1>1, <1>a, <2>1, <2>2, SoloInstalled
<1>2. CASE FailsInto(j, "write_failed") /\ UNCHANGED <<store, staged>>
    BY <1>2, <1>a, SoloFailsInto
<1> QED BY <1>1, <1>2 DEF InstallModel

\* After the sync OpenCode, if it starts now, takes the models of the file.
LEMMA SyncedLoads ==
    ASSUME IInv, SInv, NEW j \in Jobs, job[j].pc = "sync", heads' = Synced(j),
           UNCHANGED <<line, store>>, job[j].solo
    PROVE  \A a \in Named(job[j].want) : Loaded'[a] = store[a]
<1>1. \A a \in Named(job[j].want) : a \in Agents /\ store[a] = job[j].want[a]
    BY DEF SInv, SoloFits, Named
<1>2. Mirrored' = Mirrored BY DEF Mirrored
<1>3. \A a \in Agents : Loaded'[a] = IF a \in Mirrored THEN heads'[a] ELSE store[a]
    BY <1>2 DEF Loaded
<1>4. \A a \in Named(job[j].want) : a \in Mirrored => heads'[a] = store[a]
    BY <1>1 DEF Synced, Mirror, Named
<1> QED BY <1>1, <1>3, <1>4

LEMMA SoloSync == ASSUME IInv, SInv, NEW j \in Jobs, Sync(j) PROVE SInv'
<1>a. Active(j) /\ job[j].pc = "sync" /\ UNCHANGED <<line, store>> BY DEF Sync, Active
<1>1. CASE EndAll(j, "unverified") BY <1>1, <1>a, SoloEndsAll DEF Statuses, Success
<1>2. CASE heads' = Synced(j) /\ job' = [job EXCEPT ![j].pc = "kill"]
    <2> DEFINE r == [job[j] EXCEPT !.pc = "kill"]
    <2>1. job' = [job EXCEPT ![j] = r] /\ job'[j] = r BY <1>2 DEF IInv
    <2>2. /\ r \in JobStates /\ r.pc = "kill" /\ r.want = job[j].want
          /\ r.phase = job[j].phase /\ r.saved = job[j].saved
          /\ r.expired = job[j].expired /\ r.res = job[j].res /\ r.solo = job[j].solo
        BY DEF IInv, JobStates, Steps
    <2> HIDE DEF r
    <2>3. job[j].solo => SoloFits(job[j]) /\ VerifiedFits(job[j]) BY DEF SInv
    <2>4. job[j].solo => \A a \in Named(job[j].want) : Loaded'[a] = store[a]
        BY <1>2, <1>a, SyncedLoads
    <2>5. SoloKnows(j)'
        BY <1>a, <2>1, <2>2, <2>3, <2>4 DEF SoloFits, VerifiedFits, SoloKnows, Named
    <2> QED BY <1>a, <2>1, <2>2, <2>5, SoloMoves
<1>3. CASE FailsInto(j, "write_failed") BY <1>3, <1>a, SoloFailsInto
<1> QED BY <1>1, <1>2, <1>3 DEF Sync, Proceed

LEMMA SoloRestartFails ==
    ASSUME IInv, SInv, NEW j \in Jobs, store' = store,
           job[j].pc \in {"kill", "wait", "rekill", "rewait"}, RestartFails(j)
    PROVE  SInv'
<1>a. Active(j) BY DEF Active
<1>1. CASE job[j].pc \in {"kill", "wait"} BY <1>1, SoloFailsInto DEF RestartFails
<1>2. CASE job[j].pc \notin {"kill", "wait"}
    BY <1>2, <1>a, SoloEndsAll DEF RestartFails, Statuses, Success
<1> QED BY <1>1, <1>2

LEMMA SoloKill == ASSUME IInv, SInv, NEW j \in Jobs, Kill(j) PROVE SInv'
<1>a. /\ Active(j) /\ job[j].pc \in {"kill", "rekill"}
      /\ UNCHANGED <<line, store, heads, live, staged>>
    BY DEF Kill, Active
<1>1. CASE job' = [job EXCEPT ![j].pc = IF job[j].pc = "kill" THEN "wait" ELSE "rewait"]
    <2> DEFINE r == [job[j] EXCEPT !.pc = IF job[j].pc = "kill" THEN "wait" ELSE "rewait"]
    <2>1. job' = [job EXCEPT ![j] = r] /\ job'[j] = r BY <1>1 DEF IInv
    <2>2. /\ r \in JobStates /\ r.pc = (IF job[j].pc = "kill" THEN "wait" ELSE "rewait")
          /\ r.want = job[j].want
          /\ r.phase = job[j].phase /\ r.saved = job[j].saved
          /\ r.expired = job[j].expired /\ r.res = job[j].res /\ r.solo = job[j].solo
        BY ZenonT(30) DEF IInv, JobStates, Steps
    <2> HIDE DEF r
    <2>3. job[j].solo => SoloFits(job[j]) /\ VerifiedFits(job[j]) BY DEF SInv
    <2>4. Loaded' = Loaded BY <1>a DEF Loaded, Mirrored
    <2>5. SoloKnows(j)'
        BY <1>a, <2>1, <2>2, <2>3, <2>4 DEF SoloFits, VerifiedFits, SoloKnows, Named
    <2> QED BY <1>a, <2>1, <2>2, <2>5, SoloMoves
<1>2. CASE RestartFails(j) BY <1>2, <1>a, SoloRestartFails
<1> QED BY <1>1, <1>2 DEF Kill

LEMMA SoloWaitHealthy == ASSUME IInv, SInv, NEW j \in Jobs, WaitHealthy(j) PROVE SInv'
<1>a. /\ Active(j) /\ job[j].pc \in {"wait", "rewait"}
      /\ UNCHANGED <<line, store, heads, live, staged, up>>
    BY DEF WaitHealthy, Active
<1>1. CASE End(j, Blamed(j))
    <2>1. Blamed(j) \in [Agents -> Statuses] /\ \A a \in Agents : Blamed(j)[a] \notin Success
        <3>1. {Blamed(j)[a] : a \in Agents} \ {"none"} \subseteq {"rollback_failed", "probe_failed"}
            BY BlamedTyped
        <3>2. Blamed(j) \in [Agents -> Statuses] BY BlamedTyped
        <3> HIDE DEF Blamed
        <3> QED BY <3>1, <3>2 DEF Success
    <2> HIDE DEF Blamed
    <2> QED BY <1>1, <1>a, <2>1, SoloEnds
<1>2. CASE EndAll(j, "unverified") BY <1>2, <1>a, SoloEndsAll DEF Statuses, Success
<1>3. CASE /\ job[j].pc = "wait"
           /\ job' = [job EXCEPT ![j].pc = "verify", ![j].todo = Named(job[j].want)]
    <2> DEFINE r == [job[j] EXCEPT !.pc = "verify", !.todo = Named(job[j].want)]
    <2>1. job' = [job EXCEPT ![j] = r] /\ job'[j] = r BY <1>3 DEF IInv
    <2>2. /\ r \in JobStates /\ r.pc = "verify" /\ r.want = job[j].want
          /\ r.phase = job[j].phase /\ r.saved = job[j].saved
          /\ r.expired = job[j].expired /\ r.res = job[j].res /\ r.solo = job[j].solo
        BY ZenonT(30) DEF IInv, JobStates, Steps, Named
    <2> HIDE DEF r
    <2>3. job[j].solo => SoloFits(job[j]) /\ VerifiedFits(job[j]) BY DEF SInv
    <2>4. Loaded' = Loaded BY <1>a DEF Loaded, Mirrored
    <2>e. Named(job[j].want)' = Named(job[j].want) BY <2>1, <2>2 DEF Named
    <2>5. job[j].solo => SoloFits(job[j])'
        <3> SUFFICES ASSUME job[j].solo PROVE SoloFits(job[j])'
            OBVIOUS
        <3>1. \A a \in Named(job[j].want) : store[a] = job[j].want[a] /\ Loaded[a] = store[a]
            BY <1>3, <2>3 DEF SoloFits
        <3>2. /\ job[j].phase \in {"open", "written"} =>
                    \A a \in Agents : job[j].want[a] = "keep" => store[a] = job[j].saved[a]
              /\ job[j].phase = "undone" => store = job[j].saved
            BY <2>3 DEF SoloFits
        <3>3. job'[j].pc \notin {"write", "install"}
            BY <2>1, <2>2
        <3> QED BY <1>a, <2>1, <2>2, <2>4, <2>e, <3>1, <3>2, <3>3 DEF SoloFits
    <2>6. job[j].solo => \A a \in Agents : job[j].res[a] \notin Success
        BY <1>3, <2>3 DEF VerifiedFits
    <2>7. job[j].solo => VerifiedFits(job[j])'
        BY <2>1, <2>2, <2>6 DEF VerifiedFits, Success
    <2> QED BY <1>a, <2>1, <2>2, <2>5, <2>7, SoloMoves DEF SoloKnows
<1>4. CASE RestartFails(j) BY <1>4, <1>a, SoloRestartFails
<1> QED BY <1>1, <1>2, <1>3, <1>4 DEF WaitHealthy

LEMMA SoloVerify == ASSUME IInv, SInv, NEW j \in Jobs, Verify(j) PROVE SInv'
<1>a. /\ Active(j) /\ job[j].pc = "verify"
      /\ UNCHANGED <<line, store, heads, live, staged, up>>
    BY DEF Verify, Active
<1>b. Loaded' = Loaded BY <1>a DEF Loaded, Mirrored
<1>c. job[j] \in JobStates /\ Consistent(job[j]) BY DEF IInv
<1>1. PICK s \in Verdicts(j, Next1(j)) :
        LET rest == job[j].todo \ {Next1(j)}
            res  == [job[j].res EXCEPT ![Next1(j)] = s]
        IN IF job[j].expired THEN EndAll(j, "unverified")
           ELSE IF rest # {} THEN job' = [job EXCEPT ![j].todo = rest, ![j].res = res]
                                  /\ UNCHANGED <<lock, pending>>
           ELSE IF \E a \in Agents : res[a] = "probe_failed"
                THEN /\ job' = [job EXCEPT ![j].todo = {}, ![j].res = res, ![j].pc = "restore",
                                           ![j].cause = "probe_failed"]
                     /\ UNCHANGED <<lock, pending>>
           ELSE End(j, res)
    BY DEF Verify
<1> DEFINE next == Next1(j)
           rest == job[j].todo \ {next}
           res  == [job[j].res EXCEPT ![next] = s]
<1>2. next \in Named(job[j].want) /\ next \in Agents
    BY <1>a, <1>c, NextOne DEF Consistent, WorkFits, Named
<1>3. /\ s = "verified" => up /\ job[j].want[next] # "none" /\ live[next] = job[j].want[next]
      /\ job[j].phase = "written"
    BY <1>a, <1>c DEF Verdicts, Consistent, PhaseFits
<1>4. s \in Statuses BY VerdictsGathered DEF Gathered, Statuses
<1>5. rest \subseteq Agents BY <1>c DEF JobStates
<1>6. /\ res \in [Agents -> Statuses] /\ res[next] = s
      /\ \A a \in Agents \ {next} : res[a] = job[j].res[a]
    BY <1>2, <1>4, <1>c DEF JobStates
<1>7. CASE EndAll(j, "unverified") BY <1>7, <1>a, SoloEndsAll DEF Statuses, Success
<1> HIDE DEF next, rest, res
<1>8. job[j].solo => SoloFits(job[j]) /\ VerifiedFits(job[j]) BY DEF SInv
<1>9. job[j].solo => \A a \in Agents : res[a] \in Success =>
        /\ store[a] = job[j].want[a]
        /\ res[a] = "verified" =>
             job[j].want[a] # "none" /\ Loaded[a] = store[a] /\ up /\ live[a] = job[j].want[a]
    BY <1>a, <1>2, <1>3, <1>6, <1>8 DEF SoloFits, VerifiedFits, Success
<1>10. CASE ~job[j].expired /\ job' = [job EXCEPT ![j].todo = rest, ![j].res = res]
    <2> DEFINE r == [job[j] EXCEPT !.todo = rest, !.res = res]
    <2>1. job' = [job EXCEPT ![j] = r] /\ job'[j] = r BY <1>10 DEF IInv
    <2>2. /\ r \in JobStates /\ r.pc = job[j].pc /\ r.want = job[j].want
          /\ r.phase = job[j].phase /\ r.saved = job[j].saved
          /\ r.expired = job[j].expired /\ r.res = res /\ r.solo = job[j].solo
        BY <1>c, <1>5, <1>6 DEF JobStates
    <2> HIDE DEF r
    <2>3. job[j].solo => SoloFits(job[j])'
        BY <1>a, <1>b, <1>8, <2>1, <2>2 DEF SoloFits, Named
    <2>4. job[j].solo => VerifiedFits(job[j])'
        <3>1. /\ job'[j].pc = "verify" /\ job'[j].res = res /\ job'[j].want = job[j].want
              /\ ~job'[j].expired
            BY <1>a, <1>10, <2>1, <2>2
        <3> SUFFICES ASSUME job[j].solo PROVE VerifiedFits(job[j])' OBVIOUS
        <3>2. \A a \in Agents : job'[j].res[a] \in Success =>
                /\ store'[a] = job'[j].want[a]
                /\ job'[j].res[a] = "verified" =>
                     /\ job'[j].want[a] # "none" /\ Loaded'[a] = store'[a]
                     /\ up' /\ live'[a] = job'[j].want[a]
            BY <1>a, <1>b, <1>9, <3>1
        <3> QED BY <3>1, <3>2 DEF VerifiedFits, Success
    <2> QED BY <1>a, <2>1, <2>2, <2>3, <2>4, SoloMoves DEF SoloKnows
<1>11. CASE ~job[j].expired /\ job' = [job EXCEPT ![j].todo = {}, ![j].res = res,
                 ![j].pc = "restore", ![j].cause = "probe_failed"]
    <2> DEFINE r == [job[j] EXCEPT !.todo = {}, !.res = res, !.pc = "restore",
                                   !.cause = "probe_failed"]
    <2>1. job' = [job EXCEPT ![j] = r] /\ job'[j] = r BY <1>11 DEF IInv
    <2>2. /\ r \in JobStates /\ r.pc = "restore" /\ r.want = job[j].want
          /\ r.phase = job[j].phase /\ r.saved = job[j].saved
          /\ r.expired = job[j].expired /\ r.solo = job[j].solo
        BY <1>c, <1>6 DEF JobStates, Steps
    <2> HIDE DEF r
    <2>3. /\ job'[j].pc = "restore" /\ ~job'[j].expired /\ job'[j].solo = job[j].solo
          /\ job'[j].phase = job[j].phase /\ job'[j].want = job[j].want
          /\ job'[j].saved = job[j].saved
        BY <1>11, <2>1, <2>2
    <2>4. job[j].solo => SoloFits(job[j])' BY <1>a, <1>8, <2>3 DEF SoloFits
    <2>5. VerifiedFits(job[j])' BY <2>3 DEF VerifiedFits
    <2>6. SoloKnows(j)' BY <2>3, <2>4, <2>5 DEF SoloKnows
    <2> QED BY <1>a, <2>1, <2>2, <2>6, SoloMoves
<1>12. CASE End(j, res) BY <1>12, <1>a, <1>b, <1>6, <1>9, SoloEnds
<1> QED BY <1>1, <1>7, <1>10, <1>11, <1>12 DEF next, rest, res

LEMMA SoloRestore == ASSUME IInv, SInv, NEW j \in Jobs, Restore(j) PROVE SInv'
<1>a. Active(j) /\ job[j].pc = "restore" BY DEF Restore, Active
<1>c. job[j] \in JobStates /\ Consistent(job[j]) BY DEF IInv
<1>d. job[j].solo => SoloFits(job[j]) /\ VerifiedFits(job[j]) BY DEF SInv
<1>1. CASE /\ store' = Restored(j)
           /\ job' = [job EXCEPT ![j].pc = "rekill", ![j].phase = "undone"]
    <2> DEFINE r == [job[j] EXCEPT !.pc = "rekill", !.phase = "undone"]
    <2>1. job' = [job EXCEPT ![j] = r] /\ job'[j] = r BY <1>1 DEF IInv
    <2>2. /\ r \in JobStates /\ r.pc = "rekill" /\ r.phase = "undone" /\ r.saved = job[j].saved
          /\ r.expired = job[j].expired /\ r.res = job[j].res /\ r.solo = job[j].solo
        BY <1>c DEF JobStates, Steps
    <2> HIDE DEF r
    <2>s. job'[j].pc = "rekill" /\ job'[j].phase = "undone" /\ store' = job'[j].saved
        BY <1>1, <2>1, <2>2 DEF Restored
    <2>3. job[j].solo => SoloFits(job[j])'
        BY <2>s DEF SoloFits
    <2>4. job[j].solo /\ job[j].expired => \A a \in Agents : job[j].res[a] \notin Success
        BY <1>a, <1>d DEF VerifiedFits
    <2>5. job[j].solo => VerifiedFits(job[j])'
        BY <2>1, <2>2, <2>4 DEF VerifiedFits
    <2> QED BY <1>a, <2>1, <2>2, <2>3, <2>5, SoloMoves DEF SoloKnows
<1>2. CASE store' = Restored(j) /\ EndAt(j, "undone", Results(job[j].want, job[j].cause))
    <2> DEFINE results == Results(job[j].want, job[j].cause)
    <2>1. results \in [Agents -> Statuses] /\ \A a \in Agents : results[a] \notin Success
        BY <1>c DEF JobStates, Results, Statuses, Success
    <2>2. EndAt(j, "undone", results) BY <1>2
    <2> HIDE DEF results
    <2>3. PICK r \in JobStates :
            /\ job' = [job EXCEPT ![j] = r] /\ job'[j] = r
            /\ r.pc = "over" /\ r.phase = "undone" /\ r.saved = job[j].saved
            /\ r.expired = job[j].expired /\ r.solo = job[j].solo
            /\ r.res = (IF job[j].expired THEN job[j].res ELSE results)
        BY <2>1, <2>2, EndAtEnds DEF Phases
    <2>4. job[j].solo => SoloFits(job[j])' BY <1>2, <2>3 DEF SoloFits, Restored
    <2>5. job[j].solo => VerifiedFits(job[j])'
        BY <1>d, <1>a, <2>1, <2>3 DEF VerifiedFits, Success
    <2> QED BY <1>a, <2>3, <2>4, <2>5, SoloMoves DEF SoloKnows
<1>3. CASE EndAll(j, "rollback_failed") /\ UNCHANGED store
    BY <1>3, <1>a, SoloEndsAll DEF Statuses, Success
<1> QED BY <1>1, <1>2, <1>3 DEF Restore

LEMMA SoloExpire == ASSUME IInv, SInv, NEW j \in Jobs, Expire(j) PROVE SInv'
<1>a. Active(j) /\ UNCHANGED <<line, store, heads, live, staged, up>> BY DEF Expire
<1>b. Loaded' = Loaded BY <1>a DEF Loaded, Mirrored
<1>c. job[j] \in JobStates /\ Consistent(job[j]) BY DEF IInv
<1>d. job[j].solo => SoloFits(job[j]) BY DEF SInv
<1> DEFINE results == Results(job[j].want, "unverified")
<1>1. results \in [Agents -> Statuses] /\ \A a \in Agents : results[a] \notin Success
    BY DEF Results, Statuses, Success
<1> HIDE DEF results
<1> DEFINE r == [job[j] EXCEPT !.expired = TRUE, !.res = results]
<1>2. job' = [job EXCEPT ![j] = r] /\ job'[j] = r BY DEF Expire, results, IInv
<1>3. /\ r \in JobStates /\ r.pc = job[j].pc /\ r.phase = job[j].phase /\ r.saved = job[j].saved
      /\ r.todo = job[j].todo /\ r.want = job[j].want
      /\ r.expired = TRUE /\ r.res = results /\ r.solo = job[j].solo
    BY <1>c, <1>1 DEF JobStates
<1> HIDE DEF r
<1>4. EditOf(job[j])' = EditOf(job[j]) BY <1>a, <1>2, <1>3 DEF EditOf
<1>5. job[j].solo => SoloFits(job[j])'
    BY <1>a, <1>b, <1>d, <1>2, <1>3, <1>4 DEF SoloFits, Named
<1>6. VerifiedFits(job[j])' BY <1>1, <1>2, <1>3 DEF VerifiedFits, Success
<1> QED BY <1>a, <1>2, <1>3, <1>5, <1>6, SoloMoves DEF SoloKnows

\* A new job is alone when nobody else is active; the others are not, from now on.
LEMMA SoloStarted ==
    ASSUME IInv, store' = store, NEW j \in Jobs, NEW r \in JobStates, Started(j, r),
           \/ /\ r.phase = "idle" /\ r.pc \in {"read", "snapshot"}
              /\ \A a \in Agents : r.res[a] \notin Success
           \/ r.phase = "assumed" /\ r.pc = "over" /\ ~r.expired
    PROVE  SInv'
<1> DEFINE solo == \A i \in Jobs \ {j} : ~Active(i)
           first == [r EXCEPT !.solo = solo]
<1>1. job' = [k \in Jobs |-> IF k = j THEN first
                             ELSE IF Active(k) THEN [job[k] EXCEPT !.solo = FALSE] ELSE NoJob]
    BY DEF Started
<1>2. /\ first.pc = r.pc /\ first.phase = r.phase /\ first.res = r.res /\ first.solo = solo
      /\ first.expired = r.expired
    BY DEF JobStates
<1> HIDE DEF first
<1>3. job'[j] = first BY <1>1
<1>4. \A k \in Jobs \ {j} : job'[k].solo = FALSE
    <2>1. NoJob.solo = FALSE BY DEF NoJob
    <2>2. \A k \in Jobs : [job[k] EXCEPT !.solo = FALSE].solo = FALSE BY DEF IInv, JobStates
    <2> HIDE DEF NoJob
    <2> QED BY <1>1, <2>1, <2>2
<1>5. first.solo => \A k \in Jobs \ {j} : ~Active(k)'
    <2>1. NoJob.pc = "idle" BY DEF NoJob
    <2> HIDE DEF NoJob
    <2>2. first.solo => \A k \in Jobs \ {j} : job'[k] = NoJob BY <1>1, <1>2
    <2> QED BY <2>1, <2>2 DEF Active
<1>6. SoloFits(job[j])' /\ VerifiedFits(job[j])' BY <1>2, <1>3 DEF SoloFits, VerifiedFits, Success
<1> QED BY <1>3, <1>4, <1>5, <1>6 DEF SInv

LEMMA SoloAsked ==
    ASSUME IInv, store' = store, NEW j \in Jobs, NEW w \in Asked,
           Started(j, [NoJob EXCEPT !.pc = "snapshot", !.want = w])
    PROVE  SInv'
<1> DEFINE r == [NoJob EXCEPT !.pc = "snapshot", !.want = w]
<1>1. w \in Wants BY AskedAssumption DEF Wants, Values
<1>2. Started(j, r) OBVIOUS
<1>3. r \in JobStates /\ r.pc = "snapshot" /\ r.phase = "idle" /\ r.res = NoJob.res
    BY <1>1, NoJobFields DEF JobStates, Steps
<1>4. \A a \in Agents : r.res[a] \notin Success BY <1>3, NoJobFields DEF Success
<1> HIDE DEF r
<1> QED BY <1>2, <1>3, <1>4, SoloStarted

LEMMA SoloSweep ==
    ASSUME IInv, store' = store, NEW j \in Jobs, NEW kind \in Kinds,
           Started(j, [NoJob EXCEPT !.kind = kind, !.pc = "read"])
    PROVE  SInv'
<1> DEFINE r == [NoJob EXCEPT !.kind = kind, !.pc = "read"]
<1>1. Started(j, r) OBVIOUS
<1>2. r \in JobStates /\ r.pc = "read" /\ r.phase = "idle" /\ r.res = NoJob.res
    BY NoJobFields DEF JobStates, Steps
<1>3. \A a \in Agents : r.res[a] \notin Success BY <1>2, NoJobFields DEF Success
<1> HIDE DEF r
<1> QED BY <1>1, <1>2, <1>3, SoloStarted

LEMMA SoloSave == ASSUME IInv, SInv, NEW j \in Jobs, Save(j) PROVE SInv'
<1>1. store' = store BY DEF Save
<1>2. PICK w \in Asked :
        \/ Started(j, [NoJob EXCEPT !.kind = "save", !.want = w, !.pc = "read"])
        \/ Started(j, [NoJob EXCEPT !.kind = "save", !.want = w, !.pc = "over",
                                    !.phase = "assumed", !.res = Answer(w)])
    BY DEF Save, NoJob
<1>3. w \in Wants /\ "save" \in Kinds BY AskedAssumption DEF Wants, Values, Kinds
<1>4. CASE Started(j, [NoJob EXCEPT !.kind = "save", !.want = w, !.pc = "read"])
    <2> DEFINE r == [NoJob EXCEPT !.kind = "save", !.want = w, !.pc = "read"]
    <2>1. Started(j, r) BY <1>4
    <2>2. r \in JobStates /\ r.pc = "read" /\ r.phase = "idle" /\ r.res = NoJob.res
        BY <1>3, NoJobFields DEF JobStates, Steps
    <2>3. \A a \in Agents : r.res[a] \notin Success BY <2>2, NoJobFields DEF Success
    <2> HIDE DEF r
    <2> QED BY <1>1, <2>1, <2>2, <2>3, SoloStarted
<1>5. CASE Started(j, [NoJob EXCEPT !.kind = "save", !.want = w, !.pc = "over",
                                    !.phase = "assumed", !.res = Answer(w)])
    <2> DEFINE results == Answer(w)
               r == [NoJob EXCEPT !.kind = "save", !.want = w, !.pc = "over",
                                  !.phase = "assumed", !.res = results]
    <2>1. Started(j, r) BY <1>5
    <2>2. results \in [Agents -> Statuses] BY AnswerTyped
    <2> HIDE DEF results
    <2>3. r \in JobStates /\ r.pc = "over" /\ r.phase = "assumed" /\ r.expired = FALSE
        BY <1>3, <2>2, NoJobFields DEF JobStates, Steps
    <2> HIDE DEF r
    <2> QED BY <1>1, <2>1, <2>3, SoloStarted
<1> QED BY <1>2, <1>4, <1>5

LEMMA SoloStays ==
    ASSUME SInv, UNCHANGED <<line, store, heads, live, staged, up, job>> PROVE SInv'
<1>1. Loaded' = Loaded BY DEF Loaded, Mirrored
<1>2. \A j \in Jobs : SoloFits(job[j]) => SoloFits(job[j])' BY <1>1 DEF SoloFits, EditOf, Named
<1>3. \A j \in Jobs : VerifiedFits(job[j]) => VerifiedFits(job[j])'
    BY <1>1 DEF VerifiedFits, Named
<1> QED BY <1>2, <1>3 DEF SInv, Active

LEMMA SoloTrigger == ASSUME IInv, SInv, NEW j \in Jobs, Trigger(j) PROVE SInv'
<1>1. CASE Started(j, [NoJob EXCEPT !.kind = "sweep", !.pc = "read"])
    <2>1. "sweep" \in Kinds /\ store' = store BY DEF Kinds, Trigger
    <2> QED BY <1>1, <2>1, SoloSweep
<1>2. CASE UNCHANGED job
    <2>1. UNCHANGED <<line, store, heads, live, staged, up, job>> BY <1>2 DEF Trigger
    <2> QED BY <2>1, SoloStays
<1> QED BY <1>1, <1>2 DEF Trigger

\* OpenCode comes up: whoever had found it up had been told so already.
LEMMA SoloLifecycle == ASSUME IInv, SInv, Lifecycle PROVE SInv'
<1>1. ~up /\ UNCHANGED <<line, store, heads, staged, job>> BY DEF Lifecycle
<1>2. Loaded' = Loaded /\ \A j \in Jobs : EditOf(job[j])' = EditOf(job[j])
    BY <1>1 DEF Loaded, Mirrored, EditOf
<1>3. \A j \in Jobs : SoloFits(job[j]) => SoloFits(job[j])'
    BY <1>1, <1>2 DEF SoloFits, Named
<1>4. \A j \in Jobs : VerifiedFits(job[j]) => VerifiedFits(job[j])'
    BY <1>1 DEF VerifiedFits
<1> QED BY <1>1, <1>3, <1>4 DEF SInv, Active

LEMMA SoloAdminDies == ASSUME IInv, SInv, AdminDies PROVE SInv'
<1>1. UNCHANGED <<line, store, heads, live, staged, up>> BY DEF AdminDies
<1>2. \A k \in Jobs : job'[k] = job[k] \/ job'[k] = NoJob BY DEF AdminDies, IInv
<1>3. NoJob.solo = FALSE /\ NoJob.pc = "idle" BY DEF NoJob
<1>4. ASSUME NEW j \in Jobs, job'[j].solo
      PROVE  /\ \A k \in Jobs \ {j} : ~Active(k)'
             /\ SoloFits(job[j])' /\ VerifiedFits(job[j])'
    <2>1. job'[j] = job[j] BY <1>2, <1>3, <1>4
    <2>2. /\ \A k \in Jobs \ {j} : ~Active(k)
          /\ SoloFits(job[j]) /\ VerifiedFits(job[j])
        BY <1>4, <2>1 DEF SInv
    <2>3. \A k \in Jobs \ {j} : ~Active(k)' BY <1>2, <1>3, <2>2 DEF Active
    <2>4. SoloFits(job[j])' BY <1>1, <2>1, <2>2 DEF SoloFits, EditOf, Named, Loaded, Mirrored
    <2>5. VerifiedFits(job[j])' BY <1>1, <2>1, <2>2 DEF VerifiedFits, Named, Loaded, Mirrored
    <2> QED BY <2>3, <2>4, <2>5
<1> QED BY <1>4 DEF SInv

LEMMA SoloNext == IInv /\ SInv /\ [Next]_vars => SInv'
<1> SUFFICES ASSUME IInv, SInv, [Next]_vars PROVE SInv' OBVIOUS
<1>1. CASE UNCHANGED vars BY <1>1, SoloStays DEF vars
<1>2. ASSUME NEW j \in Jobs, Work(j) PROVE SInv'
    <2>1. CASE SweepAgain(j)
        <3>1. "sweep" \in Kinds /\ store' = store BY <2>1 DEF Kinds, SweepAgain
        <3> QED BY <2>1, <3>1, SoloSweep DEF SweepAgain
    <2> QED BY <1>2, <2>1, SoloRead, SoloSnapshot, SoloWriteModel, SoloInstallModel, SoloSync,
               SoloKill, SoloWaitHealthy, SoloVerify, SoloRestore DEF Work
<1>3. ASSUME NEW j \in Jobs, AiDevStarts(j) PROVE SInv'
    <2>1. "boot" \in Kinds /\ store' = store BY <1>3 DEF Kinds, AiDevStarts
    <2> QED BY <1>3, <2>1, SoloSweep DEF AiDevStarts
<1>4. ASSUME NEW j \in Jobs, Direct(j) \/ CenterSets(j) PROVE SInv'
    <2>1. store' = store BY <1>4 DEF Direct, CenterSets
    <2>2. \E w \in Asked : Started(j, [NoJob EXCEPT !.pc = "snapshot", !.want = w])
        BY <1>4 DEF Direct, CenterSets
    <2> QED BY <2>1, <2>2, SoloAsked
<1>5. CASE Lifecycle BY <1>5, SoloLifecycle
<1>6. CASE AdminDies BY <1>6, SoloAdminDies
<1> QED BY <1>1, <1>2, <1>3, <1>4, <1>5, <1>6, SoloSave, SoloTrigger, SoloExpire DEF Next

\* Of an application beside which nothing else ran: what it reports as verified or
\* cleared is in the agents' file, unless it could not read that file; a model it
\* has applied and reports as verified is in what OpenCode starts with and in the
\* running OpenCode as well; an agent it was not asked for has the model it had;
\* and the file it took back is as it was (applyAgent, applyAndVerifyBatch,
\* verifyAppliedAgent, restoreAgentModelsConfig).
THEOREM AloneIsTrue == Spec => []SoloApply
<1>1. Init => IInv /\ SInv
    <2> SUFFICES ASSUME Init PROVE SInv BY InitSafe
    <2>1. \A j \in Jobs : job[j] = NoJob BY DEF Init
    <2>2. NoJob.solo = FALSE BY DEF NoJob
    <2> QED BY <2>1, <2>2 DEF SInv
<1>2. IInv /\ SInv /\ [Next]_vars => IInv' /\ SInv' BY NextSafe, SoloNext
<1>3. IInv /\ SInv => SoloApply
    <2> SUFFICES ASSUME IInv, SInv, NEW j \in Jobs, job[j].pc = "over", job[j].solo, NEW a \in Agents
                 PROVE  /\ job[j].res[a] \in {"verified", "cleared"} /\ job[j].phase # "assumed" =>
                             store[a] = job[j].want[a]
                        /\ job[j].res[a] = "verified" /\ job[j].phase = "written" =>
                             Loaded[a] = store[a] /\ Shown(a) = "effective"
                        /\ job[j].phase = "written" /\ job[j].want[a] = "keep" =>
                             store[a] = job[j].saved[a]
                        /\ job[j].phase = "undone" => store = job[j].saved
        BY DEF SoloApply
    <2>1. SoloFits(job[j]) /\ VerifiedFits(job[j]) BY DEF SInv
    <2>2. job[j].res[a] = "verified" /\ job[j].phase = "written" => Shown(a) = "effective"
        BY <2>1 DEF VerifiedFits, Shown, Success
    <2> QED BY <2>1, <2>2 DEF SoloFits, VerifiedFits, Success
<1> QED BY <1>1, <1>2, <1>3, PTL DEF Spec
=============================================================================
