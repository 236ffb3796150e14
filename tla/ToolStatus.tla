------------------------------ MODULE ToolStatus ------------------------------
(* The tool status of projects (src/admin/lib/project-tool-status.ts): codegraph *)
(* probes behind a cache and a semaphore, and the lean-ctx scan that concurrent  *)
(* overviews share (src/admin/lib/projects-overview.ts).  The site-wide caches   *)
(* have the lean-ctx cache's life: filled by a command, dropped by invalidate.   *)
EXTENDS Naturals, Sequences, FiniteSets, SequencesExt

CONSTANTS
  ProjectNames, \* names of directories in the workspace
  Viewers,      \* overview requests served at one time
  Concurrency,  \* probes that may run at one time
  Unset         \* no value

ASSUME DirectoriesAssumption == IsFiniteSet(ProjectNames)
ASSUME ProbesAssumption == IsFiniteSet(Viewers) /\ Concurrency \in Nat

VARIABLES
  indexed,   \* projects that have a codegraph index
  cache,     \* codegraph status per project, or Unset
  leanCache, \* the set of projects whose lean-ctx scan is cached, or Unset
  inFlight,  \* the scans that may be joined: set of projects -> the viewer that runs it
  view,      \* per viewer: its step, the projects it lists, who scans for it
  probe,     \* per viewer and project: the step of its probe and what it has read
  slots,     \* probes that the semaphore counts
  queue      \* probes that wait for it

toolVars == <<indexed, cache, leanCache, inFlight, view, probe, slots, queue>>

Readings == {"indexed", "missing", "unknown"}
NoView == [pc |-> "idle", list |-> {}, on |-> Unset]
NoProbe == [pc |-> "idle", read |-> Unset]

Views == [pc : {"idle", "lean", "scan", "join", "probes"}, list : SUBSET ProjectNames,
          on : Viewers \union {Unset}]
Probes == [pc : {"idle", "due", "queued", "held", "running", "stored"}, read : Readings \union {Unset}]

ToolTypeOK ==
  /\ indexed \subseteq ProjectNames /\ cache \in [ProjectNames -> Readings \union {Unset}]
  /\ leanCache \in (SUBSET ProjectNames) \union {Unset}
  /\ inFlight \in [SUBSET ProjectNames -> Viewers \union {Unset}]
  /\ view \in [Viewers -> Views] /\ probe \in [Viewers -> [ProjectNames -> Probes]]
  /\ slots \in 0..Concurrency /\ queue \in Seq(Viewers \X ProjectNames)

ToolInit ==
  /\ indexed = {}
  /\ cache = [n \in ProjectNames |-> Unset] /\ leanCache = Unset
  /\ inFlight = [S \in SUBSET ProjectNames |-> Unset]
  /\ view = [v \in Viewers |-> NoView]
  /\ probe = [v \in Viewers |-> [n \in ProjectNames |-> NoProbe]]
  /\ slots = 0 /\ queue = <<>>

Truth(n) == IF n \in indexed THEN "indexed" ELSE "missing"

\* invalidate(name) and invalidate(): what is in flight is forgotten, not stopped.
Invalidate(names) ==
  /\ cache' = [n \in ProjectNames |-> IF n \in names THEN Unset ELSE cache[n]]
  /\ leanCache' = Unset
  /\ inFlight' = [S \in SUBSET ProjectNames |-> Unset]
  /\ UNCHANGED <<view, probe, slots, queue>>

\* GET /api/projects/overview: collectProjectOverviews lists the directories.
Overview(v, list) ==
  /\ view[v].pc = "idle"
  /\ view' = [view EXCEPT ![v] = [NoView EXCEPT !.pc = "lean", !.list = list]]
  /\ UNCHANGED <<indexed, cache, leanCache, inFlight, probe, slots, queue>>

ToProbes(viewers) ==
  /\ view' = [v \in Viewers |->
       IF v \in viewers THEN [view[v] EXCEPT !.pc = "probes", !.on = Unset] ELSE view[v]]
  /\ probe' = [v \in Viewers |-> [n \in ProjectNames |->
       IF v \in viewers /\ n \in view[v].list THEN [NoProbe EXCEPT !.pc = "due"] ELSE probe[v][n]]]

\* probeLeanCtx: the cache, or a scan in flight for the same projects, or a new one.
LeanBegins(v) ==
  /\ view[v].pc = "lean"
  /\ IF leanCache = view[v].list \/ view[v].list = {}
     THEN ToProbes({v}) /\ UNCHANGED inFlight
     ELSE IF inFlight[view[v].list] # Unset
     THEN view' = [view EXCEPT ![v].pc = "join", ![v].on = inFlight[view[v].list]]
          /\ UNCHANGED <<inFlight, probe>>
     ELSE /\ inFlight' = [inFlight EXCEPT ![view[v].list] = v]
          /\ view' = [view EXCEPT ![v].pc = "scan"] /\ UNCHANGED probe
  /\ UNCHANGED <<indexed, cache, leanCache, slots, queue>>

\* Those who wait for the scan of a viewer, that viewer included.
Joined(v) == {v} \union {w \in Viewers : view[w].pc = "join" /\ view[w].on = v}

\* The scan returns, to all who wait for it: its finally clause takes out the
\* entry of its projects, whichever scan has put it there.
LeanEnds(v) ==
  /\ view[v].pc = "scan"
  /\ leanCache' = view[v].list
  /\ inFlight' = [inFlight EXCEPT ![view[v].list] = Unset]
  /\ ToProbes(Joined(v))
  /\ UNCHANGED <<indexed, cache, slots, queue>>

\* MUTANT: a released slot is not handed to the first in the queue.
PassOnNot == <<slots - 1, queue, {}>>
\* semaphore.release: the slots in use, the queue, and who is woken.
PassOn ==
  IF queue = <<>> THEN <<slots - 1, queue, {}>>
  ELSE <<slots, Tail(queue), {Head(queue)}>>

SlotReleased(pr) ==
  /\ slots' = PassOn[1] /\ queue' = PassOn[2]
  /\ probe' = [v \in Viewers |-> [n \in ProjectNames |->
       IF <<v, n>> \in PassOn[3] THEN [pr[v][n] EXCEPT !.pc = "held"] ELSE pr[v][n]]]

\* probe: a hit in the cache, a slot, or a place in the queue.
ProbeBegins(v, n) ==
  /\ probe[v][n].pc = "due"
  /\ IF cache[n] # Unset
     THEN probe' = [probe EXCEPT ![v][n].pc = "idle"] /\ UNCHANGED <<slots, queue>>
     ELSE IF slots < Concurrency
     THEN probe' = [probe EXCEPT ![v][n].pc = "held"] /\ slots' = slots + 1 /\ UNCHANGED queue
     ELSE probe' = [probe EXCEPT ![v][n].pc = "queued"] /\ queue' = Append(queue, <<v, n>>)
          /\ UNCHANGED slots
  /\ UNCHANGED <<indexed, cache, leanCache, inFlight, view>>

\* With the slot, the cache is looked at again.
ProbeHeld(v, n) ==
  /\ probe[v][n].pc = "held"
  /\ IF cache[n] # Unset
     THEN SlotReleased([probe EXCEPT ![v][n].pc = "idle"])
     ELSE probe' = [probe EXCEPT ![v][n].pc = "running"] /\ UNCHANGED <<slots, queue>>
  /\ UNCHANGED <<indexed, cache, leanCache, inFlight, view>>

\* codegraph status runs; what cannot be parsed is unknown (null).
ProbeReads(v, n) ==
  /\ probe[v][n].pc = "running"
  /\ \E r \in {Truth(n), "unknown"} : probe' = [probe EXCEPT ![v][n] = [pc |-> "stored", read |-> r]]
  /\ UNCHANGED <<indexed, cache, leanCache, inFlight, view, slots, queue>>

\* The caller's continuation: the reading goes into the cache whatever has been
\* invalidated since.
ProbeStores(v, n) ==
  /\ probe[v][n].pc = "stored"
  /\ cache' = [cache EXCEPT ![n] = probe[v][n].read]
  /\ SlotReleased([probe EXCEPT ![v][n] = NoProbe])
  /\ UNCHANGED <<indexed, leanCache, inFlight, view>>

\* All probes have settled: the overview is answered.
OverviewEnds(v) ==
  /\ view[v].pc = "probes" /\ \A n \in ProjectNames : probe[v][n].pc = "idle"
  /\ view' = [view EXCEPT ![v] = NoView]
  /\ UNCHANGED <<indexed, cache, leanCache, inFlight, probe, slots, queue>>

\* An entry of a cache reaches its time to live.
CacheExpires ==
  /\ \/ /\ \E n \in ProjectNames : cache[n] # Unset /\ cache' = [cache EXCEPT ![n] = Unset]
        /\ UNCHANGED leanCache
     \/ leanCache # Unset /\ leanCache' = Unset /\ UNCHANGED cache
  /\ UNCHANGED <<indexed, inFlight, view, probe, slots, queue>>

ProbeWork(v) ==
  \/ LeanBegins(v) \/ LeanEnds(v) \/ OverviewEnds(v)
  \/ \E n \in ProjectNames :
       ProbeBegins(v, n) \/ ProbeHeld(v, n) \/ ProbeReads(v, n) \/ ProbeStores(v, n)

-----------------------------------------------------------------------------
(* Properties *)

\* The probes that have a slot, and those that wait for one.
Holding == {w \in Viewers \X ProjectNames : probe[w[1]][w[2]].pc \in {"held", "running", "stored"}}
Waiting == {w \in Viewers \X ProjectNames : probe[w[1]][w[2]].pc = "queued"}

\* The semaphore of the probes (createSemaphore): no more than Concurrency of them
\* have a slot, nobody waits while there is a free one, and who waits is in the
\* queue, once, so that a release can hand the slot on.
SemaphoreSound ==
  /\ Cardinality(Holding) <= Concurrency
  /\ Waiting # {} => Cardinality(Holding) = Concurrency
  /\ {queue[i] : i \in DOMAIN queue} = Waiting /\ Len(queue) = Cardinality(Waiting)

\* The scan that several overviews share (leanCtxInFlight): who waits for another's
\* waits for one that is under way, of the very projects it lists, however often
\* invalidate has emptied the map of scans meanwhile.
ScanShared ==
  \A v \in Viewers : view[v].pc = "join" =>
    LET w == view[v].on IN w \in Viewers /\ view[w].pc = "scan" /\ view[w].list = view[v].list
=============================================================================
