------------------------------ MODULE Credentials ------------------------------
(* The ChatGPT login (src/admin/routes/providers-oauth.ts, lib/openai-oauth.ts,  *)
(* lib/opencode-auth.ts) and the cache of model probes that its end invalidates  *)
(* (src/admin/lib/model-probe.ts).                                               *)
EXTENDS Naturals, Sequences

CONSTANTS
  Flows,        \* device logins; a flow also names the tokens it is exchanged for
  Old,          \* a credential from before
  Unset,        \* no credential, no entry
  Models,       \* models of the provider
  Serves,       \* which credential may use which model
  Responses,    \* what OpenCode may answer to a probe
  Jobs,         \* connects and disconnects under way at one time
  Probes,       \* probes under way at one time
  MaxRequests,  \* bound: requests
  MaxFaults     \* bound: failing commands, expired flows, deaths of the admin process

Creds == Flows \union {Old, Unset}
ASSUME ServesAssumption == Serves \subseteq (Creds \ {Unset}) \X Models
ASSUME LoginBoundsAssumption == MaxRequests \in Nat /\ MaxFaults \in Nat

VARIABLES
  authJson, \* the provider's entry and that of another one in auth.json
  tmp,      \* auth.json.tmp: one name for every writer
  inUse,    \* the entry that the running OpenCode works with
  flow,     \* pendingFlows, with what the provider knows of each
  cache,    \* the health cache: model -> fingerprint of a credential -> status
  job,      \* connects and disconnects
  probe,    \* probes
  requests, faults

loginVars == <<authJson, tmp, inUse, flow, cache, job, probe, requests, faults>>

\* What the text of a response may match anywhere, in the order of the tests,
\* and the status each stands for.
Marks == <<"quota", "timeout", "aborted", "retired", "wrong_endpoint", "unsupported">>
StatusOf(mark) ==
  CASE mark = "quota" -> "quota_exceeded" [] mark = "unsupported" -> "unavailable" [] OTHER -> mark
Statuses == {"healthy", "retryable", "unavailable", "mismatch", "quota_exceeded", "timeout",
             "aborted", "retired", "wrong_endpoint"}
Entries == [openai : Creds, other : {"key", "none"}]
ASSUME LoginsAssumption == Flows # {} /\ Models # {} /\ Unset \notin Flows \union Statuses \union Entries
EmptyCache == [m \in Models |-> [c \in Creds |-> Unset]]
NoJob == [pc |-> "idle", kind |-> "connect", flow |-> CHOOSE f \in Flows : TRUE, prev |-> Unset,
         undo |-> FALSE, failed |-> FALSE, before |-> Unset, seen |-> EmptyCache, solo |-> FALSE]
NoProbe == [pc |-> "idle", model |-> CHOOSE m \in Models : TRUE, cred |-> Unset,
            seen |-> EmptyCache, status |-> Unset]

Flowing == [pc : {"new", "pending", "ready", "gone"},
            device : {"waiting", "approved", "denied", "used"}, expired : BOOLEAN]
Caches == [Models -> [Creds -> Statuses \union {Unset}]]
JobStates == [pc : {"idle", "snapshot", "exchange", "edit", "move", "clear", "restart", "look",
                    "drop", "ok", "failed", "reverted"},
              kind : {"connect", "disconnect", "other"}, flow : Flows, prev : Creds,
              undo : BOOLEAN, failed : BOOLEAN, before : Entries \union {Unset}, seen : Caches,
              solo : BOOLEAN]
ProbeStates == [pc : {"idle", "read", "fingerprint", "prune", "ask", "store"},
                model : Models \union {Unset}, cred : Creds, seen : Caches,
                status : Statuses \union {Unset}]

LoginTypeOK ==
  /\ authJson \in Entries /\ tmp \in Entries \union {Unset} /\ inUse \in Creds
  /\ flow \in [Flows -> Flowing] /\ cache \in Caches
  /\ job \in [Jobs -> JobStates] /\ probe \in [Probes -> ProbeStates]
  /\ requests \in 0..MaxRequests /\ faults \in 0..MaxFaults

LoginInit ==
  /\ authJson \in [openai : {Old, Unset}, other : {"none"}] /\ inUse = authJson.openai /\ tmp = Unset
  /\ flow = [f \in Flows |-> [pc |-> "new", device |-> "waiting", expired |-> FALSE]]
  /\ cache = EmptyCache /\ job = [o \in Jobs |-> NoJob] /\ probe = [p \in Probes |-> NoProbe]
  /\ requests = 0 /\ faults = 0

Fault == faults < MaxFaults /\ faults' = faults + 1
Request == requests < MaxRequests /\ requests' = requests + 1
Ended(o) == job[o].pc \in {"idle", "ok", "failed", "reverted"}
\* Two connects of one flow: the button was pressed twice.
Twin(r, q) == r.kind = "connect" /\ q.kind = "connect" /\ r.flow = q.flow
\* A request begins: who is under way is alone, but for twins, no more.
Crowd(r) == [o \in Jobs |-> IF Ended(o) THEN NoJob ELSE [job[o] EXCEPT !.solo = @ /\ Twin(r, job[o])]]
Begins(o, r) ==
  /\ Ended(o) /\ o = CHOOSE k \in Jobs : Ended(k)
  /\ LET solo == /\ \A k \in Jobs : Ended(k) \/ Twin(r, job[k])
                 /\ \A p \in Probes : probe[p].pc = "idle"
     IN job' = [Crowd(r) EXCEPT ![o] = [r EXCEPT !.solo = solo, !.before = authJson]]

-----------------------------------------------------------------------------
(* The login *)

\* POST start: a device code, and a flow that waits for it.
StartLogin(f) ==
  /\ flow[f].pc = "new" /\ Request
  /\ flow' = [flow EXCEPT ![f].pc = "pending"]
  /\ UNCHANGED <<authJson, tmp, inUse, cache, job, probe, faults>>

\* External: the user answers in the browser.
UserAnswers(f) ==
  /\ flow[f].pc = "pending" /\ flow[f].device = "waiting"
  /\ \E d \in {"approved", "denied"} : flow' = [flow EXCEPT ![f].device = d]
  /\ UNCHANGED <<authJson, tmp, inUse, cache, job, probe, requests, faults>>

Expire(f) ==
  /\ flow[f].pc \in {"pending", "ready"} /\ ~flow[f].expired /\ Fault
  /\ flow' = [flow EXCEPT ![f].expired = TRUE]
  /\ UNCHANGED <<authJson, tmp, inUse, cache, job, probe, requests>>

\* POST poll: 403 and 404 are "not yet", any other failure ends the flow; an
\* expired one is dropped when somebody asks for it.
Poll(f) ==
  /\ flow[f].pc = "pending"
  /\ \/ flow[f].expired /\ flow' = [flow EXCEPT ![f].pc = "gone"]
     \/ ~flow[f].expired /\ flow[f].device = "approved" /\ flow' = [flow EXCEPT ![f].pc = "ready"]
     \/ ~flow[f].expired /\ flow[f].device = "denied" /\ flow' = [flow EXCEPT ![f].pc = "gone"]
  /\ UNCHANGED <<authJson, tmp, inUse, cache, job, probe, requests, faults>>

\* POST apply: a flow that is ready; it stays in the map until the answer.
Connect(o) ==
  /\ Request
  /\ \E f \in Flows :
       /\ flow[f].pc = "ready" /\ ~flow[f].expired
       /\ Begins(o, [NoJob EXCEPT !.kind = "connect", !.flow = f, !.pc = "snapshot"])
  /\ UNCHANGED <<authJson, tmp, inUse, flow, cache, probe, faults>>

Disconnect(o) ==
  /\ Request /\ Begins(o, [NoJob EXCEPT !.kind = "disconnect", !.pc = "edit"])
  /\ UNCHANGED <<authJson, tmp, inUse, flow, cache, probe, faults>>

\* A key of another provider is set: the same file, the same temporary name.
SetOther(o) ==
  /\ Request /\ Begins(o, [NoJob EXCEPT !.kind = "other", !.pc = "edit"])
  /\ UNCHANGED <<authJson, tmp, inUse, flow, cache, probe, faults>>

JobAt(o, pc) == job[o].pc = pc
To(o, pc) == job' = [job EXCEPT ![o].pc = pc] /\ UNCHANGED flow
\* clearPendingFlow, and the answer.
EndJob(o, pc) ==
  /\ job' = [job EXCEPT ![o].pc = pc]
  /\ flow' = IF job[o].kind = "connect" THEN [flow EXCEPT ![job[o].flow].pc = "gone"] ELSE flow

\* What could not be read is rolled back to no entry.
Snapshot(o) ==
  /\ JobAt(o, "snapshot")
  /\ \/ job' = [job EXCEPT ![o].pc = "exchange", ![o].prev = authJson.openai] /\ UNCHANGED faults
     \/ Fault /\ job' = [job EXCEPT ![o].pc = "exchange", ![o].prev = Unset]
  /\ UNCHANGED <<authJson, tmp, inUse, flow, cache, probe, requests>>

\* MUTANT: a failed exchange is rolled back like a failed apply.
ExchangeFailsBack(o) == job' = [job EXCEPT ![o].pc = "edit", ![o].undo = TRUE] /\ UNCHANGED flow
\* Nothing has been written yet: the entry that is there stays.
ExchangeFails(o) == EndJob(o, "failed")

\* The authorization code buys one set of tokens.
Exchange(o) ==
  /\ JobAt(o, "exchange")
  /\ LET f == job[o].flow IN
     \/ /\ flow[f].device = "approved"
        /\ flow' = [flow EXCEPT ![f].device = "used"]
        /\ job' = [job EXCEPT ![o].pc = "edit"] /\ UNCHANGED faults
     \/ flow[f].device = "used" /\ ExchangeFails(o) /\ UNCHANGED faults
     \/ Fault /\ ExchangeFails(o)
  /\ UNCHANGED <<authJson, tmp, inUse, cache, probe, requests>>

\* restoreAuthEntry
Restored(o) == job[o].prev

\* Something has failed: an apply rolls back and goes on past failures of that.
Fails(o) ==
  IF job[o].kind # "connect" THEN EndJob(o, "failed")
  ELSE IF ~job[o].undo THEN job' = [job EXCEPT ![o].pc = "edit", ![o].undo = TRUE] /\ UNCHANGED flow
  ELSE IF JobAt(o, "restart")
    THEN /\ job' = [job EXCEPT ![o].pc = "reverted", ![o].failed = TRUE]
         /\ flow' = [flow EXCEPT ![job[o].flow].pc = "gone"]
  ELSE /\ job' = [job EXCEPT ![o].pc = IF @ = "clear" THEN "restart" ELSE "clear", ![o].failed = TRUE]
       /\ UNCHANGED flow

\* jq writes the temporary file, mv puts it in place.
Edit(o) ==
  /\ JobAt(o, "edit")
  /\ \/ /\ tmp' = IF job[o].kind = "other" THEN [authJson EXCEPT !.other = "key"]
                  ELSE [authJson EXCEPT !.openai =
                          IF job[o].undo THEN Restored(o)
                          ELSE IF job[o].kind = "connect" THEN job[o].flow ELSE Unset]
        /\ To(o, "move") /\ UNCHANGED faults
     \/ Fault /\ Fails(o) /\ UNCHANGED tmp
  /\ UNCHANGED <<authJson, inUse, cache, probe, requests>>

Move(o) ==
  /\ JobAt(o, "move")
  /\ IF tmp # Unset THEN authJson' = tmp /\ tmp' = Unset /\ To(o, "clear")
     ELSE Fails(o) /\ UNCHANGED <<authJson, tmp>>
  /\ UNCHANGED <<inUse, cache, probe, requests, faults>>

\* clearProviderCache of the plugin.
Clear(o) ==
  /\ JobAt(o, "clear")
  /\ \/ To(o, "restart") /\ UNCHANGED faults
     \/ Fault /\ Fails(o)
  /\ UNCHANGED <<authJson, tmp, inUse, cache, probe, requests>>

\* restartAiDev: OpenCode reads the store when it comes up, even if nobody waits for it.
RestartAiDev(o) ==
  /\ JobAt(o, "restart")
  /\ \/ /\ inUse' = authJson.openai /\ UNCHANGED faults
        /\ IF job[o].undo THEN EndJob(o, "reverted") ELSE To(o, "look")
     \/ Fault /\ Fails(o) /\ inUse' \in {inUse, authJson.openai}
  /\ UNCHANGED <<authJson, tmp, cache, probe, requests>>

\* invalidateProbeCacheForProvider reads the cache and writes it back without
\* the provider's entries; what goes wrong is swallowed, a failing write included.
Look(o) ==
  /\ JobAt(o, "look")
  /\ \/ job' = [job EXCEPT ![o].pc = "drop", ![o].seen = cache] /\ UNCHANGED <<flow, faults>>
     \/ Fault /\ EndJob(o, "ok")
  /\ UNCHANGED <<authJson, tmp, inUse, cache, probe, requests>>

\* The cache holds the ChatGPT provider's entries: another provider's are not among them.
Dropped(o) == IF job[o].kind = "other" THEN job[o].seen ELSE EmptyCache

Drop(o) ==
  /\ JobAt(o, "drop")
  /\ \/ cache' = Dropped(o) /\ UNCHANGED faults
     \/ Fault /\ UNCHANGED cache
  /\ EndJob(o, "ok")
  /\ UNCHANGED <<authJson, tmp, inUse, probe, requests>>

-----------------------------------------------------------------------------
(* Probes *)

\* probeModel, for a page or the reconciler, which also prunes the entries of the
\* provider as a whole (pruneStaleProbeCacheForProvider): no model, no question.
Ask(p) ==
  /\ probe[p].pc = "idle" /\ Request
  /\ \E m \in Models \union {Unset} : probe' = [probe EXCEPT ![p] = [NoProbe EXCEPT !.pc = "read", !.model = m]]
  /\ job' = Crowd([kind |-> "probe"])
  /\ UNCHANGED <<authJson, tmp, inUse, flow, cache, faults>>

\* A cache that cannot be read is taken for an empty one.
ReadCache(p) ==
  /\ probe[p].pc = "read"
  /\ \/ probe' = [probe EXCEPT ![p].pc = "fingerprint", ![p].seen = cache] /\ UNCHANGED faults
     \/ Fault /\ probe' = [probe EXCEPT ![p].pc = "fingerprint", ![p].seen = EmptyCache]
  /\ UNCHANGED <<authJson, tmp, inUse, flow, cache, job, requests>>

\* The fingerprint is that of the store now, or that of no entry when it cannot be
\* read; entries of the model, or of all, under another one are dropped from what was read.
Kept(p, cred) ==
  [m \in Models |-> [c \in Creds |->
     IF c = cred \/ probe[p].model \notin {m, Unset} THEN probe[p].seen[m][c] ELSE Unset]]
Fingerprinted(p, cred) ==
  LET hit == probe[p].model = Unset \/ probe[p].seen[probe[p].model][cred] # Unset
      pruned == Kept(p, cred) # probe[p].seen
  IN probe' = [probe EXCEPT ![p] =
       IF hit /\ ~pruned THEN NoProbe
       ELSE [@ EXCEPT !.pc = IF pruned THEN "prune" ELSE "ask", !.seen = Kept(p, cred), !.cred = cred]]
Fingerprint(p) ==
  /\ probe[p].pc = "fingerprint"
  /\ \/ Fingerprinted(p, authJson.openai) /\ UNCHANGED faults
     \/ Fault /\ Fingerprinted(p, Unset)
  /\ UNCHANGED <<authJson, tmp, inUse, flow, cache, job, requests>>

\* Whether the write succeeds is not looked at, here and in Store.
Prune(p) ==
  /\ probe[p].pc = "prune"
  /\ \/ cache' = probe[p].seen /\ UNCHANGED faults
     \/ Fault /\ UNCHANGED cache
  /\ probe' = [probe EXCEPT ![p] =
       IF @.model = Unset \/ @.seen[@.model][@.cred] # Unset THEN NoProbe
       ELSE [@ EXCEPT !.pc = "ask"]]
  /\ UNCHANGED <<authJson, tmp, inUse, flow, job, requests>>

\* classifyProbeResponse: the first mark found anywhere in the response decides,
\* then an error, then the assistant's answer.
Classify(r) ==
  LET found == {i \in DOMAIN Marks : Marks[i] \in r.marks} IN
  IF found # {} THEN StatusOf(Marks[CHOOSE i \in found : \A j \in found : i <= j])
  ELSE IF ~r.json THEN "retryable"
  ELSE CASE r.error = "missing" -> "unavailable"
         [] r.error = "other" -> "retryable"
         [] r.error = "none" /\ r.answer = "text" -> "healthy"
         [] r.error = "none" /\ r.answer = "other model" -> "mismatch"
         [] OTHER -> "retryable"

\* The throwaway session answers with the credential that OpenCode has loaded; an
\* unreachable server is not recorded, a failing command is by its own words.
ProbeAnswer(p) ==
  /\ probe[p].pc = "ask"
  /\ \/ \E r \in Responses :
          /\ (r.answer = "text") <=> (<<inUse, probe[p].model>> \in Serves)
          /\ probe' = [probe EXCEPT ![p].pc = "store", ![p].status = Classify(r)]
          /\ UNCHANGED faults
     \/ Fault /\ probe' = [probe EXCEPT ![p] = NoProbe]
     \/ /\ Fault
        /\ \E status \in {"timeout", "aborted", "quota_exceeded"} :
             probe' = [probe EXCEPT ![p].pc = "store", ![p].status = status]
  /\ UNCHANGED <<authJson, tmp, inUse, flow, cache, job, requests>>

\* The cache as it was read before the probe is written back with the status.
Store(p) ==
  /\ probe[p].pc = "store"
  /\ \/ /\ cache' = [probe[p].seen EXCEPT ![probe[p].model][probe[p].cred] = probe[p].status]
        /\ UNCHANGED faults
     \/ Fault /\ UNCHANGED cache
  /\ probe' = [probe EXCEPT ![p] = NoProbe]
  /\ UNCHANGED <<authJson, tmp, inUse, flow, job, requests>>

\* retryAfter has passed.
EntryExpires ==
  /\ Fault
  /\ \E m \in Models, c \in Creds : cache[m][c] # Unset /\ cache' = [cache EXCEPT ![m][c] = Unset]
  /\ UNCHANGED <<authJson, tmp, inUse, flow, job, probe, requests>>

\* The admin process dies: its flows are gone, what it was doing stops.
AdminDies ==
  /\ Fault
  /\ flow' = [f \in Flows |-> IF flow[f].pc = "new" THEN flow[f] ELSE [flow[f] EXCEPT !.pc = "gone"]]
  /\ job' = [o \in Jobs |-> NoJob] /\ probe' = [p \in Probes |-> NoProbe]
  /\ UNCHANGED <<authJson, tmp, inUse, cache, requests>>

LoginNext ==
  \/ \E f \in Flows : StartLogin(f) \/ UserAnswers(f) \/ Expire(f) \/ Poll(f)
  \/ \E o \in Jobs :
       \/ Connect(o) \/ Disconnect(o) \/ SetOther(o) \/ Snapshot(o) \/ Exchange(o) \/ Edit(o)
       \/ Move(o) \/ Clear(o) \/ RestartAiDev(o) \/ Look(o) \/ Drop(o)
  \/ \E p \in Probes : Ask(p) \/ ReadCache(p) \/ Fingerprint(p) \/ Prune(p) \/ ProbeAnswer(p) \/ Store(p)
  \/ EntryExpires \/ AdminDies

LoginSpec == LoginInit /\ [][LoginNext]_loginVars

-----------------------------------------------------------------------------
(* Properties *)

\* A connect that ran alone, or next to a second one of the same login, is all or
\* nothing: after "connected" the tokens of
\* its flow are in the store and in OpenCode, and no probe of before is cached;
\* after a rollback without failures the entry of before is back in both.  The
\* other provider's entry is never touched, and the flow cannot be used again.
SoloConnect ==
  \A o \in Jobs : Ended(o) /\ job[o].solo /\ job[o].kind # "other" =>
    /\ authJson.other = job[o].before.other
    /\ job[o].kind = "connect" => flow[job[o].flow].pc = "gone"
    /\ job[o].pc = "ok" =>
         /\ authJson.openai = IF job[o].kind = "connect" THEN job[o].flow ELSE Unset
         /\ inUse = authJson.openai
         /\ faults = 0 => cache = EmptyCache
    /\ job[o].pc = "reverted" /\ ~job[o].failed /\ job[o].prev # Unset =>
         authJson = job[o].before /\ inUse = authJson.openai

-----------------------------------------------------------------------------
(* Statements of the repository that the code does not keep. *)

\* What the comment of classifyProbeResponse says: only a model that is confirmed
\* dead is recorded as such.  The tests look for their marks in the whole text of
\* the response, times and identifiers included.
OnlyDeadBlocked ==
  [][\A p \in Probes : probe[p].pc = "ask" /\ probe'[p].pc = "store"
       /\ <<inUse, probe[p].model>> \in Serves =>
         probe'[p].status \notin {"retired", "unavailable", "wrong_endpoint"}]_loginVars

\* What docs/knowledge says of the cache: an entry is scoped by the credential, a
\* changed credential forces a new observation.  A probe that straddles the
\* change records what the old credential could do under the new one.
VerdictsScoped ==
  \A m \in Models, c \in Creds : cache[m][c] = "healthy" => <<c, m>> \in Serves
=============================================================================
