------------------------------ MODULE GitHosting ------------------------------
(* The Git hosting credentials: GitLab tokens in glab's config.yml, their        *)
(* rotation (src/admin/lib/gitlab-token-rotation.ts), the evaluation that runs   *)
(* at an interval (git-hosting-auth-scheduler.ts), the connect and disconnect of *)
(* an instance (glab-auth.ts), GitHub's login (gh-auth.ts) and the state file.   *)
EXTENDS Naturals, FiniteSets, Sequences

CONSTANTS
  Hosts,        \* GitLab hosts
  Tick,         \* the worker of an evaluation; at most one is in flight
  Rotations,    \* rotations that somebody asks for
  Users,        \* connects and disconnects of an instance
  Gates,        \* what the version, the scopes and the approval may say; "none" lets pass
  MaxRequests,  \* bound: evaluations, rotations, connects and disconnects
  MaxDays,      \* bound: how often a deadline comes nearer
  MaxFaults     \* bound: failing commands and requests, deaths of the admin process

Rotators == Rotations \union {Tick}
Workers == Rotators \union Users
Tokens == 1..(MaxRequests + 1)  \* every request makes at most one
None == 0
ASSUME WorkersAssumption == Tick \notin Rotations \union Users /\ Rotations \intersect Users = {}
ASSUME HostsAssumption == Hosts # {}
ASSUME BoundsAssumption == MaxRequests \in Nat /\ MaxDays \in Nat /\ MaxFaults \in Nat

VARIABLES
  config,    \* config.yml: the token of every host
  helper,    \* hosts that git asks the glab helper about
  made,      \* GitLab: how many tokens there have been
  live,      \* GitLab: the tokens that work
  expires,   \* GitLab: how near the end of a token is
  queue,     \* locks: who waits for the rotation of a host, the holder first
  w,         \* the workers
  todo,      \* the evaluation: the hosts that are left ...
  found,     \* ... and what it found
  state,     \* git-hosting-auth-state.json
  gh,        \* GitHub: logged in, and is git wired to it
  page,      \* a read of GitHub's status, between the answer and its use
  crossed,   \* hosts whose token was changed by a rewrite of the whole config.yml
  requests, days, faults

vars == <<config, helper, made, live, expires, queue, w, todo, found, state, gh, page, crossed,
          requests, days, faults>>
bounds == <<requests, days, faults>>

Deadlines == {"later", "soon", "past", "never"}
Codes == {"invalid_expired", "insufficient_scope", "unsupported_version", "version_unknown",
          "impersonation_unconfirmed", "persistence_failed", "ambiguous_rotation",
          "configuration_invalid", "unreachable"}
ASSUME GatesAssumption == Gates \subseteq Codes \union {"none"}
Results == Codes \union {"healthy", "rotated", "unknown"}
GhVerdicts == {"valid", "invalid", "unreachable"}
Idle == [pc |-> "idle", host |-> CHOOSE h \in Hosts : TRUE, token |-> None, seen |-> [h \in Hosts |-> None],
         result |-> "unknown", saves |-> FALSE]

Pcs == {"idle", "wait", "inspect", "post", "login", "helper", "look", "write", "verify", "persist", "next"}
WorkerStates == [pc : Pcs, host : Hosts, token : Tokens \union {None}, seen : [Hosts -> Tokens \union {None}],
                 result : Results, saves : BOOLEAN]

\* Type correctness.
TypeOK ==
  /\ config \in [Hosts -> Tokens \union {None}] /\ helper \subseteq Hosts
  /\ made \in [Hosts -> Tokens] /\ live \in [Hosts -> SUBSET Tokens] /\ expires \in [Hosts -> [Tokens -> Deadlines]]
  /\ queue \in [Hosts -> Seq(Rotators)] /\ w \in [Workers -> WorkerStates]
  /\ todo \subseteq Hosts /\ found \in [Hosts -> Results]
  /\ state \in [gitlab : [Hosts -> Results], github : GhVerdicts]
  /\ gh \in [in : BOOLEAN, wired : BOOLEAN] /\ page \in GhVerdicts \union {"idle"} /\ crossed \subseteq Hosts
  /\ requests \in 0..MaxRequests /\ days \in 0..MaxDays /\ faults \in 0..MaxFaults

Init ==
  /\ config = [h \in Hosts |-> 1] /\ helper = Hosts
  /\ made = [h \in Hosts |-> 1] /\ live = [h \in Hosts |-> {1}]
  /\ \E d \in {"never", "soon"} : expires = [h \in Hosts |-> [t \in Tokens |-> d]]
  /\ queue = [h \in Hosts |-> <<>>] /\ w = [k \in Workers |-> Idle]
  /\ todo = {} /\ found = [h \in Hosts |-> "unknown"]
  /\ state = [gitlab |-> [h \in Hosts |-> "unknown"], github |-> "unreachable"]
  /\ gh = [in |-> FALSE, wired |-> FALSE] /\ page = "idle"
  /\ crossed = {} /\ requests = 0 /\ days = 0 /\ faults = 0

Fault == faults < MaxFaults /\ faults' = faults + 1
Request == requests < MaxRequests /\ requests' = requests + 1
At(k, pc) == w[k].pc = pc
Stage(k, pc) == [Idle EXCEPT !.pc = pc, !.host = w[k].host, !.saves = w[k].saves]
Goes(k, pc) == w' = [w EXCEPT ![k].pc = pc]
-----------------------------------------------------------------------------
(* The lock of a host: a chain of promises *)

Holds(k, h) == queue[h] # <<>> /\ Head(queue[h]) = k
\* MUTANT: only a rotation that succeeds lets the next one in.
ReleasedOnSuccess(k, code) ==
  IF code \in Codes THEN queue ELSE [queue EXCEPT ![w[k].host] = Tail(@)]
\* The holder leaves in a "finally": whatever has become of the rotation.
Released(k, code) == [queue EXCEPT ![w[k].host] = Tail(@)]

\* MUTANT: the lock is taken without waiting for who came before.
EntersAtOnce(k) == TRUE
Enters(k) == Holds(k, w[k].host)

Acquire(k) ==
  /\ At(k, "wait") /\ Enters(k) /\ Goes(k, "inspect")
  /\ UNCHANGED <<config, helper, made, live, expires, queue, todo, found, state, gh, page, crossed, bounds>>

\* The end of rotateIfNeeded, for whoever asked.
Finishes(k, code) ==
  /\ queue' = Released(k, code)
  /\ IF k = Tick
       THEN /\ w' = [w EXCEPT ![k] = [Idle EXCEPT !.pc = "next"]]
            /\ found' = [found EXCEPT ![w[k].host] = code]
       ELSE /\ w' = [w EXCEPT ![k] = IF w[k].saves THEN [Stage(k, "persist") EXCEPT !.result = code]
                                     ELSE Idle]
            /\ UNCHANGED found

-----------------------------------------------------------------------------
(* A rotation *)

\* Somebody asks for a rotation, and may save its result.
Asks(k, saves) ==
  /\ k \in Rotations /\ At(k, "idle") /\ Request
  /\ \E h \in Hosts :
       /\ w' = [w EXCEPT ![k] = [Idle EXCEPT !.pc = "wait", !.host = h, !.saves = saves]]
       /\ queue' = [queue EXCEPT ![h] = Append(@, k)]
  /\ UNCHANGED <<config, helper, made, live, expires, todo, found, state, gh, page, crossed, days, faults>>
\* The route saves it, the center's command does not.
Ask(k) == Asks(k, TRUE)
CenterAsks(k) == Asks(k, FALSE)

\* inspect: what GitLab says of the token in the file, "ok" if it knows it.
Inspected(h) == IF config[h] \in live[h] THEN "ok" ELSE "invalid_expired"

\* The checks in their order: the token, its end, the version, the scopes and the
\* approval, and whether the end is near.
Verdict(h, gate) ==
  IF Inspected(h) # "ok" THEN Inspected(h)
  ELSE IF expires[h][config[h]] = "never" THEN "healthy"
  ELSE IF expires[h][config[h]] = "past" THEN "invalid_expired"
  ELSE IF gate # "none" THEN gate
  ELSE IF expires[h][config[h]] = "later" THEN "healthy" ELSE "due"

Inspect(k) ==
  /\ At(k, "inspect")
  /\ \/ \E gate \in Gates :
          LET v == Verdict(w[k].host, gate) IN
          /\ IF v = "due" THEN Goes(k, "post") /\ UNCHANGED <<queue, found>> ELSE Finishes(k, v)
          /\ UNCHANGED faults
     \/ Fault /\ Finishes(k, "unreachable")
  /\ UNCHANGED <<config, helper, made, live, expires, todo, state, gh, page, crossed, requests, days>>

\* The token is read again and posted.  GitLab revokes it and makes the next one;
\* the answer may be lost before or after that.
Post(k) ==
  /\ At(k, "post")
  /\ LET h == w[k].host  t == config[w[k].host] IN
     IF t \notin live[h]
       THEN /\ Finishes(k, IF t = None THEN "invalid_expired" ELSE "unreachable")
            /\ UNCHANGED <<made, live, expires, faults>>
     ELSE \/ \E n \in Tokens, d \in {"later", "soon"} :
               /\ n = made[h] + 1
               /\ made' = [made EXCEPT ![h] = n]
               /\ live' = [live EXCEPT ![h] = (@ \ {t}) \union {n}]
               /\ expires' = [expires EXCEPT ![h][n] = d]
               /\ \/ /\ w' = [w EXCEPT ![k].pc = "login", ![k].token = n]
                     /\ UNCHANGED <<queue, found, faults>>
                  \/ Fault /\ Finishes(k, "ambiguous_rotation")
          \/ Fault /\ Finishes(k, "ambiguous_rotation") /\ UNCHANGED <<made, live, expires>>
          \/ Fault /\ Finishes(k, "unreachable") /\ UNCHANGED <<made, live, expires>>
  /\ UNCHANGED <<config, helper, todo, state, gh, page, crossed, requests, days>>

-----------------------------------------------------------------------------
(* Connect and disconnect *)

\* The instance is added with a token that the user has made.
Connect(k) ==
  /\ k \in Users /\ At(k, "idle") /\ Request
  /\ \E h \in Hosts, t \in Tokens :
       /\ t = made[h] + 1
       /\ made' = [made EXCEPT ![h] = t]
       /\ w' = [w EXCEPT ![k] = [Idle EXCEPT !.pc = "login", !.host = h, !.token = t]]
       /\ live' = [live EXCEPT ![h] = @ \union {t}]
       /\ expires' = [expires EXCEPT ![h][t] = "later"]
  /\ UNCHANGED <<config, helper, queue, todo, found, state, gh, page, crossed, days, faults>>

\* glab auth logout, then the script that deletes the host's entry.
Disconnect(k) ==
  /\ k \in Users /\ At(k, "idle") /\ Request
  /\ \E h \in Hosts :
       /\ config' = [config EXCEPT ![h] = None]
       /\ w' = [w EXCEPT ![k] = [Idle EXCEPT !.pc = "look", !.host = h]]
  /\ UNCHANGED <<helper, made, live, expires, queue, todo, found, state, gh, page, crossed, days, faults>>

\* loginGlabWithToken has failed.
LoginFails(k) ==
  IF k \in Rotators THEN Finishes(k, "persistence_failed")
  ELSE w' = [w EXCEPT ![k] = Idle] /\ UNCHANGED <<queue, found>>

Login(k) ==
  /\ At(k, "login")
  /\ \/ /\ config' = [config EXCEPT ![w[k].host] = w[k].token]
        /\ crossed' = crossed \ {w[k].host}
        /\ Goes(k, "helper") /\ UNCHANGED <<queue, found, faults>>
     \/ Fault /\ LoginFails(k) /\ UNCHANGED <<config, crossed>>
  /\ UNCHANGED <<helper, made, live, expires, todo, state, gh, page, requests, days>>

\* setupGlabCredentialHelper: five commands, checked.
SetupHelper(k) ==
  /\ At(k, "helper")
  /\ helper' = helper \union {w[k].host}
  /\ \/ Goes(k, "look") /\ UNCHANGED <<queue, found, faults>>
     \/ Fault /\ LoginFails(k)
  /\ UNCHANGED <<config, made, live, expires, todo, state, gh, page, crossed, requests, days>>

\* pruneEmptyGlabHosts, or the script of the logout: the whole file is read, and
\* written back without the entries that have no token.
Look(k) ==
  /\ At(k, "look")
  /\ w' = [w EXCEPT ![k].pc = "write", ![k].seen = config]
  /\ UNCHANGED <<config, helper, made, live, expires, queue, todo, found, state, gh, page, crossed, bounds>>

Written(k) == IF w[k].token = None THEN [w[k].seen EXCEPT ![w[k].host] = None] ELSE w[k].seen
WriteBack(k) ==
  /\ At(k, "write")
  /\ \/ config' = Written(k) /\ UNCHANGED faults
     \/ Fault /\ UNCHANGED config
  /\ crossed' = crossed \union {h \in Hosts : config'[h] # config[h]}
  /\ w' = [w EXCEPT ![k] = IF k \in Rotators THEN Stage(k, "verify") ELSE Idle]
  /\ UNCHANGED <<helper, made, live, expires, queue, todo, found, state, gh, page, requests, days>>

\* git credential fill
Verify(k) ==
  /\ At(k, "verify")
  /\ \/ /\ UNCHANGED faults
        /\ LET h == w[k].host IN
           Finishes(k, IF h \in helper /\ config[h] # None THEN "rotated" ELSE "persistence_failed")
     \/ Fault /\ Finishes(k, "persistence_failed")
  /\ UNCHANGED <<config, helper, made, live, expires, todo, state, gh, page, crossed, requests, days>>

\* persistRotationState: the entry of the host, in the state as it is now.
Persist(k) ==
  /\ At(k, "persist")
  /\ \/ state' = [state EXCEPT !.gitlab[w[k].host] = w[k].result] /\ UNCHANGED faults
     \/ Fault /\ UNCHANGED state
  /\ w' = [w EXCEPT ![k] = Idle]
  /\ UNCHANGED <<config, helper, made, live, expires, queue, todo, found, gh, page, crossed, requests, days>>

-----------------------------------------------------------------------------
(* An evaluation *)

\* The hosts with a token in config.yml; one that does not answer is listed too.
Listed == {h \in Hosts : config[h] # None}

\* The entry of a host: what the inspection said, or else the rotation, if there was one.
HostState(inspection, rotation) ==
  IF inspection # "ok" THEN inspection ELSE IF rotation = "none" THEN "healthy" ELSE rotation

\* At the start of the admin and at every interval, unless one is in flight.
TickStarts ==
  /\ At(Tick, "idle") /\ Request
  /\ \/ todo' = Listed /\ UNCHANGED faults
     \/ Fault /\ todo' = {}
  /\ found' = [h \in Hosts |-> "unknown"] /\ Goes(Tick, "next")
  /\ UNCHANGED <<config, helper, made, live, expires, queue, state, gh, page, crossed, days>>

\* The next host is inspected, without its lock; one whose token ends soon is rotated.
TickInspects ==
  /\ At(Tick, "next")
  /\ \E h \in todo :
       /\ todo' = todo \ {h}
       /\ \/ /\ Inspected(h) = "ok" /\ expires[h][config[h]] \in {"soon", "past"} /\ UNCHANGED faults
             /\ \/ /\ w' = [w EXCEPT ![Tick] = [Idle EXCEPT !.pc = "wait", !.host = h]]
                   /\ queue' = [queue EXCEPT ![h] = Append(@, Tick)] /\ UNCHANGED found
                \/ "configuration_invalid" \in Gates
                   /\ found' = [found EXCEPT ![h] = HostState("ok", "configuration_invalid")] /\ UNCHANGED <<w, queue>>
          \/ /\ ~(Inspected(h) = "ok" /\ expires[h][config[h]] \in {"soon", "past"})
             /\ found' = [found EXCEPT ![h] = HostState(Inspected(h), "none")]
             /\ UNCHANGED <<w, queue, faults>>
          \/ Fault /\ found' = [found EXCEPT ![h] = HostState("unreachable", "none")] /\ UNCHANGED <<w, queue>>
  /\ UNCHANGED <<config, helper, made, live, expires, state, gh, page, crossed, requests, days>>

\* GitHub's status, and the whole state is saved: what others have saved since the
\* evaluation began is overwritten.
GhSays == {"unreachable", IF gh.in THEN "valid" ELSE "invalid"}
TickSaves ==
  /\ At(Tick, "next") /\ todo = {}
  /\ \/ \E v \in GhSays : state' = [gitlab |-> found, github |-> v] /\ UNCHANGED faults
     \/ Fault /\ UNCHANGED state
  /\ Goes(Tick, "idle")
  /\ UNCHANGED <<config, helper, made, live, expires, queue, todo, found, gh, page, crossed, requests, days>>

-----------------------------------------------------------------------------
(* GitHub, and the world *)

\* External: the device login of gh is completed in the browser.
GhLogin ==
  /\ Request /\ gh' = [gh EXCEPT !.in = TRUE]
  /\ UNCHANGED <<config, helper, made, live, expires, queue, w, todo, found, state, page, crossed, days, faults>>

GhLogout ==
  /\ Request /\ gh' = [gh EXCEPT !.in = FALSE] /\ page = "idle" /\ page' \in {"invalid", "unreachable"}
  /\ UNCHANGED <<config, helper, made, live, expires, queue, w, todo, found, state, crossed, days, faults>>

\* The center's logout saves nothing: until the next evaluation, or the next look at
\* the page, the state says what it said.
CenterLogsOut ==
  /\ Request /\ gh' = [gh EXCEPT !.in = FALSE]
  /\ UNCHANGED <<config, helper, made, live, expires, queue, w, todo, found, state, page, crossed, days, faults>>

GhStatus ==
  /\ Request /\ page = "idle" /\ page' \in GhSays
  /\ UNCHANGED <<config, helper, made, live, expires, queue, w, todo, found, state, gh, crossed, days, faults>>

\* updateGitHubAuthState, then git is wired to a login that is valid.
GhUsed ==
  /\ page # "idle" /\ page' = "idle"
  /\ state' = [state EXCEPT !.github = page]
  /\ \/ gh' = [gh EXCEPT !.wired = @ \/ page = "valid"] /\ UNCHANGED faults
     \/ Fault /\ UNCHANGED gh
  /\ UNCHANGED <<config, helper, made, live, expires, queue, w, todo, found, crossed, requests, days>>

TimePasses ==
  /\ days < MaxDays /\ days' = days + 1
  /\ \E h \in Hosts : expires' = [expires EXCEPT ![h] =
       [t \in Tokens |-> CASE @[t] = "later" -> "soon" [] @[t] = "soon" -> "past" [] OTHER -> @[t]]]
  /\ UNCHANGED <<config, helper, made, live, queue, w, todo, found, state, gh, page, crossed, requests, faults>>

\* The admin process dies: workers and locks are in its memory.
AdminDies ==
  /\ Fault /\ w' = [k \in Workers |-> Idle] /\ queue' = [h \in Hosts |-> <<>>]
  /\ todo' = {} /\ found' = [h \in Hosts |-> "unknown"] /\ page' = "idle"
  /\ UNCHANGED <<config, helper, made, live, expires, state, gh, crossed, requests, days>>

Works(k) ==
  \/ Acquire(k) \/ Inspect(k) \/ Post(k) \/ Login(k) \/ SetupHelper(k) \/ Look(k) \/ WriteBack(k)
  \/ Verify(k) \/ Persist(k)
Ticks == TickInspects \/ TickSaves

Next ==
  \/ \E k \in Workers : Works(k) \/ Ask(k) \/ CenterAsks(k) \/ Connect(k) \/ Disconnect(k)
  \/ TickStarts \/ Ticks
  \/ GhLogin \/ GhLogout \/ CenterLogsOut \/ GhStatus \/ GhUsed \/ TimePasses \/ AdminDies

\* Every step is the continuation of a request or a command with a time limit.
FairSpec == Init /\ [][Next]_vars /\ (\A k \in Workers : WF_vars(Works(k))) /\ WF_vars(Ticks)

-----------------------------------------------------------------------------
(* Properties *)

\* A rotation never posts a token that GitLab has revoked, which would cost the
\* whole family: what it inspected is what it posts, whoever else rotates or
\* connects.  Only a rewrite of the whole config.yml that crossed a connect or a
\* rotation can bring a revoked token back.
NoReuse ==
  \A k \in Rotators : At(k, "post") =>
    config[w[k].host] \in live[w[k].host] \union {None} \/ w[k].host \in crossed

\* Whoever waits for the lock of a host gets it and an answer, whatever becomes of
\* the rotations before; and an evaluation ends, so that the next one is not skipped.
RotationsAnswered == \A k \in Rotators : ~At(k, "idle") ~> At(k, "idle")

-----------------------------------------------------------------------------
(* A statement of the repository that the code does not keep. *)

\* What docs/GIT_AUTHENTICATION.md says of an ambiguous answer: it is not retried
\* automatically.  The evaluation does not look at the state it has saved.
AmbiguousNotRetried ==
  [][\A h \in Hosts : state.gitlab[h] = "ambiguous_rotation" /\ At(Tick, "inspect") /\ w[Tick].host = h =>
       w'[Tick].pc # "post"]_vars
=============================================================================
