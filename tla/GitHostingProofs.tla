--------------------------- MODULE GitHostingProofs ---------------------------
(***************************************************************************)
(* No rotation posts a revoked token, for any hosts, rotations, connects,   *)
(* disconnects, lost answers and deaths of the admin process.               *)
(*                                                                         *)
(* NoReuse rests on three things.  Only the holder of a host's lock works   *)
(* on its rotation (Locked), so nobody revokes a token between the          *)
(* inspection and the post.  Tokens are numbered in the order they are made *)
(* and nothing refers to a later one (Ages).  So the token that somebody is *)
(* about to write is new (Fresh): it works, and neither config.yml nor any  *)
(* copy of it that is on its way back holds it, so no post revokes it.      *)
(***************************************************************************)
EXTENDS GitHosting, TLAPS

\* The stages of a rotation that run under the lock of its host.
Held == {"inspect", "post", "login", "helper", "look", "write", "verify"}
Locked == \A k \in Rotators : w[k].pc \in Held => Holds(k, w[k].host)

\* A connect or a disconnect never rotates.
Roles == \A k \in Users : w[k].pc \in {"idle", "login", "helper", "look", "write"}

\* Nothing refers to a token that has not been made.
Ages ==
  \A h \in Hosts :
    /\ config[h] <= made[h]
    /\ \A t \in live[h] : t <= made[h]
    /\ \A k \in Workers : w[k].seen[h] <= made[h]

\* The token a worker is about to write.
Fresh ==
  \A k \in Workers : w[k].pc = "login" =>
    /\ w[k].token \in live[w[k].host]
    /\ w[k].token # config[w[k].host]
    /\ \A j \in Workers :
         /\ w[j].seen[w[k].host] # w[k].token
         /\ j # k /\ w[j].pc = "login" /\ w[j].host = w[k].host => w[j].token # w[k].token

IInv == TypeOK /\ Locked /\ Roles /\ Ages /\ Fresh /\ NoReuse

-----------------------------------------------------------------------------
(* Types. *)

LEMMA IdleTyped ==
  /\ Idle \in WorkerStates
  /\ Idle.pc = "idle" /\ Idle.token = None /\ \A h \in Hosts : Idle.seen[h] = None
<1>1. (CHOOSE h \in Hosts : TRUE) \in Hosts BY HostsAssumption
<1> QED BY <1>1 DEF Idle, WorkerStates, Pcs, Results, Codes, None

LEMMA Constants ==
  /\ Tick \in Rotators /\ Rotations \subseteq Rotators /\ Rotators \subseteq Workers /\ Users \subseteq Workers
  /\ Rotators \intersect Users = {} /\ Workers = Rotators \union Users
  /\ Tokens \subseteq Nat /\ None \in Nat /\ None \notin Tokens /\ 1 \in Tokens
BY WorkersAssumption, BoundsAssumption DEF Rotators, Workers, Tokens, None

LEMMA StageTyped ==
  ASSUME TypeOK, NEW k \in Workers, NEW p \in Pcs
  PROVE  /\ Stage(k, p) \in WorkerStates
         /\ Stage(k, p).pc = p /\ Stage(k, p).host = w[k].host
         /\ \A h \in Hosts : Stage(k, p).seen[h] = None
<1>1. w[k] \in WorkerStates BY DEF TypeOK
<1> QED BY <1>1, IdleTyped DEF Stage, WorkerStates

LEMMA AdvanceTyped ==
  ASSUME TypeOK, NEW k \in Workers, NEW p \in Pcs
  PROVE  /\ [w[k] EXCEPT !.pc = p] \in WorkerStates
         /\ [w[k] EXCEPT !.pc = p].pc = p /\ [w[k] EXCEPT !.pc = p].host = w[k].host
         /\ [w[k] EXCEPT !.pc = p].seen = w[k].seen
         /\ [w EXCEPT ![k].pc = p] = [w EXCEPT ![k] = [w[k] EXCEPT !.pc = p]]
<1>1. w[k] \in WorkerStates BY DEF TypeOK
<1> QED BY <1>1 DEF WorkerStates

-----------------------------------------------------------------------------
(* A step of one worker, by what it leaves alone. *)

Turn(k, r) == w' = [w EXCEPT ![k] = r]

\* A queue with k at its head.
Heads(q, k) == q # <<>> /\ Head(q) = k

\* The locks: k goes to r, and who holds a lock that it does not leave still holds it.
LEMMA LocksKept ==
  ASSUME TypeOK, Locked, Roles, NEW k \in Workers, NEW r \in WorkerStates, Turn(k, r),
         k \in Users => r.pc \in {"idle", "login", "helper", "look", "write"},
         k \in Rotators /\ r.pc \in Held => Heads(queue'[r.host], k),
         \A j \in Rotators \ {k}, h \in Hosts : w[j].pc \in Held /\ w[j].host = h /\ Heads(queue[h], j) => Heads(queue'[h], j)
  PROVE  Locked' /\ Roles'
<1>1. w'[k] = r /\ \A j \in Workers \ {k} : w'[j] = w[j] BY DEF TypeOK, Turn
<1>2. Locked'
    <2> SUFFICES ASSUME NEW j \in Rotators, w'[j].pc \in Held PROVE Heads(queue'[w'[j].host], j)
        BY DEF Locked, Holds, Heads
    <2>1. CASE j = k BY <1>1, <2>1
    <2>2. CASE j # k
        <3>1. w'[j] = w[j] BY <1>1, <2>2, Constants
        <3>2. w[j].host \in Hosts BY Constants DEF TypeOK, WorkerStates
        <3> QED BY <2>2, <3>1, <3>2 DEF Locked, Holds, Heads
    <2> QED BY <2>1, <2>2
<1>3. Roles' BY <1>1, Constants DEF Roles
<1> QED BY <1>2, <1>3

\* The tokens, by a step that makes and revokes none, and writes none but an old one.
LEMMA TokensKept ==
  ASSUME TypeOK, Ages, Fresh, NEW k \in Workers, NEW r \in WorkerStates, Turn(k, r),
         UNCHANGED <<made, live>>, r.pc # "login",
         \A h \in Hosts : config'[h] \in {None, w[k].seen[h], config[h]},
         \A h \in Hosts : r.seen[h] \in {None, w[k].seen[h], config[h]}
  PROVE  Ages' /\ Fresh'
<1>1. w'[k] = r /\ \A j \in Workers \ {k} : w'[j] = w[j] BY DEF TypeOK, Turn
<1>2. \A h \in Hosts : made[h] \in Tokens /\ live[h] \subseteq Tokens BY DEF TypeOK
<1>3. Ages'
    <2>1. \A j \in Workers, h \in Hosts : w'[j].seen[h] <= made[h]
        BY <1>1, <1>2, Constants DEF Ages, None, Tokens
    <2>2. \A h \in Hosts : config'[h] <= made[h] BY <1>2, Constants DEF Ages, None, Tokens
    <2> QED BY <2>1, <2>2 DEF Ages
<1>4. Fresh'
    <2> SUFFICES ASSUME NEW i \in Workers, w'[i].pc = "login"
                 PROVE  /\ w'[i].token \in live[w'[i].host]
                        /\ w'[i].token # config'[w'[i].host]
                        /\ \A j \in Workers :
                             /\ w'[j].seen[w'[i].host] # w'[i].token
                             /\ j # i /\ w'[j].pc = "login" /\ w'[j].host = w'[i].host => w'[j].token # w'[i].token
        BY DEF Fresh
    <2>1. i # k /\ w'[i] = w[i] BY <1>1
    <2>2. w[i].host \in Hosts BY DEF TypeOK, WorkerStates
    <2>3. w[i].token \in live[w[i].host] /\ w[i].token # config[w[i].host] /\ w[i].token # None
        BY <2>1, <2>2, <1>2, Constants DEF Fresh
    <2>4. \A j \in Workers : w'[j].seen[w[i].host] # w[i].token
        <3> TAKE j \in Workers
        <3>1. w[j].seen[w[i].host] # w[i].token BY <2>1 DEF Fresh
        <3> QED BY <1>1, <2>2, <2>3, <3>1
    <2>6. w[i].token # config'[w[i].host] BY <2>1, <2>2, <2>3 DEF Fresh
    <2>5. \A j \in Workers : j # i /\ w'[j].pc = "login" /\ w'[j].host = w[i].host => w'[j].token # w[i].token
        BY <1>1, <2>1 DEF Fresh
    <2> QED BY <2>1, <2>3, <2>4, <2>5, <2>6
<1> QED BY <1>3, <1>4

\* NoReuse, by a step that changes no token in config.yml without noting it.
LEMMA ReuseKept ==
  ASSUME TypeOK, NoReuse, NEW k \in Workers, NEW r \in WorkerStates, Turn(k, r),
         crossed \subseteq crossed', \A h \in Hosts : config'[h] \in {None, config[h]} \/ h \in crossed',
         k \in Rotators /\ r.pc = "post" => config'[r.host] \in live'[r.host],
         \A j \in Rotators \ {k} : w[j].pc = "post" => live[w[j].host] \subseteq live'[w[j].host]
  PROVE  NoReuse'
<1>1. w'[k] = r /\ \A j \in Workers \ {k} : w'[j] = w[j] BY DEF TypeOK, Turn
<1> SUFFICES ASSUME NEW j \in Rotators, w'[j].pc = "post"
             PROVE  config'[w'[j].host] \in live'[w'[j].host] \union {None} \/ w'[j].host \in crossed'
    BY DEF NoReuse, At
<1>2. CASE j = k BY <1>1, <1>2
<1>3. CASE j # k
    <2>1. w'[j] = w[j] BY <1>1, <1>3, Constants
    <2>2. w[j].host \in Hosts BY Constants DEF TypeOK, WorkerStates
    <2> QED BY <1>3, <2>1, <2>2 DEF NoReuse, At
<1> QED BY <1>2, <1>3

\* All three: a step that moves k, leaves the locks to those who hold them, and may write
\* an old token into config.yml or take one out.
LEMMA Rewrites ==
  ASSUME IInv, TypeOK', NEW k \in Workers, NEW r \in WorkerStates, Turn(k, r),
         UNCHANGED <<made, live>>, r.pc # "login", crossed \subseteq crossed',
         \A h \in Hosts : config'[h] \in {None, config[h]} \/ (config'[h] = w[k].seen[h] /\ h \in crossed'),
         \A h \in Hosts : r.seen[h] \in {None, w[k].seen[h], config[h]},
         k \in Users => r.pc \in {"idle", "helper", "look", "write"},
         k \in Rotators /\ r.pc \in Held => Heads(queue'[r.host], k),
         k \in Rotators /\ r.pc = "post" => config'[r.host] \in live[r.host],
         \A j \in Rotators \ {k}, h \in Hosts : w[j].pc \in Held /\ w[j].host = h /\ Heads(queue[h], j) => Heads(queue'[h], j)
  PROVE  IInv'
<1>1. Locked' /\ Roles' BY LocksKept DEF IInv
<1>2. Ages' /\ Fresh' BY TokensKept DEF IInv
<1>3. NoReuse' BY ReuseKept DEF IInv
<1> QED BY <1>1, <1>2, <1>3 DEF IInv

\* A step that only moves k.
LEMMA Moves ==
  ASSUME IInv, TypeOK', NEW k \in Workers, NEW r \in WorkerStates, Turn(k, r),
         UNCHANGED <<config, made, live, crossed>>, r.pc # "login",
         \A h \in Hosts : r.seen[h] \in {None, w[k].seen[h], config[h]},
         k \in Users => r.pc \in {"idle", "helper", "look", "write"},
         k \in Rotators /\ r.pc \in Held => Heads(queue'[r.host], k),
         k \in Rotators /\ r.pc = "post" => config[r.host] \in live[r.host],
         \A j \in Rotators \ {k}, h \in Hosts : w[j].pc \in Held /\ w[j].host = h /\ Heads(queue[h], j) => Heads(queue'[h], j)
  PROVE  IInv'
<1>1. /\ crossed \subseteq crossed'
      /\ \A h \in Hosts : config'[h] \in {None, config[h]} \/ (config'[h] = w[k].seen[h] /\ h \in crossed')
      /\ (k \in Rotators /\ r.pc = "post" => config'[r.host] \in live[r.host])
    OBVIOUS
<1> HIDE DEF IInv
<1> QED BY <1>1, Rewrites

\* A step that moves nobody.
LEMMA Stands ==
  ASSUME IInv, TypeOK', UNCHANGED <<config, made, live, queue, w, crossed>>
  PROVE  IInv'
BY DEF IInv, Locked, Roles, Ages, Fresh, NoReuse, Holds, At

-----------------------------------------------------------------------------
(* The end of a rotation. *)

LEMMA Heirs ==
  ASSUME IInv, NEW k \in Rotators, w[k].pc \in Held, queue' = [queue EXCEPT ![w[k].host] = Tail(@)]
  PROVE  /\ queue' \in [Hosts -> Seq(Rotators)]
         /\ \A j \in Rotators \ {k}, h \in Hosts :
              w[j].pc \in Held /\ w[j].host = h /\ Heads(queue[h], j) => Heads(queue'[h], j)
<1>1. w[k].host \in Hosts BY Constants DEF IInv, TypeOK, WorkerStates
<1>2. Heads(queue[w[k].host], k) BY DEF IInv, Locked, Holds, Heads
<1>3. Tail(queue[w[k].host]) \in Seq(Rotators) BY <1>1, <1>2 DEF IInv, TypeOK, Heads
<1>4. queue' \in [Hosts -> Seq(Rotators)] BY <1>1, <1>3 DEF IInv, TypeOK
<1>5. \A h \in Hosts \ {w[k].host} : queue'[h] = queue[h] BY DEF IInv, TypeOK
<1>6. \A j \in Rotators \ {k} : ~Heads(queue[w[k].host], j) BY <1>2 DEF Heads
<1> QED BY <1>4, <1>5, <1>6

LEMMA Ended ==
  ASSUME IInv, NEW k \in Rotators, w[k].pc \in Held, NEW code \in Results, Finishes(k, code)
  PROVE  /\ queue' \in [Hosts -> Seq(Rotators)] /\ found' \in [Hosts -> Results]
         /\ w' \in [Workers -> WorkerStates]
         /\ \E r \in WorkerStates :
              /\ Turn(k, r) /\ r.pc \in {"next", "persist", "idle"} /\ \A h \in Hosts : r.seen[h] = None
         /\ \A j \in Rotators \ {k}, h \in Hosts :
              w[j].pc \in Held /\ w[j].host = h /\ Heads(queue[h], j) => Heads(queue'[h], j)
<1>1. queue' = [queue EXCEPT ![w[k].host] = Tail(@)] BY DEF Finishes, Released
<1>2. found' \in [Hosts -> Results]
    <2>1. w[k].host \in Hosts BY Constants DEF IInv, TypeOK, WorkerStates
    <2> QED BY <2>1 DEF Finishes, IInv, TypeOK
<1>3. \E r \in WorkerStates :
        /\ Turn(k, r) /\ r.pc \in {"next", "persist", "idle"} /\ \A h \in Hosts : r.seen[h] = None
    <2> DEFINE a == [Idle EXCEPT !.pc = "next"]
               b == [Stage(k, "persist") EXCEPT !.result = code]
    <2>1. a \in WorkerStates /\ a.pc = "next" /\ \A h \in Hosts : a.seen[h] = None
        BY IdleTyped DEF WorkerStates, Pcs
    <2>2. b \in WorkerStates /\ b.pc = "persist" /\ \A h \in Hosts : b.seen[h] = None
        <3>1. "persist" \in Pcs /\ k \in Workers BY Constants DEF Pcs
        <3>2. /\ Stage(k, "persist") \in WorkerStates /\ Stage(k, "persist").pc = "persist"
              /\ \A h \in Hosts : Stage(k, "persist").seen[h] = None
            BY <3>1, StageTyped DEF IInv
        <3> HIDE DEF IInv
        <3> QED BY <3>2 DEF WorkerStates
    <2>3. \E r \in {a, b, Idle} : Turn(k, r) BY DEF Finishes, Turn
    <2> HIDE DEF a, b
    <2> QED BY <2>1, <2>2, <2>3, IdleTyped
<1>4. w' \in [Workers -> WorkerStates] BY <1>3, Constants DEF Turn, IInv, TypeOK
<1> QED BY <1>1, <1>2, <1>3, <1>4, Heirs

\* A rotation that ends, and leaves the tokens alone.
LEMMA EndKeeps ==
  ASSUME IInv, NEW k \in Rotators, w[k].pc \in Held, NEW code \in Results, Finishes(k, code),
         UNCHANGED <<config, made, live, expires, todo, state, gh, page, crossed, requests, days>>,
         helper' \subseteq Hosts, faults' \in 0..MaxFaults
  PROVE  IInv'
<1>1. TypeOK' BY Ended DEF IInv, TypeOK
<1>2. PICK r \in WorkerStates :
        Turn(k, r) /\ r.pc \in {"next", "persist", "idle"} /\ \A h \in Hosts : r.seen[h] = None
    BY Ended
<1>3. r.pc \notin Held /\ r.pc # "post" /\ r.pc # "login" BY <1>2 DEF Held
<1>4. k \in Workers /\ k \notin Users BY Constants
<1>5. \A j \in Rotators \ {k}, h \in Hosts :
        w[j].pc \in Held /\ w[j].host = h /\ Heads(queue[h], j) => Heads(queue'[h], j)
    BY Ended
<1> QED BY <1>1, <1>2, <1>3, <1>4, <1>5, Moves

LEMMA FaultCounted == ASSUME TypeOK, Fault \/ UNCHANGED faults PROVE faults' \in 0..MaxFaults
BY BoundsAssumption DEF TypeOK, Fault

LEMMA RequestCounted == ASSUME TypeOK, Request PROVE requests' \in 0..MaxRequests
BY BoundsAssumption DEF TypeOK, Request

-----------------------------------------------------------------------------
(* Each action keeps the invariant. *)

\* A worker that goes on, under the lock it holds or without one.
LEMMA GoesOn ==
  ASSUME IInv, NEW k \in Workers, NEW p \in Pcs, Goes(k, p), p # "login",
         UNCHANGED <<config, made, live, queue, crossed>>, helper' \subseteq Hosts,
         UNCHANGED <<expires, todo, found, state, gh, page, requests, days>>, faults' \in 0..MaxFaults,
         k \in Users => p \in {"idle", "helper", "look", "write"},
         k \in Rotators /\ p \in Held => Heads(queue[w[k].host], k),
         k \in Rotators /\ p = "post" => config[w[k].host] \in live[w[k].host]
  PROVE  IInv'
<1> DEFINE r == [w[k] EXCEPT !.pc = p]
<1>1. r \in WorkerStates /\ r.pc = p /\ r.host = w[k].host /\ r.seen = w[k].seen /\ Turn(k, r)
    BY AdvanceTyped DEF IInv, Goes, Turn
<1> HIDE DEF r
<1>2. TypeOK' BY <1>1 DEF IInv, TypeOK, Turn
<1> QED BY <1>1, <1>2, Moves

LEMMA AcquireKeeps == ASSUME IInv, NEW k \in Workers, Acquire(k) PROVE IInv'
<1>1. k \notin Users BY DEF Acquire, At, IInv, Roles
<1>2. Heads(queue[w[k].host], k) BY DEF Acquire, Enters, Holds, Heads
<1>3. helper' \subseteq Hosts /\ faults' \in 0..MaxFaults BY DEF Acquire, bounds, IInv, TypeOK
<1>4. "inspect" \in Pcs BY DEF Pcs
<1>5. Goes(k, "inspect") BY DEF Acquire
<1>6. UNCHANGED <<config, made, live, queue, crossed, expires, todo, found, state, gh, page, requests, days>>
    BY DEF Acquire, bounds
<1> QED BY <1>1, <1>2, <1>3, <1>4, <1>5, <1>6, GoesOn

\* Who may be where.
LEMMA RotatorAt ==
  ASSUME IInv, NEW k \in Workers, w[k].pc \in {"inspect", "post", "verify"}
  PROVE  k \in Rotators /\ w[k].pc \in Held /\ Heads(queue[w[k].host], k) /\ w[k].host \in Hosts
<1>1. k \in Rotators BY Constants DEF IInv, Roles
<1> QED BY <1>1, Constants DEF IInv, TypeOK, WorkerStates, Locked, Holds, Heads, Held

LEMMA VerdictTyped ==
  ASSUME TypeOK, NEW h \in Hosts, NEW gate \in Gates, Verdict(h, gate) # "due"
  PROVE  Verdict(h, gate) \in Results
BY GatesAssumption DEF Verdict, Inspected, Results, Codes

LEMMA VerdictDue ==
  ASSUME NEW h, NEW gate, Verdict(h, gate) = "due"
  PROVE  config[h] \in live[h]
<1>1. CASE Inspected(h) = "ok" BY <1>1 DEF Inspected
<1>2. CASE Inspected(h) # "ok"
    <2>1. Inspected(h) = "invalid_expired" BY <1>2 DEF Inspected
    <2>2. Verdict(h, gate) = Inspected(h) BY <1>2 DEF Verdict
    <2> QED BY <2>1, <2>2
<1> QED BY <1>1, <1>2

LEMMA InspectKeeps == ASSUME IInv, NEW k \in Workers, Inspect(k) PROVE IInv'
<1>1. k \in Rotators /\ w[k].pc \in Held /\ Heads(queue[w[k].host], k) /\ w[k].host \in Hosts
    BY RotatorAt DEF Inspect, At
<1>2. UNCHANGED <<config, helper, made, live, expires, todo, state, gh, page, crossed, requests, days>>
    BY DEF Inspect
<1>3. helper' \subseteq Hosts BY <1>2 DEF IInv, TypeOK
<1>4. faults' \in 0..MaxFaults BY FaultCounted DEF Inspect, IInv
<1>5. ASSUME NEW code \in Results, Finishes(k, code) PROVE IInv'
    BY <1>1, <1>2, <1>3, <1>4, <1>5, EndKeeps
<1>6. ASSUME NEW gate \in Gates, Verdict(w[k].host, gate) = "due", Goes(k, "post"), UNCHANGED <<queue, found>>
      PROVE  IInv'
    <2>1. config[w[k].host] \in live[w[k].host] BY <1>6, VerdictDue
    <2>2. "post" \in Pcs /\ k \notin Users BY <1>1, Constants DEF Pcs
    <2> QED BY <1>1, <1>2, <1>3, <1>4, <1>6, <2>1, <2>2, GoesOn
<1>7. "unreachable" \in Results BY DEF Results, Codes
<1>8. \A gate \in Gates : Verdict(w[k].host, gate) # "due" => Verdict(w[k].host, gate) \in Results
    BY <1>1, VerdictTyped DEF IInv
<1> QED BY <1>5, <1>6, <1>7, <1>8 DEF Inspect

LEMMA VerifyKeeps == ASSUME IInv, NEW k \in Workers, Verify(k) PROVE IInv'
<1>1. k \in Rotators /\ w[k].pc \in Held BY RotatorAt DEF Verify, At
<1>2. UNCHANGED <<config, helper, made, live, expires, todo, state, gh, page, crossed, requests, days>>
    BY DEF Verify
<1>3. helper' \subseteq Hosts BY <1>2 DEF IInv, TypeOK
<1>4. faults' \in 0..MaxFaults BY FaultCounted DEF Verify, IInv
<1>5. \E code \in Results : Finishes(k, code) BY DEF Verify, Results, Codes
<1> QED BY <1>1, <1>2, <1>3, <1>4, <1>5, EndKeeps

\* A login or the helper that fails.
LEMMA FailureKeeps ==
  ASSUME IInv, NEW k \in Workers, w[k].pc \in Held, LoginFails(k),
         UNCHANGED <<config, made, live, expires, todo, state, gh, page, crossed, requests, days>>,
         helper' \subseteq Hosts, faults' \in 0..MaxFaults
  PROVE  IInv'
<1>1. CASE k \in Rotators
    <2>1. "persistence_failed" \in Results /\ Finishes(k, "persistence_failed")
        BY <1>1 DEF LoginFails, Results, Codes
    <2> QED BY <1>1, <2>1, EndKeeps
<1>2. CASE k \notin Rotators
    <2>1. Turn(k, Idle) /\ UNCHANGED <<queue, found>> BY <1>2 DEF LoginFails, Turn
    <2>2. TypeOK' BY <2>1, IdleTyped DEF IInv, TypeOK, Turn
    <2> QED BY <1>2, <2>1, <2>2, IdleTyped, Moves
<1> QED BY <1>1, <1>2

LEMMA SetupHelperKeeps == ASSUME IInv, NEW k \in Workers, SetupHelper(k) PROVE IInv'
<1>1. w[k].pc = "helper" /\ w[k].pc \in Held BY DEF SetupHelper, At, Held
<1>2. UNCHANGED <<config, made, live, expires, todo, state, gh, page, crossed, requests, days>>
    BY DEF SetupHelper
<1>3. helper' \subseteq Hosts
    <2>1. w[k].host \in Hosts BY DEF IInv, TypeOK, WorkerStates
    <2> QED BY <2>1 DEF SetupHelper, IInv, TypeOK
<1>4. faults' \in 0..MaxFaults BY FaultCounted DEF SetupHelper, IInv
<1>5. CASE Goes(k, "look") /\ UNCHANGED <<queue, found, faults>>
    <2>1. "look" \in Pcs BY DEF Pcs
    <2>2. k \in Rotators => Heads(queue[w[k].host], k) BY <1>1 DEF IInv, Locked, Holds, Heads
    <2> QED BY <1>2, <1>3, <1>4, <1>5, <2>1, <2>2, GoesOn
<1>6. CASE LoginFails(k) BY <1>1, <1>2, <1>3, <1>4, <1>6, FailureKeeps
<1> QED BY <1>5, <1>6 DEF SetupHelper

LEMMA LookKeeps == ASSUME IInv, NEW k \in Workers, Look(k) PROVE IInv'
<1> DEFINE r == [w[k] EXCEPT !.pc = "write", !.seen = config]
<1>1. w[k] \in WorkerStates /\ config \in [Hosts -> Tokens \union {None}] BY DEF IInv, TypeOK
<1>2. /\ r \in WorkerStates /\ r.pc = "write" /\ r.host = w[k].host /\ r.seen = config
    BY <1>1 DEF WorkerStates, Pcs
<1>3. Turn(k, r) BY <1>1 DEF Look, Turn, WorkerStates
<1> HIDE DEF r
<1>4. UNCHANGED <<config, helper, made, live, expires, queue, todo, found, state, gh, page, crossed, requests, days, faults>>
    BY DEF Look, bounds
<1>5. TypeOK' BY <1>2, <1>3, <1>4 DEF IInv, TypeOK, Turn
<1>6. k \in Rotators => Heads(queue[w[k].host], k) BY DEF Look, At, Held, IInv, Locked, Holds, Heads
<1> QED BY <1>2, <1>3, <1>4, <1>5, <1>6, Moves

LEMMA PersistKeeps == ASSUME IInv, NEW k \in Workers, Persist(k) PROVE IInv'
<1>1. Turn(k, Idle) BY DEF Persist, Turn
<1>2. faults' \in 0..MaxFaults BY FaultCounted DEF Persist, IInv
<1>3. UNCHANGED <<config, helper, made, live, expires, queue, todo, found, gh, page, crossed, requests, days>>
    BY DEF Persist
<1>4. state' \in [gitlab : [Hosts -> Results], github : GhVerdicts]
    <2>1. w[k].host \in Hosts /\ w[k].result \in Results BY DEF IInv, TypeOK, WorkerStates
    <2>2. state.gitlab \in [Hosts -> Results] /\ state.github \in GhVerdicts BY DEF IInv, TypeOK
    <2> DEFINE saved == [state.gitlab EXCEPT ![w[k].host] = w[k].result]
    <2>3. saved \in [Hosts -> Results] BY <2>1, <2>2
    <2>4. state' \in {state, [state EXCEPT !.gitlab = saved]} BY DEF Persist
    <2> HIDE DEF saved
    <2> QED BY <2>3, <2>4 DEF IInv, TypeOK
<1>5. TypeOK' BY <1>1, <1>2, <1>3, <1>4, IdleTyped DEF IInv, TypeOK, Turn
<1> QED BY <1>1, <1>3, <1>5, IdleTyped, Moves DEF Held

LEMMA WriteBackKeeps == ASSUME IInv, NEW k \in Workers, WriteBack(k) PROVE IInv'
<1>1. w[k] \in WorkerStates /\ w[k].pc = "write" /\ w[k].host \in Hosts BY DEF WriteBack, At, IInv, TypeOK, WorkerStates
<1>2. PICK r \in {Stage(k, "verify"), Idle} : Turn(k, r) /\ (k \in Users => r = Idle)
    BY Constants DEF WriteBack, Turn
<1>3. /\ r \in WorkerStates /\ r.pc \in {"verify", "idle"} /\ (r.pc = "verify" => r.host = w[k].host)
      /\ \A h \in Hosts : r.seen[h] = None
    <2>1. "verify" \in Pcs BY DEF Pcs
    <2> QED BY <1>2, <2>1, StageTyped, IdleTyped DEF IInv
<1>4. UNCHANGED <<helper, made, live, expires, queue, todo, found, state, gh, page, requests, days>> BY DEF WriteBack
<1>5. faults' \in 0..MaxFaults BY FaultCounted DEF WriteBack, IInv
<1>6. /\ config' \in [Hosts -> Tokens \union {None}]
      /\ \A h \in Hosts : config'[h] \in {None, w[k].seen[h], config[h]}
    <2>1. Written(k) \in [Hosts -> Tokens \union {None}] /\ \A h \in Hosts : Written(k)[h] \in {None, w[k].seen[h]}
        BY <1>1 DEF Written, WorkerStates
    <2> QED BY <2>1 DEF WriteBack, IInv, TypeOK
<1>7. /\ crossed' \subseteq Hosts /\ crossed \subseteq crossed'
      /\ \A h \in Hosts : config'[h] # config[h] => h \in crossed'
    BY DEF WriteBack, IInv, TypeOK
<1>8. TypeOK' BY <1>2, <1>3, <1>4, <1>5, <1>6, <1>7 DEF IInv, TypeOK, Turn
<1>9. k \in Rotators /\ r.pc \in Held => Heads(queue'[r.host], k)
    BY <1>1, <1>3, <1>4 DEF Held, IInv, Locked, Holds, Heads
<1>10. k \in Users => r.pc \in {"idle", "helper", "look", "write"} BY <1>2, IdleTyped
<1>11. \A h \in Hosts : config'[h] \in {None, config[h]} \/ (config'[h] = w[k].seen[h] /\ h \in crossed')
    BY <1>6, <1>7
<1>12. /\ r.pc # "login" /\ r.pc # "post"
       /\ \A h \in Hosts : r.seen[h] \in {None, w[k].seen[h], config[h]}
       /\ \A j \in Rotators \ {k}, h \in Hosts :
            w[j].pc \in Held /\ w[j].host = h /\ Heads(queue[h], j) => Heads(queue'[h], j)
    BY <1>3, <1>4
<1> QED BY <1>2, <1>3, <1>4, <1>7, <1>8, <1>9, <1>10, <1>11, <1>12, Rewrites

\* Writing the new token: it works, and the host is in order again.
LEMMA LoginKeeps == ASSUME IInv, NEW k \in Workers, Login(k) PROVE IInv'
<1>1. /\ w[k] \in WorkerStates /\ w[k].pc = "login" /\ w[k].host \in Hosts
      /\ w[k].token \in live[w[k].host] /\ w[k].token \in Tokens
    <2>1. w[k] \in WorkerStates /\ w[k].pc = "login" /\ w[k].host \in Hosts
        BY DEF Login, At, IInv, TypeOK, WorkerStates
    <2>2. w[k].token \in live[w[k].host] BY <2>1 DEF IInv, Fresh
    <2>3. live[w[k].host] \subseteq Tokens BY <2>1 DEF IInv, TypeOK
    <2> QED BY <2>1, <2>2, <2>3
<1>2. UNCHANGED <<helper, made, live, expires, todo, state, gh, page, requests, days>> BY DEF Login
<1>3. faults' \in 0..MaxFaults BY FaultCounted DEF Login, IInv
<1>4. CASE LoginFails(k) /\ UNCHANGED <<config, crossed>>
    <2>1. helper' \subseteq Hosts BY <1>2 DEF IInv, TypeOK
    <2> QED BY <1>1, <1>2, <1>3, <1>4, <2>1, FailureKeeps DEF Held
<1>5. CASE /\ config' = [config EXCEPT ![w[k].host] = w[k].token] /\ crossed' = crossed \ {w[k].host}
           /\ Goes(k, "helper") /\ UNCHANGED <<queue, found, faults>>
    <2> DEFINE r == [w[k] EXCEPT !.pc = "helper"]
    <2>1. r \in WorkerStates /\ r.pc = "helper" /\ r.host = w[k].host /\ r.seen = w[k].seen /\ Turn(k, r)
        BY <1>5, AdvanceTyped DEF IInv, Goes, Turn, Pcs
    <2> HIDE DEF r
    <2>2. /\ config' \in [Hosts -> Tokens \union {None}] /\ config'[w[k].host] = w[k].token
          /\ \A h \in Hosts \ {w[k].host} : config'[h] = config[h]
        BY <1>1, <1>5 DEF IInv, TypeOK
    <2>3. TypeOK' BY <1>2, <1>3, <1>5, <2>1, <2>2 DEF IInv, TypeOK, Turn
    <2>4. w'[k] = r /\ \A j \in Workers \ {k} : w'[j] = w[j] BY <2>1 DEF IInv, TypeOK, Turn
    <2>5. Locked' /\ Roles'
        <3>1. k \in Rotators /\ r.pc \in Held => Heads(queue'[r.host], k)
            BY <1>1, <1>5, <2>1 DEF Held, IInv, Locked, Holds, Heads
        <3> QED BY <1>5, <2>1, <3>1, LocksKept DEF IInv
    <2>6. \A h \in Hosts : made[h] \in Tokens /\ live[h] \subseteq Tokens BY DEF IInv, TypeOK
    <2>7. Ages'
        <3>1. \A h \in Hosts : config'[h] <= made[h] BY <1>1, <2>2 DEF IInv, Ages
        <3>2. \A j \in Workers, h \in Hosts : w'[j].seen[h] <= made[h] BY <2>1, <2>4 DEF IInv, Ages
        <3> QED BY <1>2, <3>1, <3>2 DEF IInv, Ages
    <2>8. Fresh'
        <3> SUFFICES ASSUME NEW i \in Workers, w'[i].pc = "login"
                     PROVE  /\ w'[i].token \in live[w'[i].host]
                            /\ w'[i].token # config'[w'[i].host]
                            /\ \A j \in Workers :
                                 /\ w'[j].seen[w'[i].host] # w'[i].token
                                 /\ j # i /\ w'[j].pc = "login" /\ w'[j].host = w'[i].host => w'[j].token # w'[i].token
            BY <1>2 DEF Fresh
        <3>1. i # k /\ w'[i] = w[i] BY <2>1, <2>4
        <3>2. w[i].host \in Hosts BY DEF IInv, TypeOK, WorkerStates
        <3>3. w[i].token \in live[w[i].host] /\ w[i].token # config[w[i].host] BY <3>1 DEF IInv, Fresh
        <3>4. w[i].token # config'[w[i].host]
            BY <1>1, <2>2, <3>1, <3>2, <3>3 DEF IInv, Fresh
        <3>5. \A j \in Workers : w'[j].seen[w[i].host] # w[i].token BY <2>1, <2>4, <3>1 DEF IInv, Fresh
        <3>6. \A j \in Workers : j # i /\ w'[j].pc = "login" /\ w'[j].host = w[i].host => w'[j].token # w[i].token
            BY <2>1, <2>4, <3>1 DEF IInv, Fresh
        <3> QED BY <3>1, <3>3, <3>4, <3>5, <3>6
    <2>9. NoReuse'
        <3> SUFFICES ASSUME NEW j \in Rotators, w'[j].pc = "post"
                     PROVE  config'[w'[j].host] \in live[w'[j].host] \union {None} \/ w'[j].host \in crossed'
            BY <1>2 DEF NoReuse, At
        <3>1. w'[j] = w[j] /\ w[j].host \in Hosts BY <2>1, <2>4, Constants DEF IInv, TypeOK, WorkerStates
        <3>2. config[w[j].host] \in live[w[j].host] \union {None} \/ w[j].host \in crossed
            BY <3>1 DEF IInv, NoReuse, At
        <3> QED BY <1>1, <1>5, <2>2, <3>1, <3>2
    <2> QED BY <2>3, <2>5, <2>7, <2>8, <2>9 DEF IInv
<1> QED BY <1>4, <1>5 DEF Login

\* A token is made: by a post, which revokes the one in config.yml, or by a connect.
LEMMA Issued ==
  ASSUME IInv, TypeOK', NEW k \in Workers, NEW r \in WorkerStates, Turn(k, r),
         NEW h \in Hosts, NEW n \in Tokens, n = made[h] + 1, made' = [made EXCEPT ![h] = n],
         n \in live'[h], live'[h] \subseteq live[h] \union {n}, live[h] \ {config[h]} \subseteq live'[h],
         \A g \in Hosts \ {h} : live'[g] = live[g],
         UNCHANGED config, r.pc = "login" => r.host = h /\ r.token = n,
         \A g \in Hosts : r.seen[g] \in {None, w[k].seen[g]}
  PROVE  Ages' /\ Fresh'
<1>1. w'[k] = r /\ \A j \in Workers \ {k} : w'[j] = w[j] BY DEF IInv, TypeOK, Turn
<1>2. /\ n \in Nat /\ \A g \in Hosts : made[g] \in Nat /\ made[g] > 0
      /\ \A g \in Hosts : \A t \in live[g] : t \in Nat /\ t # None
    <2>1. \A t \in Tokens : t \in Nat /\ t > 0 BY BoundsAssumption DEF Tokens
    <2> QED BY <2>1 DEF IInv, TypeOK, None
<1>3. made'[h] = n /\ \A g \in Hosts \ {h} : made'[g] = made[g] BY DEF IInv, TypeOK
<1>4. /\ \A g \in Hosts : config[g] <= made[g] /\ \A t \in live[g] : t <= made[g]
      /\ \A j \in Workers, g \in Hosts : w[j].seen[g] <= made[g]
    BY DEF IInv, Ages
<1>5. \A g \in Hosts : config[g] \in Nat /\ \A j \in Workers : w[j].seen[g] \in Nat
    <2>1. \A t \in Tokens \union {None} : t \in Nat BY BoundsAssumption DEF Tokens, None
    <2>2. config \in [Hosts -> Tokens \union {None}] BY DEF IInv, TypeOK
    <2>3. \A j \in Workers : w[j].seen \in [Hosts -> Tokens \union {None}] BY DEF IInv, TypeOK, WorkerStates
    <2> QED BY <2>1, <2>2, <2>3
<1>6. \A j \in Workers, g \in Hosts : w'[j].seen[g] \in {None, w[j].seen[g]} BY <1>1
<1>7. Ages'
    <2>1. \A g \in Hosts : config[g] <= made'[g] BY <1>2, <1>3, <1>4, <1>5
    <2>2. \A g \in Hosts : \A t \in live'[g] : t <= made'[g]
        <3> TAKE g \in Hosts
        <3>1. CASE g = h BY <1>2, <1>3, <1>4, <3>1
        <3>2. CASE g # h BY <1>3, <1>4, <3>2
        <3> QED BY <3>1, <3>2
    <2>3. \A j \in Workers, g \in Hosts : w'[j].seen[g] <= made'[g]
        BY <1>2, <1>3, <1>4, <1>5, <1>6 DEF None
    <2> QED BY <2>1, <2>2, <2>3 DEF Ages
<1>8. ASSUME NEW i \in Workers, w'[i].pc = "login"
      PROVE  /\ w'[i].token \in live'[w'[i].host]
             /\ w'[i].token # config[w'[i].host]
             /\ \A j \in Workers :
                  /\ w'[j].seen[w'[i].host] # w'[i].token
                  /\ j # i /\ w'[j].pc = "login" /\ w'[j].host = w'[i].host => w'[j].token # w'[i].token
    <2>1. n > made[h] /\ n # None BY <1>2 DEF None
    <2>2. \A j \in Workers \ {k} : w[j].pc = "login" =>
            /\ w[j].host \in Hosts /\ w[j].token \in live[w[j].host] /\ w[j].token # config[w[j].host]
            /\ w[j].token # None /\ (w[j].host = h => w[j].token # n)
        <3> SUFFICES ASSUME NEW j \in Workers \ {k}, w[j].pc = "login"
                     PROVE  /\ w[j].host \in Hosts /\ w[j].token \in live[w[j].host] /\ w[j].token # config[w[j].host]
                            /\ w[j].token # None /\ (w[j].host = h => w[j].token # n)
            OBVIOUS
        <3>1. w[j].host \in Hosts BY DEF IInv, TypeOK, WorkerStates
        <3>2. w[j].token \in live[w[j].host] /\ w[j].token # config[w[j].host] BY DEF IInv, Fresh
        <3>3. w[j].token <= made[w[j].host] /\ w[j].token \in Nat /\ w[j].token # None BY <1>2, <1>4, <3>1, <3>2
        <3> QED BY <1>2, <2>1, <3>1, <3>2, <3>3
    <2>3. CASE i = k
        <3>1. w'[i].host = h /\ w'[i].token = n BY <1>1, <1>8, <2>3
        <3>2. n # config[h] /\ \A j \in Workers : w'[j].seen[h] # n
            BY <1>2, <1>4, <1>5, <1>6, <2>1
        <3>3. \A j \in Workers : j # i /\ w'[j].pc = "login" /\ w'[j].host = h => w'[j].token # n
            BY <1>1, <2>2, <2>3
        <3> QED BY <3>1, <3>2, <3>3
    <2>4. CASE i # k
        <3>1. w'[i] = w[i] BY <1>1, <2>4
        <3>2. /\ w[i].host \in Hosts /\ w[i].token \in live[w[i].host] /\ w[i].token # config[w[i].host]
              /\ w[i].token # None /\ (w[i].host = h => w[i].token # n)
            BY <1>8, <2>2, <2>4, <3>1
        <3>3. w[i].token \in live'[w[i].host] BY <3>2
        <3>4. \A j \in Workers : w'[j].seen[w[i].host] # w[i].token
            <4>1. \A j \in Workers : w[j].seen[w[i].host] # w[i].token BY <1>8, <3>1 DEF IInv, Fresh
            <4> QED BY <1>6, <3>2, <4>1
        <3>5. \A j \in Workers : j # i /\ w'[j].pc = "login" /\ w'[j].host = w[i].host => w'[j].token # w[i].token
            <4> TAKE j \in Workers
            <4>1. CASE j = k BY <1>1, <3>2, <4>1
            <4>2. CASE j # k BY <1>1, <1>8, <3>1, <4>2 DEF IInv, Fresh
            <4> QED BY <4>1, <4>2
        <3> QED BY <3>1, <3>2, <3>3, <3>4, <3>5
    <2> QED BY <2>3, <2>4
<1>9. Fresh' BY <1>8 DEF Fresh
<1> QED BY <1>7, <1>9

LEMMA PostKeeps == ASSUME IInv, NEW k \in Workers, Post(k) PROVE IInv'
<1>1. /\ k \in Rotators /\ k \notin Users /\ w[k].pc \in Held /\ Heads(queue[w[k].host], k)
      /\ w[k].host \in Hosts /\ w[k] \in WorkerStates
    BY RotatorAt, Constants DEF Post, At, IInv, TypeOK
<1>2. UNCHANGED <<config, helper, todo, state, gh, page, crossed, requests, days>> BY DEF Post
<1>3. helper' \subseteq Hosts BY <1>2 DEF IInv, TypeOK
<1>4. faults' \in 0..MaxFaults BY FaultCounted DEF Post, IInv
<1>5. ASSUME NEW code \in Results, Finishes(k, code), UNCHANGED <<made, live, expires>> PROVE IInv'
    BY <1>1, <1>2, <1>3, <1>4, <1>5, EndKeeps
<1> DEFINE h == w[k].host
           t == config[h]
<1>6. ASSUME NEW n \in Tokens, NEW d \in {"later", "soon"}, n = made[h] + 1, t \in live[h],
             made' = [made EXCEPT ![h] = n], live' = [live EXCEPT ![h] = (@ \ {t}) \union {n}],
             expires' = [expires EXCEPT ![h][n] = d],
             \/ w' = [w EXCEPT ![k].pc = "login", ![k].token = n] /\ UNCHANGED <<queue, found, faults>>
             \/ Finishes(k, "ambiguous_rotation")
      PROVE  IInv'
    <2>1. /\ queue' \in [Hosts -> Seq(Rotators)] /\ found' \in [Hosts -> Results]
          /\ \E r \in WorkerStates :
               /\ Turn(k, r) /\ r.pc \in {"login", "next", "persist", "idle"}
               /\ r.pc = "login" => r.host = h /\ r.token = n /\ queue' = queue
               /\ \A g \in Hosts : r.seen[g] \in {None, w[k].seen[g]}
          /\ \A j \in Rotators \ {k}, g \in Hosts :
               w[j].pc \in Held /\ w[j].host = g /\ Heads(queue[g], j) => Heads(queue'[g], j)
        <3>1. CASE w' = [w EXCEPT ![k].pc = "login", ![k].token = n] /\ UNCHANGED <<queue, found, faults>>
            <4> DEFINE r == [w[k] EXCEPT !.pc = "login", !.token = n]
            <4>1. r \in WorkerStates /\ r.pc = "login" /\ r.host = h /\ r.token = n /\ r.seen = w[k].seen
                BY <1>1 DEF WorkerStates, Pcs
            <4>2. Turn(k, r) BY <1>1, <3>1 DEF Turn, WorkerStates, IInv, TypeOK
            <4> HIDE DEF r, h
            <4>3. queue' = queue /\ queue' \in [Hosts -> Seq(Rotators)] /\ found' \in [Hosts -> Results]
                BY <3>1 DEF IInv, TypeOK
            <4> QED BY <4>1, <4>2, <4>3
        <3>2. CASE Finishes(k, "ambiguous_rotation")
            <4>1. "ambiguous_rotation" \in Results BY DEF Results, Codes
            <4>2. PICK r \in WorkerStates :
                    Turn(k, r) /\ r.pc \in {"next", "persist", "idle"} /\ \A g \in Hosts : r.seen[g] = None
                BY <1>1, <3>2, <4>1, Ended
            <4>3. r.pc # "login" /\ r.pc \in {"login", "next", "persist", "idle"} BY <4>2
            <4>4. /\ queue' \in [Hosts -> Seq(Rotators)] /\ found' \in [Hosts -> Results]
                  /\ \A j \in Rotators \ {k}, g \in Hosts :
                       w[j].pc \in Held /\ w[j].host = g /\ Heads(queue[g], j) => Heads(queue'[g], j)
                BY <1>1, <3>2, <4>1, Ended
            <4> QED BY <4>2, <4>3, <4>4
        <3> QED BY <1>6, <3>1, <3>2
    <2>2. PICK r \in WorkerStates :
            /\ Turn(k, r) /\ r.pc \in {"login", "next", "persist", "idle"}
            /\ r.pc = "login" => r.host = h /\ r.token = n /\ queue' = queue
            /\ \A g \in Hosts : r.seen[g] \in {None, w[k].seen[g]}
        BY <2>1
    <2>3. /\ made' \in [Hosts -> Tokens] /\ live' \in [Hosts -> SUBSET Tokens]
          /\ live'[h] = (live[h] \ {t}) \union {n} /\ \A g \in Hosts \ {h} : live'[g] = live[g]
        BY <1>1, <1>6 DEF IInv, TypeOK
    <2>4. expires' \in [Hosts -> [Tokens -> Deadlines]] BY <1>1, <1>6 DEF IInv, TypeOK, Deadlines
    <2>5. TypeOK' BY <1>2, <1>3, <1>4, <2>1, <2>2, <2>3, <2>4 DEF IInv, TypeOK, Turn
    <2>6. Locked' /\ Roles'
        <3>1. k \in Rotators /\ r.pc \in Held => Heads(queue'[r.host], k) BY <1>1, <2>2 DEF Held
        <3>2. \A j \in Rotators \ {k}, g \in Hosts :
                w[j].pc \in Held /\ w[j].host = g /\ Heads(queue[g], j) => Heads(queue'[g], j)
            BY <2>1
        <3> QED BY <1>1, <2>2, <3>1, <3>2, LocksKept DEF IInv
    <2>7. Ages' /\ Fresh'
        <3>1. n \in live'[h] /\ live'[h] \subseteq live[h] \union {n} /\ live[h] \ {config[h]} \subseteq live'[h]
            BY <2>3
        <3>2. h \in Hosts /\ k \in Workers BY <1>1
        <3>3. r.pc = "login" => r.host = h /\ r.token = n BY <2>2
        <3>4. Turn(k, r) /\ \A g \in Hosts : r.seen[g] \in {None, w[k].seen[g]} BY <2>2
        <3>5. n = made[h] + 1 /\ made' = [made EXCEPT ![h] = n] BY <1>6
        <3>6. UNCHANGED config /\ \A g \in Hosts \ {h} : live'[g] = live[g] BY <1>2, <2>3
        <3> HIDE DEF h, t
        <3> QED BY ZenonT(30), <2>5, <3>1, <3>2, <3>3, <3>4, <3>5, <3>6, Issued
    <2>8. NoReuse'
        <3>1. \A j \in Rotators \ {k} : w[j].pc = "post" => live[w[j].host] \subseteq live'[w[j].host]
            <4> TAKE j \in Rotators \ {k}
            <4> HAVE w[j].pc = "post"
            <4>1. w[j].host \in Hosts /\ Heads(queue[w[j].host], j)
                BY Constants DEF IInv, TypeOK, WorkerStates, Locked, Held, Holds, Heads
            <4>2. w[j].host # h BY <1>1, <4>1 DEF Heads
            <4> QED BY <2>3, <4>1, <4>2
        <3>2. /\ r.pc # "post" /\ crossed \subseteq crossed'
              /\ \A g \in Hosts : config'[g] \in {None, config[g]} \/ g \in crossed'
            BY <1>2, <2>2
        <3> QED BY <2>2, <3>1, <3>2, ReuseKept DEF IInv
    <2> QED BY <2>5, <2>6, <2>7, <2>8 DEF IInv
<1>7. \A code \in {"invalid_expired", "unreachable", "ambiguous_rotation"} : code \in Results
    BY DEF Results, Codes
<1> QED BY <1>5, <1>6, <1>7 DEF Post

LEMMA ConnectKeeps == ASSUME IInv, NEW k \in Workers, Connect(k) PROVE IInv'
<1>1. k \in Users /\ k \notin Rotators BY Constants DEF Connect
<1>2. UNCHANGED <<config, helper, queue, todo, found, state, gh, page, crossed, days, faults>> BY DEF Connect
<1>3. requests' \in 0..MaxRequests BY RequestCounted DEF Connect, IInv
<1>4. PICK h \in Hosts, n \in Tokens :
        /\ n = made[h] + 1
        /\ made' = [made EXCEPT ![h] = n]
        /\ w' = [w EXCEPT ![k] = [Idle EXCEPT !.pc = "login", !.host = h, !.token = n]]
        /\ live' = [live EXCEPT ![h] = @ \union {n}]
        /\ expires' = [expires EXCEPT ![h][n] = "later"]
    BY DEF Connect
<1> DEFINE r == [Idle EXCEPT !.pc = "login", !.host = h, !.token = n]
<1>5. /\ r \in WorkerStates /\ r.pc = "login" /\ r.host = h /\ r.token = n /\ \A g \in Hosts : r.seen[g] = None
    BY IdleTyped DEF WorkerStates, Pcs
<1>6. Turn(k, r) BY <1>4 DEF Turn
<1> HIDE DEF r
<1>7. /\ made' \in [Hosts -> Tokens] /\ live' \in [Hosts -> SUBSET Tokens]
      /\ live'[h] = live[h] \union {n} /\ \A g \in Hosts \ {h} : live'[g] = live[g]
    BY <1>4 DEF IInv, TypeOK
<1>8. expires' \in [Hosts -> [Tokens -> Deadlines]] BY <1>4 DEF IInv, TypeOK, Deadlines
<1>9. TypeOK' BY <1>2, <1>3, <1>5, <1>6, <1>7, <1>8 DEF IInv, TypeOK, Turn
<1>10. Locked' /\ Roles' BY <1>1, <1>2, <1>5, <1>6, LocksKept DEF IInv
<1>11. Ages' /\ Fresh'
    <2>1. n \in live'[h] /\ live'[h] \subseteq live[h] \union {n} /\ live[h] \ {config[h]} \subseteq live'[h]
        BY <1>7
    <2>2. UNCHANGED config /\ \A g \in Hosts \ {h} : live'[g] = live[g] BY <1>2, <1>7
    <2>3. r.pc = "login" => r.host = h /\ r.token = n BY <1>5
    <2>4. \A g \in Hosts : r.seen[g] \in {None, w[k].seen[g]} BY <1>5
    <2>5. n = made[h] + 1 /\ made' = [made EXCEPT ![h] = n] BY <1>4
    <2> QED BY <1>5, <1>6, <1>9, <2>1, <2>2, <2>3, <2>4, <2>5, Issued
<1>12. NoReuse'
    <2>1. \A j \in Rotators \ {k} : w[j].pc = "post" => live[w[j].host] \subseteq live'[w[j].host]
        BY <1>7, Constants DEF IInv, TypeOK, WorkerStates
    <2>2. r.pc # "post" /\ crossed \subseteq crossed'
          /\ \A g \in Hosts : config'[g] \in {None, config[g]} \/ g \in crossed'
        BY <1>2, <1>5
    <2> QED BY <1>5, <1>6, <2>1, <2>2, ReuseKept DEF IInv
<1> QED BY <1>9, <1>10, <1>11, <1>12 DEF IInv

LEMMA DisconnectKeeps == ASSUME IInv, NEW k \in Workers, Disconnect(k) PROVE IInv'
<1>1. k \in Users /\ k \notin Rotators BY Constants DEF Disconnect
<1>2. UNCHANGED <<helper, made, live, expires, queue, todo, found, state, gh, page, crossed, days, faults>>
    BY DEF Disconnect
<1>3. requests' \in 0..MaxRequests BY RequestCounted DEF Disconnect, IInv
<1>4. PICK h \in Hosts : /\ config' = [config EXCEPT ![h] = None]
                         /\ w' = [w EXCEPT ![k] = [Idle EXCEPT !.pc = "look", !.host = h]]
    BY DEF Disconnect
<1> DEFINE r == [Idle EXCEPT !.pc = "look", !.host = h]
<1>5. r \in WorkerStates /\ r.pc = "look" /\ \A g \in Hosts : r.seen[g] = None
    BY IdleTyped DEF WorkerStates, Pcs
<1>6. Turn(k, r) BY <1>4 DEF Turn
<1> HIDE DEF r
<1>7. config' \in [Hosts -> Tokens \union {None}] BY <1>4 DEF IInv, TypeOK
<1>8. TypeOK' BY <1>2, <1>3, <1>5, <1>6, <1>7 DEF IInv, TypeOK, Turn
<1>9. /\ crossed \subseteq crossed' /\ r.pc # "login"
      /\ \A g \in Hosts : config'[g] \in {None, config[g]} \/ (config'[g] = w[k].seen[g] /\ g \in crossed')
      /\ \A g \in Hosts : r.seen[g] \in {None, w[k].seen[g], config[g]}
      /\ \A j \in Rotators \ {k}, g \in Hosts :
           w[j].pc \in Held /\ w[j].host = g /\ Heads(queue[g], j) => Heads(queue'[g], j)
    BY <1>2, <1>4, <1>5 DEF IInv, TypeOK
<1> QED BY <1>1, <1>2, <1>5, <1>6, <1>8, <1>9, Rewrites

\* Queueing up leaves the head of a queue in its place.
LEMMA Queued ==
  ASSUME TypeOK, NEW h \in Hosts, NEW k \in Rotators, queue' = [queue EXCEPT ![h] = Append(@, k)]
  PROVE  /\ queue' \in [Hosts -> Seq(Rotators)]
         /\ \A j \in Rotators, g \in Hosts : Heads(queue[g], j) => Heads(queue'[g], j)
<1>1. queue[h] \in Seq(Rotators) BY DEF TypeOK
<1>2. Append(queue[h], k) \in Seq(Rotators) BY <1>1
<1>3. queue[h] # <<>> => Append(queue[h], k) # <<>> /\ Head(Append(queue[h], k)) = Head(queue[h]) BY <1>1
<1> QED BY <1>1, <1>2, <1>3 DEF TypeOK, Heads

LEMMA AsksKeeps == ASSUME IInv, NEW k \in Workers, NEW saves \in BOOLEAN, Asks(k, saves) PROVE IInv'
<1>1. k \in Rotators /\ k \notin Users BY WorkersAssumption, Constants DEF Asks, Rotators
<1>2. UNCHANGED <<config, helper, made, live, expires, todo, found, state, gh, page, crossed, days, faults>>
    BY DEF Asks
<1>3. requests' \in 0..MaxRequests BY RequestCounted DEF Asks, IInv
<1>4. PICK h \in Hosts : /\ w' = [w EXCEPT ![k] = [Idle EXCEPT !.pc = "wait", !.host = h, !.saves = saves]]
                         /\ queue' = [queue EXCEPT ![h] = Append(@, k)]
    BY DEF Asks
<1> DEFINE r == [Idle EXCEPT !.pc = "wait", !.host = h, !.saves = saves]
<1>5. r \in WorkerStates /\ r.pc = "wait" /\ \A g \in Hosts : r.seen[g] = None
    BY IdleTyped DEF WorkerStates, Pcs
<1>6. Turn(k, r) BY <1>4 DEF Turn
<1> HIDE DEF r
<1>7. /\ queue' \in [Hosts -> Seq(Rotators)]
      /\ \A j \in Rotators, g \in Hosts : Heads(queue[g], j) => Heads(queue'[g], j)
    BY <1>1, <1>4, Queued DEF IInv
<1>8. TypeOK' BY <1>2, <1>3, <1>5, <1>6, <1>7 DEF IInv, TypeOK, Turn
<1>9. r.pc \notin Held BY <1>5 DEF Held
<1> QED BY <1>1, <1>2, <1>5, <1>6, <1>7, <1>8, <1>9, Moves DEF Held

\* The evaluation's steps: Tick alone moves, by itself or into a queue.
LEMMA TickStartsKeeps == ASSUME IInv, TickStarts PROVE IInv'
<1>1. Tick \in Rotators /\ Tick \in Workers /\ Tick \notin Users BY WorkersAssumption, Constants
<1> DEFINE r == [w[Tick] EXCEPT !.pc = "next"]
<1>2. r \in WorkerStates /\ r.pc = "next" /\ r.seen = w[Tick].seen /\ Turn(Tick, r)
    BY <1>1, AdvanceTyped DEF IInv, TickStarts, Goes, Turn, Pcs
<1> HIDE DEF r
<1>3. UNCHANGED <<config, helper, made, live, expires, queue, state, gh, page, crossed, days>> BY DEF TickStarts
<1>4. requests' \in 0..MaxRequests /\ faults' \in 0..MaxFaults
    BY RequestCounted, FaultCounted DEF TickStarts, IInv
<1>5. todo' \subseteq Hosts BY DEF TickStarts, Listed
<1>6. found' \in [Hosts -> Results] BY DEF TickStarts, Results
<1>7. TypeOK' BY <1>1, <1>2, <1>3, <1>4, <1>5, <1>6 DEF IInv, TypeOK, Turn
<1> QED BY <1>1, <1>2, <1>3, <1>7, Moves DEF Held

LEMMA TickInspectsKeeps == ASSUME IInv, TickInspects PROVE IInv'
<1>1. Tick \in Rotators /\ Tick \in Workers /\ Tick \notin Users BY WorkersAssumption, Constants
<1>2. UNCHANGED <<config, helper, made, live, expires, state, gh, page, crossed, requests, days>> BY DEF TickInspects
<1>3. faults' \in 0..MaxFaults BY FaultCounted DEF TickInspects, IInv
<1>4. PICK h \in todo :
        /\ todo' = todo \ {h}
        /\ \/ /\ w' = [w EXCEPT ![Tick] = [Idle EXCEPT !.pc = "wait", !.host = h]]
              /\ queue' = [queue EXCEPT ![h] = Append(@, Tick)] /\ UNCHANGED found
           \/ /\ UNCHANGED <<w, queue>>
              /\ \E v \in {HostState("ok", "configuration_invalid"), HostState(Inspected(h), "none"),
                           HostState("unreachable", "none")} : found' = [found EXCEPT ![h] = v]
    BY DEF TickInspects
<1>5. h \in Hosts /\ todo' \subseteq Hosts BY <1>4 DEF IInv, TypeOK
<1>6. CASE w' = [w EXCEPT ![Tick] = [Idle EXCEPT !.pc = "wait", !.host = h]]
           /\ queue' = [queue EXCEPT ![h] = Append(@, Tick)] /\ UNCHANGED found
    <2> DEFINE r == [Idle EXCEPT !.pc = "wait", !.host = h]
    <2>1. r \in WorkerStates /\ r.pc = "wait" /\ \A g \in Hosts : r.seen[g] = None
        BY <1>5, IdleTyped DEF WorkerStates, Pcs
    <2>2. Turn(Tick, r) BY <1>6 DEF Turn
    <2> HIDE DEF r
    <2>3. /\ queue' \in [Hosts -> Seq(Rotators)]
          /\ \A j \in Rotators, g \in Hosts : Heads(queue[g], j) => Heads(queue'[g], j)
        BY <1>1, <1>5, <1>6, Queued DEF IInv
    <2>4. w' \in [Workers -> WorkerStates] BY <2>1, <2>2 DEF IInv, TypeOK, Turn
    <2>5. found' \in [Hosts -> Results] BY <1>6 DEF IInv, TypeOK
    <2>6. TypeOK' BY <1>2, <1>3, <1>5, <2>3, <2>4, <2>5 DEF IInv, TypeOK
    <2>7. r.pc \notin Held BY <2>1 DEF Held
    <2> QED BY <1>1, <1>2, <2>1, <2>2, <2>3, <2>6, <2>7, Moves
<1>7. ASSUME UNCHANGED <<w, queue>>,
             NEW v \in {HostState("ok", "configuration_invalid"), HostState(Inspected(h), "none"),
                        HostState("unreachable", "none")}, found' = [found EXCEPT ![h] = v]
      PROVE  IInv'
    <2>1. v \in Results BY DEF HostState, Inspected, Results, Codes
    <2>2. found' \in [Hosts -> Results] BY <1>5, <1>7, <2>1 DEF IInv, TypeOK
    <2>3. TypeOK' BY <1>2, <1>3, <1>5, <1>7, <2>2 DEF IInv, TypeOK
    <2> QED BY <1>2, <1>7, <2>3, Stands
<1> QED BY <1>4, <1>6, <1>7

LEMMA TickSavesKeeps == ASSUME IInv, TickSaves PROVE IInv'
<1>1. Tick \in Rotators /\ Tick \in Workers /\ Tick \notin Users BY WorkersAssumption, Constants
<1> DEFINE r == [w[Tick] EXCEPT !.pc = "idle"]
<1>2. r \in WorkerStates /\ r.pc = "idle" /\ r.seen = w[Tick].seen /\ Turn(Tick, r)
    BY <1>1, AdvanceTyped DEF IInv, TickSaves, Goes, Turn, Pcs
<1> HIDE DEF r
<1>3. UNCHANGED <<config, helper, made, live, expires, queue, todo, found, gh, page, crossed, requests, days>>
    BY DEF TickSaves
<1>4. faults' \in 0..MaxFaults BY FaultCounted DEF TickSaves, IInv
<1>5. state' \in [gitlab : [Hosts -> Results], github : GhVerdicts]
    BY DEF TickSaves, GhSays, GhVerdicts, IInv, TypeOK
<1>6. TypeOK' BY <1>1, <1>2, <1>3, <1>4, <1>5 DEF IInv, TypeOK, Turn
<1> QED BY <1>1, <1>2, <1>3, <1>6, Moves DEF Held

\* GitHub and time: no worker moves and no token of GitLab changes.
LEMMA WorldKeeps ==
  ASSUME IInv, GhLogin \/ GhLogout \/ CenterLogsOut \/ GhStatus \/ GhUsed \/ TimePasses
  PROVE  IInv'
<1>1. UNCHANGED <<config, helper, made, live, queue, w, todo, found, crossed>>
    BY DEF GhLogin, GhLogout, CenterLogsOut, GhStatus, GhUsed, TimePasses
<1>2. requests' \in 0..MaxRequests
    BY RequestCounted DEF GhLogin, GhLogout, CenterLogsOut, GhStatus, GhUsed, TimePasses, IInv, TypeOK
<1>3. faults' \in 0..MaxFaults
    BY FaultCounted DEF GhLogin, GhLogout, CenterLogsOut, GhStatus, GhUsed, TimePasses, IInv, TypeOK
<1>4. days' \in 0..MaxDays
    BY BoundsAssumption DEF GhLogin, GhLogout, CenterLogsOut, GhStatus, GhUsed, TimePasses, IInv, TypeOK
<1>5. expires' \in [Hosts -> [Tokens -> Deadlines]]
    <2>1. CASE TimePasses
        <3>1. PICK h \in Hosts : expires' = [expires EXCEPT ![h] =
                [t \in Tokens |-> CASE @[t] = "later" -> "soon" [] @[t] = "soon" -> "past" [] OTHER -> @[t]]]
            BY <2>1 DEF TimePasses
        <3>2. [t \in Tokens |-> CASE expires[h][t] = "later" -> "soon" [] expires[h][t] = "soon" -> "past"
                                  [] OTHER -> expires[h][t]] \in [Tokens -> Deadlines]
            BY DEF IInv, TypeOK, Deadlines
        <3> QED BY <3>1, <3>2 DEF IInv, TypeOK
    <2>2. CASE ~TimePasses BY <2>2 DEF GhLogin, GhLogout, CenterLogsOut, GhStatus, GhUsed, IInv, TypeOK
    <2> QED BY <2>1, <2>2
<1>6. page' \in GhVerdicts \union {"idle"}
    BY DEF GhLogin, GhLogout, CenterLogsOut, GhStatus, GhUsed, TimePasses, IInv, TypeOK, GhVerdicts, GhSays
<1>7. gh' \in [in : BOOLEAN, wired : BOOLEAN]
    <2>1. gh' = gh \/ (\E b \in BOOLEAN : gh' = [gh EXCEPT !.in = b] \/ gh' = [gh EXCEPT !.wired = b])
        <3>1. (gh.wired \/ page = "valid") \in BOOLEAN OBVIOUS
        <3> QED BY <3>1 DEF GhLogin, GhLogout, CenterLogsOut, GhStatus, GhUsed, TimePasses
    <2> QED BY <2>1 DEF IInv, TypeOK
<1>8. state' \in [gitlab : [Hosts -> Results], github : GhVerdicts]
    <2>1. state' = state \/ (page \in GhVerdicts /\ state' = [state EXCEPT !.github = page])
        BY DEF GhLogin, GhLogout, CenterLogsOut, GhStatus, GhUsed, TimePasses, IInv, TypeOK
    <2> QED BY <2>1 DEF IInv, TypeOK
<1>9. TypeOK' BY <1>1, <1>2, <1>3, <1>4, <1>5, <1>6, <1>7, <1>8 DEF IInv, TypeOK
<1> QED BY <1>1, <1>9, Stands

LEMMA AdminDiesKeeps == ASSUME IInv, AdminDies PROVE IInv'
<1>1. /\ UNCHANGED <<config, helper, made, live, expires, state, gh, crossed, requests, days>>
      /\ w' = [k \in Workers |-> Idle] /\ queue' = [h \in Hosts |-> <<>>]
      /\ todo' = {} /\ found' = [h \in Hosts |-> "unknown"] /\ page' = "idle"
    BY DEF AdminDies
<1>2. faults' \in 0..MaxFaults BY FaultCounted DEF AdminDies, IInv
<1>3. w' \in [Workers -> WorkerStates] BY <1>1, IdleTyped
<1>7. queue' \in [Hosts -> Seq(Rotators)] /\ found' \in [Hosts -> Results] BY <1>1 DEF Results
<1>8. TypeOK' BY <1>1, <1>2, <1>3, <1>7 DEF IInv, TypeOK
<1>4. \A k \in Workers : w'[k].pc = "idle" /\ \A h \in Hosts : w'[k].seen[h] = None BY <1>1, IdleTyped
<1>5. Ages'
    <2>1. \A h \in Hosts : made[h] \in Tokens BY DEF IInv, TypeOK
    <2> QED BY <1>1, <1>4, <2>1, Constants DEF IInv, Ages, None, Tokens
<1>6. Locked' /\ Roles' /\ Fresh' /\ NoReuse' BY <1>4, Constants DEF Locked, Roles, Fresh, NoReuse, At, Held
<1> QED BY <1>5, <1>6, <1>8 DEF IInv

LEMMA Initial == ASSUME Init PROVE IInv
<1>1. \A k \in Workers : w[k].pc = "idle" /\ \A h \in Hosts : w[k].seen[h] = None BY IdleTyped DEF Init
<1>2. TypeOK BY IdleTyped, Constants, BoundsAssumption DEF Init, TypeOK, Deadlines, Results, GhVerdicts
<1>3. Ages BY <1>1 DEF Init, Ages, None
<1>4. Locked /\ Roles /\ Fresh /\ NoReuse BY <1>1, Constants DEF Locked, Roles, Fresh, NoReuse, At, Held
<1> QED BY <1>2, <1>3, <1>4 DEF IInv

LEMMA Invariance == Init /\ [][Next]_vars => []IInv
<1>1. ASSUME IInv, [Next]_vars PROVE IInv'
    <2>1. ASSUME NEW k \in Workers, Works(k) PROVE IInv'
        BY <1>1, <2>1, AcquireKeeps, InspectKeeps, PostKeeps, LoginKeeps, SetupHelperKeeps, LookKeeps,
           WriteBackKeeps, VerifyKeeps, PersistKeeps DEF Works
    <2>2. ASSUME NEW k \in Workers, Ask(k) \/ CenterAsks(k) \/ Connect(k) \/ Disconnect(k) PROVE IInv'
        BY <1>1, <2>2, AsksKeeps, ConnectKeeps, DisconnectKeeps DEF Ask, CenterAsks
    <2>3. CASE TickStarts \/ Ticks BY <1>1, <2>3, TickStartsKeeps, TickInspectsKeeps, TickSavesKeeps DEF Ticks
    <2>4. CASE GhLogin \/ GhLogout \/ CenterLogsOut \/ GhStatus \/ GhUsed \/ TimePasses
        BY <1>1, <2>4, WorldKeeps
    <2>5. CASE AdminDies BY <1>1, <2>5, AdminDiesKeeps
    <2>6. CASE UNCHANGED vars
        <3>1. TypeOK' BY <1>1, <2>6 DEF IInv, TypeOK, vars
        <3> QED BY <1>1, <2>6, <3>1, Stands DEF vars
    <2> QED BY <1>1, <2>1, <2>2, <2>3, <2>4, <2>5, <2>6 DEF Next
<1> QED BY <1>1, Initial, PTL

-----------------------------------------------------------------------------
(* Theorems. *)

\* The files, GitLab's tokens, the locks and the workers keep their types.
THEOREM TypeCorrect == FairSpec => []TypeOK
<1>1. IInv => TypeOK BY DEF IInv
<1> QED BY <1>1, Invariance, PTL DEF FairSpec

\* A rotation never posts a token that GitLab has revoked, but for a host whose entry
\* a rewrite of the whole config.yml has changed.
THEOREM RevokedNeverPosted == FairSpec => []NoReuse
<1>1. IInv => NoReuse BY DEF IInv
<1> QED BY <1>1, Invariance, PTL DEF FairSpec
=============================================================================
