--------------------------- MODULE AuthStoreProofs ---------------------------
(***************************************************************************)
(* The two components that write ai-dev's auth store: the keys of a         *)
(* provider (ProviderKeys) and the ChatGPT login (Credentials).             *)
(*                                                                         *)
(* The registry of keys stays typed and sound whatever the routes, the      *)
(* commands and the listings do concurrently, for any number of them, of    *)
(* values, of failures and of restarts of the admin process.                *)
(* Soundness alone is not inductive: an id names one key, whatever the       *)
(* clock said, because no two keys have one place in the list (Placed), and *)
(* a restored selection is a real key because only a real key was ever      *)
(* replaced (Remembered).                                                  *)
(*                                                                         *)
(* A login that is connected, or disconnected, by itself is all or nothing. *)
(* What makes that inductive is who may be next to it (Company), that one   *)
(* set of tokens is ever bought with a code (CodeOnce), and what store and  *)
(* temporary file hold at each step of its way (Whole).                     *)
(***************************************************************************)
EXTENDS ProviderKeys, Credentials, WellFoundedInduction, TLAPS

RegistryTyped ==
    /\ keys \in SUBSET Keys /\ active \in Ids \cup {None} /\ made \in 0..MaxKeys

\* Every key has a place of its own, in the order in which they were added.
Apart(ks) == \A k, l \in ks : k.at = l.at => k = l
Placed == (\A k \in keys : k.at <= made) /\ Apart(keys)

Registry == RegistryTyped /\ Placed /\ RegistrySound

\* An operation in flight carries the key it was started for: a value to add, or a key to
\* select and the key it replaces.
Remembers(o) ==
    o.pc # "idle" => /\ o.kind = "add" => o.value # None
                     /\ o.kind = "activate" => o.key # None /\ o.prev # None
Remembered == \A p \in Procs : Remembers(op[p])

Operations == op \in [Procs -> Ops] /\ Remembered

\* The rest of the state: the auth store, the running OpenCode and the bounds.
Surroundings ==
    /\ auth \in Credentials /\ loaded \in Credentials
    /\ started \in 0..MaxOps /\ crashes \in 0..MaxCrashes
    /\ settled \in BOOLEAN

RemovedTyped == removed \subseteq Values

IInv == Registry /\ Operations /\ Surroundings /\ RemovedTyped

-----------------------------------------------------------------------------
(* The registry's three mutations. *)

LEMMA NoneIsNoId == None \notin Ids /\ None \notin Values
BY ProviderKeysAssumption DEF Ids, ProviderKeysAssumption

\* A list that is not empty has a first key and a last one.
LEMMA EarliestKey ==
    ASSUME NEW S \in SUBSET Keys, S # {}
    PROVE  Earliest(S) \in S /\ \A l \in S : Earliest(S).at <= l.at
<1> DEFINE T == {k.at : k \in S}
           R == OpToRel(<, Nat)
<1>1. T \subseteq Nat /\ T # {}
  BY DEF Keys
<1>2. PICK x \in T : \A y \in T : <<y, x>> \notin R
  <2>1. IsWellFoundedOn(R, Nat)
    BY NatLessThanWellFounded
  <2> HIDE DEF R, T
  <2> QED BY <1>1, <2>1, WFMin
<1>3. PICK k \in S : k.at = x
  OBVIOUS
<1>4. ASSUME NEW l \in S PROVE k.at <= l.at
  <2>1. l.at \in T /\ <<l.at, x>> \notin R
    BY <1>2
  <2>2. ~(l.at < x)
    BY <1>1, <2>1 DEF OpToRel
  <2>3. k.at \in Nat /\ l.at \in Nat
    BY DEF Keys
  <2> QED BY <1>3, <2>2, <2>3
<1> QED BY <1>4 DEF Earliest

LEMMA LatestKey ==
    ASSUME NEW S \in SUBSET Keys, S # {}
    PROVE  Latest(S) \in S
<1> DEFINE T == {MaxKeys - k.at : k \in S}
           R == OpToRel(<, Nat)
<1>1. T \subseteq Nat /\ T # {} /\ MaxKeys \in Nat
  BY ProviderKeysAssumption DEF Keys, ProviderKeysAssumption
<1>2. PICK x \in T : \A y \in T : <<y, x>> \notin R
  <2>1. IsWellFoundedOn(R, Nat)
    BY NatLessThanWellFounded
  <2> HIDE DEF R, T
  <2> QED BY <1>1, <2>1, WFMin
<1>3. PICK k \in S : MaxKeys - k.at = x
  OBVIOUS
<1>4. ASSUME NEW l \in S PROVE l.at <= k.at
  <2>1. MaxKeys - l.at \in T /\ <<MaxKeys - l.at, x>> \notin R
    BY <1>2
  <2>2. ~(MaxKeys - l.at < x)
    BY <1>1, <2>1 DEF OpToRel
  <2>3. k.at \in Nat /\ l.at \in Nat
    BY DEF Keys
  <2> QED BY <1>1, <1>3, <2>2, <2>3
<1> QED BY <1>4 DEF Latest

\* The key an id names: a key with that id, and no key with that id is before it.
LEMMA KeyNamed ==
    ASSUME NEW ks \in SUBSET Keys, NEW k \in ks
    PROVE  /\ KeyIn(ks, k.id) \in ks /\ KeyIn(ks, k.id).id = k.id
           /\ \A l \in ks : l.id = k.id => KeyIn(ks, k.id).at <= l.at
<1> DEFINE S == {l \in ks : l.id = k.id}
<1>1. S \in SUBSET Keys /\ S # {}
  OBVIOUS
<1>2. Earliest(S) \in S /\ \A l \in S : Earliest(S).at <= l.at
  <2> HIDE DEF S
  <2> QED BY <1>1, EarliestKey
<1> QED BY <1>2 DEF KeyIn

\* Among keys with places of their own it is the only one of that kind.
LEMMA OnlyFirst ==
    ASSUME NEW ks \in SUBSET Keys, Apart(ks), NEW k \in ks,
           \A l \in ks : l.id = k.id => k.at <= l.at
    PROVE  KeyIn(ks, k.id) = k /\ ValueIn(ks, k.id) = k.value
<1> DEFINE f == KeyIn(ks, k.id)
<1>1. f \in ks /\ f.id = k.id /\ f.at <= k.at
  BY KeyNamed
<1>2. k.at <= f.at /\ f.at \in Nat /\ k.at \in Nat
  BY <1>1 DEF Keys
<1>3. f.at = k.at
  BY <1>1, <1>2
<1> QED BY <1>1, <1>3 DEF Apart, ValueIn

LEMMA NamedIn ==
    ASSUME NEW ks \in SUBSET Keys, NEW id \in {k.id : k \in ks}
    PROVE  /\ id \in Ids /\ KeyIn(ks, id) \in ks /\ KeyIn(ks, id).id = id
           /\ ValueIn(ks, id) = KeyIn(ks, id).value /\ ValueIn(ks, id) \in Values
<1>1. PICK k \in ks : k.id = id
  OBVIOUS
<1>2. KeyIn(ks, id) \in ks /\ KeyIn(ks, id).id = id
  BY <1>1, KeyNamed
<1> QED BY <1>1, <1>2 DEF ValueIn, Keys

LEMMA ValueTyped ==
    ASSUME Registry, NEW id \in Registered
    PROVE  ValueOf(id) \in Values /\ id \in Ids /\ KeyIn(keys, id) \in keys /\ KeyIn(keys, id).id = id
BY NamedIn DEF Registry, RegistryTyped, Registered, ValueOf

\* Adding a value keeps the registry sound: it is new, and its place is the last.
LEMMA AddSound ==
    ASSUME Registry, NEW v \in Values, NEW id \in Readings, Add(v, id)
    PROVE  Registry'
<1>1. CASE Known(v) # {} /\ UNCHANGED <<keys, active, made>>
  BY <1>1 DEF Registry, RegistryTyped, Placed, RegistrySound, Registered
<1>2. CASE Known(v) = {} /\ made < MaxKeys /\ made' = made + 1
           /\ keys' = keys \cup {[at |-> made + 1, id |-> id, value |-> v]}
           /\ active' = IF active = None THEN id ELSE active
  <2> DEFINE new == [at |-> made + 1, id |-> id, value |-> v]
  <2>1. made + 1 \in 1..MaxKeys /\ made' \in 0..MaxKeys /\ id \in Ids /\ id # None
    BY <1>2, ProviderKeysAssumption, NoneIsNoId
    DEF Registry, RegistryTyped, Ids, ProviderKeysAssumption
  <2>2. new \in Keys
    BY <2>1 DEF Keys
  <2>3. RegistryTyped'
    BY <1>2, <2>1, <2>2 DEF Registry, RegistryTyped
  <2>4. \A k \in keys : k.at <= made /\ k.at \in Nat /\ made \in Nat
    BY DEF Registry, RegistryTyped, Placed, Keys
  <2>5. \A k \in keys : k.at <= made + 1 /\ k.at # made + 1
    BY <2>4
  <2>6. Placed'
    BY <1>2, <2>1, <2>5 DEF Registry, Placed, Apart
  <2>7. \A k, l \in keys' : k.value = l.value => k = l
    BY <1>2 DEF Registry, RegistrySound, Known
  <2>8. keys' # {} /\ active' \in {k.id : k \in keys'}
    BY <1>2, <2>1, NoneIsNoId DEF Registry, RegistrySound, Registered
  <2>9. RegistrySound'
    BY <2>7, <2>8 DEF RegistrySound, Registered
  <2> QED BY <2>3, <2>6, <2>9 DEF Registry
<1> QED BY <1>1, <1>2 DEF Add

\* What is promoted for a deleted key is one of the others, if there are any.
LEMMA PromotedKey ==
    ASSUME Registry, NEW k \in keys
    PROVE  IF keys \ {k} = {} THEN Promoted(k) = None
           ELSE Promoted(k) \in {l.id : l \in keys \ {k}}
<1> DEFINE others == keys \ {k}
           later == {l \in others : l.at > k.at}
<1>1. others \in SUBSET Keys /\ later \in SUBSET Keys
  BY DEF Registry, RegistryTyped
<1>2. Promoted(k) = IF others = {} THEN None
                    ELSE IF later # {} THEN Earliest(later).id ELSE Latest(others).id
  BY DEF Promoted
<1>3. later \subseteq others
  OBVIOUS
<1> HIDE DEF others, later
<1>4. later # {} => Earliest(later) \in others
  BY <1>1, <1>3, EarliestKey
<1>5. others # {} => Latest(others) \in others
  BY <1>1, LatestKey
<1>6. others # {} => Promoted(k) \in {l.id : l \in others}
  BY <1>2, <1>4, <1>5
<1>7. IF others = {} THEN Promoted(k) = None ELSE Promoted(k) \in {l.id : l \in others}
  BY <1>2, <1>6
<1> QED BY <1>7 DEF others

\* Deleting a key promotes one that remains, or none when none remains.
LEMMA DeleteSound ==
    ASSUME Registry, NEW id, Delete(id), made' = made
    PROVE  Registry'
<1>1. CASE id \notin Registered
  BY <1>1 DEF Delete, Registry, RegistryTyped, RegistrySound, Placed, Registered
<1>2. CASE id \in Registered
  <2> DEFINE k == KeyIn(keys, id)
  <2>1. k \in keys /\ k.id = id
    BY <1>2, ValueTyped
  <2>2. keys' = keys \ {k} /\ active' = IF active = id THEN Promoted(k) ELSE active
    BY <1>2 DEF Delete
  <2> HIDE DEF k
  <2>3. IF keys' = {} THEN active' = None ELSE active' \in Registered'
    <3>1. CASE active = id
      BY <2>1, <2>2, <3>1, PromotedKey DEF Registered
    <3>2. CASE active # id
      <4>1. active \in Registered /\ active' = active
        BY <2>1, <2>2, <3>2 DEF Registry, RegistrySound
      <4>2. PICK l \in keys : l.id = active
        BY <4>1 DEF Registered
      <4>3. l \in keys'
        BY <2>1, <2>2, <3>2, <4>2
      <4> QED BY <4>1, <4>2, <4>3 DEF Registered
    <3> QED BY <3>1, <3>2
  <2>4. keys' \subseteq keys
    BY <2>2
  <2>5. RegistrySound'
    BY <2>3, <2>4 DEF Registry, RegistrySound
  <2>6. Placed'
    BY <2>4 DEF Registry, Placed, Apart
  <2>7. RegistryTyped'
    <3>1. keys' \in SUBSET Keys
      BY <2>4 DEF Registry, RegistryTyped
    <3>2. active' \in Ids \cup {None}
      BY <2>3, <3>1 DEF Registered, Keys
    <3> QED BY <3>1, <3>2 DEF Registry, RegistryTyped
  <2> QED BY <2>5, <2>6, <2>7 DEF Registry
<1> QED BY <1>1, <1>2

\* Selecting a key selects a registered one or nothing.
LEMMA SelectSound ==
    ASSUME Registry, NEW id \in Ids, Select(id), made' = made
    PROVE  Registry'
<1>1. keys' = keys /\ (active' = active \/ (active' = id /\ id \in Registered))
  BY NoneIsNoId DEF Select, CanSelect
<1>2. keys # {} => active' \in Registered
  BY <1>1 DEF Registry, RegistrySound
<1>3. keys = {} => active' = None
  BY <1>1 DEF Registry, RegistrySound, Registered
<1> QED BY <1>1, <1>2, <1>3 DEF Registry, RegistryTyped, RegistrySound, Placed, Registered

LEMMA UnchangedRegistry ==
    ASSUME Registry, UNCHANGED <<keys, active, made>>
    PROVE  Registry'
BY DEF Registry, RegistryTyped, RegistrySound, Placed, Registered

-----------------------------------------------------------------------------
(* What the start of an operation does to the operations in flight. *)

LEMMA IdleTyped == Idle \in Ops /\ Remembers(Idle)
BY DEF Idle, Ops, Remembers, PCs, Kinds, Results, Credentials, None

LEMMA StartOperations ==
    ASSUME IInv, NEW p \in Procs, NEW new \in Ops, Remembers(new), Start(p, new)
    PROVE  Operations' /\ Surroundings'
<1>1. op' \in [Procs -> Ops]
  <2>1. [keys |-> keys, active |-> active, auth |-> auth]
          \in [keys : SUBSET Keys, active : Ids \cup {None}, auth : Credentials]
    BY DEF IInv, Registry, RegistryTyped, Surroundings
  <2>2. \A b \in BOOLEAN :
          [new EXCEPT !.alone = b, !.before = [keys |-> keys, active |-> active, auth |-> auth]]
            \in Ops
    BY <2>1 DEF Ops
  <2>3. \A q \in Procs : [op[q] EXCEPT !.alone = FALSE] \in Ops
    BY DEF IInv, Operations, Ops
  <2>4. (InFlight = {}) \in BOOLEAN
    OBVIOUS
  <2> QED BY <2>2, <2>3, <2>4, IdleTyped DEF Start
<1>2. ASSUME NEW q \in Procs PROVE Remembers(op[q])'
  BY IdleTyped DEF IInv, Operations, Remembered, Remembers, Start, Ops
<1>3. Surroundings'
  <2>1. settled' \in BOOLEAN
    <3>1. settled' = (settled /\ InFlight = {})
      BY DEF Start
    <3> QED BY <3>1
  <2>2. started' \in 0..MaxOps
    <3>1. started < MaxOps /\ started' = started + 1
      BY DEF Start
    <3>2. started \in 0..MaxOps /\ MaxOps \in Nat
      BY ProviderKeysAssumption DEF IInv, Surroundings, ProviderKeysAssumption
    <3> QED BY <3>1, <3>2
  <2> QED BY <2>1, <2>2 DEF IInv, Surroundings, Start
<1> QED BY <1>1, <1>2, <1>3 DEF Operations, Remembered

\* What a step does to its own operation keeps the operations typed, as long as it only
\* moves it on: the value and the keys it was started for stay, or the key is a new id.
LEMMA MoveOperations ==
    ASSUME IInv, NEW p \in Procs, NEW o \in Ops, op' = [op EXCEPT ![p] = o], Remembers(o)
    PROVE  Operations'
BY DEF IInv, Operations, Remembered, Remembers

LEMMA EndOperations ==
    ASSUME IInv, NEW p \in Procs, NEW result \in Results, End(p, result)
    PROVE  Operations'
<1> DEFINE o == [op[p] EXCEPT !.pc = "idle", !.result = result]
<1>1. op' = [op EXCEPT ![p] = o]
  BY DEF End, IInv, Operations
<1>2. o \in Ops /\ Remembers(o)
  BY ZenonT(30) DEF IInv, Operations, Ops, PCs, Remembered, Remembers
<1> QED BY <1>1, <1>2, MoveOperations

LEMMA GoOperations ==
    ASSUME IInv, NEW p \in Procs, op[p].pc # "idle", NEW pc \in PCs, Go(p, pc)
    PROVE  Operations'
<1> DEFINE o == [op[p] EXCEPT !.pc = pc]
<1>1. op' = [op EXCEPT ![p] = o]
  BY DEF Go, IInv, Operations
<1>2. o \in Ops /\ Remembers(o)
  BY DEF IInv, Operations, Ops, Remembered, Remembers
<1> QED BY <1>1, <1>2, MoveOperations

-----------------------------------------------------------------------------
(* The start of an operation. *)

LEMMA StartAddStep ==
    ASSUME IInv, NEW p \in Operators, NEW v \in Values, StartAdd(p, v)
    PROVE  IInv'
<1>1. p \in Procs
  BY DEF Procs
<1>2. CASE keys = {} /\ UNCHANGED <<keys, active, made, removed>>
           /\ Start(p, [Idle EXCEPT !.pc = "read", !.kind = "add", !.value = v])
  <2> DEFINE new == [Idle EXCEPT !.pc = "read", !.kind = "add", !.value = v]
  <2>1. new \in Ops /\ Remembers(new)
    BY IdleTyped, NoneIsNoId DEF Idle, Ops, PCs, Kinds, Credentials, Remembers
  <2>2. Operations' /\ Surroundings'
    BY <1>1, <1>2, <2>1, StartOperations
  <2> QED BY <1>2, <2>2, UnchangedRegistry DEF IInv, RemovedTyped
<1>3. ASSUME NEW now \in Readings,
             keys # {} /\ Add(v, now) /\ removed' = removed \ {v}
             /\ Start(p, [Idle EXCEPT !.kind = "add", !.result = "ok"])
      PROVE IInv'
  <2> DEFINE new == [Idle EXCEPT !.kind = "add", !.result = "ok"]
  <2>1. new \in Ops /\ Remembers(new)
    BY IdleTyped, NoneIsNoId DEF Idle, Ops, Kinds, Credentials, Results, Remembers
  <2>2. Operations' /\ Surroundings'
    BY <1>1, <1>3, <2>1, StartOperations
  <2> QED BY <1>3, <2>2, AddSound DEF IInv, RemovedTyped
<1> QED BY <1>2, <1>3 DEF StartAdd

LEMMA StartActivateStep ==
    ASSUME IInv, NEW p \in Operators, NEW id \in Ids, StartActivate(p, id)
    PROVE  IInv'
<1> DEFINE new == [Idle EXCEPT !.pc = "read", !.kind = "activate", !.key = id,
                               !.value = ValueOf(id), !.prev = active]
<1>1. p \in Procs /\ id \in Registered /\ Start(p, new)
      /\ UNCHANGED <<keys, active, made, removed>>
  BY DEF Procs, StartActivate
<1>2. active \in Ids /\ active # None /\ id # None
  BY <1>1, NoneIsNoId, ValueTyped
  DEF IInv, Registry, RegistryTyped, RegistrySound, Registered
<1>3. ValueOf(id) \in Credentials
  BY <1>1, ValueTyped DEF IInv, Credentials
<1>4. new \in Ops /\ Remembers(new)
  BY <1>2, <1>3, IdleTyped DEF Idle, Ops, PCs, Kinds, Remembers
<1>5. Operations' /\ Surroundings'
  BY <1>1, <1>4, StartOperations
<1> QED BY <1>1, <1>5, UnchangedRegistry DEF IInv, RemovedTyped

LEMMA StartDeleteStep ==
    ASSUME IInv, NEW p \in Operators, NEW id \in Ids, StartDelete(p, id)
    PROVE  IInv'
<1>1. p \in Procs /\ id \in Registered /\ Delete(id) /\ made' = made
      /\ removed' = removed \cup {ValueOf(id)}
  BY DEF Procs, StartDelete
<1>2. Registry'
  BY <1>1, DeleteSound DEF IInv
<1>3. RemovedTyped'
  BY <1>1, ValueTyped DEF IInv, RemovedTyped
<1>4. Replacement(keys', active') \in Credentials
  <2>1. keys' \in SUBSET Keys /\ (keys' = {} => active' = None) /\ (keys' # {} => active' \in {k.id : k \in keys'})
    BY <1>2 DEF Registry, RegistryTyped, RegistrySound, Registered
  <2>2. keys' # {} => ValueIn(keys', active') \in Values
    BY <2>1, NamedIn
  <2> QED BY <2>1, <2>2 DEF Replacement, Credentials
<1>5. Operations' /\ Surroundings'
  <2>1. CASE active = id
    <3> DEFINE new == [Idle EXCEPT !.pc = "apply", !.kind = "delete", !.key = id,
                                   !.value = Replacement(keys', active')]
    <3>1. new \in Ops /\ Remembers(new)
      BY <1>4, <2>1, IdleTyped DEF Idle, Ops, PCs, Kinds, Remembers
    <3>2. Start(p, new)
      BY <2>1 DEF StartDelete
    <3> QED BY <1>1, <3>1, <3>2, StartOperations
  <2>2. CASE active # id
    <3> DEFINE new == [Idle EXCEPT !.result = "ok"]
    <3>1. new \in Ops /\ Remembers(new)
      BY IdleTyped DEF Idle, Ops, Results, Remembers
    <3>2. Start(p, new)
      BY <2>2 DEF StartDelete
    <3> QED BY <1>1, <3>1, <3>2, StartOperations
  <2> QED BY <2>1, <2>2
<1> QED BY <1>2, <1>3, <1>5 DEF IInv

LEMMA DropProviderStep ==
    ASSUME IInv, NEW p \in Routes, DropProvider(p)
    PROVE  IInv'
<1> DEFINE new == [Idle EXCEPT !.result = "ok"]
<1>1. new \in Ops /\ Remembers(new)
  BY IdleTyped DEF Idle, Ops, Results, Remembers
<1>2. p \in Procs /\ Start(p, new) /\ keys' = {} /\ active' = None
      /\ UNCHANGED <<made, removed>>
  BY DEF Procs, Operators, DropProvider
<1>3. Operations' /\ Surroundings'
  BY <1>1, <1>2, StartOperations
<1>4. Registry'
  BY <1>2 DEF IInv, Registry, RegistryTyped, Placed, Apart, RegistrySound, Registered
<1> QED BY <1>2, <1>3, <1>4 DEF IInv, RemovedTyped

LEMMA StartImportStep ==
    ASSUME IInv, NEW p \in Routes \cup Listings, StartImport(p)
    PROVE  IInv'
<1> DEFINE new == [Idle EXCEPT !.pc = "read",
                               !.kind = IF p \in Listings THEN "list" ELSE "import"]
<1>1. new \in Ops /\ Remembers(new)
  BY IdleTyped DEF Idle, Ops, PCs, Kinds, Remembers
<1>2. p \in Procs /\ Start(p, new) /\ UNCHANGED <<keys, active, made, removed>>
  BY DEF Procs, Operators, StartImport
<1>3. Operations' /\ Surroundings'
  BY <1>1, <1>2, StartOperations
<1> QED BY <1>2, <1>3, UnchangedRegistry DEF IInv, RemovedTyped

-----------------------------------------------------------------------------
(* The steps of an operation. *)

LEMMA ReadAuthStoreStep ==
    ASSUME IInv, NEW p \in Procs, ReadAuthStore(p)
    PROVE  IInv'
<1>1. op[p] \in Ops /\ Remembers(op[p]) /\ op[p].pc = "read"
  BY DEF IInv, Operations, Remembered, ReadAuthStore, At
<1>2. Registry' /\ Surroundings' /\ RemovedTyped'
  BY UnchangedRegistry DEF IInv, Surroundings, RemovedTyped, ReadAuthStore, bounds
<1>3. CASE op' = [op EXCEPT ![p].pc = "answer", ![p].prevAuth = auth]
  <2> DEFINE o == [op[p] EXCEPT !.pc = "answer", !.prevAuth = auth]
  <2>1. o \in Ops /\ Remembers(o)
    BY <1>1 DEF Ops, PCs, Remembers, IInv, Surroundings
  <2>2. op' = [op EXCEPT ![p] = o]
    BY <1>3 DEF IInv, Operations
  <2>3. Operations'
    BY <2>1, <2>2, MoveOperations
  <2> QED BY <1>2, <2>3 DEF IInv
<1>4. CASE End(p, "refused")
  BY <1>2, <1>4, EndOperations DEF Results, IInv
<1> QED BY <1>3, <1>4 DEF ReadAuthStore

LEMMA AnswerStep ==
    ASSUME IInv, NEW p \in Procs, Answer(p)
    PROVE  IInv'
<1>1. op[p] \in Ops /\ Remembers(op[p]) /\ op[p].pc = "answer"
  BY DEF IInv, Operations, Remembered, Answer, At
<1>2. Surroundings'
  BY DEF IInv, Surroundings, Answer, bounds
<1>3. CASE End(p, "refused") /\ UNCHANGED <<keys, active, made, removed>>
  BY <1>2, <1>3, EndOperations, UnchangedRegistry DEF Results, IInv, RemovedTyped
<1>4. ASSUME NEW now \in Readings,
             /\ op[p].kind = "add"
             /\ Add(op[p].value, now)
             /\ removed' = removed \ {op[p].value}
             /\ op' = [op EXCEPT ![p].pc = "apply", ![p].key = AddedKey(op[p].value, now)]
      PROVE  IInv'
  <2> DEFINE o == [op[p] EXCEPT !.pc = "apply", !.key = AddedKey(op[p].value, now)]
  <2>1. op[p].value \in Values
    BY <1>1, <1>4 DEF Remembers, Ops, Credentials
  <2>2. Registry'
    BY <1>4, <2>1, AddSound DEF IInv
  <2>3. AddedKey(op[p].value, now) \in Ids
    <3>1. CASE Known(op[p].value) = {}
      BY <3>1 DEF AddedKey, Ids
    <3>2. CASE Known(op[p].value) # {}
      <4>1. (CHOOSE k \in Known(op[p].value) : TRUE) \in Keys
        BY <3>2 DEF Known, IInv, Registry, RegistryTyped
      <4> QED BY <3>2, <4>1 DEF AddedKey, Keys
    <3> QED BY <3>1, <3>2
  <2>4. o \in Ops /\ Remembers(o)
    BY <1>1, <1>4, <2>1, <2>3, NoneIsNoId DEF Ops, PCs, Remembers
  <2>5. op' = [op EXCEPT ![p] = o]
    BY <1>4 DEF IInv, Operations
  <2>6. Operations'
    BY <2>4, <2>5, MoveOperations
  <2> QED BY <1>2, <1>4, <2>2, <2>6 DEF IInv, RemovedTyped
<1>5. ASSUME NEW now \in Readings,
             /\ op[p].prevAuth # None
             /\ Add(op[p].prevAuth, now)
             /\ removed' = IF op[p].kind = "list" THEN removed
                           ELSE removed \ {op[p].prevAuth}
             /\ End(p, "ok")
      PROVE  IInv'
  <2>1. op[p].prevAuth \in Values
    BY <1>1, <1>5 DEF Ops, Credentials
  <2>2. Registry'
    BY <1>5, <2>1, AddSound DEF IInv
  <2>3. Operations'
    BY <1>5, EndOperations DEF Results
  <2>4. RemovedTyped'
    BY <1>5 DEF IInv, RemovedTyped
  <2> QED BY <1>2, <2>2, <2>3, <2>4 DEF IInv
<1>6. CASE /\ op[p].kind = "activate"
           /\ Select(op[p].key)
           /\ Go(p, "apply")
           /\ UNCHANGED <<made, removed>>
  <2>1. op[p].key \in Ids
    BY <1>1, <1>6 DEF Remembers, Ops
  <2>2. Registry'
    BY <1>6, <2>1, SelectSound DEF IInv
  <2>3. Operations'
    BY <1>1, <1>6, GoOperations DEF PCs
  <2> QED BY <1>2, <1>6, <2>2, <2>3 DEF IInv, RemovedTyped
<1>7. op[p].kind \in {"import", "list"} /\ ~Refused(p) => op[p].prevAuth # None
  BY DEF Refused
<1> QED BY <1>3, <1>4, <1>5, <1>6, <1>7 DEF Answer

\* Undoing keeps the registry sound: it deletes the added key, or selects the key that
\* was replaced.
LEMMA UndoSound ==
    ASSUME IInv, NEW p \in Procs, op[p].pc # "idle", Undo(p)
    PROVE  Registry' /\ Operations' /\ RemovedTyped' /\ settled' \in BOOLEAN
<1>1. op[p] \in Ops /\ Remembers(op[p]) /\ settled \in BOOLEAN
  BY DEF IInv, Operations, Remembered, Surroundings
<1>2. UNCHANGED <<made, removed>> /\ RemovedTyped'
  BY DEF Undo, IInv, RemovedTyped
<1>3. CASE op[p].kind = "delete" /\ End(p, "failed") /\ settled' = FALSE
           /\ UNCHANGED <<keys, active>>
  BY <1>2, <1>3, EndOperations, UnchangedRegistry DEF Results, IInv
<1>4. CASE /\ op[p].kind = "add"
           /\ Delete(op[p].key)
           /\ op' = [op EXCEPT ![p].pc = "undo", ![p].whole = op[p].key \in Registered]
           /\ UNCHANGED settled
  <2> DEFINE o == [op[p] EXCEPT !.pc = "undo", !.whole = op[p].key \in Registered]
  <2>1. Registry'
    BY <1>2, <1>4, DeleteSound DEF IInv
  <2>2. (op[p].key \in Registered) \in BOOLEAN
    OBVIOUS
  <2>3. o \in Ops /\ Remembers(o)
    BY <1>1, <2>2, op[p].pc # "idle" DEF Ops, PCs, Remembers
  <2>4. op' = [op EXCEPT ![p] = o]
    BY <1>4 DEF IInv, Operations
  <2>5. Operations'
    BY <2>3, <2>4, MoveOperations
  <2> QED BY <1>1, <1>2, <1>4, <2>1, <2>5
<1>5. CASE /\ op[p].kind = "activate" /\ p \in Routes
           /\ Select(op[p].prev)
           /\ op' = [op EXCEPT ![p].pc = "undo", ![p].whole = CanSelect(op[p].prev)]
           /\ UNCHANGED settled
  <2> DEFINE o == [op[p] EXCEPT !.pc = "undo", !.whole = CanSelect(op[p].prev)]
  <2>1. op[p].prev \in Ids
    BY <1>1, <1>5 DEF Remembers, Ops
  <2>2. Registry'
    BY <1>2, <1>5, <2>1, SelectSound DEF IInv
  <2>3. CanSelect(op[p].prev) \in BOOLEAN
    BY DEF CanSelect
  <2>4. o \in Ops /\ Remembers(o)
    BY <1>1, <2>3 DEF Ops, PCs, Remembers
  <2>5. op' = [op EXCEPT ![p] = o]
    BY <1>5 DEF IInv, Operations
  <2>6. Operations'
    BY <2>4, <2>5, MoveOperations
  <2> QED BY <1>1, <1>2, <1>5, <2>2, <2>6
<1>6. CASE /\ op[p].kind = "activate" /\ p \in Commands
           /\ Go(p, "undo")
           /\ UNCHANGED <<keys, active, settled>>
  BY <1>1, <1>2, <1>6, GoOperations, UnchangedRegistry DEF PCs, IInv
<1> QED BY <1>3, <1>4, <1>5, <1>6 DEF Undo

LEMMA ApplyStep ==
    ASSUME IInv, NEW p \in Procs, Apply(p)
    PROVE  IInv'
<1>1. op[p] \in Ops /\ op[p].pc = "apply" /\ UNCHANGED <<loaded, started, crashes>>
  BY DEF IInv, Operations, Apply, At, bounds
<1>2. auth' \in Credentials
  BY <1>1 DEF Apply, IInv, Surroundings, Ops
<1>3. CASE Go(p, "restart") /\ UNCHANGED <<keys, active, made, removed, settled>>
  <2>1. Registry' /\ Operations' /\ Surroundings'
    BY <1>1, <1>2, <1>3, GoOperations, UnchangedRegistry DEF PCs, IInv, Surroundings
  <2> QED BY <1>3, <2>1 DEF IInv, RemovedTyped
<1>4. CASE Undo(p)
  <2>1. Registry' /\ Operations' /\ RemovedTyped' /\ settled' \in BOOLEAN
    BY <1>1, <1>4, UndoSound
  <2> QED BY <1>1, <1>2, <2>1 DEF IInv, Surroundings
<1> QED BY <1>3, <1>4 DEF Apply

LEMMA RestartStep ==
    ASSUME IInv, NEW p \in Procs, Restart(p)
    PROVE  IInv'
<1>1. op[p] \in Ops /\ op[p].pc = "restart" /\ UNCHANGED <<auth, started, crashes>>
  BY DEF IInv, Operations, Restart, At, bounds
<1>2. loaded' \in Credentials
  BY <1>1 DEF Restart, IInv, Surroundings
<1>3. CASE /\ End(p, "ok") /\ settled' = (settled \/ op[p].alone)
           /\ UNCHANGED <<keys, active, made, removed>>
  <2>1. settled' \in BOOLEAN
    BY <1>3
  <2>2. Registry' /\ Operations' /\ Surroundings'
    BY <1>1, <1>2, <1>3, <2>1, EndOperations, UnchangedRegistry DEF Results, IInv, Surroundings
  <2> QED BY <1>3, <2>2 DEF IInv, RemovedTyped
<1>4. CASE Undo(p)
  <2>1. Registry' /\ Operations' /\ RemovedTyped' /\ settled' \in BOOLEAN
    BY <1>1, <1>4, UndoSound
  <2> QED BY <1>1, <1>2, <2>1 DEF IInv, Surroundings
<1> QED BY <1>3, <1>4 DEF Restart

LEMMA UndoAuthStep ==
    ASSUME IInv, NEW p \in Procs, UndoAuth(p)
    PROVE  IInv'
<1>1. op[p] \in Ops /\ Remembers(op[p]) /\ op[p].pc = "undo"
      /\ UNCHANGED <<loaded, made, removed, started, crashes, settled>>
  BY DEF IInv, Operations, Remembered, UndoAuth, At, bounds
<1>2. PICK done \in BOOLEAN :
        /\ auth' \in (IF done THEN {Previous(p)} ELSE {auth, Previous(p)})
        /\ op' = [op EXCEPT ![p].pc = "undo restart",
                      ![p].whole = @ /\ done /\ (Late(p) => CanSelect(op[p].prev))]
        /\ IF Late(p) THEN Select(op[p].prev) ELSE UNCHANGED <<keys, active>>
  BY DEF UndoAuth
<1>3. Surroundings'
  BY <1>1, <1>2 DEF IInv, Surroundings, Previous, Ops
<1>4. Registry'
  <2>1. CASE Late(p)
    <3>1. op[p].prev \in Ids
      BY <1>1, <2>1 DEF Late, Remembers, Ops
    <3> QED BY <1>1, <1>2, <2>1, <3>1, SelectSound DEF IInv
  <2>2. CASE ~Late(p)
    BY <1>1, <1>2, <2>2, UnchangedRegistry DEF IInv
  <2> QED BY <2>1, <2>2
<1>5. Operations'
  <2> DEFINE whole == op[p].whole /\ done /\ (Late(p) => CanSelect(op[p].prev))
             o == [op[p] EXCEPT !.pc = "undo restart", !.whole = whole]
  <2>1. whole \in BOOLEAN
    OBVIOUS
  <2>2. op' = [op EXCEPT ![p] = o]
    BY <1>2 DEF IInv, Operations
  <2> HIDE DEF whole
  <2>3. o \in Ops /\ Remembers(o)
    BY <1>1, <2>1 DEF Ops, PCs, Remembers
  <2> QED BY <2>2, <2>3, MoveOperations
<1> QED BY <1>1, <1>3, <1>4, <1>5 DEF IInv, RemovedTyped

LEMMA UndoRestartStep ==
    ASSUME IInv, NEW p \in Procs, UndoRestart(p)
    PROVE  IInv'
<1>1. UNCHANGED <<keys, active, auth, made, removed, started, crashes>>
  BY DEF UndoRestart, bounds
<1>2. op[p].whole \in BOOLEAN /\ settled \in BOOLEAN
  BY DEF IInv, Operations, Ops, Surroundings
<1>3. Operations'
  BY EndOperations DEF UndoRestart, Results
<1>4. Surroundings'
  <2>1. settled' \in BOOLEAN
    BY <1>2 DEF UndoRestart
  <2>2. loaded' \in Credentials
    BY DEF UndoRestart, IInv, Surroundings
  <2> QED BY <1>1, <2>1, <2>2 DEF IInv, Surroundings
<1> QED BY <1>1, <1>3, <1>4, UnchangedRegistry DEF IInv, RemovedTyped

LEMMA CrashStep ==
    ASSUME IInv, Crash
    PROVE  IInv'
<1>1. UNCHANGED <<keys, active, auth, loaded, made, started, removed>>
  BY DEF Crash
<1>2. Operations'
  BY IdleTyped DEF Crash, Operations, Remembered
<1>3. crashes' \in 0..MaxCrashes
  <2>1. crashes < MaxCrashes /\ crashes' = crashes + 1
    BY DEF Crash
  <2>2. crashes \in 0..MaxCrashes /\ MaxCrashes \in Nat
    BY ProviderKeysAssumption DEF IInv, Surroundings, ProviderKeysAssumption
  <2> QED BY <2>1, <2>2
<1>4. settled' \in BOOLEAN
  <2>1. settled' = (settled /\ InFlight = {})
    BY DEF Crash
  <2> QED BY <2>1
<1> QED BY <1>1, <1>2, <1>3, <1>4, UnchangedRegistry DEF IInv, Surroundings, RemovedTyped

-----------------------------------------------------------------------------
LEMMA InitInvariant == Init => IInv
<1> SUFFICES ASSUME Init PROVE IInv
  OBVIOUS
<1>1. Registry
  BY ProviderKeysAssumption
  DEF Init, Registry, RegistryTyped, Placed, Apart, RegistrySound, ProviderKeysAssumption
<1>2. Operations
  BY IdleTyped DEF Init, Operations, Remembered
<1>3. Surroundings /\ RemovedTyped
  BY ProviderKeysAssumption DEF Init, Surroundings, RemovedTyped, ProviderKeysAssumption
<1> QED BY <1>1, <1>2, <1>3 DEF IInv

LEMMA NextInvariant == IInv /\ [Next]_vars => IInv'
<1> SUFFICES ASSUME IInv, [Next]_vars PROVE IInv'
  OBVIOUS
<1>1. ASSUME NEW p \in Operators, NEW v \in Values, StartAdd(p, v) PROVE IInv'
  BY <1>1, StartAddStep
<1>2. ASSUME NEW p \in Operators, NEW id \in Ids, StartActivate(p, id) PROVE IInv'
  BY <1>2, StartActivateStep
<1>3. ASSUME NEW p \in Operators, NEW id \in Ids, StartDelete(p, id) PROVE IInv'
  BY <1>3, StartDeleteStep
<1>4. ASSUME NEW p \in Routes, DropProvider(p) PROVE IInv'
  BY <1>4, DropProviderStep
<1>5. ASSUME NEW p \in Routes \cup Listings, StartImport(p) PROVE IInv'
  BY <1>5, StartImportStep
<1>6. ASSUME NEW p \in Procs, Step(p) PROVE IInv'
  BY <1>6, ReadAuthStoreStep, AnswerStep, ApplyStep, RestartStep, UndoAuthStep,
     UndoRestartStep DEF Step
<1>7. CASE Crash
  BY <1>7, CrashStep
<1>8. CASE UNCHANGED vars
  BY <1>8, UnchangedRegistry
  DEF vars, IInv, Operations, Remembered, Surroundings, RemovedTyped
<1> QED BY <1>1, <1>2, <1>3, <1>4, <1>5, <1>6, <1>7, <1>8 DEF Next

\* The inductive invariant holds throughout: of the registry of lib/provider-keys.ts, and of
\* every operation on it.
THEOREM Invariance == Spec => []IInv
BY InitInvariant, NextInvariant, PTL DEF Spec

\* The registry, the auth store and the operations in flight keep their types, for any
\* number of concurrent routes, commands and listings.
THEOREM TypeCorrect == Spec => []TypeOK
<1>1. IInv => TypeOK
  BY DEF IInv, Registry, RegistryTyped, Operations, Surroundings, RemovedTyped, TypeOK
<1> QED BY <1>1, Invariance, PTL

\* However operations overlap, fail, roll back or are cut off by a restart of the admin
\* process, and whatever ids the clock gives, no value is stored twice and activeKeyId names
\* a stored key, or none when there is none.
THEOREM SoundRegistry == Spec => []RegistrySound
<1>1. IInv => RegistrySound
  BY DEF IInv, Registry
<1> QED BY <1>1, Invariance, PTL

-----------------------------------------------------------------------------
(***************************************************************************)
(* What an operation that nothing overlaps does.  It is the only one that   *)
(* moves (Solitary), so what it found is what it left (Fits): up to its     *)
(* answer nothing has changed, then the registry names the credential it is *)
(* about to apply, and an undo leads back to where it started.  As long as  *)
(* nothing overlaps or fails half-way, registry, auth store and OpenCode    *)
(* agree between operations (Agreed).                                      *)
(***************************************************************************)

\* An operation in flight, or the last one to end, that nothing has overlapped.
Lone(p) == op[p].alone /\ (op[p].pc # "idle" \/ op[p].result # "none")
Solitary == \A p \in Procs : Lone(p) => \A q \in Procs \ {p} : op[q] = Idle

\* The registry is as operation o found it.
Unmoved(o) == keys = o.before.keys /\ active = o.before.active

\* What it was started with.
Began(o) ==
    /\ o.pc # "idle" /\ o.kind \in {"add", "import", "list"} => o.before.keys = {} /\ o.before.active = None
    /\ o.pc \notin {"idle", "read"} /\ o.kind # "delete" => o.prevAuth = o.before.auth
    /\ o.pc # "idle" /\ o.kind = "activate" => o.prev = o.before.active
    /\ o.pc # "idle" /\ o.kind = "delete" => \A k \in o.before.keys \ keys : k.value # o.value

\* Before it has changed anything.
Looks(o) ==
    o.pc \in {"read", "answer"} =>
        /\ o.kind \in {"add", "activate", "import", "list"}
        /\ Unmoved(o) /\ auth = o.before.auth
        /\ o.kind = "activate" =>
              o.prev \in Registered /\ o.key \in Registered /\ o.value = ValueOf(o.key)

\* The credential it applies is that of the active key.
Applies(o) ==
    o.pc \in {"apply", "restart"} =>
        /\ o.kind \in {"add", "activate", "delete"}
        /\ keys # {} => o.value = ActiveValue
        /\ o.kind = "add" => \E k \in keys : keys = {k} /\ k.id = o.key
        /\ o.kind = "activate" => keys = o.before.keys /\ o.prev \in Registered
        /\ o.pc = "restart" => auth = o.value

\* Its way back.
Undoes(p, o) ==
    /\ o.pc \in {"undo", "undo restart"} => o.kind \in {"add", "activate"}
    /\ o.pc = "undo" => IF o.kind = "activate" /\ p \in Commands
                        THEN keys = o.before.keys /\ o.prev \in Registered
                        ELSE Unmoved(o)
    /\ o.pc = "undo restart" => Unmoved(o) /\ (o.whole => auth = o.before.auth)

\* How it ends.
Ends(o) ==
    o.pc = "idle" =>
        /\ o.result \in {"undone", "refused"} => Unmoved(o) /\ auth = o.before.auth
        /\ o.result = "undone" => loaded = auth
        /\ o.kind = "delete" /\ o.result = "ok" =>
              \A k \in o.before.keys \ keys : k.value \notin {auth, loaded}

Fits(p, o) == Began(o) /\ Looks(o) /\ Applies(o) /\ Undoes(p, o) /\ Ends(o)

\* The auth store and OpenCode hold the active key.
InUse == loaded = auth /\ (keys # {} => auth = ActiveValue)
Agreed ==
    settled =>
        /\ \A p \in Procs : op[p].pc # "idle" => op[p].alone
        /\ (\A p \in Procs : op[p].pc \in {"idle", "read", "answer"}) => InUse
        /\ \A p \in Procs : op[p].pc # "idle" /\ op[p].kind # "delete" /\ op[p].before.keys # {} =>
              op[p].before.auth = ValueIn(op[p].before.keys, op[p].before.active)

LoneInv == Solitary /\ (\A p \in Procs : Lone(p) => Fits(p, op[p])) /\ Agreed
JInv == IInv /\ LoneInv

LEMMA RegisteredIds == ASSUME Registry PROVE Registered \subseteq Ids /\ None \notin Registered
BY NoneIsNoId DEF Registry, RegistryTyped, Registered, Keys

\* In a sound registry the active key is one of the keys.
LEMMA ActiveKey ==
    ASSUME Registry, keys # {}
    PROVE  /\ active \in Registered /\ active # None
           /\ KeyIn(keys, active) \in keys /\ KeyIn(keys, active).id = active
           /\ ActiveValue = KeyIn(keys, active).value /\ ActiveValue = ValueIn(keys, active)
           /\ ActiveValue \in Values
<1>1. active \in Registered /\ active # None
  BY RegisteredIds DEF Registry, RegistrySound
<1> QED BY <1>1, NamedIn DEF Registry, RegistryTyped, Registered, ActiveValue, ValueOf

LEMMA ActiveKeyNext ==
    ASSUME Registry', keys' # {}
    PROVE  /\ active' \in {k.id : k \in keys'} /\ active' # None
           /\ KeyIn(keys', active') \in keys' /\ KeyIn(keys', active').id = active'
           /\ ActiveValue' = KeyIn(keys', active').value /\ ActiveValue' = ValueIn(keys', active')
           /\ ActiveValue' \in Values
<1>1. active' \in {k.id : k \in keys'} /\ active' # None
  BY NoneIsNoId DEF Registry, RegistryTyped, RegistrySound, Registered, Keys
<1>2. ActiveValue' = ValueIn(keys', active')
  BY <1>1 DEF ActiveValue, ValueOf
<1>3. keys' \in SUBSET Keys
  BY DEF Registry, RegistryTyped
<1> QED BY <1>1, <1>2, <1>3, NamedIn

LEMMA SameRegistry ==
    ASSUME UNCHANGED <<keys, active>>
    PROVE  /\ Registered' = Registered /\ ActiveValue' = ActiveValue
           /\ \A id : ValueOf(id)' = ValueOf(id)
BY DEF Registered, ActiveValue, ValueOf

-----------------------------------------------------------------------------
(* How a step of one operation keeps all this. *)

Turn(p, o) == op' = [op EXCEPT ![p] = o]

\* What Agreed says of the operation in flight.
Trusts(o) == o.pc # "idle" /\ o.kind # "delete" /\ o.before.keys # {} =>
                o.before.auth = ValueIn(o.before.keys, o.before.active)

LEMMA FitsNext == ASSUME NEW p, NEW o, op'[p] = o, Fits(p, o)' PROVE Fits(p, op[p])'
BY ZenonT(30) DEF Fits, Began, Looks, Applies, Undoes, Ends, Unmoved

LEMMA FitsStays ==
    ASSUME NEW p, NEW o, Fits(p, o), UNCHANGED <<keys, active, auth, loaded>>,
           Registered' = Registered, ActiveValue' = ActiveValue, \A id : ValueOf(id)' = ValueOf(id)
    PROVE  Fits(p, o)'
BY DEF Fits, Began, Looks, Applies, Undoes, Ends, Unmoved

\* Overlapped once, an operation proves nothing any more.
LEMMA Crowded ==
    ASSUME JInv, NEW p \in Procs, op[p].pc # "idle", ~op[p].alone, NEW o \in Ops, Turn(p, o),
           ~o.alone, settled' => settled
    PROVE  LoneInv'
<1>1. op'[p] = o /\ \A q \in Procs \ {p} : op'[q] = op[q]
  BY DEF Turn, JInv, IInv, Operations
<1>2. \A q \in Procs : ~Lone(q)
  <2>1. op[p] # Idle
    BY DEF Idle
  <2> QED BY <2>1 DEF JInv, LoneInv, Solitary, Lone
<1>3. \A q \in Procs : ~Lone(q)'
  BY <1>1, <1>2 DEF Lone
<1>4. ~settled
  BY DEF JInv, LoneInv, Agreed
<1> QED BY <1>3, <1>4 DEF LoneInv, Solitary, Agreed

\* Alone, it answers for itself.
LEMMA Proceeds ==
    ASSUME JInv, NEW p \in Procs, Lone(p), NEW o \in Ops, Turn(p, o), o.alone, Fits(p, o)',
           settled' => Trusts(o) /\ (o.pc \in {"idle", "read", "answer"} => InUse')
    PROVE  LoneInv'
<1>1. op'[p] = o /\ \A q \in Procs \ {p} : op'[q] = op[q] /\ op[q] = Idle
  BY DEF Turn, JInv, IInv, Operations, LoneInv, Solitary
<1>2. \A q \in Procs \ {p} : ~Lone(q)' /\ op'[q].pc = "idle"
  BY <1>1 DEF Lone, Idle
<1>3. Solitary'
  BY <1>1, <1>2 DEF Solitary
<1>4. \A q \in Procs : Lone(q)' => Fits(q, op[q])'
  <2>1. Fits(p, op[p])'
    BY <1>1, FitsNext
  <2> QED BY <1>2, <2>1
<1>5. Agreed'
  BY <1>1, <1>2 DEF Agreed, Trusts
<1> QED BY <1>3, <1>4, <1>5 DEF LoneInv

\* An operation that starts.
LEMMA OperationBegins ==
    ASSUME JInv, NEW p \in Procs, NEW new \in Ops, Start(p, new), NEW o \in Ops,
           o = [new EXCEPT !.alone = TRUE,
                           !.before = [keys |-> keys, active |-> active, auth |-> auth]],
           InFlight = {} => Fits(p, o)',
           InFlight = {} /\ settled => Trusts(o) /\ (o.pc \in {"idle", "read", "answer"} => InUse')
    PROVE  LoneInv'
<1>1. CASE InFlight = {}
  <2>1. op'[p] = o /\ \A q \in Procs \ {p} : op'[q] = Idle
    BY <1>1 DEF Start
  <2>2. \A q \in Procs \ {p} : ~Lone(q)' /\ op'[q].pc = "idle"
    BY <2>1 DEF Lone, Idle
  <2>3. Solitary'
    BY <2>1, <2>2 DEF Solitary
  <2>4. \A q \in Procs : Lone(q)' => Fits(q, op[q])'
    <3>1. Fits(p, op[p])'
      <4>1. Fits(p, o)'
        BY <1>1
      <4>2. op'[p] = o
        BY <2>1
      <4> QED BY <4>1, <4>2, FitsNext
    <3> QED BY <2>2, <3>1
  <2>5. settled' => settled /\ o.alone
    BY DEF Start, Ops
  <2>6. Agreed'
    BY <1>1, <2>1, <2>2, <2>5 DEF Agreed, Trusts
  <2> QED BY <2>3, <2>4, <2>6 DEF LoneInv
<1>2. CASE InFlight # {}
  <2>1. \A q \in Procs : ~Lone(q)'
    <3> TAKE q \in Procs
    <3>1. CASE q = p
      BY <1>2, <3>1 DEF Start, Lone, Ops
    <3>2. CASE q # p /\ q \in InFlight
      BY <3>2 DEF Start, Lone, JInv, IInv, Operations, Ops
    <3>3. CASE q # p /\ q \notin InFlight
      BY <3>3 DEF Start, Lone, Idle
    <3> QED BY <3>1, <3>2, <3>3
  <2>2. ~settled'
    BY <1>2 DEF Start
  <2> QED BY <2>1, <2>2 DEF LoneInv, Solitary, Agreed
<1> QED BY <1>1, <1>2

\* The same operation, further on.
Same(o, r) ==
    /\ o.kind = r.kind /\ o.value = r.value /\ o.prev = r.prev
    /\ o.alone = r.alone /\ o.before = r.before

LEMMA EndsAs ==
    ASSUME IInv, NEW p \in Procs, NEW result \in Results, End(p, result)
    PROVE  \E o \in Ops : /\ Turn(p, o) /\ Same(o, op[p]) /\ o.pc = "idle" /\ o.result = result
                          /\ o.key = op[p].key /\ o.whole = op[p].whole
<1> DEFINE o == [op[p] EXCEPT !.pc = "idle", !.result = result]
<1>1. op[p] \in Ops
  BY DEF IInv, Operations
<1>2. Turn(p, o)
  BY <1>1 DEF Turn, End, IInv, Operations
<1>3. /\ o \in Ops /\ Same(o, op[p]) /\ o.pc = "idle" /\ o.result = result
      /\ o.key = op[p].key /\ o.whole = op[p].whole
  BY <1>1 DEF Ops, PCs, Same
<1> QED BY <1>2, <1>3

LEMMA GoesAs ==
    ASSUME IInv, NEW p \in Procs, NEW pc \in PCs, Go(p, pc)
    PROVE  \E o \in Ops : /\ Turn(p, o) /\ Same(o, op[p]) /\ o.pc = pc
                          /\ o.key = op[p].key /\ o.prevAuth = op[p].prevAuth
<1> DEFINE o == [op[p] EXCEPT !.pc = pc]
<1>1. op[p] \in Ops
  BY DEF IInv, Operations
<1>2. Turn(p, o)
  BY <1>1 DEF Turn, Go, IInv, Operations
<1>3. /\ o \in Ops /\ Same(o, op[p]) /\ o.pc = pc /\ o.key = op[p].key
      /\ o.prevAuth = op[p].prevAuth
  BY <1>1 DEF Ops, Same
<1> QED BY <1>2, <1>3

\* What an operation in flight may rely on when nothing overlaps it.
LEMMA AloneFacts ==
    ASSUME JInv, NEW p \in Procs, op[p].pc # "idle", op[p].alone
    PROVE  /\ Lone(p) /\ Fits(p, op[p])
           /\ settled => Trusts(op[p])
           /\ settled /\ op[p].pc \in {"read", "answer"} => InUse
<1>1. Lone(p)
  BY DEF Lone
<1>2. Fits(p, op[p])
  BY <1>1 DEF JInv, LoneInv
<1>3. settled => Trusts(op[p])
  BY DEF JInv, LoneInv, Agreed, Trusts
<1>4. settled /\ op[p].pc \in {"read", "answer"} => InUse
  <2>1. \A q \in Procs \ {p} : op[q].pc = "idle"
    BY <1>1 DEF JInv, LoneInv, Solitary, Idle
  <2> QED BY <2>1 DEF JInv, LoneInv, Agreed
<1> QED BY <1>1, <1>2, <1>3, <1>4

LEMMA ReadAuthStoreLone ==
    ASSUME JInv, NEW p \in Procs, ReadAuthStore(p)
    PROVE  LoneInv'
<1>1. /\ IInv /\ op[p] \in Ops /\ op[p].pc = "read"
      /\ UNCHANGED <<keys, active, auth, loaded, settled>>
  BY DEF JInv, IInv, Operations, ReadAuthStore, At
<1>2. PICK o \in Ops :
        /\ Turn(p, o) /\ Same(o, op[p]) /\ o.key = op[p].key
        /\ \/ o.pc = "answer" /\ o.prevAuth = auth
           \/ o.pc = "idle" /\ o.result = "refused"
  <2>1. CASE op' = [op EXCEPT ![p].pc = "answer", ![p].prevAuth = auth]
    <3> DEFINE o == [op[p] EXCEPT !.pc = "answer", !.prevAuth = auth]
    <3>1. Turn(p, o)
      BY <2>1 DEF Turn, JInv, IInv, Operations
    <3>2. o \in Ops /\ Same(o, op[p]) /\ o.key = op[p].key /\ o.pc = "answer" /\ o.prevAuth = auth
      BY <1>1 DEF Ops, PCs, Same, IInv, Surroundings
    <3> HIDE DEF o
    <3> QED BY <3>1, <3>2
  <2>2. CASE End(p, "refused")
    BY <1>1, <2>2, EndsAs DEF Results
  <2> QED BY <2>1, <2>2 DEF ReadAuthStore
<1>3. CASE ~op[p].alone
  BY <1>1, <1>2, <1>3, Crowded DEF Same
<1>4. CASE op[p].alone
  <2>1. Lone(p) /\ Fits(p, op[p]) /\ (settled => Trusts(op[p]) /\ InUse)
    BY <1>1, <1>4, AloneFacts
  <2>2. Registered' = Registered /\ \A id : ValueOf(id)' = ValueOf(id)
    BY <1>1, SameRegistry
  <2>3. /\ Unmoved(op[p]) /\ auth = op[p].before.auth /\ op[p].kind # "delete"
        /\ Began(op[p]) /\ Looks(op[p])
    BY <1>1, <2>1 DEF Fits, Looks, Unmoved
  <2>4. Began(o)'
    BY <1>1, <1>2, <2>3 DEF Began, Same, Looks, Unmoved
  <2>5. Looks(o)'
    BY <1>1, <1>2, <2>2, <2>3 DEF Looks, Same, Unmoved
  <2>6. Applies(o)' /\ Undoes(p, o)'
    BY <1>2 DEF Applies, Undoes
  <2>7. Ends(o)'
    BY <1>1, <1>2, <2>3 DEF Ends, Same, Unmoved, Looks
  <2>8. Fits(p, o)'
    BY <2>4, <2>5, <2>6, <2>7 DEF Fits
  <2>9. settled' => Trusts(o) /\ InUse'
    <3>1. InUse => InUse'
      BY <1>1, SameRegistry DEF InUse
    <3> QED BY <1>1, <1>2, <2>1, <3>1 DEF Trusts, Same
  <2> QED BY <1>2, <1>4, <2>1, <2>8, <2>9, Proceeds DEF Same
<1> QED BY <1>3, <1>4

\* A value added to an empty registry becomes its only, active key.
LEMMA FirstKey ==
    ASSUME IInv, keys = {}, NEW v \in Values, NEW id \in Readings, Add(v, id), Registry'
    PROVE  /\ \E k \in keys' : keys' = {k} /\ k.id = AddedKey(v, id)
           /\ ActiveValue' = v
<1>1. Known(v) = {} /\ active = None
  BY DEF Known, IInv, Registry, RegistrySound
<1> DEFINE new == [at |-> made + 1, id |-> id, value |-> v]
<1>2. keys' = {new} /\ AddedKey(v, id) = new.id /\ new.value = v
  BY <1>1 DEF Add, AddedKey
<1> HIDE DEF new
<1>3. KeyIn(keys', active') = new /\ ActiveValue' = new.value
  BY <1>2, ActiveKeyNext
<1> QED BY <1>2, <1>3

LEMMA AnswerLone ==
    ASSUME JInv, IInv', NEW p \in Procs, Answer(p)
    PROVE  LoneInv'
<1>1. /\ IInv /\ op[p] \in Ops /\ Remembers(op[p]) /\ op[p].pc = "answer"
      /\ UNCHANGED <<auth, loaded, settled>>
  BY DEF JInv, IInv, Operations, Remembered, Answer, At
<1>2. CASE Refused(p) /\ End(p, "refused") /\ UNCHANGED <<keys, active, made, removed>>
  <2>1. PICK o \in Ops : Turn(p, o) /\ Same(o, op[p]) /\ o.pc = "idle" /\ o.result = "refused"
    BY <1>1, <1>2, EndsAs DEF Results
  <2>2. CASE ~op[p].alone
    BY <1>1, <2>1, <2>2, Crowded DEF Same
  <2>3. CASE op[p].alone
    <3>1. Lone(p) /\ Fits(p, op[p]) /\ (settled => InUse)
      BY <1>1, <2>3, AloneFacts
    <3>2. Unmoved(op[p]) /\ auth = op[p].before.auth /\ op[p].kind # "delete"
      BY <1>1, <3>1 DEF Fits, Looks
    <3>3. Fits(p, o)'
      BY <1>1, <1>2, <2>1, <3>2 DEF Fits, Began, Looks, Applies, Undoes, Ends, Same, Unmoved
    <3>4. settled' => Trusts(o) /\ InUse'
      <4>1. InUse => InUse'
        BY <1>1, <1>2, SameRegistry DEF InUse
      <4> QED BY <1>1, <2>1, <3>1, <4>1 DEF Trusts
    <3> QED BY <2>1, <2>3, <3>1, <3>3, <3>4, Proceeds DEF Same
  <2> QED BY <2>2, <2>3
<1>3. ASSUME NEW now \in Readings,
             /\ op[p].kind = "add" /\ ~Refused(p) /\ Add(op[p].value, now)
             /\ op' = [op EXCEPT ![p].pc = "apply", ![p].key = AddedKey(op[p].value, now)]
      PROVE  LoneInv'
  <2>1. PICK o \in Ops :
          /\ Turn(p, o) /\ Same(o, op[p]) /\ o.pc = "apply" /\ o.key = AddedKey(op[p].value, now)
          /\ o.prevAuth = op[p].prevAuth
    <3> DEFINE o == [op[p] EXCEPT !.pc = "apply", !.key = AddedKey(op[p].value, now)]
    <3>1. Turn(p, o)
      BY <1>3 DEF Turn, IInv, JInv, Operations
    <3>2. /\ Same(o, op[p]) /\ o.pc = "apply" /\ o.key = AddedKey(op[p].value, now)
          /\ o.prevAuth = op[p].prevAuth /\ op'[p] = o
      BY <1>1, <1>3 DEF Ops, Same, JInv, IInv, Operations
    <3>3. o \in Ops
      BY <3>2 DEF IInv, Operations
    <3> QED BY <3>1, <3>2, <3>3
  <2>2. CASE ~op[p].alone
    BY <1>1, <2>1, <2>2, Crowded DEF Same
  <2>3. CASE op[p].alone
    <3>1. Lone(p) /\ Fits(p, op[p]) /\ (settled => Trusts(op[p]))
      BY <1>1, <2>3, AloneFacts
    <3>2. Unmoved(op[p]) /\ Began(op[p])
      BY <1>1, <3>1 DEF Fits, Looks
    <3>3. keys = {} /\ op[p].before.keys = {} /\ op[p].before.active = None
      BY <1>1, <1>3, <3>2 DEF Began, Unmoved
    <3>4. op[p].value \in Values
      BY <1>1, <1>3 DEF Remembers, Ops, Credentials
    <3>5. (\E k \in keys' : keys' = {k} /\ k.id = o.key) /\ ActiveValue' = o.value
      BY <1>1, <1>3, <2>1, <3>3, <3>4, FirstKey DEF IInv, Same
    <3>6. Began(o)'
      BY <1>1, <1>3, <2>1, <3>2, <3>3 DEF Began, Same
    <3>7. Fits(p, o)'
      BY <1>3, <2>1, <3>5, <3>6 DEF Fits, Looks, Applies, Undoes, Ends, Same
    <3>8. settled' => Trusts(o)
      BY <1>1, <2>1, <3>3 DEF Trusts, Same
    <3> QED BY <2>1, <2>3, <3>1, <3>7, <3>8, Proceeds DEF Same
  <2> QED BY <2>2, <2>3
<1>4. ASSUME NEW now \in Readings,
             op[p].kind \in {"import", "list"} /\ ~Refused(p) /\ Add(op[p].prevAuth, now) /\ End(p, "ok")
      PROVE  LoneInv'
  <2>1. PICK o \in Ops : Turn(p, o) /\ Same(o, op[p]) /\ o.pc = "idle" /\ o.result = "ok"
    BY <1>1, <1>4, EndsAs DEF Results
  <2>2. CASE ~op[p].alone
    BY <1>1, <2>1, <2>2, Crowded DEF Same
  <2>3. CASE op[p].alone
    <3>1. Lone(p) /\ Fits(p, op[p]) /\ (settled => InUse)
      BY <1>1, <2>3, AloneFacts
    <3>2. Unmoved(op[p]) /\ auth = op[p].before.auth /\ Began(op[p])
      BY <1>1, <3>1 DEF Fits, Looks
    <3>3. keys = {} /\ op[p].prevAuth = auth
      BY <1>1, <1>4, <3>2 DEF Began, Unmoved
    <3>4. op[p].prevAuth \in Values
      BY <1>1, <1>4 DEF Refused, Ops, Credentials
    <3>5. ActiveValue' = auth'
      BY <1>1, <1>4, <3>3, <3>4, FirstKey DEF IInv
    <3>6. Fits(p, o)'
      BY <1>4, <2>1 DEF Fits, Began, Looks, Applies, Undoes, Ends, Same
    <3>7. settled' => Trusts(o) /\ InUse'
      BY <1>1, <2>1, <3>1, <3>5 DEF Trusts, InUse
    <3> QED BY <2>1, <2>3, <3>1, <3>6, <3>7, Proceeds DEF Same
  <2> QED BY <2>2, <2>3
<1>5. CASE op[p].kind = "activate" /\ Select(op[p].key) /\ Go(p, "apply")
  <2>1. PICK o \in Ops :
          /\ Turn(p, o) /\ Same(o, op[p]) /\ o.pc = "apply" /\ o.key = op[p].key
          /\ o.prevAuth = op[p].prevAuth
    BY <1>1, <1>5, GoesAs DEF PCs
  <2>2. CASE ~op[p].alone
    BY <1>1, <2>1, <2>2, Crowded DEF Same
  <2>3. CASE op[p].alone
    <3>1. Lone(p) /\ Fits(p, op[p]) /\ (settled => Trusts(op[p]))
      BY <1>1, <2>3, AloneFacts
    <3>2. /\ Unmoved(op[p]) /\ Began(op[p]) /\ op[p].prev \in Registered /\ op[p].key \in Registered
          /\ op[p].value = ValueOf(op[p].key)
      BY <1>1, <1>5, <3>1 DEF Fits, Looks
    <3>3. keys' = keys /\ active' = op[p].key
      BY <1>5, <3>2 DEF Select, CanSelect
    <3>4. ActiveValue' = o.value /\ o.prev \in Registered'
      <4>1. op[p].key # None
        BY <1>1, <3>2, RegisteredIds DEF IInv
      <4> QED BY <2>1, <3>2, <3>3, <4>1 DEF ActiveValue, ValueOf, Same, Registered
    <3>5. Began(o)'
      BY <1>1, <1>5, <2>1, <3>2 DEF Began, Same
    <3>6. Fits(p, o)'
      BY <1>5, <2>1, <3>2, <3>3, <3>4, <3>5 DEF Fits, Looks, Applies, Undoes, Ends, Same, Unmoved
    <3>7. settled' => Trusts(o)
      BY <1>1, <2>1, <3>1 DEF Trusts, Same
    <3> QED BY <2>1, <2>3, <3>1, <3>6, <3>7, Proceeds DEF Same
  <2> QED BY <2>2, <2>3
<1> QED BY <1>2, <1>3, <1>4, <1>5 DEF Answer

\* An operation that turns back, whatever its failed step has done to the auth store and to
\* OpenCode.
LEMMA UndoLone ==
    ASSUME JInv, IInv', NEW p \in Procs, op[p].pc \in {"apply", "restart"}, Undo(p)
    PROVE  LoneInv'
<1>1. /\ IInv /\ op[p] \in Ops /\ Remembers(op[p]) /\ op[p].pc # "idle" /\ op[p].pc # "read"
  BY DEF JInv, IInv, Operations, Remembered
<1>2. CASE op[p].kind = "delete" /\ End(p, "failed") /\ settled' = FALSE
  <2>1. PICK o \in Ops : Turn(p, o) /\ Same(o, op[p]) /\ o.pc = "idle" /\ o.result = "failed"
    BY <1>1, <1>2, EndsAs DEF Results
  <2>2. CASE ~op[p].alone
    BY <1>1, <1>2, <2>1, <2>2, Crowded DEF Same
  <2>3. CASE op[p].alone
    <3>1. Lone(p)
      BY <1>1, <2>3, AloneFacts
    <3>2. Fits(p, o)'
      BY <2>1 DEF Fits, Began, Looks, Applies, Undoes, Ends
    <3> QED BY <1>2, <2>1, <2>3, <3>1, <3>2, Proceeds DEF Same
  <2> QED BY <2>2, <2>3
<1>3. ASSUME op[p].kind # "delete", UNCHANGED settled,
             NEW o \in Ops, Turn(p, o), Same(o, op[p]), o.pc = "undo", o.prevAuth = op[p].prevAuth,
             op[p].alone => IF op[p].kind = "activate" /\ p \in Commands
                            THEN keys' = op[p].before.keys /\ op[p].prev \in Registered'
                            ELSE keys' = op[p].before.keys /\ active' = op[p].before.active
      PROVE  LoneInv'
  <2>1. CASE ~op[p].alone
    BY <1>1, <1>3, <2>1, Crowded DEF Same
  <2>2. CASE op[p].alone
    <3>1. Lone(p) /\ Fits(p, op[p]) /\ (settled => Trusts(op[p]))
      BY <1>1, <2>2, AloneFacts
    <3>2. Began(op[p]) /\ op[p].kind \in {"add", "activate"}
      BY <1>3, <3>1 DEF Fits, Applies
    <3>3. Began(o)'
      BY <1>1, <1>3, <3>2 DEF Began, Same
    <3>4. Undoes(p, o)'
      BY <1>3, <2>2, <3>2 DEF Undoes, Same, Unmoved
    <3>5. Fits(p, o)'
      BY <1>3, <3>3, <3>4 DEF Fits, Looks, Applies, Ends
    <3>6. settled' => Trusts(o)
      BY <1>1, <1>3, <3>1 DEF Trusts, Same
    <3> QED BY <1>3, <2>2, <3>1, <3>5, <3>6, Proceeds DEF Same
  <2> QED BY <2>1, <2>2
<1>4. op[p].alone => Fits(p, op[p]) /\ Applies(op[p]) /\ Began(op[p])
  BY <1>1, AloneFacts DEF Fits
<1>5. CASE /\ op[p].kind = "add" /\ Delete(op[p].key) /\ UNCHANGED settled
           /\ op' = [op EXCEPT ![p].pc = "undo", ![p].whole = op[p].key \in Registered]
  <2>1. PICK o \in Ops : Turn(p, o) /\ Same(o, op[p]) /\ o.pc = "undo" /\ o.prevAuth = op[p].prevAuth
    <3> DEFINE w == op[p].key \in Registered
               o == [op[p] EXCEPT !.pc = "undo", !.whole = w]
    <3>1. Turn(p, o)
      BY <1>5 DEF Turn, JInv, IInv, Operations
    <3>2. w \in BOOLEAN
      OBVIOUS
    <3> HIDE DEF w
    <3>3. o \in Ops /\ Same(o, op[p]) /\ o.pc = "undo" /\ o.prevAuth = op[p].prevAuth
      BY <1>1, <3>2 DEF Ops, PCs, Same
    <3> QED BY <3>1, <3>3
  <2>2. op[p].alone => keys' = op[p].before.keys /\ active' = op[p].before.active
    <3> SUFFICES ASSUME op[p].alone PROVE keys' = {} /\ active' = None
      BY <1>1, <1>4, <1>5 DEF Began
    <3>1. PICK k \in keys : keys = {k} /\ k.id = op[p].key
      BY <1>4, <1>5 DEF Applies
    <3>2. KeyIn(keys, k.id) = k
      <4>1. keys \in SUBSET Keys
        BY <1>1 DEF IInv, Registry, RegistryTyped
      <4>2. KeyIn(keys, k.id) \in keys
        BY <4>1, KeyNamed
      <4> QED BY <3>1, <4>2
    <3>3. keys' = {}
      BY <1>5, <3>1, <3>2 DEF Delete, Registered
    <3> QED BY <3>3 DEF IInv, Registry, RegistrySound
  <2> QED BY <1>3, <1>5, <2>1, <2>2
<1>6. CASE /\ op[p].kind = "activate" /\ p \in Routes /\ Select(op[p].prev) /\ UNCHANGED settled
           /\ op' = [op EXCEPT ![p].pc = "undo", ![p].whole = CanSelect(op[p].prev)]
  <2>1. PICK o \in Ops : Turn(p, o) /\ Same(o, op[p]) /\ o.pc = "undo" /\ o.prevAuth = op[p].prevAuth
    <3> DEFINE w == CanSelect(op[p].prev)
               o == [op[p] EXCEPT !.pc = "undo", !.whole = w]
    <3>1. Turn(p, o)
      BY <1>6 DEF Turn, JInv, IInv, Operations
    <3>2. w \in BOOLEAN
      BY DEF CanSelect
    <3> HIDE DEF w
    <3>3. o \in Ops /\ Same(o, op[p]) /\ o.pc = "undo" /\ o.prevAuth = op[p].prevAuth
      BY <1>1, <3>2 DEF Ops, PCs, Same
    <3> QED BY <3>1, <3>3
  <2>2. op[p].alone => keys' = op[p].before.keys /\ active' = op[p].before.active
    BY <1>1, <1>4, <1>6 DEF Applies, Began, Select, CanSelect
  <2>3. p \notin Commands
    BY <1>6, ProviderKeysAssumption DEF ProviderKeysAssumption
  <2> QED BY <1>3, <1>6, <2>1, <2>2, <2>3
<1>7. CASE op[p].kind = "activate" /\ p \in Commands /\ Go(p, "undo") /\ UNCHANGED <<keys, active, settled>>
  <2>1. PICK o \in Ops : Turn(p, o) /\ Same(o, op[p]) /\ o.pc = "undo" /\ o.prevAuth = op[p].prevAuth
    BY <1>1, <1>7, GoesAs DEF PCs
  <2>2. op[p].alone => keys' = op[p].before.keys /\ op[p].prev \in Registered'
    BY <1>4, <1>7, SameRegistry DEF Applies
  <2> QED BY <1>3, <1>7, <2>1, <2>2
<1> QED BY <1>2, <1>5, <1>6, <1>7 DEF Undo

LEMMA ApplyLone ==
    ASSUME JInv, IInv', NEW p \in Procs, Apply(p)
    PROVE  LoneInv'
<1>1. IInv /\ op[p] \in Ops /\ op[p].pc = "apply"
  BY DEF JInv, IInv, Operations, Apply, At
<1>2. CASE Undo(p)
  BY <1>1, <1>2, UndoLone
<1>3. CASE auth' = op[p].value /\ Go(p, "restart") /\ UNCHANGED <<keys, active, made, removed, settled>>
  <2>1. PICK o \in Ops :
          /\ Turn(p, o) /\ Same(o, op[p]) /\ o.pc = "restart" /\ o.key = op[p].key
          /\ o.prevAuth = op[p].prevAuth
    BY <1>1, <1>3, GoesAs DEF PCs
  <2>2. CASE ~op[p].alone
    BY <1>1, <1>3, <2>1, <2>2, Crowded DEF Same
  <2>3. CASE op[p].alone
    <3>1. Lone(p) /\ Fits(p, op[p]) /\ (settled => Trusts(op[p]))
      BY <1>1, <2>3, AloneFacts
    <3>2. Registered' = Registered /\ ActiveValue' = ActiveValue
      BY <1>3, SameRegistry
    <3>3. Began(o)'
      BY <1>1, <1>3, <2>1, <3>1 DEF Fits, Began, Same
    <3>4. Applies(o)'
      BY <1>1, <1>3, <2>1, <3>1, <3>2 DEF Fits, Applies, Same
    <3>5. Fits(p, o)'
      BY <2>1, <3>3, <3>4 DEF Fits, Looks, Undoes, Ends
    <3>6. settled' => Trusts(o)
      BY <1>1, <1>3, <2>1, <3>1 DEF Trusts, Same
    <3> QED BY <2>1, <2>3, <3>1, <3>5, <3>6, Proceeds DEF Same
  <2> QED BY <2>2, <2>3
<1> QED BY <1>2, <1>3 DEF Apply

LEMMA RestartLone ==
    ASSUME JInv, IInv', NEW p \in Procs, Restart(p)
    PROVE  LoneInv'
<1>1. IInv /\ op[p] \in Ops /\ op[p].pc = "restart" /\ UNCHANGED auth
  BY DEF JInv, IInv, Operations, Restart, At
<1>2. CASE Undo(p)
  BY <1>1, <1>2, UndoLone
<1>3. CASE /\ loaded' = auth /\ End(p, "ok") /\ settled' = (settled \/ op[p].alone)
           /\ UNCHANGED <<keys, active, made, removed>>
  <2>1. PICK o \in Ops : Turn(p, o) /\ Same(o, op[p]) /\ o.pc = "idle" /\ o.result = "ok" /\ o.key = op[p].key
    BY <1>1, <1>3, EndsAs DEF Results
  <2>2. CASE ~op[p].alone
    BY <1>1, <1>3, <2>1, <2>2, Crowded DEF Same
  <2>3. CASE op[p].alone
    <3>1. Lone(p) /\ Fits(p, op[p])
      BY <1>1, <2>3, AloneFacts
    <3>2. ActiveValue' = ActiveValue
      BY <1>3, SameRegistry
    <3>3. auth' = op[p].value /\ loaded' = op[p].value /\ (keys' # {} => op[p].value = ActiveValue')
      BY <1>1, <1>3, <3>1, <3>2 DEF Fits, Applies
    <3>4. op[p].kind = "delete" => \A k \in op[p].before.keys \ keys' : k.value # op[p].value
      BY <1>1, <1>3, <3>1 DEF Fits, Began
    <3>5. Ends(o)'
      BY <2>1, <3>3, <3>4 DEF Ends, Same
    <3>6. Fits(p, o)'
      BY <2>1, <3>5 DEF Fits, Began, Looks, Applies, Undoes
    <3>7. Trusts(o) /\ InUse'
      BY <2>1, <3>3 DEF Trusts, InUse
    <3> QED BY <2>1, <2>3, <3>1, <3>6, <3>7, Proceeds DEF Same
  <2> QED BY <2>2, <2>3
<1> QED BY <1>2, <1>3 DEF Restart

LEMMA UndoAuthLone ==
    ASSUME JInv, IInv', NEW p \in Procs, UndoAuth(p)
    PROVE  LoneInv'
<1>1. IInv /\ op[p] \in Ops /\ op[p].pc = "undo" /\ UNCHANGED <<loaded, settled>>
  BY DEF JInv, IInv, Operations, UndoAuth, At
<1>2. PICK done \in BOOLEAN :
        /\ auth' \in (IF done THEN {Previous(p)} ELSE {auth, Previous(p)})
        /\ op' = [op EXCEPT ![p].pc = "undo restart",
                      ![p].whole = @ /\ done /\ (Late(p) => CanSelect(op[p].prev))]
        /\ IF Late(p) THEN Select(op[p].prev) ELSE UNCHANGED <<keys, active>>
  BY DEF UndoAuth
<1>3. PICK o \in Ops :
        /\ Turn(p, o) /\ Same(o, op[p]) /\ o.pc = "undo restart" /\ o.prevAuth = op[p].prevAuth
        /\ o.whole => done
  <2> DEFINE w == op[p].whole /\ done /\ (Late(p) => CanSelect(op[p].prev))
             o == [op[p] EXCEPT !.pc = "undo restart", !.whole = w]
  <2>1. Turn(p, o)
    BY <1>2 DEF Turn, JInv, IInv, Operations
  <2>2. w \in BOOLEAN /\ (w => done)
    OBVIOUS
  <2> HIDE DEF w
  <2>3. o \in Ops /\ Same(o, op[p]) /\ o.pc = "undo restart" /\ o.prevAuth = op[p].prevAuth /\ o.whole = w
    BY <1>1, <2>2 DEF Ops, PCs, Same
  <2> QED BY <2>1, <2>2, <2>3
<1>4. CASE ~op[p].alone
  BY <1>1, <1>3, <1>4, Crowded DEF Same
<1>5. CASE op[p].alone
  <2>1. Lone(p) /\ Fits(p, op[p]) /\ (settled => Trusts(op[p]))
    BY <1>1, <1>5, AloneFacts
  <2>2. Began(op[p]) /\ Undoes(p, op[p]) /\ op[p].kind \in {"add", "activate"}
    BY <1>1, <2>1 DEF Fits, Undoes
  <2>3. op[p].prevAuth = op[p].before.auth
    BY <1>1, <2>2 DEF Began
  <2>4. keys' = o.before.keys /\ active' = o.before.active
    <3>1. CASE Late(p)
      <4>1. keys = op[p].before.keys /\ op[p].prev \in Registered /\ op[p].prev = op[p].before.active
        BY <1>1, <2>2, <3>1 DEF Undoes, Late, Began
      <4>2. Select(op[p].prev)
        BY <1>2, <3>1
      <4> QED BY <1>3, <4>1, <4>2 DEF Select, CanSelect, Same
    <3>2. CASE ~Late(p)
      BY <1>1, <1>2, <1>3, <2>2, <3>2 DEF Undoes, Late, Unmoved, Same
    <3> QED BY <3>1, <3>2
  <2>5. o.whole => auth' = o.before.auth
    BY <1>2, <1>3, <2>3 DEF Previous, Same
  <2>6. Began(o)'
    BY <1>1, <1>3, <2>2 DEF Began, Same
  <2>7. Undoes(p, o)'
    BY <1>3, <2>2, <2>4, <2>5 DEF Undoes, Same, Unmoved
  <2>8. Fits(p, o)'
    BY <1>3, <2>6, <2>7 DEF Fits, Looks, Applies, Ends
  <2>9. settled' => Trusts(o)
    BY <1>1, <1>3, <2>1 DEF Trusts, Same
  <2> QED BY <1>3, <1>5, <2>1, <2>8, <2>9, Proceeds DEF Same
<1> QED BY <1>4, <1>5

LEMMA UndoRestartLone ==
    ASSUME JInv, IInv', NEW p \in Procs, UndoRestart(p)
    PROVE  LoneInv'
<1>1. /\ IInv /\ op[p] \in Ops /\ op[p].pc = "undo restart"
      /\ UNCHANGED <<keys, active, auth>>
  BY DEF JInv, IInv, Operations, UndoRestart, At
<1>2. PICK o \in Ops :
        /\ Turn(p, o) /\ Same(o, op[p]) /\ o.pc = "idle" /\ o.key = op[p].key
        /\ \/ o.result = "undone" /\ op[p].whole /\ loaded' = auth /\ settled' = settled
           \/ o.result = "partial" /\ settled' = FALSE
  <2>1. CASE op[p].whole /\ loaded' = auth /\ End(p, "undone") /\ settled' = (settled /\ op[p].whole)
    BY ZenonT(30), <1>1, <2>1, EndsAs DEF Results, IInv, Surroundings
  <2>2. CASE End(p, "partial") /\ settled' = FALSE
    BY <1>1, <2>2, EndsAs DEF Results
  <2>3. op[p].whole \in BOOLEAN
    BY <1>1 DEF Ops
  <2> QED BY <2>1, <2>2, <2>3 DEF UndoRestart
<1>3. CASE ~op[p].alone
  <2>1. settled' => settled
    BY <1>2, Zenon
  <2>2. ~o.alone /\ Turn(p, o)
    BY <1>2, <1>3 DEF Same
  <2>3. op[p].pc # "idle"
    BY <1>1
  <2> QED BY <1>3, <2>1, <2>2, <2>3, Crowded, <1>1
<1>4. CASE op[p].alone
  <2>1. Lone(p) /\ Fits(p, op[p]) /\ (settled => Trusts(op[p]))
    BY <1>1, <1>4, AloneFacts
  <2>2. /\ Unmoved(op[p]) /\ (op[p].whole => auth = op[p].before.auth)
        /\ op[p].kind # "delete"
    BY <1>1, <2>1 DEF Fits, Undoes
  <2>3. Ends(o)'
    BY <1>1, <1>2, <2>2 DEF Ends, Same, Unmoved
  <2>4. Fits(p, o)'
    BY <1>2, <2>3 DEF Fits, Began, Looks, Applies, Undoes
  <2>5. settled' => Trusts(o) /\ InUse'
    <3> SUFFICES ASSUME settled' PROVE Trusts(o) /\ InUse'
      OBVIOUS
    <3>1. settled /\ loaded' = auth /\ auth = op[p].before.auth
      BY <1>2, <2>2
    <3>2. keys # {} => auth = ValueIn(keys, active)
      BY <1>1, <2>1, <2>2, <3>1 DEF Trusts, Unmoved
    <3>3. keys # {} => active # None /\ ActiveValue = ValueIn(keys, active)
      BY <1>1, ActiveKey DEF IInv
    <3>4. ActiveValue' = ActiveValue
      BY <1>1, SameRegistry
    <3> QED BY <1>1, <1>2, <3>1, <3>2, <3>3, <3>4 DEF Trusts, InUse
  <2> QED BY <1>2, <1>4, <2>1, <2>4, <2>5, Proceeds DEF Same
<1> QED BY <1>3, <1>4

LEMMA CrashLone ==
    ASSUME JInv, Crash
    PROVE  LoneInv'
<1>1. \A p \in Procs : op'[p] = Idle
  BY DEF Crash
<1>2. Solitary' /\ \A p \in Procs : ~Lone(p)'
  BY <1>1 DEF Solitary, Lone, Idle
<1>3. Agreed'
  <2>1. settled' => InUse
    BY DEF Crash, InFlight, JInv, LoneInv, Agreed
  <2>2. InUse => InUse'
    BY SameRegistry DEF Crash, InUse
  <2> QED BY <1>1, <2>1, <2>2 DEF Agreed, Idle
<1> QED BY <1>2, <1>3 DEF LoneInv

-----------------------------------------------------------------------------
(* The starts. *)

\* Between operations everything agrees, as far as it is settled.
LEMMA AtRest ==
    ASSUME JInv, InFlight = {}, settled
    PROVE  InUse
BY DEF JInv, LoneInv, Agreed, InFlight

\* What an operation that starts may trust.
LEMMA StartTrusted ==
    ASSUME IInv, InUse, keys # {}
    PROVE  auth = ValueIn(keys, active)
BY ActiveKey DEF IInv, InUse

Noted(new) == [new EXCEPT !.alone = TRUE,
                          !.before = [keys |-> keys, active |-> active, auth |-> auth]]

LEMMA NotedTyped ==
    ASSUME IInv, NEW new \in Ops
    PROVE  \E o \in Ops : /\ o = Noted(new)
                          /\ o.pc = new.pc /\ o.kind = new.kind /\ o.key = new.key /\ o.value = new.value
                          /\ o.prev = new.prev /\ o.result = new.result
                          /\ o.before.keys = keys /\ o.before.active = active /\ o.before.auth = auth
<1>1. [keys |-> keys, active |-> active, auth |-> auth]
        \in [keys : SUBSET Keys, active : Ids \cup {None}, auth : Credentials]
  BY DEF IInv, Registry, RegistryTyped, Surroundings
<1>2. Noted(new) \in Ops
  BY <1>1 DEF Ops, Noted
<1> DEFINE o == Noted(new)
<1>3. /\ o.pc = new.pc /\ o.kind = new.kind /\ o.key = new.key /\ o.value = new.value
      /\ o.prev = new.prev /\ o.result = new.result
      /\ o.before.keys = keys /\ o.before.active = active /\ o.before.auth = auth
  BY DEF Noted, Ops
<1> QED BY <1>2, <1>3

\* An operation that only waits for the auth store, or is over at once without a deletion.
LEMMA BeginsQuietly ==
    ASSUME JInv, NEW p \in Procs, NEW new \in Ops, Start(p, new),
           \/ /\ UNCHANGED <<keys, active>> /\ new.pc = "read"
              /\ new.kind \in {"add", "activate", "import", "list"}
              /\ new.kind # "activate" => keys = {}
              /\ new.kind = "activate" => /\ new.prev = active /\ new.prev \in Registered
                                          /\ new.key \in Registered /\ new.value = ValueOf(new.key)
           \/ /\ new.pc = "idle" /\ new.result = "ok" /\ new.kind # "delete"
              /\ keys' # {} => keys # {} /\ ActiveValue' = ActiveValue
    PROVE  LoneInv'
<1>1. IInv /\ UNCHANGED <<auth, loaded>>
  BY DEF JInv, Start
<1>2. PICK o \in Ops :
        /\ o = Noted(new)
        /\ o.pc = new.pc /\ o.kind = new.kind /\ o.key = new.key /\ o.value = new.value
        /\ o.prev = new.prev /\ o.result = new.result
        /\ o.before.keys = keys /\ o.before.active = active /\ o.before.auth = auth
  BY <1>1, NotedTyped
<1>3. o = [new EXCEPT !.alone = TRUE,
                      !.before = [keys |-> keys, active |-> active, auth |-> auth]]
  BY <1>2 DEF Noted
<1>4. CASE /\ UNCHANGED <<keys, active>> /\ new.pc = "read"
           /\ new.kind \in {"add", "activate", "import", "list"}
           /\ new.kind # "activate" => keys = {}
           /\ new.kind = "activate" => /\ new.prev = active /\ new.prev \in Registered
                                       /\ new.key \in Registered /\ new.value = ValueOf(new.key)
  <2>1. /\ Registered' = Registered /\ ActiveValue' = ActiveValue
        /\ \A id : ValueOf(id)' = ValueOf(id)
    BY <1>4, SameRegistry
  <2>2. keys = {} => active = None
    BY <1>1 DEF IInv, Registry, RegistrySound
  <2>3. Began(o)'
    BY <1>2, <1>4, <2>2 DEF Began
  <2>4. Looks(o)'
    BY <1>1, <1>2, <1>4, <2>1 DEF Looks, Unmoved
  <2>5. Fits(p, o)'
    BY <1>2, <1>4, <2>3, <2>4 DEF Fits, Applies, Undoes, Ends
  <2>6. InFlight = {} /\ settled => Trusts(o) /\ InUse'
    <3> SUFFICES ASSUME InUse PROVE Trusts(o) /\ InUse'
      BY AtRest
    <3>1. InUse'
      BY <1>1, <1>4, <2>1 DEF InUse
    <3>2. Trusts(o)
      BY <1>1, <1>2, StartTrusted DEF Trusts
    <3> QED BY <3>1, <3>2
  <2> QED BY <1>3, <2>5, <2>6, OperationBegins
<1>5. CASE /\ new.pc = "idle" /\ new.result = "ok" /\ new.kind # "delete"
           /\ keys' # {} => keys # {} /\ ActiveValue' = ActiveValue
  <2>1. Fits(p, o)'
    BY <1>2, <1>5 DEF Fits, Began, Looks, Applies, Undoes, Ends
  <2>2. InFlight = {} /\ settled => Trusts(o) /\ InUse'
    <3> SUFFICES ASSUME InUse PROVE Trusts(o) /\ InUse'
      BY AtRest
    <3> QED BY <1>1, <1>2, <1>5 DEF Trusts, InUse
  <2> QED BY <1>3, <2>1, <2>2, OperationBegins
<1> QED BY <1>4, <1>5

\* The active key stays in use as long as it stays active and every new key comes after it.
LEMMA StaysActive ==
    ASSUME IInv, IInv', keys # {}, active' = active,
           \A k \in keys : k.id = active => k \in keys',
           \A l \in keys' \ keys : \A k \in keys : k.at <= l.at
    PROVE  ActiveValue' = ActiveValue
<1> DEFINE k == KeyIn(keys, active)
<1>1. k \in keys /\ k.id = active /\ ActiveValue = k.value
  BY ActiveKey DEF IInv
<1>2. \A l \in keys : l.id = active => k.at <= l.at
  BY <1>1, KeyNamed DEF IInv, Registry, RegistryTyped
<1> HIDE DEF k
<1>3. k \in keys' /\ \A l \in keys' : l.id = k.id => k.at <= l.at
  BY <1>1, <1>2
<1>4. keys' \in SUBSET Keys /\ Apart(keys')
  BY DEF IInv, Registry, RegistryTyped, Placed
<1>5. ValueIn(keys', k.id) = k.value
  BY <1>3, <1>4, OnlyFirst
<1>6. ActiveValue' = ValueIn(keys', active')
  BY <1>3, ActiveKeyNext DEF IInv
<1> QED BY <1>1, <1>5, <1>6

LEMMA StartAddLone ==
    ASSUME JInv, IInv', NEW p \in Operators, NEW v \in Values, StartAdd(p, v)
    PROVE  LoneInv'
<1>1. p \in Procs /\ IInv
  BY DEF Procs, JInv
<1>2. CASE keys = {} /\ UNCHANGED <<keys, active, made, removed>>
           /\ Start(p, [Idle EXCEPT !.pc = "read", !.kind = "add", !.value = v])
  <2>1. PICK new \in Ops : Start(p, new) /\ new.pc = "read" /\ new.kind = "add"
    <3> DEFINE new == [Idle EXCEPT !.pc = "read", !.kind = "add", !.value = v]
    <3>1. new \in Ops /\ new.pc = "read" /\ new.kind = "add"
      BY IdleTyped, NoneIsNoId DEF Idle, Ops, PCs, Kinds, Credentials
    <3> QED BY <1>2, <3>1
  <2> QED BY <1>1, <1>2, <2>1, BeginsQuietly
<1>3. ASSUME NEW now \in Readings,
             keys # {} /\ Add(v, now) /\ Start(p, [Idle EXCEPT !.kind = "add", !.result = "ok"])
      PROVE  LoneInv'
  <2>1. PICK new \in Ops : Start(p, new) /\ new.pc = "idle" /\ new.kind = "add" /\ new.result = "ok"
    <3> DEFINE new == [Idle EXCEPT !.kind = "add", !.result = "ok"]
    <3>1. new \in Ops /\ new.pc = "idle" /\ new.kind = "add" /\ new.result = "ok"
      BY IdleTyped, NoneIsNoId DEF Idle, Ops, PCs, Kinds, Results
    <3> QED BY <1>3, <3>1
  <2>2. /\ active' = active /\ \A k \in keys : k \in keys'
        /\ \A l \in keys' \ keys : \A k \in keys : k.at <= l.at
    <3>1. active # None
      BY <1>1, <1>3, ActiveKey DEF IInv
    <3>2. \A k \in keys : k.at <= made + 1
      BY <1>1 DEF IInv, Registry, RegistryTyped, Placed, Keys
    <3> QED BY <1>3, <3>1, <3>2 DEF Add
  <2>3. ActiveValue' = ActiveValue
    BY <1>1, <1>3, <2>2, StaysActive
  <2> QED BY <1>1, <1>3, <2>1, <2>3, BeginsQuietly
<1> QED BY <1>2, <1>3 DEF StartAdd

LEMMA StartActivateLone ==
    ASSUME JInv, IInv', NEW p \in Operators, NEW id \in Ids, StartActivate(p, id)
    PROVE  LoneInv'
<1>1. p \in Procs /\ IInv /\ id \in Registered /\ UNCHANGED <<keys, active>> /\ keys # {}
  BY DEF Procs, JInv, StartActivate, Registered
<1>2. active \in Registered /\ active \in Ids
  BY <1>1, ActiveKey, RegisteredIds DEF IInv
<1>3. PICK new \in Ops :
        /\ Start(p, new) /\ new.pc = "read" /\ new.kind = "activate" /\ new.key = id
        /\ new.value = ValueOf(id) /\ new.prev = active
  <2> DEFINE new == [Idle EXCEPT !.pc = "read", !.kind = "activate", !.key = id,
                                 !.value = ValueOf(id), !.prev = active]
  <2>1. ValueOf(id) \in Credentials
    BY <1>1, ValueTyped DEF IInv, Credentials
  <2>2. /\ new \in Ops /\ new.pc = "read" /\ new.kind = "activate" /\ new.key = id
        /\ new.value = ValueOf(id) /\ new.prev = active
    BY <1>2, <2>1, IdleTyped DEF Idle, Ops, PCs, Kinds
  <2> QED BY <2>2 DEF StartActivate
<1> QED BY <1>1, <1>2, <1>3, BeginsQuietly

LEMMA StartDeleteLone ==
    ASSUME JInv, IInv', NEW p \in Operators, NEW id \in Ids, StartDelete(p, id)
    PROVE  LoneInv'
<1> DEFINE gone == KeyIn(keys, id)
<1>1. /\ p \in Procs /\ IInv /\ id \in Registered /\ Delete(id) /\ keys # {}
      /\ keys' = keys \ {gone} /\ gone \in keys /\ gone.id = id
  <2>1. p \in Procs /\ IInv /\ id \in Registered /\ Delete(id) /\ keys # {}
    BY DEF Procs, JInv, StartDelete, Registered
  <2> QED BY <2>1, ValueTyped DEF Delete, IInv
<1> HIDE DEF gone
<1>2. CASE active # id
  <2>1. PICK new \in Ops : Start(p, new) /\ new.pc = "idle" /\ new.kind = "none" /\ new.result = "ok"
    <3> DEFINE new == [Idle EXCEPT !.result = "ok"]
    <3>1. new \in Ops /\ new.pc = "idle" /\ new.kind = "none" /\ new.result = "ok"
      BY IdleTyped DEF Idle, Ops, Results
    <3>2. Start(p, new)
      BY <1>2 DEF StartDelete
    <3> QED BY <3>1, <3>2
  <2>2. /\ active' = active /\ \A k \in keys : k.id = active => k \in keys'
        /\ keys' \ keys = {}
    BY <1>1, <1>2 DEF Delete
  <2>3. ActiveValue' = ActiveValue
    BY <1>1, <2>2, StaysActive
  <2> QED BY <1>1, <2>1, <2>3, BeginsQuietly
<1>3. CASE active = id
  <2>1. keys' = {} => active' = None
    BY DEF IInv, Registry, RegistrySound
  <2>2. Replacement(keys', active') = IF keys' = {} THEN None ELSE ActiveValue'
    BY <2>1, ActiveKeyNext DEF Replacement, IInv
  <2>3. Replacement(keys', active') \in Credentials
    BY <2>2, ActiveKeyNext DEF Credentials, IInv
  <2>4. \A k \in keys \ keys' : k.value # Replacement(keys', active')
    <3>1. gone.value # None
      BY <1>1, NoneIsNoId DEF IInv, Registry, RegistryTyped, Keys
    <3>2. ASSUME keys' # {} PROVE gone.value # ActiveValue'
      <4>1. PICK k \in keys' : ActiveValue' = k.value
        BY <3>2, ActiveKeyNext DEF IInv
      <4> QED BY <1>1, <4>1 DEF IInv, Registry, RegistrySound
    <3>3. keys \ keys' = {gone}
      BY <1>1
    <3> QED BY <2>2, <3>1, <3>2, <3>3
  <2>5. PICK new \in Ops :
          /\ Start(p, new) /\ new.pc = "apply" /\ new.kind = "delete" /\ new.key = id
          /\ new.value = Replacement(keys', active')
    <3> DEFINE new == [Idle EXCEPT !.pc = "apply", !.kind = "delete", !.key = id,
                                   !.value = Replacement(keys', active')]
    <3>1. /\ new \in Ops /\ new.pc = "apply" /\ new.kind = "delete" /\ new.key = id
          /\ new.value = Replacement(keys', active')
      BY <2>3, IdleTyped DEF Idle, Ops, PCs, Kinds
    <3>2. Start(p, new)
      BY <1>3 DEF StartDelete
    <3> QED BY <3>1, <3>2
  <2>6. PICK o \in Ops :
          /\ o = Noted(new)
          /\ o.pc = new.pc /\ o.kind = new.kind /\ o.key = new.key /\ o.value = new.value
          /\ o.before.keys = keys
    BY <1>1, NotedTyped
  <2>7. Began(o)'
    BY <1>1, <2>4, <2>5, <2>6 DEF Began
  <2>8. Applies(o)'
    BY <2>2, <2>5, <2>6 DEF Applies
  <2>9. Fits(p, o)'
    BY <2>5, <2>6, <2>7, <2>8 DEF Fits, Looks, Undoes, Ends
  <2>10. Trusts(o) /\ o.pc \notin {"idle", "read", "answer"}
    BY <2>5, <2>6 DEF Trusts
  <2> QED BY <1>1, <2>5, <2>6, <2>9, <2>10, OperationBegins DEF Noted
<1> QED BY <1>2, <1>3

LEMMA DropProviderLone ==
    ASSUME JInv, IInv', NEW p \in Routes, DropProvider(p)
    PROVE  LoneInv'
<1> DEFINE new == [Idle EXCEPT !.result = "ok"]
<1>1. new \in Ops /\ new.pc = "idle" /\ new.kind = "none" /\ new.result = "ok"
  BY IdleTyped DEF Idle, Ops, Results
<1>2. p \in Procs /\ Start(p, new) /\ keys' = {}
  BY DEF Procs, Operators, DropProvider
<1> QED BY <1>1, <1>2, BeginsQuietly

LEMMA StartImportLone ==
    ASSUME JInv, IInv', NEW p \in Routes \cup Listings, StartImport(p)
    PROVE  LoneInv'
<1> DEFINE new == [Idle EXCEPT !.pc = "read",
                               !.kind = IF p \in Listings THEN "list" ELSE "import"]
<1>1. new \in Ops /\ new.pc = "read" /\ new.kind \in {"list", "import"}
  BY IdleTyped DEF Idle, Ops, PCs, Kinds
<1>2. p \in Procs /\ Start(p, new) /\ keys = {} /\ UNCHANGED <<keys, active>>
  BY DEF Procs, Operators, StartImport
<1> QED BY <1>1, <1>2, BeginsQuietly

-----------------------------------------------------------------------------
LEMMA InitJInv == Init => JInv
<1> SUFFICES ASSUME Init PROVE JInv
  OBVIOUS
<1>1. \A p \in Procs : op[p] = Idle
  BY DEF Init
<1>2. Solitary /\ \A p \in Procs : ~Lone(p)
  BY <1>1 DEF Solitary, Lone, Idle
<1>3. Agreed
  BY <1>1 DEF Init, Agreed, InUse, Idle
<1> QED BY <1>2, <1>3, InitInvariant DEF JInv, LoneInv

LEMMA NextJInv == JInv /\ [Next]_vars => JInv'
<1> SUFFICES ASSUME JInv, [Next]_vars PROVE LoneInv'
  BY NextInvariant DEF JInv
<1>1. IInv'
  BY NextInvariant DEF JInv
<1>2. ASSUME NEW p \in Operators, NEW v \in Values, StartAdd(p, v) PROVE LoneInv'
  BY <1>1, <1>2, StartAddLone
<1>3. ASSUME NEW p \in Operators, NEW id \in Ids, StartActivate(p, id) PROVE LoneInv'
  BY <1>1, <1>3, StartActivateLone
<1>4. ASSUME NEW p \in Operators, NEW id \in Ids, StartDelete(p, id) PROVE LoneInv'
  BY <1>1, <1>4, StartDeleteLone
<1>5. ASSUME NEW p \in Routes, DropProvider(p) PROVE LoneInv'
  BY <1>1, <1>5, DropProviderLone
<1>6. ASSUME NEW p \in Routes \cup Listings, StartImport(p) PROVE LoneInv'
  BY <1>1, <1>6, StartImportLone
<1>7. ASSUME NEW p \in Procs, Step(p) PROVE LoneInv'
  BY <1>1, <1>7, ReadAuthStoreLone, AnswerLone, ApplyLone, RestartLone, UndoAuthLone,
     UndoRestartLone DEF Step
<1>8. CASE Crash
  BY <1>8, CrashLone
<1>9. CASE UNCHANGED vars
  <2>1. /\ Registered' = Registered /\ ActiveValue' = ActiveValue
        /\ \A id : ValueOf(id)' = ValueOf(id)
    BY <1>9, SameRegistry DEF vars
  <2>2. Solitary' /\ Agreed'
    BY <1>9, <2>1 DEF vars, JInv, LoneInv, Solitary, Lone, Agreed, InUse
  <2>3. \A p \in Procs : Lone(p)' => Fits(p, op[p])'
    <3> SUFFICES ASSUME NEW p \in Procs, Lone(p)' PROVE Fits(p, op[p])'
      OBVIOUS
    <3>1. op'[p] = op[p] /\ Lone(p)
      BY <1>9 DEF vars, Lone
    <3>2. Fits(p, op[p])
      BY <3>1 DEF JInv, LoneInv
    <3>3. PICK o : o = op[p] /\ Fits(p, o)
      BY <3>2
    <3>4. Fits(p, o)'
      BY <1>9, <2>1, <3>3, FitsStays DEF vars
    <3> QED BY <3>1, <3>3, <3>4, FitsNext
  <2> QED BY <2>2, <2>3 DEF LoneInv
<1> QED BY <1>2, <1>3, <1>4, <1>5, <1>6, <1>7, <1>8, <1>9 DEF Next

LEMMA LoneInvariance == Spec => []JInv
BY InitJInv, NextJInv, PTL DEF Spec

\* As long as no two operations overlapped and none failed and said so, the auth store and
\* the running OpenCode hold the active key between operations.
THEOREM ActiveKeyInUse == Spec => []ActiveKeyApplied
<1>1. JInv => ActiveKeyApplied
  BY DEF JInv, LoneInv, Agreed, InUse, ActiveKeyApplied, Quiet, InFlight
<1> QED BY <1>1, LoneInvariance, PTL

\* An operation that nothing overlapped, and that was refused or says it was undone, has left
\* the registry, the auth store and what OpenCode runs with as it found them.
THEOREM FailuresUndone == Spec => []FailureUndone
<1>1. JInv => FailureUndone
  BY DEF JInv, LoneInv, Lone, Fits, Ends, Unmoved, FailureUndone, Quiet, InFlight
<1> QED BY <1>1, LoneInvariance, PTL

\* A deletion of the active key that nothing overlapped and that succeeded leaves its value
\* neither in the auth store nor in OpenCode.
THEOREM DeletedKeysUnused == Spec => []DeletedKeyUnused
<1>1. JInv => DeletedKeyUnused
  BY DEF JInv, LoneInv, Lone, Fits, Ends, DeletedKeyUnused, Quiet, InFlight
<1> QED BY <1>1, LoneInvariance, PTL

-----------------------------------------------------------------------------
(***************************************************************************)
(* The ChatGPT login.                                                       *)
(***************************************************************************)
\* An empty cache, and jobs and probes that are not under way, are well typed.
LEMMA EmptyCacheTyped == EmptyCache \in Caches
BY DEF EmptyCache, Caches

LEMMA NoJobTyped == NoJob \in JobStates
<1>1. (CHOOSE f \in Flows : TRUE) \in Flows
  BY LoginsAssumption
<1> QED BY <1>1, EmptyCacheTyped DEF NoJob, JobStates, Creds

LEMMA NoProbeTyped == NoProbe \in ProbeStates
<1>1. (CHOOSE m \in Models : TRUE) \in Models
  BY LoginsAssumption
<1> QED BY <1>1, EmptyCacheTyped DEF NoProbe, ProbeStates, Creds

LEMMA InitTyped == LoginInit => LoginTypeOK
<1> SUFFICES ASSUME LoginInit PROVE LoginTypeOK
  OBVIOUS
<1>1. authJson \in Entries /\ tmp \in Entries \cup {Unset} /\ inUse \in Creds
  BY DEF LoginInit, Entries, Creds
<1>2. flow \in [Flows -> Flowing]
  BY DEF LoginInit, Flowing
<1>3. cache \in Caches /\ job \in [Jobs -> JobStates] /\ probe \in [Probes -> ProbeStates]
  BY EmptyCacheTyped, NoJobTyped, NoProbeTyped DEF LoginInit
<1>4. requests \in 0..MaxRequests /\ faults \in 0..MaxFaults
  BY LoginBoundsAssumption DEF LoginInit
<1> QED BY <1>1, <1>2, <1>3, <1>4 DEF LoginTypeOK

LEMMA Counted ==
    ASSUME LoginTypeOK
    PROVE  /\ Request => requests' \in 0..MaxRequests
           /\ Fault => faults' \in 0..MaxFaults
BY LoginBoundsAssumption DEF LoginTypeOK, Request, Fault

LEMMA CrowdTyped ==
    ASSUME LoginTypeOK, NEW r
    PROVE  Crowd(r) \in [Jobs -> JobStates]
<1>1. ASSUME NEW k \in Jobs PROVE (job[k].solo /\ Twin(r, job[k])) \in BOOLEAN
  BY DEF LoginTypeOK, JobStates, Twin
<1>2. ASSUME NEW k \in Jobs
      PROVE [job[k] EXCEPT !.solo = @ /\ Twin(r, job[k])] \in JobStates
  BY ZenonT(30), <1>1 DEF LoginTypeOK, JobStates
<1> QED BY <1>2, NoJobTyped DEF Crowd

\* A job that begins, and those that are under way.
LEMMA BeginsTyped ==
    ASSUME LoginTypeOK, NEW o \in Jobs, NEW r \in JobStates, Begins(o, r)
    PROVE  job' \in [Jobs -> JobStates]
<1>1. Crowd(r) \in [Jobs -> JobStates]
  BY CrowdTyped
<1>2. \A s \in BOOLEAN : [r EXCEPT !.solo = s, !.before = authJson] \in JobStates
  BY DEF LoginTypeOK, JobStates
<1>3. PICK s \in BOOLEAN : job' = [Crowd(r) EXCEPT ![o] = [r EXCEPT !.solo = s, !.before = authJson]]
  BY DEF Begins
<1> QED BY <1>1, <1>2, <1>3

-----------------------------------------------------------------------------
\* What the steps of one job leave alone: the other jobs, the probes, what the
\* job is, and what has been used or dropped of a flow.
JobStep(o) ==
    /\ job' \in [Jobs -> JobStates] /\ \A k \in Jobs \ {o} : job'[k] = job[k]
    /\ job'[o].kind = job[o].kind /\ job'[o].flow = job[o].flow
    /\ job'[o].solo = job[o].solo /\ job'[o].before = job[o].before
    /\ job[o].pc # "idle" /\ job'[o].pc # "idle"
    /\ probe' = probe
FlowsKept ==
    /\ flow' \in [Flows -> Flowing]
    /\ \A f \in Flows :
         /\ flow[f].device = "used" => flow'[f].device = "used"
         /\ flow[f].pc = "gone" => flow'[f].pc = "gone"

LEMMA FlowGone ==
    ASSUME LoginTypeOK, NEW o \in Jobs,
           flow' = flow \/ flow' = [flow EXCEPT ![job[o].flow].pc = "gone"]
    PROVE  FlowsKept
<1>1. CASE flow' = flow
  BY <1>1 DEF FlowsKept, LoginTypeOK
<1>2. CASE flow' = [flow EXCEPT ![job[o].flow].pc = "gone"]
  BY <1>2 DEF LoginTypeOK, FlowsKept, JobStates, Flowing
<1> QED BY <1>1, <1>2

LEMMA EndJobStep ==
    ASSUME LoginTypeOK, NEW o \in Jobs, job[o].pc # "idle", probe' = probe,
           NEW pc \in {"ok", "failed", "reverted"}, EndJob(o, pc)
    PROVE  JobStep(o) /\ FlowsKept
<1>1. JobStep(o)
  BY ZenonT(30) DEF EndJob, LoginTypeOK, JobStep, JobStates
<1>2. FlowsKept
  BY FlowGone DEF EndJob
<1> QED BY <1>1, <1>2

LEMMA FailsStep ==
    ASSUME LoginTypeOK, NEW o \in Jobs, probe' = probe, Fails(o),
           job[o].pc \in {"edit", "move", "clear", "restart"}
    PROVE  JobStep(o) /\ FlowsKept
<1>1. CASE job[o].kind # "connect"
  BY <1>1, EndJobStep DEF Fails
<1>2. CASE job[o].kind = "connect"
  <2>1. FlowsKept
    BY <1>2, FlowGone DEF Fails
  <2>2. CASE ~job[o].undo
    <3>1. job' = [job EXCEPT ![o].pc = "edit", ![o].undo = TRUE]
      BY <1>2, <2>2 DEF Fails
    <3>2. job' = [job EXCEPT ![o] = [job[o] EXCEPT !.pc = "edit", !.undo = TRUE]]
      BY <3>1 DEF LoginTypeOK
    <3>3. JobStep(o)
      BY ZenonT(30), <3>2 DEF LoginTypeOK, JobStep, JobStates
    <3> QED BY <2>1, <3>3
  <2>3. CASE job[o].undo
    <3>1. PICK pc \in {"reverted", "clear", "restart"} :
            job' = [job EXCEPT ![o].pc = pc, ![o].failed = TRUE]
      BY <1>2, <2>3 DEF Fails, JobAt, LoginTypeOK
    <3>2. job' = [job EXCEPT ![o] = [job[o] EXCEPT !.pc = pc, !.failed = TRUE]]
      BY <3>1 DEF LoginTypeOK
    <3>3. JobStep(o)
      BY ZenonT(30), <3>2 DEF LoginTypeOK, JobStep, JobStates
    <3> QED BY <2>1, <3>3
  <2> QED BY <2>2, <2>3 DEF LoginTypeOK, JobStates
<1> QED BY <1>1, <1>2

Works(o) ==
    \/ Snapshot(o) \/ Exchange(o) \/ Edit(o) \/ Move(o) \/ Clear(o) \/ RestartAiDev(o)
    \/ Look(o) \/ Drop(o)

\* Every step of a job is one.
LEMMA WorksStep ==
    ASSUME LoginTypeOK, NEW o \in Jobs, Works(o)
    PROVE  JobStep(o) /\ FlowsKept
<1> USE DEF JobAt, To
<1>0. flow' = flow => FlowsKept
  BY DEF FlowsKept, LoginTypeOK
<1>1. CASE Snapshot(o)
  BY <1>0, <1>1 DEF Snapshot, LoginTypeOK, JobStep, JobStates, Entries, Creds
<1>2. CASE Exchange(o)
  <2>1. CASE ExchangeFails(o)
    BY <1>2, <2>1, EndJobStep DEF Exchange, ExchangeFails
  <2>2. CASE /\ flow' = [flow EXCEPT ![job[o].flow].device = "used"]
             /\ job' = [job EXCEPT ![o].pc = "edit"]
    <3>1. JobStep(o)
      BY <1>2, <2>2 DEF Exchange, LoginTypeOK, JobStep, JobStates
    <3>2. FlowsKept
      BY <2>2 DEF LoginTypeOK, FlowsKept, JobStates, Flowing
    <3> QED BY <3>1, <3>2
  <2> QED BY <1>2, <2>1, <2>2 DEF Exchange
<1>3. CASE Edit(o)
  <2>1. CASE Fails(o)
    BY <1>3, <2>1, FailsStep DEF Edit
  <2>2. CASE job' = [job EXCEPT ![o].pc = "move"] /\ flow' = flow
    BY <1>0, <1>3, <2>2 DEF Edit, LoginTypeOK, JobStep, JobStates
  <2> QED BY <1>3, <2>1, <2>2 DEF Edit
<1>4. CASE Move(o)
  <2>1. CASE Fails(o)
    BY <1>4, <2>1, FailsStep DEF Move
  <2>2. CASE job' = [job EXCEPT ![o].pc = "clear"] /\ flow' = flow
    BY <1>0, <1>4, <2>2 DEF Move, LoginTypeOK, JobStep, JobStates
  <2> QED BY <1>4, <2>1, <2>2 DEF Move
<1>5. CASE Clear(o)
  <2>1. CASE Fails(o)
    BY <1>5, <2>1, FailsStep DEF Clear
  <2>2. CASE job' = [job EXCEPT ![o].pc = "restart"] /\ flow' = flow
    BY <1>0, <1>5, <2>2 DEF Clear, LoginTypeOK, JobStep, JobStates
  <2> QED BY <1>5, <2>1, <2>2 DEF Clear
<1>6. CASE RestartAiDev(o)
  <2>1. CASE Fails(o)
    BY <1>6, <2>1, FailsStep DEF RestartAiDev
  <2>2. CASE EndJob(o, "reverted")
    BY <1>6, <2>2, EndJobStep DEF RestartAiDev
  <2>3. CASE job' = [job EXCEPT ![o].pc = "look"] /\ flow' = flow
    BY <1>0, <1>6, <2>3 DEF RestartAiDev, LoginTypeOK, JobStep, JobStates
  <2> QED BY <1>6, <2>1, <2>2, <2>3 DEF RestartAiDev
<1>7. CASE Look(o)
  <2>1. CASE EndJob(o, "ok")
    BY <1>7, <2>1, EndJobStep DEF Look
  <2>2. CASE job' = [job EXCEPT ![o].pc = "drop", ![o].seen = cache] /\ flow' = flow
    <3>1. job' = [job EXCEPT ![o] = [job[o] EXCEPT !.pc = "drop", !.seen = cache]]
      BY <2>2 DEF LoginTypeOK
    <3>2. [job[o] EXCEPT !.pc = "drop", !.seen = cache] \in JobStates
      BY ZenonT(30) DEF LoginTypeOK, JobStates
    <3>3. JobStep(o)
      BY <1>7, <3>1, <3>2 DEF Look, JobAt, LoginTypeOK, JobStep, JobStates
    <3> QED BY <1>0, <2>2, <3>3
  <2> QED BY <1>7, <2>1, <2>2 DEF Look
<1>8. CASE Drop(o)
  BY <1>8, EndJobStep DEF Drop
<1> QED BY <1>1, <1>2, <1>3, <1>4, <1>5, <1>6, <1>7, <1>8 DEF Works
-----------------------------------------------------------------------------
(* Types *)

LEMMA LoginTyped ==
    ASSUME LoginTypeOK, NEW f \in Flows, StartLogin(f) \/ UserAnswers(f) \/ Expire(f) \/ Poll(f)
    PROVE  LoginTypeOK'
<1>1. flow' \in [Flows -> Flowing]
  <2>1. PICK fl : flow' = [flow EXCEPT ![f] = fl] /\ fl \in Flowing
    <3>1. flow[f] \in Flowing
      BY DEF LoginTypeOK
    <3>2. /\ \A pc \in {"pending", "gone", "ready"} : [flow[f] EXCEPT !.pc = pc] \in Flowing
          /\ \A d \in {"approved", "denied"} : [flow[f] EXCEPT !.device = d] \in Flowing
          /\ [flow[f] EXCEPT !.expired = TRUE] \in Flowing
      BY <3>1 DEF Flowing
    <3>3. CASE StartLogin(f) \/ Poll(f)
      BY <3>2, <3>3 DEF LoginTypeOK, StartLogin, Poll
    <3>4. CASE UserAnswers(f)
      BY <3>2, <3>4 DEF LoginTypeOK, UserAnswers
    <3>5. CASE Expire(f)
      BY <3>2, <3>5 DEF LoginTypeOK, Expire
    <3> QED BY <3>3, <3>4, <3>5
  <2> QED BY <2>1 DEF LoginTypeOK
<1> QED
  BY <1>1, Counted DEF LoginTypeOK, StartLogin, UserAnswers, Expire, Poll

LEMMA BegunTyped ==
    ASSUME LoginTypeOK, NEW o \in Jobs, Connect(o) \/ Disconnect(o) \/ SetOther(o)
    PROVE  LoginTypeOK'
<1>1. ASSUME NEW f \in Flows
      PROVE  [NoJob EXCEPT !.kind = "connect", !.flow = f, !.pc = "snapshot"] \in JobStates
  BY NoJobTyped DEF JobStates
<1>2. /\ [NoJob EXCEPT !.kind = "disconnect", !.pc = "edit"] \in JobStates
      /\ [NoJob EXCEPT !.kind = "other", !.pc = "edit"] \in JobStates
  BY NoJobTyped DEF JobStates
<1>3. job' \in [Jobs -> JobStates]
  BY <1>1, <1>2, BeginsTyped DEF Connect, Disconnect, SetOther
<1> QED BY <1>3, Counted DEF LoginTypeOK, Connect, Disconnect, SetOther

LEMMA WorkTyped ==
    ASSUME LoginTypeOK, NEW o \in Jobs, Works(o)
    PROVE  LoginTypeOK'
<1>1. job' \in [Jobs -> JobStates] /\ flow' \in [Flows -> Flowing] /\ probe' = probe
  BY WorksStep DEF JobStep, FlowsKept
<1>2. faults' \in 0..MaxFaults /\ requests' \in 0..MaxRequests
  BY Counted DEF Works, Snapshot, Exchange, Edit, Move, Clear, RestartAiDev, Look, Drop, LoginTypeOK
<1>3. cache' \in Caches
  <2>1. Dropped(o) \in Caches
    BY EmptyCacheTyped DEF Dropped, LoginTypeOK, JobStates
  <2> QED BY <2>1 DEF Works, Snapshot, Exchange, Edit, Move, Clear, RestartAiDev, Look, Drop, LoginTypeOK
<1>4. inUse' \in Creds
  BY DEF Works, Snapshot, Exchange, Edit, Move, Clear, RestartAiDev, Look, Drop, LoginTypeOK, Entries
<1>5. authJson' \in Entries
  BY DEF Works, Snapshot, Exchange, Edit, Move, Clear, RestartAiDev, Look, Drop, LoginTypeOK
<1>6. tmp' \in Entries \cup {Unset}
  <2>1. CASE Edit(o)
    <3>1. Restored(o) \in Creds /\ job[o].flow \in Creds /\ Unset \in Creds
      BY DEF LoginTypeOK, JobStates, Restored, Creds
    <3> QED BY <2>1, <3>1 DEF Edit, LoginTypeOK, Entries
  <2>2. CASE Move(o)
    BY <2>2 DEF Move, LoginTypeOK
  <2> QED BY <2>1, <2>2 DEF Works, Snapshot, Exchange, Clear, RestartAiDev, Look, Drop, LoginTypeOK
<1> QED BY <1>1, <1>2, <1>3, <1>4, <1>5, <1>6 DEF LoginTypeOK

\* A response stands for a status, whatever it holds.
LEMMA ClassifyTyped ==
    ASSUME NEW r
    PROVE  Classify(r) \in Statuses
<1> DEFINE found == {i \in DOMAIN Marks : Marks[i] \in r.marks}
           first == CHOOSE i \in found : \A j \in found : i <= j
<1>1. CASE found = {}
  BY <1>1 DEF Classify, Statuses
<1>2. CASE found # {}
  <2>1. found \subseteq 1..6
    BY DEF Marks
  <2>2. \E i \in found : \A j \in found : i <= j
    BY <1>2, <2>1
  <2>3. first \in 1..6
    BY <2>1, <2>2
  <2>4. StatusOf(Marks[first]) \in Statuses
    <3>1. \A i \in 1..6 : StatusOf(Marks[i]) \in Statuses
      BY DEF Marks, StatusOf, Statuses
    <3> QED BY <2>3, <3>1
  <2> QED BY <1>2, <2>4 DEF Classify
<1> QED BY <1>1, <1>2

LEMMA ProbeTyped ==
    ASSUME LoginTypeOK, NEW p \in Probes,
           \/ Ask(p) \/ ReadCache(p) \/ Fingerprint(p) \/ Prune(p) \/ ProbeAnswer(p) \/ Store(p)
    PROVE  LoginTypeOK'
<1>1. CASE Ask(p)
  <2>1. job' \in [Jobs -> JobStates]
    BY <1>1, CrowdTyped DEF Ask
  <2>2. ASSUME NEW m \in Models \cup {Unset}
        PROVE  [NoProbe EXCEPT !.pc = "read", !.model = m] \in ProbeStates
    BY NoProbeTyped DEF ProbeStates
  <2>3. probe' \in [Probes -> ProbeStates]
    BY <1>1, <2>2 DEF Ask, LoginTypeOK
  <2> QED BY <1>1, <2>1, <2>3, Counted DEF Ask, LoginTypeOK
<1>2. CASE ReadCache(p)
  <2>1. probe' \in [Probes -> ProbeStates]
    BY <1>2, EmptyCacheTyped DEF ReadCache, LoginTypeOK, ProbeStates
  <2> QED BY <1>2, <2>1, Counted DEF ReadCache, LoginTypeOK
<1>3. CASE Fingerprint(p)
  <2>1. PICK cred \in Creds : Fingerprinted(p, cred)
    BY <1>3 DEF Fingerprint, LoginTypeOK, Entries, Creds
  <2>2. Kept(p, cred) \in Caches
    <3>1. probe[p].seen \in Caches
      BY DEF LoginTypeOK, ProbeStates
    <3> QED BY <3>1 DEF Kept, Caches
  <2>3. probe' \in [Probes -> ProbeStates]
    <3>1. \A pc \in {"prune", "ask"} :
            [probe[p] EXCEPT !.pc = pc, !.seen = Kept(p, cred), !.cred = cred] \in ProbeStates
      BY <2>2 DEF LoginTypeOK, ProbeStates
    <3> QED BY <2>1, <3>1, NoProbeTyped DEF Fingerprinted, LoginTypeOK
  <2> QED BY <1>3, <2>3, Counted DEF Fingerprint, LoginTypeOK
<1>4. CASE Prune(p)
  <2>1. probe' \in [Probes -> ProbeStates]
    BY <1>4, NoProbeTyped DEF Prune, LoginTypeOK, ProbeStates
  <2>2. cache' \in Caches
    BY <1>4 DEF Prune, LoginTypeOK, ProbeStates
  <2> QED BY <1>4, <2>1, <2>2, Counted DEF Prune, LoginTypeOK
<1>5. CASE ProbeAnswer(p)
  <2>1. \A status \in Statuses :
          [probe[p] EXCEPT !.pc = "store", !.status = status] \in ProbeStates
    BY DEF LoginTypeOK, ProbeStates
  <2>2. {"timeout", "aborted", "quota_exceeded"} \subseteq Statuses
    BY DEF Statuses
  <2>3. \/ probe' = [probe EXCEPT ![p] = NoProbe]
        \/ \E status \in Statuses :
             probe' = [probe EXCEPT ![p] = [probe[p] EXCEPT !.pc = "store", !.status = status]]
    BY <1>5, <2>2, ClassifyTyped DEF ProbeAnswer, LoginTypeOK
  <2>4. probe' \in [Probes -> ProbeStates]
    BY <2>1, <2>3, NoProbeTyped DEF LoginTypeOK
  <2> QED BY <1>5, <2>4, Counted DEF ProbeAnswer, LoginTypeOK
<1>6. CASE Store(p)
  <2>1. probe' \in [Probes -> ProbeStates]
    BY <1>6, NoProbeTyped DEF Store, LoginTypeOK
  <2>2. /\ probe[p].seen \in Caches /\ probe[p].status \in Statuses \cup {Unset}
        /\ probe[p].cred \in Creds
    BY DEF LoginTypeOK, ProbeStates
  <2>3. [probe[p].seen EXCEPT ![probe[p].model][probe[p].cred] = probe[p].status] \in Caches
    BY <2>2 DEF Caches
  <2>4. cache' \in Caches
    BY <1>6, <2>3 DEF Store, LoginTypeOK
  <2> QED BY <1>6, <2>1, <2>4, Counted DEF Store, LoginTypeOK
<1> QED BY <1>1, <1>2, <1>3, <1>4, <1>5, <1>6

LEMMA RestTyped ==
    ASSUME LoginTypeOK, EntryExpires \/ AdminDies
    PROVE  LoginTypeOK'
<1>1. CASE EntryExpires
  <2>1. cache' \in Caches
    BY <1>1 DEF EntryExpires, LoginTypeOK, Caches
  <2> QED BY <1>1, <2>1, Counted DEF EntryExpires, LoginTypeOK
<1>2. CASE AdminDies
  <2>1. flow' \in [Flows -> Flowing]
    BY <1>2 DEF AdminDies, LoginTypeOK, Flowing
  <2> QED BY <1>2, <2>1, NoJobTyped, NoProbeTyped, Counted DEF AdminDies, LoginTypeOK
<1> QED BY <1>1, <1>2

LEMMA NextTyped == LoginTypeOK /\ [LoginNext]_loginVars => LoginTypeOK'
<1> SUFFICES ASSUME LoginTypeOK, [LoginNext]_loginVars PROVE LoginTypeOK'
  OBVIOUS
<1>1. CASE UNCHANGED loginVars
  BY <1>1 DEF LoginTypeOK, loginVars
<1>2. CASE LoginNext
  BY <1>2, LoginTyped, BegunTyped, WorkTyped, ProbeTyped, RestTyped DEF LoginNext, Works
<1> QED BY <1>1, <1>2
-----------------------------------------------------------------------------
(* What a step makes of its job *)

Turns(o, pc, undo, failed) ==
    /\ job'[o].pc = pc /\ job'[o].undo = undo /\ job'[o].failed = failed
    /\ job'[o].prev = job[o].prev
Gone(o) == job[o].kind = "connect" => flow'[job[o].flow].pc = "gone"

LEMMA Ending ==
    ASSUME LoginTypeOK, NEW o \in Jobs, NEW pc \in {"ok", "failed", "reverted"}, EndJob(o, pc)
    PROVE  Turns(o, pc, job[o].undo, job[o].failed) /\ Gone(o)
<1>1. Turns(o, pc, job[o].undo, job[o].failed)
  BY DEF EndJob, LoginTypeOK, JobStates, Turns
<1>2. Gone(o)
  BY DEF EndJob, LoginTypeOK, JobStates, Flowing, Gone
<1> QED BY <1>1, <1>2

\* A failure ends a job that is no connect; a connect rolls back, and once it does
\* goes on to the next step of that.
FailsSo(o) ==
    \/ job[o].kind # "connect" /\ Turns(o, "failed", job[o].undo, job[o].failed)
    \/ job[o].kind = "connect" /\ ~job[o].undo /\ Turns(o, "edit", TRUE, job[o].failed)
    \/ /\ job[o].kind = "connect" /\ job[o].undo
       /\ \/ job[o].pc = "restart" /\ Turns(o, "reverted", TRUE, TRUE) /\ Gone(o)
          \/ job[o].pc = "clear" /\ Turns(o, "restart", TRUE, TRUE)
          \/ job[o].pc \in {"edit", "move"} /\ Turns(o, "clear", TRUE, TRUE)

LEMMA Failing ==
    ASSUME LoginTypeOK, NEW o \in Jobs, Fails(o), job[o].pc \in {"edit", "move", "clear", "restart"}
    PROVE  FailsSo(o)
<1>1. CASE job[o].kind # "connect"
  BY <1>1, Ending DEF Fails, FailsSo
<1>2. CASE job[o].kind = "connect" /\ ~job[o].undo
  <2>1. job' = [job EXCEPT ![o] = [job[o] EXCEPT !.pc = "edit", !.undo = TRUE]]
    BY <1>2 DEF Fails, LoginTypeOK
  <2>2. Turns(o, "edit", TRUE, job[o].failed)
    BY <2>1 DEF LoginTypeOK, JobStates, Turns
  <2> QED BY <1>2, <2>2 DEF FailsSo
<1>3. CASE job[o].kind = "connect" /\ job[o].undo /\ job[o].pc = "restart"
  <2>1. job' = [job EXCEPT ![o] = [job[o] EXCEPT !.pc = "reverted", !.failed = TRUE]]
    BY <1>3 DEF Fails, JobAt, LoginTypeOK
  <2>2. Turns(o, "reverted", TRUE, TRUE)
    BY <1>3, <2>1 DEF LoginTypeOK, JobStates, Turns
  <2>3. Gone(o)
    BY <1>3 DEF Fails, JobAt, LoginTypeOK, JobStates, Flowing, Gone
  <2> QED BY <1>3, <2>2, <2>3 DEF FailsSo
<1>4. CASE job[o].kind = "connect" /\ job[o].undo /\ job[o].pc # "restart"
  <2> DEFINE next == IF job[o].pc = "clear" THEN "restart" ELSE "clear"
  <2>1. job' = [job EXCEPT ![o] = [job[o] EXCEPT !.pc = next, !.failed = TRUE]]
    BY <1>4 DEF Fails, JobAt, LoginTypeOK
  <2>2. Turns(o, next, TRUE, TRUE)
    BY <1>4, <2>1 DEF LoginTypeOK, JobStates, Turns
  <2> QED BY <1>4, <2>2 DEF FailsSo
<1> QED BY <1>1, <1>2, <1>3, <1>4 DEF LoginTypeOK, JobStates

\* A step that goes on as it should.
LEMMA GoesOn ==
    ASSUME LoginTypeOK, NEW o \in Jobs, NEW pc, job' = [job EXCEPT ![o].pc = pc]
    PROVE  Turns(o, pc, job[o].undo, job[o].failed)
BY DEF LoginTypeOK, JobStates, Turns

GoesTo(o, pc) == Turns(o, pc, job[o].undo, job[o].failed)

LEMMA SnapshotTurns ==
    ASSUME LoginTypeOK, NEW o \in Jobs, Snapshot(o)
    PROVE  /\ job[o].pc = "snapshot" /\ job'[o].pc = "exchange"
           /\ job'[o].undo = job[o].undo /\ job'[o].failed = job[o].failed
           /\ job'[o].prev \in {authJson.openai, Unset}
           /\ UNCHANGED <<authJson, tmp, inUse, flow, cache>>
BY DEF Snapshot, JobAt, LoginTypeOK, JobStates

LEMMA ExchangeTurns ==
    ASSUME LoginTypeOK, NEW o \in Jobs, Exchange(o)
    PROVE  /\ job[o].pc = "exchange" /\ UNCHANGED <<authJson, tmp, inUse, cache>>
           /\ \/ /\ GoesTo(o, "edit") /\ flow[job[o].flow].device = "approved"
                 /\ flow' = [flow EXCEPT ![job[o].flow].device = "used"]
              \/ GoesTo(o, "failed") /\ Gone(o)
BY GoesOn, Ending DEF Exchange, ExchangeFails, JobAt, GoesTo

LEMMA EditTurns ==
    ASSUME LoginTypeOK, NEW o \in Jobs, Edit(o)
    PROVE  /\ job[o].pc = "edit" /\ UNCHANGED <<authJson, inUse, cache>>
           /\ \/ /\ GoesTo(o, "move") /\ flow' = flow
                 /\ tmp' = IF job[o].kind = "other" THEN [authJson EXCEPT !.other = "key"]
                           ELSE [authJson EXCEPT !.openai =
                                   IF job[o].undo THEN job[o].prev
                                   ELSE IF job[o].kind = "connect" THEN job[o].flow ELSE Unset]
              \/ FailsSo(o) /\ tmp' = tmp
BY GoesOn, Failing DEF Edit, JobAt, To, GoesTo, Restored

LEMMA MoveTurns ==
    ASSUME LoginTypeOK, NEW o \in Jobs, Move(o)
    PROVE  /\ job[o].pc = "move" /\ UNCHANGED <<inUse, cache>>
           /\ \/ tmp # Unset /\ authJson' = tmp /\ tmp' = Unset /\ GoesTo(o, "clear") /\ flow' = flow
              \/ tmp = Unset /\ FailsSo(o) /\ UNCHANGED <<authJson, tmp>>
BY GoesOn, Failing DEF Move, JobAt, To, GoesTo

LEMMA ClearTurns ==
    ASSUME LoginTypeOK, NEW o \in Jobs, Clear(o)
    PROVE  /\ job[o].pc = "clear" /\ UNCHANGED <<authJson, tmp, inUse, cache>>
           /\ (GoesTo(o, "restart") /\ flow' = flow) \/ FailsSo(o)
BY GoesOn, Failing DEF Clear, JobAt, To, GoesTo

LEMMA RestartTurns ==
    ASSUME LoginTypeOK, NEW o \in Jobs, RestartAiDev(o)
    PROVE  /\ job[o].pc = "restart" /\ UNCHANGED <<authJson, tmp, cache>>
           /\ \/ /\ inUse' = authJson.openai
                 /\ \/ job[o].undo /\ GoesTo(o, "reverted") /\ Gone(o)
                    \/ ~job[o].undo /\ GoesTo(o, "look") /\ flow' = flow
              \/ FailsSo(o)
BY GoesOn, Failing, Ending DEF RestartAiDev, JobAt, To, GoesTo

LEMMA LookTurns ==
    ASSUME LoginTypeOK, NEW o \in Jobs, Look(o)
    PROVE  /\ job[o].pc = "look" /\ UNCHANGED <<authJson, tmp, inUse, cache>>
           /\ \/ GoesTo(o, "drop") /\ flow' = flow
              \/ GoesTo(o, "ok") /\ Gone(o) /\ faults' # 0
<1>1. CASE job' = [job EXCEPT ![o].pc = "drop", ![o].seen = cache] /\ flow' = flow
  <2>1. job' = [job EXCEPT ![o] = [job[o] EXCEPT !.pc = "drop", !.seen = cache]]
    BY <1>1 DEF LoginTypeOK
  <2>2. GoesTo(o, "drop")
    BY <2>1 DEF LoginTypeOK, JobStates, Turns, GoesTo
  <2> QED BY <1>1, <2>2 DEF Look, JobAt
<1>2. CASE Fault /\ EndJob(o, "ok")
  <2>1. faults' # 0
    BY <1>2 DEF Fault, LoginTypeOK
  <2> QED BY <1>2, <2>1, Ending DEF Look, JobAt, GoesTo
<1> QED BY <1>1, <1>2 DEF Look

LEMMA DropTurns ==
    ASSUME LoginTypeOK, NEW o \in Jobs, Drop(o)
    PROVE  /\ job[o].pc = "drop" /\ UNCHANGED <<authJson, tmp, inUse>>
           /\ GoesTo(o, "ok") /\ Gone(o)
           /\ job[o].kind = "other" \/ cache' = EmptyCache \/ faults' # 0
<1>1. Fault => faults' # 0
  BY DEF Fault, LoginTypeOK
<1> QED BY <1>1, Ending DEF Drop, Dropped, JobAt, GoesTo
-----------------------------------------------------------------------------
(* The invariant *)

Past(o) ==
    /\ job[o].kind = "connect"
    /\ job[o].pc \in {"edit", "move", "clear", "restart", "look", "drop", "ok", "reverted"}

\* One connect of a login, at most, has got past the exchange.
CodeOnce ==
    \A o \in Jobs : Past(o) =>
        /\ flow[job[o].flow].device = "used"
        /\ \A k \in Jobs : Past(k) /\ job[k].flow = job[o].flow => k = o

\* The login of a connect that has ended cannot be used again.
FlowsGone ==
    \A o \in Jobs : job[o].kind = "connect" /\ job[o].pc \in {"ok", "failed", "reverted"} =>
        flow[job[o].flow].pc = "gone"

\* A temporary file that somebody is about to move holds the other provider's entry as it is,
\* unless a job that sets that entry is at the same point.
OtherCopied ==
    \A o \in Jobs : job[o].pc = "move" /\ tmp # Unset =>
        \/ tmp.other = authJson.other
        \/ \E k \in Jobs : job[k].kind = "other" /\ job[k].pc = "move"

\* Only a connect is exchanged and rolled back, and only what is rolled back has failed.
Way(o) ==
    /\ job[o].pc \in {"snapshot", "exchange", "reverted"} \/ job[o].undo => job[o].kind = "connect"
    /\ job[o].failed => job[o].undo
    /\ job[o].pc = "reverted" => job[o].undo
    /\ job[o].pc \in {"snapshot", "exchange", "look", "drop", "ok"} => ~job[o].undo
Ways == \A o \in Jobs : Way(o)

\* Next to a job that runs alone there are connects of its own login, and no probe.
Company ==
    \A o \in Jobs : job[o].solo =>
        /\ job[o].pc # "idle" /\ job[o].before \in Entries
        /\ \A p \in Probes : probe[p].pc = "idle"
        /\ \A k \in Jobs \ {o} : job[k].pc = "idle" \/ Twin(job[o], job[k])

\* What the job has put, or is putting, into the store.
Written(o) ==
    IF job[o].undo THEN job[o].prev
    ELSE IF job[o].kind = "connect" THEN job[o].flow ELSE Unset

\* A connect that has read the entry of before, and may still get past the exchange or has.
Recalls(o) ==
    /\ job[o].kind = "connect"
    /\ \/ Past(o)
       \/ job[o].pc = "exchange" /\ flow[job[o].flow].device # "used"

Installed == {"clear", "restart", "look", "drop", "ok", "reverted"}
Restarted == {"look", "drop", "ok", "reverted"}

\* What holds along the way of a job that runs alone.
Whole(o) ==
    /\ authJson.other = job[o].before.other
    /\ job[o].pc = "snapshot" /\ flow[job[o].flow].device # "used" =>
         authJson.openai = job[o].before.openai
    /\ Recalls(o) => job[o].prev \in {job[o].before.openai, Unset}
    /\ job[o].pc = "move" => tmp = [authJson EXCEPT !.openai = Written(o)]
    /\ job[o].pc \in Installed /\ ~job[o].failed => authJson.openai = Written(o)
    /\ job[o].pc \in Restarted /\ ~job[o].failed => inUse = authJson.openai
    /\ job[o].pc = "ok" /\ faults = 0 => cache = EmptyCache
AllWhole == \A o \in Jobs : job[o].solo /\ job[o].kind # "other" => Whole(o)

LoginInv ==
    LoginTypeOK /\ CodeOnce /\ FlowsGone /\ OtherCopied /\ Ways /\ Company /\ AllWhole

LEMMA LoginInvInit == LoginInit => LoginInv
<1> SUFFICES ASSUME LoginInit PROVE LoginInv
  OBVIOUS
<1>1. \A o \in Jobs : /\ job[o].pc = "idle" /\ job[o].kind = "connect" /\ ~job[o].solo
                      /\ ~job[o].undo /\ ~job[o].failed
  BY DEF LoginInit, NoJob
<1> QED
  BY <1>1, InitTyped
  DEF LoginInv, CodeOnce, FlowsGone, OtherCopied, Ways, Way, Company, AllWhole, Past

\* A job that runs alone and its outcome: the invariant says of it what SoloConnect asks.
LEMMA LoginInvSolo == LoginInv => SoloConnect
<1> SUFFICES ASSUME LoginInv, NEW o \in Jobs, Ended(o), job[o].solo, job[o].kind # "other"
             PROVE  /\ authJson.other = job[o].before.other
                    /\ job[o].kind = "connect" => flow[job[o].flow].pc = "gone"
                    /\ job[o].pc = "ok" =>
                         /\ authJson.openai = IF job[o].kind = "connect" THEN job[o].flow ELSE Unset
                         /\ inUse = authJson.openai
                         /\ faults = 0 => cache = EmptyCache
                    /\ job[o].pc = "reverted" /\ ~job[o].failed /\ job[o].prev # Unset =>
                         authJson = job[o].before /\ inUse = authJson.openai
  BY DEF SoloConnect
<1>1. Whole(o) /\ Way(o) /\ job[o].pc # "idle" /\ job[o].before \in Entries
  BY DEF LoginInv, AllWhole, Ways, Company
<1>2. job[o].kind = "connect" => flow[job[o].flow].pc = "gone"
  BY <1>1 DEF LoginInv, FlowsGone, Ended
<1>3. CASE job[o].pc = "ok"
  BY <1>1, <1>2, <1>3 DEF Whole, Way, Written, Installed, Restarted
<1>4. CASE job[o].pc = "reverted"
  <2>1. ASSUME ~job[o].failed, job[o].prev # Unset
        PROVE  authJson = job[o].before /\ inUse = authJson.openai
    <3>1. authJson.openai = job[o].prev /\ inUse = authJson.openai
      BY <1>1, <1>4, <2>1 DEF Whole, Way, Written, Installed, Restarted
    <3>2. job[o].prev = job[o].before.openai
      <4>1. Recalls(o)
        BY <1>1, <1>4 DEF Way, Recalls, Past
      <4> QED BY <1>1, <2>1, <4>1 DEF Whole
    <3> QED BY <1>1, <3>1, <3>2 DEF LoginInv, LoginTypeOK, Entries, Whole
  <2> QED BY <1>1, <1>2, <1>4, <2>1 DEF Whole
<1>5. CASE job[o].pc = "failed"
  BY <1>1, <1>2, <1>5 DEF Whole
<1> QED BY <1>1, <1>3, <1>4, <1>5 DEF Ended

-----------------------------------------------------------------------------
(* Steps that leave the jobs alone *)

LEMMA LoginKeeps ==
    ASSUME LoginTypeOK, NEW f \in Flows, StartLogin(f) \/ UserAnswers(f) \/ Expire(f) \/ Poll(f)
    PROVE  /\ FlowsKept /\ (faults = 0 \/ faults' # 0)
           /\ \A g \in Flows : flow'[g].device = "used" => flow[g].device = "used"
           /\ UNCHANGED <<authJson, tmp, inUse, cache, job, probe>>
<1>1. flow' \in [Flows -> Flowing]
  BY LoginTyped DEF LoginTypeOK
<1>2. faults = 0 \/ faults' # 0
  BY DEF LoginTypeOK, StartLogin, UserAnswers, Expire, Poll, Fault
<1> QED
  BY <1>1, <1>2 DEF LoginTypeOK, StartLogin, UserAnswers, Expire, Poll, FlowsKept, Flowing

LEMMA LoginSteps ==
    ASSUME LoginInv, NEW f \in Flows, StartLogin(f) \/ UserAnswers(f) \/ Expire(f) \/ Poll(f)
    PROVE  LoginInv'
<1> USE DEF LoginInv
<1>1. \A o \in Jobs : job[o].flow \in Flows
  BY DEF LoginTypeOK, JobStates
<1>2. CodeOnce'
  BY <1>1, LoginKeeps DEF CodeOnce, Past, FlowsKept
<1>3. FlowsGone'
  BY <1>1, LoginKeeps DEF FlowsGone, FlowsKept
<1>4. OtherCopied' /\ Ways' /\ Company'
  BY LoginKeeps DEF OtherCopied, Ways, Way, Company, Twin
<1>5. ASSUME NEW o \in Jobs, Whole(o) PROVE Whole(o)'
  BY <1>1, <1>5, LoginKeeps DEF Whole, Recalls, Past, Written, FlowsKept
<1>6. AllWhole'
  BY <1>5, LoginKeeps DEF AllWhole
<1> QED BY <1>2, <1>3, <1>4, <1>6, LoginTyped

\* A probe that is under way has nobody next to it who runs alone.
LEMMA ProbeSteps ==
    ASSUME LoginInv, NEW p \in Probes,
           ReadCache(p) \/ Fingerprint(p) \/ Prune(p) \/ ProbeAnswer(p) \/ Store(p)
    PROVE  LoginInv'
<1> USE DEF LoginInv
<1>1. probe[p].pc # "idle" /\ UNCHANGED <<authJson, tmp, flow, job>>
  BY DEF ReadCache, Fingerprint, Prune, ProbeAnswer, Store
<1>2. \A o \in Jobs : ~job[o].solo
  BY <1>1 DEF Company
<1>3. CodeOnce' /\ FlowsGone' /\ OtherCopied' /\ Ways'
  BY <1>1 DEF CodeOnce, FlowsGone, OtherCopied, Ways, Way, Past
<1>4. Company' /\ AllWhole'
  BY <1>1, <1>2 DEF Company, AllWhole
<1> QED BY <1>3, <1>4, ProbeTyped

LEMMA ExpirySteps ==
    ASSUME LoginInv, EntryExpires
    PROVE  LoginInv'
<1> USE DEF LoginInv
<1>1. faults' # 0 /\ UNCHANGED <<authJson, tmp, inUse, flow, job, probe>>
  BY DEF EntryExpires, Fault, LoginTypeOK
<1>2. CodeOnce' /\ FlowsGone' /\ OtherCopied' /\ Ways' /\ Company'
  BY <1>1 DEF CodeOnce, FlowsGone, OtherCopied, Ways, Way, Past, Company, Twin
<1>3. AllWhole'
  BY <1>1 DEF AllWhole, Whole, Recalls, Past, Written
<1> QED BY <1>2, <1>3, RestTyped

LEMMA DeathSteps ==
    ASSUME LoginInv, AdminDies
    PROVE  LoginInv'
<1> USE DEF LoginInv
<1>1. \A o \in Jobs : /\ job'[o].pc = "idle" /\ job'[o].kind = "connect" /\ ~job'[o].solo
                      /\ ~job'[o].undo /\ ~job'[o].failed
  BY DEF AdminDies, NoJob
<1>2. CodeOnce' /\ FlowsGone' /\ OtherCopied' /\ Ways' /\ Company' /\ AllWhole'
  BY <1>1 DEF CodeOnce, FlowsGone, OtherCopied, Ways, Way, Company, AllWhole, Past
<1> QED BY <1>2, RestTyped
-----------------------------------------------------------------------------
(* A job or a probe begins *)

\* Who has ended is cleared away, who is under way stays as it is, alone only if the newcomer
\* is another connect of its login.
LEMMA CrowdFields ==
    ASSUME LoginTypeOK, NEW r, NEW k \in Jobs
    PROVE  /\ Ended(k) => Crowd(r)[k] = NoJob
           /\ ~Ended(k) => /\ Crowd(r)[k].pc = job[k].pc /\ Crowd(r)[k].kind = job[k].kind
                           /\ Crowd(r)[k].flow = job[k].flow /\ Crowd(r)[k].prev = job[k].prev
                           /\ Crowd(r)[k].undo = job[k].undo /\ Crowd(r)[k].failed = job[k].failed
                           /\ Crowd(r)[k].before = job[k].before
                           /\ Crowd(r)[k].solo <=> job[k].solo /\ Twin(r, job[k])
BY DEF Crowd, LoginTypeOK, JobStates, Twin

LEMMA NoJobIs ==
    /\ NoJob.pc = "idle" /\ NoJob.kind = "connect" /\ NoJob.solo = FALSE
    /\ NoJob.undo = FALSE /\ NoJob.failed = FALSE
BY DEF NoJob

LEMMA AskSteps ==
    ASSUME LoginInv, NEW p \in Probes, Ask(p)
    PROVE  LoginInv'
<1> USE DEF LoginInv
<1>1. UNCHANGED <<authJson, tmp, flow>> /\ job' = Crowd([kind |-> "probe"])
  BY DEF Ask
<1>2. ASSUME NEW k \in Jobs
      PROVE  /\ ~job'[k].solo
             /\ \/ job'[k] = NoJob
                \/ /\ ~Ended(k) /\ job'[k].pc = job[k].pc /\ job'[k].kind = job[k].kind
                   /\ job'[k].flow = job[k].flow
                   /\ job'[k].undo = job[k].undo /\ job'[k].failed = job[k].failed
  <2>1. ~Twin([kind |-> "probe"], job[k])
    BY DEF Twin
  <2> QED BY <1>1, <2>1, CrowdFields, NoJobIs
<1>3. CodeOnce'
  BY <1>1, <1>2, NoJobIs DEF CodeOnce, Past
<1>4. FlowsGone'
  BY <1>1, <1>2, NoJobIs DEF FlowsGone
<1>5. OtherCopied'
  <2>1. \A k \in Jobs : job[k].pc = "move" => job'[k].pc = "move" /\ job'[k].kind = job[k].kind
    BY <1>1, CrowdFields DEF Ended
  <2> QED BY <1>1, <1>2, <2>1, NoJobIs DEF OtherCopied
<1>6. Ways'
  BY <1>2, NoJobIs DEF Ways, Way
<1>7. Company' /\ AllWhole'
  BY <1>2 DEF Company, AllWhole
<1> QED BY <1>3, <1>4, <1>5, <1>6, <1>7, ProbeTyped

\* What a job starts from.
Newcomer(r) ==
    /\ r \in JobStates /\ ~r.undo /\ ~r.failed
    /\ \/ r.kind = "connect" /\ r.pc = "snapshot"
       \/ r.kind \in {"disconnect", "other"} /\ r.pc = "edit"

LEMMA Newcomers ==
    ASSUME LoginTypeOK, NEW o \in Jobs, Connect(o) \/ Disconnect(o) \/ SetOther(o)
    PROVE  /\ \E r : Newcomer(r) /\ Begins(o, r)
           /\ UNCHANGED <<authJson, tmp, inUse, flow, cache, probe, faults>>
<1>1. ASSUME NEW f \in Flows
      PROVE  Newcomer([NoJob EXCEPT !.kind = "connect", !.flow = f, !.pc = "snapshot"])
  BY NoJobTyped, NoJobIs DEF Newcomer, JobStates
<1>2. /\ Newcomer([NoJob EXCEPT !.kind = "disconnect", !.pc = "edit"])
      /\ Newcomer([NoJob EXCEPT !.kind = "other", !.pc = "edit"])
  BY NoJobTyped, NoJobIs DEF Newcomer, JobStates
<1> QED BY <1>1, <1>2 DEF Connect, Disconnect, SetOther

\* The jobs after one has begun.
LEMMA Begun ==
    ASSUME LoginTypeOK, NEW o \in Jobs, NEW r, Newcomer(r), Begins(o, r)
    PROVE  /\ job'[o].pc = r.pc /\ job'[o].kind = r.kind /\ job'[o].flow = r.flow
           /\ ~job'[o].undo /\ ~job'[o].failed
           /\ job'[o].before = authJson
           /\ job'[o].solo => /\ \A k \in Jobs : Ended(k) \/ Twin(r, job[k])
                              /\ \A p \in Probes : probe[p].pc = "idle"
           /\ Ended(o)
           /\ \A k \in Jobs \ {o} :
                \/ job'[k] = NoJob /\ Ended(k)
                \/ /\ ~Ended(k) /\ job'[k].pc = job[k].pc /\ job'[k].kind = job[k].kind
                   /\ job'[k].flow = job[k].flow /\ job'[k].prev = job[k].prev
                   /\ job'[k].undo = job[k].undo /\ job'[k].failed = job[k].failed
                   /\ job'[k].before = job[k].before
                   /\ job'[k].solo => job[k].solo /\ Twin(r, job[k])
<1> DEFINE solo == /\ \A k \in Jobs : Ended(k) \/ Twin(r, job[k])
                   /\ \A p \in Probes : probe[p].pc = "idle"
           new == [r EXCEPT !.solo = solo, !.before = authJson]
<1>1. job' = [Crowd(r) EXCEPT ![o] = new] /\ Ended(o)
  BY DEF Begins
<1>2. job'[o] = new /\ \A k \in Jobs \ {o} : job'[k] = Crowd(r)[k]
  BY <1>1, CrowdTyped
<1>3. /\ new.pc = r.pc /\ new.kind = r.kind /\ new.flow = r.flow /\ ~new.undo /\ ~new.failed
      /\ new.before = authJson /\ new.solo = solo
  BY DEF Newcomer, JobStates
<1> HIDE DEF new
<1>4. ASSUME NEW k \in Jobs \ {o}
      PROVE  \/ job'[k] = NoJob /\ Ended(k)
             \/ /\ ~Ended(k) /\ job'[k].pc = job[k].pc /\ job'[k].kind = job[k].kind
                /\ job'[k].flow = job[k].flow /\ job'[k].prev = job[k].prev
                /\ job'[k].undo = job[k].undo /\ job'[k].failed = job[k].failed
                /\ job'[k].before = job[k].before
                /\ job'[k].solo => job[k].solo /\ Twin(r, job[k])
  BY <1>2, CrowdFields
<1> QED BY <1>1, <1>2, <1>3, <1>4

LEMMA BeginSteps ==
    ASSUME LoginInv, NEW o \in Jobs, Connect(o) \/ Disconnect(o) \/ SetOther(o)
    PROVE  LoginInv'
<1> USE DEF LoginInv
<1>1. PICK r : Newcomer(r) /\ Begins(o, r)
  BY Newcomers
<1>2. UNCHANGED <<authJson, tmp, inUse, flow, cache, probe, faults>>
  BY Newcomers
<1> DEFINE Stays(k) ==
      /\ ~Ended(k) /\ job'[k].pc = job[k].pc /\ job'[k].kind = job[k].kind
      /\ job'[k].flow = job[k].flow /\ job'[k].prev = job[k].prev
      /\ job'[k].undo = job[k].undo /\ job'[k].failed = job[k].failed
      /\ job'[k].before = job[k].before
      /\ job'[k].solo => job[k].solo /\ Twin(r, job[k])
<1>3. \A k \in Jobs \ {o} : (job'[k] = NoJob /\ Ended(k)) \/ Stays(k)
  BY <1>1, Begun
<1>4. /\ job'[o].pc = r.pc /\ job'[o].kind = r.kind /\ job'[o].flow = r.flow
      /\ ~job'[o].undo /\ ~job'[o].failed /\ job'[o].before = authJson
      /\ job'[o].solo => /\ \A k \in Jobs : Ended(k) \/ Twin(r, job[k])
                         /\ \A p \in Probes : probe[p].pc = "idle"
      /\ Ended(o)
      /\ \/ r.kind = "connect" /\ r.pc = "snapshot"
         \/ r.kind \in {"disconnect", "other"} /\ r.pc = "edit"
  BY <1>1, Begun DEF Newcomer
<1>5. CodeOnce'
  <2>1. \A k \in Jobs : Past(k)' => Stays(k) /\ Past(k)
    BY <1>3, <1>4, NoJobIs DEF Past
  <2> QED BY <1>2, <2>1 DEF CodeOnce
<1>6. FlowsGone'
  BY <1>2, <1>3, <1>4, NoJobIs DEF FlowsGone, Ended
<1>7. OtherCopied'
  <2>1. \A k \in Jobs : job'[k].pc = "move" => job[k].pc = "move"
    BY <1>3, <1>4, NoJobIs
  <2>2. \A k \in Jobs : job[k].pc = "move" => job'[k].pc = "move" /\ job'[k].kind = job[k].kind
    BY <1>3, <1>4 DEF Ended
  <2> QED BY <1>2, <2>1, <2>2 DEF OtherCopied
<1>8. Ways'
  BY <1>3, <1>4, NoJobIs DEF Ways, Way
<1>9. Company'
  <2> SUFFICES ASSUME NEW k \in Jobs, job'[k].solo
               PROVE  /\ job'[k].pc # "idle" /\ job'[k].before \in Entries
                      /\ \A p \in Probes : probe[p].pc = "idle"
                      /\ \A j \in Jobs \ {k} : job'[j].pc = "idle" \/ Twin(job'[k], job'[j])
    BY <1>2 DEF Company
  <2>1. CASE k = o
    BY <1>3, <1>4, <2>1, NoJobIs DEF LoginTypeOK, Twin
  <2>2. CASE k # o
    <3>1. Stays(k) /\ job[k].solo /\ Twin(r, job[k])
      BY <1>3, <2>2, NoJobIs
    <3>2. ASSUME NEW j \in Jobs \ {k} PROVE job'[j].pc = "idle" \/ Twin(job'[k], job'[j])
      BY <1>3, <1>4, <3>1, NoJobIs DEF Company, Twin
    <3> QED BY <3>1, <3>2 DEF Company
  <2> QED BY <2>1, <2>2
<1>10. AllWhole'
  <2> SUFFICES ASSUME NEW k \in Jobs, job'[k].solo, job'[k].kind # "other"
               PROVE  Whole(k)'
    BY DEF AllWhole
  <2>1. CASE k = o
    BY <1>2, <1>4, <2>1 DEF Whole, Recalls, Past, Written, Installed, Restarted
  <2>2. CASE k # o
    <3>1. Stays(k) /\ job[k].solo
      BY <1>3, <2>2, NoJobIs
    <3>2. Whole(k)
      BY <3>1 DEF AllWhole
    <3> QED BY <1>2, <3>1, <3>2 DEF Whole, Recalls, Past, Written
  <2> QED BY <2>1, <2>2
<1> QED BY <1>5, <1>6, <1>7, <1>8, <1>9, <1>10, BegunTyped
-----------------------------------------------------------------------------
(* A step of a job *)

\* Nobody gets past the exchange but by it, and then with a code that was not used.
LEMMA WorksPast ==
    ASSUME LoginTypeOK, NEW o \in Jobs, Works(o), Past(o)'
    PROVE  \/ Past(o)
           \/ /\ job[o].pc = "exchange" /\ job[o].kind = "connect"
              /\ flow[job[o].flow].device # "used" /\ flow'[job[o].flow].device = "used"
<1>1. job'[o].kind = job[o].kind /\ job'[o].flow = job[o].flow /\ job[o].flow \in Flows
  BY WorksStep DEF JobStep, LoginTypeOK, JobStates
<1>2. CASE Snapshot(o)
  BY <1>2, SnapshotTurns DEF Past
<1>3. CASE Exchange(o)
  BY ZenonT(30), <1>1, <1>3, ExchangeTurns DEF Past, GoesTo, Turns, LoginTypeOK, Flowing
<1>4. job[o].pc \in {"edit", "move", "clear", "restart", "look", "drop"} => Past(o)
  BY <1>1 DEF Past
<1> QED
  BY <1>2, <1>3, <1>4 DEF Works, Edit, Move, Clear, RestartAiDev, Look, Drop, JobAt

LEMMA WorksCodeOnce ==
    ASSUME LoginInv, NEW o \in Jobs, Works(o)
    PROVE  CodeOnce'
<1>1. JobStep(o) /\ FlowsKept /\ \A k \in Jobs : job[k].flow \in Flows /\ job'[k].flow = job[k].flow
  BY WorksStep DEF JobStep, LoginInv, LoginTypeOK, JobStates
<1>2. \A k \in Jobs \ {o} : Past(k)' <=> Past(k)
  BY <1>1 DEF JobStep, Past
<1>3. CASE ~Past(o)' \/ Past(o)
  BY <1>1, <1>2, <1>3 DEF LoginInv, CodeOnce, FlowsKept
<1>4. CASE Past(o)' /\ ~Past(o)
  <2>1. flow[job[o].flow].device # "used" /\ flow'[job[o].flow].device = "used"
    BY <1>4, WorksPast DEF LoginInv
  <2> QED BY <1>1, <1>2, <2>1 DEF LoginInv, CodeOnce, FlowsKept
<1> QED BY <1>3, <1>4

\* A connect ends with its login gone.
LEMMA WorksGone ==
    ASSUME LoginTypeOK, NEW o \in Jobs, Works(o), job[o].kind = "connect",
           job'[o].pc \in {"ok", "failed", "reverted"}
    PROVE  flow'[job[o].flow].pc = "gone"
<1> USE DEF GoesTo, Turns, Gone, FailsSo
<1>1. CASE Snapshot(o)
  BY <1>1, SnapshotTurns
<1>2. CASE Exchange(o)
  BY <1>2, ExchangeTurns
<1>3. CASE Edit(o)
  BY <1>3, EditTurns
<1>4. CASE Move(o)
  BY <1>4, MoveTurns
<1>5. CASE Clear(o)
  BY <1>5, ClearTurns
<1>6. CASE RestartAiDev(o)
  BY <1>6, RestartTurns
<1>7. CASE Look(o)
  BY <1>7, LookTurns
<1>8. CASE Drop(o)
  BY <1>8, DropTurns
<1> QED BY <1>1, <1>2, <1>3, <1>4, <1>5, <1>6, <1>7, <1>8 DEF Works

LEMMA WorksFlowsGone ==
    ASSUME LoginInv, NEW o \in Jobs, Works(o)
    PROVE  FlowsGone'
<1>1. JobStep(o) /\ FlowsKept /\ \A k \in Jobs : job[k].flow \in Flows
  BY WorksStep DEF LoginInv, LoginTypeOK, JobStates
<1>2. ASSUME NEW k \in Jobs, k # o, job'[k].kind = "connect", job'[k].pc \in {"ok", "failed", "reverted"}
      PROVE  flow'[job'[k].flow].pc = "gone"
  BY <1>1, <1>2 DEF JobStep, LoginInv, FlowsGone, FlowsKept
<1>3. ASSUME job'[o].kind = "connect", job'[o].pc \in {"ok", "failed", "reverted"}
      PROVE  flow'[job'[o].flow].pc = "gone"
  BY <1>1, <1>3, WorksGone DEF JobStep, LoginInv
<1> QED BY <1>2, <1>3 DEF FlowsGone

LEMMA WorksWays ==
    ASSUME LoginInv, NEW o \in Jobs, Works(o)
    PROVE  Ways'
<1> USE DEF GoesTo, Turns, FailsSo, Way
<1>1. /\ \A k \in Jobs \ {o} : job'[k] = job[k]
      /\ job'[o].kind = job[o].kind /\ job[o].undo \in BOOLEAN /\ job[o].failed \in BOOLEAN
  BY WorksStep DEF JobStep, LoginInv, LoginTypeOK, JobStates
<1>2. Way(o)
  BY DEF LoginInv, Ways
<1>3. Way(o)'
  <2>1. CASE Snapshot(o)
    BY <1>1, <1>2, <2>1, SnapshotTurns DEF LoginInv
  <2>2. CASE Exchange(o)
    BY <1>1, <1>2, <2>2, ExchangeTurns DEF LoginInv
  <2>3. CASE Edit(o)
    BY <1>1, <1>2, <2>3, EditTurns DEF LoginInv
  <2>4. CASE Move(o)
    BY <1>1, <1>2, <2>4, MoveTurns DEF LoginInv
  <2>5. CASE Clear(o)
    BY <1>1, <1>2, <2>5, ClearTurns DEF LoginInv
  <2>6. CASE RestartAiDev(o)
    BY <1>1, <1>2, <2>6, RestartTurns DEF LoginInv
  <2>7. CASE Look(o)
    BY <1>1, <1>2, <2>7, LookTurns DEF LoginInv
  <2>8. CASE Drop(o)
    BY <1>1, <1>2, <2>8, DropTurns DEF LoginInv
  <2> QED BY <2>1, <2>2, <2>3, <2>4, <2>5, <2>6, <2>7, <2>8 DEF Works
<1>4. ASSUME NEW k \in Jobs, k # o PROVE Way(k)'
  BY <1>1, <1>4 DEF LoginInv, Ways
<1> QED BY <1>3, <1>4 DEF Ways

LEMMA WorksCompany ==
    ASSUME LoginInv, NEW o \in Jobs, Works(o)
    PROVE  Company'
BY WorksStep DEF LoginInv, Company, JobStep, Twin

LEMMA WorksOther ==
    ASSUME LoginInv, NEW o \in Jobs, Works(o)
    PROVE  OtherCopied'
<1> USE DEF GoesTo, Turns, FailsSo
<1>1. \A k \in Jobs \ {o} : job'[k] = job[k]
  BY WorksStep DEF JobStep, LoginInv
<1>2. job'[o].kind = job[o].kind
  BY WorksStep DEF JobStep, LoginInv
<1>3. CASE Edit(o)
  <2>1. CASE job'[o].pc = "move" /\ job[o].kind = "other"
    BY <1>2, <2>1 DEF OtherCopied
  <2>2. CASE job'[o].pc = "move" /\ job[o].kind # "other"
    <3>1. tmp'.other = authJson.other /\ authJson' = authJson
      BY <1>3, <2>2, EditTurns DEF LoginInv, LoginTypeOK, Entries
    <3> QED BY <3>1 DEF OtherCopied
  <2>3. CASE job'[o].pc # "move"
    <3>1. UNCHANGED <<authJson, tmp>> /\ job[o].pc = "edit"
      BY <1>3, <2>3, EditTurns DEF LoginInv
    <3> QED BY <1>1, <2>3, <3>1 DEF LoginInv, OtherCopied
  <2> QED BY <2>1, <2>2, <2>3
<1>4. CASE Move(o)
  <2>1. tmp' = Unset
    BY <1>4, MoveTurns DEF LoginInv
  <2> QED BY <2>1 DEF OtherCopied
<1>5. CASE Snapshot(o) \/ Exchange(o) \/ Clear(o) \/ RestartAiDev(o) \/ Look(o) \/ Drop(o)
  <2>1. /\ UNCHANGED <<authJson, tmp>> /\ job[o].pc # "move" /\ job'[o].pc # "move"
    BY <1>5, SnapshotTurns, ExchangeTurns, ClearTurns, RestartTurns, LookTurns, DropTurns
    DEF LoginInv
  <2> QED BY <1>1, <2>1 DEF LoginInv, OtherCopied
<1> QED BY <1>3, <1>4, <1>5 DEF Works
\* The job itself keeps what holds along its way.
LEMMA WorksOwn ==
    ASSUME LoginInv, NEW o \in Jobs, Works(o), job[o].solo, job[o].kind # "other"
    PROVE  Whole(o)'
<1> USE DEF LoginInv
<1>1. Whole(o) /\ Way(o)
  BY DEF AllWhole, Ways
<1>2. /\ job'[o].kind = job[o].kind /\ job'[o].flow = job[o].flow
      /\ job'[o].before = job[o].before /\ job[o].flow \in Flows /\ job[o].before \in Entries
      /\ job[o].kind \in {"connect", "disconnect"}
      /\ job[o].undo \in BOOLEAN /\ job[o].failed \in BOOLEAN
  BY WorksStep DEF JobStep, LoginTypeOK, JobStates, Company
<1>3. CodeOnce /\ FlowsKept
  BY WorksStep
<1> USE DEF GoesTo, Turns
<1>4. CASE Snapshot(o)
  <2>1. job[o].pc = "snapshot" /\ job'[o].pc = "exchange" /\ flow' = flow
    BY <1>4, SnapshotTurns
  <2>2. Recalls(o)' => job'[o].prev \in {job[o].before.openai, Unset}
    BY <1>1, <1>2, <1>4, <2>1, SnapshotTurns DEF Recalls, Past, Whole
  <2> QED BY <1>1, <1>2, <1>4, <2>1, <2>2, SnapshotTurns DEF Whole, Installed, Restarted
<1>5. CASE Exchange(o)
  <2>1. job[o].pc = "exchange" /\ UNCHANGED <<authJson, tmp, inUse, cache>>
    BY <1>5, ExchangeTurns
  <2>2. CASE GoesTo(o, "edit") /\ flow[job[o].flow].device = "approved"
    <3>1. Recalls(o)
      BY <1>1, <2>1, <2>2 DEF Way, Recalls
    <3> QED BY <1>1, <1>2, <2>1, <2>2, <3>1 DEF Whole, Installed, Restarted
  <2>3. CASE GoesTo(o, "failed")
    BY <1>1, <1>2, <2>1, <2>3 DEF Whole, Recalls, Past, Installed, Restarted
  <2> QED BY <1>5, <2>2, <2>3, ExchangeTurns
<1>6. ASSUME job[o].pc \in {"edit", "move", "clear", "restart", "look", "drop"}
      PROVE  job[o].kind = "connect" => job[o].prev \in {job[o].before.openai, Unset}
  BY <1>1, <1>6 DEF Whole, Recalls, Past
<1>r. Recalls(o)' => job'[o].kind = "connect"
  BY DEF Recalls
\* A connect that has failed on its way back, or turns back.
<1>7. ASSUME FailsSo(o), job[o].pc \in {"edit", "move", "clear", "restart"},
             authJson' = authJson
      PROVE  Whole(o)'
  <2>1. authJson'.other = job'[o].before.other
    BY <1>1, <1>2, <1>7 DEF Whole
  <2>2. CASE Turns(o, "failed", job[o].undo, job[o].failed) /\ job[o].kind # "connect"
    BY <1>2, <2>1, <2>2 DEF Whole, Recalls, Past, Installed, Restarted
  <2>3. CASE Turns(o, "edit", TRUE, job[o].failed) /\ job[o].kind = "connect"
    BY <1>2, <1>6, <1>r, <1>7, <2>1, <2>3 DEF Whole, Installed, Restarted
  <2>4. CASE \E pc \in {"reverted", "restart", "clear"} :
               Turns(o, pc, TRUE, TRUE) /\ job[o].kind = "connect"
    BY <1>2, <1>6, <1>r, <1>7, <2>1, <2>4 DEF Whole, Installed, Restarted
  <2> QED BY <1>7, <2>2, <2>3, <2>4 DEF FailsSo
<1>8. CASE Edit(o)
  <2>1. CASE FailsSo(o)
    BY <1>7, <1>8, <2>1, EditTurns
  <2>2. CASE GoesTo(o, "move") /\ tmp' = [authJson EXCEPT !.openai = Written(o)]
    BY <1>1, <1>2, <1>6, <1>r, <1>8, <2>2, EditTurns DEF Whole, Written, Installed, Restarted
  <2> QED BY <1>2, <1>8, <2>1, <2>2, EditTurns DEF Written
<1>9. CASE Move(o)
  <2>1. tmp = [authJson EXCEPT !.openai = Written(o)] /\ tmp # Unset
    <3>1. job[o].pc = "move"
      BY <1>9, MoveTurns
    <3>2. Written(o) \in Creds
      BY DEF Written, LoginTypeOK, JobStates, Creds
    <3>3. tmp = [authJson EXCEPT !.openai = Written(o)]
      BY <1>1, <3>1 DEF Whole
    <3>4. tmp \in Entries
      BY <3>2, <3>3 DEF LoginTypeOK, Entries
    <3> QED BY <3>3, <3>4, LoginsAssumption
  <2>2. authJson' = tmp /\ GoesTo(o, "clear") /\ job[o].pc = "move"
    BY <1>9, <2>1, MoveTurns
  <2>3. authJson'.other = authJson.other /\ authJson'.openai = Written(o)
    BY <2>1, <2>2 DEF LoginTypeOK, Entries
  <2>4. Written(o)' = Written(o)
    BY <1>2, <2>2 DEF Written
  <2> QED BY <1>1, <1>2, <1>6, <1>r, <2>2, <2>3, <2>4 DEF Whole, Installed, Restarted
<1>10. CASE Clear(o)
  <2>1. CASE FailsSo(o)
    BY <1>7, <1>10, <2>1, ClearTurns
  <2>2. CASE GoesTo(o, "restart")
    BY <1>1, <1>2, <1>6, <1>r, <1>10, <2>2, ClearTurns DEF Whole, Written, Installed, Restarted
  <2> QED BY <1>10, <2>1, <2>2, ClearTurns
<1>11. CASE RestartAiDev(o)
  <2>1. CASE FailsSo(o)
    BY <1>7, <1>11, <2>1, RestartTurns
  <2>2. CASE inUse' = authJson.openai /\ (GoesTo(o, "reverted") \/ GoesTo(o, "look"))
    BY <1>1, <1>2, <1>6, <1>r, <1>11, <2>2, RestartTurns DEF Whole, Written, Installed, Restarted
  <2> QED BY <1>11, <2>1, <2>2, RestartTurns
<1>12. CASE Look(o)
  BY <1>1, <1>2, <1>6, <1>r, <1>12, LookTurns DEF Whole, Written, Installed, Restarted
<1>13. CASE Drop(o)
  BY <1>1, <1>2, <1>6, <1>r, <1>13, DropTurns DEF Whole, Written, Installed, Restarted
<1> QED BY <1>4, <1>5, <1>8, <1>9, <1>10, <1>11, <1>12, <1>13 DEF Works

\* So does another connect of the same login: one of the two is not past the exchange.
LEMMA WorksNextTo ==
    ASSUME LoginInv, NEW o \in Jobs, Works(o), NEW k \in Jobs \ {o},
           job[k].solo, job[k].kind # "other"
    PROVE  Whole(k)'
<1> USE DEF LoginInv
<1>1. Whole(k) /\ job[k].pc # "idle" /\ job'[k] = job[k] /\ job[o].pc # "idle"
  BY WorksStep DEF AllWhole, Company, JobStep
<1>2. Twin(job[k], job[o])
  BY <1>1 DEF Company
<1>3. FlowsKept /\ job[k].flow \in Flows
  BY WorksStep DEF LoginTypeOK, JobStates
<1>4. faults = 0 \/ faults' # 0
  BY DEF Works, Snapshot, Exchange, Edit, Move, Clear, RestartAiDev, Look, Drop, Fault, LoginTypeOK
<1>5. CASE Past(k)
  <2>1. ~Past(o) /\ flow[job[k].flow].device = "used"
    BY <1>2, <1>5 DEF CodeOnce, Twin
  <2>2. job[o].kind = "connect"
    BY <1>2 DEF Twin
  <2>3. Snapshot(o) \/ Exchange(o)
    BY <2>1, <2>2 DEF Works, Past, Edit, Move, Clear, RestartAiDev, Look, Drop, JobAt
  <2>4. UNCHANGED <<authJson, tmp, inUse, cache>>
    BY <2>3, SnapshotTurns, ExchangeTurns
  <2> QED BY <1>1, <1>4, <1>5, <2>4 DEF Whole, Recalls, Past, Written
<1>6. CASE ~Past(k)
  <2>1. job[k].pc \in {"snapshot", "exchange", "failed"} /\ job[k].kind = "connect"
    BY <1>1, <1>2, <1>6 DEF Past, Twin, LoginTypeOK, JobStates
  <2>2. authJson'.other = authJson.other
    <3>1. CASE Move(o) /\ tmp # Unset
      <4>1. \A j \in Jobs : job[j].kind = "other" => job[j].pc = "idle"
        BY <1>1, <2>1 DEF Company, Twin
      <4>2. job[o].pc = "move" /\ authJson' = tmp
        BY <3>1, MoveTurns
      <4> QED BY <3>1, <4>1, <4>2 DEF OtherCopied
    <3>2. CASE ~(Move(o) /\ tmp # Unset)
      BY <3>2, MoveTurns
      DEF Works, Snapshot, Exchange, Edit, Clear, RestartAiDev, Look, Drop
    <3> QED BY <3>1, <3>2
  <2>3. ASSUME flow'[job[k].flow].device # "used"
        PROVE  flow[job[k].flow].device # "used" /\ authJson' = authJson
    <3>1. flow[job[k].flow].device # "used"
      BY <1>3, <2>3 DEF FlowsKept
    <3>2. ~Past(o)
      BY <1>2, <3>1 DEF CodeOnce, Twin
    <3>3. Snapshot(o) \/ Exchange(o)
      BY <1>2, <3>2 DEF Works, Past, Twin, Edit, Move, Clear, RestartAiDev, Look, Drop, JobAt
    <3> QED BY <3>1, <3>3, SnapshotTurns, ExchangeTurns
  <2> QED BY <1>1, <1>6, <2>1, <2>2, <2>3 DEF Whole, Recalls, Past, Installed, Restarted
<1> QED BY <1>5, <1>6

LEMMA WorksSteps ==
    ASSUME LoginInv, NEW o \in Jobs, Works(o)
    PROVE  LoginInv'
<1>1. JobStep(o) /\ LoginTypeOK'
  BY WorksStep, WorkTyped DEF LoginInv
<1>2. AllWhole'
  BY <1>1, WorksOwn, WorksNextTo DEF AllWhole, JobStep
<1> QED
  BY <1>1, <1>2, WorksCodeOnce, WorksFlowsGone, WorksWays, WorksCompany, WorksOther DEF LoginInv

LEMMA LoginInvNext == LoginInv /\ [LoginNext]_loginVars => LoginInv'
<1> SUFFICES ASSUME LoginInv, [LoginNext]_loginVars PROVE LoginInv'
  OBVIOUS
<1>1. CASE UNCHANGED loginVars
  BY <1>1
  DEF loginVars, LoginInv, LoginTypeOK, CodeOnce, FlowsGone, OtherCopied, Ways, Way, Company, Twin,
      AllWhole, Whole, Recalls, Past, Written
<1>2. CASE LoginNext
  BY <1>2, LoginSteps, BeginSteps, WorksSteps, AskSteps, ProbeSteps, ExpirySteps, DeathSteps
  DEF LoginNext, Works
<1> QED BY <1>1, <1>2

\* The login's state keeps its types, whatever the requests, the probes and the failures.
THEOREM LoginTypeCorrect == LoginSpec => []LoginTypeOK
<1>1. LoginInit => LoginTypeOK
  BY InitTyped
<1>2. LoginTypeOK /\ [LoginNext]_loginVars => LoginTypeOK'
  BY NextTyped
<1> QED BY <1>1, <1>2, PTL DEF LoginSpec

\* The invariant of the login, for whatever runs beside it.
THEOREM LoginInvariant == LoginSpec => []LoginInv
<1> QED BY LoginInvInit, LoginInvNext, PTL DEF LoginSpec

\* A connect or disconnect that ran alone, or next to a second press of the same button, is all
\* or nothing in the store, in the running OpenCode and in the health cache.
THEOREM ConnectAllOrNothing == LoginSpec => []SoloConnect
<1>1. LoginInv => SoloConnect
  BY LoginInvSolo
<1> QED BY <1>1, LoginInvariant, PTL
==============================================================================
