---------------------------- MODULE ProviderKeys ----------------------------
(***************************************************************************)
(* The keys of one key-managed provider: the registry file                  *)
(* (src/admin/lib/provider-keys.ts), the entry in ai-dev's auth store        *)
(* (lib/opencode-auth.ts) and the credential the running OpenCode loaded     *)
(* when ai-dev last started.  They are changed by the admin routes           *)
(* (routes/providers.ts), by the center's commands (agent/commands.ts) and   *)
(* by the provider listings, which import what they find                    *)
(* (lib/provider-meta.ts).                                                  *)
(*                                                                         *)
(* Registry reads and writes are synchronous; each command in ai-dev and    *)
(* each restart of it is awaited and may fail, with or without effect.      *)
(* Nothing serialises the operations.  A key's id is the time it was added   *)
(* at, in milliseconds: two keys added in one millisecond, or on a clock     *)
(* that was set back, share an id, and an id then names the first of them.   *)
(***************************************************************************)
EXTENDS Integers

CONSTANTS
    Routes,       \* requests of the admin UI
    Commands,     \* commands of the center
    Listings,     \* listings: a page, the dashboard, a providers.list query
    Values,       \* credentials an operator may enter
    Readings,     \* what the clock may say as a key is added
    MaxKeys,      \* bound: keys ever added
    MaxOps,       \* bound: operations started
    MaxCrashes    \* bound: restarts of the admin process

None == 0

ASSUME ProviderKeysAssumption ==
    /\ None \notin Values /\ None \notin Readings
    /\ MaxKeys \in Nat /\ MaxOps \in Nat /\ MaxCrashes \in Nat
    /\ Routes \cap Commands = {} /\ Listings \cap (Routes \cup Commands) = {}

Operators == Routes \cup Commands
Procs == Operators \cup Listings
Credentials == Values \cup {None}
Ids == Readings
\* A key: its place in the list, to whose end keys are added, its id and its value.
Keys == [at : 1..MaxKeys, id : Ids, value : Values]

VARIABLES
    keys,       \* the registry's keys
    active,     \* activeKeyId, None when null
    auth,       \* the key in the auth store, None when absent
    loaded,     \* the key OpenCode runs with
    op,         \* each process's operation
    made,       \* keys ever added
    started,    \* operations started
    crashes,
    settled,    \* history: nothing so far explains a disagreement of registry and auth store
    removed     \* history: values of keys deleted and not entered or imported since

vars == <<keys, active, auth, loaded, op, made, started, crashes, settled, removed>>

Idle == [pc |-> "idle", kind |-> "none", key |-> None, value |-> None, prev |-> None,
         prevAuth |-> None, whole |-> TRUE, alone |-> TRUE, result |-> "none",
         before |-> [keys |-> {}, active |-> None, auth |-> None]]

Init ==
    /\ keys = {} /\ active = None
    /\ auth \in Credentials /\ loaded = auth
    /\ op = [p \in Procs |-> Idle]
    /\ made = 0 /\ started = 0 /\ crashes = 0
    /\ settled = TRUE /\ removed = {}

InFlight == {p \in Procs : op[p].pc # "idle"}
Registered == {k.id : k \in keys}
Earliest(S) == CHOOSE k \in S : \A l \in S : k.at <= l.at
Latest(S) == CHOOSE k \in S : \A l \in S : l.at <= k.at
\* The key an id names in a list: the first that has it.
KeyIn(ks, id) == Earliest({k \in ks : k.id = id})
ValueIn(ks, id) == KeyIn(ks, id).value
ValueOf(id) == ValueIn(keys, id)
ActiveValue == IF active = None THEN None ELSE ValueOf(active)

-----------------------------------------------------------------------------
(* The registry's mutations, each a synchronous read, change and write. *)

\* MUTANT: a value that is already stored is stored again.
Duplicate(value) == {}
\* addProviderKey finds a stored key with the same value.
Known(value) == {k \in keys : k.value = value}

\* addProviderKey at clock reading id; the first key becomes the active one.
AddedKey(value, id) == IF Known(value) = {} THEN id ELSE (CHOOSE k \in Known(value) : TRUE).id
Add(value, id) ==
    \/ /\ Known(value) # {}
       /\ UNCHANGED <<keys, active, made>>
    \/ /\ Known(value) = {} /\ made < MaxKeys
       /\ made' = made + 1
       /\ keys' = keys \cup {[at |-> made + 1, id |-> id, value |-> value]}
       /\ active' = IF active = None THEN id ELSE active

\* MUTANT: no other key is promoted.
NotPromoted(k) == None
\* What becomes active when the active key goes: the key after it, the last one when there
\* is none after it, or none.
Promoted(k) ==
    LET others == keys \ {k}
        later  == {l \in others : l.at > k.at}
    IN  IF others = {} THEN None
        ELSE IF later # {} THEN Earliest(later).id ELSE Latest(others).id
\* deleteProviderKey, a no-op for an unknown id.
Delete(id) ==
    IF id \in Registered
    THEN /\ keys' = keys \ {KeyIn(keys, id)}
         /\ active' = IF active = id THEN Promoted(KeyIn(keys, id)) ELSE active
    ELSE UNCHANGED <<keys, active>>

\* setActiveProviderKey refuses an unknown id.
CanSelect(id) == id \in Registered \/ (id = None /\ keys # {})
Select(id) == active' = (IF CanSelect(id) THEN id ELSE active) /\ UNCHANGED keys

-----------------------------------------------------------------------------
(* Operations begin. *)

\* Another operation in flight, and the one that starts now, are no longer alone.
Start(p, new) ==
    /\ op[p].pc = "idle" /\ started < MaxOps
    /\ started' = started + 1
    /\ settled' = (settled /\ InFlight = {})
    /\ op' = [q \in Procs |->
                IF q = p
                THEN [new EXCEPT !.alone = InFlight = {},
                         !.before = [keys |-> keys, active |-> active, auth |-> auth]]
                ELSE IF q \in InFlight THEN [op[q] EXCEPT !.alone = FALSE] ELSE Idle]
    /\ UNCHANGED <<auth, loaded, crashes>>

\* POST .../keys and providers.key.add: a first key waits for the auth store's snapshot, a
\* further one is only stored.
StartAdd(p, value) ==
    \/ /\ keys = {}
       /\ Start(p, [Idle EXCEPT !.pc = "read", !.kind = "add", !.value = value])
       /\ UNCHANGED <<keys, active, made, removed>>
    \/ /\ keys # {}
       /\ \E now \in Readings : Add(value, now)
       /\ removed' = removed \ {value}
       /\ Start(p, [Idle EXCEPT !.kind = "add", !.result = "ok"])

\* PUT .../active and providers.key.set-active, for another key than the active one.
StartActivate(p, id) ==
    /\ id \in Registered \ {active}
    /\ Start(p, [Idle EXCEPT !.pc = "read", !.kind = "activate", !.key = id,
                             !.value = ValueOf(id), !.prev = active])
    /\ UNCHANGED <<keys, active, made, removed>>

\* MUTANT: the last key's credential stays in the auth store.
ReplacementKept(ks, id) == IF id = None THEN auth ELSE ValueIn(ks, id)
\* The credential to apply when the active key is deleted, as the registry then names it;
\* none removes the entry.
Replacement(ks, id) == IF id = None THEN None ELSE ValueIn(ks, id)

\* DELETE .../keys/:id and providers.key.delete: the auth store follows when the key was
\* active.
StartDelete(p, id) ==
    /\ id \in Registered
    /\ Delete(id)
    /\ removed' = removed \cup {ValueOf(id)}
    /\ IF active = id
       THEN Start(p, [Idle EXCEPT !.pc = "apply", !.kind = "delete", !.key = id,
                                  !.value = Replacement(keys', active')])
       ELSE Start(p, [Idle EXCEPT !.result = "ok"])
    /\ UNCHANGED made

\* DELETE /api/providers/:name drops the registry's entry and nothing else.
DropProvider(p) ==
    /\ keys # {}
    /\ keys' = {} /\ active' = None
    /\ Start(p, [Idle EXCEPT !.result = "ok"])
    /\ UNCHANGED <<made, removed>>

\* POST .../import, and a listing: both import the auth store's key into an empty registry.
StartImport(p) ==
    /\ keys = {}
    /\ Start(p, [Idle EXCEPT !.pc = "read",
                             !.kind = IF p \in Listings THEN "list" ELSE "import"])
    /\ UNCHANGED <<keys, active, made, removed>>

-----------------------------------------------------------------------------
(* Their steps. *)
At(p, pc) == op[p].pc = pc
Go(p, pc) == op' = [op EXCEPT ![p].pc = pc]
End(p, result) == op' = [op EXCEPT ![p].pc = "idle", ![p].result = result]
bounds == <<started, crashes>>

\* The auth store is read; a read that fails, or that finds an OAuth connection where a
\* first key was to go, ends the operation.
ReadAuthStore(p) ==
    /\ At(p, "read")
    /\ \/ op' = [op EXCEPT ![p].pc = "answer", ![p].prevAuth = auth]
       \/ End(p, "refused")
    /\ UNCHANGED <<keys, active, auth, loaded, made, removed, bounds, settled>>

\* A key already in the auth store refuses a first key, none leaves nothing to import, and
\* the key to select may be gone.
Refused(p) ==
    \/ op[p].kind = "add" /\ op[p].prevAuth # None
    \/ op[p].kind \in {"import", "list"} /\ op[p].prevAuth = None
    \/ op[p].kind = "activate" /\ ~CanSelect(op[p].key)

\* The operation resumes with what was read, and looks at the registry only now.
Answer(p) ==
    /\ At(p, "answer")
    /\ UNCHANGED <<auth, loaded, bounds, settled>>
    /\ \/ /\ Refused(p)
          /\ End(p, "refused")
          /\ UNCHANGED <<keys, active, made, removed>>
       \/ /\ op[p].kind = "add" /\ ~Refused(p)
          /\ \E now \in Readings :
                /\ Add(op[p].value, now)
                /\ op' = [op EXCEPT ![p].pc = "apply", ![p].key = AddedKey(op[p].value, now)]
          /\ removed' = removed \ {op[p].value}
       \/ /\ op[p].kind \in {"import", "list"} /\ ~Refused(p)
          /\ \E now \in Readings : Add(op[p].prevAuth, now)
          /\ removed' = IF op[p].kind = "list" THEN removed ELSE removed \ {op[p].prevAuth}
          /\ End(p, "ok")
       \/ /\ op[p].kind = "activate" /\ ~Refused(p)
          /\ Select(op[p].key)
          /\ Go(p, "apply")
          /\ UNCHANGED <<made, removed>>

\* A failed add or selection is undone: the routes change the registry first, and so does
\* an added key's removal.  A failed deletion is only reported.
Undo(p) ==
    /\ UNCHANGED <<made, removed>>
    /\ \/ /\ op[p].kind = "delete"
          /\ End(p, "failed")
          /\ settled' = FALSE
          /\ UNCHANGED <<keys, active>>
       \/ /\ op[p].kind = "add"
          /\ Delete(op[p].key)
          /\ op' = [op EXCEPT ![p].pc = "undo", ![p].whole = op[p].key \in Registered]
          /\ UNCHANGED settled
       \/ /\ op[p].kind = "activate" /\ p \in Routes
          /\ Select(op[p].prev)
          /\ op' = [op EXCEPT ![p].pc = "undo", ![p].whole = CanSelect(op[p].prev)]
          /\ UNCHANGED settled
       \/ /\ op[p].kind = "activate" /\ p \in Commands
          /\ Go(p, "undo")
          /\ UNCHANGED <<keys, active, settled>>

\* applyActiveKey, or removeAuthKey when no key is left.
Apply(p) ==
    /\ At(p, "apply")
    /\ \/ /\ auth' = op[p].value
          /\ Go(p, "restart")
          /\ UNCHANGED <<keys, active, made, removed, settled>>
       \/ /\ auth' \in {auth, op[p].value}
          /\ Undo(p)
    /\ UNCHANGED <<loaded, bounds>>

\* ai-dev is recreated; OpenCode loads the auth store as it starts.
Restart(p) ==
    /\ At(p, "restart")
    /\ \/ /\ loaded' = auth
          /\ End(p, "ok")
          /\ settled' = (settled \/ op[p].alone)
          /\ UNCHANGED <<keys, active, made, removed>>
       \/ /\ loaded' \in {loaded, auth}
          /\ Undo(p)
    /\ UNCHANGED <<auth, bounds>>

\* MUTANT: a failed first key or selection always ends with no credential.
PreviousNone(p) == None
\* What the auth store held before.
Previous(p) == op[p].prevAuth

\* MUTANT: a command's selection is never restored.
Never(p) == FALSE
\* Whether the selection is restored only after the credential.
Late(p) == op[p].kind = "activate" /\ p \in Commands

\* The old credential is written back, or the entry removed; a command restores the
\* selection only now.
UndoAuth(p) ==
    /\ At(p, "undo")
    /\ \E done \in BOOLEAN :
          /\ auth' \in (IF done THEN {Previous(p)} ELSE {auth, Previous(p)})
          /\ op' = [op EXCEPT ![p].pc = "undo restart",
                        ![p].whole = @ /\ done /\ (Late(p) => CanSelect(op[p].prev))]
          /\ IF Late(p) THEN Select(op[p].prev) ELSE UNCHANGED <<keys, active>>
    /\ UNCHANGED <<loaded, made, removed, bounds, settled>>

UndoRestart(p) ==
    /\ At(p, "undo restart")
    /\ \/ /\ loaded' = auth
          /\ End(p, IF op[p].whole THEN "undone" ELSE "partial")
          /\ settled' = (settled /\ op[p].whole)
       \/ /\ loaded' \in {loaded, auth}
          /\ End(p, "partial")
          /\ settled' = FALSE
    /\ UNCHANGED <<keys, active, auth, made, removed, bounds>>

\* The admin process restarts: what was in flight stops where it is.
Crash ==
    /\ crashes < MaxCrashes
    /\ crashes' = crashes + 1
    /\ op' = [p \in Procs |-> Idle]
    /\ settled' = (settled /\ InFlight = {})
    /\ UNCHANGED <<keys, active, auth, loaded, made, started, removed>>

Step(p) ==
    \/ ReadAuthStore(p) \/ Answer(p) \/ Apply(p) \/ Restart(p) \/ UndoAuth(p) \/ UndoRestart(p)

Next ==
    \/ \E p \in Operators, v \in Values : StartAdd(p, v)
    \/ \E p \in Operators, id \in Ids : StartActivate(p, id) \/ StartDelete(p, id)
    \/ \E p \in Routes : DropProvider(p)
    \/ \E p \in Routes \cup Listings : StartImport(p)
    \/ \E p \in Procs : Step(p)
    \/ Crash

Spec == Init /\ [][Next]_vars

-----------------------------------------------------------------------------
PCs == {"idle", "read", "answer", "apply", "restart", "undo", "undo restart"}
Kinds == {"none", "add", "activate", "delete", "import", "list"}
Results == {"none", "ok", "refused", "failed", "undone", "partial"}
Ops == [pc : PCs, kind : Kinds, key : Ids \cup {None}, value : Credentials,
        prev : Ids \cup {None}, prevAuth : Credentials, whole : BOOLEAN,
        alone : BOOLEAN, result : Results,
        before : [keys : SUBSET Keys, active : Ids \cup {None}, auth : Credentials]]

\* Type correctness of the registry, the auth store and the operations in flight.
TypeOK ==
    /\ keys \in SUBSET Keys /\ active \in Ids \cup {None}
    /\ auth \in Credentials /\ loaded \in Credentials
    /\ op \in [Procs -> Ops]
    /\ made \in 0..MaxKeys /\ started \in 0..MaxOps /\ crashes \in 0..MaxCrashes
    /\ settled \in BOOLEAN /\ removed \subseteq Values

\* Whatever operations interleave, fail and roll back, and whatever the clock says, the
\* registry on disk is sound: no value is stored twice, and activeKeyId names one of the
\* keys, or none when there is none.
RegistrySound ==
    /\ \A k, l \in keys : k.value = l.value => k = l
    /\ IF keys = {} THEN active = None ELSE active \in Registered

Quiet == InFlight = {}

\* Unless operations overlapped, or one failed and said so, the auth store and the running
\* OpenCode hold the active key once everything has ended.
ActiveKeyApplied ==
    Quiet /\ settled /\ keys # {} => auth = ActiveValue /\ loaded = auth

\* A lone operation that fails and reports no incomplete rollback has changed nothing: not
\* the registry, not the auth store, not what OpenCode runs with.
FailureUndone ==
    \A p \in Procs :
        Quiet /\ op[p].alone /\ op[p].result \in {"undone", "refused"}
        => /\ keys = op[p].before.keys /\ active = op[p].before.active
           /\ auth = op[p].before.auth
           /\ op[p].result = "undone" => loaded = auth

\* A lone deletion of the active key that succeeds leaves its value nowhere in use.
DeletedKeyUnused ==
    \A p \in Procs :
        Quiet /\ op[p].alone /\ op[p].kind = "delete" /\ op[p].result = "ok"
        => \A k \in op[p].before.keys \ keys : k.value \notin {auth, loaded}

-----------------------------------------------------------------------------
(* Statements of the repository that the code does not keep. *)

\* "Deleting the last key: the provider has no active key and no keys in the registry", and
\* "query handlers SHALL NOT mutate state": a deleted key comes back only when an operator
\* enters or imports it.
KeysStayDeleted == \A k \in keys : k.value \notin removed

\* "WHEN an operator makes key B active while key A is active": B can be named.  Two keys
\* added in one millisecond, as two commands are that waited for an upgrade, have one id:
\* whoever selects, edits or deletes the second gets the first.
EachKeyNamed == \A k, l \in keys : k.id = l.id => k = l
=============================================================================
