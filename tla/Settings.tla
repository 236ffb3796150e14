------------------------------ MODULE Settings ------------------------------
(* The settings that the admin writes and a start of ai-dev reads: language    *)
(* servers, lean-ctx, the agent line and the Compose overlay, composed over the *)
(* container, which is restarted with the environment it was created with or    *)
(* recreated with that of .env (src/admin/lib/restart-ai-dev.ts).               *)
EXTENDS LspServers, LeanCtx, AgentLine, ComposeOverlay

CONSTANTS
  MaxRequests,  \* bound: saves, resets, applies, migrations and edits by hand
  MaxBoots,     \* bound: restarts and recreations nobody of the above asks for
  MaxFaults     \* bound: failing commands, deaths of the admin process

ASSUME BoundsAssumption == MaxRequests \in Nat /\ MaxBoots \in Nat /\ MaxFaults \in Nat

VARIABLES restarts, recreations, requests, faults

vars == <<lspVars, leanVars, lineVars, overlayVars, restarts, recreations, requests, faults>>

TypeOK ==
  /\ LspTypeOK /\ LeanTypeOK /\ LineTypeOK /\ OverlayTypeOK
  /\ restarts \in Nat /\ recreations \in Nat /\ requests \in 0..MaxRequests /\ faults \in 0..MaxFaults

Init ==
  /\ LspInit /\ LeanInit /\ LineInit /\ OverlayInit
  /\ restarts = 0 /\ recreations = 0 /\ requests = 0 /\ faults = 0

Asked == requests < MaxRequests /\ requests' = requests + 1 /\ UNCHANGED <<restarts, recreations>>
Request == Asked /\ UNCHANGED faults
Fault == faults < MaxFaults /\ faults' = faults + 1
Works(works) == IF works THEN UNCHANGED faults ELSE Fault
Continues == UNCHANGED <<restarts, recreations, requests>>
-----------------------------------------------------------------------------
LspRequests ==
  /\ \/ Request /\ \E o \in Submitted : Put(o)
     \/ Request /\ \E k \in Appliers : ApplyStarts(k)
     \/ Continues /\ \E k \in Appliers, works \in BOOLEAN : Works(works) /\ ApplyObserves(k, works)
     \/ /\ Continues /\ UNCHANGED faults
        /\ \E k \in Appliers : ApplyInstalls(k) \/ ApplyWritesBlock(k) \/ ApplyPersists(k) \/ ApplyPushes(k)
     \/ Continues /\ Fault /\ \E k \in Appliers : ApplyFails(k)
  /\ UNCHANGED <<leanVars, lineVars, overlayVars>>

LeanRequests ==
  /\ \/ Asked /\ \E k \in Editors, reads \in BOOLEAN :
          Works(reads) /\ (Reset(k, reads) \/ \E l \in Levels : Save(k, l, reads))
     \/ Request /\ \E k \in Editors : Apply(k)
     \/ Request /\ HandEdit
     \/ /\ Continues
        /\ \E k \in Editors, works \in BOOLEAN :
             Works(works) /\ (Write(k, ~works) \/ Load(k, works) \/ Record(k, works))
  /\ UNCHANGED <<lspVars, lineVars, overlayVars>>

LineRequests ==
  /\ \/ Request /\ \E k \in Migrators : Migrate(k)
     \/ /\ Continues
        /\ \E k \in Migrators, works \in BOOLEAN :
             Works(works) /\ (Mark(k, works) \/ Lock(k, works) \/ Carry(k, works) \/ Unmark(k, works) \/ Unlock(k, works))
  /\ UNCHANGED <<lspVars, leanVars, overlayVars>>

OverlayRequests ==
  /\ \/ Request /\ (\E to \in References : Name(to) \/ \E c \in Contents : Author([usable |-> TRUE, parts |-> c]))
        /\ m' = Disturbed
     \/ Request /\ Author(NotThere) /\ m' = Disturbed
     \/ Continues /\ UNCHANGED faults /\ restarts + recreations < MaxBoots /\ UNCHANGED m
        /\ \E k \in Recreators : Resolve(k)
     \/ /\ Continues /\ UNCHANGED m
        /\ \E k \in Recreators :
             \/ \E works \in BOOLEAN : Works(works) /\ Validate(k, works)
             \/ Works(Missing(r[k].plan)) /\ UpFails(k)
  /\ UNCHANGED <<lspVars, leanVars, marker, omo, cenvOmo, line, carried>>

\* A restart keeps the environment and the packages of the container.
Boots(fresh) ==
  /\ LspBoots(IF fresh THEN dotenv ELSE cenv, fresh)
  /\ LineBoots(IF fresh THEN omo ELSE cenvOmo)

\* A start of which nothing but the migration's first rename gets done comes before
\* the start that docker makes next.
Restart ==
  /\ restarts + recreations < MaxBoots /\ restarts' = restarts + 1
  /\ \E dies \in BOOLEAN : Works(~dies) /\ LeanBoots(dies)
  /\ Boots(FALSE) /\ m' = Disturbed
  /\ UNCHANGED <<recreations, requests, overlayVars>>

\* restartAiDev ends with docker compose up.
Recreate ==
  /\ restarts + recreations < MaxBoots /\ recreations' = recreations + 1
  /\ (\E k \in Recreators : Up(k)) /\ LeanBoots(FALSE) /\ Boots(TRUE) /\ m' = Disturbed
  /\ UNCHANGED <<restarts, requests, faults>>

\* The center's reconfigure writes variables of .env, here the one that a migration
\* owns, and recreates ai-dev afterwards.
Reconfigure ==
  /\ Request /\ omo' \in {"0", "1"} /\ m' = Disturbed
  /\ UNCHANGED <<lspVars, leanVars, overlayVars, marker, cenvOmo, line, carried>>

\* The last step of a migration: compose recreates ai-dev, fails before it has, or
\* after (a start that takes longer than its two minutes), or in between, where the
\* old container is gone and the removal of the marker fails with it.
MigrationRecreates(k, result) ==
  /\ m[k].pc = "recreate" /\ (result = "gone" => ~Refused)
  /\ Works(result = "ok" \/ Refused)
  /\ To(k, CASE result = "ok" -> "done" [] result = "gone" -> "stranded" [] OTHER -> "unmark")
  /\ IF result \in {"fails", "gone"}
     THEN UNCHANGED <<lspVars, leanVars, overlayVars, marker, omo, cenvOmo, line, carried>>
     ELSE UpAtOnce /\ LeanBoots(FALSE) /\ Boots(TRUE)
  /\ Continues

AdminDies ==
  /\ Fault /\ Continues
  /\ a' = [k \in Appliers |-> Rest] /\ e' = [k \in Editors |-> Quiet] /\ m' = [k \in Migrators |-> Free]
  /\ r' = [k \in Recreators |-> Asleep]
  /\ UNCHANGED <<dotenv, cenv, managed, installed, block, saved, daemon, snapshot, migrated,
                 marker, omo, cenvOmo, line, carried, ref, file, runs>>

Next ==
  \/ LspRequests \/ LeanRequests \/ LineRequests \/ OverlayRequests \/ Reconfigure
  \/ Restart \/ Recreate \/ AdminDies
  \/ \E k \in Migrators, result \in {"ok", "fails", "late", "gone"} : MigrationRecreates(k, result)

Spec == Init /\ [][Next]_vars

(* Properties *)

Settled(o) == Drift(o, installed, block) = {}
\* json, css and html share a package: two pins cannot both hold, and a pin does not
\* when a server later in the catalog wants the latest version of the package.
Pinned(o, s) == s \in Wanted(o) /\ o[s].version # Latest
PinsAgree(o) ==
  \A s, t \in Wanted(o) :
    PackageOf[s] = PackageOf[t] /\ Pinned(o, s) =>
      o[t].version = o[s].version \/ (o[t].version = Latest /\ Before(t, s))
Applied(k) == a[k].pc = "done" /\ a[k].alone /\ PinsAgree(a[k].over)

Settles(k) == Settled(a[k].over) /\ managed = dotenv /\ Parsed(dotenv.lsp) = a[k].over

\* An Apply that answers ok and that nothing has crossed leaves nothing to do: no
\* drift against the desired state as it now reads, and the file that starts
\* import says what .env says (apply in lsp-reconciler.ts).
ApplySettles == \A k \in Appliers : Applied(k) /\ a[k].env.lsp # Unset => Settles(k)

\* A recreation brings what was applied, and so does a restart of a container whose
\* environment chooses nothing (01-install-packages.sh, 02-init-config.sh): the
\* packages are installed again and the block is generated from another source.
Converges(k) == Applied(k) => Drift(a[k].over, installed', block') = {}
StartsConverge ==
  [][\A k \in Appliers :
       /\ recreations' # recreations => Converges(k)
       /\ restarts' # restarts /\ cenv.lsp = Unset /\ cenv.bun = Nothing => Converges(k)]_vars

\* After an Apply that answers ok and that nothing has crossed the dashboard calls a
\* snapshot applied only when the daemon runs with it, and does so if the readings and
\* the write behind it have come back (applyLeanCtxConfig, deriveDashboardRuntimeState).
SnapshotTrue ==
  \A k \in Editors : e[k].pc = "done" /\ e[k].alone =>
    /\ ApplyState = "applied" => snapshot = daemon
    /\ e[k].heard => ApplyState = "applied"

\* A migration that nothing crosses ends with the native line set up, locked and
\* shown, or, when one step has failed, with marker and OMO_ENABLED as they were; only
\* a recreation that leaves no container leaves the marker.
MigrationWhole ==
  \A k \in Migrators : m[k].alone =>
    /\ m[k].pc = "done" => IsMigrated /\ line = "native" /\ cenvOmo = "0"
    /\ m[k].pc \in {"undone", "left"} /\ faults <= (IF Refused THEN 0 ELSE 1) =>
         /\ omo = m[k].had.omo
         /\ m[k].pc = "undone" => marker = m[k].had.marker

\* "A configured overlay must never silently fall back": what ai-dev is recreated
\* with is the overlay that .env names, and one that was let through, unless the
\* operator, the domain or another recreation crossed it (restartAiDev,
\* resolveValidatedEffectiveCompose).
OverlayHonoured ==
  \A k \in Recreators : r[k].pc = "done" /\ r[k].alone =>
    /\ (ref = "none" /\ runs = {}) \/ (ref = "domain" /\ runs = file.parts)
    /\ runs \subseteq Allowed

-----------------------------------------------------------------------------
(* Statements of the repository that the code does not keep. *)

\* "The image baseline is authoritative when the override is absent": so it is
\* with the first Apply, which writes "{}", whose built-in servers are on.
FirstApplySettles == \A k \in Appliers : Applied(k) => Settles(k)

\* "so the entrypoint converges on restart": every restart brings what was applied.
RestartsConverge == [][restarts' # restarts => \A k \in Appliers : Converges(k)]_vars

\* "the current supported configuration fingerprint and Runtime Profile fields replace
\* the previous applied snapshot": what a failed reading leaves out replaces it too.
AppliesRecorded == \A k \in Editors : e[k].pc = "done" /\ e[k].alone => snapshot = daemon

\* "rolls back marker and env when ai-dev restart fails": not the marker, when the
\* recreation fails with the old container gone.
MigrationUndone ==
  \A k \in Migrators : m[k].alone /\ m[k].pc \in {"undone", "left"} /\ faults <= (IF Refused THEN 0 ELSE 1) =>
    marker = m[k].had.marker
=============================================================================
