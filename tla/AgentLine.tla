------------------------------ MODULE AgentLine ------------------------------
(* The one-way migration from the OMO line to the native one                   *)
(* (POST /api/openchamber/migrate-to-native, src/admin/routes/openchamber.ts): *)
(* the marker on the configuration volume, OMO_ENABLED in .env, a recreation   *)
(* of ai-dev, and the way back when that fails.                                *)
EXTENDS Naturals

CONSTANT Migrators  \* requests to migrate

VARIABLES
  marker,   \* does .native-agents exist?
  omo,      \* OMO_ENABLED in .env: "unset", "0" or "1"
  cenvOmo,  \* and in the container's environment
  line,     \* what the last start has set up: "omo", "native", or native agents beside the plugin
  carried,  \* does routing.json have chains?
  m         \* the requests

lineVars == <<marker, omo, cenvOmo, line, carried, m>>

Free == [pc |-> "idle", had |-> [marker |-> FALSE, omo |-> "unset"], alone |-> TRUE]
Sets == {"unset", "0", "1"}

LineTypeOK ==
  /\ marker \in BOOLEAN /\ omo \in Sets /\ cenvOmo \in Sets
  /\ line \in {"omo", "native", "both"} /\ carried \in BOOLEAN
  /\ m \in [Migrators ->
            [pc : {"idle", "mark", "lock", "unlock_failed", "carry", "recreate", "unmark", "unlock", "stranded",
                   "done", "undone", "left"},
             had : [marker : BOOLEAN, omo : Sets], alone : BOOLEAN]]

LineInit ==
  /\ marker = FALSE /\ omo \in {"unset", "1"} /\ cenvOmo = omo
  /\ line = "omo" /\ carried = FALSE /\ m = [k \in Migrators |-> Free]

IsMigrated == marker /\ omo = "0"

\* GET /api/openchamber/agent-line, when the environment does not pin the line.
Shown == IF IsMigrated \/ (marker /\ line = "native") THEN "native" ELSE "omo"

\* No request, or one that has been answered: done, taken back, or taken back but for
\* the marker.
Over == {"idle", "done", "undone", "left"}

\* A migration that something crosses is not alone; one that is over is forgotten.
Disturbed ==
  [k \in Migrators |->
     IF m[k].pc \in Over THEN Free ELSE [m[k] EXCEPT !.alone = FALSE]]
Moves(k, mine) == m' = [Disturbed EXCEPT ![k] = mine]
To(k, pc) == Moves(k, [m[k] EXCEPT !.pc = pc])

\* What stands is looked at; a migration that is complete is refused with 409.
Migrate(k) ==
  /\ m[k].pc \in Over /\ ~IsMigrated
  /\ Moves(k, [Free EXCEPT !.pc = IF marker THEN "lock" ELSE "mark", !.had = [marker |-> marker, omo |-> omo]])
  /\ UNCHANGED <<marker, omo, cenvOmo, line, carried>>

Mark(k, works) ==
  /\ m[k].pc = "mark" /\ marker' = (works \/ marker)
  /\ IF works THEN To(k, "lock") ELSE Moves(k, Free)
  /\ UNCHANGED <<omo, cenvOmo, line, carried>>

\* A failing write of .env takes the marker away again.
Lock(k, works) ==
  /\ m[k].pc = "lock"
  /\ omo' = IF works THEN "0" ELSE omo
  /\ To(k, IF works THEN "carry" ELSE IF m[k].had.marker THEN "undone" ELSE "unlock_failed")
  /\ UNCHANGED <<marker, cenvOmo, line, carried>>

\* The chains of omo.jsonc, as far as that works.
Carry(k, works) ==
  /\ m[k].pc = "carry" /\ carried' = (works \/ carried) /\ To(k, "recreate")
  /\ UNCHANGED <<marker, omo, cenvOmo, line>>

\* MUTANT: the marker goes only if there was one before.
TakenBackOther(k) == m[k].had.marker
\* A marker that this migration has made is taken back.
TakenBack(k) == ~m[k].had.marker

Unmark(k, works) ==
  /\ m[k].pc \in {"unmark", "unlock_failed"}
  /\ marker' = (marker /\ ~(works /\ TakenBack(k)))
  /\ IF m[k].pc = "unmark" THEN To(k, "unlock") ELSE To(k, "undone")
  /\ UNCHANGED <<omo, cenvOmo, line, carried>>

\* OMO_ENABLED is taken back, also where there is no container to take the marker from.
Unlock(k, works) ==
  /\ m[k].pc \in {"unlock", "stranded"} /\ omo' = IF works THEN m[k].had.omo ELSE omo
  /\ To(k, IF m[k].pc = "unlock" THEN "undone" ELSE "left") /\ UNCHANGED <<marker, cenvOmo, line, carried>>

\* A start: 02-init-config.sh reads the marker, writes opencode.json with or
\* without the plugin, and deploys the native agents for either sign.
LineBoots(env) ==
  /\ cenvOmo' = env
  /\ line' = IF marker THEN "native" ELSE IF env = "0" THEN "both" ELSE "omo"
  /\ UNCHANGED <<marker, omo, carried>>
=============================================================================
