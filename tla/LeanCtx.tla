------------------------------ MODULE LeanCtx ------------------------------
(* lean-ctx's global configuration: Save, Reset and Apply of the admin pages *)
(* (src/admin/lib/leanctx.ts), the snapshot of what was applied              *)
(* (leanctx-applied-snapshot.ts), and the migration, the repair and the seed *)
(* of a start (entrypoint.d/02-init-config.sh).                              *)
EXTENDS Naturals

CONSTANTS
  Levels,   \* compression levels that are submitted; "off" and "lite" among them
  Editors   \* requests of the configuration page

ASSUME LevelsAssumption ==
  {"off", "lite"} \subseteq Levels /\ "none" \notin Levels /\ "blank" \notin Levels

VARIABLES
  saved,     \* config.toml
  daemon,    \* what the daemon runs with
  snapshot,  \* leanctx-applied-snapshot.json, "none" before the first Apply
  migrated,  \* is the marker of the migration there?
  e          \* the requests

leanVars == <<saved, daemon, snapshot, migrated, e>>

\* A configuration as it was read: "blank" is one that says nothing.
Readings == Levels \union {"blank"}
\* What the snapshot file says; one that does not parse counts as none.
Snapshots == Readings \union {"none"}
Forms == {"absent", "empty", "malformed", "config"}
File(form, level) == [form |-> form, level |-> level]
Baseline == "lite"
Quiet == [pc |-> "idle", level |-> Baseline, alone |-> TRUE, heard |-> TRUE]

LeanTypeOK ==
  /\ saved \in [form : Forms, level : Levels] /\ daemon \in Levels
  /\ snapshot \in Snapshots /\ migrated \in BOOLEAN
  /\ e \in [Editors -> [pc : {"idle", "write", "load", "read", "done"}, level : Readings,
                       alone : BOOLEAN, heard : BOOLEAN]]

LeanInit ==
  /\ saved = File("config", Baseline) /\ daemon = Baseline
  /\ snapshot = "none" /\ migrated = FALSE /\ e = [k \in Editors |-> Quiet]

\* readLeanCtxConfig: the file over the baseline; what does not parse adds nothing.
Effective(f) == IF f.form = "config" THEN f.level ELSE Baseline

\* readRawConfigFile: a file whose reading fails counts as absent.
Read(seesFile, seesBaseline) ==
  IF seesFile /\ saved.form = "config" THEN saved.level
  ELSE IF seesBaseline THEN Baseline ELSE "blank"

\* A request that something crosses is not alone; one that is over is forgotten.
Muddled == [k \in Editors |-> IF e[k].pc \in {"idle", "done"} THEN Quiet ELSE [e[k] EXCEPT !.alone = FALSE]]
Turns(k, mine) == e' = [Muddled EXCEPT ![k] = mine]

\* writeLeanCtxConfig: a malformed file that the reading has found is refused with 409.
Save(k, level, reads) ==
  /\ e[k].pc \in {"idle", "done"}
  /\ Turns(k, IF reads /\ saved.form = "malformed" THEN Quiet
              ELSE [Quiet EXCEPT !.pc = "write", !.level = level])
  /\ UNCHANGED <<saved, daemon, snapshot, migrated>>

\* What is written for a configuration: nothing for one that says nothing.
Serialized(level) == IF level = "blank" THEN File("empty", Baseline) ELSE File("config", level)

\* Written in place; "emptied" when the command is cut short after the truncation.
Write(k, emptied) ==
  /\ e[k].pc = "write"
  /\ saved' = IF emptied THEN File("empty", Baseline) ELSE Serialized(e[k].level)
  /\ Turns(k, Quiet) /\ UNCHANGED <<daemon, snapshot, migrated>>

\* resetLeanCtxConfig: the baseline as it is read, whatever the file holds.
Reset(k, reads) ==
  /\ e[k].pc \in {"idle", "done"}
  /\ Turns(k, [Quiet EXCEPT !.pc = "write", !.level = IF reads THEN Baseline ELSE "blank"])
  /\ UNCHANGED <<saved, daemon, snapshot, migrated>>

Apply(k) ==
  /\ e[k].pc \in {"idle", "done"} /\ Turns(k, [Quiet EXCEPT !.pc = "load"])
  /\ UNCHANGED <<saved, daemon, snapshot, migrated>>

\* MUTANT: the result of the command is not looked at.
RecordsAlways(loads) == "read"
\* Where applyLeanCtxConfig goes after `lean-ctx config apply`.
Records(loads) == IF loads THEN "read" ELSE "idle"

\* The command restarts the daemon with the file, or fails as it does on a malformed one.
Load(k, works) ==
  LET loads == works /\ saved.form # "malformed" IN
  /\ e[k].pc = "load"
  /\ daemon' = IF loads THEN Effective(saved) ELSE daemon
  /\ Turns(k, [e[k] EXCEPT !.pc = Records(loads)])
  /\ UNCHANGED <<saved, snapshot, migrated>>

\* Only now is the configuration read that the snapshot says was applied.  Whatever
\* fails of it, Apply has succeeded: a failed write leaves the snapshot as it was, a
\* failed reading gives one of what the other file says.
Record(k, works) ==
  /\ e[k].pc = "read"
  /\ IF works THEN snapshot' = Read(TRUE, TRUE)
     ELSE \/ UNCHANGED snapshot
          \/ \E seen, base \in BOOLEAN : ~(seen /\ base) /\ snapshot' = Read(seen, base)
  /\ Turns(k, [e[k] EXCEPT !.pc = "done", !.heard = works])
  /\ UNCHANGED <<saved, daemon, migrated>>

\* What the dashboard says of the snapshot: in effect, or overtaken by a Save.
ApplyState ==
  IF snapshot = "none" THEN "saved-only" ELSE IF snapshot = Effective(saved) THEN "applied" ELSE "pending"

\* Somebody edits the file by hand.
HandEdit ==
  /\ saved' = File("malformed", Baseline) /\ e' = Muddled
  /\ UNCHANGED <<daemon, snapshot, migrated>>

\* migrate_leanctx_compression_level
ToMigrate == saved = File("config", "off") /\ ~migrated

\* ensure_leanctx_config: a file that is absent or malformed is seeded from the
\* baseline, one that lacks keys gets the baseline's.
Ensured(f) == IF f.form = "config" THEN f ELSE File("config", Baseline)

\* A start: the migration and the repair; then lean-ctx loads the file.  A start that
\* dies between the two renames of the migration leaves the marker out.
LeanBoots(dies) ==
  LET f == Ensured(IF ToMigrate THEN File("config", Baseline) ELSE saved) IN
  /\ dies => ToMigrate
  /\ saved' = f /\ daemon' = f.level
  /\ migrated' = (migrated \/ (ToMigrate /\ ~dies))
  /\ e' = Muddled /\ UNCHANGED snapshot
=============================================================================
