------------------------------- MODULE DbGate -------------------------------
(* The gate in front of the v1 binary (scripts/ai_engkit_db_compat_*.py): a  *)
(* quiescent database is copied and the copy is classified.  Tables and      *)
(* migration ids are abstracted to the classes the classification tells      *)
(* apart; the content of the database is a version, to tell a torn copy.     *)
EXTENDS Naturals, FiniteSets

CONSTANT MaxWrites            \* bound: commits of another writer during one gate

ASSUME WritesAssumption == MaxWrites \in Nat \ {0}

VARIABLES
  facts,    \* the schema of the database
  main,     \* version of the main file
  wal,      \* version of the write-ahead log, 0 when there is none
  writer,   \* does another process hold the database open for writing?
  copy,     \* what the copy holds: versions of the main file and of the log
  stamps,   \* the stamps taken before the copy
  listed,   \* was the log there when the files were listed?
  gpc,      \* where run_gate is
  verdict   \* the Status it returned

gateVars == <<facts, main, wal, writer, copy, stamps, listed, gpc, verdict>>

\* The pinned tables that are required, one the pin does not know, the marker of
\* v2, the two journals.
Tables  == {"required", "foreign", "session_v2", "migration", "drizzle"}
\* Pinned ids, an id of v2, an id nobody knows.
Ids     == {"pinned", "v2", "unknown"}
\* Rows of the legacy journal: none or null names only, recognized, or not.
Legacy  == {"empty", "pinned", "bad"}
\* ids are rows of `migration`; rows of the legacy journal count without it.
Facts   == {f \in [tables: SUBSET Tables, ids: SUBSET Ids, legacy: Legacy, sound: BOOLEAN] :
              /\ f.ids # {} => "migration" \in f.tables
              /\ f.legacy # "empty" => "drizzle" \in f.tables /\ "migration" \notin f.tables
              /\ ~f.sound => f.tables = {}}

Allowed  == {"allow_absent", "allow_fresh", "allow_v1"}
Statuses == Allowed \union {"none", "refuse_baseline", "refuse_orphan_sidecars",
              "refuse_locked", "refuse_unstable", "refuse_space", "refuse_temp",
              "refuse_corrupt", "refuse_v2", "refuse_unknown"}

GateTypeOK ==
  /\ facts \in Facts /\ main \in 0..MaxWrites /\ wal \in 0..MaxWrites
  /\ writer \in BOOLEAN /\ copy \in (0..MaxWrites) \X (0..MaxWrites)
  /\ stamps \in (0..MaxWrites) \X (0..MaxWrites) /\ listed \in BOOLEAN
  /\ gpc \in {"idle", "open", "list", "writers", "stamp", "copyMain", "copyWal", "restamp", "over"}
  /\ verdict \in Statuses

NoFacts == [tables |-> {}, ids |-> {}, legacy |-> "empty", sound |-> TRUE]

V1Facts == [NoFacts EXCEPT !.tables = {"required", "migration"}, !.ids = {"pinned"}]

GateInit ==
  /\ facts = V1Facts /\ main = 0 /\ wal = 0 /\ writer = FALSE
  /\ copy = <<0, 0>> /\ stamps = <<0, 0>> /\ listed = FALSE
  /\ gpc = "idle" /\ verdict = "none"

\* resolve_drizzle: null names are skipped, one unrecognized row refuses.
LegacyIds(f) == IF f.legacy = "pinned" THEN {"pinned"} ELSE {}

\* MUTANT: a database with no journal of either kind passes.
NoJournalNeeded(tables) == TRUE
\* One of the two migration journals is there.
HasJournal(tables) == tables \intersect {"migration", "drizzle"} # {}

\* classify_schema, in the order of its returns.
ClassifySchema(tables, ids) ==
  LET audited == tables \ {"drizzle"} IN
  IF "session_v2" \in tables \/ "v2" \in ids THEN "refuse_v2"
  ELSE IF "unknown" \in ids THEN "refuse_unknown"
  ELSE IF tables = {} THEN "allow_fresh"
  ELSE IF \/ ids = {} /\ {"migration", "drizzle"} \intersect tables # {}
          \/ "foreign" \in audited
          \/ "required" \notin audited
          \/ ~HasJournal(tables)
       THEN "refuse_unknown" ELSE "allow_v1"

\* inspect_copy: quick_check, then the legacy journal where it is the only one.
InspectCopy(f) ==
  CASE ~f.sound -> "refuse_corrupt"
    [] f.sound /\ "drizzle" \in f.tables /\ "migration" \notin f.tables ->
         IF f.legacy = "bad" THEN "refuse_unknown"
         ELSE ClassifySchema(f.tables, LegacyIds(f))
    [] OTHER -> ClassifySchema(f.tables, IF "migration" \in f.tables THEN f.ids ELSE {})

Return(status) == gpc' = "over" /\ verdict' = status

\* load_baseline: a manifest that is missing or malformed refuses.  What ran before
\* may have left a log.
LoadBaseline ==
  /\ gpc = "idle"
  /\ \/ gpc' = "open" /\ wal' \in {0, 1} /\ UNCHANGED verdict
     \/ Return("refuse_baseline") /\ UNCHANGED wal
  /\ UNCHANGED <<facts, main, writer, copy, stamps, listed>>

\* No database, sidecars without one, a rollback journal with content.
GateBegins ==
  /\ gpc = "open"
  /\ \/ gpc' = "list" /\ UNCHANGED verdict
     \/ facts = NoFacts /\ wal = 0 /\ Return("allow_absent")
     \/ Return("refuse_orphan_sidecars")
     \/ Return("refuse_locked")
  /\ UNCHANGED <<facts, main, wal, writer, copy, stamps, listed>>

ListFiles ==
  /\ gpc = "list"
  /\ listed' = (wal > 0)
  /\ gpc' = "writers"
  /\ UNCHANGED <<facts, main, wal, writer, copy, stamps, verdict>>

\* A process with a listed file open for writing refuses, if /proc shows it: one of
\* another container it does not.  So do the temporary directory and the space it needs.
FindWriters ==
  /\ gpc = "writers"
  /\ \/ writer /\ Return("refuse_locked")
     \/ gpc' = "stamp" /\ UNCHANGED verdict
     \/ \E s \in {"refuse_temp", "refuse_space"} : Return(s)
  /\ UNCHANGED <<facts, main, wal, writer, copy, stamps, listed>>

Stamped == <<main, IF listed THEN wal ELSE 0>>

StampBefore ==
  /\ gpc = "stamp"
  /\ stamps' = Stamped /\ gpc' = "copyMain"
  /\ UNCHANGED <<facts, main, wal, writer, copy, listed, verdict>>

CopyMain ==
  /\ gpc = "copyMain"
  /\ copy' = <<main, 0>>
  /\ gpc' = IF listed THEN "copyWal" ELSE "restamp"
  /\ UNCHANGED <<facts, main, wal, writer, stamps, listed, verdict>>

\* A log that is gone by now cannot be copied.
CopyWal ==
  /\ gpc = "copyWal"
  /\ \/ wal > 0 /\ copy' = <<copy[1], wal>> /\ gpc' = "restamp" /\ UNCHANGED verdict
     \/ wal = 0 /\ Return("refuse_temp") /\ UNCHANGED copy
  /\ UNCHANGED <<facts, main, wal, writer, stamps, listed>>

StampAfter ==
  /\ gpc = "restamp"
  /\ Return(IF Stamped = stamps THEN InspectCopy(facts) ELSE "refuse_unstable")
  /\ UNCHANGED <<facts, main, wal, writer, copy, stamps, listed>>

Gate == LoadBaseline \/ GateBegins \/ ListFiles \/ FindWriters \/ StampBefore \/ CopyMain \/ CopyWal
          \/ StampAfter

\* Another container on the same volume while the gate runs: a commit opens the
\* database and goes to the log, the last close moves the log into the main file.
OtherWriter ==
  /\ gpc \notin {"idle", "over"}
  /\ \/ main + wal < MaxWrites /\ wal' = wal + 1 /\ writer' = TRUE /\ UNCHANGED main
     \/ wal > 0 /\ main' = main + wal /\ wal' = 0 /\ writer' = FALSE
  /\ UNCHANGED <<facts, copy, stamps, listed, gpc, verdict>>

\* The process is over, and its private copy with it.
GateLeaves ==
  /\ main' = 0 /\ wal' = 0 /\ writer' = FALSE
  /\ copy' = <<0, 0>> /\ stamps' = <<0, 0>> /\ listed' = FALSE
  /\ gpc' = "idle" /\ verdict' = "none" /\ UNCHANGED facts
=============================================================================
