---------------------------- MODULE SettingsProofs ----------------------------
(***************************************************************************)
(* Theorems about Settings.  Each of the four settings has an inductive     *)
(* invariant of its own, which says what an operation that nothing crosses  *)
(* knows at each of its steps; whatever crosses it takes its "alone" away.  *)
(***************************************************************************)
EXTENDS Settings, WellFoundedInduction, TLAPS

(* The overlay: what a recreation has let through is what .env names. *)
OverlayKnown(k) ==
    r[k].alone =>
        /\ r[k].pc = "validate" => ref = "domain" /\ r[k].plan = "domain"
        /\ r[k].pc = "up" => \/ ref = "none" /\ r[k].plan = "none"
                             \/ ref = "domain" /\ r[k].plan = "domain" /\ Acceptable
        /\ r[k].pc = "done" => /\ (ref = "none" /\ runs = {}) \/ (ref = "domain" /\ runs = file.parts)
                               /\ runs \subseteq Allowed
OverlayInv == OverlayTypeOK /\ \A k \in Recreators : OverlayKnown(k)

(* lean-ctx: the daemon runs with the file from the command's success on. *)
LeanKnown(k) ==
    e[k].alone =>
        /\ e[k].pc = "read" => daemon = Effective(saved)
        /\ e[k].pc = "done" => /\ daemon = Effective(saved)
                               /\ e[k].heard => snapshot = Effective(saved)
LeanInv == LeanTypeOK /\ \A k \in Editors : LeanKnown(k)

(* The agent line: how far a migration has come, forwards or back, and what is still *)
(* allowed to have failed. *)
Tolerated == IF Refused THEN 0 ELSE 1
LineKnown(k) ==
    m[k].alone =>
        /\ m[k].pc = "mark" => ~marker /\ ~m[k].had.marker /\ omo = m[k].had.omo
        /\ m[k].pc = "lock" => marker /\ omo = m[k].had.omo
        /\ m[k].pc = "unlock_failed" =>
              marker /\ ~m[k].had.marker /\ omo = m[k].had.omo /\ faults >= 1
        /\ m[k].pc \in {"carry", "recreate"} => marker /\ omo = "0"
        /\ m[k].pc = "unmark" => marker /\ faults >= Tolerated
        /\ m[k].pc = "unlock" =>
              faults >= Tolerated /\ (marker = m[k].had.marker \/ faults > Tolerated)
        /\ m[k].pc = "done" => marker /\ omo = "0" /\ line = "native" /\ cenvOmo = "0"
        /\ m[k].pc = "undone" =>
              (marker = m[k].had.marker /\ omo = m[k].had.omo) \/ faults > Tolerated
        /\ m[k].pc = "stranded" => faults >= Tolerated
        /\ m[k].pc = "left" => omo = m[k].had.omo \/ faults > Tolerated
LineInv == LineTypeOK /\ \A k \in Migrators : LineKnown(k)

(* Language servers: how far an Apply has brought the container and the files. *)
Reached(x, env, imported, inst, blk) ==
    x.alone =>
        /\ x.pc = "observe" => x.over = Parsed(env.lsp)
        /\ x.pc \in {"install", "block", "persist"} => x.env = env /\ x.over = Parsed(env.lsp)
        /\ x.pc = "install" =>
              (PinsAgree(x.over) => Misfits(x.over, Install(inst, x.todo)) = {})
        /\ x.pc \in {"block", "persist", "push", "done"} =>
              (PinsAgree(x.over) => Misfits(x.over, inst) = {})
        /\ x.pc \in {"persist", "push", "done"} => blk = Wanted(x.over)
        /\ x.pc \in {"push", "done"} =>
              /\ env = [lsp |-> x.over, bun |-> Derive(x.env.bun, x.over)]
              /\ x.over = Parsed(x.env.lsp)
        /\ x.pc = "done" => imported = env
LspKnown(k) == Reached(a[k], dotenv, managed, installed, block)
LspInv == LspTypeOK /\ \A k \in Appliers : LspKnown(k)

Counts ==
    /\ restarts \in Nat /\ recreations \in Nat /\ requests \in 0..MaxRequests /\ faults \in 0..MaxFaults

IInv == Counts /\ OverlayInv /\ LeanInv /\ LineInv /\ LspInv
-----------------------------------------------------------------------------
(* The overlay. *)

Requests == [pc : {"idle", "validate", "up", "done"}, plan : References, alone : BOOLEAN]

LEMMA AccompaniedKnows ==
    ASSUME OverlayInv
    PROVE  /\ Accompanied \in [Recreators -> Requests]
           /\ \A k \in Recreators : Accompanied[k].alone => Accompanied[k].pc = "idle"
BY DEF OverlayInv, OverlayTypeOK, Accompanied, Asleep, Requests, References

\* Whatever changes the overlay crosses every request under way.
LEMMA OverlayCrossed ==
    ASSUME OverlayInv, r' = Accompanied,
           ref' \in References, file' \in {NotThere} \union [usable : {TRUE}, parts : Contents],
           runs' \in Contents \union {{}}
    PROVE  OverlayInv'
<1>1. /\ r' \in [Recreators -> Requests]
      /\ \A k \in Recreators : r'[k].alone => r'[k].pc = "idle"
  BY AccompaniedKnows
<1>2. OverlayTypeOK'
  BY <1>1 DEF OverlayTypeOK, Requests
<1>3. \A k \in Recreators : OverlayKnown(k)'
  BY <1>1 DEF OverlayKnown
<1> QED BY <1>2, <1>3 DEF OverlayInv

LEMMA OverlayStays ==
    ASSUME OverlayInv, UNCHANGED overlayVars
    PROVE  OverlayInv'
BY DEF OverlayInv, OverlayTypeOK, OverlayKnown, Acceptable, overlayVars

\* One request moves; what the others know stays.
LEMMA OverlayTurn ==
    ASSUME OverlayInv, NEW k \in Recreators, NEW x \in Requests,
           UNCHANGED <<ref, file, runs>>, r' = [r EXCEPT ![k] = x],
           x.alone =>
             /\ x.pc = "validate" => ref = "domain" /\ x.plan = "domain"
             /\ x.pc = "up" => \/ ref = "none" /\ x.plan = "none"
                               \/ ref = "domain" /\ x.plan = "domain" /\ Acceptable
             /\ x.pc # "done"
    PROVE  OverlayInv'
<1>1. r \in [Recreators -> Requests]
  BY DEF OverlayInv, OverlayTypeOK, Requests
<1>2. OverlayTypeOK'
  BY <1>1 DEF OverlayInv, OverlayTypeOK, Requests
<1>3. OverlayKnown(k)'
  BY <1>1 DEF OverlayKnown, Acceptable
<1>4. ASSUME NEW l \in Recreators \ {k} PROVE OverlayKnown(l)'
  <2>1. OverlayKnown(l) /\ r'[l] = r[l]
    BY <1>1, <1>4 DEF OverlayInv
  <2> QED BY <2>1 DEF OverlayKnown, Acceptable
<1> QED BY <1>2, <1>3, <1>4 DEF OverlayInv

LEMMA ResolvedIs ==
    Resolved \in {"none", "domain", "refused"}
    /\ (Resolved = "none" => ref = "none") /\ (Resolved = "domain" => ref = "domain" /\ file.usable)
BY DEF Resolved

LEMMA Parts ==
    ASSUME OverlayInv, file.usable
    PROVE  file.parts \in Contents
<1>1. ~NotThere.usable
  BY DEF NotThere
<1>2. file # NotThere
  BY <1>1
<1>3. file \in [usable : {TRUE}, parts : Contents]
  BY <1>2 DEF OverlayInv, OverlayTypeOK
<1> QED BY <1>3

LEMMA ResolveOverlay ==
    ASSUME OverlayInv, NEW k \in Recreators, Resolve(k)
    PROVE  OverlayInv'
<1> DEFINE x == IF Resolved = "refused" THEN Asleep
                ELSE [Asleep EXCEPT !.plan = Resolved,
                                    !.pc = IF Resolved = "none" THEN "up" ELSE "validate"]
<1>1. /\ x \in Requests /\ x.pc \in {"idle", "up", "validate"}
      /\ x.pc = "up" => ref = "none" /\ x.plan = "none"
      /\ x.pc = "validate" => ref = "domain" /\ x.plan = "domain"
  <2>1. CASE Resolved = "refused"
    BY <2>1 DEF Asleep, Requests, References
  <2>2. CASE Resolved = "none"
    BY <2>2, ResolvedIs DEF Asleep, Requests, References
  <2>3. CASE Resolved = "domain"
    BY <2>3, ResolvedIs DEF Asleep, Requests, References
  <2> QED BY <2>1, <2>2, <2>3, ResolvedIs
<1>2. r' = [Accompanied EXCEPT ![k] = x] /\ UNCHANGED <<ref, file, runs>>
  BY DEF Resolve
<1> HIDE DEF x
<1>3. /\ r' \in [Recreators -> Requests] /\ r'[k] = x
      /\ \A l \in Recreators \ {k} : r'[l].alone => r'[l].pc = "idle"
  BY <1>1, <1>2, AccompaniedKnows
<1>4. OverlayTypeOK'
  BY <1>2, <1>3 DEF OverlayInv, OverlayTypeOK, Requests
<1>5. OverlayKnown(k)'
  BY <1>1, <1>2, <1>3 DEF OverlayKnown
<1>6. \A l \in Recreators \ {k} : OverlayKnown(l)'
  BY <1>3 DEF OverlayKnown
<1> QED BY <1>4, <1>5, <1>6 DEF OverlayInv

LEMMA ValidateOverlay ==
    ASSUME OverlayInv, NEW k \in Recreators, NEW works \in BOOLEAN, Validate(k, works)
    PROVE  OverlayInv'
<1>1. r \in [Recreators -> Requests] /\ r[k] \in Requests /\ OverlayKnown(k)
  BY DEF OverlayInv, OverlayTypeOK, Requests
<1>2. UNCHANGED <<ref, file, runs>> /\ r[k].pc = "validate"
  BY DEF Validate
<1>3. CASE works /\ Acceptable
  <2> DEFINE x == [r[k] EXCEPT !.pc = "up"]
  <2>1. r' = [r EXCEPT ![k] = x]
    BY <1>3 DEF Validate
  <2>2. x \in Requests /\ x.pc = "up" /\ x.plan = r[k].plan /\ x.alone = r[k].alone
    BY <1>1 DEF Requests
  <2>3. x.alone => ref = "domain" /\ x.plan = "domain" /\ Acceptable
    BY <1>1, <1>2, <1>3, <2>2 DEF OverlayKnown
  <2> HIDE DEF x
  <2> QED BY <1>2, <2>1, <2>2, <2>3, OverlayTurn
<1>4. CASE ~(works /\ Acceptable)
  <2>1. r' = [r EXCEPT ![k] = Asleep]
    BY <1>4 DEF Validate
  <2>2. Asleep \in Requests /\ Asleep.pc = "idle"
    BY DEF Asleep, Requests, References
  <2> QED BY <1>2, <2>1, <2>2, OverlayTurn
<1> QED BY <1>3, <1>4

LEMMA UpFailsOverlay ==
    ASSUME OverlayInv, NEW k \in Recreators, UpFails(k)
    PROVE  OverlayInv'
<1>1. Asleep \in Requests /\ Asleep.pc = "idle"
  BY DEF Asleep, Requests, References
<1> QED BY <1>1, OverlayTurn DEF UpFails

LEMMA UpOverlay ==
    ASSUME OverlayInv, NEW k \in Recreators, Up(k)
    PROVE  OverlayInv'
<1> DEFINE x == [r[k] EXCEPT !.pc = "done", !.plan = "none"]
<1>1. /\ r \in [Recreators -> Requests] /\ r[k] \in Requests /\ OverlayKnown(k)
      /\ file \in {NotThere} \union [usable : {TRUE}, parts : Contents] /\ ref \in References
  BY DEF OverlayInv, OverlayTypeOK, Requests
<1>2. /\ r[k].pc = "up" /\ ~Missing(r[k].plan) /\ runs' = Merged(r[k].plan)
      /\ r' = [Accompanied EXCEPT ![k] = x] /\ UNCHANGED <<ref, file>>
  BY DEF Up
<1>3. x \in Requests /\ x.pc = "done" /\ x.alone = r[k].alone
  BY <1>1 DEF Requests, References
<1> HIDE DEF x
<1>4. /\ r' \in [Recreators -> Requests] /\ r'[k] = x
      /\ \A l \in Recreators \ {k} : r'[l].alone => r'[l].pc = "idle"
  BY <1>2, <1>3, AccompaniedKnows
<1>5. runs' \in Contents \union {{}}
  <2>1. r[k].plan = "domain" => file.usable
    BY <1>2 DEF Missing
  <2> QED BY <1>2, <2>1, Parts DEF Merged
<1>6. OverlayTypeOK'
  BY <1>1, <1>2, <1>4, <1>5 DEF OverlayTypeOK, Requests
<1>7. OverlayKnown(k)'
  <2>1. r[k].alone => /\ (ref = "none" /\ runs' = {}) \/ (ref = "domain" /\ runs' = file.parts)
                      /\ runs' \subseteq Allowed
    BY <1>1, <1>2 DEF OverlayKnown, Merged, Acceptable
  <2> QED BY <1>2, <1>3, <1>4, <2>1 DEF OverlayKnown
<1>8. \A l \in Recreators \ {k} : OverlayKnown(l)'
  BY <1>4 DEF OverlayKnown
<1> QED BY <1>6, <1>7, <1>8 DEF OverlayInv

LEMMA UpAtOnceOverlay ==
    ASSUME OverlayInv, UpAtOnce
    PROVE  OverlayInv'
<1>1. /\ file \in {NotThere} \union [usable : {TRUE}, parts : Contents] /\ ref \in References
      /\ r' = Accompanied /\ UNCHANGED <<ref, file>> /\ runs' = Merged(Resolved)
  BY DEF OverlayInv, OverlayTypeOK, UpAtOnce
<1>2. runs' \in Contents \union {{}}
  BY <1>1, ResolvedIs, Parts DEF Merged
<1> QED BY <1>1, <1>2, OverlayCrossed

LEMMA NextOverlay == OverlayInv /\ [Next]_vars => OverlayInv'
<1> SUFFICES ASSUME OverlayInv, [Next]_vars PROVE OverlayInv'
  OBVIOUS
<1>1. CASE LspRequests \/ LeanRequests \/ LineRequests \/ Reconfigure
  BY <1>1, OverlayStays DEF LspRequests, LeanRequests, LineRequests, Reconfigure
<1>2. CASE OverlayRequests
  <2>1. ASSUME NEW to \in References, Name(to) PROVE OverlayInv'
    BY <2>1, OverlayCrossed DEF Name, OverlayInv, OverlayTypeOK
  <2>2. ASSUME NEW f \in {NotThere} \union [usable : {TRUE}, parts : Contents], Author(f)
        PROVE OverlayInv'
    BY <2>2, OverlayCrossed DEF Author, OverlayInv, OverlayTypeOK
  <2>3. \A c \in Contents : [usable |-> TRUE, parts |-> c] \in [usable : {TRUE}, parts : Contents]
    OBVIOUS
  <2> QED BY <1>2, <2>1, <2>2, <2>3, ResolveOverlay, ValidateOverlay, UpFailsOverlay
       DEF OverlayRequests
<1>3. CASE Restart
  BY <1>3, OverlayStays DEF Restart
<1>4. CASE Recreate
  BY <1>4, UpOverlay DEF Recreate
<1>5. CASE AdminDies
  <2>1. r' = [k \in Recreators |-> Asleep] /\ UNCHANGED <<ref, file, runs>>
    BY <1>5 DEF AdminDies
  <2>2. OverlayTypeOK'
    BY <2>1 DEF OverlayInv, OverlayTypeOK, Asleep, References
  <2>3. \A k \in Recreators : OverlayKnown(k)'
    BY <2>1 DEF OverlayKnown, Asleep
  <2> QED BY <2>2, <2>3 DEF OverlayInv
<1>6. ASSUME NEW k \in Migrators, NEW result \in {"ok", "fails", "late", "gone"}, MigrationRecreates(k, result)
      PROVE OverlayInv'
  BY <1>6, OverlayStays, UpAtOnceOverlay DEF MigrationRecreates
<1>7. CASE UNCHANGED vars
  BY <1>7, OverlayStays DEF vars
<1> QED BY <1>1, <1>2, <1>3, <1>4, <1>5, <1>6, <1>7 DEF Next

-----------------------------------------------------------------------------
(* lean-ctx. *)

Edits == [pc : {"idle", "write", "load", "read", "done"}, level : Readings,
          alone : BOOLEAN, heard : BOOLEAN]

LEMMA MuddledKnows ==
    ASSUME LeanInv
    PROVE  /\ Muddled \in [Editors -> Edits]
           /\ \A k \in Editors : Muddled[k].alone => Muddled[k].pc = "idle"
BY LevelsAssumption DEF LeanInv, LeanTypeOK, Snapshots, Readings, Muddled, Quiet, Baseline, Edits

LEMMA EffectiveLevel ==
    ASSUME NEW f \in [form : Forms, level : Levels]
    PROVE  Effective(f) \in Levels
BY LevelsAssumption DEF Effective, Baseline

LEMMA LeanCrossed ==
    ASSUME LeanInv, e' = Muddled, saved' \in [form : Forms, level : Levels], daemon' \in Levels,
           snapshot' = snapshot, migrated' \in BOOLEAN
    PROVE  LeanInv'
<1>1. /\ e' \in [Editors -> Edits]
      /\ \A k \in Editors : e'[k].alone => e'[k].pc = "idle"
  BY MuddledKnows
<1>2. LeanTypeOK'
  BY <1>1 DEF LeanInv, LeanTypeOK, Snapshots, Readings, Edits
<1>3. \A k \in Editors : LeanKnown(k)'
  BY <1>1 DEF LeanKnown
<1> QED BY <1>2, <1>3 DEF LeanInv

LEMMA LeanStays ==
    ASSUME LeanInv, UNCHANGED leanVars
    PROVE  LeanInv'
BY DEF LeanInv, LeanTypeOK, Snapshots, Readings, LeanKnown, Effective, leanVars

\* One request moves to x and crosses the others.
LEMMA LeanTurn ==
    ASSUME LeanInv, NEW k \in Editors, NEW x \in Edits, Turns(k, x),
           saved' \in [form : Forms, level : Levels], daemon' \in Levels,
           snapshot' \in Snapshots, migrated' = migrated,
           x.alone =>
             /\ x.pc = "read" => daemon' = Effective(saved')
             /\ x.pc = "done" => /\ daemon' = Effective(saved')
                                 /\ x.heard => snapshot' = Effective(saved')
    PROVE  LeanInv'
<1>1. /\ e' \in [Editors -> Edits] /\ e'[k] = x
      /\ \A l \in Editors \ {k} : e'[l].alone => e'[l].pc = "idle"
  BY MuddledKnows DEF Turns
<1>2. LeanTypeOK'
  BY <1>1 DEF LeanInv, LeanTypeOK, Snapshots, Readings, Edits
<1>3. LeanKnown(k)'
  BY <1>1 DEF LeanKnown, Effective
<1>4. \A l \in Editors \ {k} : LeanKnown(l)'
  BY <1>1 DEF LeanKnown
<1> QED BY <1>2, <1>3, <1>4 DEF LeanInv

LEMMA EditsStart ==
    ASSUME NEW level \in Readings, NEW pc \in {"idle", "write", "load"}
    PROVE  /\ Quiet \in Edits /\ Quiet.pc = "idle"
           /\ [Quiet EXCEPT !.pc = pc] \in Edits /\ [Quiet EXCEPT !.pc = pc].pc = pc
           /\ [Quiet EXCEPT !.pc = pc, !.level = level] \in Edits
           /\ [Quiet EXCEPT !.pc = pc, !.level = level].pc = pc
BY LevelsAssumption DEF Quiet, Edits, Readings, Baseline

LEMMA EditorLean ==
    ASSUME LeanInv, NEW k \in Editors, NEW level \in Levels, NEW works \in BOOLEAN,
           \/ Reset(k, works) \/ Apply(k) \/ Save(k, level, works)
           \/ Write(k, ~works) \/ Load(k, works) \/ Record(k, works)
    PROVE  LeanInv'
<1>1. /\ saved \in [form : Forms, level : Levels] /\ daemon \in Levels
      /\ snapshot \in Snapshots /\ e[k] \in Edits /\ LeanKnown(k) /\ level \in Readings
  BY DEF LeanInv, LeanTypeOK, Snapshots, Readings, Edits
<1>2. CASE Reset(k, works)
  <2>1. PICK l \in Readings : l = IF works THEN Baseline ELSE "blank"
    BY LevelsAssumption DEF Readings, Baseline
  <2>2. PICK x : x = [Quiet EXCEPT !.pc = "write", !.level = l]
    OBVIOUS
  <2>3. x \in Edits /\ x.pc = "write"
    BY <2>2, EditsStart
  <2>4. Turns(k, x) /\ UNCHANGED <<saved, daemon, snapshot, migrated>>
    BY <1>2, <2>1, <2>2 DEF Reset
  <2> QED BY <1>1, <2>3, <2>4, LeanTurn
<1>3. CASE Apply(k)
  <2>1. [Quiet EXCEPT !.pc = "load"] \in Edits /\ [Quiet EXCEPT !.pc = "load"].pc = "load"
    BY <1>1, EditsStart
  <2>2. Turns(k, [Quiet EXCEPT !.pc = "load"]) /\ UNCHANGED <<saved, daemon, snapshot, migrated>>
    BY <1>3 DEF Apply
  <2> QED BY <1>1, <2>1, <2>2, LeanTurn
<1>4. CASE Save(k, level, works)
  <2>1. PICK x \in Edits : Turns(k, x) /\ x.pc \in {"idle", "write"}
    <3>1. CASE works /\ saved.form = "malformed"
      BY <1>1, <1>4, <3>1, EditsStart DEF Save
    <3>2. CASE ~(works /\ saved.form = "malformed")
      BY ZenonT(30), <1>1, <1>4, <3>2, EditsStart DEF Save
    <3> QED BY <3>1, <3>2
  <2>2. UNCHANGED <<saved, daemon, snapshot, migrated>>
    BY <1>4 DEF Save
  <2> QED BY <1>1, <2>1, <2>2, LeanTurn
<1>5. CASE Write(k, ~works)
  <2>1. saved' \in [form : Forms, level : Levels] /\ UNCHANGED <<daemon, snapshot, migrated>>
    BY <1>1, <1>5, LevelsAssumption DEF Write, Serialized, File, Forms, Edits, Readings, Baseline
  <2>2. Turns(k, Quiet) /\ Quiet \in Edits /\ Quiet.pc = "idle"
    BY <1>1, <1>5, EditsStart DEF Write
  <2> QED BY <1>1, <2>1, <2>2, LeanTurn
<1>6. CASE Load(k, works)
  <2> DEFINE loads == works /\ saved.form # "malformed"
             x == [e[k] EXCEPT !.pc = Records(loads)]
  <2>1. UNCHANGED <<saved, snapshot, migrated>> /\ Turns(k, x)
    BY <1>6 DEF Load
  <2>2. Records(loads) \in {"read", "idle"} /\ (Records(loads) = "read" => loads)
    BY DEF Records
  <2>3. x \in Edits /\ x.pc = Records(loads)
    <3> HIDE DEF loads
    <3> QED BY <1>1, <2>2 DEF Edits
  <2>4. daemon' = IF loads THEN Effective(saved) ELSE daemon
    BY <1>6 DEF Load
  <2>5. daemon' \in Levels /\ (x.pc = "read" => daemon' = Effective(saved))
    BY <1>1, <2>2, <2>3, <2>4, EffectiveLevel
  <2>6. saved' = saved
    BY <2>1
  <2> HIDE DEF x, loads
  <2> QED BY <1>1, <2>1, <2>2, <2>3, <2>5, <2>6, LeanTurn
<1>7. CASE Record(k, works)
  <2> DEFINE x == [e[k] EXCEPT !.pc = "done", !.heard = works]
  <2>1. UNCHANGED <<saved, daemon, migrated>> /\ Turns(k, x) /\ e[k].pc = "read"
    BY <1>7 DEF Record
  <2>2. x \in Edits /\ x.pc = "done" /\ x.alone = e[k].alone /\ x.heard = works
    BY <1>1 DEF Edits
  <2>3. x.alone => daemon' = Effective(saved')
    BY <1>1, <2>1, <2>2 DEF LeanKnown
  <2>4. \A seen, base \in BOOLEAN : Read(seen, base) \in Snapshots
    BY <1>1, LevelsAssumption DEF Read, Snapshots, Readings, Baseline
  <2>5. snapshot' \in Snapshots
    BY <1>1, <1>7, <2>4 DEF Record
  <2>6. works => snapshot' = Effective(saved')
    BY <1>7, <2>1 DEF Record, Read, Effective
  <2> HIDE DEF x
  <2> QED BY <1>1, <2>1, <2>2, <2>3, <2>5, <2>6, LeanTurn
<1> QED BY <1>2, <1>3, <1>4, <1>5, <1>6, <1>7

LEMMA BootsLean ==
    ASSUME LeanInv, NEW dies \in BOOLEAN, LeanBoots(dies)
    PROVE  LeanInv'
<1>1. saved \in [form : Forms, level : Levels] /\ migrated \in BOOLEAN /\ ToMigrate \in BOOLEAN
  BY DEF LeanInv, LeanTypeOK, Snapshots, Readings, ToMigrate
<1>2. File("config", Baseline) \in [form : Forms, level : Levels]
  BY LevelsAssumption DEF File, Forms, Baseline
<1>3. Ensured(IF ToMigrate THEN File("config", Baseline) ELSE saved) \in [form : Forms, level : Levels]
  BY <1>1, <1>2 DEF Ensured
<1>4. saved' \in [form : Forms, level : Levels] /\ daemon' \in Levels
  BY <1>3 DEF LeanBoots
<1>5. migrated' \in BOOLEAN
  BY <1>1 DEF LeanBoots
<1> QED BY <1>4, <1>5, LeanCrossed DEF LeanBoots

LEMMA NextLean == LeanInv /\ [Next]_vars => LeanInv'
<1> SUFFICES ASSUME LeanInv, [Next]_vars PROVE LeanInv'
  OBVIOUS
<1>1. CASE LspRequests \/ OverlayRequests \/ LineRequests \/ Reconfigure
  BY <1>1, LeanStays DEF LspRequests, OverlayRequests, LineRequests, Reconfigure
<1>2. CASE LeanRequests
  <2>1. CASE HandEdit
    <3>1. saved' \in [form : Forms, level : Levels]
      BY <2>1, LevelsAssumption DEF HandEdit, File, Forms, Baseline
    <3> QED BY <2>1, <3>1, LeanCrossed DEF HandEdit, LeanInv, LeanTypeOK, Snapshots, Readings
  <2>2. "off" \in Levels
    BY LevelsAssumption
  <2> QED BY <1>2, <2>1, <2>2, EditorLean DEF LeanRequests
<1>3. CASE Restart
  BY <1>3, BootsLean DEF Restart
<1>4. CASE Recreate
  BY <1>4, BootsLean DEF Recreate
<1>5. CASE AdminDies
  <2>1. e' = [k \in Editors |-> Quiet] /\ UNCHANGED <<saved, daemon, snapshot, migrated>>
    BY <1>5 DEF AdminDies
  <2>2. LeanTypeOK'
    BY <2>1, LevelsAssumption DEF LeanInv, LeanTypeOK, Snapshots, Readings, Quiet, Baseline
  <2>3. \A k \in Editors : LeanKnown(k)'
    BY <2>1 DEF LeanKnown, Quiet
  <2> QED BY <2>2, <2>3 DEF LeanInv
<1>6. ASSUME NEW k \in Migrators, NEW result \in {"ok", "fails", "late", "gone"}, MigrationRecreates(k, result)
      PROVE LeanInv'
  <2>1. CASE UNCHANGED leanVars
    BY <2>1, LeanStays
  <2>2. CASE LeanBoots(FALSE)
    BY <2>2, BootsLean
  <2> QED BY <1>6, <2>1, <2>2 DEF MigrationRecreates
<1>7. CASE UNCHANGED vars
  BY <1>7, LeanStays DEF vars
<1> QED BY <1>1, <1>2, <1>3, <1>4, <1>5, <1>6, <1>7 DEF Next
-----------------------------------------------------------------------------
(* The agent line. *)

Turned == [pc : {"idle", "mark", "lock", "unlock_failed", "carry", "recreate", "unmark", "unlock",
                 "stranded", "done", "undone", "left"},
           had : [marker : BOOLEAN, omo : Sets], alone : BOOLEAN]

LEMMA DisturbedKnows ==
    ASSUME LineInv
    PROVE  /\ Disturbed \in [Migrators -> Turned]
           /\ \A k \in Migrators : Disturbed[k].alone => Disturbed[k].pc = "idle"
BY DEF LineInv, LineTypeOK, Disturbed, Free, Turned, Sets, Over

LEMMA LineCrossed ==
    ASSUME LineInv, m' = Disturbed, marker' \in BOOLEAN, omo' \in Sets, cenvOmo' \in Sets,
           line' \in {"omo", "native", "both"}, carried' \in BOOLEAN
    PROVE  LineInv'
<1>1. /\ m' \in [Migrators -> Turned]
      /\ \A k \in Migrators : m'[k].alone => m'[k].pc = "idle"
  BY DisturbedKnows
<1>2. LineTypeOK'
  BY <1>1 DEF LineTypeOK, Turned
<1>3. \A k \in Migrators : LineKnown(k)'
  BY <1>1 DEF LineKnown
<1> QED BY <1>2, <1>3 DEF LineInv

\* Faults only add up, and the overlay stays while a migration is not crossed.
LEMMA LineStays ==
    ASSUME LineInv, Counts, UNCHANGED lineVars, UNCHANGED <<ref, file>>,
           faults' \in Nat, faults' >= faults
    PROVE  LineInv'
<1>1. Tolerated' = Tolerated /\ Tolerated \in Nat /\ faults \in Nat
  BY DEF Tolerated, Refused, Resolved, Acceptable, Counts
<1>2. LineTypeOK'
  BY DEF LineInv, LineTypeOK, lineVars
<1>3. ASSUME NEW k \in Migrators PROVE LineKnown(k)'
  <2>1. LineKnown(k) /\ m'[k] = m[k] /\ marker' = marker /\ omo' = omo /\ line' = line /\ cenvOmo' = cenvOmo
    BY DEF LineInv, lineVars
  <2> QED BY <1>1, <2>1 DEF LineKnown
<1> QED BY <1>2, <1>3 DEF LineInv

\* What a migration knows when it has come to x.
Come(x) ==
    x.alone =>
        /\ x.pc = "mark" => ~marker /\ ~x.had.marker /\ omo = x.had.omo
        /\ x.pc = "lock" => marker /\ omo = x.had.omo
        /\ x.pc = "unlock_failed" => marker /\ ~x.had.marker /\ omo = x.had.omo /\ faults >= 1
        /\ x.pc \in {"carry", "recreate"} => marker /\ omo = "0"
        /\ x.pc = "unmark" => marker /\ faults >= Tolerated
        /\ x.pc = "unlock" => faults >= Tolerated /\ (marker = x.had.marker \/ faults > Tolerated)
        /\ x.pc = "done" => marker /\ omo = "0" /\ line = "native" /\ cenvOmo = "0"
        /\ x.pc = "undone" => (marker = x.had.marker /\ omo = x.had.omo) \/ faults > Tolerated
        /\ x.pc = "stranded" => faults >= Tolerated
        /\ x.pc = "left" => omo = x.had.omo \/ faults > Tolerated

LEMMA ComeNext ==
    ASSUME NEW k, NEW x, m'[k] = x, Come(x)'
    PROVE  LineKnown(k)'
BY DEF Come, LineKnown

\* One migration moves to x and crosses the others.
LEMMA LineTurn ==
    ASSUME LineInv, NEW k \in Migrators, NEW x \in Turned, Moves(k, x), Come(x)',
           marker' \in BOOLEAN, omo' \in Sets, cenvOmo' \in Sets,
           line' \in {"omo", "native", "both"}, carried' \in BOOLEAN
    PROVE  LineInv'
<1>1. /\ m' \in [Migrators -> Turned] /\ m'[k] = x
      /\ \A l \in Migrators \ {k} : m'[l].alone => m'[l].pc = "idle"
  BY DisturbedKnows DEF Moves
<1>2. LineTypeOK'
  BY <1>1 DEF LineTypeOK, Turned
<1>3. LineKnown(k)'
  BY <1>1, ComeNext
<1>4. \A l \in Migrators \ {k} : LineKnown(l)'
  BY <1>1 DEF LineKnown
<1> QED BY <1>2, <1>3, <1>4 DEF LineInv

LEMMA LineFacts ==
    ASSUME LineInv, Counts, NEW k \in Migrators
    PROVE  /\ m[k] \in Turned /\ Come(m[k]) /\ faults \in Nat /\ Tolerated \in {0, 1}
           /\ marker \in BOOLEAN /\ omo \in Sets /\ cenvOmo \in Sets
           /\ line \in {"omo", "native", "both"} /\ carried \in BOOLEAN
<1>1. LineKnown(k)
  BY DEF LineInv
<1> QED BY <1>1 DEF LineInv, LineTypeOK, LineKnown, Come, Turned, Tolerated, Counts

\* To moves the program counter alone.
LEMMA Went ==
    ASSUME NEW k \in Migrators, m[k] \in Turned, NEW pc \in {"lock", "carry", "recreate", "unlock_failed",
           "unmark", "unlock", "stranded", "done", "undone", "left"}, To(k, pc)
    PROVE  \E x \in Turned : Moves(k, x) /\ x.pc = pc /\ x.had = m[k].had /\ x.alone = m[k].alone
<1> DEFINE x == [m[k] EXCEPT !.pc = pc]
<1>1. x \in Turned /\ x.pc = pc /\ x.had = m[k].had /\ x.alone = m[k].alone
  BY DEF Turned
<1>2. Moves(k, x)
  BY DEF To
<1> HIDE DEF x
<1> QED BY <1>1, <1>2

LEMMA FreeTurn == Free \in Turned /\ Free.pc = "idle"
BY DEF Free, Turned, Sets

LEMMA FreeComes == ASSUME NEW x \in Turned, x.pc = "idle" PROVE Come(x)'
BY DEF Come

LEMMA MigrateLine ==
    ASSUME LineInv, Counts, NEW k \in Migrators, Migrate(k)
    PROVE  LineInv'
<1>1. /\ marker \in BOOLEAN /\ omo \in Sets /\ cenvOmo \in Sets
      /\ line \in {"omo", "native", "both"} /\ carried \in BOOLEAN
      /\ UNCHANGED <<marker, omo, cenvOmo, line, carried>>
  BY LineFacts DEF Migrate
<1>2. PICK x \in Turned : /\ Moves(k, x) /\ x.had.omo = omo
                          /\ \/ x.pc = "lock" /\ marker
                             \/ x.pc = "mark" /\ ~marker /\ ~x.had.marker
  <2> DEFINE x == [Free EXCEPT !.pc = IF marker THEN "lock" ELSE "mark",
                               !.had = [marker |-> marker, omo |-> omo]]
  <2>1. /\ x \in Turned /\ x.had.marker = marker /\ x.had.omo = omo
        /\ x.pc = IF marker THEN "lock" ELSE "mark"
    BY <1>1 DEF Free, Turned
  <2>2. Moves(k, x)
    BY DEF Migrate
  <2>3. marker \/ (~marker /\ ~x.had.marker)
    BY <2>1
  <2> HIDE DEF x
  <2> QED BY <2>1, <2>2, <2>3
<1>3. Come(x)'
  BY <1>1, <1>2 DEF Come
<1> QED BY <1>1, <1>2, <1>3, LineTurn

LEMMA MarkLine ==
    ASSUME LineInv, Counts, NEW k \in Migrators, NEW works \in BOOLEAN, Mark(k, works)
    PROVE  LineInv'
<1>1. /\ m[k] \in Turned /\ Come(m[k]) /\ m[k].pc = "mark"
      /\ marker \in BOOLEAN /\ omo \in Sets /\ cenvOmo \in Sets
      /\ line \in {"omo", "native", "both"} /\ carried \in BOOLEAN
      /\ UNCHANGED <<omo, cenvOmo, line, carried>>
  BY LineFacts DEF Mark
<1>2. marker' \in BOOLEAN /\ (works => marker')
  BY <1>1 DEF Mark
<1>3. CASE works
  <2>1. PICK x \in Turned : /\ Moves(k, x) /\ x.pc = "lock" /\ x.had = m[k].had
                            /\ x.alone = m[k].alone
    BY <1>1, <1>3, Went DEF Mark
  <2>2. Come(x)'
    <3>1. x.alone => marker' /\ omo' = x.had.omo
      BY <1>1, <1>2, <1>3, <2>1 DEF Come
    <3> QED BY <2>1, <3>1 DEF Come
  <2> QED BY <1>1, <1>2, <2>1, <2>2, LineTurn
<1>4. CASE ~works
  <2>1. Moves(k, Free)
    BY <1>4 DEF Mark
  <2> QED BY <1>1, <1>2, <2>1, FreeTurn, FreeComes, LineTurn
<1> QED BY <1>3, <1>4

LEMMA LockLine ==
    ASSUME LineInv, Counts, NEW k \in Migrators, NEW works \in BOOLEAN, Lock(k, works),
           UNCHANGED <<ref, file>>, faults' \in Nat, ~works => faults' = faults + 1
    PROVE  LineInv'
<1>1. /\ m[k] \in Turned /\ Come(m[k]) /\ m[k].pc = "lock" /\ faults \in Nat
      /\ marker \in BOOLEAN /\ omo \in Sets /\ cenvOmo \in Sets
      /\ line \in {"omo", "native", "both"} /\ carried \in BOOLEAN
      /\ UNCHANGED <<marker, cenvOmo, line, carried>>
  BY LineFacts DEF Lock
<1>2. omo' \in Sets /\ (works => omo' = "0") /\ (~works => omo' = omo)
  BY <1>1 DEF Lock, Sets
<1>3. CASE works
  <2>1. PICK x \in Turned : /\ Moves(k, x) /\ x.pc = "carry" /\ x.had = m[k].had
                            /\ x.alone = m[k].alone
    BY <1>1, <1>3, Went DEF Lock
  <2>2. Come(x)'
    <3>1. x.alone => marker' /\ omo' = "0"
      BY <1>1, <1>2, <1>3, <2>1 DEF Come
    <3> QED BY <2>1, <3>1 DEF Come
  <2> QED BY <1>1, <1>2, <2>1, <2>2, LineTurn
<1>4. CASE ~works /\ m[k].had.marker
  <2>1. PICK x \in Turned : /\ Moves(k, x) /\ x.pc = "undone" /\ x.had = m[k].had
                            /\ x.alone = m[k].alone
    BY <1>1, <1>4, Went DEF Lock
  <2>2. Come(x)'
    <3>1. x.alone => marker /\ omo = x.had.omo
      BY <1>1, <2>1 DEF Come
    <3>2. x.had.marker \in BOOLEAN /\ x.had.marker
      BY <1>1, <1>4, <2>1 DEF Turned
    <3>3. x.alone => marker' = x.had.marker
      BY <1>1, <3>1, <3>2
    <3>4. x.alone => omo' = x.had.omo
      BY <1>2, <1>4, <3>1
    <3> QED BY <2>1, <3>3, <3>4 DEF Come
  <2> QED BY <1>1, <1>2, <2>1, <2>2, LineTurn
<1>5. CASE ~works /\ ~m[k].had.marker
  <2>1. PICK x \in Turned : /\ Moves(k, x) /\ x.pc = "unlock_failed" /\ x.had = m[k].had
                            /\ x.alone = m[k].alone
    BY <1>1, <1>5, Went DEF Lock
  <2>2. Come(x)'
    <3>1. x.alone => marker' /\ ~x.had.marker /\ omo' = x.had.omo
      BY <1>1, <1>2, <1>5, <2>1 DEF Come
    <3>2. faults' >= 1
      BY <1>1, <1>5
    <3> QED BY <2>1, <3>1, <3>2 DEF Come
  <2> QED BY <1>1, <1>2, <2>1, <2>2, LineTurn
<1> QED BY <1>3, <1>4, <1>5

LEMMA CarryLine ==
    ASSUME LineInv, Counts, NEW k \in Migrators, NEW works \in BOOLEAN, Carry(k, works)
    PROVE  LineInv'
<1>1. /\ m[k] \in Turned /\ Come(m[k]) /\ m[k].pc = "carry"
      /\ marker \in BOOLEAN /\ omo \in Sets /\ cenvOmo \in Sets
      /\ line \in {"omo", "native", "both"} /\ carried \in BOOLEAN
      /\ UNCHANGED <<marker, omo, cenvOmo, line>>
  BY LineFacts DEF Carry
<1>2. carried' \in BOOLEAN
  BY <1>1 DEF Carry
<1>3. PICK x \in Turned : /\ Moves(k, x) /\ x.pc = "recreate" /\ x.had = m[k].had
                          /\ x.alone = m[k].alone
  BY <1>1, Went DEF Carry
<1>4. Come(x)'
  <2>1. x.alone => marker' /\ omo' = "0"
    BY <1>1, <1>3 DEF Come
  <2> QED BY <1>3, <2>1 DEF Come
<1> QED BY <1>1, <1>2, <1>3, <1>4, LineTurn
LEMMA UnmarkLine ==
    ASSUME LineInv, Counts, NEW k \in Migrators, NEW works \in BOOLEAN, Unmark(k, works),
           UNCHANGED <<ref, file>>, faults' \in Nat, faults' >= faults,
           ~works => faults' = faults + 1
    PROVE  LineInv'
<1>1. /\ m[k] \in Turned /\ Come(m[k]) /\ faults \in Nat /\ Tolerated \in {0, 1}
      /\ marker \in BOOLEAN /\ omo \in Sets /\ cenvOmo \in Sets
      /\ line \in {"omo", "native", "both"} /\ carried \in BOOLEAN
      /\ UNCHANGED <<omo, cenvOmo, line, carried>>
      /\ m[k].had.marker \in BOOLEAN
  BY LineFacts DEF Unmark, Turned
<1>2. /\ marker' \in BOOLEAN
      /\ marker /\ works => marker' = m[k].had.marker
      /\ marker' => marker
  BY <1>1 DEF Unmark, TakenBack
<1>3. Tolerated' = Tolerated
  BY DEF Tolerated, Refused, Resolved, Acceptable
<1>4. CASE m[k].pc = "unmark"
  <2>1. PICK x \in Turned : /\ Moves(k, x) /\ x.pc = "unlock" /\ x.had = m[k].had
                            /\ x.alone = m[k].alone
    BY <1>1, <1>4, Went DEF Unmark
  <2>2. x.alone => marker /\ faults >= Tolerated /\ faults' >= Tolerated'
    <3>1. x.alone => marker /\ faults >= Tolerated
      BY <1>1, <1>4, <2>1 DEF Come
    <3> QED BY <1>1, <1>3, <3>1
  <2>3. Come(x)'
    <3>1. CASE works
      <4>1. x.alone => marker' = x.had.marker
        <5>1. x.had.marker = m[k].had.marker
          BY <2>1
        <5> QED BY <1>2, <2>2, <3>1, <5>1
      <4> QED BY <2>1, <2>2, <4>1 DEF Come
    <3>2. CASE ~works
      <4>1. x.alone => faults' > Tolerated'
        BY <1>1, <1>3, <2>2, <3>2
      <4> QED BY <2>1, <2>2, <4>1 DEF Come
    <3> QED BY <3>1, <3>2
  <2> QED BY <1>1, <1>2, <2>1, <2>3, LineTurn
<1>5. CASE m[k].pc = "unlock_failed"
  <2>1. PICK x \in Turned : /\ Moves(k, x) /\ x.pc = "undone" /\ x.had = m[k].had
                            /\ x.alone = m[k].alone
    BY <1>1, <1>5, Went DEF Unmark
  <2>2. x.alone => marker /\ faults >= 1 /\ omo = x.had.omo
    BY <1>1, <1>5, <2>1 DEF Come
  <2>3. Come(x)'
    <3>1. CASE works
      <4>1. x.alone => marker' = x.had.marker
        <5>1. x.had.marker = m[k].had.marker
          BY <2>1
        <5> QED BY <1>2, <2>2, <3>1, <5>1
      <4>2. x.alone => omo' = x.had.omo
        BY <1>1, <2>2
      <4> QED BY <2>1, <4>1, <4>2 DEF Come
    <3>2. CASE ~works
      <4>1. x.alone => faults' > Tolerated'
        BY <1>1, <1>3, <2>2, <3>2
      <4> QED BY <2>1, <4>1 DEF Come
    <3> QED BY <3>1, <3>2
  <2> QED BY <1>1, <1>2, <2>1, <2>3, LineTurn
<1> QED BY <1>4, <1>5 DEF Unmark

LEMMA UnlockLine ==
    ASSUME LineInv, Counts, NEW k \in Migrators, NEW works \in BOOLEAN, Unlock(k, works),
           UNCHANGED <<ref, file>>, faults' \in Nat, faults' >= faults,
           ~works => faults' = faults + 1
    PROVE  LineInv'
<1>1. /\ m[k] \in Turned /\ Come(m[k]) /\ m[k].pc \in {"unlock", "stranded"}
      /\ faults \in Nat /\ Tolerated \in {0, 1}
      /\ marker \in BOOLEAN /\ omo \in Sets /\ cenvOmo \in Sets
      /\ line \in {"omo", "native", "both"} /\ carried \in BOOLEAN
      /\ UNCHANGED <<marker, cenvOmo, line, carried>>
  BY LineFacts DEF Unlock
<1>2. omo' \in Sets /\ (works => omo' = m[k].had.omo)
  BY <1>1 DEF Unlock, Turned
<1>3. Tolerated' = Tolerated
  BY DEF Tolerated, Refused, Resolved, Acceptable
<1>4. PICK x \in Turned : /\ Moves(k, x) /\ x.had = m[k].had /\ x.alone = m[k].alone
                          /\ x.pc = IF m[k].pc = "unlock" THEN "undone" ELSE "left"
  <2>1. CASE m[k].pc = "unlock"
    BY <1>1, <2>1, Went DEF Unlock
  <2>2. CASE m[k].pc = "stranded"
    BY <1>1, <2>2, Went DEF Unlock
  <2> QED BY <1>1, <2>1, <2>2
<1>5. x.alone => /\ faults >= Tolerated
                 /\ x.pc = "undone" => marker = x.had.marker \/ faults > Tolerated
  BY <1>1, <1>4 DEF Come
<1>6. Come(x)'
  <2>1. x.alone /\ faults > Tolerated => faults' > Tolerated'
    BY <1>1, <1>3
  <2>2. x.alone => omo' = x.had.omo \/ faults' > Tolerated'
    <3>1. works => omo' = x.had.omo
      BY <1>2, <1>4
    <3>2. x.alone /\ ~works => faults' > Tolerated'
      BY <1>1, <1>3, <1>5
    <3> QED BY <3>1, <3>2
  <2>3. marker = x.had.marker => marker' = x.had.marker
    BY <1>1
  <2> QED BY <1>4, <1>5, <2>1, <2>2, <2>3 DEF Come
<1> QED BY <1>1, <1>2, <1>4, <1>6, LineTurn
LEMMA RecreatesLine ==
    ASSUME LineInv, Counts, NEW k \in Migrators, NEW result \in {"ok", "fails", "late", "gone"},
           MigrationRecreates(k, result)
    PROVE  LineInv'
<1>1. /\ m[k] \in Turned /\ Come(m[k]) /\ m[k].pc = "recreate" /\ faults \in Nat
      /\ marker \in BOOLEAN /\ omo \in Sets /\ cenvOmo \in Sets
      /\ line \in {"omo", "native", "both"} /\ carried \in BOOLEAN
  BY LineFacts DEF MigrationRecreates
<1>2. UNCHANGED <<marker, omo, carried, ref, file>>
  BY DEF MigrationRecreates, overlayVars, UpAtOnce, Boots, LineBoots
<1>3. /\ cenvOmo' \in Sets /\ line' \in {"omo", "native", "both"}
      /\ result \in {"ok", "late"} => cenvOmo' = omo /\ (marker => line' = "native")
  <2>1. CASE result \in {"fails", "gone"}
    BY <1>1, <2>1 DEF MigrationRecreates
  <2>2. CASE result \in {"ok", "late"}
    <3>1. LineBoots(omo)
      BY <2>2 DEF MigrationRecreates, Boots
    <3> QED BY <1>1, <2>2, <3>1 DEF LineBoots
  <2> QED BY <2>1, <2>2
<1>4. Tolerated' = Tolerated
  BY <1>2 DEF Tolerated, Refused, Resolved, Acceptable
<1>5. CASE result = "ok"
  <2>1. PICK x \in Turned : /\ Moves(k, x) /\ x.pc = "done" /\ x.had = m[k].had
                            /\ x.alone = m[k].alone
    BY <1>1, <1>5, Went DEF MigrationRecreates
  <2>2. x.alone => marker' /\ omo' = "0" /\ line' = "native" /\ cenvOmo' = "0"
    BY <1>1, <1>2, <1>3, <1>5, <2>1 DEF Come
  <2>3. Come(x)'
    BY <2>1, <2>2 DEF Come
  <2> QED BY <1>1, <1>2, <1>3, <2>1, <2>3, LineTurn
<1>6. CASE result # "ok"
  <2>1. PICK x \in Turned : /\ Moves(k, x) /\ x.pc \in {"unmark", "stranded"} /\ x.had = m[k].had
                            /\ x.alone = m[k].alone
    <3>1. CASE result = "gone"
      BY <1>1, <3>1, Went DEF MigrationRecreates
    <3>2. CASE result \in {"fails", "late"}
      BY <1>1, <3>2, Went DEF MigrationRecreates
    <3> QED BY <1>6, <3>1, <3>2
  <2>2. faults' >= Tolerated'
    <3>1. CASE Refused
      BY <1>1, <1>4, <3>1 DEF Tolerated, MigrationRecreates, Works, Fault
    <3>2. CASE ~Refused
      BY <1>1, <1>4, <1>6, <3>2 DEF Tolerated, MigrationRecreates, Works, Fault
    <3> QED BY <3>1, <3>2
  <2>3. Come(x)'
    <3>1. x.alone => marker'
      BY <1>1, <1>2, <2>1 DEF Come
    <3> QED BY <2>1, <2>2, <3>1 DEF Come
  <2> QED BY <1>1, <1>2, <1>3, <2>1, <2>3, LineTurn
<1> QED BY <1>5, <1>6

LEMMA NextCounts == Counts /\ [Next]_vars => Counts' /\ faults' >= faults
<1> SUFFICES ASSUME Counts, [Next]_vars PROVE Counts' /\ faults' >= faults
  OBVIOUS
<1>1. /\ restarts \in Nat /\ recreations \in Nat /\ requests \in 0..MaxRequests
      /\ faults \in 0..MaxFaults /\ MaxRequests \in Nat /\ MaxFaults \in Nat
  BY BoundsAssumption DEF Counts
<1>2. /\ restarts' \in {restarts, restarts + 1} /\ recreations' \in {recreations, recreations + 1}
      /\ requests' = requests \/ (requests < MaxRequests /\ requests' = requests + 1)
      /\ faults' = faults \/ (faults < MaxFaults /\ faults' = faults + 1)
  <2>1. CASE LspRequests
    BY <2>1 DEF LspRequests, Request, Asked, Continues, Works, Fault
  <2>2. CASE LeanRequests
    BY <2>2 DEF LeanRequests, Request, Asked, Continues, Works, Fault
  <2>3. CASE LineRequests
    BY <2>3 DEF LineRequests, Request, Asked, Continues, Works, Fault
  <2>4. CASE OverlayRequests
    BY <2>4 DEF OverlayRequests, Request, Asked, Continues, Works, Fault
  <2>5. CASE Restart \/ Recreate \/ Reconfigure \/ AdminDies
    BY <2>5 DEF Restart, Recreate, Reconfigure, AdminDies, Request, Asked, Continues, Works, Fault
  <2>6. ASSUME NEW k \in Migrators, NEW result, MigrationRecreates(k, result)
        PROVE  /\ UNCHANGED <<restarts, recreations, requests>>
               /\ faults' = faults \/ (faults < MaxFaults /\ faults' = faults + 1)
    BY <2>6 DEF MigrationRecreates, Continues, Works, Fault
  <2> QED BY <2>1, <2>2, <2>3, <2>4, <2>5, <2>6 DEF Next, vars
<1> QED BY <1>1, <1>2 DEF Counts

LEMMA NextLine == LineInv /\ Counts /\ [Next]_vars => LineInv'
<1> SUFFICES ASSUME LineInv, Counts, [Next]_vars PROVE LineInv'
  OBVIOUS
<1>1. faults' \in Nat /\ faults' >= faults
  BY NextCounts DEF Counts
<1>2. /\ marker \in BOOLEAN /\ omo \in Sets /\ cenvOmo \in Sets
      /\ line \in {"omo", "native", "both"} /\ carried \in BOOLEAN
  BY DEF LineInv, LineTypeOK
<1>3. CASE LspRequests \/ LeanRequests
  BY <1>1, <1>3, LineStays DEF LspRequests, LeanRequests, overlayVars
<1>4. CASE LineRequests
  <2>1. UNCHANGED <<ref, file>>
    BY <1>4 DEF LineRequests, overlayVars
  <2>2. ASSUME NEW k \in Migrators, Migrate(k) PROVE LineInv'
    BY <2>2, MigrateLine
  <2>3. ASSUME NEW k \in Migrators, NEW works \in BOOLEAN, Works(works),
               \/ Mark(k, works) \/ Lock(k, works) \/ Carry(k, works) \/ Unmark(k, works)
               \/ Unlock(k, works)
        PROVE  LineInv'
    <3>1. ~works => faults' = faults + 1
      BY <2>3 DEF Works, Fault
    <3>2. CASE Lock(k, works)
      BY <1>1, <2>1, <3>1, <3>2, LockLine
    <3>3. CASE Unmark(k, works)
      BY <1>1, <2>1, <3>1, <3>3, UnmarkLine
    <3>4. CASE Unlock(k, works)
      BY <1>1, <2>1, <3>1, <3>4, UnlockLine
    <3> QED BY <2>3, <3>2, <3>3, <3>4, MarkLine, CarryLine
  <2> QED BY <1>4, <2>2, <2>3 DEF LineRequests
<1>5. CASE OverlayRequests
  <2>1. CASE m' = Disturbed
    BY <1>2, <1>5, <2>1, LineCrossed DEF OverlayRequests
  <2>2. CASE UNCHANGED m
    <3>1. CASE UNCHANGED <<ref, file>>
      BY <1>1, <1>5, <2>2, <3>1, LineStays DEF OverlayRequests, lineVars
    <3>2. CASE m' = Disturbed
      BY <2>1, <3>2
    <3> QED BY <1>5, <3>1, <3>2 DEF OverlayRequests, Resolve, Validate, UpFails
  <2> QED BY <1>5, <2>1, <2>2 DEF OverlayRequests
<1>6. CASE Reconfigure
  BY <1>2, <1>6, LineCrossed DEF Reconfigure, Sets
<1>7. ASSUME NEW env \in Sets, LineBoots(env), m' = Disturbed PROVE LineInv'
  <2>1. /\ cenvOmo' \in Sets /\ line' \in {"omo", "native", "both"}
        /\ UNCHANGED <<marker, omo, carried>>
    BY <1>7 DEF LineBoots
  <2> QED BY <1>2, <1>7, <2>1, LineCrossed
<1>8. CASE Restart \/ Recreate
  BY <1>2, <1>7, <1>8 DEF Restart, Recreate, Boots
<1>9. CASE AdminDies
  <2>1. m' = [k \in Migrators |-> Free] /\ UNCHANGED <<marker, omo, cenvOmo, line, carried>>
    BY <1>9 DEF AdminDies
  <2>2. LineTypeOK'
    BY <1>2, <2>1, FreeTurn DEF LineTypeOK, Turned
  <2>3. \A k \in Migrators : LineKnown(k)'
    BY <2>1, FreeTurn DEF LineKnown
  <2> QED BY <2>2, <2>3 DEF LineInv
<1>10. ASSUME NEW k \in Migrators, NEW result \in {"ok", "fails", "late", "gone"}, MigrationRecreates(k, result)
      PROVE LineInv'
  BY <1>10, RecreatesLine
<1>11. CASE UNCHANGED vars
  BY <1>1, <1>11, LineStays DEF vars, lineVars, overlayVars
<1> QED BY <1>3, <1>4, <1>5, <1>6, <1>8, <1>9, <1>10, <1>11 DEF Next
-----------------------------------------------------------------------------
(* Language servers: the token of a package. *)

\* A set of positions of the catalog has a last one.
LEMMA LastPosition ==
    ASSUME NEW T \in SUBSET (DOMAIN Catalog), T # {}
    PROVE  \E i \in T : \A j \in T : j <= i
<1> DEFINE n == Len(Catalog)
           U == {n - i : i \in T}
           R == OpToRel(<, Nat)
<1>1. DOMAIN Catalog = 1..n /\ n \in Nat
  BY CatalogAssumption
<1>2. U \subseteq Nat /\ U # {}
  BY <1>1
<1>3. PICK x \in U : \A y \in U : <<y, x>> \notin R
  <2>1. IsWellFoundedOn(R, Nat)
    BY NatLessThanWellFounded
  <2> HIDE DEF R, U
  <2> QED BY <1>2, <2>1, WFMin
<1>4. PICK i \in T : x = n - i
  OBVIOUS
<1>5. ASSUME NEW j \in T PROVE j <= i
  <2>1. n - j \in U /\ <<n - j, x>> \notin R
    BY <1>3
  <2>2. ~(n - j < x)
    BY <1>2, <2>1 DEF OpToRel
  <2> QED BY <1>1, <1>4, <2>2
<1> QED BY <1>5

LEMMA LastOfIs ==
    ASSUME NEW p, NEW S \in SUBSET Servers, NEW t \in S, PackageOf[t] = p
    PROVE  /\ LastOf(p, S) \in S /\ PackageOf[LastOf(p, S)] = p
           /\ \A u \in S : PackageOf[u] = p /\ u # LastOf(p, S) => Before(u, LastOf(p, S))
<1> DEFINE T == {i \in DOMAIN Catalog : Catalog[i] \in S /\ PackageOf[Catalog[i]] = p}
<1>1. T # {}
  BY DEF Servers
<1>2. PICK i \in T : \A j \in T : j <= i
  BY <1>1, LastPosition
<1>3. \A u \in S : PackageOf[u] = p /\ u # Catalog[i] => Before(u, Catalog[i])
  <2> SUFFICES ASSUME NEW u \in S, PackageOf[u] = p, u # Catalog[i] PROVE Before(u, Catalog[i])
    OBVIOUS
  <2>1. PICK j \in DOMAIN Catalog : Catalog[j] = u
    BY DEF Servers
  <2>2. j <= i /\ j # i
    BY <1>2, <2>1
  <2>3. i \in Nat /\ j \in Nat
    BY CatalogAssumption
  <2> QED BY <2>1, <2>2, <2>3 DEF Before
<1> QED BY <1>2, <1>3 DEF LastOf
LEMMA BeforeOnce ==
    ASSUME NEW s, NEW t, Before(s, t)
    PROVE  ~Before(t, s) /\ s # t
<1>1. PICK i, j \in DOMAIN Catalog : i < j /\ Catalog[i] = s /\ Catalog[j] = t
  BY DEF Before
<1>2. \A l \in DOMAIN Catalog : (Catalog[l] = s => l = i) /\ (Catalog[l] = t => l = j)
  BY <1>1, CatalogAssumption
<1>3. \A l \in DOMAIN Catalog : l \in Nat
  BY CatalogAssumption
<1> QED BY <1>1, <1>2, <1>3 DEF Before

Pick == [enabled : BOOLEAN, version : Versions \union {Latest}]

LEMMA ChoiceIs ==
    ASSUME NEW o \in Choices
    PROVE  /\ DOMAIN o \subseteq Servers /\ o = [s \in DOMAIN o |-> o[s]]
           /\ \A s \in DOMAIN o : o[s] \in Pick
           /\ Wanted(o) \subseteq Servers /\ Wanted(o) \subseteq DOMAIN o
<1>1. PICK D \in SUBSET Servers : o \in [D -> Pick]
  BY DEF Choices, Pick
<1> QED BY <1>1 DEF Wanted

LEMMA ChoiceOf ==
    ASSUME NEW D \in SUBSET Servers, NEW o \in [D -> Pick]
    PROVE  o \in Choices
BY DEF Choices, Pick

LEMMA BunOf ==
    ASSUME NEW D \in SUBSET Packages, NEW o \in [D -> Versions \union {Latest}]
    PROVE  o \in Bun
BY DEF Bun

LEMMA BunIs ==
    ASSUME NEW b \in Bun
    PROVE  /\ DOMAIN b \subseteq Packages
           /\ \A p \in DOMAIN b : b[p] \in Versions \union {Latest}
BY DEF Bun

LEMMA NothingIs == Nothing \in Choices /\ Nothing \in Bun /\ DOMAIN Nothing = {}
<1>1. DOMAIN Nothing = {} /\ Nothing \in [{} -> Pick] /\ Nothing \in [{} -> Versions \union {Latest}]
  BY DEF Nothing
<1> QED BY <1>1, ChoiceOf, BunOf

LEMMA TokensAre ==
    ASSUME NEW o \in Choices, NEW S \in SUBSET Wanted(o)
    PROVE  /\ Tokens(o, S) \in Bun
           /\ DOMAIN Tokens(o, S) = {PackageOf[s] : s \in S}
           /\ \A p \in DOMAIN Tokens(o, S) :
                 /\ LastOf(p, S) \in S /\ PackageOf[LastOf(p, S)] = p
                 /\ Tokens(o, S)[p] = o[LastOf(p, S)].version
                 /\ \A u \in S : PackageOf[u] = p /\ u # LastOf(p, S) => Before(u, LastOf(p, S))
<1>1. S \subseteq Servers /\ S \subseteq DOMAIN o
  BY ChoiceIs
<1>2. /\ DOMAIN Tokens(o, S) = {PackageOf[s] : s \in S}
      /\ \A p \in DOMAIN Tokens(o, S) : Tokens(o, S)[p] = o[LastOf(p, S)].version
  BY DEF Tokens
<1>3. \A p \in DOMAIN Tokens(o, S) :
         /\ LastOf(p, S) \in S /\ PackageOf[LastOf(p, S)] = p
         /\ \A u \in S : PackageOf[u] = p /\ u # LastOf(p, S) => Before(u, LastOf(p, S))
  BY <1>1, <1>2, LastOfIs
<1>4. \A p \in DOMAIN Tokens(o, S) : Tokens(o, S)[p] \in Versions \union {Latest}
  BY <1>1, <1>2, <1>3, ChoiceIs DEF Pick
<1>5. DOMAIN Tokens(o, S) \in SUBSET Packages
  BY <1>1, <1>2 DEF Packages
<1>6. Tokens(o, S) \in [DOMAIN Tokens(o, S) -> Versions \union {Latest}]
  BY <1>4 DEF Tokens
<1>7. Tokens(o, S) \in Bun
  BY <1>5, <1>6, BunOf
<1> QED BY <1>2, <1>3, <1>7

LEMMA NewestIs == Newest \in Versions
BY VersionsAssumption DEF Newest

LEMMA InstallTypes ==
    ASSUME NEW inst \in [Packages -> Versions \union {None}], NEW tokens \in Bun
    PROVE  Install(inst, tokens) \in [Packages -> Versions \union {None}]
<1>1. \A p \in DOMAIN tokens : tokens[p] \in Versions \union {Latest}
  BY BunIs
<1> QED BY <1>1, NewestIs DEF Install

\* What is installed for a token suits every server of the package that is wanted.
Suits(o, s, version) == version # None /\ (o[s].version = Latest \/ o[s].version = version)

LEMMA TokenSuits ==
    ASSUME NEW o \in Choices, PinsAgree(o), NEW inst, NEW S, S = Wanted(o) \/ S = Misfits(o, inst),
           NEW s \in Wanted(o), PackageOf[s] \in DOMAIN Tokens(o, S)
    PROVE  Suits(o, s, IF Tokens(o, S)[PackageOf[s]] = Latest THEN Newest
                       ELSE Tokens(o, S)[PackageOf[s]])
<1> DEFINE p == PackageOf[s]
           l == LastOf(p, S)
           v == Tokens(o, S)[p]
<1>1. S \in SUBSET Wanted(o)
  BY DEF Misfits
<1>2. /\ l \in S /\ PackageOf[l] = p /\ v = o[l].version
      /\ \A u \in S : PackageOf[u] = p /\ u # l => Before(u, l)
  BY ZenonT(30), <1>1, TokensAre
<1>3. v \in Versions \union {Latest} /\ Newest \in Versions /\ None \notin Versions
      /\ o[s].version \in Versions \union {Latest}
  BY <1>1, <1>2, ChoiceIs, NewestIs, VersionsAssumption DEF Pick, None
<1> HIDE DEF p, l, v
<1>4. CASE o[s].version = Latest
  BY <1>3, <1>4 DEF Suits, v, p, None, Latest
<1>5. CASE o[s].version # Latest
  <2>1. v = o[s].version \/ (v = Latest /\ Before(l, s))
    BY <1>1, <1>2, <1>5 DEF PinsAgree, Pinned, p
  <2>2. CASE v = o[s].version
    BY <1>3, <1>5, <2>2 DEF Suits, v, p, None, Latest
  <2>3. CASE v = Latest /\ Before(l, s)
    <3>1. s \notin S
      BY <1>2, <2>3, BeforeOnce DEF p
    <3>2. S = Misfits(o, inst) /\ s \notin Misfits(o, inst)
      BY <3>1
    <3>3. inst[p] = o[s].version /\ inst[p] # None
      BY <1>3, <1>5, <3>2 DEF Misfits, p, None, Latest
    <3>4. inst[p] = None
      BY <1>2, <2>3, <3>2 DEF Misfits
    <3> QED BY <3>3, <3>4
  <2> QED BY <2>1, <2>2, <2>3
<1> QED BY <1>4, <1>5

LEMMA SuitsFits ==
    ASSUME NEW o, NEW inst, \A s \in Wanted(o) : Suits(o, s, inst[PackageOf[s]])
    PROVE  Misfits(o, inst) = {}
BY DEF Misfits, Suits

\* After the installation of an Apply nothing is missing or of another version.
LEMMA InstallFits ==
    ASSUME NEW o \in Choices, PinsAgree(o), NEW inst \in [Packages -> Versions \union {None}],
           NEW S, S = Wanted(o) \/ S = Misfits(o, inst)
    PROVE  Misfits(o, Install(inst, Tokens(o, S))) = {}
<1>1. S \in SUBSET Wanted(o)
  BY DEF Misfits
<1>2. ASSUME NEW s \in Wanted(o) PROVE Suits(o, s, Install(inst, Tokens(o, S))[PackageOf[s]])
  <2> DEFINE p == PackageOf[s]
  <2>1. p \in Packages
    BY ChoiceIs DEF Packages
  <2>2. CASE p \in DOMAIN Tokens(o, S)
    <3>1. Suits(o, s, IF Tokens(o, S)[p] = Latest THEN Newest ELSE Tokens(o, S)[p])
      BY <2>2, TokenSuits
    <3>2. Install(inst, Tokens(o, S))[p] =
             (IF Tokens(o, S)[p] = Latest THEN Newest ELSE Tokens(o, S)[p])
      BY <2>1, <2>2 DEF Install
    <3> QED BY <3>1, <3>2
  <2>3. CASE p \notin DOMAIN Tokens(o, S)
    <3>1. s \notin S
      <4>1. DOMAIN Tokens(o, S) = {PackageOf[t] : t \in S}
        BY <1>1, TokensAre
      <4> QED BY <2>3, <4>1
    <3>2. Install(inst, Tokens(o, S))[p] = inst[p]
      BY <2>1, <2>3 DEF Install
    <3>3. s \notin Misfits(o, inst)
      BY <1>1, <3>1
    <3>4. o[s].version \in Versions \union {Latest} /\ None \notin Versions
      <4>1. s \in DOMAIN o /\ o[s] \in Pick
        BY ChoiceIs
      <4> QED BY <4>1, VersionsAssumption DEF Pick, None
    <3>5. inst[p] # None /\ o[s].version \in {Latest, inst[p]}
      BY <3>3 DEF Misfits
    <3>6. Suits(o, s, inst[p])
      BY <3>4, <3>5 DEF Suits, None, Latest
    <3> QED BY <3>2, <3>6
  <2> QED BY <2>2, <2>3
<1> QED BY <1>2, SuitsFits

\* So it is after a start that installs what Apply has put into BUN_PACKAGES.
LEMMA DeriveFits ==
    ASSUME NEW o \in Choices, PinsAgree(o), NEW inst \in [Packages -> Versions \union {None}],
           NEW b \in Bun
    PROVE  Misfits(o, Install(inst, Derive(b, o))) = {}
<1> DEFINE tokens == Tokens(o, Wanted(o))
<1>1. /\ DOMAIN Derive(b, o) = DOMAIN tokens \union DOMAIN b
      /\ \A p \in DOMAIN tokens : Derive(b, o)[p] = tokens[p]
  BY DEF Derive
<1>2. ASSUME NEW s \in Wanted(o) PROVE Suits(o, s, Install(inst, Derive(b, o))[PackageOf[s]])
  <2> DEFINE p == PackageOf[s]
  <2>1. p \in Packages /\ p \in DOMAIN tokens
    <3>1. Wanted(o) \in SUBSET Wanted(o) /\ Wanted(o) \subseteq Servers
      BY ChoiceIs
    <3>2. DOMAIN tokens = {PackageOf[t] : t \in Wanted(o)}
      BY <3>1, TokensAre
    <3> QED BY <3>1, <3>2 DEF Packages
  <2>2. Suits(o, s, IF tokens[p] = Latest THEN Newest ELSE tokens[p])
    BY <2>1, TokenSuits
  <2>3. Install(inst, Derive(b, o))[p] = (IF tokens[p] = Latest THEN Newest ELSE tokens[p])
    BY <1>1, <2>1 DEF Install
  <2> QED BY <2>2, <2>3
<1> QED BY <1>2, SuitsFits

LEMMA DeriveTypes ==
    ASSUME NEW o \in Choices, NEW b \in Bun
    PROVE  Derive(b, o) \in Bun
<1> DEFINE tokens == Tokens(o, Wanted(o))
           D == DOMAIN tokens \union DOMAIN b
<1>1. tokens \in Bun
  BY TokensAre
<1>2. /\ D \in SUBSET Packages
      /\ \A p \in DOMAIN tokens : tokens[p] \in Versions \union {Latest}
      /\ \A p \in DOMAIN b : b[p] \in Versions \union {Latest}
  BY <1>1, BunIs
<1>3. Derive(b, o) \in [D -> Versions \union {Latest}]
  BY <1>2 DEF Derive
<1> QED BY <1>2, <1>3, BunOf

LEMMA ParsedTypes ==
    ASSUME NEW raw \in Choices \union {Unset}
    PROVE  Parsed(raw) \in Choices
<1>1. CASE raw = Unset
  BY <1>1, NothingIs DEF Parsed
<1>2. CASE raw # Unset
  <2> DEFINE D == DOMAIN raw \union Builtin
             f(s) == IF s \notin Builtin THEN raw[s]
                     ELSE [enabled |-> TRUE,
                           version |-> IF s \in DOMAIN raw THEN raw[s].version ELSE Latest]
  <2>1. D \in SUBSET Servers /\ \A s \in DOMAIN raw : raw[s] \in Pick
    BY <1>2, ChoiceIs, CatalogAssumption
  <2>2. \A s \in D : f(s) \in Pick
    BY <2>1 DEF Pick
  <2>3. Parsed(raw) = [s \in D |-> f(s)]
    BY <1>2 DEF Parsed
  <2> QED BY <2>1, <2>2, <2>3, ChoiceOf
<1> QED BY <1>1, <1>2

\* Reading what Apply has written gives the same choice again.
LEMMA ParsedTwice ==
    ASSUME NEW raw \in Choices
    PROVE  Parsed(Parsed(raw)) = Parsed(raw)
<1> DEFINE o == Parsed(raw)
<1>1. o \in Choices /\ o # Unset /\ raw # Unset
  BY ParsedTypes, RequestsAssumption
<1>2. /\ DOMAIN o = DOMAIN raw \union Builtin
      /\ \A s \in DOMAIN o : s \in Builtin =>
            o[s] = [enabled |-> TRUE, version |-> o[s].version]
      /\ o = [s \in DOMAIN o |-> o[s]]
  BY <1>1 DEF Parsed
<1> HIDE DEF o
<1>3. Parsed(o) = [s \in DOMAIN o \union Builtin |->
                     IF s \notin Builtin THEN o[s]
                     ELSE [enabled |-> TRUE,
                           version |-> IF s \in DOMAIN o THEN o[s].version ELSE Latest]]
  BY <1>1 DEF Parsed
<1>4. DOMAIN o \union Builtin = DOMAIN o
  BY <1>2
<1>5. Parsed(o) = [s \in DOMAIN o |-> o[s]]
  BY <1>2, <1>3, <1>4
<1> QED BY <1>2, <1>5 DEF o
-----------------------------------------------------------------------------
(* Language servers: the requests. *)

ApplyRecords ==
    [pc : {"idle", "observe", "install", "block", "persist", "push", "done"},
     over : Choices, env : Environments, todo : Bun, alone : BOOLEAN]

LEMMA LspTypes ==
    ASSUME LspInv
    PROVE  /\ dotenv \in Environments /\ cenv \in Environments /\ managed \in Environments
           /\ installed \in [Packages -> Versions \union {None}] /\ block \subseteq Servers
           /\ a \in [Appliers -> ApplyRecords]
BY DEF LspInv, LspTypeOK, ApplyRecords

LEMMA RestIs ==
    /\ Rest \in ApplyRecords /\ Rest.pc = "idle" /\ Rest.alone
    /\ DOMAIN Rest = {"pc", "over", "env", "todo", "alone"}
BY NothingIs DEF Rest, ApplyRecords, Environments

LEMMA CrossedKnows ==
    ASSUME LspInv, NEW K \in SUBSET Appliers
    PROVE  /\ Crossed(K) \in [Appliers -> ApplyRecords]
           /\ \A l \in K : Crossed(K)[l].alone => Crossed(K)[l].pc = "idle"
<1>1. a \in [Appliers -> ApplyRecords]
  BY LspTypes
<1>2. \A l \in Appliers : /\ DisturbedApply(l) \in ApplyRecords
                          /\ DisturbedApply(l).alone => DisturbedApply(l).pc = "idle"
  <2> SUFFICES ASSUME NEW l \in Appliers
               PROVE  /\ DisturbedApply(l) \in ApplyRecords
                      /\ DisturbedApply(l).alone => DisturbedApply(l).pc = "idle"
    OBVIOUS
  <2>1. CASE a[l].pc \in {"idle", "done"}
    BY <2>1, RestIs DEF DisturbedApply
  <2>2. CASE a[l].pc \notin {"idle", "done"}
    BY <1>1, <2>2 DEF DisturbedApply, ApplyRecords
  <2> QED BY <2>1, <2>2
<1> QED BY <1>1, <1>2 DEF Crossed

LEMMA LspStays ==
    ASSUME LspInv, UNCHANGED lspVars
    PROVE  LspInv'
BY DEF LspInv, LspTypeOK, LspKnown, lspVars

LEMMA IdleKnows ==
    ASSUME NEW x, x.alone => x.pc = "idle", NEW env, NEW imported, NEW inst, NEW blk
    PROVE  Reached(x, env, imported, inst, blk)
BY DEF Reached

\* Whatever a server is saved or started with crosses every Apply under way.
LEMMA LspCrossed ==
    ASSUME LspInv, a' = Crossed(Appliers),
           dotenv' \in Environments, cenv' \in Environments, managed' = managed,
           installed' \in [Packages -> Versions \union {None}], block' \in SUBSET Servers
    PROVE  LspInv'
<1>1. /\ a' \in [Appliers -> ApplyRecords]
      /\ \A l \in Appliers : a'[l].alone => a'[l].pc = "idle"
  BY CrossedKnows
<1>2. LspTypeOK'
  BY <1>1, LspTypes DEF LspTypeOK, ApplyRecords
<1>3. \A l \in Appliers : LspKnown(l)'
  BY <1>1, IdleKnows DEF LspKnown
<1> QED BY <1>2, <1>3 DEF LspInv

\* One Apply moves to x and crosses the others.
LEMMA LspTurn ==
    ASSUME LspInv, NEW k \in Appliers, NEW x \in ApplyRecords, Step(k, x),
           dotenv' \in Environments, cenv' = cenv, managed' \in Environments,
           installed' \in [Packages -> Versions \union {None}], block' \in SUBSET Servers,
           Reached(x, dotenv', managed', installed', block')
    PROVE  LspInv'
<1>1. /\ a' \in [Appliers -> ApplyRecords] /\ a'[k] = x
      /\ \A l \in Appliers \ {k} : a'[l].alone => a'[l].pc = "idle"
  BY CrossedKnows DEF Step
<1>2. LspTypeOK'
  BY <1>1, LspTypes DEF LspTypeOK, ApplyRecords
<1>3. LspKnown(k)'
  BY <1>1 DEF LspKnown
<1>4. \A l \in Appliers \ {k} : LspKnown(l)'
  BY <1>1, IdleKnows DEF LspKnown
<1> QED BY <1>2, <1>3, <1>4 DEF LspInv

LEMMA StartsLsp ==
    ASSUME LspInv, NEW k \in Appliers, ApplyStarts(k)
    PROVE  LspInv'
<1>1. PICK x : x = [Rest EXCEPT !.pc = "observe", !.over = Parsed(dotenv.lsp)]
  OBVIOUS
<1>2. dotenv.lsp \in Choices \union {Unset}
  BY LspTypes DEF Environments
<1>3. Parsed(dotenv.lsp) \in Choices
  BY <1>2, ParsedTypes
<1>4. x \in ApplyRecords /\ x.pc = "observe" /\ x.over = Parsed(dotenv.lsp)
  BY <1>1, <1>3, RestIs DEF ApplyRecords
<1>5. Step(k, x) /\ UNCHANGED <<dotenv, cenv, managed, installed, block>>
  BY <1>1 DEF ApplyStarts
<1>6. Reached(x, dotenv', managed', installed', block')
  BY <1>4, <1>5 DEF Reached
<1> QED BY <1>4, <1>5, <1>6, LspTypes, LspTurn

LEMMA ObservesLsp ==
    ASSUME LspInv, NEW k \in Appliers, NEW answers \in BOOLEAN, ApplyObserves(k, answers)
    PROVE  LspInv'
<1>1. PICK o : o = a[k].over
  OBVIOUS
<1>2. PICK S : S = IF answers THEN Misfits(o, installed) ELSE Wanted(o)
  OBVIOUS
<1>3. PICK todo : todo = Tokens(o, S)
  OBVIOUS
<1>4. PICK x : x = [Goes(k, IF todo = Nothing THEN "block" ELSE "install")
                      EXCEPT !.env = dotenv, !.todo = todo]
  OBVIOUS
<1>5. /\ a[k] \in ApplyRecords /\ o \in Choices /\ dotenv \in Environments
      /\ installed \in [Packages -> Versions \union {None}]
  BY <1>1, LspTypes DEF ApplyRecords
<1>6. /\ a[k].pc = "observe" /\ Step(k, x) /\ UNCHANGED <<dotenv, cenv, managed, installed, block>>
  BY <1>1, <1>2, <1>3, <1>4 DEF ApplyObserves
<1>7. S = Wanted(o) \/ S = Misfits(o, installed)
  BY <1>2
<1>8. S \in SUBSET Wanted(o) /\ Misfits(o, installed) \subseteq Wanted(o)
  BY <1>7 DEF Misfits
<1>9. todo \in Bun /\ DOMAIN todo = {PackageOf[s] : s \in S}
  BY <1>3, <1>5, <1>8, TokensAre
<1>10. /\ x \in ApplyRecords /\ x.pc = (IF todo = Nothing THEN "block" ELSE "install")
       /\ x.over = o /\ x.env = dotenv /\ x.todo = todo /\ x.alone = a[k].alone
  BY <1>1, <1>4, <1>5, <1>9 DEF ApplyRecords, Goes
<1>11. x.alone => o = Parsed(dotenv.lsp)
  BY <1>1, <1>6, <1>10 DEF LspInv, LspKnown, Reached
<1>12. x.pc = "install" =>
         (PinsAgree(o) => Misfits(o, Install(installed, todo)) = {})
  BY <1>3, <1>5, <1>7, InstallFits
<1>13. x.pc = "block" => Misfits(o, installed) = {}
  <2> SUFFICES ASSUME x.pc = "block" PROVE Misfits(o, installed) = {}
    OBVIOUS
  <2>1. S = {}
    BY <1>9, <1>10, NothingIs
  <2> QED BY <1>7, <1>8, <2>1
<1>14. Reached(x, dotenv', managed', installed', block')
  BY <1>6, <1>10, <1>11, <1>12, <1>13 DEF Reached
<1> QED BY <1>6, <1>10, <1>14, LspTypes, LspTurn

LEMMA InstallsLsp ==
    ASSUME LspInv, NEW k \in Appliers, ApplyInstalls(k)
    PROVE  LspInv'
<1>1. PICK x : x = Goes(k, "block")
  OBVIOUS
<1>2. a[k] \in ApplyRecords /\ Reached(a[k], dotenv, managed, installed, block)
  BY LspTypes DEF LspInv, LspKnown
<1>3. /\ x \in ApplyRecords /\ x.pc = "block" /\ x.over = a[k].over /\ x.env = a[k].env
      /\ x.alone = a[k].alone /\ a[k].todo \in Bun
  BY <1>1, <1>2 DEF ApplyRecords, Goes
<1>4. /\ a[k].pc = "install" /\ Step(k, x) /\ UNCHANGED <<dotenv, cenv, managed, block>>
      /\ installed' = Install(installed, a[k].todo)
  BY <1>1 DEF ApplyInstalls
<1>5. Reached(x, dotenv', managed', installed', block')
  BY <1>2, <1>3, <1>4 DEF Reached
<1>6. installed' \in [Packages -> Versions \union {None}]
  BY <1>3, <1>4, LspTypes, InstallTypes
<1> QED BY <1>3, <1>4, <1>5, <1>6, LspTypes, LspTurn

LEMMA WritesBlockLsp ==
    ASSUME LspInv, NEW k \in Appliers, ApplyWritesBlock(k)
    PROVE  LspInv'
<1>1. PICK x : x = Goes(k, "persist")
  OBVIOUS
<1>2. a[k] \in ApplyRecords /\ Reached(a[k], dotenv, managed, installed, block)
  BY LspTypes DEF LspInv, LspKnown
<1>3. /\ x \in ApplyRecords /\ x.pc = "persist" /\ x.over = a[k].over /\ x.env = a[k].env
      /\ x.alone = a[k].alone /\ a[k].over \in Choices
  BY <1>1, <1>2 DEF ApplyRecords, Goes
<1>4. /\ a[k].pc = "block" /\ Step(k, x) /\ UNCHANGED <<dotenv, cenv, managed, installed>>
      /\ block' = Wanted(a[k].over)
  BY <1>1 DEF ApplyWritesBlock
<1>5. Reached(x, dotenv', managed', installed', block')
  BY <1>2, <1>3, <1>4 DEF Reached
<1>6. block' \in SUBSET Servers
  BY <1>3, <1>4, ChoiceIs
<1> QED BY <1>3, <1>4, <1>5, <1>6, LspTypes, LspTurn

LEMMA WroteIs ==
    ASSUME LspInv, NEW k \in Appliers
    PROVE  /\ Wrote(k) = [lsp |-> a[k].over, bun |-> Derive(a[k].env.bun, a[k].over)]
           /\ Wrote(k).lsp \in Choices /\ Wrote(k).bun \in Bun
           /\ Wrote(k) \in Environments
<1>1. a[k].over \in Choices /\ a[k].env.bun \in Bun
  BY LspTypes DEF ApplyRecords, Environments
<1>2. Derive(a[k].env.bun, a[k].over) \in Bun
  BY <1>1, DeriveTypes
<1> QED BY <1>1, <1>2 DEF Wrote, Environments

LEMMA PersistsLsp ==
    ASSUME LspInv, NEW k \in Appliers, ApplyPersists(k)
    PROVE  LspInv'
<1>1. PICK x : x = Goes(k, "push")
  OBVIOUS
<1>2. /\ a[k] \in ApplyRecords /\ Reached(a[k], dotenv, managed, installed, block)
      /\ dotenv \in Environments
  BY LspTypes DEF LspInv, LspKnown
<1>3. /\ x \in ApplyRecords /\ x.pc = "push" /\ x.over = a[k].over /\ x.env = a[k].env
      /\ x.alone = a[k].alone
  BY <1>1, <1>2 DEF ApplyRecords, Goes
<1>4. /\ a[k].pc = "persist" /\ Step(k, x) /\ UNCHANGED <<cenv, managed, installed, block>>
      /\ dotenv' = Persisted(k)
  BY <1>1 DEF ApplyPersists
<1>5. PICK w : w = Wrote(k)
  OBVIOUS
<1>6. /\ w = [lsp |-> a[k].over, bun |-> Derive(a[k].env.bun, a[k].over)]
      /\ w.lsp \in Choices /\ w.bun \in Bun
  BY <1>5, WroteIs
<1>7. dotenv' = [lsp |-> IF a[k].env.lsp = w.lsp THEN dotenv.lsp ELSE w.lsp,
                 bun |-> IF a[k].env.bun = w.bun THEN dotenv.bun ELSE w.bun]
  <2>1. DOMAIN dotenv = {"lsp", "bun"}
    BY <1>2 DEF Environments
  <2>2. dotenv' = [f \in {"lsp", "bun"} |-> IF a[k].env[f] = w[f] THEN dotenv[f] ELSE w[f]]
    BY <1>4, <1>5, <2>1 DEF Persisted
  <2> QED BY <2>2
<1>8. dotenv' \in Environments
  BY <1>2, <1>6, <1>7 DEF Environments
<1>9. a[k].env = dotenv => dotenv' = w
  BY <1>6, <1>7
<1>10. Reached(x, dotenv', managed', installed', block')
  BY <1>2, <1>3, <1>4, <1>6, <1>9 DEF Reached
<1> QED BY <1>3, <1>4, <1>8, <1>10, LspTypes, LspTurn

LEMMA PushesLsp ==
    ASSUME LspInv, NEW k \in Appliers, ApplyPushes(k)
    PROVE  LspInv'
<1>1. PICK x : x = Goes(k, "done")
  OBVIOUS
<1>2. a[k] \in ApplyRecords /\ Reached(a[k], dotenv, managed, installed, block)
  BY LspTypes DEF LspInv, LspKnown
<1>3. /\ x \in ApplyRecords /\ x.pc = "done" /\ x.over = a[k].over /\ x.env = a[k].env
      /\ x.alone = a[k].alone
  BY <1>1, <1>2 DEF ApplyRecords, Goes
<1>4. /\ a[k].pc = "push" /\ Step(k, x) /\ UNCHANGED <<dotenv, cenv, installed, block>>
      /\ managed' = Wrote(k)
  BY <1>1 DEF ApplyPushes
<1>5. /\ managed' = [lsp |-> a[k].over, bun |-> Derive(a[k].env.bun, a[k].over)]
      /\ managed' \in Environments
  BY <1>4, WroteIs
<1>6. Reached(x, dotenv', managed', installed', block')
  BY <1>2, <1>3, <1>4, <1>5 DEF Reached
<1> QED BY <1>3, <1>4, <1>5, <1>6, LspTypes, LspTurn

LEMMA FailsLsp ==
    ASSUME LspInv, NEW k \in Appliers, ApplyFails(k)
    PROVE  LspInv'
<1>1. Step(k, Rest) /\ UNCHANGED <<dotenv, cenv, managed, installed, block>>
  BY DEF ApplyFails
<1>2. Reached(Rest, dotenv', managed', installed', block')
  BY RestIs, IdleKnows
<1> QED BY <1>1, <1>2, RestIs, LspTypes, LspTurn

LEMMA PutLsp ==
    ASSUME LspInv, NEW o \in Submitted, Put(o)
    PROVE  LspInv'
<1>1. dotenv \in Environments /\ o \in Choices
  BY LspTypes, RequestsAssumption
<1>2. /\ dotenv' = [dotenv EXCEPT !.lsp = o] /\ a' = Crossed(Appliers)
      /\ UNCHANGED <<cenv, managed, installed, block>>
  BY DEF Put
<1>3. dotenv' \in Environments
  BY <1>1, <1>2 DEF Environments
<1> QED BY <1>2, <1>3, LspTypes, LspCrossed

\* What a start uses, and where its packages come from.
LEMMA ImportedIs ==
    ASSUME LspInv, NEW env \in Environments
    PROVE  Imported(env).lsp \in Choices \union {Unset} /\ Imported(env).bun \in Bun
BY LspTypes DEF Imported, Environments

LEMMA BootsLsp ==
    ASSUME LspInv, NEW env \in Environments, NEW fresh \in BOOLEAN, LspBoots(env, fresh)
    PROVE  LspInv'
<1>1. PICK base : base = IF fresh THEN [p \in Packages |-> None] ELSE installed
  OBVIOUS
<1>2. base \in [Packages -> Versions \union {None}]
  BY <1>1, LspTypes
<1>3. /\ cenv' = env /\ installed' = Install(base, Imported(env).bun)
      /\ block' = IF Imported(env).lsp = Unset THEN {} ELSE Wanted(Imported(env).lsp)
      /\ a' = Crossed(Appliers) /\ UNCHANGED <<dotenv, managed>>
  BY <1>1 DEF LspBoots
<1>4. installed' \in [Packages -> Versions \union {None}]
  BY <1>2, <1>3, ImportedIs, InstallTypes
<1>5. block' \in SUBSET Servers
  BY <1>3, ImportedIs, ChoiceIs
<1> QED BY <1>3, <1>4, <1>5, LspTypes, LspCrossed

LEMMA NextLsp == LspInv /\ [Next]_vars => LspInv'
<1> SUFFICES ASSUME LspInv, [Next]_vars PROVE LspInv'
  OBVIOUS
<1>1. CASE LspRequests
  BY <1>1, PutLsp, StartsLsp, ObservesLsp, InstallsLsp, WritesBlockLsp, PersistsLsp, PushesLsp, FailsLsp
     DEF LspRequests
<1>2. CASE LeanRequests \/ LineRequests \/ OverlayRequests \/ Reconfigure
  BY <1>2, LspStays DEF LeanRequests, LineRequests, OverlayRequests, Reconfigure, lspVars
<1>3. CASE Restart \/ Recreate
  BY <1>3, LspTypes, BootsLsp DEF Restart, Recreate, Boots
<1>4. CASE AdminDies
  <2>1. a' = [k \in Appliers |-> Rest] /\ UNCHANGED <<dotenv, cenv, managed, installed, block>>
    BY <1>4 DEF AdminDies
  <2>2. LspTypeOK'
    BY <2>1, RestIs, LspTypes DEF LspTypeOK, ApplyRecords
  <2>3. \A k \in Appliers : LspKnown(k)'
    BY <2>1, RestIs, IdleKnows DEF LspKnown
  <2> QED BY <2>2, <2>3 DEF LspInv
<1>5. ASSUME NEW k \in Migrators, NEW result \in {"ok", "fails", "late", "gone"}, MigrationRecreates(k, result)
      PROVE LspInv'
  BY <1>5, LspTypes, LspStays, BootsLsp DEF MigrationRecreates, Boots
<1>6. CASE UNCHANGED vars
  BY <1>6, LspStays DEF vars
<1> QED BY <1>1, <1>2, <1>3, <1>4, <1>5, <1>6 DEF Next
-----------------------------------------------------------------------------
(* The specification. *)

LEMMA InitIInv == Init => IInv
<1> SUFFICES ASSUME Init PROVE IInv
  OBVIOUS
<1>1. Counts
  BY BoundsAssumption DEF Init, Counts
<1>2. OverlayInv
  BY DEF Init, OverlayInit, OverlayInv, OverlayTypeOK, OverlayKnown, Asleep, References
<1>3. LeanInv
  BY LevelsAssumption DEF Init, LeanInit, LeanInv, LeanTypeOK, Snapshots, Readings, LeanKnown, Quiet, File, Forms, Baseline
<1>4. LineInv
  BY DEF Init, LineInit, LineInv, LineTypeOK, LineKnown, Free, Sets
<1>5. LspInv
  <2>1. [lsp |-> Unset, bun |-> Nothing] \in Environments
    BY NothingIs DEF Environments
  <2>2. LspTypeOK
    BY <2>1, RestIs DEF Init, LspInit, LspTypeOK, ApplyRecords
  <2>3. \A k \in Appliers : LspKnown(k)
    BY RestIs, IdleKnows DEF Init, LspInit, LspKnown
  <2> QED BY <2>2, <2>3 DEF LspInv
<1> QED BY <1>1, <1>2, <1>3, <1>4, <1>5 DEF IInv

LEMMA NextIInv == IInv /\ [Next]_vars => IInv'
BY NextCounts, NextOverlay, NextLean, NextLine, NextLsp DEF IInv

LEMMA Invariance == Spec => []IInv
<1> QED BY InitIInv, NextIInv, PTL DEF Spec

(* Everything that the four settings keep stays in its type (TypeOK). *)
THEOREM TypeCorrect == Spec => []TypeOK
<1>1. IInv => TypeOK
  BY DEF IInv, Counts, OverlayInv, LeanInv, LineInv, LspInv, TypeOK
<1> QED BY <1>1, Invariance, PTL

(* What ai-dev is recreated with is the overlay that .env names, and one that the    *)
(* validation has let through, unless the operator, the domain or another recreation *)
(* crosses it (restartAiDev, resolveValidatedEffectiveCompose).                      *)
THEOREM OverlayStands == Spec => []OverlayHonoured
<1>1. IInv => OverlayHonoured
  BY DEF IInv, OverlayInv, OverlayKnown, OverlayHonoured
<1> QED BY <1>1, Invariance, PTL

(* After an Apply of lean-ctx that nothing crosses the dashboard calls the snapshot *)
(* applied only when the daemon runs with it, and does so if what Apply has read    *)
(* and written for it has come back (applyLeanCtxConfig).                           *)
THEOREM SnapshotHolds == Spec => []SnapshotTrue
<1>1. IInv => SnapshotTrue
  <2> SUFFICES ASSUME IInv, NEW k \in Editors, e[k].pc = "done", e[k].alone
               PROVE  /\ ApplyState = "applied" => snapshot = daemon
                      /\ e[k].heard => ApplyState = "applied"
    BY DEF SnapshotTrue
  <2>1. daemon = Effective(saved) /\ (e[k].heard => snapshot = Effective(saved))
    BY DEF IInv, LeanInv, LeanKnown
  <2>2. Effective(saved) # "none"
    BY EffectiveLevel, LevelsAssumption DEF IInv, LeanInv, LeanTypeOK
  <2> QED BY <2>1, <2>2 DEF ApplyState
<1> QED BY <1>1, Invariance, PTL

(* A migration to the native line that nothing crosses is done entirely, or, when  *)
(* one step has failed, taken back entirely, but for the marker where a failed     *)
(* recreation has left no container (POST /api/openchamber/migrate-to-native).     *)
THEOREM MigratesOrReturns == Spec => []MigrationWhole
<1>1. IInv => MigrationWhole
  <2> SUFFICES ASSUME IInv, NEW k \in Migrators, m[k].alone
               PROVE  /\ m[k].pc = "done" => IsMigrated /\ line = "native" /\ cenvOmo = "0"
                      /\ m[k].pc \in {"undone", "left"} /\ faults <= (IF Refused THEN 0 ELSE 1) =>
                           /\ omo = m[k].had.omo
                           /\ m[k].pc = "undone" => marker = m[k].had.marker
    BY DEF MigrationWhole
  <2>1. LineKnown(k) /\ faults \in Nat
    BY DEF IInv, LineInv, Counts
  <2>2. m[k].pc = "done" => IsMigrated /\ line = "native" /\ cenvOmo = "0"
    BY <2>1 DEF LineKnown, IsMigrated
  <2>3. ASSUME m[k].pc \in {"undone", "left"}, faults <= (IF Refused THEN 0 ELSE 1)
        PROVE  omo = m[k].had.omo /\ (m[k].pc = "undone" => marker = m[k].had.marker)
    <3>1. ~(faults > Tolerated)
      BY <2>1, <2>3 DEF Tolerated
    <3> QED BY <2>1, <2>3, <3>1 DEF LineKnown
  <2> QED BY <2>2, <2>3
<1> QED BY <1>1, Invariance, PTL

LEMMA AppliedKnows ==
    ASSUME LspInv, NEW k \in Appliers, Applied(k)
    PROVE  /\ a[k].over \in Choices /\ a[k].env.bun \in Bun /\ a[k].env.lsp \in Choices \union {Unset}
           /\ PinsAgree(a[k].over)
           /\ Misfits(a[k].over, installed) = {} /\ block = Wanted(a[k].over)
           /\ managed = dotenv /\ a[k].over = Parsed(a[k].env.lsp)
           /\ dotenv = [lsp |-> a[k].over, bun |-> Derive(a[k].env.bun, a[k].over)]
<1>1. /\ a[k] \in ApplyRecords
      /\ Reached(a[k], dotenv, managed, installed, block)
  BY LspTypes DEF LspInv, LspKnown
<1>2. /\ a[k].over \in Choices /\ a[k].env.bun \in Bun /\ a[k].env.lsp \in Choices \union {Unset}
  BY <1>1 DEF ApplyRecords, Environments
<1>3. a[k].pc = "done" /\ a[k].alone /\ PinsAgree(a[k].over)
  BY DEF Applied
<1> QED BY <1>1, <1>2, <1>3 DEF Reached

(* An Apply that answers ok, that nothing has crossed and that found LSP_SERVERS set *)
(* leaves nothing to do: no drift against what .env now says, and lsp-managed.env    *)
(* says the same (apply in lsp-reconciler.ts).                                       *)
THEOREM AppliesSettle == Spec => []ApplySettles
<1>1. IInv => ApplySettles
  <2> SUFFICES ASSUME IInv, NEW k \in Appliers, Applied(k), a[k].env.lsp # Unset
               PROVE  Settles(k)
    BY DEF ApplySettles
  <2>1. LspInv
    BY DEF IInv
  <2>2. /\ Misfits(a[k].over, installed) = {} /\ block = Wanted(a[k].over)
        /\ managed = dotenv /\ dotenv.lsp = a[k].over
        /\ a[k].env.lsp \in Choices /\ a[k].over = Parsed(a[k].env.lsp)
    BY <2>1, AppliedKnows
  <2>3. Settled(a[k].over)
    BY <2>2 DEF Settled, Drift
  <2>4. Parsed(dotenv.lsp) = a[k].over
    BY <2>2, ParsedTwice
  <2> QED BY <2>2, <2>3, <2>4 DEF Settles
<1> QED BY <1>1, Invariance, PTL

\* A start with the environment that Apply has written, or with none of its own.
LEMMA StartFits ==
    ASSUME LspInv, NEW k \in Appliers, Applied(k), NEW env, NEW fresh \in BOOLEAN,
           env = dotenv \/ (env.lsp = Unset /\ env.bun = Nothing), LspBoots(env, fresh)
    PROVE  Drift(a[k].over, installed', block') = {}
<1>1. PICK o : o = a[k].over
  OBVIOUS
<1>2. PICK b : b = a[k].env.bun
  OBVIOUS
<1>3. PICK base : base = IF fresh THEN [p \in Packages |-> None] ELSE installed
  OBVIOUS
<1>4. base \in [Packages -> Versions \union {None}]
  BY <1>3, LspTypes
<1>5. /\ o \in Choices /\ b \in Bun /\ PinsAgree(o) /\ o # Unset
      /\ managed = dotenv /\ dotenv.lsp = o /\ dotenv.bun = Derive(b, o)
  BY <1>1, <1>2, AppliedKnows, RequestsAssumption
<1>6. Imported(env).lsp = o /\ Imported(env).bun = Derive(b, o)
  BY <1>5 DEF Imported
<1>7. installed' = Install(base, Derive(b, o)) /\ block' = Wanted(o)
  BY <1>3, <1>5, <1>6 DEF LspBoots
<1>8. Misfits(o, installed') = {}
  BY <1>4, <1>5, <1>7, DeriveFits
<1> QED BY <1>1, <1>7, <1>8 DEF Drift

(* Every recreation of the container brings what was applied, and so does a restart *)
(* whose environment chooses nothing (01-install-packages.sh, 02-init-config.sh).   *)
THEOREM StartsBringTheApplied == Spec => StartsConverge
<1>1. ASSUME IInv, [Next]_vars
      PROVE  [\A k \in Appliers :
                /\ recreations' # recreations => Converges(k)
                /\ restarts' # restarts /\ cenv.lsp = Unset /\ cenv.bun = Nothing => Converges(k)]_vars
  <2> SUFFICES ASSUME NEW k \in Appliers, Applied(k)
               PROVE  /\ recreations' # recreations => Drift(a[k].over, installed', block') = {}
                      /\ restarts' # restarts /\ cenv.lsp = Unset /\ cenv.bun = Nothing =>
                           Drift(a[k].over, installed', block') = {}
    BY DEF Converges
  <2>1. LspInv /\ restarts \in Nat /\ recreations \in Nat
    BY <1>1 DEF IInv, Counts
  <2>2. CASE Recreate
    <3>1. LspBoots(dotenv, TRUE) /\ UNCHANGED restarts
      BY <2>2 DEF Recreate, Boots
    <3> QED BY <2>1, <3>1, StartFits
  <2>3. CASE Restart
    <3>1. LspBoots(cenv, FALSE) /\ UNCHANGED recreations
      BY <2>3 DEF Restart, Boots
    <3> QED BY <2>1, <3>1, StartFits
  <2>4. CASE ~Recreate /\ ~Restart
    <3>1. UNCHANGED <<restarts, recreations>>
      <4>1. ASSUME NEW l \in Migrators, NEW result, MigrationRecreates(l, result)
            PROVE  UNCHANGED <<restarts, recreations>>
        BY <4>1 DEF MigrationRecreates, Continues
      <4>2. CASE LspRequests \/ LeanRequests
        BY <4>2 DEF LspRequests, LeanRequests, Request, Asked, Continues
      <4>3. CASE LineRequests \/ OverlayRequests
        BY <4>3 DEF LineRequests, OverlayRequests, Request, Asked, Continues
      <4>4. CASE Reconfigure \/ AdminDies \/ UNCHANGED vars
        BY <4>4 DEF Reconfigure, AdminDies, Request, Asked, Continues, vars
      <4> QED BY <1>1, <2>4, <4>1, <4>2, <4>3, <4>4 DEF Next
    <3> QED BY <3>1
  <2> QED BY <2>2, <2>3, <2>4
<1> QED BY <1>1, Invariance, PTL DEF Spec, StartsConverge
=============================================================================
