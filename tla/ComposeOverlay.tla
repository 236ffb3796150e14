---------------------------- MODULE ComposeOverlay ----------------------------
(* The domain's Compose overlay (src/admin/lib/compose-overlay.ts): what .env   *)
(* names is resolved, looked at alone and merged with the base, and only then   *)
(* given to docker compose, which reads the file once more.                     *)
EXTENDS Naturals

CONSTANTS
  Contents,   \* what an overlay may declare, each a set of parts
  Recreators  \* requests that recreate ai-dev

VARIABLES
  ref,     \* AI_ENGKIT_COMPOSE_OVERLAY: "none", "domain", or "outside" the extensions
  file,    \* the domain's overlay; not there, or no readable file, when ~usable
  runs,    \* the parts that ai-dev was last created with
  r        \* the requests

overlayVars == <<ref, file, runs, r>>

References == {"none", "domain", "outside"}
\* What a domain may add to ai-dev.  Other parts: a protected field, a bind mount of a
\* host path, another service, a key of the file that Compose has and the overlay may not.
Allowed == {"environment", "networks", "named volume", "labels", "healthcheck"}
NotThere == [usable |-> FALSE, parts |-> {}]
Asleep == [pc |-> "idle", plan |-> "none", alone |-> TRUE]

OverlayTypeOK ==
  /\ ref \in References /\ file \in {NotThere} \union [usable : {TRUE}, parts : Contents]
  /\ runs \in Contents \union {{}}
  /\ r \in [Recreators -> [pc : {"idle", "validate", "up", "done"}, plan : References, alone : BOOLEAN]]

OverlayInit ==
  /\ ref = "none" /\ file = NotThere /\ runs = {} /\ r = [k \in Recreators |-> Asleep]

\* A request that something crosses is not alone; one that is over is forgotten.
Accompanied ==
  [k \in Recreators |-> IF r[k].pc \in {"idle", "done"} THEN Asleep ELSE [r[k] EXCEPT !.alone = FALSE]]

\* MUTANT: an overlay that cannot be used is none.
ResolvedOpen == IF ref = "domain" /\ file.usable THEN "domain" ELSE "none"
\* resolveOverlay: no overlay, a readable file beneath the extensions directory, or
\* an error.
Resolved ==
  CASE ref = "none" -> "none"
    [] ref = "domain" /\ file.usable -> "domain"
    [] OTHER -> "refused"

\* validateOverlayAloneJson
Acceptable == file.usable /\ file.parts \subseteq Allowed
\* resolveEffectiveCompose: the base, and the overlay after it.
Merged(plan) == IF plan = "domain" THEN file.parts ELSE {}

\* The operator names an overlay in .env, or none; the domain project writes it.
Name(to) == ref' = to /\ r' = Accompanied /\ UNCHANGED <<file, runs>>
Author(f) == file' = f /\ r' = Accompanied /\ UNCHANGED <<ref, runs>>

\* restartAiDev begins: without an overlay there is nothing to validate.
Resolve(k) ==
  /\ r[k].pc \in {"idle", "done"}
  /\ r' = [Accompanied EXCEPT ![k] =
       IF Resolved = "refused" THEN Asleep
       ELSE [Asleep EXCEPT !.plan = Resolved, !.pc = IF Resolved = "none" THEN "up" ELSE "validate"]]
  /\ UNCHANGED <<ref, file, runs>>

\* The overlay alone, then base and overlay, of which compose may refuse either.
Validate(k, works) ==
  /\ r[k].pc = "validate"
  /\ r' = [r EXCEPT ![k] = IF works /\ Acceptable THEN [@ EXCEPT !.pc = "up"] ELSE Asleep]
  /\ UNCHANGED <<ref, file, runs>>

\* docker compose up with the files of the plan, which fails when one has gone.
Missing(plan) == plan = "domain" /\ ~file.usable
Up(k) ==
  /\ r[k].pc = "up" /\ ~Missing(r[k].plan)
  /\ runs' = Merged(r[k].plan)
  /\ r' = [Accompanied EXCEPT ![k] = [r[k] EXCEPT !.pc = "done", !.plan = "none"]]
  /\ UNCHANGED <<ref, file>>

UpFails(k) == r[k].pc = "up" /\ r' = [r EXCEPT ![k] = Asleep] /\ UNCHANGED <<ref, file, runs>>

\* A recreation that a migration of the agent line asks for, in one step.
Refused == Resolved = "refused" \/ (Resolved = "domain" /\ ~Acceptable)
UpAtOnce == ~Refused /\ runs' = Merged(Resolved) /\ r' = Accompanied /\ UNCHANGED <<ref, file>>
=============================================================================
