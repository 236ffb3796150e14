----------------------------- MODULE LspServers -----------------------------
(* The language servers: the operator's choice in .env, POST /api/lsp/apply,   *)
(* the installed packages and the generated lsp block, and what a start of the *)
(* container makes of them (src/admin/lib/lsp-reconciler.ts, lsp-config.ts,    *)
(* entrypoint.d/01-install-packages.sh and 02-init-config.sh).                 *)
EXTENDS Naturals, Sequences

CONSTANTS
  Catalog,    \* the servers, in the order of LSP_CATALOG
  PackageOf,  \* the npm package of a server; json, css and html share one
  Builtin,    \* servers that OpenCode starts anyway
  Versions,   \* published versions, numbered in order of release
  Submitted,  \* what an operator submits: overrides
  Appliers,   \* requests to apply
  Unset       \* no LSP_SERVERS

Servers == {Catalog[i] : i \in DOMAIN Catalog}
Before(s, t) == \E i, j \in DOMAIN Catalog : i < j /\ Catalog[i] = s /\ Catalog[j] = t
Packages == {PackageOf[s] : s \in Servers}
Latest == 0  \* version: null
None == 0    \* not installed
Nothing == [p \in {} |-> Latest]
\* The overrides of LSP_SERVERS; an environment without it holds none of them.
Choices == UNION {[D -> [enabled : BOOLEAN, version : Versions \union {Latest}]] : D \in SUBSET Servers}
Bun == UNION {[D -> Versions \union {Latest}] : D \in SUBSET Packages}
Environments == [lsp : Choices \union {Unset}, bun : Bun]

ASSUME CatalogAssumption ==
  /\ Catalog \in Seq({Catalog[i] : i \in DOMAIN Catalog})
  /\ \A i, j \in DOMAIN Catalog : Catalog[i] = Catalog[j] => i = j
  /\ Builtin \subseteq Servers
ASSUME VersionsAssumption ==
  /\ Versions \subseteq Nat \ {0} /\ \E v \in Versions : \A u \in Versions : u <= v
ASSUME RequestsAssumption == Submitted \subseteq Choices /\ Unset \notin Choices

VARIABLES
  dotenv,     \* .env: LSP_SERVERS, and BUN_PACKAGES as a function of the package
  cenv,       \* the environment that the container was created with
  managed,    \* lsp-managed.env, on the configuration volume
  installed,  \* the version of every package in the container
  block,      \* servers in the lsp block of opencode.json
  a           \* the requests to apply

lspVars == <<dotenv, cenv, managed, installed, block, a>>

Rest == [pc |-> "idle", over |-> Nothing, env |-> [lsp |-> Unset, bun |-> Nothing],
         todo |-> Nothing, alone |-> TRUE]

LspTypeOK ==
  /\ dotenv \in Environments /\ cenv \in Environments /\ managed \in Environments
  /\ installed \in [Packages -> Versions \union {None}] /\ block \subseteq Servers
  /\ a \in [Appliers -> [pc : {"idle", "observe", "install", "block", "persist", "push", "done"},
                         over : Choices, env : Environments, todo : Bun, alone : BOOLEAN]]

LspInit ==
  /\ dotenv = [lsp |-> Unset, bun |-> Nothing] /\ cenv = dotenv /\ managed = dotenv
  /\ installed = [p \in Packages |-> None] /\ block = {}
  /\ a = [k \in Appliers |-> Rest]
-----------------------------------------------------------------------------
(* Desired and observed *)

\* parseLspServers: without the variable nothing; with it, built-in servers are on.
Parsed(raw) ==
  IF raw = Unset THEN Nothing
  ELSE [s \in DOMAIN raw \union Builtin |->
          IF s \notin Builtin THEN raw[s]
          ELSE [enabled |-> TRUE, version |-> IF s \in DOMAIN raw THEN raw[s].version ELSE Latest]]

Wanted(o) == {s \in DOMAIN o : o[s].enabled}

\* missing_install or version_mismatch
Misfits(o, inst) ==
  {s \in Wanted(o) : inst[PackageOf[s]] = None \/ o[s].version \notin {Latest, inst[PackageOf[s]]}}
Drift(o, inst, blk) == Misfits(o, inst) \union (Wanted(o) \ blk)

\* One token per package: that of the last server in the catalog.
LastOf(p, S) ==
  CHOOSE s \in S : PackageOf[s] = p /\ \A t \in S : PackageOf[t] = p /\ t # s => Before(t, s)
Tokens(o, S) ==
  [p \in {PackageOf[s] : s \in S} |-> o[LastOf(p, S)].version]

Newest == CHOOSE v \in Versions : \A u \in Versions : u <= v
Install(inst, tokens) ==
  [p \in Packages |-> IF p \notin DOMAIN tokens THEN inst[p]
                      ELSE IF tokens[p] = Latest THEN Newest ELSE tokens[p]]

\* deriveBunPackages: the tokens of enabled servers over whatever else is listed.
Derive(existing, o) ==
  LET tokens == Tokens(o, Wanted(o)) IN
  [p \in DOMAIN tokens \union DOMAIN existing |-> IF p \in DOMAIN tokens THEN tokens[p] ELSE existing[p]]
-----------------------------------------------------------------------------
(* Requests *)

\* An Apply that something crosses is not alone; one that is over is forgotten.
DisturbedApply(k) == IF a[k].pc \in {"idle", "done"} THEN Rest ELSE [a[k] EXCEPT !.alone = FALSE]
Crossed(K) == [k \in Appliers |-> IF k \in K THEN DisturbedApply(k) ELSE a[k]]
Step(k, mine) == a' = [Crossed(Appliers \ {k}) EXCEPT ![k] = mine]
Goes(k, pc) == [a[k] EXCEPT !.pc = pc]

\* PUT /api/lsp: the submitted overrides as they are.
Put(o) ==
  /\ dotenv' = [dotenv EXCEPT !.lsp = o] /\ a' = Crossed(Appliers)
  /\ UNCHANGED <<cenv, managed, installed, block>>

ApplyStarts(k) ==
  /\ a[k].pc \in {"idle", "done"}
  /\ Step(k, [Rest EXCEPT !.pc = "observe", !.over = Parsed(dotenv.lsp)])
  /\ UNCHANGED <<dotenv, cenv, managed, installed, block>>

\* bun pm ls and jq answer, or fail and show nothing; only then is .env read.
ApplyObserves(k, answers) ==
  LET o == a[k].over
      todo == Tokens(o, IF answers THEN Misfits(o, installed) ELSE Wanted(o)) IN
  /\ a[k].pc = "observe"
  /\ Step(k, [Goes(k, IF todo = Nothing THEN "block" ELSE "install") EXCEPT !.env = dotenv, !.todo = todo])
  /\ UNCHANGED <<dotenv, cenv, managed, installed, block>>

ApplyInstalls(k) ==
  /\ a[k].pc = "install" /\ installed' = Install(installed, a[k].todo) /\ Step(k, Goes(k, "block"))
  /\ UNCHANGED <<dotenv, cenv, managed, block>>

ApplyWritesBlock(k) ==
  /\ a[k].pc = "block" /\ block' = Wanted(a[k].over) /\ Step(k, Goes(k, "persist"))
  /\ UNCHANGED <<dotenv, cenv, managed, installed>>

Wrote(k) == [lsp |-> a[k].over, bun |-> Derive(a[k].env.bun, a[k].over)]

\* MUTANT: a variable that .env does not have yet is left to the push.
PersistedKnown(k) == IF dotenv.bun = Nothing THEN [Wrote(k) EXCEPT !.bun = Nothing] ELSE Wrote(k)
\* Written only where it differs from what was read before the installation.
Persisted(k) ==
  [f \in DOMAIN dotenv |-> IF a[k].env[f] = Wrote(k)[f] THEN dotenv[f] ELSE Wrote(k)[f]]

ApplyPersists(k) ==
  /\ a[k].pc = "persist" /\ dotenv' = Persisted(k)
  /\ Step(k, Goes(k, "push"))
  /\ UNCHANGED <<cenv, managed, installed, block>>

ApplyPushes(k) ==
  /\ a[k].pc = "push"
  /\ managed' = Wrote(k)
  /\ Step(k, Goes(k, "done"))
  /\ UNCHANGED <<dotenv, cenv, installed, block>>

\* bun, jq or the push fails; what came before it stays.
ApplyFails(k) ==
  /\ a[k].pc \in {"install", "block", "push"} /\ Step(k, Rest)
  /\ UNCHANGED <<dotenv, cenv, managed, installed, block>>
-----------------------------------------------------------------------------
(* A start of the container *)

\* MUTANT: only the environment counts.
OnlyEnvironment(env) == env
\* What the environment does not set comes from lsp-managed.env.
Imported(env) ==
  [lsp |-> IF env.lsp = Unset THEN managed.lsp ELSE env.lsp,
   bun |-> IF env.bun = Nothing THEN managed.bun ELSE env.bun]

LspBoots(env, fresh) ==
  LET use == Imported(env)  base == IF fresh THEN [p \in Packages |-> None] ELSE installed IN
  /\ cenv' = env
  /\ installed' = Install(base, use.bun)
  /\ block' = IF use.lsp = Unset THEN {} ELSE Wanted(use.lsp)
  /\ a' = Crossed(Appliers) /\ UNCHANGED <<dotenv, managed>>
=============================================================================
