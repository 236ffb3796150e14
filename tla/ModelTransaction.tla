-------------------------- MODULE ModelTransaction --------------------------
(* What applying agent models promises whoever asks for it, whatever else     *)
(* runs beside it: a result that says the new configuration stands is told    *)
(* by a job whose last act was to write it, or that found it there, or that   *)
(* never saw the configuration and assumed so; and a result that says the old *)
(* one is back by a job that wrote nothing or put back what it had saved.     *)
CONSTANTS
  Jobs,      \* those who apply
  Configs,   \* contents of the configuration file
  Unset      \* no content

VARIABLES
  store, phase, before, told,
  asked  \* what each of them is asked for, per part of the configuration (an input)

vars == <<store, phase, before, told>>

\* The statuses that promise the one and the other; the rest promises nothing.
Stands == {"verified", "cleared", "applied_with_quota_warning", "runtime_mismatch"}
IsBack == {"write_failed", "restart_failed", "probe_failed"}
Promise(statuses, p) ==
  /\ statuses \intersect Stands # {} => p \in {"written", "found", "assumed"}
  /\ statuses \intersect IsBack # {} => p \in {"idle", "undone"}

Init ==
  /\ store \in Configs
  /\ phase = [j \in Jobs |-> "idle"]
  /\ before = [j \in Jobs |-> Unset]
  /\ told = [j \in Jobs |-> {}]

Tells(j) == told[j] = {} /\ told' = [told EXCEPT ![j] = told'[j]] /\ Promise(told'[j], phase'[j])

Open(j) ==
  /\ phase[j] = "idle"
  /\ phase' = [phase EXCEPT ![j] = "open"]
  /\ before' = [before EXCEPT ![j] = store]
  /\ UNCHANGED <<store, told>>

\* Everything asked for is there already: nothing is written.
Find(j) ==
  /\ phase[j] = "idle"
  /\ \A a \in DOMAIN asked[j] : asked[j][a] # "keep" => store[a] = asked[j][a]
  /\ phase' = [phase EXCEPT ![j] = "found"]
  /\ Tells(j)
  /\ UNCHANGED <<store, before>>

\* The configuration could not be read, and nothing is written.
Assume(j) ==
  /\ phase[j] = "idle"
  /\ phase' = [phase EXCEPT ![j] = "assumed"]
  /\ Tells(j)
  /\ UNCHANGED <<store, before>>

Write(j) ==
  /\ phase[j] \in {"open", "written"}
  /\ phase' = [phase EXCEPT ![j] = "written"]
  /\ store' \in Configs
  /\ UNCHANGED <<before, told>>

\* The answer may go out with the step that restores.
Undo(j) ==
  /\ phase[j] \in {"open", "written"}
  /\ phase' = [phase EXCEPT ![j] = "undone"]
  /\ store' = before[j]
  /\ UNCHANGED before
  /\ UNCHANGED told \/ Tells(j)

Tell(j) == Tells(j) /\ UNCHANGED <<store, phase, before>>

\* A new request in the place of an old one, or a restart that forgets them: it
\* has done nothing and promises nothing, unless it is turned away at once.
Again ==
  /\ UNCHANGED store
  /\ \E news \in SUBSET Jobs : \E turned \in SUBSET news :
       /\ phase' = [j \in Jobs |-> IF j \in turned THEN "assumed"
                                   ELSE IF j \in news THEN "idle" ELSE phase[j]]
       /\ before' = [j \in Jobs |-> IF j \in news THEN Unset ELSE before[j]]
       /\ \A j \in Jobs : /\ j \in turned => Promise(told'[j], "assumed")
                          /\ j \in news \ turned => told'[j] = {}
                          /\ j \notin news => told'[j] = told[j]

Next == Again \/ \E j \in Jobs : Open(j) \/ Find(j) \/ Assume(j) \/ Write(j) \/ Undo(j) \/ Tell(j)

Spec == Init /\ [][Next]_vars
=============================================================================
