------------------------------- MODULE MCBoot -------------------------------
(* Two images: the second renames the agent of the first.                    *)
EXTENDS Boot
MCShips == [i \in Images |-> IF i = 1 THEN {"atlas"} ELSE {"hermes"}]
=============================================================================
