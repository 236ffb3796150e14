---------------------------- MODULE MCAgentModels ----------------------------
(* The instance of AgentModels that TLC checks. *)
EXTENDS AgentModels

CONSTANTS a1, a2, m1
MCAgents == {a1, a2}
MCNative == {a1}
MCModels == {m1}
\* One agent set; one cleared while the other is set.
MCAsked ==
  {[a \in MCAgents |-> IF a = a1 THEN x[1] ELSE x[2]] : x \in {<<m1, "keep">>, <<"none", m1>>}}
=============================================================================
