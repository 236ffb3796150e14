----------------------------- MODULE MCGitHosting -----------------------------
(* The instance of GitHosting that TLC checks: hosts, evaluation, users. *)
EXTENDS GitHosting
=============================================================================
