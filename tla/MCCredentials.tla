----------------------------- MODULE MCCredentials -----------------------------
(* The instance of Credentials that TLC checks. *)
EXTENDS Credentials
CONSTANTS f1, m1, m2
MCFlows == {f1}
MCModels == {m1, m2}
\* The old credential serves one model, the login the other one.
MCServes == {<<Old, m1>>, <<f1, m2>>}
R(marks, error, answer) == [json |-> TRUE, marks |-> marks, error |-> error, answer |-> answer]
MCResponses == {R({}, "none", "text"), R({}, "missing", "none"), R({"quota"}, "other", "none")}
\* An answer whose time of creation has the digits of a status code.
MCMarked == MCResponses \union {R({"retired"}, "none", "text")}
=============================================================================
