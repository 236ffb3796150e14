------------------------------ MODULE MCProjects ------------------------------
(* The instance of Projects that TLC checks. *)
EXTENDS Projects
MCFeatures == {"superpowers", "knowledge"}
MCKept == {"knowledge"}
=============================================================================
