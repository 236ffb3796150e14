-------------------------- MODULE MCDbMaintenance --------------------------
(* DbMaintenance with the constants of the .cfg files. *)
EXTENDS DbMaintenance
=============================================================================
