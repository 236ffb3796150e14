--------------------------- MODULE MCProviderKeys ---------------------------
(* ProviderKeys with the constants of the .cfg files.  Credentials and clock readings are
   only compared, so their permutations are symmetries. *)
EXTENDS ProviderKeys, TLC
KeySymmetry == Permutations(Values) \cup Permutations(Readings)
=============================================================================
