----------------------------- MODULE MCUpgrade -----------------------------
(* Values of Upgrade's constants that a .cfg cannot write. *)
EXTENDS Upgrade, TLC

RegularCompose == {1}
AnyCompose == {Dir, 1}
RouteSymmetry == Permutations(RouteCallers)

\* Bound: two calls that have met are followed while there is one release.
MetOnFirstRelease == met => upstream = 1
============================================================================
