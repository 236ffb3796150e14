SPECIFICATION Spec
CONSTANTS
  Catalog <- MCCatalog
  PackageOf <- MCPackageOf
  Builtin = {"typescript"}
  Versions = {1, 2}
  Submitted <- MCSubmitted
  Appliers = {a1}
  Unset = Unset
  Levels = {"off", "lite"}
  Editors = {e1, e2}
  Migrators = {m1}
  Contents <- MCContents
  Recreators = {r1}
  MaxRequests = 3
  MaxBoots = 2
  MaxFaults = 1
INVARIANT ApplySettles
 
INVARIANT MigrationWhole
INVARIANT OverlayHonoured
PROPERTY StartsConverge
CHECK_DEADLOCK FALSE
