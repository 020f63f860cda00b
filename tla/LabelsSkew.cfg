CONSTANTS
  Scrutins = {"s1"}
  Contents <- FormDisjoint
  Whole = 2
  Files <- OneFile
  Imports = {i1}
  Requests = {r1, r2}
  StartLabels <- Nothing
  MaxOpen = 2
SPECIFICATION Spec
SYMMETRY RequestSymmetry
INVARIANTS WeightsCoherent
CHECK_DEADLOCK FALSE
