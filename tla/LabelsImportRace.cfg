CONSTANTS
  Scrutins = {"s1"}
  Contents <- Form
  Whole = 2
  Files <- OneFile
  Imports = {i1}
  Requests = {r1, r2, r3}
  StartLabels <- OneByHand
  MaxOpen = 2
SPECIFICATION Spec
SYMMETRY RequestSymmetry
PROPERTIES AppliedAsReviewed
CHECK_DEADLOCK FALSE
