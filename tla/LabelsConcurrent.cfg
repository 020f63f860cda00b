CONSTANTS
  Scrutins = {"s1", "s2"}
  Contents <- Form
  Whole = 2
  Files <- WideFile
  Imports = {i1}
  Requests = {r1, r2, r3, r4}
  StartLabels <- Both
  MaxOpen = 3
SPECIFICATION Spec
SYMMETRY RequestSymmetry
INVARIANTS TypeOK WeightsCoherent OneDecision
PROPERTIES RevisionTellsTruth
CHECK_DEADLOCK FALSE
