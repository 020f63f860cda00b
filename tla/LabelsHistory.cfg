CONSTANTS
  Scrutins = {"s1", "s2"}
  Contents <- FormAndRemoval
  Whole = 2
  Files <- TwoFiles
  Imports = {i1}
  Requests = {r1, r2, r3, r4}
  StartLabels <- OneByHand
  MaxOpen = 2
SPECIFICATION Spec
SYMMETRY RequestSymmetry
INVARIANTS HistoryChain LastRevisionIsCurrent WholeUnlessBlind
PROPERTIES ReviewedKept AppliedAsLoaded AppliedIsWritten
CHECK_DEADLOCK FALSE
