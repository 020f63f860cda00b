SPECIFICATION Spec
CONSTANTS
  Unit = 2
  None = None
  Ongoing = 9
  NonInscrit = 0
  DaysPerMonth = 2
  MonthsPerYear = 3
  Pistes = {"GP", "PARPOL", "ASSEMBLEE"}
  NoEnd = NoEnd
  Today = 5
  CoveredNum = 3
  CoveredDen = 4
  VotantsCouvertsMin = 3
  Members = {"a", "b"}
  GaucheDroite = TRUE
  MandatItems <- SomeMandats
  SegmentItems <- SomeSegments
  GroupeItems <- SomeGroupes
  ScrutinItems <- SomeScrutins
  MaxItems <- Lengths
INVARIANTS
  NoDayLostSilently
  FriseReadable
  SeparationIsBest
  AxisSymmetric
  ScoreIsWeightedMean
  GroupIsItsMembers
CHECK_DEADLOCK FALSE
