CONSTANTS
  None = None
  Themes = {"t1"}
  LeftRight = {"t1"}
  Scrutins = {"a", "b"}
  Weighing <- WeighingOnes
  Period = {"a"}
  ScrutinsMin = 1
  ContributionsMin = 1
  SeedFiles <- OneFile
  Recomputes = {r1, r2}
  Loads = {}
  StartLabels <- Labelled
  StartFiles <- OneFile
  Workers = 1
  MaxExecutions = 2
  MaxSaves = 0
SPECIFICATION Spec
INVARIANTS NotFoundMeansNoContribution
CHECK_DEADLOCK FALSE
