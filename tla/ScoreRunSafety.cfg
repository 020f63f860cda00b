CONSTANTS
  None = None
  Themes = {"t1"}
  LeftRight = {"t1"}
  Scrutins = {"a", "b"}
  Weighing <- WeighingOnes
  Period = {"a"}
  ScrutinsMin = 1
  ContributionsMin = 1
  SeedFiles <- ThreeFiles
  Recomputes = {r1, r2}
  Loads = {l1, l2}
  StartLabels <- Labelled
  StartFiles <- FirstOrNone
  Workers = 2
  MaxExecutions = 3
  MaxSaves = 1
SPECIFICATION Spec
SYMMETRY ExecutionSymmetry
INVARIANTS TypeOK OneCurrent PublishedComplete VerdictHasProof ViewsFollowRun OneVersionPerRun OneContentPerVersion
PROPERTIES StaysPublished
CHECK_DEADLOCK FALSE
