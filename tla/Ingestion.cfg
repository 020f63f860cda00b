SPECIFICATION Spec
CONSTANTS
  Execs = {e1, e2}
  None = None
  Ongoing = 9
  NonInscrit = 0
  MandatBatch = 2
  ChunkSize = 1
  InsertBatch = 2
  QidBatch = 2
  Tasks <- SomeTasks
SYMMETRY ExecSymmetry
INVARIANTS
  ScrutinsConverge
  ReferentielConverges
  ArchivedFirst
PROPERTIES
  RefusedOnlyByStale
  NoOrphanPerson
CHECK_DEADLOCK FALSE
