SPECIFICATION Spec
CONSTANTS
  Regions = {A, B}
  FirstHome = A
  Migrations = {m1, m2}
  MaxRetries = 2
  MaxReplicationTries = 2
  PgWrites = {}
  KvWrites = {k1}
  PauseStates = {TRUE}
  MaxVersion = 1
  None = None
  NoRow = NoRow
  MaxCrashes = 0
  NoMove = NoMove
SYMMETRY RowSymmetry
INVARIANTS TypeOK OneActiveMove  HomeServes CutoverComplete PauseSurvivesCutover
PROPERTIES ReplicationNeverStrands
CHECK_DEADLOCK FALSE
