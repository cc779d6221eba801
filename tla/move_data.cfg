SPECIFICATION FairSpec
CONSTANTS
  Regions = {A, B}
  FirstHome = A
  Migrations = {m1}
  MaxRetries = 2
  MaxReplicationTries = 2
  PgWrites = {w1}
  KvWrites = {k1}
  PauseStates = {}
  MaxVersion = 2
  None = None
  NoRow = NoRow
  MaxCrashes = 1
  NoMove = NoMove
INVARIANTS OnlyLateWritesLost
PROPERTIES MoveImplementsAppHome EveryMoveEnds
CHECK_DEADLOCK FALSE
