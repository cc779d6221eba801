SPECIFICATION AfterTwoMovesSpec
CONSTANTS
  A = A
  B = B
  C = C
  m1 = m1
  m2 = m2
  Regions = {A, B, C}
  FirstHome = A
  Migrations = {m1, m2, m3}
  MaxRetries = 1
  MaxReplicationTries = 1
  PgWrites = {}
  KvWrites = {k1}
  PauseStates = {}
  MaxVersion = 1
  None = None
  NoRow = NoRow
  MaxCrashes = 0
PROPERTIES TerminalIsFinal HomeMovesFromItsSource
CHECK_DEADLOCK FALSE
