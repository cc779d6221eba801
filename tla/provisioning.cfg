SPECIFICATION Spec
CONSTANTS
  Workers = {w1, w2}
  Apps = {a1}
  Tasks <- AppTasks
  MaxAttempts = 2
  MaxCrashes = 1
  PerTenant = FALSE
  MaxMade = 2
  MaxLost = 1
SYMMETRY Symmetry
INVARIANTS
  TypeOK
  ReadyIsUsable
PROPERTIES
  SweepsOnlyOrphans
CHECK_DEADLOCK FALSE
