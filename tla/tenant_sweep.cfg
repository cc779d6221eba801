SPECIFICATION Spec
CONSTANTS
  Workers = {w1}
  Apps = {a1}
  Tasks <- AppTasks
  MaxAttempts = 3
  MaxCrashes = 1
  PerTenant = TRUE
  MaxMade = 5
  MaxLost = 0
PROPERTIES
  SweepsOnlyOrphans
CHECK_DEADLOCK FALSE
