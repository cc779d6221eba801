SPECIFICATION CreatedSpec
CONSTANTS
  Workers = {w1, w2}
  Apps = {a1}
  Tasks <- AppTasks
  MaxAttempts = 2
  MaxCrashes = 1
  PerTenant = TRUE
  MaxMade = 3
  MaxLost = 0
PROPERTIES
  TasksSettle
  
  OrphansGo
CHECK_DEADLOCK FALSE
