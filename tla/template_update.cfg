SPECIFICATION MCSpec
CONSTANTS
  Workers = {w1,w2}
  Clients = {c1,c2}
  Tasks <- UpdateTasks
  MaxAttempts = 2
  MaxCrashes = 1
  MaxJobs = 2
  MaxRetries = 1
  MaxReleases = 3
  MaxActs = 2
  SameRegion = FALSE
ACTION_CONSTRAINT OfItsKind
SYMMETRY Symmetry
INVARIANTS
  TypeOK
  
  
PROPERTIES
  OwnerWorkSurvives
  
CHECK_DEADLOCK FALSE
