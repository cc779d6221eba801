SPECIFICATION Spec
CONSTANTS
  Sweepers = {s1, s2}
  Resumers = {u1}
  Regions = {r1, r2}
  Days = 3
  WarnDays = 2
  ReminderDays = 1
  GraceDays = 1
  MaxPlanChanges = 2
  MaxMoves = 1
  MaxFaults = 1
SYMMETRY Symmetry
INVARIANTS
  TypeOK
  
PROPERTIES
  OwnerPauseStands
  ResumeNeedsPaidPlan
CHECK_DEADLOCK FALSE
