SPECIFICATION FairSpec
CONSTANTS
  Sweepers = {s1}
  Resumers = {u1}
  Regions = {r1, r2}
  Days = 2
  WarnDays = 1
  ReminderDays = 0
  GraceDays = 1
  MaxPlanChanges = 2
  MaxMoves = 1
  MaxFaults = 1
PROPERTIES
  UpgradeResumes
CHECK_DEADLOCK FALSE
