SPECIFICATION FairSpec
CONSTANTS
  Writers = {w1, w2}
  Drainers = {d1, d2}
  Regions = {r1, r2}
  Fields = {status, plan}
  Changes = {{status}, {plan}}
  BatchSize = 2
  MaxWrites = 2
  MaxFaults = 1
INVARIANTS
  TypeOK
  DoneMeansReached
PROPERTIES
  NeverBack
  ChangesArrive
CHECK_DEADLOCK FALSE
