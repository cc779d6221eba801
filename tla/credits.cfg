SPECIFICATION Spec
CONSTANTS
  PlanGrant = 3
  FirstTopup = 2
  Floor = 0
  MaxResets = 1
  Leases = {l1, l2}
  Reservations = {l1}
  Sessions = {s1, s2}
  Amounts = {2, 4}
  Costs = {0, 3, 6}
  MinLease = 1
  Modes = {TRUE, FALSE}
  MaxRollbacks = 1
  Refillers = {}
  RefillAmount = 2
  Threshold = 2
  MaxCharges = 1
  Requests = {}
  MinBalance = 1
  Prices = {1}
SYMMETRY SessionSymmetry
INVARIANTS
  TypeOK
  LeaseAccounts
  PoolsKept
  ClosureTells
PROPERTIES
  LeaseEndsOnce
  BillingImplementsLedger
CHECK_DEADLOCK FALSE
