SPECIFICATION SweepSpec
CONSTANTS
  PlanGrant = 1
  FirstTopup = 3
  Floor = 0
  MaxResets = 0
  Leases = {l1, l2}
  Reservations = {}
  Sessions = {s1, s2}
  Amounts = {3}
  Costs = {0}
  MinLease = 1
  Modes = {FALSE}
  MaxRollbacks = 1
  Refillers = {r1}
  RefillAmount = 1
  Threshold = 1
  MaxCharges = 1
  Requests = {q1}
  MinBalance = 1
  Prices = {1}
INVARIANTS NoDebtWithoutOverdraft
PROPERTIES ExpiredLeasesEnd
CHECK_DEADLOCK FALSE
