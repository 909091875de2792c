\* Emission requests one at a time: what the quota allows in the first cycle.
SPECIFICATION Spec
CONSTANTS
  r1 = r1
  r2 = r2
  r3 = r3
  p1 = p1
  p2 = p2
  Requests = {r1, r2, r3}
  Purchases = {}
  Amount = 1
  Quota = 1
  Unlimited = FALSE
  Period = 2
  MaxInFlight = 1
  MaxTick = 4
  OrderStatuses = {"paid"}
  SignUp = SignUp
  NoPlan = NoPlan
  NoCredit = NoCredit
  NoCert = NoCert
SYMMETRY MCSymmetry
CHECK_DEADLOCK FALSE
INVARIANTS
  FirstCycleQuota
