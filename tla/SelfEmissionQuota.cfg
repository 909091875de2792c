\* Three emission requests, at most two at a time: the quota, then one credit.
SPECIFICATION Spec
CONSTANTS
  r1 = r1
  r2 = r2
  r3 = r3
  p1 = p1
  p2 = p2
  Requests = {r1, r2, r3}
  Purchases = {p1}
  Amount = 1
  Quota = 1
  Unlimited = FALSE
  Period = 2
  MaxInFlight = 2
  MaxTick = 2
  OrderStatuses = {"paid"}
  SignUp = SignUp
  NoPlan = NoPlan
  NoCredit = NoCredit
  NoCert = NoCert
SYMMETRY MCSymmetry
CHECK_DEADLOCK FALSE
INVARIANTS
  OvershootBounded
  CreditOnlyAfterQuota
