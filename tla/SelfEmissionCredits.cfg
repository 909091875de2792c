\* Two emission requests and two purchases of a credit; nothing is free.
SPECIFICATION Spec
CONSTANTS
  r1 = r1
  r2 = r2
  r3 = r3
  p1 = p1
  p2 = p2
  Requests = {r1, r2}
  Purchases = {p1, p2}
  Amount = 1
  Quota = 0
  Unlimited = FALSE
  Period = 1
  MaxInFlight = 2
  MaxTick = 1
  OrderStatuses = {"paid"}
  SignUp = SignUp
  NoPlan = NoPlan
  NoCredit = NoCredit
  NoCert = NoCert
SYMMETRY MCSymmetry
CHECK_DEADLOCK FALSE
INVARIANTS
  TypeOK
  UsedCreditsAccountedFor
  CreditsHaveAnOrder
PROPERTIES
  WalletSpec
