\* Four requests: of a user, of an administrator, of another user.
SPECIFICATION Spec
CONSTANTS
  r1 = r1
  r2 = r2
  r3 = r3
  r4 = r4
  u1 = u1
  u2 = u2
  Users = {u1, u2}
  UserOf <- MCUserOf
  Requests = {r1, r2, r3, r4}
  KindsOf <- MCKindsOf
  Plan0 = Plan0
  None = None
CHECK_DEADLOCK FALSE
INVARIANTS
  TypeOK
  DefaultCardsHaveCause
  UnrecordedSubscriptionReported
  StaleSaleHasCause
