\* Three issues for one student, a deletion and a sign-up.
SPECIFICATION Spec
CONSTANTS
  d1 = d1
  i1 = i1
  i2 = i2
  i3 = i3
  e1 = e1
  x1 = x1
  c1 = c1
  Issues = {i1, i2, i3}
  Docs = {d1}
  DocOf <- MCDocOf
  Edits = {}
  Deletions = {x1}
  Claims = {c1}
  ClaimDoc <- MCClaimDoc
  LambdaModes = {TRUE, FALSE}
  MaxInFlight = 2
  MaxAnswers = 1
  MayCrash = TRUE
  NoCert = NoCert
SYMMETRY MCSymmetry
CHECK_DEADLOCK FALSE
INVARIANTS
  TypeOK
  AbilitiesFollowReceptor
  PathsLeadToCertificates
  DuplicatesBounded
PROPERTIES
  LifecycleSpec
