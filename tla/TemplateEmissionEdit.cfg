\* One issue and one edit.
SPECIFICATION Spec
CONSTANTS
  d1 = d1
  i1 = i1
  i2 = i2
  i3 = i3
  e1 = e1
  x1 = x1
  c1 = c1
  Issues = {i1}
  Docs = {d1}
  DocOf <- MCDocOf
  Edits = {e1}
  Deletions = {}
  Claims = {}
  ClaimDoc <- MCClaimDoc
  LambdaModes = {TRUE}
  MaxInFlight = 2
  MaxAnswers = 1
  MayCrash = FALSE
  NoCert = NoCert
CHECK_DEADLOCK FALSE
INVARIANTS
  CertificatesMatchTemplate
