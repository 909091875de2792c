\* Two issues, a sign-up and an edit, LOCAL_LAMBDA set and no crash.
SPECIFICATION FairSpec
CONSTANTS
  d1 = d1
  i1 = i1
  i2 = i2
  i3 = i3
  e1 = e1
  x1 = x1
  c1 = c1
  Issues = {i1, i2}
  Docs = {d1}
  DocOf <- MCDocOf
  Edits = {e1}
  Deletions = {}
  Claims = {c1}
  ClaimDoc <- MCClaimDoc
  LambdaModes = {TRUE}
  MaxInFlight = 2
  MaxAnswers = 2
  MayCrash = FALSE
  NoCert = NoCert
CHECK_DEADLOCK FALSE
PROPERTIES
  DispatchedIsCompleted
