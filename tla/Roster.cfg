\* Three requests about one institution; a student completes his profile.
SPECIFICATION Spec
CONSTANTS
  r1 = r1
  r2 = r2
  r3 = r3
  pupil = pupil
  raw = raw
  Requests = {r1, r2, r3}
  KindsOf <- MCKindsOf
  Students = {pupil, raw}
  Raw = {raw}
  Names = {"n"}
  None = None
CHECK_DEADLOCK FALSE
INVARIANTS
  TypeOK
  AuditMatchesRemovals
  OrphanCourseHasCause
  MissingEventHasCause
  AssociationsHaveCause
