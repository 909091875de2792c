\* Accounts alone, and with handshakes from Canvas, in the mixes of MCAccess.
SPECIFICATION Spec
CONSTANTS
  a = a
  b = b
  s1 = s1
  s2 = s2
  s3 = s3
  c1 = c1
  v1 = v1
  r1 = r1
  x1 = x1
  k1 = k1
  k2 = k2
  x = x
  y = y
  z = z
  l1 = l1
  l2 = l2
  o1 = o1
  o2 = o2
  e1 = e1
  e2 = e2
  g1 = g1
  g2 = g2
  p = p
  q = q
  D = D
  E = E
  n = n
  t = t
  u = u
  Emails = {a, b}
  SignUps = {s1, s2, s3, k1, k2}
  Entries <- MCEntries
  EmailOf <- MCEmailOf
  DocOf <- MCDocOf
  Changes = {c1}
  Verifications = {v1}
  Resets = {r1}
  Deletions = {x1}
  Institutions = {p, q}
  Domains = {D, E}
  Numbers = {n}
  States = {x, y, z}
  VisitOf <- MCVisitOf
  Launches = {l1, l2}
  Callbacks = {o1, o2}
  Exchanges = {e1, e2}
  Configurations = {g1, g2}
  Members <- MCMembers
  Asks <- MCAsks
  Mixes <- MCMixes
  None = None
CHECK_DEADLOCK FALSE
INVARIANTS
  TypeOK
  MissingLoginHasCause
  ForeignLoginHasCause
  CanvasCoursesHaveCause
  HandshakesHaveCause
