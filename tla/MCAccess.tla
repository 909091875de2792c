------------------------------ MODULE MCAccess ------------------------------
(* A small instance of Access for TLC: sign-ups 1 and 2 ask for the same    *)
(* email, sign-ups 1 and 3 have the same document; two handshakes sign a    *)
(* user up each, who has the same email too.  Two institutions have a       *)
(* course of the same number, and one of them two teachers.                *)
EXTENDS Access

CONSTANTS a, b,                       \* emails
          s1, s2, s3, c1, v1, r1, x1, \* sign-ups and other requests
          k1, k2,                     \* users of Canvas courses
          x, y, z, l1, l2, o1, o2, e1, e2, g1, g2,
          p, q, D, E, n, t, u

MCEntries == [s \in SignUps |-> CASE s = s1 -> {"pf", "pj", "admin", "raw"}
                                   [] s = s2 -> {"student", "api"}
                                   [] OTHER -> {"raw"}]
MCEmailOf == [s \in SignUps |-> IF s = s3 THEN b ELSE a]
MCDocOf == [s \in SignUps |-> IF s \in {s1, s3} THEN 1 ELSE s]

MCVisitOf == [s \in States |-> [domain |-> IF s = y THEN E ELSE D, number |-> n,
                                teacher |-> IF s = z THEN u ELSE t]]
MCMembers == [h \in Handshakes |-> CASE h = l1 -> {k1} [] h = o1 -> {k2} [] OTHER -> {}]

MCAsks == [g \in Configurations |-> IF g = g1 THEN {<<p, E>>, <<q, E>>} ELSE {<<q, D>>}]

One == [h \in Institutions |-> IF h = p THEN D ELSE None]
Two == [h \in Institutions |-> IF h = p THEN D ELSE E]

MCMixes == {
  [actors |-> {s1, s2, s3, c1, v1, r1, x1}, tokens |-> {}, configs |-> One],
  [actors |-> {x, y, l1, l2, k1}, tokens |-> {<<t, D>>, <<t, E>>}, configs |-> Two],
  [actors |-> {x, z, l1, l2, k1}, tokens |-> {<<t, D>>, <<u, D>>}, configs |-> One],
  [actors |-> {x, l1, o1, o2, k2, e1, e2}, tokens |-> {}, configs |-> One],
  [actors |-> {x, l1, k1, e1, e2}, tokens |-> {<<t, D>>}, configs |-> One],
  [actors |-> {x, y, l1, l2, k1, o1, k2}, tokens |-> {<<t, D>>}, configs |-> Two],
  [actors |-> {x, l1, l2, g1, g2}, tokens |-> {<<t, D>>}, configs |-> One],
  [actors |-> {x, l1, o1, k2, g1, g2}, tokens |-> {}, configs |-> One],
  [actors |-> {x, l1, k1, s1, r1}, tokens |-> {<<t, D>>}, configs |-> One]}
=============================================================================
