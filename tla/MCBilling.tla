----------------------------- MODULE MCBilling -----------------------------
(* A small instance of Billing for TLC: three requests of one user, or of  *)
(* an administrator, and one of another user.                              *)
EXTENDS Billing

CONSTANTS r1, r2, r3, r4, u1, u2

MCKindsOf == [r \in Requests |->
  CASE r = r1 -> {"signUp", "card", "createPlan", "deletePlan"}
    [] r = r2 -> {"card", "subscribe", "editPlan", "listPlans"}
    [] r = r3 -> {"default", "deleteCard", "subscribe", "cancel", "deletePlan", "listPlans"}
    [] r = r4 -> {"card", "subscribe", "default"}]

MCUserOf == [r \in Requests |-> IF r = r4 THEN u2 ELSE u1]
=============================================================================
