---------------------------- MODULE CreditWallet ----------------------------
(***************************************************************************)
(* What the certificate credits of one customer promise, whatever the      *)
(* requests that buy and use them do in between:                           *)
(*   - the credits of a purchase become usable together;                   *)
(*   - a credit is spent once, oldest purchase first, and never comes back;*)
(*   - only a spent credit is ever named by a certificate.                 *)
(* SelfEmission is shown to implement this specification.                  *)
(***************************************************************************)
EXTENDS Naturals

CONSTANTS Certificates,   \* certificates that may name a credit
          Purchases,      \* purchases of credits
          Amount          \* credits bought by one purchase

Credits == Purchases \X (1 .. Amount)

VARIABLES state,          \* state[k]: "absent", "valid" or "used"
          soldAt,         \* soldAt[p]: when the credits of p appeared
          holders         \* certificates that name a credit, each with its credit

vars == <<state, soldAt, holders>>

-----------------------------------------------------------------------------
Init == /\ state = [k \in Credits |-> "absent"]
        /\ soldAt = [p \in Purchases |-> 0]
        /\ holders = {}

Sell(p) == /\ \A k \in Credits : k[1] = p => state[k] = "absent"
           /\ state' = [k \in Credits |-> IF k[1] = p THEN "valid" ELSE state[k]]
           /\ soldAt' \in [Purchases -> Nat]
           /\ \A q \in Purchases : q # p => soldAt'[q] = soldAt[q]
           /\ \A k \in Credits : state[k] # "absent" => soldAt[k[1]] <= soldAt'[p]
           /\ UNCHANGED holders

(* The oldest valid credit is the one that goes. *)
Spend(k) == /\ state[k] = "valid"
            /\ \A j \in Credits : soldAt[j[1]] < soldAt[k[1]] => state[j] # "valid"
            /\ state' = [state EXCEPT ![k] = "used"]
            /\ UNCHANGED <<soldAt, holders>>

(* A certificate takes a spent credit, from the certificate that had it if  *)
(* there was one: at most one certificate names it afterwards.              *)
Attach(k, c) == /\ state[k] = "used"
                /\ \A h \in holders : h[1] # c
                /\ holders' = {h \in holders : h[2] # k} \cup {<<c, k>>}
                /\ UNCHANGED <<state, soldAt>>

Next == \/ \E p \in Purchases : Sell(p)
        \/ \E k \in Credits : Spend(k)
        \/ \E k \in Credits, c \in Certificates : Attach(k, c)

Spec == Init /\ [][Next]_vars
=============================================================================
