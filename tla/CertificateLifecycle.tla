------------------------ MODULE CertificateLifecycle ------------------------
(***************************************************************************)
(* The life of issued certificates as anyone outside sees it: a row with   *)
(* no public hash, a public hash, a withdrawn hash, and the completion the *)
(* image service reports once the hash has been public.                    *)
(* TemplateEmission is shown to implement this specification.              *)
(***************************************************************************)
CONSTANT Certificates

VARIABLES visible,      \* "none", "hidden", "public" or "withdrawn"
          complete      \* the certificate's success status is SUCCESS

vars == <<visible, complete>>

-----------------------------------------------------------------------------
Init == /\ visible = [c \in Certificates |-> "none"]
        /\ complete = [c \in Certificates |-> FALSE]

Move(c, from, to) == /\ visible[c] \in from
                     /\ visible' = [visible EXCEPT ![c] = to]
                     /\ UNCHANGED complete

Insert(c)   == Move(c, {"none"}, "hidden")
Publish(c)  == Move(c, {"hidden", "withdrawn"}, "public")
Withdraw(c) == Move(c, {"public"}, "withdrawn")

(* The report is checked against a public hash, which may be withdrawn     *)
(* before the report is written; it is never taken back.                   *)
Complete(c) == /\ visible[c] \in {"public", "withdrawn"}
               /\ complete' = [complete EXCEPT ![c] = TRUE]
               /\ UNCHANGED visible

Next == \E c \in Certificates :
          Insert(c) \/ Publish(c) \/ Withdraw(c) \/ Complete(c)

Spec == Init /\ [][Next]_vars
=============================================================================
