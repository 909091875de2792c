------------------------------- MODULE Access -------------------------------
(***************************************************************************)
(* Who gets in, and how: accounts with their credentials, and the teachers  *)
(* who come from Canvas and sign the users of their course up.             *)
(***************************************************************************)
EXTENDS CanvasLti

CONSTANT Mixes          \* who may act side by side, with which tokens and domains
                        \* there

VARIABLE mix            \* the ones of this run

vars == <<accountVars, canvasVars, mix>>

TypeOK == AccountsTypeOK /\ CanvasTypeOK /\ mix \in Mixes

Init == mix \in Mixes /\ AccountsInit /\ CanvasInit
        /\ tokens = mix.tokens /\ configs = mix.configs

(* Users of a Canvas course sign up when a handshake says so.              *)
Called(s) == (\E h \in Handshakes : s \in Members[h]) => assigned[s] # None

AccountsNext ==
  \/ \E s \in SignUps \cap mix.actors : Called(s) /\ SignUpStep(s)
  \/ \E a \in (Changes \cup Verifications) \cap mix.actors : ChangeStep(a)
  \/ \E r \in Resets \cap mix.actors : ResetStep(r)
  \/ \E d \in Deletions \cap mix.actors : DeletionStep(d)
  \/ \E a \in Actors \cap mix.actors : FailAccount(a)

Next ==
  \/ AccountsNext /\ UNCHANGED <<canvasVars, mix>>
  \/ /\ \/ \E x \in States \cap mix.actors : GetLTIAuthRedirectUrl(x)
        \/ \E r \in Handshakes \cap mix.actors : HandshakeStep(r)
        \/ \E e \in Exchanges \cap mix.actors : ExchangeStep(e)
        \/ \E s \in LoginIds : Expire(s)
        \/ \E g \in Configurations \cap mix.actors : ConfigurationStep(g)
        \/ \E r \in Visitors \cap mix.actors : FailVisitor(r)
     /\ UNCHANGED <<accountVars, mix>>

Spec == Init /\ [][Next]_vars
=============================================================================
