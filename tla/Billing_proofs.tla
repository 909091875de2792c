--------------------------- MODULE Billing_proofs ---------------------------
(***************************************************************************)
(* Proofs about Billing, for any number of requests of any kinds: what     *)
(* explains two default cards, a subscription without a row, and a plan    *)
(* that stays on sale after its deletion.                                  *)
(***************************************************************************)
EXTENDS Billing, TLAPS

(* What a request is for, by what it does next.                            *)
KindOK(r) ==
  /\ pc[r] = "idle" => local[r] = Blank
  /\ pc[r] = "customer" => local[r].kind \in {"card", "default", "subscribe"}
  /\ pc[r] \in {"newCustomer", "recordCustomer", "recordAddress"} =>
       local[r].kind \in {"signUp", "card", "default", "subscribe"}
  /\ pc[r] \in {"createCard", "cardAddress", "recordCard"} => Is(r, "card")
  /\ pc[r] = "setDefault" => local[r].kind \in {"card", "default"}
  /\ pc[r] \in {"checkCard", "createSub", "recordSub", "cycles"} => Is(r, "subscribe")
  /\ pc[r] \in {"checkPlan", "refreshPlan"} => local[r].kind \in {"subscribe", "editPlan"}
  /\ pc[r] \in {"subInfo", "cancelSub"} => local[r].kind \in {"subscribe", "cancel"}
  /\ pc[r] \in {"createPlan", "recordPlan"} => Is(r, "createPlan")
  /\ pc[r] \in {"editPlan", "editItem", "recordEdit"} => Is(r, "editPlan")
  /\ pc[r] \in {"deletePlan", "recordDeletion"} => Is(r, "deletePlan")
  /\ pc[r] \in {"readIds", "reconcile"} => Is(r, "listPlans")

(* What a request has at hand when it comes to use it.                     *)
Filled(r) ==
  /\ pc[r] \in {"recordCustomer", "recordAddress"} => local[r].customer = r
  /\ pc[r] = "recordAddress" => r \in customers
  /\ pc[r] \in {"createCard", "cardAddress", "recordCard", "setDefault"} =>
       local[r].customer \in customers /\ UserOf[local[r].customer] = UserOf[r]
  /\ local[r].kind \in {"card", "default", "subscribe"} => local[r].card \in Requests
  /\ local[r].kind = "card" => local[r].card = r
  /\ local[r].kind \in {"subscribe", "editPlan", "deletePlan"} =>
       local[r].plan \in PlanIds /\ plans[local[r].plan] # None

(* A state of a plan that was read, when the plan is now as given.         *)
Older(seen, now) == /\ now # None /\ seen.version <= now.version
                    /\ seen.active /\ ~now.active => seen.version < now.version

(* What it has read of the plans.                                          *)
Knows(r) ==
  /\ pc[r] \in {"customer", "newCustomer", "recordCustomer", "recordAddress",
                "checkCard", "checkPlan"} => local[r].seen = None
  /\ pc[r] \in {"refreshPlan", "editItem", "recordEdit", "recordDeletion"} =>
       local[r].seen # None
  /\ pc[r] = "recordDeletion" => ~local[r].seen.active
  /\ pc[r] = "recordPlan" => gatewayPlans[r] # None
  /\ local[r].seen # None =>
       local[r].plan \in PlanIds /\ Older(local[r].seen, gatewayPlans[local[r].plan])
  /\ \A p \in PlanIds :
       /\ local[r].listed[p] # None => gatewayPlans[p] # None /\ Is(r, "listPlans")
       /\ local[r].known[p] # None => plans[p] # None

Well == TypeOK /\ \A r \in Requests : KindOK(r) /\ Filled(r) /\ Knows(r)

CardsOK == /\ \A c \in Requests : cards[c] # None => cards[c].customer \in CustomersOf(UserOf[c])
           /\ DefaultCardsHaveCause

SubsOK == \A r \in gatewaySubs \ subs : pc[r] \in {"recordSub", "failed"}

(* What excuses a plan p that is sold although it is deleted.              *)
CauseOf(r, p) ==
  \/ Is(r, "deletePlan") /\ local[r].plan = p /\ pc[r] # "done"
  \/ Is(r, "listPlans") /\ local[r].listed[p] # None
  \/ ReadBefore(r, p)

Withdrawn(p) == plans[p] # None /\ ~plans[p].active

Deleted(p) == gatewayPlans[p] # None /\ ~gatewayPlans[p].active

PlansOK ==
  /\ \A p \in PlanIds : plans[p] # None => gatewayPlans[p] # None
  /\ \A r \in Requests :
       /\ gatewayPlans[r] # None => Is(r, "createPlan") /\ pc[r] \in {"recordPlan", "done", "failed"}
       /\ plans[r] # None => pc[r] = "done"
  /\ \A p \in PlanIds : Deleted(p) => Withdrawn(p) \/ \E r \in Requests : CauseOf(r, p)

Inv == Well /\ CardsOK /\ SubsOK /\ PlansOK

-----------------------------------------------------------------------------
(* Steps.                                                                  *)

(* A step of r.                                                            *)
Moves(r) == \A q \in Requests \ {r} : pc'[q] = pc[q] /\ local'[q] = local[q]

Step(r, l, n) == Goto(r, l) /\ local' = [local EXCEPT ![r] = n]

LEMMA Stepping ==
  ASSUME Well, NEW r \in Requests, NEW l \in PCs, NEW n \in Local, Step(r, l, n)
  PROVE  /\ pc' \in [Requests -> PCs] /\ pc'[r] = l
         /\ local' \in [Requests -> Local] /\ local'[r] = n
         /\ Moves(r)
  BY DEF Well, TypeOK, Step, Goto, Moves

LEMMA Staying ==
  ASSUME Well, NEW r \in Requests, NEW l, Goto(r, l), UNCHANGED local
  PROVE  Step(r, l, local[r]) /\ local[r] \in Local
<1>1. local' = [local EXCEPT ![r] = local[r]]
  BY DEF Well, TypeOK
<1> QED
  BY <1>1 DEF Step, Well, TypeOK

(* Customers and rows of plans are never removed, and a plan at the        *)
(* gateway changes only into a later version of itself.                    *)
Grows ==
  /\ customers \subseteq customers'
  /\ \A p \in PlanIds :
       /\ plans[p] # None => plans'[p] # None
       /\ gatewayPlans[p] # None =>
            /\ gatewayPlans'[p] # None
            /\ gatewayPlans'[p] = gatewayPlans[p] \/ gatewayPlans'[p].version > gatewayPlans[p].version

LEMMA Aging ==
  ASSUME NEW s \in Plan, NEW x \in Plan \cup {None}, NEW y \in Plan \cup {None},
         Older(s, x), y # None, y = x \/ y.version > x.version
  PROVE  Older(s, y)
<1>1. CASE y = x
  BY <1>1
<1>2. CASE y.version > x.version
  BY <1>2 DEF Older, Plan
<1> QED
  BY <1>1, <1>2

LEMMA Newest ==
  ASSUME NEW s \in Plan, s # None
  PROVE  Older(s, s)
  BY DEF Older, Plan

(* It is enough to look at the request that moves.                         *)
LEMMA OthersWell ==
  ASSUME Well, NEW r \in Requests, TypeOK', Moves(r), Grows, KindOK(r)', Filled(r)', Knows(r)'
  PROVE  Well'
<1> SUFFICES ASSUME NEW q \in Requests \ {r} PROVE KindOK(q)' /\ Filled(q)' /\ Knows(q)'
  BY DEF Well
<1>1. KindOK(q) /\ Filled(q) /\ Knows(q) /\ pc'[q] = pc[q] /\ local'[q] = local[q]
  BY DEF Well, Moves
<1>2. KindOK(q)'
  BY <1>1 DEF KindOK, Is, Blank
<1>3. Filled(q)'
  BY <1>1 DEF Filled, Grows, Is
<1>4. local[q] \in Local
  BY DEF Well, TypeOK
<1>5. ASSUME local[q].seen # None
      PROVE  local[q].plan \in PlanIds /\ Older(local[q].seen, gatewayPlans'[local[q].plan])
  <2>1. local[q].plan \in PlanIds /\ Older(local[q].seen, gatewayPlans[local[q].plan])
    BY <1>1, <1>5 DEF Knows
  <2>2. local[q].seen \in Plan
    BY <1>4, <1>5 DEF Local
  <2> DEFINE x == gatewayPlans[local[q].plan]
             y == gatewayPlans'[local[q].plan]
  <2>3. x \in Plan \cup {None} /\ y \in Plan \cup {None} /\ x # None
    BY <2>1 DEF Well, TypeOK, Older
  <2>4. y # None /\ (y = x \/ y.version > x.version)
    BY <2>1, <2>3 DEF Grows
  <2>5. Older(local[q].seen, x)
    BY <2>1
  <2> HIDE DEF x, y
  <2>6. Older(local[q].seen, y)
    BY <2>2, <2>3, <2>4, <2>5, Aging
  <2> QED
    BY <2>1, <2>6 DEF y
<1>6. Knows(q)'
  BY <1>1, <1>5 DEF Knows, Grows, PlanIds, Is
<1> QED
  BY <1>2, <1>3, <1>6

(* What is known of a deleted plan is not forgotten.                       *)
Remembers(r) ==
  \A p \in PlanIds : Deleted(p) /\ CauseOf(r, p) => CauseOf(r, p)' \/ Withdrawn(p)'

LEMMA OthersCauses ==
  ASSUME Well, NEW r \in Requests, TypeOK', Moves(r), Grows, Remembers(r),
         NEW p \in PlanIds, Deleted(p), \E q \in Requests : CauseOf(q, p)
  PROVE  Withdrawn(p)' \/ \E q \in Requests : CauseOf(q, p)'
<1>1. PICK q \in Requests : CauseOf(q, p)
  OBVIOUS
<1>2. CASE q = r
  BY <1>1, <1>2 DEF Remembers
<1>3. CASE q # r
  <2>1. pc'[q] = pc[q] /\ local'[q] = local[q] /\ local[q] \in Local
    BY <1>3 DEF Moves, Well, TypeOK
  <2>2. /\ gatewayPlans[p] # None /\ gatewayPlans'[p] # None
        /\ gatewayPlans[p] \in Plan /\ gatewayPlans'[p] \in Plan
    BY DEF Deleted, Grows, Well, TypeOK
  <2>3. gatewayPlans'[p].version >= gatewayPlans[p].version
    BY <2>2 DEF Grows, Plan
  <2>4. ASSUME NEW s \in Plan, s.version < gatewayPlans[p].version
        PROVE  s.version < gatewayPlans'[p].version
    BY <2>2, <2>3, <2>4 DEF Plan
  <2>5. ReadBefore(q, p) => ReadBefore(q, p)'
    <3>1. local[q].seen \in Plan \cup {None} /\ local[q].listed[p] \in Plan \cup {None}
      BY <2>1 DEF Local
    <3> QED
      BY <2>1, <2>4, <3>1 DEF ReadBefore
  <2>6. CauseOf(q, p)'
    BY <1>1, <2>1, <2>5 DEF CauseOf, Is
  <2> QED
    BY <2>6
<1> QED
  BY <1>2, <1>3

-----------------------------------------------------------------------------
(* What a step that writes neither a customer, a card, a subscription nor  *)
(* a plan has to look at.                                                  *)

(* Request r still knows what it knew: it learns the state of a plan, or   *)
(* all it is asked, only where it had nothing.                             *)
StillKnows(r) ==
  \/ pc[r] = "idle"
  \/ /\ local'[r].kind = local[r].kind /\ local'[r].plan = local[r].plan
     /\ local'[r].listed = local[r].listed
     /\ local[r].seen # None => local'[r].seen = local[r].seen

LEMMA RemembersKnown ==
  ASSUME Well, NEW r \in Requests, StillKnows(r), UNCHANGED gatewayPlans,
         pc'[r] = "done" => pc[r] = "done" \/ ~Is(r, "deletePlan")
  PROVE  Remembers(r)
<1> SUFFICES ASSUME NEW p \in PlanIds, CauseOf(r, p) PROVE CauseOf(r, p)'
  BY DEF Remembers
<1>1. pc[r] # "idle"
  <2> SUFFICES ASSUME pc[r] = "idle" PROVE FALSE
    OBVIOUS
  <2>1. /\ local[r].kind = None /\ local[r].seen = None
        /\ local[r].listed = [q \in PlanIds |-> None]
    BY DEF Well, KindOK, Blank
  <2>2. ~Is(r, "deletePlan") /\ ~Is(r, "listPlans")
    BY <2>1, BillingAssumption DEF Is, Kinds
  <2> QED
    BY <2>1, <2>2 DEF CauseOf, ReadBefore
<1>2. /\ local'[r].kind = local[r].kind /\ local'[r].plan = local[r].plan
      /\ local'[r].listed = local[r].listed
      /\ local[r].seen # None => local'[r].seen = local[r].seen
  BY <1>1 DEF StillKnows
<1>3. ReadBefore(r, p) => ReadBefore(r, p)'
  BY <1>2 DEF ReadBefore
<1> QED
  BY <1>2, <1>3 DEF CauseOf, Is

(* The plans, when a step of r leaves them alone.                          *)
LEMMA PlansAside ==
  ASSUME Well, PlansOK, NEW r \in Requests, TypeOK', Moves(r), Grows, StillKnows(r),
         UNCHANGED <<gatewayPlans, plans>>,
         pc[r] \notin {"done", "failed"},
         pc[r] = "recordPlan" => pc'[r] = "failed",
         pc'[r] = "done" => ~Is(r, "deletePlan")
  PROVE  PlansOK'
<1>1. \A p \in PlanIds : plans'[p] # None => gatewayPlans'[p] # None
  BY DEF PlansOK
<1>2. ASSUME NEW q \in Requests
      PROVE  /\ gatewayPlans'[q] # None =>
                  Is(q, "createPlan")' /\ pc'[q] \in {"recordPlan", "done", "failed"}
             /\ plans'[q] # None => pc'[q] = "done"
  <2>1. CASE q = r
    <3>1. gatewayPlans[r] # None => pc[r] = "recordPlan" /\ Is(r, "createPlan")
      BY DEF PlansOK
    <3> QED
      BY <2>1, <3>1 DEF PlansOK, StillKnows, Is
  <2>2. CASE q # r
    BY <2>2 DEF PlansOK, Moves, Is
  <2> QED
    BY <2>1, <2>2
<1>3. ASSUME NEW p \in PlanIds, Deleted(p)'
      PROVE  Withdrawn(p)' \/ \E q \in Requests : CauseOf(q, p)'
  <2>1. Deleted(p) /\ (Withdrawn(p) => Withdrawn(p)')
    BY <1>3 DEF Deleted, Withdrawn
  <2>2. Withdrawn(p) \/ \E q \in Requests : CauseOf(q, p)
    BY <2>1 DEF PlansOK
  <2>3. Remembers(r)
    BY RemembersKnown
  <2> QED
    BY <2>1, <2>2, <2>3, OthersCauses
<1> QED
  BY <1>1, <1>2, <1>3 DEF PlansOK

(* What excuses two default cards c and d of user u.                       *)
CardCause(c, d, u) ==
  \/ \E a, b \in CustomersOf(u) : a # b
  \/ \E r \in Requests :
       Is(r, "default") /\ pc[r] = "done" /\ UserOf[r] # u /\ local[r].card \in {c, d}

LEMMA CardCauseStays ==
  ASSUME customers \subseteq customers', NEW r \in Requests, Moves(r), pc[r] # "done",
         NEW c, NEW d, NEW u, CardCause(c, d, u)
  PROVE  CardCause(c, d, u)'
<1>1. CustomersOf(u) \subseteq CustomersOf(u)'
  BY DEF CustomersOf
<1>2. ASSUME NEW q \in Requests, Is(q, "default"), pc[q] = "done"
      PROVE  Is(q, "default")' /\ pc'[q] = "done" /\ local'[q] = local[q]
  BY <1>2 DEF Moves, Is
<1>3. CASE \E a, b \in CustomersOf(u) : a # b
  BY <1>1, <1>3 DEF CardCause
<1>4. CASE \E q \in Requests :
        Is(q, "default") /\ pc[q] = "done" /\ UserOf[q] # u /\ local[q].card \in {c, d}
  BY <1>2, <1>4 DEF CardCause
<1> QED
  BY <1>3, <1>4 DEF CardCause

LEMMA CardsAside ==
  ASSUME CardsOK, UNCHANGED cards, customers \subseteq customers',
         NEW r \in Requests, Moves(r), pc[r] # "done"
  PROVE  CardsOK'
<1>1. \A c \in Requests : cards'[c] # None => cards'[c].customer \in CustomersOf(UserOf[c])'
  BY DEF CardsOK, CustomersOf
<1>2. ASSUME NEW u \in Users, NEW c \in Requests, NEW d \in Requests,
             c # d, DefaultOf(c, u)', DefaultOf(d, u)'
      PROVE  CardCause(c, d, u)'
  <2>1. DefaultOf(c, u) /\ DefaultOf(d, u)
    BY <1>2 DEF DefaultOf
  <2>2. CardCause(c, d, u)
    BY <1>2, <2>1 DEF CardsOK, DefaultCardsHaveCause, CardCause
  <2> QED
    BY <2>2, CardCauseStays
<1> QED
  BY <1>1, <1>2 DEF CardsOK, DefaultCardsHaveCause, CardCause

LEMMA SubsAside ==
  ASSUME SubsOK, NEW r \in Requests, Moves(r), UNCHANGED <<gatewaySubs, subs>>,
         TypeOK, pc[r] \in {"recordSub", "failed"} => pc'[r] = "failed"
  PROVE  SubsOK'
  BY DEF SubsOK, Moves, TypeOK

(* All together: such a step keeps the invariant if it leads r where it    *)
(* can go on.                                                              *)
LEMMA Quietly ==
  ASSUME Inv, NEW r \in Requests, NEW l \in PCs, NEW n \in Local, Step(r, l, n),
         UNCHANGED <<gatewayPlans, gatewaySubs, customers, cards, plans, subs>>,
         gatewayCards' \in [Requests -> Requests \cup {None}],
         addresses' \subseteq customers, userPlans' \in [Users -> SUBSET {"basic", "pagarme"}],
         StillKnows(r), pc[r] \notin {"done", "failed"},
         pc[r] \in {"recordPlan", "recordSub"} => l = "failed",
         l = "done" => ~Is(r, "deletePlan"),
         KindOK(r)', Filled(r)', Knows(r)'
  PROVE  Inv'
<1>. Well /\ CardsOK /\ SubsOK /\ PlansOK /\ TypeOK
  BY DEF Inv, Well
<1>1. /\ pc' \in [Requests -> PCs] /\ pc'[r] = l
      /\ local' \in [Requests -> Local] /\ local'[r] = n /\ Moves(r)
  BY Stepping
<1>2. TypeOK'
  BY <1>1 DEF TypeOK
<1>3. Grows
  BY DEF Grows
<1>4. Well'
  BY <1>1, <1>2, <1>3, OthersWell
<1>5. PlansOK'
  BY <1>1, <1>2, <1>3, PlansAside
<1>6. SubsOK'
  BY <1>1, SubsAside
<1>7. CardsOK'
  BY <1>1, CardsAside
<1> QED
  BY <1>4, <1>5, <1>6, <1>7 DEF Inv

(* One that keeps its locals as well.                                      *)
LEMMA Quieter ==
  ASSUME Inv, NEW r \in Requests, NEW l \in PCs \ {"idle"}, Goto(r, l),
         UNCHANGED <<local, gatewayPlans, gatewaySubs, customers, cards, plans, subs>>,
         gatewayCards' \in [Requests -> Requests \cup {None}],
         addresses' \subseteq customers, userPlans' \in [Users -> SUBSET {"basic", "pagarme"}],
         pc[r] \notin {"done", "failed"},
         pc[r] \in {"recordPlan", "recordSub"} => l = "failed",
         l = "done" => ~Is(r, "deletePlan")
  PROVE  /\ pc'[r] = l /\ local'[r] = local[r]
         /\ KindOK(r)' /\ Filled(r)' /\ Knows(r)' => Inv'
<1>1. Well /\ l \in PCs
  BY DEF Inv
<1>2. Step(r, l, local[r]) /\ local[r] \in Local
  BY <1>1, Staying
<1>3. pc'[r] = l /\ local'[r] = local[r]
  BY <1>1, <1>2, Stepping
<1>4. StillKnows(r)
  BY <1>3 DEF StillKnows
<1> QED
  BY <1>1, <1>2, <1>3, <1>4, Quietly

(* A request asks for what it may: cards and plans that have rows.         *)
LEMMA ArriveKeeps ==
  ASSUME Inv, NEW r \in Requests, NEW kind, NEW card \in Requests \cup {None},
         NEW plan \in PlanIds \cup {None}, NEW d \in BOOLEAN, Arrive(r, kind, card, plan, d),
         kind \in Kinds \ {"deleteCard", "listPlans"},
         kind \in {"card", "default", "subscribe"} => card \in Requests,
         kind = "card" => card = r,
         kind \in {"subscribe", "editPlan", "deletePlan"} =>
           plan \in PlanIds /\ plans[plan] # None
  PROVE  Inv'
<1> DEFINE n == [Blank EXCEPT !.kind = kind, !.card = card, !.plan = plan, !.discount = d]
           l == FirstStep(kind)
<1>. Well /\ PlansOK /\ TypeOK
  BY DEF Inv, Well
<1>1. pc[r] = "idle" /\ local[r] = Blank
  BY DEF Arrive, Well, KindOK
<1>2. /\ n \in Local /\ n.kind = kind /\ n.card = card /\ n.plan = plan /\ n.seen = None
      /\ n.listed = [p \in PlanIds |-> None] /\ n.known = [p \in PlanIds |-> None]
  BY DEF Blank, Local
<1>3. /\ l \in PCs
      /\ kind = "signUp" => l = "newCustomer"
      /\ kind \in {"card", "default", "subscribe"} => l = "customer"
      /\ kind = "cancel" => l = "subInfo"
      /\ kind = "createPlan" => l = "createPlan"
      /\ kind = "editPlan" => l = "checkPlan"
      /\ kind = "deletePlan" => l = "deletePlan"
  BY DEF Kinds, FirstStep, PCs
<1>4. local' = [local EXCEPT ![r] = n]
  BY <1>1 DEF Arrive
<1> HIDE DEF n, l
<1>5. Step(r, l, n)
  BY <1>4 DEF Arrive, Step, l
<1>6. pc'[r] = l /\ local'[r] = n
  BY <1>2, <1>3, <1>5, Stepping
<1>7. /\ UNCHANGED <<gatewayPlans, gatewaySubs, customers, cards, plans, subs>>
      /\ UNCHANGED <<gatewayCards, addresses, userPlans>>
  BY DEF Arrive, gateway, people
<1>8. kind \in {"signUp", "card", "default", "subscribe", "cancel", "createPlan", "editPlan",
                "deletePlan"}
  BY DEF Kinds
<1>9. KindOK(r)'
  BY <1>2, <1>3, <1>6, <1>8 DEF KindOK, Is
<1>10. Filled(r)'
  BY <1>2, <1>3, <1>6, <1>7, <1>8 DEF Filled
<1>11. Knows(r)'
  BY <1>2, <1>3, <1>6, <1>8 DEF Knows
<1>12. l \notin {"done", "failed", "idle"}
  BY <1>3, <1>8
<1>13. StillKnows(r)
  BY <1>1 DEF StillKnows
<1>14. /\ gatewayCards' \in [Requests -> Requests \cup {None}]
       /\ addresses' \subseteq customers /\ userPlans' \in [Users -> SUBSET {"basic", "pagarme"}]
  BY <1>7 DEF TypeOK
<1> QED
  BY <1>1, <1>2, <1>3, <1>5, <1>7, <1>9, <1>10, <1>11, <1>12, <1>13, <1>14, Quietly

LEMMA Arriving ==
  ASSUME Inv, NEW r \in Requests,
         \/ AddNewUserToPaymentsInfra(r) \/ CreateCreditCard(r) \/ SetCardDefault(r)
         \/ CreatePlannedSubscription(r) \/ CancelPlannedSubscription(r)
         \/ CreatePlan(r) \/ EditPlan(r) \/ DeletePlan(r)
  PROVE  Inv'
<1>. {"signUp", "card", "default", "subscribe", "cancel", "createPlan", "editPlan", "deletePlan"}
       \subseteq Kinds \ {"deleteCard", "listPlans"}
  BY DEF Kinds
<1>. r \in PlanIds /\ \A p \in Planned : p \in PlanIds /\ plans[p] # None
  BY DEF PlanIds, Planned
<1>1. CASE AddNewUserToPaymentsInfra(r)
  BY <1>1, ArriveKeeps DEF AddNewUserToPaymentsInfra
<1>2. CASE CreateCreditCard(r)
  BY <1>2, ArriveKeeps DEF CreateCreditCard
<1>3. CASE SetCardDefault(r)
  <2>1. PICK c \in Requests : Arrive(r, "default", c, None, FALSE)
    BY <1>3 DEF SetCardDefault, Recorded
  <2> QED
    BY <2>1, ArriveKeeps
<1>4. CASE CreatePlannedSubscription(r)
  <2>1. PICK c \in Requests, p \in Planned, d \in BOOLEAN : Arrive(r, "subscribe", c, p, d)
    BY <1>4 DEF CreatePlannedSubscription, Recorded
  <2> QED
    BY <2>1, ArriveKeeps
<1>5. CASE CancelPlannedSubscription(r)
  BY <1>5, ArriveKeeps DEF CancelPlannedSubscription
<1>6. CASE CreatePlan(r)
  BY <1>6, ArriveKeeps DEF CreatePlan
<1>7. CASE EditPlan(r)
  <2>1. PICK p \in Planned : Arrive(r, "editPlan", None, p, FALSE)
    BY <1>7 DEF EditPlan
  <2> QED
    BY <2>1, ArriveKeeps
<1>8. CASE DeletePlan(r)
  <2>1. PICK p \in Planned : Arrive(r, "deletePlan", None, p, FALSE)
    BY <1>8 DEF DeletePlan
  <2> QED
    BY <2>1, ArriveKeeps
<1> QED
  BY <1>1, <1>2, <1>3, <1>4, <1>5, <1>6, <1>7, <1>8

LEMMA GetPlansInfoKeeps ==
  ASSUME Inv, NEW r \in Requests, GetPlansInfo(r)
  PROVE  Inv'
<1> DEFINE listed == [p \in PlanIds |-> IF Alive(p) THEN gatewayPlans[p] ELSE None]
           n == [Blank EXCEPT !.kind = "listPlans", !.listed = listed]
<1>. Well /\ PlansOK /\ TypeOK
  BY DEF Inv, Well
<1>1. pc[r] = "idle" /\ local[r] = Blank
  BY DEF GetPlansInfo, Well, KindOK
<1>2. listed \in [PlanIds -> Plan \cup {None}]
  BY DEF TypeOK, Alive
<1>3. \A p \in PlanIds : listed[p] # None => gatewayPlans[p] # None
  BY DEF Alive
<1>4. local' = [local EXCEPT ![r] = n]
  BY <1>1 DEF GetPlansInfo
<1> HIDE DEF listed
<1>5. /\ n \in Local /\ n.kind = "listPlans" /\ n.seen = None
      /\ n.listed = listed /\ n.known = [p \in PlanIds |-> None]
  BY <1>2 DEF Blank, Local, Kinds
<1> HIDE DEF n
<1>. "readIds" \in PCs
  BY DEF PCs
<1>6. Step(r, "readIds", n)
  BY <1>4 DEF GetPlansInfo, Step
<1>7. pc'[r] = "readIds" /\ local'[r] = n
  BY <1>5, <1>6, Stepping
<1>8. /\ UNCHANGED <<gatewayPlans, gatewaySubs, customers, cards, plans, subs>>
      /\ UNCHANGED <<gatewayCards, addresses, userPlans>>
  BY DEF GetPlansInfo, gateway, people
<1>9. KindOK(r)' /\ Filled(r)'
  BY <1>5, <1>7 DEF KindOK, Filled, Is
<1>10. Knows(r)'
  BY <1>3, <1>5, <1>7, <1>8 DEF Knows, Is
<1>11. StillKnows(r)
  BY <1>1 DEF StillKnows
<1>12. /\ gatewayCards' \in [Requests -> Requests \cup {None}]
       /\ addresses' \subseteq customers /\ userPlans' \in [Users -> SUBSET {"basic", "pagarme"}]
  BY <1>8 DEF TypeOK
<1> QED
  BY <1>1, <1>5, <1>6, <1>8, <1>9, <1>10, <1>11, <1>12, Quietly

(* Where a request goes on once it knows its customer.                     *)
LEMMA WithCustomerGoes ==
  ASSUME NEW r, local[r].kind \in {"signUp", "card", "default", "subscribe"}
  PROVE  /\ WithCustomer(r) \in PCs \ {"idle"}
         /\ Is(r, "card") => WithCustomer(r) = "createCard"
         /\ Is(r, "default") => WithCustomer(r) = "setDefault"
         /\ Is(r, "subscribe") => WithCustomer(r) = "checkCard"
         /\ Is(r, "signUp") => WithCustomer(r) = "done"
  BY DEF WithCustomer, Is, PCs

LEMMA GetCustomerIdByUserIdKeeps ==
  ASSUME Inv, NEW r \in Requests, GetCustomerIdByUserId(r)
  PROVE  Inv'
<1>. Well /\ TypeOK
  BY DEF Inv, Well
<1>1. pc[r] = "customer" /\ local[r].kind \in {"card", "default", "subscribe"}
  BY DEF GetCustomerIdByUserId, Well, KindOK
<1>2. /\ UNCHANGED <<gatewayPlans, gatewaySubs, customers, cards, plans, subs>>
      /\ UNCHANGED <<gatewayCards, addresses, userPlans>>
  BY DEF GetCustomerIdByUserId, gateway, people
<1>3. /\ gatewayCards' \in [Requests -> Requests \cup {None}]
      /\ addresses' \subseteq customers /\ userPlans' \in [Users -> SUBSET {"basic", "pagarme"}]
  BY <1>2 DEF TypeOK
<1>4. /\ Filled(r) /\ Knows(r)
  BY DEF Well
<1>5. CASE Goto(r, "newCustomer") /\ UNCHANGED local
  <2>. "newCustomer" \in PCs \ {"idle"}
    BY DEF PCs
  <2>1. /\ pc'[r] = "newCustomer" /\ local'[r] = local[r]
        /\ KindOK(r)' /\ Filled(r)' /\ Knows(r)' => Inv'
    BY <1>1, <1>2, <1>3, <1>5, Quieter
  <2>2. KindOK(r)' /\ Filled(r)' /\ Knows(r)'
    BY <1>1, <1>2, <1>4, <2>1 DEF KindOK, Filled, Knows, Is
  <2> QED
    BY <2>1, <2>2
<1>6. ASSUME NEW c \in CustomersOf(UserOf[r]), local' = [local EXCEPT ![r].customer = c],
             Goto(r, WithCustomer(r))
      PROVE  Inv'
  <2> DEFINE o == local[r]
             n == [o EXCEPT !.customer = c]
             l == WithCustomer(r)
  <2>1. local' = [local EXCEPT ![r] = n] /\ o \in Local /\ c \in Requests
    BY <1>6 DEF TypeOK, CustomersOf
  <2> HIDE DEF o
  <2>2. /\ n \in Local /\ n.customer = c /\ n.kind = o.kind /\ n.card = o.card /\ n.plan = o.plan
        /\ n.seen = o.seen /\ n.listed = o.listed /\ n.known = o.known
    BY <2>1 DEF Local
  <2> HIDE DEF n
  <2>3. /\ l \in PCs \ {"idle"} /\ l \in PCs
        /\ o.kind = "card" => l = "createCard"
        /\ o.kind = "default" => l = "setDefault"
        /\ o.kind = "subscribe" => l = "checkCard"
    BY <1>1, WithCustomerGoes DEF Is, o
  <2> HIDE DEF l
  <2>4. Step(r, l, n)
    BY <1>6, <2>1 DEF Step, l
  <2>5. pc'[r] = l /\ local'[r] = n
    BY <2>2, <2>3, <2>4, Stepping
  <2>6. o.kind \in {"card", "default", "subscribe"} /\ o.card \in Requests
    BY <1>1, <1>4 DEF o, Filled
  <2>7. KindOK(r)'
    BY <2>2, <2>3, <2>5, <2>6 DEF KindOK, Is
  <2>8. Filled(r)'
    BY <1>2, <1>4, <1>6, <2>2, <2>3, <2>5, <2>6 DEF Filled, CustomersOf, o
  <2>9. o.seen = None
    BY <1>1, <1>4 DEF Knows, o
  <2>10. Knows(r)'
    BY <1>2, <1>4, <2>2, <2>3, <2>5, <2>6, <2>9 DEF Knows, Is, o
  <2>11. StillKnows(r)
    BY <2>2, <2>5 DEF StillKnows, o
  <2> QED
    BY <1>1, <1>2, <1>3, <2>2, <2>3, <2>4, <2>6, <2>7, <2>8, <2>10, <2>11, Quietly
<1> QED
  BY <1>5, <1>6 DEF GetCustomerIdByUserId

(* The steps that only read, or write what no other request looks at.      *)
LEMMA Unseen ==
  ASSUME Inv, NEW r \in Requests,
         \/ DeleteUserCard(r) \/ CreateCustomer(r) \/ UpdateOrCreateCustomerAddress(r)
         \/ CreateCustomerCard(r) \/ NoBillingAddress(r) \/ CheckCustomerCardAddress(r)
         \/ CheckCardById(r) \/ CheckPlanById(r) \/ GetUserSubscriptionInfo(r)
         \/ UpdateSubscriptionCycles(r) \/ ItemRefused(r) \/ GetPlansIds(r) \/ EndListing(r)
         \/ Fail(r)
  PROVE  /\ UNCHANGED <<gatewayPlans, gatewaySubs, customers, cards, plans, subs>>
         /\ gatewayCards' \in [Requests -> Requests \cup {None}]
         /\ addresses' \subseteq customers /\ userPlans' \in [Users -> SUBSET {"basic", "pagarme"}]
         /\ Well /\ TypeOK /\ KindOK(r) /\ Filled(r) /\ Knows(r) /\ local[r] \in Local
<1>1. /\ Well /\ TypeOK /\ KindOK(r) /\ Filled(r) /\ Knows(r) /\ local[r] \in Local
  BY DEF Inv, Well, TypeOK
<1>2. /\ UNCHANGED <<gatewayPlans, gatewaySubs, customers, cards, plans, subs>>
      /\ UNCHANGED gatewayCards \/ CreateCustomerCard(r)
      /\ UNCHANGED addresses \/ UpdateOrCreateCustomerAddress(r) \/ CheckCustomerCardAddress(r)
      /\ UNCHANGED userPlans \/ GetUserSubscriptionInfo(r)
  BY DEF DeleteUserCard, CreateCustomer, UpdateOrCreateCustomerAddress, CreateCustomerCard,
         NoBillingAddress, CheckCustomerCardAddress, CheckCardById, CheckPlanById,
         GetUserSubscriptionInfo, UpdateSubscriptionCycles, ItemRefused, GetPlansIds,
         EndListing, Fail, gateway, people
<1>3. gatewayCards' \in [Requests -> Requests \cup {None}]
  <2>1. CASE CreateCustomerCard(r)
    <3>1. local[r].customer \in Requests \cup {None}
      BY <1>1 DEF Local
    <3> QED
      BY <1>1, <2>1, <3>1 DEF CreateCustomerCard, TypeOK
  <2> QED
    BY <1>1, <1>2, <2>1 DEF TypeOK
<1>4. addresses' \subseteq customers
  <2>1. CASE UpdateOrCreateCustomerAddress(r)
    BY <1>1, <2>1 DEF UpdateOrCreateCustomerAddress, Filled, TypeOK
  <2>2. CASE CheckCustomerCardAddress(r)
    BY <1>1, <2>2 DEF CheckCustomerCardAddress, Filled, TypeOK, CustomersOf
  <2> QED
    BY <1>1, <1>2, <2>1, <2>2 DEF TypeOK
<1>5. userPlans' \in [Users -> SUBSET {"basic", "pagarme"}]
  <2>1. CASE GetUserSubscriptionInfo(r)
    <3> DEFINE mine == userPlans[UserOf[r]]
               row == IF mine = {} THEN {"basic"} ELSE mine
    <3>1. UserOf[r] \in Users
      BY BillingAssumption
    <3>2. row \in SUBSET {"basic", "pagarme"}
      BY <1>1, <3>1 DEF TypeOK
    <3>3. userPlans' = [userPlans EXCEPT ![UserOf[r]] = row]
      BY <2>1 DEF GetUserSubscriptionInfo
    <3> HIDE DEF row
    <3> QED
      BY <1>1, <3>1, <3>2, <3>3 DEF TypeOK
  <2> QED
    BY <1>1, <1>2, <2>1 DEF TypeOK
<1> QED
  BY <1>1, <1>2, <1>3, <1>4, <1>5

LEMMA DeleteUserCardKeeps ==
  ASSUME Inv, NEW r \in Requests, DeleteUserCard(r)
  PROVE  Inv'
<1>. "failed" \in PCs \ {"idle"}
  BY DEF PCs
<1>1. pc[r] = "idle" /\ Goto(r, "failed") /\ UNCHANGED local
  BY DEF DeleteUserCard
<1>2. /\ pc'[r] = "failed" /\ local'[r] = local[r]
      /\ KindOK(r)' /\ Filled(r)' /\ Knows(r)' => Inv'
  BY <1>1, Unseen, Quieter
<1>3. local[r] = Blank /\ None \notin Kinds
  BY <1>1, Unseen, BillingAssumption DEF KindOK
<1>4. KindOK(r)' /\ Filled(r)' /\ Knows(r)'
  BY <1>2, <1>3 DEF KindOK, Filled, Knows, Is, Blank, Kinds
<1> QED
  BY <1>2, <1>4

LEMMA CreateCustomerKeeps ==
  ASSUME Inv, NEW r \in Requests, CreateCustomer(r)
  PROVE  Inv'
<1> DEFINE o == local[r]
           n == [o EXCEPT !.customer = r]
<1>. "recordCustomer" \in PCs
  BY DEF PCs
<1>1. pc[r] = "newCustomer" /\ Goto(r, "recordCustomer")
  BY DEF CreateCustomer
<1>2. local' = [local EXCEPT ![r] = n] /\ o \in Local
  BY Unseen DEF CreateCustomer
<1> HIDE DEF o
<1>3. /\ n \in Local /\ n.customer = r /\ n.kind = o.kind /\ n.card = o.card /\ n.plan = o.plan
      /\ n.seen = o.seen /\ n.listed = o.listed /\ n.known = o.known
  BY <1>2 DEF Local
<1> HIDE DEF n
<1>4. Step(r, "recordCustomer", n)
  BY <1>1, <1>2 DEF Step
<1>5. pc'[r] = "recordCustomer" /\ local'[r] = n
  BY <1>3, <1>4, Unseen, Stepping
<1>6. KindOK(r) /\ Filled(r) /\ Knows(r) /\ local[r] = o
  BY Unseen DEF o
<1>7. KindOK(r)'
  BY <1>1, <1>3, <1>5, <1>6 DEF KindOK, Is
<1>8. Filled(r)'
  BY <1>1, <1>3, <1>5, <1>6, Unseen DEF Filled
<1>9. Knows(r)'
  BY <1>1, <1>3, <1>5, <1>6, Unseen DEF Knows, Is
<1>10. StillKnows(r)
  BY <1>3, <1>5, <1>6 DEF StillKnows
<1> QED
  BY <1>1, <1>3, <1>4, <1>7, <1>8, <1>9, <1>10, Unseen, Quietly

LEMMA UpdateOrCreateCustomerAddressKeeps ==
  ASSUME Inv, NEW r \in Requests, UpdateOrCreateCustomerAddress(r)
  PROVE  Inv'
<1>1. /\ pc[r] = "recordAddress" /\ Goto(r, WithCustomer(r)) /\ UNCHANGED local
      /\ local[r].kind \in {"signUp", "card", "default", "subscribe"}
      /\ local[r].customer = r /\ r \in customers /\ local[r].seen = None
  BY Unseen DEF UpdateOrCreateCustomerAddress, KindOK, Filled, Knows
<1> DEFINE l == WithCustomer(r)
<1>2. /\ l \in PCs \ {"idle"}
      /\ Is(r, "card") => l = "createCard"
      /\ Is(r, "default") => l = "setDefault"
      /\ Is(r, "subscribe") => l = "checkCard"
      /\ Is(r, "signUp") => l = "done"
  BY <1>1, WithCustomerGoes
<1>3. Goto(r, l)
  BY <1>1
<1> HIDE DEF l
<1>4. l = "done" => ~Is(r, "deletePlan")
  BY <1>1 DEF Is
<1>5. /\ pc'[r] = l /\ local'[r] = local[r]
      /\ KindOK(r)' /\ Filled(r)' /\ Knows(r)' => Inv'
  BY <1>1, <1>2, <1>3, <1>4, Unseen, Quieter
<1>6. KindOK(r)'
  BY <1>1, <1>2, <1>5 DEF KindOK, Is
<1>7. Filled(r)'
  BY <1>1, <1>2, <1>5, Unseen DEF Filled, Is
<1>8. Knows(r)'
  BY <1>1, <1>2, <1>5, Unseen DEF Knows, Is
<1> QED
  BY <1>5, <1>6, <1>7, <1>8

(* The plan is read at the gateway: the request had read none before.      *)
LEMMA CheckPlanByIdKeeps ==
  ASSUME Inv, NEW r \in Requests, CheckPlanById(r)
  PROVE  Inv'
<1> DEFINE o == local[r]
           p == o.plan
<1>. /\ "failed" \in PCs \ {"idle"} /\ "refreshPlan" \in PCs
  BY DEF PCs
<1>1. pc[r] = "checkPlan" /\ o.kind \in {"subscribe", "editPlan"} /\ o.seen = None
  BY Unseen DEF CheckPlanById, KindOK, Knows
<1>2. KindOK(r) /\ Filled(r) /\ Knows(r) /\ p \in PlanIds
  BY <1>1, Unseen DEF Filled
<1>3. CASE Goto(r, "failed") /\ UNCHANGED local
  <2>1. /\ pc'[r] = "failed" /\ local'[r] = local[r]
        /\ KindOK(r)' /\ Filled(r)' /\ Knows(r)' => Inv'
    BY <1>1, <1>3, Unseen, Quieter
  <2>2. KindOK(r)' /\ Filled(r)' /\ Knows(r)'
    BY <1>1, <1>2, <2>1, Unseen DEF KindOK, Filled, Knows, Is
  <2> QED
    BY <2>1, <2>2
<1>4. CASE /\ OnSale(p) /\ local' = [local EXCEPT ![r].seen = gatewayPlans[p]]
           /\ Goto(r, "refreshPlan")
  <2> DEFINE s == gatewayPlans[p]
             n == [o EXCEPT !.seen = s]
  <2>1. local' = [local EXCEPT ![r] = n] /\ o \in Local /\ s \in Plan
    BY <1>2, <1>4, Unseen DEF OnSale, Inv, PlansOK, TypeOK
  <2>2. s # None /\ Older(s, s)
    BY <2>1, RowsAssumption DEF Older, Plan
  <2>3. local[r] = o /\ s = gatewayPlans[o.plan] /\ o.plan \in PlanIds
    BY <1>2
  <2> HIDE DEF o, p, s
  <2>4. /\ n \in Local /\ n.seen = s /\ n.kind = o.kind /\ n.card = o.card /\ n.plan = o.plan
        /\ n.listed = o.listed /\ n.known = o.known /\ n.customer = o.customer
    BY <2>1 DEF Local
  <2> HIDE DEF n
  <2>5. Step(r, "refreshPlan", n)
    BY <1>4, <2>1 DEF Step
  <2>6. pc'[r] = "refreshPlan" /\ local'[r] = n
    BY <2>4, <2>5, Unseen, Stepping
  <2>7. KindOK(r)'
    BY <1>1, <2>4, <2>6 DEF KindOK, Is
  <2>8. Filled(r)'
    BY <1>2, <2>3, <2>4, <2>6, Unseen DEF Filled
  <2>9. Knows(r)'
    BY <1>2, <2>2, <2>3, <2>4, <2>6, Unseen DEF Knows, Is
  <2>10. StillKnows(r)
    BY <1>1, <2>3, <2>4, <2>6 DEF StillKnows
  <2> QED
    BY <1>1, <2>4, <2>5, <2>7, <2>8, <2>9, <2>10, Unseen, Quietly
<1> QED
  BY <1>3, <1>4 DEF CheckPlanById

(* What has a row is read.                                                 *)
LEMMA GetPlansIdsKeeps ==
  ASSUME Inv, NEW r \in Requests, GetPlansIds(r)
  PROVE  Inv'
<1> DEFINE o == local[r]
           n == [o EXCEPT !.known = plans]
<1>. "reconcile" \in PCs
  BY DEF PCs
<1>1. pc[r] = "readIds" /\ Goto(r, "reconcile") /\ o.kind = "listPlans"
  BY Unseen DEF GetPlansIds, KindOK, Is
<1>2. local' = [local EXCEPT ![r] = n] /\ o \in Local
  BY Unseen DEF GetPlansIds
<1>3. local[r] = o
  OBVIOUS
<1> HIDE DEF o
<1>4. /\ n \in Local /\ n.known = plans /\ n.kind = o.kind /\ n.card = o.card /\ n.plan = o.plan
      /\ n.seen = o.seen /\ n.listed = o.listed
  <2>1. plans \in [PlanIds -> Plan \cup {None}]
    BY Unseen DEF TypeOK
  <2> QED
    BY <1>2, <2>1 DEF Local
<1> HIDE DEF n
<1>5. Step(r, "reconcile", n)
  BY <1>1, <1>2 DEF Step
<1>6. pc'[r] = "reconcile" /\ local'[r] = n
  BY <1>4, <1>5, Unseen, Stepping
<1>7. KindOK(r)' /\ Filled(r)'
  BY <1>1, <1>4, <1>6 DEF KindOK, Filled, Is
<1>8. Knows(r)'
  BY <1>1, <1>3, <1>4, <1>6, Unseen DEF Knows, Is
<1>9. StillKnows(r)
  BY <1>3, <1>4, <1>6 DEF StillKnows
<1> QED
  BY <1>1, <1>4, <1>5, <1>7, <1>8, <1>9, Unseen, Quietly

(* One of the rest: r goes on to l, knowing what it knew.                  *)
LEMMA GoingOn ==
  ASSUME Inv, NEW r \in Requests, NEW l \in PCs \ {"idle"}, Goto(r, l), UNCHANGED local,
         \/ CreateCustomerCard(r) \/ NoBillingAddress(r) \/ CheckCustomerCardAddress(r)
         \/ CheckCardById(r) \/ GetUserSubscriptionInfo(r) \/ UpdateSubscriptionCycles(r)
         \/ ItemRefused(r) \/ EndListing(r) \/ Fail(r),
         l = "failed" \/ /\ pc[r] \notin {"recordPlan", "recordSub"}
                         /\ l = "done" => ~Is(r, "deletePlan"),
         pc[r] \notin Over
  PROVE  /\ pc'[r] = l /\ local'[r] = local[r]
         /\ KindOK(r)' /\ Filled(r)' /\ Knows(r)' => Inv'
<1>1. /\ UNCHANGED <<gatewayPlans, gatewaySubs, customers, cards, plans, subs>>
      /\ gatewayCards' \in [Requests -> Requests \cup {None}]
      /\ addresses' \subseteq customers /\ userPlans' \in [Users -> SUBSET {"basic", "pagarme"}]
  BY Unseen
<1>2. /\ pc[r] \notin {"done", "failed"}
      /\ pc[r] \in {"recordPlan", "recordSub"} => l = "failed"
      /\ l = "done" => ~Is(r, "deletePlan")
  BY DEF Over
<1> QED
  BY <1>1, <1>2, Quieter

LEMMA FailKeeps ==
  ASSUME Inv, NEW r \in Requests, Fail(r)
  PROVE  Inv'
<1>. "failed" \in PCs \ {"idle"}
  BY DEF PCs
<1>1. pc[r] \notin Over /\ Goto(r, "failed") /\ UNCHANGED local
  BY DEF Fail
<1>2. /\ pc'[r] = "failed" /\ local'[r] = local[r]
      /\ KindOK(r)' /\ Filled(r)' /\ Knows(r)' => Inv'
  BY <1>1, GoingOn
<1>3. KindOK(r)' /\ Filled(r)' /\ Knows(r)'
  BY <1>2, Unseen DEF KindOK, Filled, Knows, Is
<1> QED
  BY <1>2, <1>3

LEMMA CardStepsKeep ==
  ASSUME Inv, NEW r \in Requests,
         CreateCustomerCard(r) \/ NoBillingAddress(r) \/ CheckCustomerCardAddress(r)
  PROVE  Inv'
<1>1. pc[r] \in {"createCard", "cardAddress"} /\ UNCHANGED local /\ Is(r, "card")
  BY Unseen DEF CreateCustomerCard, NoBillingAddress, CheckCustomerCardAddress, KindOK
<1>2. PICK l \in {"cardAddress", "failed", "recordCard"} : Goto(r, l)
  BY DEF CreateCustomerCard, NoBillingAddress, CheckCustomerCardAddress
<1>. l \in PCs \ {"idle"}
  BY DEF PCs
<1>3. pc[r] \notin Over /\ pc[r] \notin {"recordPlan", "recordSub"} /\ l # "done"
  BY <1>1, <1>2 DEF Over
<1>4. /\ pc'[r] = l /\ local'[r] = local[r]
      /\ KindOK(r)' /\ Filled(r)' /\ Knows(r)' => Inv'
  BY <1>1, <1>2, <1>3, GoingOn
<1>5. KindOK(r)' /\ Filled(r)' /\ Knows(r)'
  BY <1>1, <1>2, <1>4, Unseen DEF KindOK, Filled, Knows, Is
<1> QED
  BY <1>4, <1>5

LEMMA SubscriptionStepsKeep ==
  ASSUME Inv, NEW r \in Requests,
         CheckCardById(r) \/ GetUserSubscriptionInfo(r) \/ UpdateSubscriptionCycles(r)
  PROVE  Inv'
<1>1. UNCHANGED local /\ pc[r] \in {"checkCard", "subInfo", "cycles"}
  BY DEF CheckCardById, GetUserSubscriptionInfo, UpdateSubscriptionCycles
<1>2. local[r].kind \in {"subscribe", "cancel"}
  BY <1>1, Unseen DEF KindOK, Is
<1>3. PICK l \in {"checkPlan", "failed", "cancelSub", "createSub", "done"} :
        /\ Goto(r, l)
        /\ l = "checkPlan" => pc[r] = "checkCard"
        /\ l = "createSub" => pc[r] = "subInfo" /\ ~Is(r, "cancel")
        /\ l = "cancelSub" => pc[r] = "subInfo"
  BY DEF CheckCardById, GetUserSubscriptionInfo, UpdateSubscriptionCycles
<1>. l \in PCs \ {"idle"}
  BY DEF PCs
<1>4. pc[r] \notin Over /\ pc[r] \notin {"recordPlan", "recordSub"} /\ ~Is(r, "deletePlan")
  BY <1>1, <1>2 DEF Over, Is
<1>5. /\ pc'[r] = l /\ local'[r] = local[r]
      /\ KindOK(r)' /\ Filled(r)' /\ Knows(r)' => Inv'
  BY <1>1, <1>3, <1>4, GoingOn
<1>6. KindOK(r)'
  BY <1>1, <1>2, <1>3, <1>5, Unseen DEF KindOK, Is
<1>7. Filled(r)' /\ Knows(r)'
  BY <1>1, <1>2, <1>3, <1>5, Unseen DEF Filled, Knows, KindOK, Is
<1> QED
  BY <1>5, <1>6, <1>7

LEMMA ItemRefusedKeeps ==
  ASSUME Inv, NEW r \in Requests, ItemRefused(r)
  PROVE  Inv'
<1>. "recordEdit" \in PCs \ {"idle"}
  BY DEF PCs
<1>1. pc[r] = "editItem" /\ pc[r] \notin Over /\ Goto(r, "recordEdit") /\ UNCHANGED local
  BY DEF ItemRefused, Over
<1>2. /\ pc'[r] = "recordEdit" /\ local'[r] = local[r]
      /\ KindOK(r)' /\ Filled(r)' /\ Knows(r)' => Inv'
  BY <1>1, GoingOn
<1>3. KindOK(r)' /\ Filled(r)' /\ Knows(r)'
  BY <1>1, <1>2, Unseen DEF KindOK, Filled, Knows, Is
<1> QED
  BY <1>2, <1>3

LEMMA EndListingKeeps ==
  ASSUME Inv, NEW r \in Requests, EndListing(r)
  PROVE  Inv'
<1>. "done" \in PCs \ {"idle"}
  BY DEF PCs
<1>1. pc[r] = "reconcile" /\ pc[r] \notin Over /\ Goto(r, "done") /\ UNCHANGED local
  BY DEF EndListing, Over
<1>2. Is(r, "listPlans") /\ ~Is(r, "deletePlan")
  BY <1>1, Unseen DEF KindOK, Is
<1>3. /\ pc'[r] = "done" /\ local'[r] = local[r]
      /\ KindOK(r)' /\ Filled(r)' /\ Knows(r)' => Inv'
  BY <1>1, <1>2, GoingOn
<1>4. KindOK(r)' /\ Filled(r)' /\ Knows(r)'
  BY <1>2, <1>3, Unseen DEF KindOK, Filled, Knows, Is
<1> QED
  BY <1>3, <1>4

-----------------------------------------------------------------------------
(* Rows of customers, cards and subscriptions.                             *)

(* A step that keeps the plans and its locals, whatever else it writes.    *)
LEMMA AwayFromPlans ==
  ASSUME Inv, NEW r \in Requests, NEW l \in PCs \ {"idle"}, Goto(r, l),
         UNCHANGED <<local, gatewayPlans, plans>>, customers \subseteq customers',
         pc[r] \notin {"idle", "done", "failed", "recordPlan", "recordDeletion"},
         l = "done" => ~Is(r, "deletePlan")
  PROVE  /\ pc' \in [Requests -> PCs] /\ local' \in [Requests -> Local]
         /\ pc'[r] = l /\ local'[r] = local[r] /\ Moves(r)
         /\ KindOK(r) /\ Filled(r) /\ Knows(r)
         /\ Well /\ TypeOK /\ CardsOK /\ SubsOK
         /\ TypeOK' /\ KindOK(r)' /\ Filled(r)' /\ Knows(r)' => Well' /\ PlansOK'
<1>1. Well /\ PlansOK /\ CardsOK /\ SubsOK /\ TypeOK /\ KindOK(r) /\ Filled(r) /\ Knows(r) /\ l \in PCs
  BY DEF Inv, Well
<1>2. Step(r, l, local[r]) /\ local[r] \in Local
  BY <1>1, Staying
<1>3. /\ pc' \in [Requests -> PCs] /\ pc'[r] = l
      /\ local' \in [Requests -> Local] /\ local'[r] = local[r] /\ Moves(r)
  BY <1>1, <1>2, Stepping
<1>4. StillKnows(r) /\ Grows
  BY <1>3 DEF StillKnows, Grows
<1>5. ASSUME TypeOK', KindOK(r)', Filled(r)', Knows(r)' PROVE Well' /\ PlansOK'
  BY <1>1, <1>3, <1>4, <1>5, OthersWell, PlansAside
<1> QED
  BY <1>1, <1>3, <1>5

LEMMA CreateCustomerRecordKeeps ==
  ASSUME Inv, NEW r \in Requests, CreateCustomerRecord(r)
  PROVE  Inv'
<1>. "recordAddress" \in PCs \ {"idle"}
  BY DEF PCs
<1>1. /\ pc[r] = "recordCustomer" /\ Goto(r, "recordAddress")
      /\ pc[r] \notin {"idle", "done", "failed", "recordPlan", "recordDeletion"}
      /\ UNCHANGED <<local, gatewayPlans, plans>>
      /\ UNCHANGED <<gatewayCards, gatewaySubs, addresses, cards, subs, userPlans>>
      /\ customers' = customers \cup {r} /\ customers \subseteq customers'
  BY DEF CreateCustomerRecord, gateway
<1>2. /\ pc' \in [Requests -> PCs] /\ local' \in [Requests -> Local]
      /\ pc'[r] = "recordAddress" /\ local'[r] = local[r] /\ Moves(r)
      /\ KindOK(r) /\ Filled(r) /\ Knows(r)
      /\ Well /\ TypeOK /\ CardsOK /\ SubsOK
      /\ TypeOK' /\ KindOK(r)' /\ Filled(r)' /\ Knows(r)' => Well' /\ PlansOK'
  BY <1>1, AwayFromPlans
<1>3. TypeOK'
  BY <1>1, <1>2 DEF TypeOK
<1>4. KindOK(r)' /\ Filled(r)' /\ Knows(r)'
  BY <1>1, <1>2 DEF KindOK, Filled, Knows, Is
<1>5. SubsOK'
  BY <1>1, <1>2, SubsAside
<1>6. CardsOK'
  BY <1>1, <1>2, CardsAside
<1> QED
  BY <1>2, <1>3, <1>4, <1>5, <1>6 DEF Inv

LEMMA CreateCardRecordKeeps ==
  ASSUME Inv, NEW r \in Requests, CreateCardRecord(r)
  PROVE  Inv'
<1> DEFINE x == [customer |-> local[r].customer, isDefault |-> FALSE]
<1>1. PICK l \in {"setDefault", "done"} : Goto(r, l)
  BY DEF CreateCardRecord
<1>. l \in PCs \ {"idle"}
  BY DEF PCs
<1>2. /\ pc[r] = "recordCard"
      /\ pc[r] \notin {"idle", "done", "failed", "recordPlan", "recordDeletion"}
      /\ UNCHANGED <<local, gatewayPlans, plans>>
      /\ UNCHANGED <<gatewayCards, gatewaySubs, customers, addresses, subs, userPlans>>
      /\ customers \subseteq customers'
      /\ cards' = [cards EXCEPT ![r] = x]
  BY DEF CreateCardRecord, gateway, people
<1>3. /\ Is(r, "card") /\ ~Is(r, "deletePlan") /\ local[r].customer \in customers
      /\ local[r].customer \in CustomersOf(UserOf[r])
  BY <1>2 DEF Inv, Well, KindOK, Filled, Is, CustomersOf
<1>4. /\ pc' \in [Requests -> PCs] /\ local' \in [Requests -> Local]
      /\ pc'[r] = l /\ local'[r] = local[r] /\ Moves(r)
      /\ KindOK(r) /\ Filled(r) /\ Knows(r)
      /\ Well /\ TypeOK /\ CardsOK /\ SubsOK
      /\ TypeOK' /\ KindOK(r)' /\ Filled(r)' /\ Knows(r)' => Well' /\ PlansOK'
  BY <1>1, <1>2, <1>3, AwayFromPlans
<1>5. x \in Card /\ x.customer \in CustomersOf(UserOf[r]) /\ ~x.isDefault
  BY <1>3, <1>4 DEF Card, TypeOK
<1> HIDE DEF x
<1>6. cards'[r] = x /\ \A c \in Requests \ {r} : cards'[c] = cards[c]
  BY <1>2, <1>4 DEF TypeOK
<1>7. TypeOK'
  BY <1>2, <1>4, <1>5 DEF TypeOK
<1>8. KindOK(r)' /\ Filled(r)' /\ Knows(r)'
  BY <1>2, <1>3, <1>4 DEF KindOK, Filled, Knows, Is
<1>9. SubsOK'
  BY <1>2, <1>4, SubsAside
<1>10. CardsOK'
  <2>1. \A c \in Requests : cards'[c] # None => cards'[c].customer \in CustomersOf(UserOf[c])'
    BY <1>2, <1>4, <1>5, <1>6 DEF CardsOK, CustomersOf
  <2>2. ASSUME NEW u \in Users, NEW c \in Requests, NEW d \in Requests,
               c # d, DefaultOf(c, u)', DefaultOf(d, u)'
        PROVE  CardCause(c, d, u)'
    <3>1. DefaultOf(c, u) /\ DefaultOf(d, u)
      BY <1>5, <1>6, <2>2 DEF DefaultOf
    <3>2. CardCause(c, d, u)
      BY <1>4, <2>2, <3>1 DEF CardsOK, DefaultCardsHaveCause, CardCause
    <3> QED
      BY <1>2, <1>4, <3>2, CardCauseStays
  <2> QED
    BY <2>1, <2>2 DEF CardsOK, DefaultCardsHaveCause, CardCause
<1> QED
  BY <1>4, <1>7, <1>8, <1>9, <1>10 DEF Inv

(* The transaction leaves at most the default cards of other customers; and*)
(* a card that is not the caller's own he can only have named himself.     *)
LEMMA SetUserCardDefaultKeeps ==
  ASSUME Inv, NEW r \in Requests, SetUserCardDefault(r)
  PROVE  Inv'
<1>0. PICK card, customer : card = local[r].card /\ customer = local[r].customer
  OBVIOUS
<1>. "done" \in PCs \ {"idle"}
  BY DEF PCs
<1>1. /\ pc[r] = "setDefault" /\ Goto(r, "done")
      /\ pc[r] \notin {"idle", "done", "failed", "recordPlan", "recordDeletion"}
      /\ UNCHANGED <<local, gatewayPlans, plans>>
      /\ UNCHANGED <<gatewayCards, gatewaySubs, customers, addresses, subs, userPlans>>
      /\ customers \subseteq customers'
      /\ cards' = WithDefault(card, customer)
  BY <1>0 DEF SetUserCardDefault, gateway, people
<1>2. /\ ~Is(r, "deletePlan") /\ (Is(r, "card") \/ Is(r, "default"))
      /\ customer \in CustomersOf(UserOf[r]) /\ (Is(r, "card") => card = r)
  BY <1>0, <1>1 DEF Inv, Well, KindOK, Filled, Is, CustomersOf
<1>3. /\ pc' \in [Requests -> PCs] /\ local' \in [Requests -> Local]
      /\ pc'[r] = "done" /\ local'[r] = local[r] /\ Moves(r)
      /\ KindOK(r) /\ Filled(r) /\ Knows(r)
      /\ Well /\ TypeOK /\ CardsOK /\ SubsOK
      /\ TypeOK' /\ KindOK(r)' /\ Filled(r)' /\ Knows(r)' => Well' /\ PlansOK'
  BY <1>1, <1>2, AwayFromPlans
<1>4. ASSUME NEW c \in Requests
      PROVE  /\ cards'[c] \in Card \cup {None}
             /\ cards'[c] # None =>
                  /\ cards[c] # None /\ cards'[c].customer = cards[c].customer
                  /\ cards'[c].isDefault /\ c # card =>
                       cards[c].isDefault /\ cards[c].customer # customer
  <2>1. cards[c] \in Card \cup {None}
    BY <1>3 DEF TypeOK
  <2>2. cards'[c] = IF cards[c] = None THEN None
                    ELSE IF c = card THEN [cards[c] EXCEPT !.isDefault = TRUE]
                    ELSE IF cards[c].customer = customer THEN [cards[c] EXCEPT !.isDefault = FALSE]
                    ELSE cards[c]
    BY <1>1 DEF WithDefault
  <2>3. ASSUME NEW x \in Card, NEW b \in BOOLEAN
        PROVE  /\ [x EXCEPT !.isDefault = b] \in Card
               /\ [x EXCEPT !.isDefault = b].customer = x.customer
               /\ [x EXCEPT !.isDefault = b].isDefault = b
    BY DEF Card
  <2>4. CASE cards[c] = None
    BY <2>2, <2>4
  <2>5. CASE cards[c] # None /\ c = card
    BY <2>1, <2>2, <2>3, <2>5
  <2>6. CASE cards[c] # None /\ c # card /\ cards[c].customer = customer
    BY <2>1, <2>2, <2>3, <2>6
  <2>7. CASE cards[c] # None /\ c # card /\ cards[c].customer # customer
    BY <2>1, <2>2, <2>7
  <2> QED
    BY <2>4, <2>5, <2>6, <2>7
<1>5. cards' \in [Requests -> Card \cup {None}]
  BY <1>1, <1>4 DEF WithDefault
<1>6. TypeOK'
  BY <1>1, <1>3, <1>5 DEF TypeOK
<1>7. KindOK(r)' /\ Filled(r)' /\ Knows(r)'
  BY <1>1, <1>3 DEF KindOK, Filled, Knows, Is
<1>8. SubsOK'
  BY <1>1, <1>3, SubsAside
<1>9. \A c \in Requests : cards[c] # None => cards[c].customer \in CustomersOf(UserOf[c])
  BY <1>3 DEF CardsOK
<1>10. ASSUME NEW c \in Requests, cards'[c] # None
       PROVE  cards'[c].customer \in CustomersOf(UserOf[c])'
  BY <1>1, <1>4, <1>9, <1>10 DEF CustomersOf
<1>11. CustomersOf(UserOf[r])' = CustomersOf(UserOf[r])
  BY <1>1 DEF CustomersOf
<1>12. ASSUME NEW u \in Users, NEW d \in Requests, card \in Requests, card # d,
              DefaultOf(card, u)', DefaultOf(d, u)'
       PROVE  CardCause(card, d, u)' /\ CardCause(d, card, u)'
  <2>1. /\ cards[d] # None /\ cards[d].customer # customer
        /\ cards[d].customer \in CustomersOf(UserOf[d]) /\ UserOf[cards[d].customer] = u
    BY <1>4, <1>9, <1>12 DEF DefaultOf
  <2>2. cards[card] # None /\ UserOf[card] = u
    BY <1>4, <1>9, <1>12 DEF DefaultOf, CustomersOf
  <2>3. CASE UserOf[r] = u
    <3>1. cards[d].customer \in CustomersOf(u)' /\ customer \in CustomersOf(u)'
      BY <1>1, <1>2, <2>1, <2>3 DEF CustomersOf
    <3> QED
      BY <2>1, <3>1 DEF CardCause
  <2>4. CASE UserOf[r] # u
    <3>1. Is(r, "default")
      BY <1>2, <2>2, <2>4
    <3>2. Is(r, "default")' /\ pc'[r] = "done" /\ local'[r].card = card
      BY <1>0, <1>3, <3>1 DEF Is
    <3> QED
      BY <2>4, <3>2 DEF CardCause
  <2> QED
    BY <2>3, <2>4
<1>13. ASSUME NEW u \in Users, NEW c \in Requests, NEW d \in Requests,
              c # d, DefaultOf(c, u)', DefaultOf(d, u)'
       PROVE  CardCause(c, d, u)'
  <2>1. CASE c # card /\ d # card
    <3>1. DefaultOf(c, u) /\ DefaultOf(d, u)
      BY <1>4, <1>13, <2>1 DEF DefaultOf
    <3>2. CardCause(c, d, u)
      BY <1>3, <1>13, <3>1 DEF CardsOK, DefaultCardsHaveCause, CardCause
    <3> QED
      BY <1>1, <1>3, <3>2, CardCauseStays
  <2>2. CASE c = card \/ d = card
    BY <1>12, <1>13, <2>2
  <2> QED
    BY <2>1, <2>2
<1>14. CardsOK'
  BY <1>10, <1>13 DEF CardsOK, DefaultCardsHaveCause, CardCause
<1> QED
  BY <1>3, <1>6, <1>7, <1>8, <1>14 DEF Inv

LEMMA CreatePlannedSubscriptionPagarmeKeeps ==
  ASSUME Inv, NEW r \in Requests, CreatePlannedSubscriptionPagarme(r)
  PROVE  Inv'
<1>1. PICK l \in {"recordSub", "failed"} :
        /\ Goto(r, l)
        /\ (l = "recordSub" /\ gatewaySubs' = gatewaySubs \cup {r}) \/ UNCHANGED gatewaySubs
  BY DEF CreatePlannedSubscriptionPagarme
<1>. l \in PCs \ {"idle"} /\ l # "done"
  BY DEF PCs
<1>2. /\ pc[r] = "createSub"
      /\ pc[r] \notin {"idle", "done", "failed", "recordPlan", "recordDeletion"}
      /\ UNCHANGED <<local, gatewayPlans, plans>>
      /\ UNCHANGED <<gatewayCards, customers, addresses, cards, subs, userPlans>>
      /\ customers \subseteq customers'
  BY DEF CreatePlannedSubscriptionPagarme, people
<1>3. /\ pc' \in [Requests -> PCs] /\ local' \in [Requests -> Local]
      /\ pc'[r] = l /\ local'[r] = local[r] /\ Moves(r)
      /\ KindOK(r) /\ Filled(r) /\ Knows(r)
      /\ Well /\ TypeOK /\ CardsOK /\ SubsOK
      /\ TypeOK' /\ KindOK(r)' /\ Filled(r)' /\ Knows(r)' => Well' /\ PlansOK'
  BY <1>1, <1>2, AwayFromPlans
<1>4. TypeOK'
  BY <1>1, <1>2, <1>3 DEF TypeOK
<1>5. KindOK(r)' /\ Filled(r)' /\ Knows(r)'
  BY <1>1, <1>2, <1>3 DEF KindOK, Filled, Knows, Is
<1>6. SubsOK'
  BY <1>1, <1>2, <1>3 DEF SubsOK, Moves, TypeOK
<1>7. CardsOK'
  BY <1>2, <1>3, CardsAside
<1> QED
  BY <1>3, <1>4, <1>5, <1>6, <1>7 DEF Inv

LEMMA CreateSubscriptionKeeps ==
  ASSUME Inv, NEW r \in Requests, CreateSubscription(r)
  PROVE  Inv'
<1>1. PICK l \in {"cycles", "failed"} :
        /\ Goto(r, l)
        /\ \/ l = "cycles" /\ subs' = subs \cup {r}
           \/ l = "failed" /\ UNCHANGED subs
  <2>1. CASE Goto(r, "failed") /\ UNCHANGED subs
    BY <2>1
  <2>2. CASE subs' = subs \cup {r} /\ Goto(r, "cycles")
    BY <2>2
  <2> QED
    BY <2>1, <2>2 DEF CreateSubscription
<1>. l \in PCs \ {"idle"} /\ l # "done"
  BY DEF PCs
<1>2. /\ pc[r] = "recordSub"
      /\ pc[r] \notin {"idle", "done", "failed", "recordPlan", "recordDeletion"}
      /\ UNCHANGED <<local, gatewayPlans, plans>>
      /\ UNCHANGED <<gatewayCards, gatewaySubs, customers, addresses, cards, userPlans>>
      /\ customers \subseteq customers'
  BY DEF CreateSubscription, gateway, people
<1>3. /\ pc' \in [Requests -> PCs] /\ local' \in [Requests -> Local]
      /\ pc'[r] = l /\ local'[r] = local[r] /\ Moves(r)
      /\ KindOK(r) /\ Filled(r) /\ Knows(r)
      /\ Well /\ TypeOK /\ CardsOK /\ SubsOK
      /\ TypeOK' /\ KindOK(r)' /\ Filled(r)' /\ Knows(r)' => Well' /\ PlansOK'
  BY <1>1, <1>2, AwayFromPlans
<1>4. TypeOK'
  BY <1>1, <1>2, <1>3 DEF TypeOK
<1>5. KindOK(r)' /\ Filled(r)' /\ Knows(r)'
  BY <1>1, <1>2, <1>3 DEF KindOK, Filled, Knows, Is
<1>6. SubsOK'
  BY <1>1, <1>2, <1>3 DEF SubsOK, Moves, TypeOK
<1>7. CardsOK'
  BY <1>2, <1>3, CardsAside
<1> QED
  BY <1>3, <1>4, <1>5, <1>6, <1>7 DEF Inv

-----------------------------------------------------------------------------
(* Plans.                                                                  *)

(* A step that writes a plan, or its row, and neither a customer, a card   *)
(* nor a subscription.                                                     *)
OnlyPlans == UNCHANGED <<gatewayCards, gatewaySubs, customers, addresses, cards, subs, userPlans>>

(* What of the plans has to be shown: rows are of plans that the gateway   *)
(* has, those of a request's own plan come in their order, and a plan that *)
(* is deleted is off sale as well, or was so before, or has a cause in r.  *)
Accounted(r) ==
  /\ \A p \in PlanIds : plans'[p] # None => gatewayPlans'[p] # None
  /\ gatewayPlans'[r] # None => Is(r, "createPlan")' /\ pc'[r] \in {"recordPlan", "done", "failed"}
  /\ plans'[r] # None => pc'[r] = "done"
  /\ \A q \in Requests \ {r} : /\ gatewayPlans'[q] # None => gatewayPlans[q] # None
                               /\ plans'[q] # None => plans[q] # None
  /\ \A p \in PlanIds :
       Deleted(p)' => \/ Deleted(p) /\ (Withdrawn(p) => Withdrawn(p)')
                      \/ Withdrawn(p)' \/ CauseOf(r, p)'

LEMMA PlansKeep ==
  ASSUME Inv, NEW r \in Requests, NEW l \in PCs, NEW n \in Local, Step(r, l, n), OnlyPlans,
         plans' \in [PlanIds -> Plan \cup {None}],
         gatewayPlans' \in [PlanIds -> Plan \cup {None}],
         Grows, Remembers(r), Accounted(r),
         pc[r] \notin {"recordSub", "failed", "done"},
         KindOK(r)', Filled(r)', Knows(r)'
  PROVE  Inv'
<1>. Well /\ CardsOK /\ SubsOK /\ PlansOK /\ TypeOK
  BY DEF Inv, Well
<1>1. /\ pc' \in [Requests -> PCs] /\ pc'[r] = l
      /\ local' \in [Requests -> Local] /\ local'[r] = n /\ Moves(r)
  BY Stepping
<1>2. /\ UNCHANGED <<gatewayCards, gatewaySubs, customers, addresses, cards, subs, userPlans>>
      /\ customers \subseteq customers'
  BY DEF OnlyPlans
<1>3. TypeOK'
  BY <1>1, <1>2 DEF TypeOK
<1>4. Well'
  BY <1>1, <1>3, OthersWell
<1>5. SubsOK'
  BY <1>1, <1>2, SubsAside
<1>6. CardsOK'
  BY <1>1, <1>2, CardsAside
<1>7. ASSUME NEW p \in PlanIds, Deleted(p)'
      PROVE  Withdrawn(p)' \/ \E q \in Requests : CauseOf(q, p)'
  <2>1. CASE Deleted(p) /\ (Withdrawn(p) => Withdrawn(p)')
    <3>1. Withdrawn(p) \/ \E q \in Requests : CauseOf(q, p)
      BY <2>1 DEF PlansOK
    <3> QED
      BY <1>1, <1>3, <2>1, <3>1, OthersCauses
  <2>2. CASE Withdrawn(p)' \/ CauseOf(r, p)'
    BY <2>2
  <2> QED
    BY <1>7, <2>1, <2>2 DEF Accounted
<1>8. ASSUME NEW q \in Requests
      PROVE  /\ gatewayPlans'[q] # None =>
                  Is(q, "createPlan")' /\ pc'[q] \in {"recordPlan", "done", "failed"}
             /\ plans'[q] # None => pc'[q] = "done"
  <2>1. CASE q = r
    BY <2>1 DEF Accounted
  <2>2. CASE q # r
    BY <1>1, <2>2 DEF Accounted, PlansOK, Moves, Is
  <2> QED
    BY <2>1, <2>2
<1>9. PlansOK'
  BY <1>7, <1>8 DEF PlansOK, Accounted
<1> QED
  BY <1>4, <1>5, <1>6, <1>9 DEF Inv

(* The row of a plan is written, from what r knows.                        *)
LEMMA WritingRow ==
  ASSUME Inv, NEW r \in Requests, NEW p \in PlanIds, NEW s \in Plan,
         plans' = [plans EXCEPT ![p] = s], UNCHANGED <<gatewayPlans, customers>>
  PROVE  /\ plans' \in [PlanIds -> Plan \cup {None}]
         /\ gatewayPlans' \in [PlanIds -> Plan \cup {None}]
         /\ plans'[p] = s /\ s # None /\ plans'[p] # None
         /\ \A q \in PlanIds \ {p} : plans'[q] = plans[q]
         /\ Grows
  BY RowsAssumption DEF Inv, Well, TypeOK, Grows

LEMMA CreatePlanRecordKeeps ==
  ASSUME Inv, NEW r \in Requests, CreatePlanRecord(r)
  PROVE  Inv'
<1> DEFINE s == [active |-> TRUE, version |-> 0]
<1>. r \in PlanIds /\ "done" \in PCs
  BY DEF PlanIds, PCs
<1>1. Well /\ PlansOK /\ TypeOK /\ KindOK(r) /\ Filled(r) /\ Knows(r)
  BY DEF Inv, Well
<1>2. /\ pc[r] = "recordPlan" /\ Goto(r, "done") /\ UNCHANGED local
      /\ UNCHANGED <<gatewayPlans, customers>> /\ OnlyPlans
      /\ plans' = [plans EXCEPT ![r] = s]
  BY DEF CreatePlanRecord, OnlyPlans, gateway, people
<1>3. s \in Plan
  BY DEF Plan
<1> HIDE DEF s
<1>4. /\ plans' \in [PlanIds -> Plan \cup {None}]
      /\ gatewayPlans' \in [PlanIds -> Plan \cup {None}]
      /\ plans'[r] # None
      /\ \A q \in PlanIds \ {r} : plans'[q] = plans[q]
      /\ Grows
  BY <1>2, <1>3, WritingRow
<1>5. Step(r, "done", local[r]) /\ local[r] \in Local
  BY <1>1, <1>2, Staying
<1>6. pc'[r] = "done" /\ local'[r] = local[r]
  BY <1>1, <1>5, Stepping
<1>7. KindOK(r)' /\ Filled(r)' /\ Knows(r)'
  BY <1>1, <1>2, <1>4, <1>6 DEF KindOK, Filled, Knows, Grows, Is
<1>8. Is(r, "createPlan") /\ ~Is(r, "deletePlan") /\ plans[r] = None
  BY <1>1, <1>2 DEF KindOK, PlansOK, Is
<1>9. Remembers(r)
  BY <1>1, <1>2, <1>6, <1>8, RemembersKnown DEF StillKnows
<1>10. \A p \in PlanIds : plans'[p] # None => gatewayPlans'[p] # None
  BY <1>1, <1>2, <1>4 DEF Knows, PlansOK
<1>11. \A p \in PlanIds : Deleted(p)' => Deleted(p) /\ (Withdrawn(p) => Withdrawn(p)')
  BY <1>2, <1>4, <1>8 DEF Deleted, Withdrawn
<1>12. Accounted(r)
  BY <1>2, <1>4, <1>6, <1>8, <1>10, <1>11 DEF Accounted, PlanIds, Is
<1> QED
  BY <1>2, <1>4, <1>5, <1>7, <1>9, <1>12, PlansKeep

(* The row of its plan gets the state that r has read.                     *)
LEMMA WritingSeen ==
  ASSUME Inv, NEW r \in Requests, NEW l \in PCs, Goto(r, l), UNCHANGED <<local, gatewayPlans>>,
         OnlyPlans, plans' = [plans EXCEPT ![local[r].plan] = local[r].seen],
         pc[r] \in {"refreshPlan", "recordEdit", "recordDeletion"},
         l \in {"failed", "editPlan", "subInfo", "done"},
         l = "editPlan" => Is(r, "editPlan"), l = "subInfo" => Is(r, "subscribe"),
         l = "done" => pc[r] # "refreshPlan"
  PROVE  Inv'
<1> DEFINE o == local[r]
           p == o.plan
           s == o.seen
<1>1. Well /\ PlansOK /\ TypeOK /\ KindOK(r) /\ Filled(r) /\ Knows(r)
  BY DEF Inv, Well
<1>2. Step(r, l, o) /\ o \in Local
  BY <1>1, Staying
<1>3. pc'[r] = l /\ local'[r] = o
  BY <1>1, <1>2, Stepping
<1>4. /\ o.kind \in {"subscribe", "editPlan", "deletePlan"}
      /\ o.kind = "deletePlan" => pc[r] = "recordDeletion"
  BY <1>1 DEF KindOK, Is
<1>5. p \in PlanIds /\ plans[p] # None /\ s # None /\ Older(s, gatewayPlans[p])
  BY <1>1, <1>4 DEF Filled, Knows
<1>6. s \in Plan
  BY <1>2, <1>5 DEF Local
<1>7. customers' = customers
  BY DEF OnlyPlans
<1>8. plans' = [plans EXCEPT ![p] = s]
  OBVIOUS
<1>9. local[r] = o /\ o.plan = p /\ o.seen = s
  OBVIOUS
<1>10. pc[r] = "recordDeletion" => ~s.active
  BY <1>1 DEF Knows
<1> HIDE DEF o, p, s
<1>11. /\ plans' \in [PlanIds -> Plan \cup {None}]
       /\ gatewayPlans' \in [PlanIds -> Plan \cup {None}]
       /\ plans'[p] = s /\ plans'[p] # None
       /\ \A q \in PlanIds \ {p} : plans'[q] = plans[q]
       /\ Grows
  BY <1>5, <1>6, <1>7, <1>8, WritingRow
<1>12. KindOK(r)'
  BY <1>1, <1>3, <1>4, <1>9 DEF KindOK, Is
<1>13. Filled(r)' /\ Knows(r)'
  BY <1>1, <1>3, <1>4, <1>9, <1>11 DEF Filled, Knows, Grows, Is
<1>14. gatewayPlans[r] = None /\ plans[r] = None /\ r # p
  <2>1. pc[r] \notin {"recordPlan", "done", "failed"}
    OBVIOUS
  <2> QED
    BY <1>1, <1>5, <2>1 DEF PlansOK
<1>15. Remembers(r)
  <2> SUFFICES ASSUME NEW q \in PlanIds, CauseOf(r, q) PROVE CauseOf(r, q)' \/ Withdrawn(q)'
    BY DEF Remembers
  <2>1. CASE ReadBefore(r, q)
    BY <1>3, <1>9, <2>1 DEF CauseOf, ReadBefore
  <2>2. CASE Is(r, "deletePlan") /\ o.plan = q
    <3>1. q = p /\ ~s.active
      BY <1>4, <1>9, <1>10, <2>2 DEF Is
    <3> QED
      BY <1>11, <3>1 DEF Withdrawn
  <2>3. ~Is(r, "listPlans")
    BY <1>4, <1>9 DEF Is
  <2> QED
    BY <1>9, <2>1, <2>2, <2>3 DEF CauseOf
<1>16. ASSUME NEW q \in PlanIds, Deleted(q)'
       PROVE  \/ Deleted(q) /\ (Withdrawn(q) => Withdrawn(q)')
              \/ Withdrawn(q)' \/ CauseOf(r, q)'
  <2>1. CASE q # p
    BY <1>11, <1>16, <2>1 DEF Deleted, Withdrawn
  <2>2. CASE q = p /\ ~s.active
    BY <1>11, <2>2 DEF Withdrawn
  <2>3. CASE q = p /\ s.active
    <3>1. s.version < gatewayPlans[p].version
      BY <1>5, <1>16, <2>3 DEF Older, Deleted
    <3>2. ReadBefore(r, q)'
      BY <1>3, <1>5, <1>9, <2>3, <3>1 DEF ReadBefore
    <3> QED
      BY <3>2 DEF CauseOf
  <2>4. s.active \in BOOLEAN
    BY <1>6 DEF Plan
  <2> QED
    BY <2>1, <2>2, <2>3, <2>4
<1>17. Accounted(r)
  <2>1. \A q \in PlanIds : plans'[q] # None => gatewayPlans'[q] # None
    BY <1>1, <1>5, <1>11 DEF PlansOK
  <2>2. gatewayPlans'[r] = None /\ plans'[r] = None
    BY <1>11, <1>14 DEF PlanIds
  <2>3. \A q \in Requests \ {r} : /\ gatewayPlans'[q] # None => gatewayPlans[q] # None
                                  /\ plans'[q] # None => plans[q] # None
    BY <1>5, <1>11 DEF PlanIds
  <2> QED
    BY <1>16, <2>1, <2>2, <2>3 DEF Accounted
<1> QED
  BY <1>2, <1>11, <1>12, <1>13, <1>15, <1>17, PlansKeep

LEMMA WritingSeenKeeps ==
  ASSUME Inv, NEW r \in Requests, RefreshPlan(r) \/ RecordEdit(r) \/ RecordDeletion(r)
  PROVE  Inv'
<1>1. /\ UNCHANGED <<local, gatewayPlans>> /\ OnlyPlans
      /\ plans' = [plans EXCEPT ![local[r].plan] = local[r].seen]
      /\ pc[r] \in {"refreshPlan", "recordEdit", "recordDeletion"}
  BY DEF RefreshPlan, RecordEdit, RecordDeletion, OnlyPlans, gateway, people
<1>2. Is(r, "subscribe") \/ Is(r, "editPlan") \/ Is(r, "deletePlan")
  BY <1>1 DEF Inv, Well, KindOK, Is
<1>3. pc[r] = "refreshPlan" => Is(r, "subscribe") \/ Is(r, "editPlan")
  BY <1>1 DEF Inv, Well, KindOK, Is
<1>4. PICK l \in {"failed", "editPlan", "subInfo", "done"} :
        /\ Goto(r, l)
        /\ l = "editPlan" => Is(r, "editPlan")
        /\ l = "subInfo" => Is(r, "subscribe")
        /\ l = "done" => pc[r] # "refreshPlan"
  BY <1>3 DEF RefreshPlan, RecordEdit, RecordDeletion
<1>. l \in PCs
  BY DEF PCs
<1> QED
  BY <1>1, <1>4, WritingSeen

LEMMA CreatePlanPagarmeKeeps ==
  ASSUME Inv, NEW r \in Requests, CreatePlanPagarme(r)
  PROVE  Inv'
<1> DEFINE s == [active |-> TRUE, version |-> 0]
<1>. r \in PlanIds /\ "recordPlan" \in PCs
  BY DEF PlanIds, PCs
<1>1. Well /\ PlansOK /\ TypeOK /\ KindOK(r) /\ Filled(r) /\ Knows(r)
  BY DEF Inv, Well
<1>2. /\ pc[r] = "createPlan" /\ Goto(r, "recordPlan") /\ UNCHANGED <<local, plans, customers>>
      /\ OnlyPlans /\ gatewayPlans' = [gatewayPlans EXCEPT ![r] = s]
  BY DEF CreatePlanPagarme, OnlyPlans, people
<1>3. s \in Plan /\ s # None /\ s.active
  <2>1. s \in Plan /\ s.active
    BY DEF Plan
  <2> QED
    BY <2>1, RowsAssumption
<1> HIDE DEF s
<1>4. gatewayPlans[r] = None /\ plans[r] = None
  BY <1>1, <1>2 DEF PlansOK
<1>5. /\ gatewayPlans' \in [PlanIds -> Plan \cup {None}]
      /\ plans' \in [PlanIds -> Plan \cup {None}]
      /\ gatewayPlans'[r] = s
      /\ \A p \in PlanIds \ {r} : gatewayPlans'[p] = gatewayPlans[p]
  BY <1>1, <1>2, <1>3 DEF TypeOK
<1>6. Grows
  BY <1>2, <1>4, <1>5 DEF Grows
<1>7. Step(r, "recordPlan", local[r]) /\ local[r] \in Local
  BY <1>1, <1>2, Staying
<1>8. pc'[r] = "recordPlan" /\ local'[r] = local[r]
  BY <1>1, <1>7, Stepping
<1>9. Is(r, "createPlan") /\ ~Is(r, "deletePlan")
  BY <1>1, <1>2 DEF KindOK, Is
<1>10. KindOK(r)' /\ Filled(r)'
  BY <1>1, <1>2, <1>8, <1>9 DEF KindOK, Filled, Is
<1>11. /\ local[r].seen # None => local[r].plan # r
       /\ \A p \in PlanIds : local[r].listed[p] # None => p # r
  BY <1>1, <1>4 DEF Knows, Older
<1>12. Knows(r)'
  BY <1>1, <1>2, <1>3, <1>5, <1>8, <1>11 DEF Knows, Is
<1>13. Remembers(r)
  <2> SUFFICES ASSUME NEW p \in PlanIds, Deleted(p), CauseOf(r, p) PROVE CauseOf(r, p)'
    BY DEF Remembers
  <2>1. gatewayPlans'[p] = gatewayPlans[p]
    BY <1>4, <1>5 DEF Deleted
  <2> QED
    BY <1>8, <1>9, <2>1 DEF CauseOf, ReadBefore, Is
<1>14. Accounted(r)
  <2>1. \A p \in PlanIds : plans'[p] # None => gatewayPlans'[p] # None
    BY <1>1, <1>2, <1>4, <1>5 DEF PlansOK
  <2>2. \A q \in Requests \ {r} : /\ gatewayPlans'[q] # None => gatewayPlans[q] # None
                                  /\ plans'[q] # None => plans[q] # None
    BY <1>2, <1>5 DEF PlanIds
  <2>3. \A p \in PlanIds : Deleted(p)' => Deleted(p) /\ (Withdrawn(p) => Withdrawn(p)')
    BY <1>2, <1>3, <1>5 DEF Deleted, Withdrawn
  <2> QED
    BY <1>2, <1>4, <1>8, <1>9, <2>1, <2>2, <2>3 DEF Accounted, Is
<1> QED
  BY <1>2, <1>5, <1>6, <1>7, <1>10, <1>12, <1>13, <1>14, PlansKeep

(* A plan at the gateway becomes a later version of itself.                *)
LEMMA Changing ==
  ASSUME Inv, NEW p \in PlanIds, NEW b \in BOOLEAN, Alive(p),
         gatewayPlans' = [gatewayPlans EXCEPT ![p] = Changed(p, b)],
         UNCHANGED <<plans, customers>>
  PROVE  /\ plans' \in [PlanIds -> Plan \cup {None}]
         /\ gatewayPlans' \in [PlanIds -> Plan \cup {None}]
         /\ Changed(p, b) \in Plan /\ Changed(p, b) # None
         /\ Changed(p, b).active = b /\ Changed(p, b).version > gatewayPlans[p].version
         /\ gatewayPlans'[p] = Changed(p, b) /\ gatewayPlans[p] # None /\ ~Deleted(p)
         /\ \A q \in PlanIds \ {p} : gatewayPlans'[q] = gatewayPlans[q]
         /\ Grows
<1>1. gatewayPlans[p] \in Plan /\ gatewayPlans[p] # None /\ ~Deleted(p) /\ TypeOK
  BY DEF Inv, Well, TypeOK, Alive, Deleted
<1>2. /\ Changed(p, b) \in Plan /\ Changed(p, b) # None
      /\ Changed(p, b).active = b /\ Changed(p, b).version > gatewayPlans[p].version
  BY <1>1, RowsAssumption DEF Changed, Plan
<1> DEFINE s == Changed(p, b)
<1> HIDE DEF s
<1>3. gatewayPlans' = [gatewayPlans EXCEPT ![p] = s] /\ s \in Plan
  BY <1>2 DEF s
<1>4. /\ gatewayPlans' \in [PlanIds -> Plan \cup {None}] /\ gatewayPlans'[p] = s
      /\ \A q \in PlanIds \ {p} : gatewayPlans'[q] = gatewayPlans[q]
  BY <1>1, <1>3 DEF TypeOK
<1>5. Grows
  BY <1>1, <1>2, <1>4 DEF Grows, s
<1> QED
  BY <1>1, <1>2, <1>4, <1>5 DEF TypeOK, s

(* What r has read of it, before or now, is a state it has been in.        *)
LEMMA StillOlder ==
  ASSUME Inv, NEW p \in PlanIds, NEW b \in BOOLEAN, Alive(p),
         gatewayPlans' = [gatewayPlans EXCEPT ![p] = Changed(p, b)],
         UNCHANGED <<plans, customers>>,
         NEW s \in Plan, NEW q \in PlanIds, Older(s, gatewayPlans[q])
  PROVE  Older(s, gatewayPlans'[q])
<1>1. /\ gatewayPlans[q] \in Plan \cup {None} /\ gatewayPlans'[q] \in Plan \cup {None}
      /\ gatewayPlans[q] # None
  BY Changing DEF Inv, Well, TypeOK, Older
<1>2. /\ gatewayPlans'[q] # None
      /\ gatewayPlans'[q] = gatewayPlans[q] \/ gatewayPlans'[q].version > gatewayPlans[q].version
  BY <1>1, Changing DEF Grows
<1> QED
  BY <1>1, <1>2, Aging

(* A deleted plan is another plan, and is as it was.                       *)
LEMMA ChangingAccounted ==
  ASSUME Inv, NEW r \in Requests, NEW p \in PlanIds, NEW b \in BOOLEAN, Alive(p),
         gatewayPlans' = [gatewayPlans EXCEPT ![p] = Changed(p, b)],
         UNCHANGED <<plans, customers>>,
         pc[r] \notin {"recordPlan", "done", "failed"},
         ~b => CauseOf(r, p)'
  PROVE  Accounted(r)
<1>1. PlansOK
  BY DEF Inv
<1>2. /\ gatewayPlans'[p] = Changed(p, b) /\ Changed(p, b).active = b /\ gatewayPlans[p] # None
      /\ \A q \in PlanIds \ {p} : gatewayPlans'[q] = gatewayPlans[q]
      /\ Grows
  BY Changing
<1>3. \A q \in PlanIds : plans'[q] # None => gatewayPlans'[q] # None
  BY <1>1, <1>2 DEF PlansOK, Grows
<1>4. gatewayPlans[r] = None /\ plans[r] = None /\ r # p /\ r \in PlanIds
  BY <1>1, <1>2 DEF PlansOK, PlanIds
<1>5. \A q \in PlanIds : Deleted(q)' => \/ Deleted(q) /\ (Withdrawn(q) => Withdrawn(q)')
                                        \/ CauseOf(r, q)'
  BY <1>2 DEF Deleted, Withdrawn
<1>6. \A q \in Requests : /\ gatewayPlans'[q] # None => gatewayPlans[q] # None
                          /\ plans'[q] # None => plans[q] # None
  BY <1>2 DEF PlanIds
<1> QED
  BY <1>2, <1>3, <1>4, <1>5, <1>6 DEF Accounted

(* The version of a change is read, or forgotten.                          *)
LEMMA EditAtGatewayKeeps ==
  ASSUME Inv, NEW r \in Requests, EditAtGateway(r)
  PROVE  Inv'
<1> DEFINE o == local[r]
           p == o.plan
           s == Changed(p, TRUE)
<1>1. Well /\ PlansOK /\ TypeOK /\ KindOK(r) /\ Filled(r) /\ Knows(r) /\ o \in Local
  BY DEF Inv, Well, TypeOK
<1>2. /\ pc[r] \in {"editPlan", "editItem"} /\ Alive(p)
      /\ gatewayPlans' = [gatewayPlans EXCEPT ![p] = s]
      /\ UNCHANGED <<plans, customers>> /\ OnlyPlans
  BY DEF EditAtGateway, OnlyPlans, people
<1>3. o.kind = "editPlan" /\ p \in PlanIds /\ plans[p] # None
  BY <1>1, <1>2 DEF KindOK, Filled, Is
<1>4. /\ plans' \in [PlanIds -> Plan \cup {None}]
      /\ gatewayPlans' \in [PlanIds -> Plan \cup {None}]
      /\ s \in Plan /\ s # None /\ gatewayPlans'[p] = s /\ ~Deleted(p)
      /\ \A q \in PlanIds \ {p} : gatewayPlans'[q] = gatewayPlans[q]
      /\ Grows
  BY <1>2, <1>3, Changing
<1>5. Accounted(r)
  BY <1>2, <1>3, ChangingAccounted
<1>6. o.seen # None => Older(o.seen, gatewayPlans'[p])
  <2> SUFFICES ASSUME o.seen # None PROVE Older(o.seen, gatewayPlans'[p])
    OBVIOUS
  <2>1. Older(o.seen, gatewayPlans[p]) /\ o.seen \in Plan
    BY <1>1 DEF Knows, Local
  <2> QED
    BY <1>2, <1>3, <2>1, StillOlder
<1>7. Older(s, gatewayPlans'[p])
  BY <1>4, Newest
<1> DEFINE l == IF pc[r] = "editPlan" THEN "editItem" ELSE "recordEdit"
           n == IF pc[r] = "editPlan" THEN [o EXCEPT !.seen = s] ELSE o
<1>8. l \in PCs /\ (l = "editItem" \/ (l = "recordEdit" /\ pc[r] = "editItem"))
  BY <1>2 DEF PCs
<1>9. local' = [local EXCEPT ![r] = n] /\ Goto(r, l)
  <2>1. CASE pc[r] = "editPlan"
    BY <2>1 DEF EditAtGateway
  <2>2. CASE pc[r] = "editItem"
    <3>1. UNCHANGED local /\ Goto(r, "recordEdit")
      BY <2>2 DEF EditAtGateway
    <3> QED
      BY <1>1, <2>2, <3>1 DEF TypeOK
  <2> QED
    BY <1>2, <2>1, <2>2
<1>10. local[r] = o /\ o.plan = p
  OBVIOUS
<1> HIDE DEF o, p, s
<1>11. /\ n \in Local /\ n.kind = o.kind /\ n.card = o.card /\ n.plan = p /\ n.customer = o.customer
       /\ n.listed = o.listed /\ n.known = o.known
       /\ (n.seen = o.seen /\ pc[r] = "editItem") \/ n.seen = s
  BY <1>1, <1>2, <1>4, <1>10 DEF Local
<1> HIDE DEF n, l
<1>12. Step(r, l, n)
  BY <1>9 DEF Step
<1>13. pc'[r] = l /\ local'[r] = n
  BY <1>1, <1>8, <1>11, <1>12, Stepping
<1>14. KindOK(r)' /\ Filled(r)'
  BY <1>2, <1>3, <1>8, <1>11, <1>13 DEF KindOK, Filled, Is
<1>15. n.seen # None /\ Older(n.seen, gatewayPlans'[p])
  BY <1>1, <1>4, <1>6, <1>7, <1>10, <1>11 DEF Knows
<1>16. Knows(r)'
  BY <1>1, <1>2, <1>3, <1>4, <1>8, <1>10, <1>11, <1>13, <1>15 DEF Knows, Grows, Is
<1>17. Remembers(r)
  <2> SUFFICES ASSUME NEW q \in PlanIds, Deleted(q), CauseOf(r, q) PROVE CauseOf(r, q)'
    BY DEF Remembers
  <2>1. q # p /\ gatewayPlans'[q] = gatewayPlans[q]
    BY <1>4
  <2>2. ~Is(r, "deletePlan") /\ ~Is(r, "listPlans")
    BY <1>3, <1>10 DEF Is
  <2> QED
    BY <1>10, <1>11, <1>13, <2>1, <2>2 DEF CauseOf, ReadBefore
<1>18. pc[r] \notin {"recordSub", "failed"}
  BY <1>2
<1> QED
  BY <1>2, <1>4, <1>5, <1>8, <1>11, <1>12, <1>14, <1>16, <1>17, <1>18, PlansKeep

LEMMA DeletePlanPagarmeKeeps ==
  ASSUME Inv, NEW r \in Requests, DeletePlanPagarme(r)
  PROVE  Inv'
<1> DEFINE o == local[r]
<1>. "recordDeletion" \in PCs
  BY DEF PCs
<1>1. Well /\ PlansOK /\ TypeOK /\ KindOK(r) /\ Filled(r) /\ Knows(r) /\ o \in Local
  BY DEF Inv, Well, TypeOK
<1>2. PICK p : p = o.plan
  OBVIOUS
<1> DEFINE s == Changed(p, FALSE)
           n == [o EXCEPT !.seen = s]
<1>3. /\ pc[r] = "deletePlan" /\ Alive(p) /\ Goto(r, "recordDeletion")
      /\ gatewayPlans' = [gatewayPlans EXCEPT ![p] = s]
      /\ local' = [local EXCEPT ![r] = n]
      /\ UNCHANGED <<plans, customers>> /\ OnlyPlans
  BY <1>2 DEF DeletePlanPagarme, OnlyPlans, people
<1>4. o.kind = "deletePlan" /\ p \in PlanIds /\ plans[p] # None
  BY <1>1, <1>2, <1>3 DEF KindOK, Filled, Is
<1>5. /\ plans' \in [PlanIds -> Plan \cup {None}]
      /\ gatewayPlans' \in [PlanIds -> Plan \cup {None}]
      /\ s \in Plan /\ s # None /\ ~s.active /\ gatewayPlans'[p] = s /\ ~Deleted(p)
      /\ \A q \in PlanIds \ {p} : gatewayPlans'[q] = gatewayPlans[q]
      /\ Grows
  BY <1>3, <1>4, Changing
<1>6. Older(s, gatewayPlans'[p])
  BY <1>5, Newest
<1>7. local[r] = o /\ o.plan = p
  BY <1>2
<1> HIDE DEF s
<1>8. /\ n \in Local /\ n.kind = o.kind /\ n.card = o.card /\ n.plan = p /\ n.seen = s
      /\ n.listed = o.listed /\ n.known = o.known
  <2> HIDE DEF o
  <2> QED
    BY <1>1, <1>5, <1>7 DEF Local
<1>9. Step(r, "recordDeletion", n)
  BY <1>3 DEF Step
<1> HIDE DEF o, n
<1>10. pc'[r] = "recordDeletion" /\ local'[r] = n
  BY <1>1, <1>8, <1>9, Stepping
<1>11. KindOK(r)' /\ Filled(r)'
  BY <1>3, <1>4, <1>8, <1>10 DEF KindOK, Filled, Is
<1>12. Knows(r)'
  BY <1>1, <1>3, <1>4, <1>5, <1>6, <1>7, <1>8, <1>10 DEF Knows, Grows, Is
<1>13. CauseOf(r, p)'
  BY <1>4, <1>8, <1>10 DEF CauseOf, Is
<1>14. Accounted(r)
  BY <1>3, <1>4, <1>13, ChangingAccounted DEF s
<1>15. Remembers(r)
  <2> SUFFICES ASSUME NEW q \in PlanIds, Deleted(q), CauseOf(r, q), q # p
               PROVE  CauseOf(r, q)'
    BY <1>13 DEF Remembers
  <2>1. gatewayPlans'[q] = gatewayPlans[q]
    BY <1>5
  <2> QED
    BY <1>4, <1>7, <1>8, <1>10, <2>1 DEF CauseOf, ReadBefore, Is
<1>16. pc[r] \notin {"recordSub", "failed"}
  BY <1>3
<1> QED
  BY <1>3, <1>5, <1>8, <1>9, <1>11, <1>12, <1>14, <1>15, <1>16, PlansKeep

(* A listing deletes a plan that it met without a row.                     *)
LEMMA DeleteUnknownKeeps ==
  ASSUME Inv, NEW r \in Requests, DeleteUnknown(r)
  PROVE  Inv'
<1>1. /\ Well /\ PlansOK /\ TypeOK /\ KindOK(r) /\ Filled(r) /\ Knows(r) /\ local[r] \in Local
      /\ pc[r] \in PCs
  BY DEF Inv, Well, TypeOK
<1>2. PICK p \in PlanIds : /\ local[r].listed[p] # None /\ Alive(p)
                           /\ gatewayPlans' = [gatewayPlans EXCEPT ![p] = Changed(p, FALSE)]
  BY DEF DeleteUnknown
<1>3. /\ pc[r] = "reconcile" /\ UNCHANGED <<pc, local, plans, customers>> /\ OnlyPlans
  BY DEF DeleteUnknown, OnlyPlans, people
<1>4. Goto(r, pc[r])
  BY <1>1, <1>3 DEF Goto, TypeOK
<1>5. Step(r, pc[r], local[r])
  BY <1>1, <1>3, <1>4, Staying
<1>6. /\ plans' \in [PlanIds -> Plan \cup {None}]
      /\ gatewayPlans' \in [PlanIds -> Plan \cup {None}] /\ ~Deleted(p)
      /\ \A q \in PlanIds \ {p} : gatewayPlans'[q] = gatewayPlans[q]
      /\ Grows
  BY <1>2, <1>3, Changing
<1>7. Is(r, "listPlans")
  BY <1>1, <1>3 DEF KindOK
<1>8. KindOK(r)' /\ Filled(r)'
  BY <1>1, <1>3 DEF KindOK, Filled, Is, Blank
<1>9. local[r].seen # None =>
        local[r].plan \in PlanIds /\ Older(local[r].seen, gatewayPlans'[local[r].plan])
  <2> SUFFICES ASSUME local[r].seen # None
               PROVE  local[r].plan \in PlanIds /\ Older(local[r].seen, gatewayPlans'[local[r].plan])
    OBVIOUS
  <2>1. /\ local[r].plan \in PlanIds /\ local[r].seen \in Plan
        /\ Older(local[r].seen, gatewayPlans[local[r].plan])
    BY <1>1 DEF Knows, Local
  <2> QED
    BY <1>2, <1>3, <2>1, StillOlder
<1>10. Knows(r)'
  BY <1>1, <1>3, <1>6, <1>9 DEF Knows, Grows, Is
<1>11. CauseOf(r, p)'
  BY <1>2, <1>3, <1>7 DEF CauseOf, Is
<1>12. Accounted(r)
  BY <1>2, <1>3, <1>11, ChangingAccounted
<1>13. Remembers(r)
  <2> SUFFICES ASSUME NEW q \in PlanIds, Deleted(q), CauseOf(r, q) PROVE CauseOf(r, q)'
    BY DEF Remembers
  <2>1. gatewayPlans'[q] = gatewayPlans[q]
    BY <1>6
  <2> QED
    BY <1>3, <2>1 DEF CauseOf, ReadBefore, Is
<1> QED
  BY <1>1, <1>3, <1>5, <1>6, <1>8, <1>10, <1>12, <1>13, PlansKeep

(* It copies what it listed, whatever has become of the plan since.        *)
LEMMA RefreshPlanInfoKeeps ==
  ASSUME Inv, NEW r \in Requests, RefreshPlanInfo(r)
  PROVE  Inv'
<1> DEFINE o == local[r]
<1>1. /\ Well /\ PlansOK /\ TypeOK /\ KindOK(r) /\ Filled(r) /\ Knows(r) /\ o \in Local
      /\ pc[r] \in PCs
  BY DEF Inv, Well, TypeOK
<1>2. PICK p \in PlanIds :
        /\ o.listed[p] # None /\ o.known[p] # None
        /\ plans' = [plans EXCEPT ![p] = o.listed[p]]
        /\ local' = [local EXCEPT ![r].known[p] = o.listed[p]]
  BY DEF RefreshPlanInfo
<1> DEFINE s == o.listed[p]
           known == [o.known EXCEPT ![p] = s]
           n == [o EXCEPT !.known = known]
<1>3. /\ pc[r] = "reconcile" /\ UNCHANGED <<pc, gatewayPlans, customers>> /\ OnlyPlans
  BY DEF RefreshPlanInfo, OnlyPlans, gateway, people
<1>4. s \in Plan /\ s # None /\ plans[p] # None /\ known \in [PlanIds -> Plan \cup {None}]
  BY <1>1, <1>2 DEF Local, Knows
<1>5. local' = [local EXCEPT ![r] = n]
  BY <1>2
<1>6. Goto(r, "reconcile") /\ "reconcile" \in PCs
  BY <1>1, <1>3 DEF Goto, TypeOK
<1>7. local[r] = o /\ plans' = [plans EXCEPT ![p] = s]
  BY <1>2
<1>8. \A q \in PlanIds : known[q] # None => q = p \/ o.known[q] # None
  BY <1>1 DEF Local
<1>9. o.listed[p] = s
  OBVIOUS
<1> HIDE DEF s
<1> HIDE DEF known
<1>10. /\ n \in Local /\ n.kind = o.kind /\ n.card = o.card /\ n.plan = o.plan /\ n.seen = o.seen
       /\ n.listed = o.listed /\ n.known = known
  <2> HIDE DEF o
  <2> QED
    BY <1>1, <1>4 DEF Local
<1> HIDE DEF n, o
<1>11. Step(r, "reconcile", n)
  BY <1>5, <1>6 DEF Step
<1>12. pc'[r] = "reconcile" /\ local'[r] = n
  BY <1>1, <1>6, <1>10, <1>11, Stepping
<1>13. /\ plans' \in [PlanIds -> Plan \cup {None}]
       /\ gatewayPlans' \in [PlanIds -> Plan \cup {None}] /\ plans'[p] # None
       /\ \A q \in PlanIds \ {p} : plans'[q] = plans[q]
       /\ Grows
  BY <1>3, <1>4, <1>7, WritingRow
<1>14. o.kind = "listPlans"
  BY <1>1, <1>3, <1>7 DEF KindOK, Is
<1>15. KindOK(r)' /\ Filled(r)'
  BY <1>10, <1>12, <1>14 DEF KindOK, Filled, Is
<1>16. Knows(r)'
  BY <1>1, <1>3, <1>7, <1>8, <1>10, <1>12, <1>13, <1>14 DEF Knows, Grows, Is
<1>17. CauseOf(r, p)'
  BY <1>2, <1>10, <1>12, <1>14 DEF CauseOf, Is
<1>18. Remembers(r)
  BY <1>1, <1>3, <1>7, <1>10, <1>12, RemembersKnown DEF StillKnows
<1>19. Accounted(r)
  <2>1. gatewayPlans[r] = None /\ plans[r] = None /\ r # p /\ r \in PlanIds
    BY <1>1, <1>3, <1>4 DEF PlansOK, PlanIds
  <2>2. \A q \in PlanIds : plans'[q] # None => gatewayPlans'[q] # None
    BY <1>1, <1>3, <1>4, <1>13 DEF PlansOK
  <2>3. \A q \in PlanIds : Deleted(q)' => \/ Deleted(q) /\ (Withdrawn(q) => Withdrawn(q)')
                                          \/ CauseOf(r, q)'
    BY <1>3, <1>13, <1>17 DEF Deleted, Withdrawn
  <2>4. \A q \in Requests : /\ gatewayPlans'[q] # None => gatewayPlans[q] # None
                            /\ plans'[q] # None => plans[q] # None
    BY <1>3, <1>4, <1>13 DEF PlanIds
  <2> QED
    BY <1>3, <1>13, <2>1, <2>2, <2>3, <2>4 DEF Accounted
<1> QED
  BY <1>3, <1>6, <1>10, <1>11, <1>13, <1>15, <1>16, <1>18, <1>19, PlansKeep

-----------------------------------------------------------------------------
(* All of them together.                                                   *)

LEMMA InitInv == Init => Inv
<1> SUFFICES ASSUME Init PROVE Inv
  OBVIOUS
<1> DEFINE s == [active |-> TRUE, version |-> 0]
<1>1. s \in Plan /\ s.active /\ s # None
  <2>1. s \in Plan /\ s.active
    BY DEF Plan
  <2> QED
    BY <2>1, RowsAssumption
<1>2. /\ gatewayPlans = [p \in PlanIds |-> IF p = Plan0 THEN s ELSE None]
      /\ plans = gatewayPlans
  BY DEF Init
<1> HIDE DEF s
<1>3. /\ gatewayPlans \in [PlanIds -> Plan \cup {None}]
      /\ plans \in [PlanIds -> Plan \cup {None}]
      /\ \A p \in PlanIds : ~Deleted(p)
      /\ \A r \in Requests : gatewayPlans[r] = None /\ plans[r] = None
  BY <1>1, <1>2, BillingAssumption DEF Deleted, PlanIds
<1>4. Blank \in Local
  BY DEF Blank, Local
<1>5. \A r \in Requests : pc[r] = "idle" /\ local[r] = Blank /\ cards[r] = None
  BY DEF Init
<1>6. TypeOK
  <2>1. pc \in [Requests -> PCs] /\ local \in [Requests -> Local]
    BY <1>4 DEF Init, PCs
  <2> QED
    BY <1>3, <2>1 DEF Init, TypeOK
<1>7. ASSUME NEW r \in Requests PROVE KindOK(r) /\ Filled(r) /\ Knows(r)
  <2>1. /\ local[r].kind = None /\ None \notin Kinds /\ local[r].seen = None
        /\ local[r].listed = [p \in PlanIds |-> None]
        /\ local[r].known = [p \in PlanIds |-> None]
    BY <1>5, BillingAssumption DEF Blank
  <2> QED
    BY <1>5, <2>1 DEF KindOK, Filled, Knows, Kinds
<1>8. CardsOK
  BY <1>5 DEF CardsOK, DefaultCardsHaveCause, DefaultOf
<1>9. SubsOK
  BY DEF Init, SubsOK
<1>10. PlansOK
  BY <1>2, <1>3 DEF PlansOK
<1> QED
  BY <1>6, <1>7, <1>8, <1>9, <1>10 DEF Inv, Well

LEMMA StepInv == Inv /\ [Next]_vars => Inv'
<1> SUFFICES ASSUME Inv, [Next]_vars PROVE Inv'
  OBVIOUS
<1>1. ASSUME NEW r \in Requests, CustomerStep(r) PROVE Inv'
  BY <1>1, Arriving, GetCustomerIdByUserIdKeeps, CreateCustomerKeeps, CreateCustomerRecordKeeps,
     UpdateOrCreateCustomerAddressKeeps DEF CustomerStep
<1>2. ASSUME NEW r \in Requests, CardStep(r) PROVE Inv'
  BY <1>2, Arriving, DeleteUserCardKeeps, CardStepsKeep, CreateCardRecordKeeps,
     SetUserCardDefaultKeeps DEF CardStep
<1>3. ASSUME NEW r \in Requests, SubscriptionStep(r) PROVE Inv'
  BY <1>3, Arriving, SubscriptionStepsKeep, CheckPlanByIdKeeps, WritingSeenKeeps,
     CreatePlannedSubscriptionPagarmeKeeps, CreateSubscriptionKeeps DEF SubscriptionStep
<1>4. ASSUME NEW r \in Requests, PlanStep(r) PROVE Inv'
  BY <1>4, Arriving, GetPlansInfoKeeps, CreatePlanPagarmeKeeps, CreatePlanRecordKeeps,
     EditAtGatewayKeeps, ItemRefusedKeeps, WritingSeenKeeps, DeletePlanPagarmeKeeps,
     GetPlansIdsKeeps, DeleteUnknownKeeps, RefreshPlanInfoKeeps, EndListingKeeps DEF PlanStep
<1>5. CASE UNCHANGED vars
  <2>1. /\ UNCHANGED <<gatewayCards, gatewayPlans, gatewaySubs, customers, addresses>>
        /\ UNCHANGED <<cards, plans, subs, userPlans, pc, local>>
        /\ Well /\ CardsOK /\ SubsOK /\ PlansOK
    BY <1>5 DEF vars, gateway, people, Inv
  <2>2. TypeOK'
    BY <2>1 DEF Well, TypeOK
  <2>3. ASSUME NEW r \in Requests PROVE KindOK(r)' /\ Filled(r)' /\ Knows(r)'
    <3>1. KindOK(r) /\ Filled(r) /\ Knows(r)
      BY <2>1 DEF Well
    <3> QED
      BY <2>1, <3>1 DEF KindOK, Filled, Knows, Is, Blank
  <2>4. CardsOK' /\ SubsOK'
    BY <2>1 DEF CardsOK, DefaultCardsHaveCause, DefaultOf, CustomersOf, Is, SubsOK
  <2>5. PlansOK'
    BY <2>1 DEF PlansOK, Deleted, Withdrawn, CauseOf, ReadBefore, Is
  <2> QED
    BY <2>2, <2>3, <2>4, <2>5 DEF Inv, Well
<1> QED
  BY <1>1, <1>2, <1>3, <1>4, <1>5, FailKeeps DEF Next

LEMMA InvHolds == Spec => []Inv
  BY InitInv, StepInv, PTL DEF Spec

(* Rows, gateway and locals hold what they stand for; an address is that   *)
(* of a recorded customer.                                                 *)
THEOREM BillingTypes == Spec => []TypeOK
<1>1. Inv => TypeOK
  BY DEF Inv, Well
<1> QED
  BY <1>1, InvHolds, PTL

(* However many requests of however many users race, a user with one       *)
(* customer has at most one default card, unless another user's request    *)
(* chose it (cards.service.ts:103-117, cards.controller.ts:126-143).       *)
THEOREM DefaultCards == Spec => []DefaultCardsHaveCause
<1>1. Inv => DefaultCardsHaveCause
  BY DEF Inv, CardsOK
<1> QED
  BY <1>1, InvHolds, PTL

(* Of a subscription that has no row, no request was told a success.       *)
THEOREM UnrecordedSubscriptions == Spec => []UnrecordedSubscriptionReported
<1>1. Inv => UnrecordedSubscriptionReported
  BY DEF Inv, SubsOK, UnrecordedSubscriptionReported
<1> QED
  BY <1>1, InvHolds, PTL

(* A plan that is sold after the gateway deleted it has a cause that       *)
(* lasts: its deletion, a listing, or a request that read an older state   *)
(* of it.                                                                  *)
THEOREM StaleSales == Spec => []StaleSaleHasCause
<1>1. Inv => StaleSaleHasCause
  <2> SUFFICES ASSUME Inv, NEW p \in PlanIds, OnSale(p), ~Alive(p)
               PROVE  \E r \in Requests : CauseOf(r, p)
    BY DEF StaleSaleHasCause, CauseOf
  <2>1. Deleted(p) /\ ~Withdrawn(p)
    BY DEF Inv, PlansOK, OnSale, Alive, Deleted, Withdrawn
  <2> QED
    BY <2>1 DEF Inv, PlansOK
<1> QED
  BY <1>1, InvHolds, PTL
=============================================================================
