------------------------------- MODULE Billing -------------------------------
(***************************************************************************)
(* What the backend mirrors of the payment gateway for its users:          *)
(* customers, cards and subscriptions, and the plans administrators sell.  *)
(* A handler calls the gateway first and writes the row afterwards; reads  *)
(* refresh rows from what the gateway answered earlier.  Whatever a        *)
(* request creates is named by the request.                                *)
(***************************************************************************)
EXTENDS Naturals

CONSTANTS Requests,
          KindsOf,      \* KindsOf[r]: the handlers request r may be for
          Users,
          UserOf,       \* UserOf[r]: the user who sends r, and owns what it creates
          Plan0,        \* a plan that is on sale from the start
          None          \* no row, or nothing read

PlanIds == Requests \cup {Plan0}

Kinds == {"signUp", "card", "default", "deleteCard", "subscribe", "cancel",
          "createPlan", "editPlan", "deletePlan", "listPlans"}

ASSUME BillingAssumption ==
         /\ KindsOf \in [Requests -> SUBSET Kinds] /\ UserOf \in [Requests -> Users]
         /\ Plan0 \notin Requests /\ None \notin PlanIds \cup Kinds

VARIABLES gatewayCards, gatewayPlans, gatewaySubs,   \* at the gateway
          customers, addresses, cards, plans, subs,  \* the rows
          userPlans,    \* which relations the UserPlans row of a user has
          pc, local

gateway == <<gatewayCards, gatewayPlans, gatewaySubs>>
people == <<customers, addresses>>
vars == <<gateway, people, cards, plans, subs, userPlans, pc, local>>

-----------------------------------------------------------------------------
(* A plan at the gateway, or its row: deleted there is inactive here; the   *)
(* version stands for updated_at.                                          *)
Plan == [active : BOOLEAN, version : Nat]

Card == [customer : Requests, isDefault : BOOLEAN]

Local == [kind : Kinds \cup {None}, customer : Requests \cup {None},
          card : Requests \cup {None}, plan : PlanIds \cup {None},
          discount : BOOLEAN, seen : Plan \cup {None},
          listed : [PlanIds -> Plan \cup {None}], known : [PlanIds -> Plan \cup {None}]]

ASSUME RowsAssumption == None \notin Plan \cup Card

PCs == {"idle", "customer", "newCustomer", "recordCustomer", "recordAddress",
        "createCard", "cardAddress", "recordCard", "setDefault",
        "checkCard", "checkPlan", "refreshPlan", "subInfo", "createSub",
        "recordSub", "cycles", "cancelSub", "createPlan", "recordPlan", "editPlan",
        "editItem", "recordEdit", "deletePlan", "recordDeletion", "readIds", "reconcile",
        "done", "failed"}

Over == {"idle", "done", "failed"}

Goto(r, l) == pc' = [pc EXCEPT ![r] = l]

Is(r, kind) == local[r].kind = kind

OnSale(p) == plans[p] # None /\ plans[p].active

Alive(p) == gatewayPlans[p] # None /\ gatewayPlans[p].active

Changed(p, status) == [active |-> status, version |-> gatewayPlans[p].version + 1]

-----------------------------------------------------------------------------
(* Arrival.                                                                *)

FirstStep(kind) ==
  CASE kind = "signUp" -> "newCustomer"
    [] kind \in {"card", "default", "subscribe"} -> "customer"
    [] kind = "cancel" -> "subInfo"
    [] kind = "createPlan" -> "createPlan"
    [] kind = "editPlan" -> "checkPlan"
    [] kind = "deletePlan" -> "deletePlan"

Arrive(r, kind, card, plan, discount) ==
  /\ pc[r] = "idle" /\ kind \in KindsOf[r]
  /\ local' = [local EXCEPT ![r] = [@ EXCEPT !.kind = kind, !.card = card,
                                             !.plan = plan, !.discount = discount]]
  /\ Goto(r, FirstStep(kind))
  /\ UNCHANGED <<gateway, people, cards, plans, subs, userPlans>>

Recorded == {c \in Requests : cards[c] # None}

Planned == {p \in PlanIds : plans[p] # None}

(* addNewUserToPaymentsInfra does not look for a customer.                 *)
AddNewUserToPaymentsInfra(r) == Arrive(r, "signUp", None, None, FALSE)
CreateCreditCard(r) == Arrive(r, "card", r, None, FALSE)

(* Whose card it is, nobody asks.                                          *)
SetCardDefault(r) == \E c \in Recorded : Arrive(r, "default", c, None, FALSE)
CreatePlannedSubscription(r) ==
  \E c \in Recorded, p \in Planned, d \in BOOLEAN : Arrive(r, "subscribe", c, p, d)
CancelPlannedSubscription(r) == Arrive(r, "cancel", None, None, FALSE)
CreatePlan(r) == Arrive(r, "createPlan", None, r, FALSE)
EditPlan(r) == \E p \in Planned : Arrive(r, "editPlan", None, p, FALSE)
DeletePlan(r) == \E p \in Planned : Arrive(r, "deletePlan", None, p, FALSE)

(* The id of the user is sent where that of the customer belongs: the      *)
(* gateway finds no card, and its status ends up in a text field.          *)
DeleteUserCard(r) ==
  /\ pc[r] = "idle" /\ "deleteCard" \in KindsOf[r] /\ Recorded # {}
  /\ Goto(r, "failed")
  /\ UNCHANGED <<gateway, people, cards, plans, subs, userPlans, local>>

-----------------------------------------------------------------------------
(* Customers.                                                              *)

WithCustomer(r) ==
  CASE Is(r, "card") -> "createCard" [] Is(r, "default") -> "setDefault"
    [] Is(r, "subscribe") -> "checkCard" [] Is(r, "signUp") -> "done"

CustomersOf(u) == {c \in customers : UserOf[c] = u}

(* findFirst: any customer of the user.                                    *)
GetCustomerIdByUserId(r) ==
  /\ pc[r] = "customer"
  /\ \/ /\ CustomersOf(UserOf[r]) = {}
        /\ Goto(r, "newCustomer") /\ UNCHANGED local
     \/ \E c \in CustomersOf(UserOf[r]) :
          /\ local' = [local EXCEPT ![r].customer = c]
          /\ Goto(r, WithCustomer(r))
  /\ UNCHANGED <<gateway, people, cards, plans, subs, userPlans>>

(* Mutant: the new customer is not recorded.                               *)
CustomerWithoutRow(r) ==
  /\ pc[r] = "newCustomer"
  /\ Goto(r, "recordAddress")
  /\ UNCHANGED <<gateway, people, cards, plans, subs, userPlans, local>>

CreateCustomer(r) ==
  /\ pc[r] = "newCustomer"
  /\ local' = [local EXCEPT ![r].customer = r]
  /\ Goto(r, "recordCustomer")
  /\ UNCHANGED <<gateway, people, cards, plans, subs, userPlans>>

CreateCustomerRecord(r) ==
  /\ pc[r] = "recordCustomer"
  /\ customers' = customers \cup {r}
  /\ Goto(r, "recordAddress")
  /\ UNCHANGED <<gateway, addresses, cards, plans, subs, userPlans, local>>

UpdateOrCreateCustomerAddress(r) ==
  /\ pc[r] = "recordAddress"
  /\ addresses' = addresses \cup {r}
  /\ Goto(r, WithCustomer(r))
  /\ UNCHANGED <<gateway, customers, cards, plans, subs, userPlans, local>>

-----------------------------------------------------------------------------
(* Cards.                                                                  *)

(* The billing address is given, or the customer must have one.            *)
CreateCustomerCard(r) ==
  /\ pc[r] = "createCard"
  /\ gatewayCards' = [gatewayCards EXCEPT ![r] = local[r].customer]
  /\ Goto(r, "cardAddress")
  /\ UNCHANGED <<gatewayPlans, gatewaySubs, people, cards, plans, subs, userPlans, local>>

NoBillingAddress(r) ==
  /\ pc[r] = "createCard" /\ local[r].customer \notin addresses
  /\ Goto(r, "failed")
  /\ UNCHANGED <<gateway, people, cards, plans, subs, userPlans, local>>

(* The addresses of the customer are read again from the gateway.          *)
CheckCustomerCardAddress(r) ==
  /\ pc[r] = "cardAddress"
  /\ addresses' = addresses \cup {local[r].customer}
  /\ Goto(r, "recordCard")
  /\ UNCHANGED <<gateway, customers, cards, plans, subs, userPlans, local>>

CreateCardRecord(r) ==
  /\ pc[r] = "recordCard"
  /\ cards' = [cards EXCEPT ![r] = [customer |-> local[r].customer, isDefault |-> FALSE]]
  /\ \/ Goto(r, "setDefault") \/ Goto(r, "done")
  /\ UNCHANGED <<gateway, people, plans, subs, userPlans, local>>

(* Mutant: the other cards are left alone.                                 *)
WithOneMore(card, customer) ==
  [c \in Requests |->
     IF c = card /\ cards[c] # None THEN [cards[c] EXCEPT !.isDefault = TRUE] ELSE cards[c]]

(* One transaction: this card, whoever owns it, and none other of the      *)
(* customer who asks.                                                      *)
WithDefault(card, customer) ==
  [c \in Requests |->
     IF cards[c] = None THEN None
     ELSE IF c = card THEN [cards[c] EXCEPT !.isDefault = TRUE]
     ELSE IF cards[c].customer = customer THEN [cards[c] EXCEPT !.isDefault = FALSE]
     ELSE cards[c]]

SetUserCardDefault(r) ==
  /\ pc[r] = "setDefault"
  /\ cards' = WithDefault(local[r].card, local[r].customer)
  /\ Goto(r, "done")
  /\ UNCHANGED <<gateway, people, plans, subs, userPlans, local>>

-----------------------------------------------------------------------------
(* Subscriptions.                                                          *)

(* The gateway is asked for this card of this customer.                    *)
CheckCardById(r) ==
  /\ pc[r] = "checkCard"
  /\ Goto(r, IF gatewayCards[local[r].card] = local[r].customer
             THEN "checkPlan" ELSE "failed")
  /\ UNCHANGED <<gateway, people, cards, plans, subs, userPlans, local>>

(* Also before an edit.                                                    *)
CheckPlanById(r) ==
  /\ pc[r] = "checkPlan"
  /\ LET p == local[r].plan
     IN  IF OnSale(p)
         THEN /\ local' = [local EXCEPT ![r].seen = gatewayPlans[p]]
              /\ Goto(r, "refreshPlan")
         ELSE Goto(r, "failed") /\ UNCHANGED local
  /\ UNCHANGED <<gateway, people, cards, plans, subs, userPlans>>

RefreshPlan(r) ==
  /\ pc[r] = "refreshPlan"
  /\ plans' = [plans EXCEPT ![local[r].plan] = local[r].seen]
  /\ Goto(r, IF ~local[r].seen.active THEN "failed"
             ELSE IF Is(r, "editPlan") THEN "editPlan" ELSE "subInfo")
  /\ UNCHANGED <<gateway, people, cards, subs, userPlans, local>>

(* Only a UserPlans row that is related to a Pagarme subscription counts,   *)
(* and no handler ever relates one: a subscriber may subscribe again and   *)
(* cannot cancel.  A user without a row gets one with a basic plan.        *)
GetUserSubscriptionInfo(r) ==
  /\ pc[r] = "subInfo"
  /\ userPlans' = [userPlans EXCEPT ![UserOf[r]] = IF @ = {} THEN {"basic"} ELSE @]
  /\ Goto(r, IF ("pagarme" \in userPlans[UserOf[r]]) # Is(r, "cancel") THEN "failed"
             ELSE IF Is(r, "cancel") THEN "cancelSub" ELSE "createSub")
  /\ UNCHANGED <<gateway, people, cards, plans, subs, local>>

(* A deleted plan is refused by the gateway.                               *)
CreatePlannedSubscriptionPagarme(r) ==
  /\ pc[r] = "createSub"
  /\ IF Alive(local[r].plan)
     THEN /\ gatewaySubs' = gatewaySubs \cup {r}
          /\ Goto(r, "recordSub")
     ELSE Goto(r, "failed") /\ UNCHANGED gatewaySubs
  /\ UNCHANGED <<gatewayCards, gatewayPlans, people, cards, plans, subs, userPlans, local>>

(* Mutant: a row that cannot be built is passed over.                      *)
CreateQuietly(r) ==
  /\ pc[r] = "recordSub"
  /\ subs' = IF local[r].discount THEN subs ELSE subs \cup {r}
  /\ Goto(r, "cycles")
  /\ UNCHANGED <<gateway, people, cards, plans, userPlans, local>>

(* With discounts in the answer the row's data cannot be built.  The row    *)
(* is not related to the UserPlans row of the user.                        *)
CreateSubscription(r) ==
  /\ pc[r] = "recordSub"
  /\ IF local[r].discount
     THEN Goto(r, "failed") /\ UNCHANGED subs
     ELSE /\ subs' = subs \cup {r}
          /\ Goto(r, "cycles")
  /\ UNCHANGED <<gateway, people, cards, plans, userPlans, local>>

(* A cycle that is not yet recorded breaks the update of all of them.      *)
UpdateSubscriptionCycles(r) ==
  /\ pc[r] = "cycles"
  /\ \/ Goto(r, "failed")     \* the gateway lists the first cycle
     \/ Goto(r, "done")       \* it lists none yet
  /\ UNCHANGED <<gateway, people, cards, plans, subs, userPlans, local>>

-----------------------------------------------------------------------------
(* Plans.                                                                  *)

CreatePlanPagarme(r) ==
  /\ pc[r] = "createPlan"
  /\ gatewayPlans' = [gatewayPlans EXCEPT ![r] = [active |-> TRUE, version |-> 0]]
  /\ Goto(r, "recordPlan")
  /\ UNCHANGED <<gatewayCards, gatewaySubs, people, cards, plans, subs, userPlans, local>>

(* isActive is true by default.                                            *)
CreatePlanRecord(r) ==
  /\ pc[r] = "recordPlan"
  /\ plans' = [plans EXCEPT ![r] = [active |-> TRUE, version |-> 0]]
  /\ Goto(r, "done")
  /\ UNCHANGED <<gateway, people, cards, subs, userPlans, local>>

(* The plan and then its item, which is a later version of the plan; the    *)
(* row gets the version in between.                                        *)
EditAtGateway(r) ==
  /\ pc[r] \in {"editPlan", "editItem"}
  /\ LET p == local[r].plan
     IN  /\ Alive(p)
         /\ gatewayPlans' = [gatewayPlans EXCEPT ![p] = Changed(p, TRUE)]
         /\ IF pc[r] = "editPlan"
            THEN /\ local' = [local EXCEPT ![r].seen = Changed(p, TRUE)]
                 /\ Goto(r, "editItem")
            ELSE Goto(r, "recordEdit") /\ UNCHANGED local
  /\ UNCHANGED <<gatewayCards, gatewaySubs, people, cards, plans, subs, userPlans>>

(* The answer for the item is not looked at.                               *)
ItemRefused(r) ==
  /\ pc[r] = "editItem"
  /\ Goto(r, "recordEdit")
  /\ UNCHANGED <<gateway, people, cards, plans, subs, userPlans, local>>

RecordEdit(r) ==
  /\ pc[r] = "recordEdit"
  /\ plans' = [plans EXCEPT ![local[r].plan] = local[r].seen]
  /\ Goto(r, "done")
  /\ UNCHANGED <<gateway, people, cards, subs, userPlans, local>>

DeletePlanPagarme(r) ==
  /\ pc[r] = "deletePlan" /\ Alive(local[r].plan)
  /\ LET p == local[r].plan
     IN  /\ gatewayPlans' = [gatewayPlans EXCEPT ![p] = Changed(p, FALSE)]
         /\ local' = [local EXCEPT ![r].seen = Changed(p, FALSE)]
  /\ Goto(r, "recordDeletion")
  /\ UNCHANGED <<gatewayCards, gatewaySubs, people, cards, plans, subs, userPlans>>

(* Mutant: the row of a deleted plan is left as it is.                     *)
ForgetRow(r) ==
  /\ pc[r] = "recordDeletion"
  /\ Goto(r, "done")
  /\ UNCHANGED <<gateway, people, cards, plans, subs, userPlans, local>>

RecordDeletion(r) ==
  /\ pc[r] = "recordDeletion"
  /\ plans' = [plans EXCEPT ![local[r].plan] = local[r].seen]
  /\ Goto(r, "done")
  /\ UNCHANGED <<gateway, people, cards, subs, userPlans, local>>

(* A listing: what the gateway has (those that are for sale), what has a    *)
(* row, then each plan on its own.                                         *)
GetPlansInfo(r) ==
  /\ pc[r] = "idle" /\ "listPlans" \in KindsOf[r]
  /\ local' = [local EXCEPT ![r] = [@ EXCEPT !.kind = "listPlans",
                 !.listed = [p \in PlanIds |-> IF Alive(p) THEN gatewayPlans[p] ELSE None]]]
  /\ Goto(r, "readIds")
  /\ UNCHANGED <<gateway, people, cards, plans, subs, userPlans>>

GetPlansIds(r) ==
  /\ pc[r] = "readIds"
  /\ local' = [local EXCEPT ![r].known = plans]
  /\ Goto(r, "reconcile")
  /\ UNCHANGED <<gateway, people, cards, plans, subs, userPlans>>

(* A plan without a row is deleted.                                        *)
DeleteUnknown(r) ==
  /\ pc[r] = "reconcile"
  /\ \E p \in PlanIds :
       /\ local[r].listed[p] # None /\ local[r].known[p] = None /\ Alive(p)
       /\ gatewayPlans' = [gatewayPlans EXCEPT ![p] = Changed(p, FALSE)]
  /\ UNCHANGED <<gatewayCards, gatewaySubs, people, cards, plans, subs, userPlans, pc, local>>

(* One that is newer than its row is copied as it was listed.              *)
RefreshPlanInfo(r) ==
  /\ pc[r] = "reconcile"
  /\ \E p \in PlanIds :
       LET listed == local[r].listed[p]
           known == local[r].known[p]
       IN  /\ listed # None /\ known # None /\ listed.version > known.version
           /\ plans' = [plans EXCEPT ![p] = listed]
           /\ local' = [local EXCEPT ![r].known[p] = listed]
  /\ UNCHANGED <<gateway, people, cards, subs, userPlans, pc>>

EndListing(r) ==
  /\ pc[r] = "reconcile"
  /\ Goto(r, "done")
  /\ UNCHANGED <<gateway, people, cards, plans, subs, userPlans, local>>

-----------------------------------------------------------------------------
(* The gateway refuses or does not answer, a statement fails, or a crash.   *)
Fail(r) ==
  /\ pc[r] \notin Over
  /\ Goto(r, "failed")
  /\ UNCHANGED <<gateway, people, cards, plans, subs, userPlans, local>>

Blank == [kind |-> None, customer |-> None, card |-> None, plan |-> None,
          discount |-> FALSE, seen |-> None,
          listed |-> [p \in PlanIds |-> None], known |-> [p \in PlanIds |-> None]]

Init ==
  /\ gatewayCards = [r \in Requests |-> None]
  /\ gatewayPlans = [p \in PlanIds |-> IF p = Plan0 THEN [active |-> TRUE, version |-> 0]
                                       ELSE None]
  /\ plans = gatewayPlans
  /\ gatewaySubs = {} /\ customers = {} /\ addresses = {} /\ subs = {}
  /\ cards = [r \in Requests |-> None]
  /\ userPlans = [u \in Users |-> {}]
  /\ pc = [r \in Requests |-> "idle"]
  /\ local = [r \in Requests |-> Blank]

CustomerStep(r) == \/ AddNewUserToPaymentsInfra(r) \/ GetCustomerIdByUserId(r)
                   \/ CreateCustomer(r) \/ CreateCustomerRecord(r)
                   \/ UpdateOrCreateCustomerAddress(r)

CardStep(r) == \/ CreateCreditCard(r) \/ SetCardDefault(r) \/ DeleteUserCard(r)
               \/ CreateCustomerCard(r) \/ NoBillingAddress(r)
               \/ CheckCustomerCardAddress(r) \/ CreateCardRecord(r)
               \/ SetUserCardDefault(r)

SubscriptionStep(r) == \/ CreatePlannedSubscription(r) \/ CancelPlannedSubscription(r)
                       \/ CheckCardById(r) \/ CheckPlanById(r) \/ RefreshPlan(r)
                       \/ GetUserSubscriptionInfo(r) \/ CreatePlannedSubscriptionPagarme(r)
                       \/ CreateSubscription(r) \/ UpdateSubscriptionCycles(r)

PlanStep(r) == \/ CreatePlan(r) \/ EditPlan(r) \/ DeletePlan(r) \/ GetPlansInfo(r)
               \/ CreatePlanPagarme(r) \/ CreatePlanRecord(r)
               \/ EditAtGateway(r) \/ ItemRefused(r) \/ RecordEdit(r)
               \/ DeletePlanPagarme(r) \/ RecordDeletion(r)
               \/ GetPlansIds(r) \/ DeleteUnknown(r) \/ RefreshPlanInfo(r) \/ EndListing(r)

Next == \E r \in Requests :
          CustomerStep(r) \/ CardStep(r) \/ SubscriptionStep(r) \/ PlanStep(r) \/ Fail(r)

Spec == Init /\ [][Next]_vars

-----------------------------------------------------------------------------
(* Properties.                                                             *)

(* Rows, gateway and locals hold what they stand for.                      *)
TypeOK ==
  /\ gatewayCards \in [Requests -> Requests \cup {None}]
  /\ gatewayPlans \in [PlanIds -> Plan \cup {None}]
  /\ plans \in [PlanIds -> Plan \cup {None}]
  /\ gatewaySubs \subseteq Requests /\ subs \subseteq Requests
  /\ customers \subseteq Requests /\ addresses \subseteq customers
  /\ cards \in [Requests -> Card \cup {None}]
  /\ userPlans \in [Users -> SUBSET {"basic", "pagarme"}]
  /\ pc \in [Requests -> PCs] /\ local \in [Requests -> Local]

DefaultOf(c, u) == /\ cards[c] # None /\ cards[c].isDefault
                   /\ UserOf[cards[c].customer] = u

(* A user has two default cards only if his first requests raced and made  *)
(* two customers (the transaction clears the cards of one of them, and a   *)
(* later request may have picked the other), or if somebody else made one  *)
(* of the two the default: no handler asks who owns a card, and the cards  *)
(* of its owner are not cleared.                                           *)
DefaultCardsHaveCause ==
  \A u \in Users : \A c, d \in Requests :
    c # d /\ DefaultOf(c, u) /\ DefaultOf(d, u) =>
      \/ \E a, b \in CustomersOf(u) : a # b
      \/ \E r \in Requests : /\ Is(r, "default") /\ pc[r] = "done" /\ UserOf[r] # u
                            /\ local[r].card \in {c, d}

(* A subscription the gateway charges for and the backend knows nothing of *)
(* was never reported as a success.                                        *)
UnrecordedSubscriptionReported ==
  \A r \in gatewaySubs \ subs : pc[r] # "done"

(* Request r holds, or held, an older state of plan p.                     *)
ReadBefore(r, p) ==
  \/ /\ local[r].plan = p /\ local[r].seen # None
     /\ local[r].seen.version < gatewayPlans[p].version
  \/ local[r].listed[p] # None /\ local[r].listed[p].version < gatewayPlans[p].version

(* A plan stays on sale although the gateway deleted it only if its        *)
(* deletion is under way or failed, if a listing met it before it had a     *)
(* row, or if another request read it before and wrote it after.           *)
StaleSaleHasCause ==
  \A p \in PlanIds :
    OnSale(p) /\ ~Alive(p) =>
      \E r \in Requests :
        \/ Is(r, "deletePlan") /\ local[r].plan = p /\ pc[r] # "done"
        \/ Is(r, "listPlans") /\ local[r].listed[p] # None
        \/ ReadBefore(r, p)
=============================================================================
