------------------------- MODULE SelfEmission_proofs -------------------------
(***************************************************************************)
(* Theorems about SelfEmission, for every number of requests, purchases,   *)
(* credits and ticks: its type invariant, the inductive invariant of the   *)
(* credits with the safety properties it implies, the implementation of    *)
(* CreditWallet, and the inductive invariant of the quota.                 *)
(***************************************************************************)
EXTENDS SelfEmission, FiniteSetTheorems, TLAPS

(* The two kinds of actors do not mix and the names are names.             *)
LEMMA ConstantFacts ==
        /\ Requests \subseteq Actors /\ Purchases \subseteq Actors
        /\ \A r \in Requests : r \notin Purchases
        /\ Actors \subseteq PlanIds /\ SignUp \in PlanIds
        /\ Amount \in Nat /\ Quota \in Nat /\ Period \in Nat
BY SizesAssumption, NamesAssumption DEF Actors, PlanIds

-----------------------------------------------------------------------------
(* Type correctness: every handler leaves rows and locals of their types.  *)
(* A handler that publishes a hash has stored its certificate.             *)
StoredCert == \A r \in Requests : pc[r] = "stored" => certs[r] \in Cert

TypeInv == TypeOK /\ StoredCert

(* A new user: idle handlers, no credit and no certificate.                *)
LEMMA TypeInit == Init => TypeInv
<1> SUFFICES ASSUME Init PROVE TypeInv
  OBVIOUS
<1>1. plans \in [PlanIds -> Plan]
  BY ConstantFacts DEF Init, NewPlan, Plan
<1>2. local \in [Actors -> Local]
  BY DEF Init, Idle, Local, Pays, Statuses
<1> QED
  BY <1>1, <1>2, ConstantFacts DEF Init, TypeInv, TypeOK, StoredCert, PCs

(* What an actor does to its plan.                                         *)
LEMMA TypePlanStep ==
        ASSUME TypeInv, NEW a \in Actors, PlanStep(a) PROVE TypeInv'
<1> USE ConstantFacts
<1>1. CASE PlanMissing(a)
  <2>1. local' \in [Actors -> Local]
    BY <1>1 DEF PlanMissing, TypeInv, TypeOK, Local
  <2> QED
    BY <1>1, <2>1 DEF PlanMissing, TypeInv, TypeOK, StoredCert, Goto, PCs, tables
<1>2. CASE PlanCurrent(a)
  <2>1. PICK p \in PlanIds :
          /\ plans[p].start \in Nat
          /\ local' = [local EXCEPT ![a].start = plans[p].start, ![a].plan = p]
    BY <1>2 DEF PlanCurrent, TypeInv, TypeOK, Plan, Existing
  <2> DEFINE new == [local[a] EXCEPT !.start = plans[p].start, !.plan = p]
  <2>2. local' \in [Actors -> Local]
    <3>1. local[a] \in Local
      BY DEF TypeInv, TypeOK
    <3>2. new \in Local
      BY <2>1, <3>1 DEF Local
    <3>3. local' = [local EXCEPT ![a] = new]
      BY <2>1, <3>1 DEF TypeInv, TypeOK, Local
    <3> QED
      BY <3>2, <3>3 DEF TypeInv, TypeOK
  <2>3. /\ pc' = [pc EXCEPT ![a] = IF a \in Requests THEN "count" ELSE "done"]
        /\ UNCHANGED <<now, plans, credits, soldAt, orders, recorded, certs>>
    BY <1>2 DEF PlanCurrent, Goto, tables
  <2> QED
    BY <2>2, <2>3 DEF TypeInv, TypeOK, StoredCert, PCs
<1>3. CASE PlanExpired(a)
  <2>1. PICK p \in PlanIds : local' = [local EXCEPT ![a].plan = p]
    BY <1>3 DEF PlanExpired, Existing
  <2>2. local' \in [Actors -> Local]
    BY <2>1 DEF TypeInv, TypeOK, Local
  <2> QED
    BY <1>3, <2>2 DEF PlanExpired, TypeInv, TypeOK, StoredCert, Goto, PCs, tables
<1>4. CASE MakePlan(a)
  <2>1. NewPlan(now) \in Plan
    BY DEF NewPlan, Plan, TypeInv, TypeOK
  <2>2. local' \in [Actors -> Local]
    BY <1>4 DEF MakePlan, TypeInv, TypeOK, Local
  <2> QED
    BY <1>4, <2>1, <2>2 DEF MakePlan, TypeInv, TypeOK, StoredCert, Goto, PCs
<1>5. CASE RenewPlan(a)
  <2>1. plans' \in [PlanIds -> Plan]
    <3> DEFINE id == local[a].plan
    <3>1. CASE id \in PlanIds
      BY <1>5, <3>1 DEF RenewPlan, TypeInv, TypeOK, Plan
    <3>2. CASE id \notin PlanIds
      BY <1>5, <3>2 DEF RenewPlan, TypeInv, TypeOK
    <3> QED
      BY <3>1, <3>2
  <2>2. local' \in [Actors -> Local]
    BY <1>5 DEF RenewPlan, TypeInv, TypeOK, Local
  <2> QED
    BY <1>5, <2>1, <2>2 DEF RenewPlan, TypeInv, TypeOK, StoredCert, Goto, PCs
<1> QED
  BY <1>1, <1>2, <1>3, <1>4, <1>5 DEF PlanStep

(* What an emission request does.                                          *)
LEMMA TypeRequestStep ==
        ASSUME TypeInv, NEW r \in Requests, RequestStep(r) PROVE TypeInv'
<1> USE ConstantFacts
<1>1. CASE Arrive(r)
  BY <1>1 DEF Arrive, TypeInv, TypeOK, StoredCert, Goto, PCs, tables
<1>2. CASE Count(r)
  <2>1. local' \in [Actors -> Local]
    <3>1. CASE UNCHANGED local
      BY <3>1 DEF TypeInv, TypeOK
    <3>2. CASE local' = [local EXCEPT ![r].pay = "basic"]
      BY <3>2 DEF TypeInv, TypeOK, Local, Pays
    <3> QED
      BY <1>2, <3>1, <3>2 DEF Count
  <2>2. \E l \in {"paid", "findCredit"} : pc' = [pc EXCEPT ![r] = l]
    BY <1>2 DEF Count, Goto
  <2>3. UNCHANGED <<now, plans, credits, soldAt, orders, recorded, certs>>
    BY <1>2 DEF Count, tables
  <2> QED
    BY <2>1, <2>2, <2>3 DEF TypeInv, TypeOK, StoredCert, PCs
<1>3. CASE FindCredit(r)
  <2>1. PICK k \in Credits :
          local' = [local EXCEPT ![r].pay = "credit", ![r].credit = k]
    BY <1>3 DEF FindCredit, OldestValid, Valid
  <2>2. local' \in [Actors -> Local]
    BY <2>1 DEF TypeInv, TypeOK, Local, Pays
  <2> QED
    BY <1>3, <2>2 DEF FindCredit, TypeInv, TypeOK, StoredCert, Goto, PCs, tables
<1>4. CASE Unpaid(r) \/ NoCustomer(r) \/ Invalid(r) \/ Refuse(r) \/ StoreFails(r)
  BY <1>4 DEF Unpaid, NoCustomer, Invalid, Refuse, StoreFails, TypeInv, TypeOK, StoredCert,
              Goto, PCs, tables
<1>5. CASE Spend(r)
  BY <1>5 DEF Spend, TypeInv, TypeOK, StoredCert, Goto, PCs
<1>6. CASE Check(r)
  <2>1. PICK s \in Statuses : local' = [local EXCEPT ![r].status = s]
    BY <1>6 DEF Check
  <2>2. local' \in [Actors -> Local]
    BY <2>1 DEF TypeInv, TypeOK, Local
  <2> QED
    BY <1>6, <2>2 DEF Check, TypeInv, TypeOK, StoredCert, Goto, PCs, tables
<1>7. CASE Store(r)
  <2>1. NewCert(r) \in Cert
    BY DEF NewCert, Cert, TypeInv, TypeOK, Local
  <2>2. ASSUME NEW q \in Requests, certs[q] \in Cert
        PROVE  Disconnected(local[r].credit)[q] \in Cert
    BY <2>2 DEF Disconnected, Cert
  <2>3. Disconnected(local[r].credit) \in [Requests -> Cert \cup {NoCert}]
    BY <2>2 DEF Disconnected, Issued, TypeInv, TypeOK
  <2> QED
    BY <1>7, <2>1, <2>2, <2>3 DEF Store, TypeInv, TypeOK, StoredCert, Goto, PCs
<1>8. CASE Share(r)
  <2>1. certs[r] \in Cert
    BY <1>8 DEF Share, TypeInv, StoredCert
  <2>2. [certs[r] EXCEPT !.shared = TRUE] \in Cert
    BY <2>1 DEF Cert
  <2> QED
    BY <1>8, <2>2 DEF Share, TypeInv, TypeOK, StoredCert, Goto, PCs
<1> QED
  BY <1>1, <1>2, <1>3, <1>4, <1>5, <1>6, <1>7, <1>8 DEF RequestStep

(* Rows and variables are typed, stored certificates included.             *)
THEOREM TypeCorrect == Spec => []TypeInv
<1>1. TypeInv /\ [Next]_vars => TypeInv'
  <2> SUFFICES ASSUME TypeInv, [Next]_vars PROVE TypeInv'
    OBVIOUS
  <2> USE ConstantFacts
  <2>1. ASSUME NEW a \in Actors, PlanStep(a) PROVE TypeInv'
    BY <2>1, TypePlanStep
  <2>2. ASSUME NEW r \in Requests, RequestStep(r) PROVE TypeInv'
    BY <2>2, TypeRequestStep
  <2>3. ASSUME NEW p \in Purchases, PurchaseStep(p) PROVE TypeInv'
    <3>1. CASE Buy(p)
      BY <3>1 DEF Buy, TypeInv, TypeOK, StoredCert, Goto, PCs, tables
    <3>2. CASE Charge(p)
      BY <3>2, SizesAssumption DEF Charge, TypeInv, TypeOK, StoredCert, Goto, PCs
    <3>3. CASE RecordOrder(p)
      BY <3>3 DEF RecordOrder, TypeInv, TypeOK, StoredCert, Goto, PCs
    <3>4. CASE Grant(p)
      BY <3>4 DEF Grant, TypeInv, TypeOK, StoredCert, Goto, PCs
    <3> QED
      BY <2>3, <3>1, <3>2, <3>3, <3>4 DEF PurchaseStep
  <2>4. CASE Crash
    BY <2>4 DEF Crash, TypeInv, TypeOK, StoredCert, PCs, Over, tables
  <2>5. CASE Tick
    BY <2>5 DEF Tick, TypeInv, TypeOK, StoredCert, tables
  <2>6. CASE UNCHANGED vars
    BY <2>6 DEF vars, TypeInv, TypeOK, StoredCert
  <2> QED
    BY <2>1, <2>2, <2>3, <2>4, <2>5, <2>6 DEF Next
<1> QED
  BY <1>1, TypeInit, PTL DEF Spec

(* The type invariant the runs check.                                      *)
THEOREM TypesOfRows == Spec => []TypeOK
<1>1. TypeInv => TypeOK
  BY DEF TypeInv
<1> QED
  BY <1>1, TypeCorrect, PTL
-----------------------------------------------------------------------------
(* The credits.  None of the properties of the credits is inductive: each  *)
(* depends on what the handlers in flight have read and already done.      *)

Early    == {"idle", "readPlan", "makePlan", "renewPlan", "count", "findCredit"}
Spending == {"spent", "checked"}
Final    == {"stored", "done", "failed"}
Unsold   == {"idle", "charge", "record", "grant"}

(* No request has a payment before it has looked for one.                  *)
NoChoiceYet ==
  \A r \in Requests :
    pc[r] \in Early => local[r].pay = "none" /\ local[r].credit = NoCredit

(* The credit a request found is still there, spent or not, and no older   *)
(* credit has become valid since.                                          *)
ChosenCredit ==
  \A r \in Requests :
    /\ local[r].pay = "credit" =>
         /\ local[r].credit \in Credits
         /\ credits[local[r].credit] # "absent"
         /\ \A j \in Credits :
              soldAt[j[1]] < soldAt[local[r].credit[1]] => credits[j] # "valid"
    /\ local[r].pay # "credit" => local[r].credit = NoCredit

SpentFirst ==
  \A r \in Requests :
    pc[r] \in Spending /\ local[r].pay = "credit" => credits[local[r].credit] = "used"

NotYetStored == \A r \in Requests : pc[r] \notin Final => certs[r] = NoCert

SoldInPast == \A p \in Purchases : soldAt[p] <= now

NotYetSold ==
  \A p \in Purchases :
    pc[p] \in Unsold => \A k \in Credits : k[1] = p => credits[k] = "absent"

Ordered ==
  \A p \in Purchases :
    /\ pc[p] \in {"record", "grant"} => orders[p] # "none"
    /\ pc[p] = "grant" => p \in recorded

HandlerInv == NoChoiceYet /\ ChosenCredit /\ SpentFirst /\ NotYetStored
PurchaseInv == SoldInPast /\ NotYetSold /\ Ordered
PropertyInv == OldestCreditFirst /\ CreditBacksOneCertificate /\ CreditsHaveAnOrder

WalletInv == HandlerInv /\ PurchaseInv /\ PropertyInv

(* The names the credit proofs tell apart.                                 *)
LEMMA CreditFacts ==
        /\ \A k \in Credits : k[1] \in Purchases
        /\ NoCredit \notin Credits /\ NoCert \notin Cert
BY NamesAssumption, CertAssumption DEF Credits

(* Steps that touch neither the wallet nor what a request means to pay     *)
(* with.                                                                   *)
Quiet ==
  /\ UNCHANGED <<credits, soldAt, orders, recorded, certs>>
  /\ now' \in Nat /\ now <= now'
  /\ \A r \in Requests :
       /\ local'[r].credit = local[r].credit
       /\ local'[r].pay = "credit" <=> local[r].pay = "credit"
       /\ pc'[r] \in Early => pc[r] \in Early /\ local'[r].pay = local[r].pay
       /\ pc'[r] \in Spending => pc[r] \in Spending
       /\ pc'[r] \notin Final => pc[r] \notin Final
  /\ \A p \in Purchases :
       /\ pc'[p] \in Unsold => pc[p] \in Unsold
       /\ pc'[p] \in {"record", "grant"} => pc'[p] = pc[p]

(* A step that touches no credit, sale or holder keeps the invariant.      *)
LEMMA QuietKeepsWallet ==
        ASSUME TypeInv, WalletInv, Quiet PROVE WalletInv'
<1>1. HandlerInv'
  BY DEF WalletInv, HandlerInv, NoChoiceYet, ChosenCredit, SpentFirst,
         NotYetStored, Quiet
<1>2. PurchaseInv'
  <2>1. SoldInPast'
    BY CreditFacts DEF WalletInv, PurchaseInv, SoldInPast, Quiet, TypeInv, TypeOK
  <2>2. NotYetSold' /\ Ordered'
    BY DEF WalletInv, PurchaseInv, NotYetSold, Ordered, Quiet
  <2> QED
    BY <2>1, <2>2 DEF PurchaseInv
<1>3. PropertyInv'
  BY DEF WalletInv, PropertyInv, OldestCreditFirst, CreditBacksOneCertificate,
         CreditsHaveAnOrder, Issued, Quiet
<1> QED
  BY <1>1, <1>2, <1>3 DEF WalletInv

(* Reading, creating and renewing plans touches no credit.                 *)
LEMMA PlanStepIsQuiet ==
        ASSUME TypeInv, NEW a \in Actors, PlanStep(a) PROVE Quiet
<1> USE ConstantFacts
<1> USE DEF Quiet, Goto, tables, TypeInv, TypeOK, Local, Early, Spending, Final,
            Unsold
<1>1. CASE PlanMissing(a)
  BY <1>1 DEF PlanMissing
<1>2. CASE PlanCurrent(a)
  BY <1>2 DEF PlanCurrent
<1>3. CASE PlanExpired(a)
  BY <1>3 DEF PlanExpired
<1>4. CASE MakePlan(a)
  BY <1>4 DEF MakePlan
<1>5. CASE RenewPlan(a)
  BY <1>5 DEF RenewPlan
<1> QED
  BY <1>1, <1>2, <1>3, <1>4, <1>5 DEF PlanStep

(* The steps of an emission that touch no credit.                          *)
LEMMA QuietRequestStep ==
        ASSUME TypeInv, NoChoiceYet, NEW r \in Requests,
               Arrive(r) \/ Count(r) \/ Unpaid(r) \/ NoCustomer(r) \/ Invalid(r)
                 \/ Refuse(r) \/ Check(r) \/ StoreFails(r)
        PROVE  Quiet
<1> USE ConstantFacts
<1> USE DEF Quiet, Goto, tables, TypeInv, TypeOK, Local, Early, Spending, Final,
            Unsold
<1>1. CASE Arrive(r)
  BY <1>1 DEF Arrive
<1>2. CASE Count(r)
  <2>1. local[r].pay = "none"
    BY <1>2 DEF Count, NoChoiceYet
  <2>2. \/ UNCHANGED local
        \/ local' = [local EXCEPT ![r].pay = "basic"]
    BY <1>2 DEF Count
  <2>3. \E l \in {"paid", "findCredit"} :
          /\ pc' = [pc EXCEPT ![r] = l]
          /\ l = "findCredit" => UNCHANGED local
    BY <1>2 DEF Count
  <2>4. UNCHANGED <<now, credits, soldAt, orders, recorded, certs>> /\ pc[r] = "count"
    BY <1>2 DEF Count
  <2>5. /\ \A q \in Requests : q # r => local'[q] = local[q]
        /\ local'[r].credit = local[r].credit /\ local'[r].pay # "credit"
    BY <2>1, <2>2
  <2> QED
    BY <2>1, <2>3, <2>4, <2>5
<1>3. CASE Unpaid(r) \/ NoCustomer(r) \/ Invalid(r) \/ Refuse(r) \/ StoreFails(r)
  BY <1>3 DEF Unpaid, NoCustomer, Invalid, Refuse, StoreFails
<1>4. CASE Check(r)
  BY <1>4 DEF Check
<1> QED
  BY <1>1, <1>2, <1>3, <1>4

(* The steps of a purchase that touch no credit and no order.              *)
LEMMA QuietPurchaseStep ==
        ASSUME TypeInv, NEW p \in Purchases, Buy(p) PROVE Quiet
BY ConstantFacts DEF Buy, Quiet, Goto, tables, TypeInv, TypeOK, Early, Spending,
   Final, Unsold

(* A crash and the passing of time.                                        *)
LEMMA QuietOtherStep ==
        ASSUME TypeInv, Crash \/ Tick \/ UNCHANGED vars PROVE Quiet
<1> USE ConstantFacts
<1> USE DEF Quiet, tables, TypeInv, TypeOK, Early, Spending, Final, Unsold
<1>1. CASE Crash
  BY <1>1 DEF Crash, Over
<1>2. CASE Tick
  BY <1>2 DEF Tick
<1>3. CASE UNCHANGED vars
  BY <1>3 DEF vars
<1> QED
  BY <1>1, <1>2, <1>3

-----------------------------------------------------------------------------
(* The other steps, each with what it changes.                             *)

(* The credit found is valid, and no older one is.                         *)
LEMMA FindCreditKeepsWallet ==
        ASSUME TypeInv, WalletInv, NEW r \in Requests, FindCredit(r)
        PROVE  WalletInv'
<1> USE ConstantFacts, CreditFacts
<1>1. PICK k \in OldestValid :
        local' = [local EXCEPT ![r].pay = "credit", ![r].credit = k]
  BY DEF FindCredit
<1>2. /\ local'[r].pay = "credit" /\ local'[r].credit = k
      /\ \A q \in Requests : q # r => local'[q] = local[q]
  BY <1>1 DEF TypeInv, TypeOK, Local
<1>3. /\ k \in Credits /\ credits[k] = "valid"
      /\ \A j \in Credits : credits[j] = "valid" => soldAt[k[1]] <= soldAt[j[1]]
  BY <1>1 DEF OldestValid, Valid
<1>4. /\ UNCHANGED <<now, credits, soldAt, orders, recorded, certs>>
      /\ pc[r] = "findCredit" /\ pc' = [pc EXCEPT ![r] = "paid"]
  BY DEF FindCredit, Goto, tables
<1>5. \A j \in Credits : soldAt[j[1]] \in Nat
  BY DEF TypeInv, TypeOK
<1>6. NoChoiceYet' /\ SpentFirst' /\ NotYetStored'
  BY <1>2, <1>4 DEF WalletInv, HandlerInv, NoChoiceYet, SpentFirst, NotYetStored,
                    Early, Spending, Final, TypeInv, TypeOK
<1>7. ChosenCredit'
  BY <1>2, <1>3, <1>4, <1>5 DEF WalletInv, HandlerInv, ChosenCredit
<1>8. PurchaseInv'
  BY <1>4 DEF WalletInv, PurchaseInv, SoldInPast, NotYetSold, Ordered, TypeInv, TypeOK
<1>9. PropertyInv'
  BY <1>4 DEF WalletInv, PropertyInv, OldestCreditFirst, CreditBacksOneCertificate,
              CreditsHaveAnOrder, Issued
<1> QED
  BY <1>6, <1>7, <1>8, <1>9 DEF WalletInv, HandlerInv

(* The credit spent is still the oldest, or was spent already.             *)
LEMMA SpendKeepsWallet ==
        ASSUME TypeInv, WalletInv, NEW r \in Requests, Spend(r)
        PROVE  WalletInv'
<1> USE ConstantFacts, CreditFacts
<1> DEFINE c == local[r].credit
<1>1. /\ UNCHANGED <<now, soldAt, orders, recorded, certs, local>>
      /\ pc[r] = "paid" /\ pc' = [pc EXCEPT ![r] = "spent"]
  BY DEF Spend, Goto
<1>2. CASE local[r].pay # "credit"
  <2>1. UNCHANGED credits
    BY <1>2 DEF Spend
  <2>2. HandlerInv'
    BY <1>1, <1>2, <2>1 DEF WalletInv, HandlerInv, NoChoiceYet, ChosenCredit,
       SpentFirst, NotYetStored, Early, Spending, Final, TypeInv, TypeOK
  <2>3. PurchaseInv'
    BY <1>1, <2>1 DEF WalletInv, PurchaseInv, SoldInPast, NotYetSold, Ordered,
       TypeInv, TypeOK
  <2>4. PropertyInv'
    BY <1>1, <2>1 DEF WalletInv, PropertyInv, OldestCreditFirst,
       CreditBacksOneCertificate, CreditsHaveAnOrder, Issued
  <2> QED
    BY <2>2, <2>3, <2>4 DEF WalletInv
<1>3. CASE local[r].pay = "credit"
  <2>1. credits' = [credits EXCEPT ![c] = "used"]
    BY <1>3 DEF Spend
  <2>2. /\ c \in Credits /\ credits[c] # "absent"
        /\ \A j \in Credits : soldAt[j[1]] < soldAt[c[1]] => credits[j] # "valid"
    BY <1>3 DEF WalletInv, HandlerInv, ChosenCredit
  <2>3. \A k \in Credits : credits'[k] = IF k = c THEN "used" ELSE credits[k]
    BY <2>1 DEF TypeInv, TypeOK
  <2>4. HandlerInv'
    <3>1. NoChoiceYet' /\ NotYetStored'
      BY <1>1 DEF WalletInv, HandlerInv, NoChoiceYet, NotYetStored, Early, Final,
         TypeInv, TypeOK
    <3>2. ChosenCredit'
      BY <1>1, <2>3 DEF WalletInv, HandlerInv, ChosenCredit
    <3>3. SpentFirst'
      BY <1>1, <2>2, <2>3 DEF WalletInv, HandlerInv, SpentFirst, ChosenCredit,
         Spending, TypeInv, TypeOK
    <3> QED
      BY <3>1, <3>2, <3>3 DEF HandlerInv
  <2>5. PurchaseInv'
    BY <1>1, <2>2, <2>3 DEF WalletInv, PurchaseInv, SoldInPast, NotYetSold, Ordered,
       TypeInv, TypeOK
  <2>6. PropertyInv'
    <3>1. OldestCreditFirst'
      BY <1>1, <2>2, <2>3 DEF WalletInv, PropertyInv, OldestCreditFirst
    <3>2. CreditBacksOneCertificate'
      <4>1. \A q \in Issued : certs[q].credit # NoCredit => certs[q].credit \in Credits
        BY DEF Issued, Cert, TypeInv, TypeOK
      <4> QED
        BY <1>1, <2>3, <4>1 DEF WalletInv, PropertyInv, CreditBacksOneCertificate,
           Issued
    <3>3. CreditsHaveAnOrder'
      BY <1>1, <2>2, <2>3 DEF WalletInv, PropertyInv, CreditsHaveAnOrder
    <3> QED
      BY <3>1, <3>2, <3>3 DEF PropertyInv
  <2> QED
    BY <2>4, <2>5, <2>6 DEF WalletInv
<1> QED
  BY <1>2, <1>3

(* Publishing a certificate leaves its credit alone.                       *)
LEMMA ShareKeepsWallet ==
        ASSUME TypeInv, WalletInv, NEW r \in Requests, Share(r)
        PROVE  WalletInv'
<1> USE ConstantFacts, CreditFacts
<1>1. /\ UNCHANGED <<now, credits, soldAt, orders, recorded, local>>
      /\ pc[r] = "stored" /\ pc'[r] \in Final
      /\ \A a \in Actors : a # r => pc'[a] = pc[a]
  BY DEF Share, Goto, Final, TypeInv, TypeOK
<1>2. /\ certs[r] \in Cert /\ certs'[r] = [certs[r] EXCEPT !.shared = TRUE]
      /\ \A q \in Requests : q # r => certs'[q] = certs[q]
  BY DEF Share, TypeInv, TypeOK, StoredCert
<1>3. certs'[r] \in Cert /\ certs'[r].credit = certs[r].credit
  BY <1>2 DEF Cert
<1>4. Issued' = Issued /\ \A q \in Issued : certs'[q].credit = certs[q].credit
  BY <1>2, <1>3 DEF Issued
<1>5. HandlerInv'
  BY <1>1, <1>2 DEF WalletInv, HandlerInv, NoChoiceYet, ChosenCredit, SpentFirst,
     NotYetStored, Early, Spending, Final
<1>6. PurchaseInv'
  BY <1>1 DEF WalletInv, PurchaseInv, SoldInPast, NotYetSold, Ordered
<1>7. PropertyInv'
  BY <1>1, <1>4 DEF WalletInv, PropertyInv, OldestCreditFirst,
     CreditBacksOneCertificate, CreditsHaveAnOrder
<1> QED
  BY <1>5, <1>6, <1>7 DEF WalletInv

(* What a stored certificate does to the credits of the others.            *)
LEMMA StoreEffect ==
        ASSUME TypeInv, WalletInv, NEW r \in Requests, Store(r)
        PROVE  /\ certs[r] = NoCert
               /\ Issued' = Issued \cup {r}
               /\ certs'[r].credit = local[r].credit
               /\ local[r].credit \in Credits \cup {NoCredit}
               /\ local[r].credit # NoCredit => credits[local[r].credit] = "used"
               /\ \A q \in Issued :
                    certs'[q].credit = IF certs[q].credit = local[r].credit
                                       THEN NoCredit ELSE certs[q].credit
<1> USE ConstantFacts, CreditFacts
<1> DEFINE k == local[r].credit
<1>1. certs[r] = NoCert
  BY DEF Store, WalletInv, HandlerInv, NotYetStored, Final
<1>2. local[r] \in Local
  BY DEF TypeInv, TypeOK
<1>3. NewCert(r) \in Cert /\ NewCert(r).credit = k
  BY <1>2 DEF NewCert, Cert, Local, TypeInv, TypeOK
<1>4. k # NoCredit => credits[k] = "used"
  BY DEF Store, WalletInv, HandlerInv, ChosenCredit, SpentFirst, Spending
<1>5. certs' = [Disconnected(k) EXCEPT ![r] = NewCert(r)]
  BY DEF Store
<1>6. certs'[r] = NewCert(r) /\ \A q \in Requests : q # r => certs'[q] = Disconnected(k)[q]
  BY <1>5 DEF Disconnected
<1>7. ASSUME NEW q \in Issued
      PROVE  /\ Disconnected(k)[q] \in Cert
             /\ Disconnected(k)[q].credit = IF certs[q].credit = k
                                            THEN NoCredit ELSE certs[q].credit
  <2>1. q \in Requests /\ certs[q] \in Cert
    BY DEF Issued, TypeInv, TypeOK
  <2> QED
    BY <2>1 DEF Disconnected, Cert
<1>8. \A q \in Requests \ Issued : Disconnected(k)[q] = NoCert
  BY DEF Disconnected, Issued
<1>9. r \notin Issued
  BY <1>1 DEF Issued
<1>10. \A q \in Issued : /\ certs'[q] \in Cert
                         /\ certs'[q].credit = IF certs[q].credit = k
                                               THEN NoCredit ELSE certs[q].credit
  BY <1>6, <1>7, <1>9 DEF Issued
<1>11. Issued' = Issued \cup {r}
  BY <1>3, <1>6, <1>8, <1>10 DEF Issued
<1> QED
  BY <1>1, <1>2, <1>3, <1>4, <1>6, <1>10, <1>11 DEF Local

(* A stored certificate takes its credit from the one that had it.         *)
LEMMA StoreKeepsWallet ==
        ASSUME TypeInv, WalletInv, NEW r \in Requests, Store(r)
        PROVE  WalletInv'
<1> USE ConstantFacts, CreditFacts
<1>1. /\ UNCHANGED <<now, credits, soldAt, orders, recorded, local>>
      /\ pc[r] = "checked" /\ pc'[r] \in Final
      /\ \A a \in Actors : a # r => pc'[a] = pc[a]
  BY DEF Store, Goto, Final, TypeInv, TypeOK
<1>2. \A q \in Requests : q # r /\ certs[q] = NoCert => certs'[q] = NoCert
  BY StoreEffect DEF Issued
<1>3. HandlerInv'
  BY <1>1, <1>2 DEF WalletInv, HandlerInv, NoChoiceYet, ChosenCredit, SpentFirst,
     NotYetStored, Early, Spending, Final
<1>4. PurchaseInv'
  BY <1>1 DEF WalletInv, PurchaseInv, SoldInPast, NotYetSold, Ordered
<1>5. PropertyInv'
  <2>1. OldestCreditFirst' /\ CreditsHaveAnOrder'
    BY <1>1 DEF WalletInv, PropertyInv, OldestCreditFirst, CreditsHaveAnOrder
  <2>2. CreditBacksOneCertificate'
    BY <1>1, StoreEffect DEF WalletInv, PropertyInv, CreditBacksOneCertificate
  <2> QED
    BY <2>1, <2>2 DEF PropertyInv
<1> QED
  BY <1>3, <1>4, <1>5 DEF WalletInv

(* The gateway answers and the order is recorded, before any credit.       *)
LEMMA OrderKeepsWallet ==
        ASSUME TypeInv, WalletInv, NEW p \in Purchases, Charge(p) \/ RecordOrder(p)
        PROVE  WalletInv'
<1> USE ConstantFacts, CreditFacts
<1>1. /\ UNCHANGED <<now, credits, soldAt, certs, local>>
      /\ pc[p] \in {"charge", "record"}
      /\ \A a \in Actors : a # p => pc'[a] = pc[a]
      /\ \A q \in Purchases : q # p => orders'[q] = orders[q]
      /\ recorded \subseteq recorded' /\ recorded' \subseteq recorded \cup {p}
  BY DEF Charge, RecordOrder, Goto, TypeInv, TypeOK
<1>2. /\ pc'[p] \in {"record", "grant"} => orders'[p] # "none"
      /\ pc'[p] = "grant" => p \in recorded'
  <2>1. CASE Charge(p)
    BY <2>1, SizesAssumption DEF Charge, Goto, TypeInv, TypeOK
  <2>2. CASE RecordOrder(p)
    BY <2>2 DEF RecordOrder, Goto, TypeInv, TypeOK, WalletInv, PurchaseInv, Ordered
  <2> QED
    BY <2>1, <2>2
<1>3. \A k \in Credits : k[1] = p => credits[k] = "absent"
  BY <1>1 DEF WalletInv, PurchaseInv, NotYetSold, Unsold
<1>4. HandlerInv'
  BY <1>1 DEF WalletInv, HandlerInv, NoChoiceYet, ChosenCredit, SpentFirst,
     NotYetStored, Early, Spending, Final
<1>5. PurchaseInv'
  BY <1>1, <1>2, <1>3 DEF WalletInv, PurchaseInv, SoldInPast, NotYetSold, Ordered,
     Unsold
<1>6. PropertyInv'
  BY <1>1, <1>3 DEF WalletInv, PropertyInv, OldestCreditFirst,
     CreditBacksOneCertificate, CreditsHaveAnOrder, Issued
<1> QED
  BY <1>4, <1>5, <1>6 DEF WalletInv

(* New credits are younger than every credit there is.                     *)
LEMMA GrantKeepsWallet ==
        ASSUME TypeInv, WalletInv, NEW p \in Purchases, Grant(p)
        PROVE  WalletInv'
<1> USE ConstantFacts, CreditFacts
<1>1. /\ UNCHANGED <<plans, orders, recorded, certs, local>>
      /\ now \in Nat /\ now' = now + 1
      /\ pc[p] = "grant" /\ pc'[p] = "readPlan"
      /\ \A a \in Actors : a # p => pc'[a] = pc[a]
  BY DEF Grant, Goto, TypeInv, TypeOK
<1>2. /\ \A k \in Credits : credits'[k] = IF k[1] = p THEN "valid" ELSE credits[k]
      /\ \A q \in Purchases : soldAt'[q] = IF q = p THEN now ELSE soldAt[q]
      /\ \A q \in Purchases : soldAt[q] \in Nat /\ soldAt[q] <= now
  BY DEF Grant, TypeInv, TypeOK, WalletInv, PurchaseInv, SoldInPast
<1>3. \A k \in Credits : k[1] = p => credits[k] = "absent"
  BY <1>1 DEF WalletInv, PurchaseInv, NotYetSold, Unsold
<1>4. HandlerInv'
  <2>1. NoChoiceYet' /\ NotYetStored'
    BY <1>1 DEF WalletInv, HandlerInv, NoChoiceYet, NotYetStored
  <2>2. ChosenCredit'
    BY <1>1, <1>2, <1>3 DEF WalletInv, HandlerInv, ChosenCredit
  <2>3. SpentFirst'
    BY <1>1, <1>2, <1>3 DEF WalletInv, HandlerInv, SpentFirst, ChosenCredit
  <2> QED
    BY <2>1, <2>2, <2>3 DEF HandlerInv
<1>5. PurchaseInv'
  BY <1>1, <1>2 DEF WalletInv, PurchaseInv, SoldInPast, NotYetSold, Ordered, Unsold
<1>6. PropertyInv'
  <2>1. OldestCreditFirst'
    <3> SUFFICES ASSUME NEW j \in Credits, NEW k \in Credits,
                        soldAt'[j[1]] < soldAt'[k[1]], credits'[k] = "used"
                 PROVE  credits'[j] # "valid"
      BY DEF OldestCreditFirst
    <3>1. k[1] # p /\ credits[k] = "used" /\ soldAt'[k[1]] = soldAt[k[1]]
      BY <1>2
    <3>2. j[1] # p
      BY <1>1, <1>2, <3>1
    <3> QED
      BY <1>2, <3>1, <3>2 DEF WalletInv, PropertyInv, OldestCreditFirst
  <2>2. CreditBacksOneCertificate'
    <3>1. \A q \in Issued : certs[q].credit # NoCredit => certs[q].credit \in Credits
      BY DEF Issued, Cert, TypeInv, TypeOK
    <3> QED
      BY <1>1, <1>2, <1>3, <3>1 DEF WalletInv, PropertyInv,
         CreditBacksOneCertificate, Issued
  <2>3. CreditsHaveAnOrder'
    BY <1>1, <1>2, <1>3 DEF WalletInv, PropertyInv, CreditsHaveAnOrder,
       PurchaseInv, Ordered
  <2> QED
    BY <2>1, <2>2, <2>3 DEF PropertyInv
<1> QED
  BY <1>4, <1>5, <1>6 DEF WalletInv

(* No credit, no order and no certificate.                                 *)
LEMMA WalletInit == Init => WalletInv
<1> SUFFICES ASSUME Init PROVE WalletInv
  OBVIOUS
<1> USE ConstantFacts, CreditFacts
<1>1. HandlerInv
  BY DEF Init, Idle, HandlerInv, NoChoiceYet, ChosenCredit, SpentFirst,
         NotYetStored, Spending
<1>2. PurchaseInv
  BY DEF Init, PurchaseInv, SoldInPast, NotYetSold, Ordered
<1>3. PropertyInv
  BY DEF Init, PropertyInv, OldestCreditFirst, CreditBacksOneCertificate,
         CreditsHaveAnOrder, Issued
<1> QED
  BY <1>1, <1>2, <1>3 DEF WalletInv

(* The inductive invariant of the credits.                                 *)
THEOREM WalletInvariant == Spec => []WalletInv
<1>1. TypeInv /\ WalletInv /\ [Next]_vars => WalletInv'
  <2> SUFFICES ASSUME TypeInv, WalletInv, [Next]_vars PROVE WalletInv'
    OBVIOUS
  <2>1. ASSUME NEW a \in Actors, PlanStep(a) PROVE WalletInv'
    BY <2>1, PlanStepIsQuiet, QuietKeepsWallet
  <2>2. ASSUME NEW r \in Requests, RequestStep(r) PROVE WalletInv'
    <3>1. NoChoiceYet
      BY DEF WalletInv, HandlerInv
    <3>2. CASE Arrive(r) \/ Count(r) \/ Unpaid(r) \/ NoCustomer(r) \/ Invalid(r)
                 \/ Refuse(r) \/ Check(r) \/ StoreFails(r)
      BY <3>1, <3>2, QuietRequestStep, QuietKeepsWallet
    <3>3. CASE FindCredit(r)
      BY <3>3, FindCreditKeepsWallet
    <3>4. CASE Spend(r)
      BY <3>4, SpendKeepsWallet
    <3>5. CASE Store(r)
      BY <3>5, StoreKeepsWallet
    <3>6. CASE Share(r)
      BY <3>6, ShareKeepsWallet
    <3> QED
      BY <2>2, <3>2, <3>3, <3>4, <3>5, <3>6 DEF RequestStep
  <2>3. ASSUME NEW p \in Purchases, PurchaseStep(p) PROVE WalletInv'
    <3>1. CASE Buy(p)
      BY <3>1, QuietPurchaseStep, QuietKeepsWallet
    <3>2. CASE Charge(p) \/ RecordOrder(p)
      BY <3>2, OrderKeepsWallet
    <3>3. CASE Grant(p)
      BY <3>3, GrantKeepsWallet
    <3> QED
      BY <2>3, <3>1, <3>2, <3>3 DEF PurchaseStep
  <2>4. CASE Crash \/ Tick \/ UNCHANGED vars
    BY <2>4, QuietOtherStep, QuietKeepsWallet
  <2> QED
    BY <2>1, <2>2, <2>3, <2>4 DEF Next
<1> QED
  BY <1>1, WalletInit, TypeCorrect, PTL DEF Spec

(* Credits go in the order they were bought, whatever the interleaving.    *)
THEOREM OldestFirst == Spec => []OldestCreditFirst
<1>1. WalletInv => OldestCreditFirst
  BY DEF WalletInv, PropertyInv
<1> QED
  BY <1>1, WalletInvariant, PTL

(* A credit is named by one certificate, after it has been invalidated.    *)
THEOREM OneCertificatePerCredit == Spec => []CreditBacksOneCertificate
<1>1. WalletInv => CreditBacksOneCertificate
  BY DEF WalletInv, PropertyInv
<1> QED
  BY <1>1, WalletInvariant, PTL

(* Credits exist only for an accepted and recorded order, all or none.     *)
THEOREM OrdersBehindCredits == Spec => []CreditsHaveAnOrder
<1>1. WalletInv => CreditsHaveAnOrder
  BY DEF WalletInv, PropertyInv
<1> QED
  BY <1>1, WalletInvariant, PTL

-----------------------------------------------------------------------------
(* SelfEmission implements CreditWallet.                                   *)

Holders == {<<r, certs[r].credit>> :
              r \in {q \in Issued : certs[q].credit # NoCredit}}

WalletStep == [Wallet!Next]_(Wallet!vars)

(* A step that leaves credits, sales and holders alone is a stutter.       *)
LEMMA SameTablesStutter ==
        ASSUME UNCHANGED <<credits, soldAt, certs>> PROVE WalletStep
BY DEF WalletStep, Wallet!vars, Issued

(* Spending is a Spend of the wallet, or a stutter when it came second.    *)
LEMMA SpendIsSpend ==
        ASSUME TypeInv, WalletInv, NEW r \in Requests, Spend(r)
        PROVE  WalletStep
<1> DEFINE k == local[r].credit
<1>1. UNCHANGED <<soldAt, certs>>
  BY DEF Spend
<1>2. CASE local[r].pay # "credit"
  BY <1>2, SameTablesStutter DEF Spend
<1>3. CASE local[r].pay = "credit"
  <2>1. /\ k \in Credits /\ credits[k] # "absent"
        /\ \A j \in Credits : soldAt[j[1]] < soldAt[k[1]] => credits[j] # "valid"
        /\ credits' = [credits EXCEPT ![k] = "used"]
    BY <1>3 DEF Spend, WalletInv, HandlerInv, ChosenCredit
  <2>2. CASE credits[k] = "used"
    <3>1. UNCHANGED credits
      BY <2>1, <2>2 DEF TypeInv, TypeOK
    <3> QED
      BY <1>1, <3>1, SameTablesStutter
  <2>3. CASE credits[k] = "valid"
    <3>1. Wallet!Spend(k)
      BY <1>1, <2>1, <2>3 DEF Wallet!Spend, Wallet!Credits, Credits, Issued
    <3> QED
      BY <2>1, <3>1 DEF WalletStep, Wallet!Next, Wallet!Credits, Credits
  <2> QED
    BY <2>1, <2>2, <2>3 DEF TypeInv, TypeOK
<1> QED
  BY <1>2, <1>3

(* Storing is an Attach of the wallet, or a stutter without a credit.      *)
LEMMA StoreAttaches ==
        ASSUME TypeInv, WalletInv, NEW r \in Requests, Store(r)
        PROVE  WalletStep
<1> USE CreditFacts
<1> DEFINE k == local[r].credit
<1>1. UNCHANGED <<credits, soldAt>>
  BY DEF Store
<1>2. r \notin Issued
  BY StoreEffect DEF Issued
<1>3. CASE k = NoCredit
  <2>1. Holders' = Holders
    BY <1>2, <1>3, StoreEffect DEF Holders
  <2> QED
    BY <1>1, <2>1 DEF WalletStep, Wallet!vars, Holders
<1>4. CASE k # NoCredit
  <2>1. k \in Credits /\ credits[k] = "used"
    BY <1>4, StoreEffect
  <2>2. \A h \in Holders : h[1] # r
    BY <1>2 DEF Holders
  <2>3. Holders' = {h \in Holders : h[2] # k} \cup {<<r, k>>}
    <3>1. ASSUME NEW h \in Holders' PROVE h \in {g \in Holders : g[2] # k} \cup {<<r, k>>}
      BY <1>2, <1>4, <3>1, StoreEffect DEF Holders
    <3>2. ASSUME NEW h \in Holders, h[2] # k PROVE h \in Holders'
      BY <1>2, <3>2, StoreEffect DEF Holders
    <3>3. <<r, k>> \in Holders'
      BY <1>4, StoreEffect DEF Holders
    <3> QED
      BY <3>1, <3>2, <3>3
  <2>4. Wallet!Attach(k, r)
    BY <1>1, <2>1, <2>2, <2>3 DEF Wallet!Attach, Holders
  <2> QED
    BY <2>1, <2>4 DEF WalletStep, Wallet!Next, Wallet!Credits, Credits
<1> QED
  BY <1>3, <1>4

(* Publishing is a stutter of the wallet.                                  *)
LEMMA ShareStutters ==
        ASSUME TypeInv, NEW r \in Requests, Share(r) PROVE WalletStep
<1>1. /\ certs[r] \in Cert /\ certs'[r] = [certs[r] EXCEPT !.shared = TRUE]
      /\ \A q \in Requests : q # r => certs'[q] = certs[q]
      /\ UNCHANGED <<credits, soldAt>>
  BY DEF Share, TypeInv, TypeOK, StoredCert
<1>2. certs'[r] \in Cert /\ certs'[r].credit = certs[r].credit
  BY <1>1 DEF Cert
<1>3. Issued' = Issued /\ \A q \in Issued : certs'[q].credit = certs[q].credit
  BY <1>1, <1>2, CreditFacts DEF Issued
<1>4. Holders' = Holders
  BY <1>3 DEF Holders
<1> QED
  BY <1>1, <1>4 DEF WalletStep, Wallet!vars, Holders

(* Granting is a Sell of the wallet.                                       *)
LEMMA GrantSells ==
        ASSUME TypeInv, WalletInv, NEW p \in Purchases, Grant(p)
        PROVE  WalletStep
<1> USE CreditFacts
<1>1. \A k \in Credits : k[1] = p => credits[k] = "absent"
  BY DEF Grant, WalletInv, PurchaseInv, NotYetSold, Unsold
<1>2. credits' = [k \in Credits |-> IF k[1] = p THEN "valid" ELSE credits[k]]
  BY DEF Grant
<1>3. /\ soldAt' \in [Purchases -> Nat]
      /\ \A q \in Purchases : q # p => soldAt'[q] = soldAt[q]
      /\ soldAt'[p] = now
  BY DEF Grant, TypeInv, TypeOK
<1>4. \A k \in Credits : credits[k] # "absent" => soldAt[k[1]] <= soldAt'[p]
  BY <1>3 DEF WalletInv, PurchaseInv, SoldInPast
<1>5. UNCHANGED certs
  BY DEF Grant
<1>6. Wallet!Sell(p)
  BY <1>1, <1>2, <1>3, <1>4, <1>5 DEF Wallet!Sell, Wallet!Credits, Credits, Issued
<1> QED
  BY <1>6 DEF WalletStep, Wallet!Next

(* The credits of a user are a wallet, whatever his requests do.           *)
THEOREM ImplementsWallet == Spec => WalletSpec
<1>1. Init => Wallet!Init
  BY DEF Init, Wallet!Init, Wallet!Credits, Credits, Issued
<1>2. TypeInv /\ WalletInv /\ [Next]_vars => WalletStep
  <2> SUFFICES ASSUME TypeInv, WalletInv, [Next]_vars PROVE WalletStep
    OBVIOUS
  <2>1. ASSUME NEW a \in Actors, PlanStep(a) PROVE WalletStep
    BY <2>1, PlanStepIsQuiet, SameTablesStutter DEF Quiet
  <2>2. ASSUME NEW r \in Requests, RequestStep(r) PROVE WalletStep
    <3>1. NoChoiceYet
      BY DEF WalletInv, HandlerInv
    <3>2. CASE Arrive(r) \/ Count(r) \/ Unpaid(r) \/ NoCustomer(r) \/ Invalid(r)
                 \/ Refuse(r) \/ Check(r) \/ StoreFails(r)
      BY <3>1, <3>2, QuietRequestStep, SameTablesStutter DEF Quiet
    <3>3. CASE FindCredit(r)
      BY <3>3, SameTablesStutter DEF FindCredit, tables
    <3>4. CASE Spend(r)
      BY <3>4, SpendIsSpend
    <3>5. CASE Store(r)
      BY <3>5, StoreAttaches
    <3>6. CASE Share(r)
      BY <3>6, ShareStutters
    <3> QED
      BY <2>2, <3>2, <3>3, <3>4, <3>5, <3>6 DEF RequestStep
  <2>3. ASSUME NEW p \in Purchases, PurchaseStep(p) PROVE WalletStep
    <3>1. CASE Buy(p) \/ Charge(p) \/ RecordOrder(p)
      BY <3>1, SameTablesStutter DEF Buy, Charge, RecordOrder, tables
    <3>2. CASE Grant(p)
      BY <3>2, GrantSells
    <3> QED
      BY <2>3, <3>1, <3>2 DEF PurchaseStep
  <2>4. CASE Crash \/ Tick \/ UNCHANGED vars
    BY <2>4, SameTablesStutter DEF Crash, Tick, vars, tables
  <2> QED
    BY <2>1, <2>2, <2>3, <2>4 DEF Next
<1> QED
  BY <1>1, <1>2, TypeCorrect, WalletInvariant, PTL
     DEF Spec, WalletSpec, Wallet!Spec, WalletStep

-----------------------------------------------------------------------------
(* The quota.  A request that counted the certificates of its cycle is     *)
(* paid by the quota until its certificate is stored: what has been        *)
(* emitted in a cycle and what is about to be are bounded together.        *)

Unplanned == Unsold \cup {"readPlan", "makePlan"}
Undated   == Unsold \cup {"readPlan", "renewPlan"}

(* An actor makes its own plan once, has no cycle before it has read one,  *)
(* and renews a plan whose cycle began before now.                         *)
PlansInv ==
  /\ \A p \in Existing : plans[p].start <= plans[p].end
  /\ \A a \in Actors : pc[a] \in Unplanned => ~plans[a].exists
  /\ \A a \in Actors : pc[a] \in Undated => local[a].start = 0
  /\ \A a \in Actors :
       pc[a] = "renewPlan" => local[a].plan \in Existing /\ plans[local[a].plan].start <= now

AtMost(n, S) == IsFiniteSet(S) /\ Cardinality(S) <= n

(* The rows of the user and the requests in memory are finitely many.      *)
Counted == IsFiniteSet(Issued) /\ AtMost(MaxInFlight, InFlight)

(* A request that found no quota left and looks for a credit or has one.   *)
PastQuota(r) == pc[r] = "findCredit" \/ local[r].pay = "credit"

QuotaGone == \A r \in Requests :
               PastQuota(r) => ~Unlimited /\ Cardinality(Emitted(local[r].start)) >= Quota

(* Certificates of the quota since s, and those about to be inserted.      *)
Basic(s) == {r \in Emitted(s) : certs[r].pay = "basic"}
Pending  == {r \in Requests : pc[r] \in {"paid", "spent", "checked"} /\ local[r].pay = "basic"}
Charged(s) == Basic(s) \cup Pending

Latest(s) == \A t \in Starts : t <= s

Overshoot == \A s \in Nat :
               Latest(s) /\ ~Unlimited /\ Quota > 0 => AtMost(Quota + MaxInFlight - 1, Charged(s))

QuotaInv == PlansInv /\ Counted /\ QuotaGone /\ Overshoot

LEMMA SubsetAtMost == \A T : \A S \in SUBSET T : \A n \in Nat : AtMost(n, T) => AtMost(n, S)
BY FS_Subset, FS_CardinalityType DEF AtMost

LEMMA EmittedFinite ==
  ASSUME Counted, NEW s \in Nat
  PROVE  /\ IsFiniteSet(Emitted(s)) /\ Cardinality(Emitted(s)) \in Nat
         /\ IsFiniteSet(Basic(s)) /\ Cardinality(Basic(s)) <= Cardinality(Emitted(s))
         /\ Cardinality(Basic(s)) \in Nat
<1>1. Emitted(s) \subseteq Issued /\ Basic(s) \subseteq Emitted(s)
  BY DEF Emitted, Basic
<1>2. IsFiniteSet(Emitted(s))
  BY <1>1, FS_Subset DEF Counted
<1> QED
  BY <1>1, <1>2, FS_Subset, FS_CardinalityType

-----------------------------------------------------------------------------
(* The plans and the cycles known of.                                      *)

(* Every cycle start known of stays known, or a later one is.              *)
Advances == \A t \in Starts : \E u \in Starts' : t <= u

(* A step that leaves plans and what is known of cycles alone.             *)
Settled ==
  /\ plans' = plans /\ now' \in Nat /\ now <= now'
  /\ \A a \in Actors :
       /\ local'[a].start = local[a].start /\ local'[a].plan = local[a].plan
       /\ pc'[a] \in Unplanned => pc[a] \in Unplanned
       /\ pc'[a] \in Undated => pc[a] \in Undated
       /\ pc'[a] = "renewPlan" => pc[a] = "renewPlan"
       /\ pc'[a] = "idle" => pc[a] = "idle"

LEMMA StartsAreTimes == TypeInv => Starts \subseteq Nat
BY ConstantFacts DEF TypeInv, TypeOK, Starts, Existing, Plan, Local

LEMMA SettledKeepsPlans ==
  ASSUME TypeInv, PlansInv, Settled
  PROVE  PlansInv' /\ Advances
<1>1. \A p \in PlanIds : plans[p].start \in Nat
  BY DEF TypeInv, TypeOK, Plan
<1>2. now \in Nat /\ Existing' = Existing /\ Existing \subseteq PlanIds
  BY DEF TypeInv, TypeOK, Existing, Settled
<1>3. PlansInv'
  BY <1>1, <1>2 DEF PlansInv, Settled
<1>4. Starts \subseteq Starts'
  BY <1>2 DEF Starts, Settled
<1>5. \A t \in Starts : t <= t
  BY StartsAreTimes
<1> QED
  BY <1>3, <1>4, <1>5 DEF Advances

LEMMA RequestsSettle ==
  ASSUME TypeInv, NEW r \in Requests, RequestStep(r)
  PROVE  Settled
<1> USE ConstantFacts DEF Settled, TypeInv, TypeOK, Local, Goto, tables, Unplanned, Undated, Unsold
<1>1. CASE Arrive(r)
  BY <1>1 DEF Arrive
<1>2. CASE Count(r)
  <2>1. \/ UNCHANGED local
        \/ local' = [local EXCEPT ![r].pay = "basic"]
    BY <1>2 DEF Count
  <2>2. \A a \in Actors : local'[a].start = local[a].start /\ local'[a].plan = local[a].plan
    BY <2>1
  <2>3. \E l \in {"paid", "findCredit"} : pc' = [pc EXCEPT ![r] = l]
    BY <1>2 DEF Count
  <2>4. UNCHANGED <<now, plans>>
    BY <1>2 DEF Count
  <2> QED
    BY <2>2, <2>3, <2>4
<1>3. CASE FindCredit(r)
  <2>1. PICK k : local' = [local EXCEPT ![r].pay = "credit", ![r].credit = k]
    BY <1>3 DEF FindCredit
  <2>2. \A a \in Actors : local'[a].start = local[a].start /\ local'[a].plan = local[a].plan
    BY <2>1
  <2> QED
    BY <1>3, <2>2 DEF FindCredit
<1>4. CASE Unpaid(r) \/ NoCustomer(r) \/ Invalid(r) \/ Refuse(r) \/ StoreFails(r)
  BY <1>4 DEF Unpaid, NoCustomer, Invalid, Refuse, StoreFails
<1>5. CASE Spend(r)
  BY <1>5 DEF Spend
<1>6. CASE Check(r)
  <2>1. PICK s : local' = [local EXCEPT ![r].status = s]
    BY <1>6 DEF Check
  <2> QED
    BY <1>6, <2>1 DEF Check
<1>7. CASE Store(r)
  BY <1>7 DEF Store
<1>8. CASE Share(r)
  BY <1>8 DEF Share
<1> QED
  BY <1>1, <1>2, <1>3, <1>4, <1>5, <1>6, <1>7, <1>8 DEF RequestStep

LEMMA OthersSettle ==
  ASSUME TypeInv, (\E p \in Purchases : PurchaseStep(p)) \/ Crash \/ Tick \/ UNCHANGED vars
  PROVE  Settled
<1> USE ConstantFacts DEF Settled, TypeInv, TypeOK, Local, Goto, tables, Unplanned, Undated, Unsold
<1>1. ASSUME NEW p \in Purchases, PurchaseStep(p) PROVE Settled
  <2>1. CASE Buy(p)
    BY <2>1 DEF Buy
  <2>2. CASE Charge(p) \/ RecordOrder(p)
    BY <2>2 DEF Charge, RecordOrder
  <2>3. CASE Grant(p)
    BY <2>3 DEF Grant
  <2> QED
    BY <1>1, <2>1, <2>2, <2>3 DEF PurchaseStep
<1>2. CASE Crash
  BY <1>2 DEF Crash, Over
<1>3. CASE Tick
  BY <1>3 DEF Tick
<1>4. CASE UNCHANGED vars
  BY <1>4 DEF vars
<1> QED
  BY <1>1, <1>2, <1>3, <1>4

(* A cycle is renewed once it has ended, so its new start is the later     *)
(* one.                                                                    *)
LEMMA PlansKeepPlans ==
  ASSUME TypeInv, PlansInv, NEW a \in Actors, PlanStep(a)
  PROVE  PlansInv' /\ Advances
<1>1. /\ now \in Nat /\ a \in PlanIds /\ pc[a] # "idle"
      /\ \A p \in PlanIds : plans[p].start \in Nat /\ plans[p].end \in Nat
      /\ \A b \in Actors : local[b] \in Local
      /\ Existing \subseteq PlanIds /\ Period \in Nat
  BY ConstantFacts DEF TypeInv, TypeOK, Existing, Plan, PlanStep, PlanMissing, PlanCurrent,
                       PlanExpired, MakePlan, RenewPlan
<1>2. \A b \in Actors \ {a} : pc'[b] = pc[b] /\ local'[b] = local[b]
  BY DEF TypeInv, TypeOK, PlanStep, PlanMissing, PlanCurrent, PlanExpired, MakePlan, RenewPlan, Goto
<1>3. ASSUME \A p \in Existing : p \in Existing' /\ plans[p].start <= plans'[p].start,
             local[a].start <= local'[a].start, pc'[a] # "idle"
      PROVE  Advances
  <2> SUFFICES ASSUME NEW t \in Starts PROVE \E u \in Starts' : t <= u
    BY DEF Advances
  <2>1. CASE \E p \in Existing : t = plans[p].start
    BY <1>3, <2>1 DEF Starts
  <2>2. CASE \E b \in Actors : pc[b] # "idle" /\ t = local[b].start
    <3>1. PICK b \in Actors : pc[b] # "idle" /\ t = local[b].start
      BY <2>2
    <3>2. pc'[b] # "idle" /\ t <= local'[b].start
      BY <1>1, <1>2, <1>3, <3>1 DEF Local
    <3> QED
      BY <3>2 DEF Starts
  <2> QED
    BY <2>1, <2>2 DEF Starts
<1>4. CASE PlanMissing(a)
  <2>1. /\ plans' = plans /\ now' = now /\ pc[a] = "readPlan" /\ pc'[a] = "makePlan"
        /\ local'[a].start = now
    BY <1>1, <1>4 DEF PlanMissing, Goto, tables, TypeInv, TypeOK, Local
  <2>2. local[a].start = 0 /\ ~plans[a].exists
    BY <2>1 DEF PlansInv, Undated, Unplanned
  <2>3. Existing' = Existing
    BY <2>1 DEF Existing
  <2>4. PlansInv'
    BY <1>2, <2>1, <2>2, <2>3 DEF PlansInv, Undated, Unplanned, Unsold
  <2>5. \A p \in Existing : plans[p].start <= plans[p].start
    BY <1>1
  <2> QED
    BY <1>1, <1>3, <2>1, <2>2, <2>3, <2>4, <2>5
<1>5. CASE PlanCurrent(a)
  <2>1. PICK p \in Existing : local' = [local EXCEPT ![a].start = plans[p].start, ![a].plan = p]
    BY <1>5 DEF PlanCurrent
  <2>2. /\ plans' = plans /\ now' = now /\ pc[a] = "readPlan" /\ pc'[a] \in {"count", "done"}
        /\ local'[a].start = plans[p].start
    BY <1>1, <1>5, <2>1 DEF PlanCurrent, Goto, tables, TypeInv, TypeOK, Local
  <2>3. local[a].start = 0
    BY <2>2 DEF PlansInv, Undated
  <2>4. Existing' = Existing
    BY <2>2 DEF Existing
  <2>5. PlansInv'
    BY <1>2, <2>2, <2>4 DEF PlansInv, Undated, Unplanned, Unsold
  <2>6. local[a].start <= local'[a].start /\ \A q \in Existing : plans[q].start <= plans[q].start
    BY <1>1, <2>2, <2>3
  <2> QED
    BY <1>3, <2>2, <2>4, <2>5, <2>6
<1>6. CASE PlanExpired(a)
  <2>1. PICK p \in Existing : plans[p].end <= now /\ local' = [local EXCEPT ![a].plan = p]
    BY <1>6 DEF PlanExpired
  <2>2. /\ plans' = plans /\ now' = now /\ pc[a] = "readPlan" /\ pc'[a] = "renewPlan"
        /\ local'[a].plan = p /\ local'[a].start = local[a].start
    BY <1>1, <1>6, <2>1 DEF PlanExpired, Goto, tables, TypeInv, TypeOK, Local
  <2>3. plans[p].start <= now
    BY <1>1, <2>1 DEF PlansInv
  <2>4. Existing' = Existing
    BY <2>2 DEF Existing
  <2>5. PlansInv'
    BY <1>2, <2>2, <2>3, <2>4 DEF PlansInv, Undated, Unplanned, Unsold
  <2>6. local[a].start <= local[a].start /\ \A q \in Existing : plans[q].start <= plans[q].start
    BY <1>1 DEF Local
  <2> QED
    BY <1>3, <2>2, <2>4, <2>5, <2>6
<1>7. CASE MakePlan(a)
  <2>1. /\ pc[a] = "makePlan" /\ pc'[a] \in {"count", "done"} /\ now' = now + 1
        /\ plans' = [plans EXCEPT ![a] = NewPlan(now)] /\ local'[a].start = local[a].start
    BY <1>1, <1>7 DEF MakePlan, Goto, TypeInv, TypeOK, Local
  <2>2. ~plans[a].exists
    BY <2>1 DEF PlansInv, Unplanned
  <2>3. /\ plans'[a] = NewPlan(now) /\ \A p \in PlanIds \ {a} : plans'[p] = plans[p]
    BY <1>1, <2>1 DEF TypeInv, TypeOK
  <2>4. Existing' = Existing \cup {a} /\ a \notin Existing
    BY <1>1, <2>2, <2>3 DEF Existing, NewPlan
  <2>5. PlansInv'
    <3>1. plans'[a].start <= plans'[a].end
      BY <1>1, <2>3 DEF NewPlan
    <3>2. \A p \in Existing' : plans'[p].start <= plans'[p].end
      BY <1>1, <2>3, <2>4, <3>1 DEF PlansInv
    <3>3. \A b \in Actors : pc'[b] \in Unplanned => ~plans'[b].exists
      BY <1>2, <2>1, <2>3, ConstantFacts DEF PlansInv, Unplanned, Unsold
    <3>4. \A b \in Actors : pc'[b] \in Undated => local'[b].start = 0
      BY <1>2, <2>1 DEF PlansInv, Undated, Unsold
    <3>5. ASSUME NEW b \in Actors, pc'[b] = "renewPlan"
          PROVE  local'[b].plan \in Existing' /\ plans'[local'[b].plan].start <= now'
      <4>1. b # a /\ local'[b].plan = local[b].plan /\ pc[b] = "renewPlan"
        BY <1>2, <2>1, <3>5
      <4>2. local[b].plan \in Existing /\ plans[local[b].plan].start <= now
        BY <4>1 DEF PlansInv
      <4> QED
        BY <1>1, <2>1, <2>3, <2>4, <4>1, <4>2
    <3> QED
      BY <3>2, <3>3, <3>4, <3>5 DEF PlansInv
  <2>6. /\ local[a].start <= local'[a].start
        /\ \A p \in Existing : p \in Existing' /\ plans[p].start <= plans'[p].start
    BY <1>1, <2>1, <2>3, <2>4 DEF Local
  <2> QED
    BY <1>3, <2>1, <2>5, <2>6
<1>8. CASE RenewPlan(a)
  <2> DEFINE p == local[a].plan
  <2>1. pc[a] = "renewPlan" /\ pc'[a] \in {"count", "done"} /\ now' = now + 1
    BY <1>8 DEF RenewPlan, Goto, TypeInv, TypeOK
  <2>2. p \in Existing /\ plans[p].start <= now /\ local[a].start = 0
    BY <2>1 DEF PlansInv, Undated
  <2>3. local'[a].start = now /\ local'[a].plan = p
    BY <1>1, <1>8 DEF RenewPlan, TypeInv, TypeOK, Local
  <2>4. /\ plans'[p].start = now /\ plans'[p].end = now + Period
        /\ plans'[p].exists = plans[p].exists
        /\ \A q \in PlanIds \ {p} : plans'[q] = plans[q]
    BY <1>1, <1>8, <2>2 DEF RenewPlan, TypeInv, TypeOK, Plan
  <2> HIDE DEF p
  <2>5. Existing' = Existing
    BY <1>1, <2>2, <2>4 DEF Existing
  <2>6. PlansInv'
    <3>1. \A q \in Existing' : plans'[q].start <= plans'[q].end
      BY <1>1, <2>4, <2>5 DEF PlansInv
    <3>2. \A b \in Actors : pc'[b] \in Unplanned => ~plans'[b].exists
      <4>1. \A b \in Actors : plans'[b].exists = plans[b].exists
        BY <2>4, ConstantFacts
      <4> QED
        BY <1>2, <2>1, <4>1 DEF PlansInv, Unplanned, Unsold
    <3>3. \A b \in Actors : pc'[b] \in Undated => local'[b].start = 0
      BY <1>2, <2>1 DEF PlansInv, Undated, Unsold
    <3>4. ASSUME NEW b \in Actors, pc'[b] = "renewPlan"
          PROVE  local'[b].plan \in Existing' /\ plans'[local'[b].plan].start <= now'
      <4>1. b # a /\ local'[b].plan = local[b].plan /\ pc[b] = "renewPlan"
        BY <1>2, <2>1, <3>4
      <4>2. local[b].plan \in Existing /\ plans[local[b].plan].start <= now
        BY <4>1 DEF PlansInv
      <4> QED
        BY <1>1, <2>1, <2>4, <2>5, <4>1, <4>2
    <3> QED
      BY <3>1, <3>2, <3>3, <3>4 DEF PlansInv
  <2>7. /\ local[a].start <= local'[a].start
        /\ \A q \in Existing : q \in Existing' /\ plans[q].start <= plans'[q].start
    BY <1>1, <2>2, <2>3, <2>4, <2>5
  <2> QED
    BY <1>3, <2>1, <2>6, <2>7
<1> QED
  BY <1>4, <1>5, <1>6, <1>7, <1>8 DEF PlanStep
-----------------------------------------------------------------------------
(* Requests, what they have emitted and what they are about to.            *)

(* A step that emits at most what was counted already.                     *)
Emits ==
  /\ IsFiniteSet(Issued')
  /\ \A s \in Nat : Emitted(s) \subseteq Emitted(s)' /\ Charged(s)' \subseteq Charged(s)

(* A step in which no request finds its quota gone or forgets its cycle.   *)
Insists ==
  \A r \in Requests : PastQuota(r)' => PastQuota(r) /\ local'[r].start = local[r].start

LEMMA FewInMemory ==
  ASSUME Counted, InFlight' \in SUBSET InFlight
  PROVE  AtMost(MaxInFlight, InFlight')
BY SizesAssumption, SubsetAtMost DEF Counted

LEMMA QuotaStaysGone ==
  ASSUME TypeInv, QuotaGone, Emits, Insists
  PROVE  QuotaGone'
<1> SUFFICES ASSUME NEW r \in Requests, PastQuota(r)'
             PROVE  ~Unlimited /\ Cardinality(Emitted(local[r].start)') >= Quota
  BY DEF QuotaGone
<1>1. local[r].start \in Nat /\ Quota \in Nat
  BY ConstantFacts DEF TypeInv, TypeOK, Local
<1>2. PICK s \in Nat : s = local[r].start /\ s = local'[r].start
  BY <1>1 DEF Insists
<1>3. ~Unlimited /\ Cardinality(Emitted(s)) >= Quota
  BY <1>2 DEF QuotaGone, Insists
<1>4. /\ Emitted(s) \subseteq Emitted(s)' /\ Emitted(s)' \subseteq Issued'
      /\ IsFiniteSet(Issued')
  BY DEF Emits, Emitted
<1>5. IsFiniteSet(Emitted(s)')
  BY <1>4, FS_Subset
<1>6. /\ Cardinality(Emitted(s)) \in Nat /\ Cardinality(Emitted(s)') \in Nat
      /\ Cardinality(Emitted(s)) <= Cardinality(Emitted(s)')
  BY <1>4, <1>5, FS_Subset, FS_CardinalityType
<1>7. Emitted(local[r].start)' = Emitted(s)'
  BY <1>2 DEF Emitted
<1> QED
  BY <1>1, <1>3, <1>6, <1>7

(* What bounds the cycles after a step bounded them before.                *)
LEMMA LatestBefore ==
  ASSUME TypeInv, TypeInv', Advances, NEW s \in Nat, Latest(s)'
  PROVE  Latest(s)
<1> SUFFICES ASSUME NEW t \in Starts PROVE t <= s
  BY DEF Latest
<1>1. PICK u \in Starts' : t <= u
  BY DEF Advances
<1>2. u <= s
  BY DEF Latest
<1>3. t \in Nat /\ u \in Nat
  <2>1. Starts' \subseteq Nat
    BY ConstantFacts DEF TypeInv, TypeOK, Starts, Existing, Plan, Local
  <2> QED
    BY <2>1, StartsAreTimes
<1> QED
  BY <1>1, <1>2, <1>3

LEMMA OvershootStays ==
  ASSUME TypeInv, TypeInv', Overshoot, Advances, Emits
  PROVE  Overshoot'
<1> SUFFICES ASSUME NEW s \in Nat, Latest(s)', ~Unlimited, Quota > 0
             PROVE  AtMost(Quota + MaxInFlight - 1, Charged(s)')
  BY DEF Overshoot
<1>1. AtMost(Quota + MaxInFlight - 1, Charged(s))
  BY LatestBefore DEF Overshoot
<1>2. Charged(s)' \in SUBSET Charged(s) /\ Quota + MaxInFlight - 1 \in Nat
  BY SizesAssumption DEF Emits
<1> QED
  BY <1>1, <1>2, SubsetAtMost

LEMMA EmitsKeeps ==
  ASSUME TypeInv, TypeInv', QuotaInv, PlansInv', Advances, Emits, Insists,
         InFlight' \in SUBSET InFlight
  PROVE  QuotaInv'
BY FewInMemory, QuotaStaysGone, OvershootStays DEF QuotaInv, Counted, Emits

(* A step that issues nothing and leaves the pays of requests alone.       *)
LEMMA UnissuedEmits ==
  ASSUME Counted, UNCHANGED certs, Pending' \subseteq Pending
  PROVE  Emits
<1>1. Issued' = Issued /\ \A s \in Nat : Emitted(s)' = Emitted(s) /\ Basic(s)' = Basic(s)
  BY DEF Issued, Emitted, Basic
<1> QED
  BY <1>1 DEF Emits, Charged, Counted

LEMMA PlansKeepQuota ==
  ASSUME TypeInv, TypeInv', WalletInv, QuotaInv, NEW a \in Actors, PlanStep(a)
  PROVE  QuotaInv'
<1>1. PlansInv' /\ Advances
  BY PlansKeepPlans DEF QuotaInv
<1>2. /\ UNCHANGED certs /\ local'[a].pay = local[a].pay
      /\ \A b \in Actors \ {a} : pc'[b] = pc[b] /\ local'[b] = local[b]
  <2> USE ConstantFacts DEF TypeInv, TypeOK, Local, Goto, tables
  <2>1. CASE PlanMissing(a)
    BY <2>1 DEF PlanMissing
  <2>2. CASE PlanCurrent(a)
    <3>1. PICK p \in Existing : local' = [local EXCEPT ![a].start = plans[p].start, ![a].plan = p]
      BY <2>2 DEF PlanCurrent
    <3> QED
      BY <2>2, <3>1 DEF PlanCurrent
  <2>3. CASE PlanExpired(a)
    BY <2>3 DEF PlanExpired
  <2>4. CASE MakePlan(a) \/ RenewPlan(a)
    BY <2>4 DEF MakePlan, RenewPlan
  <2> QED
    BY <2>1, <2>2, <2>3, <2>4 DEF PlanStep
<1>3. /\ pc[a] \in {"readPlan", "makePlan", "renewPlan"}
      /\ pc'[a] \in {"makePlan", "renewPlan", "count", "done"}
  BY DEF TypeInv, TypeOK, PlanStep, PlanMissing, PlanCurrent, PlanExpired, MakePlan, RenewPlan, Goto
<1>4. Pending' \subseteq Pending /\ InFlight' \in SUBSET InFlight
  BY <1>2, <1>3, ConstantFacts DEF Pending, InFlight, Over
<1>5. Insists
  <2> SUFFICES ASSUME NEW r \in Requests, PastQuota(r)'
               PROVE  PastQuota(r) /\ local'[r].start = local[r].start
    BY DEF Insists
  <2>1. CASE r = a
    <3>1. local[a].pay = "none"
      BY <1>3, <2>1 DEF WalletInv, HandlerInv, NoChoiceYet, Early
    <3> QED
      BY <1>2, <1>3, <2>1, <3>1 DEF PastQuota
  <2>2. CASE r # a
    BY <1>2, <2>2, ConstantFacts DEF PastQuota
  <2> QED
    BY <2>1, <2>2
<1>6. Emits
  BY <1>2, <1>4, UnissuedEmits DEF QuotaInv
<1> QED
  BY <1>1, <1>4, <1>5, <1>6, EmitsKeeps

LEMMA OthersKeepQuota ==
  ASSUME TypeInv, TypeInv', QuotaInv,
         (\E p \in Purchases : PurchaseStep(p)) \/ Crash \/ Tick \/ UNCHANGED vars
  PROVE  QuotaInv'
<1>1. PlansInv' /\ Advances
  BY OthersSettle, SettledKeepsPlans DEF QuotaInv
<1>2. /\ UNCHANGED <<certs, local>>
      /\ \A r \in Requests : pc'[r] = pc[r] \/ pc'[r] = "failed"
  <2>1. ASSUME NEW p \in Purchases, PurchaseStep(p)
        PROVE  UNCHANGED <<certs, local>> /\ \A r \in Requests : pc'[r] = pc[r]
    BY <2>1, ConstantFacts
       DEF PurchaseStep, Buy, Charge, RecordOrder, Grant, Goto, tables, TypeInv, TypeOK
  <2>2. CASE Crash
    BY <2>2, ConstantFacts DEF Crash, tables
  <2>3. CASE Tick \/ UNCHANGED vars
    BY <2>3 DEF Tick, tables, vars
  <2> QED
    BY <2>1, <2>2, <2>3
<1>3. Pending' \subseteq Pending /\ InFlight' \in SUBSET InFlight /\ Insists
  BY <1>2 DEF Pending, InFlight, Over, Insists, PastQuota
<1> QED
  BY <1>1, <1>2, <1>3, EmitsKeeps, UnissuedEmits DEF QuotaInv

LEMMA ArriveKeepsQuota ==
  ASSUME TypeInv, TypeInv', WalletInv, QuotaInv, NEW r \in Requests, Arrive(r)
  PROVE  QuotaInv'
<1>1. PlansInv' /\ Advances
  BY RequestsSettle, SettledKeepsPlans DEF QuotaInv, RequestStep
<1>2. /\ UNCHANGED <<certs, local>> /\ pc[r] = "idle" /\ pc'[r] \in {"paid", "readPlan"}
      /\ \A q \in Requests \ {r} : pc'[q] = pc[q]
      /\ Cardinality(InFlight) < MaxInFlight
  BY ConstantFacts DEF Arrive, Goto, tables, TypeInv, TypeOK
<1>3. local[r].pay = "none"
  BY <1>2 DEF WalletInv, HandlerInv, NoChoiceYet, Early
<1>4. Pending' \subseteq Pending /\ Insists
  BY <1>2, <1>3 DEF Pending, Insists, PastQuota
<1>5. InFlight' = InFlight \cup {r} /\ r \notin InFlight
  BY <1>2 DEF InFlight, Over
<1>6. AtMost(MaxInFlight, InFlight')
  <2>1. IsFiniteSet(InFlight) /\ Cardinality(InFlight) \in Nat
    BY FS_CardinalityType DEF QuotaInv, Counted, AtMost
  <2>2. /\ IsFiniteSet(InFlight \cup {r})
        /\ Cardinality(InFlight \cup {r}) = Cardinality(InFlight) + 1
    BY <1>5, <2>1, FS_AddElement
  <2> QED
    BY <1>2, <1>5, <2>1, <2>2, SizesAssumption DEF AtMost
<1>7. Emits
  BY <1>2, <1>4, UnissuedEmits DEF QuotaInv
<1> QED
  BY <1>1, <1>4, <1>6, <1>7, QuotaStaysGone, OvershootStays DEF QuotaInv, Counted, Emits

(* Whoever finds quota left counted all that the latest cycle had; what is *)
(* pending besides are other requests in memory.                           *)
LEMMA CountKeepsQuota ==
  ASSUME TypeInv, TypeInv', WalletInv, QuotaInv, NEW r \in Requests, Count(r)
  PROVE  QuotaInv'
<1> DEFINE n == Cardinality(Emitted(local[r].start))
<1>1. PlansInv' /\ Advances
  BY RequestsSettle, SettledKeepsPlans DEF QuotaInv, RequestStep
<1>2. /\ UNCHANGED certs /\ pc[r] = "count"
      /\ \A q \in Requests \ {r} : pc'[q] = pc[q] /\ local'[q] = local[q]
  <2>1. /\ local' = local \/ local' = [local EXCEPT ![r].pay = "basic"]
        /\ \E l \in {"paid", "findCredit"} : pc' = [pc EXCEPT ![r] = l]
        /\ UNCHANGED certs /\ pc[r] = "count"
    BY Zenon DEF Count, Goto, tables
  <2> QED
    BY <2>1, ConstantFacts DEF TypeInv, TypeOK
<1>3. /\ local[r].start \in Nat /\ local[r].pay = "none" /\ Quota \in Nat
      /\ n \in Nat /\ Quota - n \in Int
  <2>1. PICK s \in Nat : s = local[r].start
    BY ConstantFacts DEF TypeInv, TypeOK, Local
  <2>2. Cardinality(Emitted(s)) \in Nat
    BY EmittedFinite DEF QuotaInv
  <2> QED
    BY <1>2, <2>1, <2>2, ConstantFacts DEF WalletInv, HandlerInv, NoChoiceYet, Early
<1>4. InFlight' = InFlight /\ r \in InFlight
  BY <1>2 DEF InFlight, Over, Count, Goto, TypeInv, TypeOK
<1>5. CASE ~HasQuota(n)
  <2>0. local' = local /\ pc' = [pc EXCEPT ![r] = "findCredit"]
    BY <1>5, Zenon DEF Count, Goto
  <2>1. pc'[r] = "findCredit" /\ ~Unlimited /\ n >= Quota /\ local' = local
    BY <1>3, <1>5, <2>0, ConstantFacts DEF HasQuota, TypeInv, TypeOK
  <2>2. Pending' \subseteq Pending
    BY <1>2, <2>1 DEF Pending
  <2>3. Emits
    BY <1>2, <2>2, UnissuedEmits DEF QuotaInv
  <2>4. QuotaGone'
    BY <1>2, <2>1 DEF QuotaInv, QuotaGone, PastQuota, Emitted, Issued
  <2> QED
    BY <1>1, <1>4, <2>3, <2>4, OvershootStays DEF QuotaInv, Counted, Emits
<1>6. CASE HasQuota(n)
  <2>0. local' = [local EXCEPT ![r].pay = "basic"] /\ pc' = [pc EXCEPT ![r] = "paid"]
    BY <1>6, Zenon DEF Count, Goto
  <2>1. local'[r].pay = "basic" /\ local'[r].start = local[r].start /\ pc'[r] = "paid"
    BY <2>0, ConstantFacts DEF TypeInv, TypeOK, Local
  <2>2. /\ Issued' = Issued
        /\ \A s \in Nat : Emitted(s)' = Emitted(s) /\ Basic(s)' = Basic(s)
    BY <1>2 DEF Issued, Emitted, Basic
  <2>3. QuotaGone'
    BY <1>2, <2>1 DEF QuotaInv, QuotaGone, PastQuota, Emitted, Issued
  <2>4. Counted'
    BY <1>4, <2>2 DEF QuotaInv, Counted
  <2>5. ASSUME NEW s \in Nat, Latest(s)', ~Unlimited, Quota > 0
        PROVE  AtMost(Quota + MaxInFlight - 1, Charged(s)')
    <3>1. Latest(s)
      BY <1>1, <2>5, LatestBefore
    <3>2. local[r].start <= s
      BY <1>2, <3>1, ConstantFacts DEF Latest, Starts
    <3>3. PICK t \in Nat : t = local[r].start
      BY <1>3
    <3>4. /\ Cardinality(Emitted(t)) < Quota /\ t <= s
          /\ Cardinality(Emitted(t)) \in Nat
      <4>1. Cardinality(Emitted(t)) \in Nat
        BY EmittedFinite DEF QuotaInv
      <4> QED
        BY <1>3, <1>6, <2>5, <3>2, <3>3, <4>1 DEF HasQuota
    <3>5. Basic(s) \subseteq Emitted(t)
      <4>1. \A q \in Issued : certs[q].createdAt \in Nat
        BY DEF TypeInv, TypeOK, Issued, Cert
      <4> QED
        BY <3>4, <4>1 DEF Basic, Emitted
    <3>6. IsFiniteSet(Emitted(t)) /\ IsFiniteSet(Basic(s))
      BY EmittedFinite DEF QuotaInv
    <3>7. Cardinality(Basic(s)) \in Nat /\ Cardinality(Basic(s)) < Quota
      BY <1>3, <3>4, <3>5, <3>6, FS_Subset, FS_CardinalityType
    <3>8. /\ IsFiniteSet(InFlight) /\ Cardinality(InFlight) <= MaxInFlight
          /\ Cardinality(InFlight) \in Nat /\ MaxInFlight \in Nat
      BY SizesAssumption, FS_CardinalityType DEF QuotaInv, Counted, AtMost
    <3>9. /\ IsFiniteSet(Basic(s) \cup InFlight)
          /\ Cardinality(Basic(s) \cup InFlight) <= Cardinality(Basic(s)) + Cardinality(InFlight)
          /\ Cardinality(Basic(s) \cup InFlight) \in Nat
      <4>1. IsFiniteSet(Basic(s) \cap InFlight)
        BY <3>6, FS_Subset
      <4>2. Cardinality(Basic(s) \cap InFlight) \in Nat
        BY <4>1, FS_CardinalityType
      <4>3. IsFiniteSet(Basic(s) \cup InFlight)
        BY <3>6, <3>8, FS_Union
      <4>4. Cardinality(Basic(s) \cup InFlight) \in Nat
        BY <4>3, FS_CardinalityType
      <4>5. Cardinality(Basic(s) \cup InFlight)
              = Cardinality(Basic(s)) + Cardinality(InFlight) - Cardinality(Basic(s) \cap InFlight)
        BY <3>6, <3>8, FS_Union
      <4> QED
        BY <3>7, <3>8, <4>2, <4>3, <4>4, <4>5
    <3>10. AtMost(Quota + MaxInFlight - 1, Basic(s) \cup InFlight)
      BY <1>3, <3>7, <3>8, <3>9 DEF AtMost
    <3>11. Charged(s)' \in SUBSET (Basic(s) \cup InFlight)
      <4>1. Pending' \subseteq InFlight'
        BY DEF Pending, InFlight, Over
      <4> QED
        BY <1>4, <2>2, <4>1 DEF Charged
    <3>12. Quota + MaxInFlight - 1 \in Nat
      BY SizesAssumption
    <3> QED
      BY <3>10, <3>11, <3>12, SubsetAtMost
  <2> QED
    BY <1>1, <2>3, <2>4, <2>5 DEF QuotaInv, Overshoot
<1> QED
  BY <1>5, <1>6

(* The other steps of a request that issue nothing.                        *)
LEMMA UnissuingKeepsQuota ==
  ASSUME TypeInv, TypeInv', QuotaInv, NEW r \in Requests,
         \/ FindCredit(r) \/ Unpaid(r) \/ NoCustomer(r) \/ Invalid(r) \/ Spend(r)
         \/ Refuse(r) \/ Check(r) \/ StoreFails(r)
  PROVE  QuotaInv'
<1>1. PlansInv' /\ Advances
  BY RequestsSettle, SettledKeepsPlans DEF QuotaInv, RequestStep
<1>2. /\ UNCHANGED certs /\ pc[r] \notin Over /\ local'[r].start = local[r].start
      /\ \A q \in Requests \ {r} : pc'[q] = pc[q] /\ local'[q] = local[q]
      /\ \/ pc[r] = "findCredit" /\ local'[r].pay = "credit" /\ pc'[r] = "paid"
         \/ local'[r].pay = local[r].pay /\ pc'[r] = "failed"
         \/ local'[r].pay = local[r].pay /\ pc[r] = "paid" /\ pc'[r] = "spent"
         \/ local'[r].pay = local[r].pay /\ pc[r] = "spent" /\ pc'[r] = "checked"
  <2> USE ConstantFacts DEF TypeInv, TypeOK, Local, Goto, tables, Over
  <2>1. CASE FindCredit(r)
    <3>1. PICK k : local' = [local EXCEPT ![r].pay = "credit", ![r].credit = k]
      BY <2>1 DEF FindCredit
    <3>2. /\ local'[r].pay = "credit" /\ local'[r].start = local[r].start
          /\ \A q \in Requests \ {r} : local'[q] = local[q]
      BY <3>1
    <3>3. UNCHANGED certs /\ pc[r] = "findCredit" /\ pc' = [pc EXCEPT ![r] = "paid"]
      BY <2>1 DEF FindCredit
    <3> QED
      BY <3>2, <3>3
  <2>2. CASE Unpaid(r) \/ NoCustomer(r) \/ Invalid(r) \/ Refuse(r) \/ StoreFails(r)
    BY <2>2 DEF Unpaid, NoCustomer, Invalid, Refuse, StoreFails
  <2>3. CASE Spend(r)
    BY <2>3 DEF Spend
  <2>4. CASE Check(r)
    <3>1. PICK s : local' = [local EXCEPT ![r].status = s]
      BY <2>4 DEF Check
    <3> QED
      BY <2>4, <3>1 DEF Check
  <2> QED
    BY <2>1, <2>2, <2>3, <2>4
<1>3. Pending' \subseteq Pending /\ InFlight' \in SUBSET InFlight /\ Insists
  BY <1>2 DEF Pending, InFlight, Over, Insists, PastQuota
<1> QED
  BY <1>1, <1>2, <1>3, EmitsKeeps, UnissuedEmits DEF QuotaInv

(* Rows change in nothing that is counted; a new one was about to come.    *)
LEMMA IssuedEmits ==
  ASSUME TypeInv, Counted, NEW r \in Requests,
         \A q \in Issued : certs'[q] # NoCert /\ certs'[q].pay = certs[q].pay
                                              /\ certs'[q].createdAt = certs[q].createdAt,
         \A q \in Requests \ {r} : pc'[q] = pc[q] /\ local'[q] = local[q],
         Issued' \subseteq Issued \cup {r},
         pc'[r] \notin {"paid", "spent", "checked"},
         r \notin Issued => (certs'[r].pay = "basic" => r \in Pending)
  PROVE  Emits
<1>1. IsFiniteSet(Issued')
  <2>1. IsFiniteSet(Issued \cup {r})
    BY FS_AddElement DEF Counted
  <2> QED
    BY <2>1, FS_Subset
<1>2. ASSUME NEW s \in Nat
      PROVE  Emitted(s) \subseteq Emitted(s)' /\ Charged(s)' \subseteq Charged(s)
  <2>1. Emitted(s) \subseteq Emitted(s)'
    BY DEF Emitted, Issued
  <2>2. ASSUME NEW q \in Basic(s)' PROVE q \in Charged(s)
    <3>1. q \in Issued' /\ certs'[q].pay = "basic" /\ certs'[q].createdAt > s
      BY DEF Basic, Emitted
    <3>2. CASE q \in Issued
      BY <3>1, <3>2 DEF Charged, Basic, Emitted
    <3>3. CASE q \notin Issued
      BY <3>1, <3>3 DEF Charged
    <3> QED
      BY <3>2, <3>3
  <2>3. Pending' \subseteq Pending
    BY DEF Pending
  <2> QED
    BY <2>1, <2>2, <2>3 DEF Charged
<1> QED
  BY <1>1, <1>2 DEF Emits

LEMMA StoreKeepsQuota ==
  ASSUME TypeInv, TypeInv', WalletInv, QuotaInv, NEW r \in Requests, Store(r) \/ Share(r)
  PROVE  QuotaInv'
<1>1. PlansInv' /\ Advances
  BY RequestsSettle, SettledKeepsPlans DEF QuotaInv, RequestStep
<1>2. /\ UNCHANGED local /\ pc[r] \in {"checked", "stored"}
      /\ pc'[r] \in {"stored", "done", "failed"}
      /\ \A q \in Requests \ {r} : pc'[q] = pc[q]
  BY ConstantFacts DEF Store, Share, Goto, TypeInv, TypeOK
<1>3. InFlight' \in SUBSET InFlight /\ Insists
  BY <1>2 DEF InFlight, Over, Insists, PastQuota
<1>4. CASE Share(r)
  <2>1. certs[r] \in Cert /\ certs' = [certs EXCEPT ![r].shared = TRUE]
    BY <1>4 DEF Share, TypeInv, StoredCert
  <2>2. /\ certs'[r].pay = certs[r].pay /\ certs'[r].createdAt = certs[r].createdAt
        /\ certs'[r] \in Cert /\ \A q \in Requests \ {r} : certs'[q] = certs[q]
    BY <2>1 DEF Cert, TypeInv, TypeOK
  <2>3. Issued' = Issued /\ r \in Issued
    BY <2>1, <2>2, CertAssumption DEF Issued
  <2>4. Emits
    BY <1>2, <2>2, <2>3, IssuedEmits DEF QuotaInv, Issued
  <2> QED
    BY <1>1, <1>3, <2>4, EmitsKeeps
<1>5. CASE Store(r)
  <2>1. certs[r] = NoCert /\ pc[r] = "checked"
    BY <1>5 DEF Store, WalletInv, HandlerInv, NotYetStored, Final
  <2>2. certs'[r] = NewCert(r)
    BY <1>5 DEF Store, Disconnected
  <2>3. certs'[r].pay = local[r].pay
    BY <2>2 DEF NewCert
  <2>4. ASSUME NEW q \in Requests, q # r
        PROVE  /\ q \in Issued => certs'[q] \in Cert /\ certs'[q].pay = certs[q].pay
                                    /\ certs'[q].createdAt = certs[q].createdAt
               /\ q \notin Issued => certs'[q] = NoCert
    <3>1. certs'[q] = Disconnected(local[r].credit)[q]
      BY <1>5, <2>4 DEF Store, Disconnected
    <3>2. \/ certs'[q] = certs[q]
          \/ q \in Issued /\ certs'[q] = [certs[q] EXCEPT !.credit = NoCredit]
      BY <3>1 DEF Disconnected
    <3>3. q \in Issued => certs[q] \in Cert
      BY DEF Issued, TypeInv, TypeOK
    <3> QED
      BY <3>2, <3>3 DEF Issued, Cert
  <2>5. Issued' \subseteq Issued \cup {r}
    BY <2>4 DEF Issued
  <2>6. certs'[r].pay = "basic" => r \in Pending
    BY <2>1, <2>3 DEF Pending
  <2>7. \A q \in Issued : q # r /\ q \in Requests /\ certs'[q] # NoCert
    BY <2>1, <2>4, CertAssumption DEF Issued
  <2>8. Emits
    BY <1>2, <2>4, <2>5, <2>6, <2>7, IssuedEmits DEF QuotaInv
  <2> QED
    BY <1>1, <1>3, <2>8, EmitsKeeps
<1> QED
  BY <1>4, <1>5

LEMMA QuotaInit == Init => QuotaInv
<1> SUFFICES ASSUME Init PROVE QuotaInv
  OBVIOUS
<1>1. PlansInv
  <2>1. PICK e \in BOOLEAN :
          plans = [p \in PlanIds |-> IF p = SignUp /\ e THEN NewPlan(0)
                                     ELSE [exists |-> FALSE, start |-> 0, end |-> 0]]
    BY DEF Init
  <2>2. \A p \in PlanIds : plans[p].start <= plans[p].end
    BY <2>1, ConstantFacts DEF NewPlan
  <2>3. \A a \in Actors : ~plans[a].exists
    BY <2>1, ConstantFacts, NamesAssumption
  <2>4. \A a \in Actors : pc[a] = "idle" /\ local[a].start = 0
    BY DEF Init, Idle
  <2> QED
    BY <2>2, <2>3, <2>4 DEF PlansInv, Existing
<1>2. Issued = {} /\ InFlight = {} /\ Pending = {}
  BY ConstantFacts DEF Init, Issued, InFlight, Over, Pending
<1>3. /\ IsFiniteSet({}) /\ Cardinality({}) = 0
      /\ MaxInFlight \in Nat \ {0} /\ Quota + MaxInFlight - 1 \in Nat /\ Quota \in Nat
  BY FS_EmptySet, SizesAssumption
<1>4. Counted
  BY <1>2, <1>3 DEF Counted, AtMost
<1>5. QuotaGone
  BY ConstantFacts DEF Init, QuotaGone, PastQuota, Idle
<1>6. Overshoot
  <2>1. \A s \in Nat : Charged(s) = {}
    BY <1>2 DEF Charged, Basic, Emitted
  <2> QED
    BY <1>3, <2>1 DEF Overshoot, AtMost
<1> QED
  BY <1>1, <1>4, <1>5, <1>6 DEF QuotaInv

(* The quota is kept as far as the code keeps it.                          *)
THEOREM QuotaInvariant == Spec => []QuotaInv
<1>1. TypeInv /\ TypeInv' /\ WalletInv /\ QuotaInv /\ [Next]_vars => QuotaInv'
  <2> SUFFICES ASSUME TypeInv, TypeInv', WalletInv, QuotaInv, [Next]_vars PROVE QuotaInv'
    OBVIOUS
  <2>1. ASSUME NEW a \in Actors, PlanStep(a) PROVE QuotaInv'
    BY <2>1, PlansKeepQuota
  <2>2. ASSUME NEW r \in Requests, RequestStep(r) PROVE QuotaInv'
    BY <2>2, ArriveKeepsQuota, CountKeepsQuota, UnissuingKeepsQuota, StoreKeepsQuota
       DEF RequestStep
  <2>3. CASE (\E p \in Purchases : PurchaseStep(p)) \/ Crash \/ Tick \/ UNCHANGED vars
    BY <2>3, OthersKeepQuota
  <2> QED
    BY <2>1, <2>2, <2>3 DEF Next
<1> QED
  BY <1>1, QuotaInit, TypeCorrect, WalletInvariant, PTL DEF Spec

(* A request pays with a credit only if its cycle had used up its quota,   *)
(* and nothing that is issued or renewed later changes that.               *)
THEOREM CreditAfterQuota == Spec => []CreditOnlyAfterQuota
<1>1. QuotaInv => CreditOnlyAfterQuota
  BY DEF QuotaInv, QuotaGone, PastQuota, CreditOnlyAfterQuota
<1> QED
  BY <1>1, QuotaInvariant, PTL

(* In the latest cycle anyone knows of, the quota is exceeded by at most   *)
(* one certificate per other request handled at the same time.             *)
THEOREM OvershootIsBounded == Spec => []OvershootBounded
<1>1. TypeInv /\ QuotaInv => OvershootBounded
  <2> SUFFICES ASSUME TypeInv, QuotaInv, NEW s \in Starts, \A t \in Starts : t <= s,
                      ~Unlimited, Quota > 0
               PROVE  Cardinality(Basic(s)) <= Quota + MaxInFlight - 1
    BY DEF OvershootBounded, Basic
  <2>1. s \in Nat
    BY StartsAreTimes
  <2>2. AtMost(Quota + MaxInFlight - 1, Charged(s)) /\ Quota + MaxInFlight - 1 \in Nat
    BY <2>1, SizesAssumption DEF QuotaInv, Overshoot, Latest
  <2>3. Basic(s) \in SUBSET Charged(s)
    BY DEF Charged
  <2>4. AtMost(Quota + MaxInFlight - 1, Basic(s))
    BY <2>2, <2>3, SubsetAtMost
  <2> QED
    BY <2>4 DEF AtMost
<1> QED
  BY <1>1, TypeCorrect, QuotaInvariant, PTL

-----------------------------------------------------------------------------
(* Where spent credits went.                                               *)

Spent == {"spent", "checked", "stored", "done", "failed"}

(* A credit is spent by the request that found it, which keeps it, whether *)
(* or not it ever inserts its certificate.                                 *)
THEOREM SpentCreditsExplained == Spec => []UsedCreditsAccountedFor
<1>1. Init => UsedCreditsAccountedFor
  BY DEF Init, UsedCreditsAccountedFor
<1>2. TypeInv /\ WalletInv /\ UsedCreditsAccountedFor /\ [Next]_vars => UsedCreditsAccountedFor'
  <2> SUFFICES ASSUME TypeInv, WalletInv, UsedCreditsAccountedFor, [Next]_vars,
                      NEW k \in Credits, credits'[k] = "used"
               PROVE  \E r \in Requests : /\ local'[r].credit = k /\ local'[r].pay = "credit"
                                          /\ pc'[r] \in Spent
    BY DEF UsedCreditsAccountedFor, Spent
  <2>1. ASSUME NEW r \in Requests, local[r].credit = k, local[r].pay = "credit", pc[r] \in Spent
        PROVE  local'[r].credit = k /\ local'[r].pay = "credit" /\ pc'[r] \in Spent
    <3> USE <2>1, ConstantFacts DEF TypeInv, TypeOK, Local, Goto, tables, Spent
    <3>1. ASSUME NEW a \in Actors, PlanStep(a)
          PROVE  local'[r] = local[r] /\ pc'[r] = pc[r]
      BY <3>1 DEF PlanStep, PlanMissing, PlanCurrent, PlanExpired, MakePlan, RenewPlan
    <3>2. ASSUME NEW q \in Requests, RequestStep(q)
          PROVE  /\ local'[r].credit = local[r].credit /\ local'[r].pay = local[r].pay
                 /\ pc'[r] \in Spent
      <4>1. CASE q # r
        BY <3>2, <4>1 DEF RequestStep, Arrive, Count, FindCredit, Unpaid, NoCustomer, Invalid,
                          Spend, Refuse, Check, Store, StoreFails, Share
      <4>2. CASE q = r
        <5>1. CASE Check(r)
          <6>1. PICK s : local' = [local EXCEPT ![r].status = s]
            BY <5>1 DEF Check
          <6> QED
            BY <5>1, <6>1 DEF Check
        <5>2. CASE Refuse(r) \/ Store(r) \/ StoreFails(r) \/ Share(r)
          BY <5>2 DEF Refuse, Store, StoreFails, Share
        <5> QED
          BY <3>2, <4>2, <5>1, <5>2 DEF RequestStep, Arrive, Count, FindCredit, Unpaid,
                                        NoCustomer, Invalid, Spend
      <4> QED
        BY <4>1, <4>2
    <3>3. ASSUME NEW p \in Purchases, PurchaseStep(p)
          PROVE  local' = local /\ pc'[r] = pc[r]
      BY <3>3 DEF PurchaseStep, Buy, Charge, RecordOrder, Grant
    <3>4. CASE Crash \/ Tick \/ UNCHANGED vars
      BY <3>4 DEF Crash, Tick, vars, Over
    <3> QED
      BY <3>1, <3>2, <3>3, <3>4 DEF Next
  <2>2. CASE credits[k] = "used"
    BY <2>1, <2>2 DEF UsedCreditsAccountedFor, Spent
  <2>3. CASE credits[k] # "used"
    <3>1. PICK r \in Requests : Spend(r)
      <4>1. ASSUME NEW a \in Actors, PlanStep(a) PROVE FALSE
        BY <2>3, <4>1 DEF PlanStep, PlanMissing, PlanCurrent, PlanExpired, MakePlan, RenewPlan,
                          tables
      <4>2. ASSUME NEW p \in Purchases, PurchaseStep(p) PROVE FALSE
        BY <2>3, <4>2 DEF PurchaseStep, Buy, Charge, RecordOrder, Grant, tables
      <4>3. ASSUME NEW q \in Requests, RequestStep(q), ~Spend(q) PROVE FALSE
        BY <2>3, <4>3 DEF RequestStep, Arrive, Count, FindCredit, Unpaid, NoCustomer, Invalid,
                          Refuse, Check, Store, StoreFails, Share, tables
      <4>4. CASE Crash \/ Tick \/ UNCHANGED vars
        BY <2>3, <4>4 DEF Crash, Tick, tables, vars
      <4> QED
        BY <4>1, <4>2, <4>3, <4>4 DEF Next
    <3>2. local[r].pay = "credit" /\ local[r].credit = k
      BY <2>3, <3>1, CreditFacts DEF Spend, WalletInv, HandlerInv, ChosenCredit, TypeInv, TypeOK
    <3> QED
      BY <3>1, <3>2, ConstantFacts DEF Spend, Goto, Spent, TypeInv, TypeOK
  <2> QED
    BY <2>2, <2>3
<1> QED
  BY <1>1, <1>2, TypeCorrect, WalletInvariant, PTL DEF Spec
=============================================================================
