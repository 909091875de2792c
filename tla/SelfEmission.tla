---------------------------- MODULE SelfEmission ----------------------------
(***************************************************************************)
(* A natural person (PF) issues certificates to himself: POST              *)
(* /certificates/create, and buys credits: POST /payments/order.           *)
(*                                                                         *)
(* One user account, its requests interleaved at every await.  A request   *)
(* is paid by the quota of the user's basic plan while the current cycle   *)
(* has some left, then by the oldest bought credit; the check, the         *)
(* invalidation of the credit and the insertion of the certificate are     *)
(* separate statements outside any transaction.                            *)
(*                                                                         *)
(* The database rows are the variables plans, credits, orders, certs;      *)
(* pc and local are what an in-flight handler holds in its variables.      *)
(***************************************************************************)
EXTENDS Integers, FiniteSets

CONSTANTS Requests,      \* POST /certificates/create requests of the user
          Purchases,     \* POST /payments/order requests of the user
          Amount,        \* dto.purchasedAmount: credits of one purchase
          Quota,         \* emittedCertificatesQuota of the default basic plan
          Unlimited,     \* emittedCertificatesPeriod = QuotaPeriod.unlimited
          Period,        \* length of a plan cycle, in ticks
          MaxInFlight,   \* bound: emission requests handled at the same time
          MaxTick,       \* bound: idle time does not run past this value
          OrderStatuses, \* what the gateway may answer: "paid", "refused"
          SignUp,        \* the UserPlans row written at sign-up
          NoPlan,        \* an id no BasicPlanSubscriptions row has
          NoCredit,      \* no credit
          NoCert         \* no certificate row

Credits == Purchases \X (1 .. Amount)
Actors  == Requests \cup Purchases
PlanIds == Actors \cup {SignUp}

ASSUME SizesAssumption ==
         /\ Amount \in Nat \ {0} /\ Quota \in Nat /\ Period \in Nat \ {0}
         /\ MaxInFlight \in Nat \ {0} /\ MaxTick \in Nat
         /\ Unlimited \in BOOLEAN /\ OrderStatuses \subseteq {"paid", "refused"}

ASSUME NamesAssumption ==
         /\ Requests \cap Purchases = {} /\ SignUp \notin Actors
         /\ NoPlan \notin PlanIds /\ NoCredit \notin Credits

VARIABLES now,       \* the clock
          plans,     \* BasicPlanSubscriptions rows of the user, by plan id
          credits,   \* CertificatesCredits rows: absent, valid or used
          soldAt,    \* createdAt of the credits of a purchase
          orders,    \* what the payment gateway did for a purchase
          recorded,  \* purchases with a PagarmeOrders row
          certs,     \* Certificates rows, by the request that created them
          pc,        \* where the handler of an actor is
          local      \* the variables of the handler of an actor

vars == <<now, plans, credits, soldAt, orders, recorded, certs, pc,
          local>>
tables == <<plans, credits, soldAt, orders, recorded, certs>>

-----------------------------------------------------------------------------
(* Rows and local variables.                                               *)

Pays     == {"none", "basic", "credit"}
Statuses == {"REVIEW", "ENABLED"}

Plan == [exists : BOOLEAN, start : Nat, end : Nat]

Cert == [pay : Pays, plan : PlanIds \cup {NoPlan},
         credit : Credits \cup {NoCredit}, status : Statuses,
         createdAt : Nat, shared : BOOLEAN]

ASSUME CertAssumption == NoCert \notin Cert

Local == [start : Nat, plan : PlanIds \cup {NoPlan}, pay : Pays,
          credit : Credits \cup {NoCredit}, status : Statuses]

Idle == [start |-> 0, plan |-> NoPlan, pay |-> "none",
         credit |-> NoCredit, status |-> "REVIEW"]

PCs == {"idle", "readPlan", "makePlan", "renewPlan", "count", "findCredit",
        "paid", "spent", "checked", "stored", "charge", "record", "grant",
        "done", "failed"}

Over == {"idle", "done", "failed"}      \* not in the server's memory

InFlight == {r \in Requests : pc[r] \notin Over}

Goto(a, l) == pc' = [pc EXCEPT ![a] = l]

Existing == {p \in PlanIds : plans[p].exists}

Issued == {r \in Requests : certs[r] # NoCert}

-----------------------------------------------------------------------------
(* The plan of the user, as seen by an actor (SubscriptionsService).       *)

(* No row for the user: the cycle reported to this actor starts now; the   *)
(* row is created by a later statement.                                    *)
PlanMissing(a) ==
  /\ pc[a] = "readPlan" /\ Existing = {}
  /\ local' = [local EXCEPT ![a].start = now]
  /\ Goto(a, "makePlan")
  /\ UNCHANGED <<now, tables>>

(* findFirst without an order: any row of the user may come back.          *)
PlanCurrent(a) ==
  /\ pc[a] = "readPlan"
  /\ \E p \in Existing :
       /\ plans[p].end > now
       /\ local' = [local EXCEPT ![a].start = plans[p].start, ![a].plan = p]
  /\ Goto(a, IF a \in Requests THEN "count" ELSE "done")
  /\ UNCHANGED <<now, tables>>

PlanExpired(a) ==
  /\ pc[a] = "readPlan"
  /\ \E p \in Existing :
       /\ plans[p].end <= now
       /\ local' = [local EXCEPT ![a].plan = p]
  /\ Goto(a, "renewPlan")
  /\ UNCHANGED <<now, tables>>

(* Mutant: a cycle dated backwards.                                        *)
PastPlan(t) == [exists |-> TRUE, start |-> t - Period, end |-> t]

(* The Date stored as cycleStart is the object that setDate(+30) moves to  *)
(* the end of the cycle while cycleEnd is computed: both are the end.      *)
NewPlan(t) == [exists |-> TRUE, start |-> t + Period, end |-> t + Period]

(* The id returned is the one of the UserPlans row, which no               *)
(* BasicPlanSubscriptions row has.                                         *)
MakePlan(a) ==
  /\ pc[a] = "makePlan"
  /\ plans' = [plans EXCEPT ![a] = NewPlan(now)]
  /\ local' = [local EXCEPT ![a].plan = NoPlan]
  /\ Goto(a, IF a \in Requests THEN "count" ELSE "done")
  /\ now' = now + 1
  /\ UNCHANGED <<credits, soldAt, orders, recorded, certs>>

(* Whatever has happened to the row since it was read is overwritten.      *)
RenewPlan(a) ==
  /\ pc[a] = "renewPlan"
  /\ plans' = [plans EXCEPT ![local[a].plan].start = now,
                            ![local[a].plan].end = now + Period]
  /\ local' = [local EXCEPT ![a].start = now]
  /\ Goto(a, IF a \in Requests THEN "count" ELSE "done")
  /\ now' = now + 1
  /\ UNCHANGED <<credits, soldAt, orders, recorded, certs>>

-----------------------------------------------------------------------------
(* POST /certificates/create.                                              *)

(* The guard loads the user; freeCertificates is read once, here.  An      *)
(* administrator may toggle it at any time, so either value is found.      *)
Arrive(r) ==
  /\ pc[r] = "idle" /\ Cardinality(InFlight) < MaxInFlight
  /\ \E l \in {"paid", "readPlan"} : Goto(r, l)
  /\ UNCHANGED <<now, tables, local>>

(* Certificates counted against a cycle: all but the paid-by-credit ones.  *)
Emitted(start) ==
  {r \in Issued : certs[r].pay # "credit" /\ certs[r].createdAt > start}

(* Mutants: the quota compared one too late, and one too early.            *)
QuotaOneLate(n)  == Unlimited \/ Quota - n >= 0
QuotaOneEarly(n) == Unlimited \/ Quota - n > 1

HasQuota(n) == Unlimited \/ Quota - n > 0

Count(r) ==
  /\ pc[r] = "count"
  /\ IF HasQuota(Cardinality(Emitted(local[r].start)))
     THEN /\ local' = [local EXCEPT ![r].pay = "basic"]
          /\ Goto(r, "paid")
     ELSE /\ Goto(r, "findCredit")
          /\ UNCHANGED local
  /\ UNCHANGED <<now, tables>>

Valid == {k \in Credits : credits[k] = "valid"}

(* Mutant: the newest credit first.                                        *)
NewestValid == {k \in Valid : \A j \in Valid : soldAt[k[1]] >= soldAt[j[1]]}

OldestValid == {k \in Valid : \A j \in Valid : soldAt[k[1]] <= soldAt[j[1]]}

FindCredit(r) ==
  /\ pc[r] = "findCredit"
  /\ \E k \in OldestValid :
       local' = [local EXCEPT ![r].pay = "credit", ![r].credit = k]
  /\ Goto(r, "paid")
  /\ UNCHANGED <<now, tables>>

(* 401: no quota and no credit.                                            *)
Unpaid(r) ==
  /\ pc[r] = "findCredit" /\ Valid = {}
  /\ Goto(r, "failed")
  /\ UNCHANGED <<now, tables, local>>

(* The customer is looked up first, refreshed when stale and created at    *)
(* the gateway when missing; without one there is no credit to query.      *)
NoCustomer(r) ==
  /\ pc[r] = "findCredit"
  /\ Goto(r, "failed")
  /\ UNCHANGED <<now, tables, local>>

(* 400: no valid ability, or the user is not a PF.                         *)
Invalid(r) ==
  /\ pc[r] = "paid"
  /\ Goto(r, "failed")
  /\ UNCHANGED <<now, tables, local>>

(* Mutants: the credit is left valid; every credit of the customer goes.   *)
KeepCredit(r) ==
  /\ pc[r] = "paid"
  /\ Goto(r, "spent")
  /\ UNCHANGED <<now, tables, local>>

SpendAll(r) ==
  /\ pc[r] = "paid"
  /\ credits' = IF local[r].pay = "credit"
                THEN [k \in Credits |-> IF credits[k] = "valid" THEN "used" ELSE credits[k]]
                ELSE credits
  /\ Goto(r, "spent")
  /\ UNCHANGED <<now, plans, soldAt, orders, recorded, certs, local>>

(* The credit is spent before the certificate exists, whatever its state.  *)
Spend(r) ==
  /\ pc[r] = "paid"
  /\ credits' = IF local[r].pay = "credit"
                THEN [credits EXCEPT ![local[r].credit] = "used"]
                ELSE credits
  /\ Goto(r, "spent")
  /\ UNCHANGED <<now, plans, soldAt, orders, recorded, certs, local>>

(* Mutant: a refused request gives its credit back.                        *)
GiveBack(r) ==
  /\ pc[r] = "spent"
  /\ credits' = IF local[r].pay = "credit"
                THEN [credits EXCEPT ![local[r].credit] = "valid"]
                ELSE credits
  /\ Goto(r, "failed")
  /\ UNCHANGED <<now, plans, soldAt, orders, recorded, certs, local>>

(* 404 for an unknown font, or the text approval call throws.              *)
Refuse(r) ==
  /\ pc[r] = "spent"
  /\ Goto(r, "failed")
  /\ UNCHANGED <<now, tables, local>>

Check(r) ==
  /\ pc[r] = "spent"
  /\ \E s \in Statuses : local' = [local EXCEPT ![r].status = s]
  /\ Goto(r, "checked")
  /\ UNCHANGED <<now, tables>>

NewCert(r) == [pay |-> local[r].pay,
               plan |-> IF local[r].pay = "basic" THEN local[r].plan ELSE NoPlan,
               credit |-> local[r].credit, status |-> local[r].status,
               createdAt |-> now, shared |-> FALSE]

(* Mutant: the certificate that had the credit keeps it.                   *)
KeepConnected(k) == certs

(* Connecting a credit takes it from the certificate it was connected to.  *)
Disconnected(k) ==
  [q \in Requests |-> IF q \in Issued /\ certs[q].credit = k /\ k # NoCredit
                      THEN [certs[q] EXCEPT !.credit = NoCredit]
                      ELSE certs[q]]

Store(r) ==
  /\ pc[r] = "checked"
  /\ local[r].pay = "basic" => local[r].plan # NoPlan
  /\ certs' = [Disconnected(local[r].credit) EXCEPT ![r] = NewCert(r)]
  /\ Goto(r, IF local[r].status = "ENABLED" THEN "stored" ELSE "done")
  /\ UNCHANGED <<now, plans, credits, soldAt, orders, recorded, local>>

(* The plan to connect does not exist; or another certificate took the     *)
(* credit between the read and the insertion of the nested connect, and    *)
(* the unique index rejects this one.                                      *)
StoreFails(r) ==
  /\ pc[r] = "checked"
  /\ \/ local[r].pay = "basic" /\ local[r].plan = NoPlan
     \/ \E q \in Issued : certs[q].credit = local[r].credit /\ local[r].pay = "credit"
  /\ Goto(r, "failed")
  /\ UNCHANGED <<now, tables, local>>

(* The public hash; then picture, blockchain and badge, which may fail.    *)
Share(r) ==
  /\ pc[r] = "stored"
  /\ certs' = [certs EXCEPT ![r].shared = TRUE]
  /\ \E l \in {"done", "failed"} : Goto(r, l)
  /\ UNCHANGED <<now, plans, credits, soldAt, orders, recorded, local>>

-----------------------------------------------------------------------------
(* POST /payments/order.                                                   *)

(* Customer, card and price are looked up; a missing one ends the request. *)
Buy(p) ==
  /\ pc[p] = "idle"
  /\ \E l \in {"charge", "failed"} : Goto(p, l)
  /\ UNCHANGED <<now, tables, local>>

(* The gateway's answer: an order, paid or not, or no order at all (503).  *)
Charge(p) ==
  /\ pc[p] = "charge"
  /\ \/ /\ \E s \in OrderStatuses : orders' = [orders EXCEPT ![p] = s]
        /\ Goto(p, "record")
     \/ Goto(p, "failed") /\ UNCHANGED orders
  /\ UNCHANGED <<now, plans, credits, soldAt, recorded, certs, local>>

(* Mutant: a failure to record the order is swallowed.                     *)
RecordOrNot(p) ==
  /\ pc[p] = "record"
  /\ \E r \in {recorded, recorded \cup {p}} : recorded' = r
  /\ Goto(p, "grant")
  /\ UNCHANGED <<now, plans, credits, soldAt, orders, certs, local>>

(* The PagarmeOrders row, with the order's status, which nobody reads; an  *)
(* answer without a charge or a card makes the statement throw.            *)
RecordOrder(p) ==
  /\ pc[p] = "record"
  /\ \/ recorded' = recorded \cup {p} /\ Goto(p, "grant")
     \/ UNCHANGED recorded /\ Goto(p, "failed")
  /\ UNCHANGED <<now, plans, credits, soldAt, orders, certs, local>>

Grant(p) ==
  /\ pc[p] = "grant"
  /\ credits' = [k \in Credits |-> IF k[1] = p THEN "valid" ELSE credits[k]]
  /\ soldAt' = [soldAt EXCEPT ![p] = now]
  /\ Goto(p, "readPlan")
  /\ now' = now + 1
  /\ UNCHANGED <<plans, orders, recorded, certs, local>>

-----------------------------------------------------------------------------
(* Around the requests.                                                    *)

(* The server process dies: handlers are lost, rows stay.                  *)
Crash ==
  /\ \E a \in Actors : pc[a] \notin Over
  /\ pc' = [a \in Actors |-> IF pc[a] \in Over THEN pc[a] ELSE "failed"]
  /\ UNCHANGED <<now, tables, local>>

Tick ==
  /\ now < MaxTick
  /\ now' = now + 1
  /\ UNCHANGED <<tables, pc, local>>

Init ==
  /\ now = 1                   \* a moment after the sign-up, at 0
  /\ \E e \in BOOLEAN :      \* with or without the plan of the sign-up
       plans = [p \in PlanIds |-> IF p = SignUp /\ e THEN NewPlan(0)
                                  ELSE [exists |-> FALSE, start |-> 0, end |-> 0]]
  /\ credits = [k \in Credits |-> "absent"]
  /\ soldAt = [p \in Purchases |-> 0]
  /\ orders = [p \in Purchases |-> "none"]
  /\ recorded = {}
  /\ certs = [r \in Requests |-> NoCert]
  /\ pc = [a \in Actors |-> "idle"]
  /\ local = [a \in Actors |-> Idle]

PlanStep(a) == \/ PlanMissing(a) \/ PlanCurrent(a) \/ PlanExpired(a)
               \/ MakePlan(a) \/ RenewPlan(a)

RequestStep(r) == \/ Arrive(r) \/ Count(r) \/ FindCredit(r) \/ Unpaid(r)
                  \/ NoCustomer(r) \/ Invalid(r) \/ Spend(r) \/ Refuse(r) \/ Check(r)
                  \/ Store(r) \/ StoreFails(r) \/ Share(r)

PurchaseStep(p) == Buy(p) \/ Charge(p) \/ RecordOrder(p) \/ Grant(p)

Next == \/ \E a \in Actors : PlanStep(a)
        \/ \E r \in Requests : RequestStep(r)
        \/ \E p \in Purchases : PurchaseStep(p)
        \/ Crash \/ Tick

Spec == Init /\ [][Next]_vars

-----------------------------------------------------------------------------
(* Properties.                                                             *)

(* Every variable holds values of the rows and locals it stands for.       *)
TypeOK ==
  /\ now \in Nat
  /\ plans \in [PlanIds -> Plan]
  /\ credits \in [Credits -> {"absent", "valid", "used"}]
  /\ soldAt \in [Purchases -> Nat]
  /\ orders \in [Purchases -> {"none", "paid", "refused"}]
  /\ recorded \subseteq Purchases
  /\ certs \in [Requests -> Cert \cup {NoCert}]
  /\ pc \in [Actors -> PCs]
  /\ local \in [Actors -> Local]

(* A certificate that names a credit was issued against it: the credit was *)
(* invalidated first and no other certificate names it, however requests   *)
(* that found the same credit interleave.                                  *)
CreditBacksOneCertificate ==
  \A r \in Issued :
    certs[r].credit # NoCredit =>
      /\ credits[certs[r].credit] = "used"
      /\ \A q \in Issued : certs[q].credit = certs[r].credit => q = r

(* Credits go in the order they were bought: no credit is used while one   *)
(* of an earlier purchase is still valid, although the credit is chosen    *)
(* long before it is invalidated.                                          *)
OldestCreditFirst ==
  \A j, k \in Credits :
    soldAt[j[1]] < soldAt[k[1]] /\ credits[k] = "used" => credits[j] # "valid"

(* A request that pays with a credit does so in a cycle whose quota is     *)
(* spent, and no later renewal, new plan or certificate of another request *)
(* makes that untrue of the cycle it read.                                 *)
CreditOnlyAfterQuota ==
  \A r \in Requests :
    local[r].pay = "credit" =>
      ~Unlimited /\ Cardinality(Emitted(local[r].start)) >= Quota

(* A spent credit was spent by a request of this user that found it while  *)
(* the quota of its cycle was gone; when that request then fails the       *)
(* credit stays spent without a certificate.                               *)
UsedCreditsAccountedFor ==
  \A k \in Credits :
    credits[k] = "used" =>
      \E r \in Requests : /\ local[r].credit = k /\ local[r].pay = "credit"
                          /\ pc[r] \in {"spent", "checked", "stored", "done",
                                       "failed"}

(* The latest cycle start any row or handler knows of.                     *)
Starts == {plans[p].start : p \in Existing} \cup
          {local[a].start : a \in {b \in Actors : pc[b] # "idle"}}

(* Check-then-insert lets requests that counted before the last insertion  *)
(* through: at most one certificate per other request in flight beyond the *)
(* quota of the latest cycle, over all plans, renewals and crashes.        *)
OvershootBounded ==
  \A s \in Starts :
    (\A t \in Starts : t <= s) /\ ~Unlimited /\ Quota > 0 =>
      Cardinality({r \in Emitted(s) : certs[r].pay = "basic"})
        <= Quota + MaxInFlight - 1

(* Credits appear only for an order the gateway accepted and the database  *)
(* recorded, and all credits of a purchase appear together.                *)
CreditsHaveAnOrder ==
  \A k \in Credits :
    credits[k] # "absent" =>
      /\ orders[k[1]] # "none" /\ k[1] \in recorded
      /\ \A j \in Credits : j[1] = k[1] => credits[j] # "absent"

(* The credits of the user are a wallet: sold together, spent once and     *)
(* oldest first, named by one certificate and only when spent.             *)
Wallet == INSTANCE CreditWallet WITH
            Certificates <- Requests,
            state   <- credits,
            soldAt  <- soldAt,
            holders <- {<<r, certs[r].credit>> :
                          r \in {q \in Issued : certs[q].credit # NoCredit}}

WalletSpec == Wallet!Spec

(* "This user has no available credits for this action"                    *)
(* (certificates.controller.ts:82) is the answer once the quota of the     *)
(* cycle is spent: with requests one at a time, a user who signed up at    *)
(* time 0 issues no more than the quota before his first cycle ends.       *)
FirstCycleQuota ==
  plans[SignUp].exists /\ ~Unlimited =>
    Cardinality({r \in Issued : certs[r].pay = "basic" /\ certs[r].createdAt < Period})
      <= Quota
=============================================================================
