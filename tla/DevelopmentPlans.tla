-------------------------- MODULE DevelopmentPlans --------------------------
(***************************************************************************)
(* Development plans of a person and the catalogue of abilities they share *)
(* with everybody.  A plan is written first, as a success, then node by    *)
(* node: abilities by name, known ones and those on review, new reviews    *)
(* for the rest, the links, and a book.  Meanwhile administrators approve, *)
(* reject, create and delete abilities, and each deletion cascades.        *)
(***************************************************************************)
EXTENDS Handlers, Naturals, Sequences

CONSTANTS Skills, Books,
          Catalogue,    \* the skills administrators have made abilities of before
          Roadmaps      \* what the AI may answer: for each step its skills and its book

VARIABLES abilities,    \* Abilities rows
          reviews,      \* AbilityOnReview rows
          books,        \* Books rows: their titles
          plans,        \* Pdi rows: what the nodes are linked to
          draft         \* what a handler has of them

planTables == <<abilities, reviews, books, plans>>
planVars == <<planTables, draft>>

Step == [skills : SUBSET Skills, book : Books]

Ability == [skill : Skills, theme : {"pdi", "other"},
            by : Makers, at : Nat]      \* who wrote the row, in which step of his plan

ASSUME PlansAssumption == /\ Catalogue \subseteq Skills
                          /\ \A m \in Roadmaps : m \in Seq(Step) /\ m # <<>>
                          /\ None \notin Ability \cup Seq(SUBSET Ability)

Draft == [plan : Makers \cup {None},
          roadmap : Roadmaps \cup {<<>>}, step : Nat,
          known : SUBSET Ability, pending : SUBSET Ability,     \* as they were found
          bookFound : BOOLEAN,
          row : Ability \cup {None}]    \* what an administrator decides on

PlansTypeOK ==
  /\ abilities \subseteq Ability /\ reviews \subseteq Ability
  /\ \A a, b \in abilities : a.skill = b.skill /\ a.theme = b.theme => a = b
  /\ books \subseteq Books
  /\ \A p \in Makers : plans[p] # None => plans[p] \in Seq(SUBSET (abilities \cup reviews))
  /\ draft \in [Handlers -> Draft]

-----------------------------------------------------------------------------
NoDraft == [plan |-> None, roadmap |-> <<>>, step |-> 0, known |-> {}, pending |-> {},
            bookFound |-> FALSE, row |-> None]

RefusePlan(r) == Goto(r, "refused") /\ UNCHANGED planVars

Current(r) == draft[r].roadmap[draft[r].step]

OfStep(r, rows) == {a \in rows : a.skill \in Current(r).skills}

(* The AI services answered; the plan is written before its nodes.         *)
CreatePDI(r) ==
  /\ Start(r, "createPDI", "writePlan")
  /\ \E m \in Roadmaps : draft' = [draft EXCEPT ![r] = [NoDraft EXCEPT !.plan = r, !.roadmap = m]]
  /\ UNCHANGED planTables

CreatePdi(r) ==
  /\ pc[r] = "writePlan"
  /\ plans' = [plans EXCEPT ![r] = <<>>]
  /\ Goto(r, "createNode")
  /\ UNCHANGED <<abilities, reviews, books, draft>>

(* A plan that was deleted since refuses whatever belongs to it.           *)
CreatePdiNode(r) ==
  /\ pc[r] = "createNode"
  /\ IF plans[r] = None THEN RefusePlan(r)
     ELSE /\ plans' = [plans EXCEPT ![r] = Append(@, {})]
          /\ draft' = [draft EXCEPT ![r].step = @ + 1]
          /\ Goto(r, "findKnown")
          /\ UNCHANGED <<abilities, reviews, books>>

GetAbilitiesByName(r) ==
  /\ pc[r] = "findKnown"
  /\ draft' = [draft EXCEPT ![r].known = OfStep(r, abilities)]
  /\ Goto(r, "findReviews")
  /\ UNCHANGED planTables

GetAbilitiesOnReviewByName(r) ==
  /\ pc[r] = "findReviews"
  /\ draft' = [draft EXCEPT ![r].pending = OfStep(r, reviews)]
  /\ Goto(r, "addReviews")
  /\ UNCHANGED planTables

Missing(r) == {s \in Current(r).skills : \A a \in draft[r].known \cup draft[r].pending : a.skill # s}

(* The insertions run side by side.                                        *)
CreateAbilityOnReview(r) ==
  /\ pc[r] = "addReviews"
  /\ \/ Missing(r) = {} /\ Goto(r, "linkAbilities") /\ UNCHANGED planVars
     \/ \E s \in Missing(r) :
          LET row == [skill |-> s, theme |-> "pdi", by |-> r, at |-> draft[r].step]
          IN  /\ reviews' = reviews \cup {row}
              /\ draft' = [draft EXCEPT ![r].pending = @ \cup {row}]
              /\ UNCHANGED <<control, abilities, books, plans>>

(* Rows the handler named, one of which may have been deleted since.       *)
Held(r) == draft[r].known \cup draft[r].pending

Gone(r) == plans[r] = None \/ ~(draft[r].known \subseteq abilities)
                           \/ ~(draft[r].pending \subseteq reviews)

(* Mutant: abilities others have on review already are left out.           *)
LinkNewAbilities(r) ==
  /\ pc[r] = "linkAbilities"
  /\ IF Gone(r) THEN RefusePlan(r)
     ELSE /\ plans' = [plans EXCEPT ![r][draft[r].step] = {a \in Held(r) : a \in abilities \/ a.by = r}]
          /\ Goto(r, "findBook")
          /\ UNCHANGED <<abilities, reviews, books, draft>>

LinkAbilities(r) ==
  /\ pc[r] = "linkAbilities"
  /\ IF Gone(r) THEN RefusePlan(r)
     ELSE /\ plans' = [plans EXCEPT ![r][draft[r].step] = Held(r)]
          /\ Goto(r, "findBook")
          /\ UNCHANGED <<abilities, reviews, books, draft>>

FindBook(r) ==
  /\ pc[r] = "findBook"
  /\ draft' = [draft EXCEPT ![r].bookFound = Current(r).book \in books]
  /\ Goto(r, "writeBook")
  /\ UNCHANGED planTables

(* The reviews of a book that was found are given the ids of abilities,    *)
(* which refuses it when there are any; a new book gets its own.           *)
WriteBook(r) ==
  /\ pc[r] = "writeBook"
  /\ IF IF draft[r].bookFound THEN plans[r] = None \/ draft[r].known # {} ELSE Gone(r)
     THEN RefusePlan(r)
     ELSE /\ books' = books \cup {Current(r).book}
          /\ Goto(r, IF draft[r].step = Len(draft[r].roadmap) THEN "done" ELSE "createNode")
          /\ UNCHANGED <<abilities, reviews, plans, draft>>

DeletePDI(r) ==
  /\ Start(r, "deletePDI", "removePlan")
  /\ \E p \in Makers : /\ plans[p] # None
                       /\ draft' = [draft EXCEPT ![r] = [NoDraft EXCEPT !.plan = p]]
  /\ UNCHANGED planTables

DeletePdi(r) ==
  /\ pc[r] = "removePlan"
  /\ LET p == draft[r].plan
     IN  IF plans[p] = None THEN RefusePlan(r)
         ELSE /\ plans' = [plans EXCEPT ![p] = None]
              /\ Goto(r, "done")
              /\ UNCHANGED <<abilities, reviews, books, draft>>

-----------------------------------------------------------------------------
(* The catalogue.                                                          *)

(* A request about a row somebody has read, or is to write.                *)
Decide(r, k, rows) ==
  /\ Start(r, k, "decide")
  /\ \E a \in rows : draft' = [draft EXCEPT ![r] = [NoDraft EXCEPT !.row = a]]
  /\ UNCHANGED planTables

UpgradeAbilityOnReview(r) == Decide(r, "approve", reviews)

DeleteAbilityOnReview(r) == Decide(r, "reject", reviews)

DeleteAbility(r) == Decide(r, "deleteAbility", abilities)

New(r) == {[skill |-> s, theme |-> "other", by |-> r, at |-> 0] : s \in Skills}

Same(a, b) == a.skill = b.skill /\ a.theme = b.theme

CreateNewAbility(r) ==
  Decide(r, "createAbility", {a \in New(r) : \A b \in abilities : ~Same(a, b)})

SuggestAbility(r) ==
  Decide(r, "suggest", {a \in New(r) : \A b \in reviews : ~Same(a, b)})

(* What is deleted goes from the nodes too.                                *)
Without(a) == [p \in Makers |-> IF plans[p] = None THEN None
                                ELSE [i \in 1..Len(plans[p]) |-> plans[p][i] \ {a}]]

(* One transaction.  Name and theme of an ability are unique.              *)
Upgrade(r) ==
  /\ pc[r] = "decide" /\ kind[r] = "approve"
  /\ LET a == draft[r].row
     IN  IF a \notin reviews \/ \E b \in abilities : Same(a, b) THEN RefusePlan(r)
         ELSE /\ reviews' = reviews \ {a}
              /\ abilities' = abilities \cup {[a EXCEPT !.by = r, !.at = 0]}
              /\ plans' = Without(a)
              /\ Goto(r, "done")
              /\ UNCHANGED <<books, draft>>

(* A job that asks for the ability refuses to lose it.                     *)
Delete(r) ==
  /\ pc[r] = "decide" /\ kind[r] \in {"reject", "deleteAbility"}
  /\ LET a == draft[r].row
     IN  \/ (kind[r] = "deleteAbility" \/ a \notin reviews) /\ RefusePlan(r)
         \/ /\ a \in IF kind[r] = "reject" THEN reviews ELSE abilities
            /\ reviews' = IF kind[r] = "reject" THEN reviews \ {a} ELSE reviews
            /\ abilities' = IF kind[r] = "reject" THEN abilities ELSE abilities \ {a}
            /\ plans' = Without(a)
            /\ Goto(r, "done")
            /\ UNCHANGED <<books, draft>>

Create(r) ==
  /\ pc[r] = "decide" /\ kind[r] \in {"createAbility", "suggest"}
  /\ LET a == draft[r].row
     IN  IF kind[r] = "createAbility" /\ \E b \in abilities : Same(a, b) THEN RefusePlan(r)
         ELSE /\ IF kind[r] = "suggest" THEN reviews' = reviews \cup {a} /\ UNCHANGED abilities
                 ELSE abilities' = abilities \cup {a} /\ UNCHANGED reviews
              /\ Goto(r, "done")
              /\ UNCHANGED <<books, plans, draft>>

PlansInit ==
  /\ abilities = {[skill |-> s, theme |-> "other", by |-> Former, at |-> 0] : s \in Catalogue}
  /\ reviews = {} /\ books = {}
  /\ plans = [p \in Makers |-> None]
  /\ draft = [a \in Handlers |-> NoDraft]

PlansStep(r) ==
  \/ CreatePDI(r) \/ CreatePdi(r) \/ CreatePdiNode(r) \/ GetAbilitiesByName(r)
  \/ GetAbilitiesOnReviewByName(r) \/ CreateAbilityOnReview(r) \/ LinkAbilities(r)
  \/ FindBook(r) \/ WriteBook(r) \/ DeletePDI(r) \/ DeletePdi(r)
  \/ UpgradeAbilityOnReview(r) \/ DeleteAbilityOnReview(r) \/ DeleteAbility(r)
  \/ CreateNewAbility(r) \/ SuggestAbility(r) \/ Upgrade(r) \/ Delete(r) \/ Create(r)

-----------------------------------------------------------------------------
(* Properties.                                                             *)

(* A plan that was answered as a success has a node for every step, with   *)
(* every skill of the step, unless that skill was approved, rejected or    *)
(* deleted meanwhile: also an approval takes it out of the plans.  That an *)
(* administrator renames an ability is left out: it would be another       *)
(* cause.                                                                  *)
SkillsLostHaveCause ==
  \A p \in Requests :
    kind[p] = "createPDI" /\ pc[p] = "done" /\ plans[p] # None =>
      LET m == draft[p].roadmap
      IN  /\ Len(plans[p]) = Len(m)
          /\ \A i \in 1..Len(m) : \A s \in m[i].skills :
               \/ \E a \in plans[p][i] : a.skill = s
               \/ \E r \in Requests : /\ kind[r] \in {"approve", "reject", "deleteAbility"}
                                      /\ pc[r] = "done" /\ draft[r].row.skill = s
=============================================================================
