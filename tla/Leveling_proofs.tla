--------------------------- MODULE Leveling_proofs ---------------------------
(***************************************************************************)
(* Theorems about Leveling, for every number of requests and missions and  *)
(* every reward of at most one level.                                      *)
(***************************************************************************)
EXTENDS Leveling, FiniteSetTheorems, TLAPS

(* The constants, as the proofs use them.                                  *)
LEMMA ConstantFacts ==
        /\ LevelXp \in Nat /\ LevelXp > 0 /\ EventXp \in 0 .. LevelXp
        /\ \A m \in Missions : Reward[m] \in 0 .. LevelXp
        /\ \A m \in Missions : Required[m] \in Nat /\ Required[m] > 0
        /\ Events \subseteq Actors
        /\ NoMission \notin Missions
BY MissionsAssumption, RewardsAssumption DEF Actors

(* A call of addXp, as far as the invariants need it.                      *)
LEMMA CallEffect ==
        ASSUME TypeOK, NEW a \in Actors, NEW l \in Local,
               NEW m \in Missions \cup {NoMission}, NEW xp \in 0 .. LevelXp,
               NEW next \in {"assign", "progress", "update"},
               CallAddXp(a, l, m, xp, next)
        PROVE  /\ pc' = [pc EXCEPT ![a] = "log"] /\ pc' \in [Actors -> PCs]
               /\ local' \in [Actors -> Local]
               /\ pc'[a] = "log" /\ local'[a].next = next /\ local'[a].mission = m
               /\ local'[a].todo = l.todo /\ local'[a].counts = l.counts
               /\ \A b \in Actors \ {a} : local'[b] = local[b]
<1> DEFINE new == [l EXCEPT !.mission = m, !.amount = xp, !.next = next]
<1>1. new \in Local
  BY DEF Local
<1>2. local' = [local EXCEPT ![a] = new] /\ pc' = [pc EXCEPT ![a] = "log"]
  BY DEF CallAddXp, Goto
<1>3. new.next = next /\ new.mission = m /\ new.todo = l.todo /\ new.counts = l.counts
  BY DEF Local
<1>4. local'[a] = new /\ \A b \in Actors \ {a} : local'[b] = local[b]
  BY <1>2 DEF TypeOK
<1>5. pc' \in [Actors -> PCs] /\ local' \in [Actors -> Local] /\ pc'[a] = "log"
  BY <1>1, <1>2 DEF TypeOK, PCs
<1> HIDE DEF new
<1> QED
  BY <1>2, <1>3, <1>4, <1>5

-----------------------------------------------------------------------------
(* Type correctness.                                                       *)

(* The variables of a handler that has returned are typed.                 *)
LEMMA FreshIsLocal == Fresh \in Local
BY ConstantFacts DEF Fresh, Local

(* A new user: no profile, no progress, idle handlers.                     *)
LEMMA TypeInit == Init => TypeOK
<1> SUFFICES ASSUME Init PROVE TypeOK
  OBVIOUS
<1> QED
  BY FreshIsLocal, ConstantFacts DEF Init, TypeOK, Row, PCs

(* What ensureProfileExists does to the types.                             *)
LEMMA TypeProfileStep ==
        ASSUME TypeOK, NEW a \in Actors, ProfileStep(a) PROVE TypeOK'
<1> USE ConstantFacts
<1>1. CASE FindProfile(a)
  <2> DEFINE new == [local[a] EXCEPT !.todo = Unassigned]
  <2>1. local' \in [Actors -> Local]
    <3>1. local[a] \in Local /\ Unassigned \in SUBSET Missions
      BY DEF TypeOK, Unassigned
    <3>2. new \in Local
      BY <3>1 DEF Local
    <3>3. local' = [local EXCEPT ![a] = new]
      BY <1>1 DEF FindProfile
    <3> QED
      BY <3>2, <3>3 DEF TypeOK
  <2> QED
    BY <1>1, <2>1 DEF FindProfile, TypeOK, Goto, PCs, rows
<1>2. CASE CreateProfile(a)
  <2>1. profile' \in [exists : BOOLEAN, xp : Nat, level : Nat]
    <3>1. CASE profile.exists
      BY <1>2, <3>1 DEF CreateProfile, TypeOK
    <3>2. CASE ~profile.exists
      <4>1. profile' = [exists |-> TRUE, xp |-> 0, level |-> 1]
        BY <1>2, <3>2 DEF CreateProfile
      <4>2. 0 \in Nat /\ 1 \in Nat /\ TRUE \in BOOLEAN
        OBVIOUS
      <4> QED
        BY <4>1, <4>2, SMT
    <3> QED
      BY <3>1, <3>2
  <2>2. pc' \in [Actors -> PCs]
    BY <1>2 DEF CreateProfile, TypeOK, Goto, PCs
  <2>3. UNCHANGED <<progress, logged, rewards, certified, local>>
    BY <1>2 DEF CreateProfile
  <2> QED
    BY <2>1, <2>2, <2>3 DEF TypeOK
<1>3. CASE CountCertificates(a)
  <2> DEFINE new == [local[a] EXCEPT !.certified = certified]
  <2>1. local' \in [Actors -> Local]
    <3>1. local[a] \in Local /\ certified \in BOOLEAN
      BY DEF TypeOK
    <3>2. new \in Local
      BY <3>1 DEF Local
    <3>3. local' = [local EXCEPT ![a] = new]
      BY <1>3 DEF CountCertificates
    <3> QED
      BY <3>2, <3>3 DEF TypeOK
  <2> QED
    BY <1>3, <2>1 DEF CountCertificates, TypeOK, Goto, PCs, rows
<1>4. CASE Assign(a)
  <2>1. PICK m \in local[a].todo : TRUE /\
          LET l == [local[a] EXCEPT !.todo = @ \ {m}]
          IN  IF m \notin Unassigned
              THEN Goto(a, "failed") /\ UNCHANGED <<progress, local>>
              ELSE /\ progress' = [progress EXCEPT ![m] = FirstRow(a, m)]
                   /\ IF FirstRow(a, m).status = "COMPLETED"
                      THEN CallAddXp(a, l, m, Reward[m], "assign")
                      ELSE local' = [local EXCEPT ![a] = l] /\ UNCHANGED pc
    BY <1>4 DEF Assign
  <2> DEFINE l == [local[a] EXCEPT !.todo = @ \ {m}]
  <2>2. l \in Local /\ m \in Missions
    BY DEF TypeOK, Local
  <2>3. FirstRow(a, m) \in Row
    BY <2>2 DEF FirstRow, Row
  <2>4. UNCHANGED <<profile, logged, rewards, certified>>
    BY <1>4 DEF Assign
  <2>5. CASE m \notin Unassigned
    BY <2>1, <2>4, <2>5 DEF TypeOK, Goto, PCs
  <2>6. CASE m \in Unassigned /\ FirstRow(a, m).status = "COMPLETED"
    <3>1. CallAddXp(a, l, m, Reward[m], "assign")
      BY <2>1, <2>6
    <3>2. pc' \in [Actors -> PCs] /\ local' \in [Actors -> Local]
      BY <2>2, <3>1, CallEffect
    <3> QED
      BY <2>1, <2>2, <2>3, <2>4, <2>6, <3>2 DEF TypeOK
  <2>7. CASE m \in Unassigned /\ FirstRow(a, m).status # "COMPLETED"
    BY <2>1, <2>2, <2>3, <2>4, <2>7 DEF TypeOK
  <2> QED
    BY <2>5, <2>6, <2>7
<1>5. CASE Ensured(a)
  <2>1. CASE a \in Events
    <3>1. local[a] \in Local
      BY DEF TypeOK
    <3>2. pc' \in [Actors -> PCs] /\ local' \in [Actors -> Local]
      BY <1>5, <2>1, <3>1, CallEffect DEF Ensured
    <3> QED
      BY <1>5, <3>2 DEF Ensured, TypeOK, rows
  <2>2. CASE a \notin Events
    BY <1>5, <2>2, FreshIsLocal DEF Ensured, Return, Goto, TypeOK, PCs, rows
  <2> QED
    BY <2>1, <2>2
<1> QED
  BY <1>1, <1>2, <1>3, <1>4, <1>5 DEF ProfileStep

(* What addXp does to the types.                                           *)
LEMMA TypeXpStep ==
        ASSUME TypeOK, NEW a \in Actors, XpStep(a) PROVE TypeOK'
<1> USE ConstantFacts
<1>0. local[a] \in Local
  BY DEF TypeOK
<1>1. CASE Log(a)
  BY <1>0, <1>1 DEF Log, TypeOK, Goto, PCs, Local
<1>2. CASE Read(a)
  <2> DEFINE new == [local[a] EXCEPT !.xp = profile.xp, !.level = profile.level]
  <2>1. local' \in [Actors -> Local]
    <3>1. profile.xp \in Nat /\ profile.level \in Nat
      BY DEF TypeOK
    <3>2. new \in Local
      BY <1>0, <3>1 DEF Local
    <3>3. local' = [local EXCEPT ![a] = new]
      BY <1>0, <1>2 DEF Read, TypeOK, Local
    <3> QED
      BY <3>2, <3>3 DEF TypeOK
  <2> QED
    BY <1>2, <2>1 DEF Read, TypeOK, Goto, PCs, rows
<1>3. CASE Write(a)
  <2>1. /\ local[a].xp + local[a].amount \in Nat
        /\ NewLevel(local[a].level, local[a].xp + local[a].amount) \in Nat
    BY <1>0 DEF NewLevel, Local
  <2>2. local[a].next \in PCs
    BY <1>0 DEF Local, PCs
  <2> QED
    BY <1>3, <2>1, <2>2 DEF Write, TypeOK, Goto
<1> QED
  BY <1>1, <1>2, <1>3 DEF XpStep

(* What the mission loop of an event does to the types.                    *)
LEMMA TypeMissionStep ==
        ASSUME TypeOK, NEW e \in Events, MissionStep(e) PROVE TypeOK'
<1> USE ConstantFacts
<1>1. CASE FindProgress(e)
  <2> DEFINE found == {m \in Missions : /\ progress[m].status = "IN_PROGRESS"
                                        /\ TypeOf[m] = TypeOf[e]}
             new   == [local[e] EXCEPT !.todo = found,
                                       !.counts = [m \in Missions |-> progress[m].count]]
  <2>1. new \in Local
    <3>1. /\ local[e] \in Local /\ found \in SUBSET Missions
          /\ [m \in Missions |-> progress[m].count] \in [Missions -> Nat]
      BY DEF TypeOK, Row
    <3> HIDE DEF found
    <3> QED
      BY <3>1 DEF Local
  <2>2. local' = [local EXCEPT ![e] = new]
    BY <1>1 DEF FindProgress, TypeOK, Local
  <2> QED
    BY <1>1, <2>1, <2>2 DEF FindProgress, TypeOK, Goto, PCs, rows
<1>2. CASE Update(e)
  <2>1. PICK m \in local[e].todo : TRUE /\
          LET row == Counted(m, local[e].counts[m] + 1)
              l   == [local[e] EXCEPT !.todo = @ \ {m}]
          IN  /\ progress' = [progress EXCEPT ![m] = row]
              /\ IF row.status = "COMPLETED"
                 THEN CallAddXp(e, l, m, Reward[m], "update")
                 ELSE local' = [local EXCEPT ![e] = l] /\ UNCHANGED pc
    BY <1>2 DEF Update
  <2> DEFINE l   == [local[e] EXCEPT !.todo = @ \ {m}]
             row == Counted(m, local[e].counts[m] + 1)
  <2>2. l \in Local /\ m \in Missions /\ local[e].counts[m] \in Nat
    <3>1. local[e] \in Local
      BY DEF TypeOK
    <3>2. local[e].todo \in SUBSET Missions /\ local[e].counts \in [Missions -> Nat]
      BY <3>1 DEF Local
    <3>3. m \in Missions /\ local[e].todo \ {m} \in SUBSET Missions
      BY <3>2
    <3>4. l \in Local
      BY <3>1, <3>3 DEF Local
    <3> QED
      BY <3>2, <3>3, <3>4
  <2>3. row \in Row
    BY <2>2 DEF Counted, Row
  <2>4. UNCHANGED <<profile, logged, rewards, certified>>
    BY <1>2 DEF Update
  <2>5. progress' \in [Missions -> Row]
    BY <2>1, <2>3 DEF TypeOK
  <2>6. CASE row.status = "COMPLETED"
    <3>1. CallAddXp(e, l, m, Reward[m], "update")
      BY <2>1, <2>6
    <3>2. pc' \in [Actors -> PCs] /\ local' \in [Actors -> Local]
      BY <2>2, <3>1, CallEffect
    <3> QED
      BY <2>4, <2>5, <3>2 DEF TypeOK
  <2>7. CASE row.status # "COMPLETED"
    BY <2>1, <2>2, <2>4, <2>5, <2>7 DEF TypeOK
  <2> QED
    BY <2>6, <2>7
<1>3. CASE Finish(e)
  BY <1>3, FreshIsLocal DEF Finish, Return, Goto, TypeOK, PCs, rows
<1> QED
  BY <1>1, <1>2, <1>3 DEF MissionStep

(* Every handler leaves rows and variables of their types.                 *)
LEMMA TypeStep == TypeOK /\ [Next]_vars => TypeOK'
<1> SUFFICES ASSUME TypeOK, [Next]_vars PROVE TypeOK'
  OBVIOUS
<1>1. CASE Certify \/ Crash
  BY <1>1 DEF Certify, Crash, TypeOK, PCs, Over, rows
<1>2. CASE UNCHANGED vars
  BY <1>2 DEF vars, rows, TypeOK
<1> QED
  BY <1>1, <1>2, TypeProfileStep, TypeXpStep, TypeMissionStep DEF Next

(* Type correctness of the rows and of every handler's variables.          *)
THEOREM TypeCorrect == Spec => []TypeOK
BY TypeInit, TypeStep, PTL DEF Spec

-----------------------------------------------------------------------------
(* The level.  Requests lose each other's updates, but whatever addXp      *)
(* reads and writes is a pair of XP and level that fit: the invariant says *)
(* so of the profile and of every pair a request holds.                    *)
LevelInv ==
  /\ TypeOK
  /\ LevelMatchesXp
  /\ \A a \in Actors : pc[a] = "write" => LevelFits(local[a].level, local[a].xp)

(* One level per addXp is enough for an amount of at most one level.       *)
LEMMA NewLevelFits ==
        ASSUME NEW level \in Nat, NEW xp \in Nat, NEW n \in 0 .. LevelXp,
               LevelFits(level, xp)
        PROVE  LevelFits(NewLevel(level, xp + n), xp + n)
<1> USE ConstantFacts
<1> DEFINE top == level * LevelXp
<1>1. top \in Nat /\ (level + 1) * LevelXp = top + LevelXp
  OBVIOUS
<1>2. (level - 1) * LevelXp <= xp /\ xp < top
  BY DEF LevelFits
<1>3. CASE xp + n >= top
  <2>1. NewLevel(level, xp + n) = level + 1 /\ (level + 1) - 1 = level
    BY <1>3 DEF NewLevel
  <2>2. top <= xp + n /\ xp + n < (level + 1) * LevelXp
    BY <1>1, <1>2, <1>3
  <2> QED
    BY <2>1, <2>2 DEF LevelFits
<1>4. CASE ~(xp + n >= top)
  <2>1. NewLevel(level, xp + n) = level
    BY <1>4 DEF NewLevel
  <2>2. (level - 1) * LevelXp \in Int
    OBVIOUS
  <2>3. (level - 1) * LevelXp <= xp + n /\ xp + n < top
    BY <1>1, <1>2, <1>4, <2>2
  <2> QED
    BY <2>1, <2>3 DEF LevelFits
<1> QED
  BY <1>3, <1>4

(* A new user has no XP and level 1.                                       *)
LEMMA LevelInit == Init => LevelInv
<1> SUFFICES ASSUME Init PROVE LevelInv
  OBVIOUS
<1>1. LevelFits(1, 0)
  BY ConstantFacts DEF LevelFits
<1> QED
  BY <1>1, TypeInit DEF Init, LevelInv, LevelMatchesXp

(* Steps that leave the profile's XP and every held pair alone.            *)
LEMMA LevelQuiet ==
        ASSUME LevelInv, TypeOK',
               profile'.xp = profile.xp /\ profile'.level = profile.level,
               \A a \in Actors :
                 pc'[a] = "write" => pc[a] = "write" /\ UNCHANGED local[a]
        PROVE  LevelInv'
BY DEF LevelInv, LevelMatchesXp

(* Only addXp moves XP and level, and always as a pair that fits.          *)
LEMMA LevelStep == LevelInv /\ [Next]_vars => LevelInv'
<1> SUFFICES ASSUME LevelInv, [Next]_vars PROVE LevelInv'
  OBVIOUS
<1> USE ConstantFacts
<1>0. TypeOK /\ TypeOK'
  BY TypeStep DEF LevelInv
<1>1. ASSUME NEW a \in Actors, FindProfile(a) \/ CountCertificates(a) \/ Ensured(a)
      PROVE  LevelInv'
  <2>1. UNCHANGED profile
    BY <1>1 DEF FindProfile, CountCertificates, Ensured, rows
  <2>2. \E l \in PCs \ {"write"} : pc' = [pc EXCEPT ![a] = l]
    BY <1>1 DEF FindProfile, CountCertificates, Ensured, Return, CallAddXp, Goto, PCs
  <2>3. \A b \in Actors \ {a} : UNCHANGED local[b]
    BY <1>0, <1>1 DEF FindProfile, CountCertificates, Ensured, Return, CallAddXp, TypeOK
  <2> QED
    BY <1>0, <2>1, <2>2, <2>3, LevelQuiet DEF TypeOK
<1>2. ASSUME NEW a \in Actors, CreateProfile(a) PROVE LevelInv'
  <2>1. CASE profile.exists
    BY <1>0, <1>2, <2>1, LevelQuiet DEF CreateProfile, Goto, TypeOK
  <2>2. CASE ~profile.exists
    <3>1. profile'.xp = 0 /\ profile'.level = 1
      BY <1>2, <2>2 DEF CreateProfile
    <3>2. LevelFits(1, 0)
      BY DEF LevelFits
    <3>3. \A b \in Actors : pc'[b] = "write" => pc[b] = "write" /\ UNCHANGED local[b]
      BY <1>0, <1>2, <2>2 DEF CreateProfile, Goto, TypeOK
    <3> QED
      BY <1>0, <3>1, <3>2, <3>3 DEF LevelInv, LevelMatchesXp
  <2> QED
    BY <2>1, <2>2
<1>3. ASSUME NEW a \in Actors, Assign(a) \/ Update(a) PROVE LevelInv'
  <2>1. UNCHANGED profile
    BY <1>3 DEF Assign, Update
  <2>2. pc' = pc \/ \E l \in PCs \ {"write"} : pc' = [pc EXCEPT ![a] = l]
    BY <1>3 DEF Assign, Update, CallAddXp, Goto, PCs
  <2>3. \A b \in Actors \ {a} : UNCHANGED local[b]
    BY <1>0, <1>3 DEF Assign, Update, CallAddXp, TypeOK
  <2>4. pc[a] # "write"
    BY <1>3 DEF Assign, Update
  <2> QED
    BY <1>0, <2>1, <2>2, <2>3, <2>4, LevelQuiet DEF TypeOK
<1>4. ASSUME NEW a \in Actors, Log(a) PROVE LevelInv'
  BY <1>0, <1>4, LevelQuiet DEF Log, Goto, TypeOK
<1>5. ASSUME NEW a \in Actors, Read(a) PROVE LevelInv'
  <2>1. UNCHANGED profile /\ pc' = [pc EXCEPT ![a] = "write"]
    BY <1>5 DEF Read, Goto, rows
  <2>2. /\ local'[a].xp = profile.xp /\ local'[a].level = profile.level
        /\ \A b \in Actors \ {a} : UNCHANGED local[b]
    <3>1. local[a] \in Local
      BY <1>0 DEF TypeOK
    <3>2. local' = [local EXCEPT ![a] = [local[a] EXCEPT !.xp = profile.xp,
                                                         !.level = profile.level]]
      BY <1>0, <1>5, <3>1 DEF Read, TypeOK, Local
    <3> QED
      BY <1>0, <3>1, <3>2 DEF TypeOK, Local
  <2> QED
    BY <1>0, <2>1, <2>2 DEF LevelInv, LevelMatchesXp, TypeOK
<1>6. ASSUME NEW a \in Actors, Write(a) PROVE LevelInv'
  <2> DEFINE xp == local[a].xp + local[a].amount
  <2>1. /\ local[a].xp \in Nat /\ local[a].level \in Nat
        /\ local[a].amount \in 0 .. LevelXp
        /\ local[a].next \in {"assign", "progress", "update", "done"}
    BY <1>0 DEF TypeOK, Local
  <2>2. LevelFits(local[a].level, local[a].xp)
    BY <1>6 DEF LevelInv, Write
  <2>3. LevelFits(NewLevel(local[a].level, xp), xp)
    BY <2>1, <2>2, NewLevelFits
  <2>4. profile'.xp = xp /\ profile'.level = NewLevel(local[a].level, xp)
    BY <1>0, <1>6 DEF Write, TypeOK
  <2>5. \A b \in Actors : pc'[b] = "write" => pc[b] = "write" /\ UNCHANGED local[b]
    BY <1>0, <1>6, <2>1 DEF Write, Goto, TypeOK
  <2> QED
    BY <1>0, <2>3, <2>4, <2>5 DEF LevelInv, LevelMatchesXp
<1>7. ASSUME NEW e \in Events, FindProgress(e) \/ Finish(e) PROVE LevelInv'
  <2>1. UNCHANGED profile
    BY <1>7 DEF FindProgress, Finish, rows
  <2>2. \E l \in PCs \ {"write"} : pc' = [pc EXCEPT ![e] = l]
    BY <1>7 DEF FindProgress, Finish, Return, Goto, PCs
  <2>3. \A b \in Actors \ {e} : UNCHANGED local[b]
    BY <1>0, <1>7 DEF FindProgress, Finish, Return, TypeOK
  <2> QED
    BY <1>0, <2>1, <2>2, <2>3, LevelQuiet DEF TypeOK
<1>8. CASE Certify \/ Crash \/ UNCHANGED vars
  BY <1>0, <1>8, LevelQuiet DEF Certify, Crash, vars, rows, Over
<1> QED
  BY <1>1, <1>2, <1>3, <1>4, <1>5, <1>6, <1>7, <1>8
     DEF Next, ProfileStep, XpStep, MissionStep

(* The level of a user is the one his XP gives, for any number of requests *)
(* that run addXp at the same time.                                        *)
THEOREM LevelCorrect == Spec => []LevelMatchesXp
<1>1. LevelInv => LevelMatchesXp
  BY DEF LevelInv
<1> QED
  BY <1>1, LevelInit, LevelStep, PTL DEF Spec

-----------------------------------------------------------------------------
(* Mission rows.  What an event holds while it goes through the missions   *)
(* it found: counts of missions that were open then, so below their        *)
(* requirement, whatever has been written over them since.                 *)
Updating(a) ==
  \/ pc[a] = "update"
  \/ pc[a] \in {"log", "read", "write"} /\ local[a].next = "update"

CountInv ==
  /\ TypeOK
  /\ CountsWithinRequired
  /\ \A a \in Actors : Updating(a) =>
       \A m \in local[a].todo : local[a].counts[m] < Required[m]

(* Steps that write no mission row and start no loop over missions.        *)
LEMMA CountQuiet ==
        ASSUME CountInv, TypeOK', UNCHANGED progress,
               \A a \in Actors :
                 Updating(a)' => Updating(a) /\ UNCHANGED <<local[a].todo, local[a].counts>>
        PROVE  CountInv'
<1>1. CountsWithinRequired'
  BY DEF CountInv, CountsWithinRequired, Unassigned
<1> QED
  BY <1>1 DEF CountInv

(* Writing one row that is within its requirement.                         *)
LEMMA CountWrite ==
        ASSUME CountInv, NEW m \in Missions, NEW row \in Row,
               progress' = [progress EXCEPT ![m] = row],
               row.count <= Required[m],
               row.status = "COMPLETED" <=> row.count = Required[m]
        PROVE  CountsWithinRequired'
BY DEF CountInv, TypeOK, CountsWithinRequired, Unassigned

(* No mission row yet.                                                     *)
LEMMA CountInit == Init => CountInv
<1> SUFFICES ASSUME Init PROVE CountInv
  OBVIOUS
<1>1. \A a \in Actors : ~Updating(a)
  BY DEF Init, Updating
<1> QED
  BY <1>1, TypeInit DEF Init, CountInv, CountsWithinRequired, Unassigned

(* A row is written from a count that was below the requirement.           *)
LEMMA CountStep == CountInv /\ [Next]_vars => CountInv'
<1> SUFFICES ASSUME CountInv, [Next]_vars PROVE CountInv'
  OBVIOUS
<1> USE ConstantFacts
<1>0. TypeOK /\ TypeOK'
  BY TypeStep DEF CountInv
<1>1. ASSUME NEW a \in Actors, FindProfile(a) \/ CountCertificates(a) \/ Ensured(a)
      PROVE  CountInv'
  <2>1. UNCHANGED progress
    BY <1>1 DEF FindProfile, CountCertificates, Ensured, rows
  <2>2. \A b \in Actors \ {a} : UNCHANGED local[b] /\ UNCHANGED pc[b]
    BY <1>0, <1>1 DEF FindProfile, CountCertificates, Ensured, Return, CallAddXp, Goto, TypeOK
  <2>3. ~Updating(a)'
    <3>1. CASE FindProfile(a) \/ CountCertificates(a)
      BY <1>0, <3>1 DEF FindProfile, CountCertificates, Goto, TypeOK, Updating
    <3>2. CASE Ensured(a) /\ a \in Events
      <4>1. local[a] \in Local
        BY <1>0 DEF TypeOK
      <4>2. CallAddXp(a, local[a], NoMission, EventXp, "progress")
        BY <3>2 DEF Ensured
      <4>3. pc'[a] = "log" /\ local'[a].next = "progress"
        BY <1>0, <4>1, <4>2, CallEffect
      <4> QED
        BY <4>3 DEF Updating
    <3>3. CASE Ensured(a) /\ a \notin Events
      BY <1>0, <3>3 DEF Ensured, Return, Goto, TypeOK, Updating
    <3> QED
      BY <1>1, <3>1, <3>2, <3>3
  <2> QED
    BY <1>0, <2>1, <2>2, <2>3, CountQuiet DEF Updating
<1>2. ASSUME NEW a \in Actors, CreateProfile(a) PROVE CountInv'
  BY <1>0, <1>2, CountQuiet DEF CreateProfile, Goto, TypeOK, Updating
<1>3. ASSUME NEW a \in Actors, Assign(a) PROVE CountInv'
  <2>1. PICK m \in local[a].todo : TRUE /\
          LET l == [local[a] EXCEPT !.todo = @ \ {m}]
          IN  IF m \notin Unassigned
              THEN Goto(a, "failed") /\ UNCHANGED <<progress, local>>
              ELSE /\ progress' = [progress EXCEPT ![m] = FirstRow(a, m)]
                   /\ IF FirstRow(a, m).status = "COMPLETED"
                      THEN CallAddXp(a, l, m, Reward[m], "assign")
                      ELSE local' = [local EXCEPT ![a] = l] /\ UNCHANGED pc
    BY <1>3 DEF Assign
  <2> DEFINE l == [local[a] EXCEPT !.todo = @ \ {m}]
  <2>2. l \in Local /\ m \in Missions
    <3>1. local[a] \in Local /\ local[a].todo \in SUBSET Missions
      BY <1>0 DEF TypeOK, Local
    <3>2. m \in Missions /\ local[a].todo \ {m} \in SUBSET Missions
      BY <3>1
    <3> QED
      BY <3>1, <3>2 DEF Local
  <2>3. CASE m \notin Unassigned
    BY <1>0, <2>1, <2>3, CountQuiet DEF Goto, TypeOK, Updating
  <2>4. CASE m \in Unassigned
    <3>1. /\ FirstRow(a, m) \in Row /\ FirstRow(a, m).count <= Required[m]
          /\ FirstRow(a, m).status = "COMPLETED" <=> FirstRow(a, m).count = Required[m]
      BY <2>2 DEF FirstRow, Row
    <3>2. CountsWithinRequired'
      BY <2>1, <2>2, <2>4, <3>1, CountWrite
    <3>3. ~Updating(a)'
      <4>1. CASE FirstRow(a, m).status = "COMPLETED"
        <5>1. CallAddXp(a, l, m, Reward[m], "assign")
          BY <2>1, <2>4, <4>1
        <5>2. local'[a].next = "assign" /\ pc'[a] = "log"
          BY <1>0, <2>2, <5>1, CallEffect
        <5> QED
          BY <5>2 DEF Updating
      <4>2. CASE FirstRow(a, m).status # "COMPLETED"
        BY <1>3, <2>1, <2>4, <4>2 DEF Assign, Updating
      <4> QED
        BY <4>1, <4>2
    <3>4. \A b \in Actors \ {a} : UNCHANGED local[b] /\ UNCHANGED pc[b]
      BY <1>0, <2>1, <2>4 DEF CallAddXp, Goto, TypeOK
    <3> QED
      BY <1>0, <3>2, <3>3, <3>4 DEF CountInv, Updating
  <2> QED
    BY <2>3, <2>4
<1>4. ASSUME NEW a \in Actors, Log(a) \/ Write(a) PROVE CountInv'
  BY <1>0, <1>4, CountQuiet DEF Log, Write, Goto, TypeOK, Updating
<1>5. ASSUME NEW a \in Actors, Read(a) PROVE CountInv'
  <2>1. local[a] \in Local
    BY <1>0 DEF TypeOK
  <2>2. local' = [local EXCEPT ![a] = [local[a] EXCEPT !.xp = profile.xp,
                                                       !.level = profile.level]]
    BY <1>0, <1>5, <2>1 DEF Read, TypeOK, Local
  <2>3. /\ UNCHANGED <<local[a].todo, local[a].counts, local[a].next>>
        /\ \A b \in Actors \ {a} : UNCHANGED local[b]
    BY <1>0, <2>1, <2>2 DEF TypeOK, Local
  <2> QED
    BY <1>0, <1>5, <2>3, CountQuiet DEF Read, Goto, TypeOK, Updating, rows
<1>6. ASSUME NEW e \in Events, FindProgress(e) PROVE CountInv'
  <2>1. /\ UNCHANGED progress
        /\ \A b \in Actors \ {e} : UNCHANGED local[b] /\ UNCHANGED pc[b]
    BY <1>0, <1>6 DEF FindProgress, Goto, TypeOK, rows
  <2>2. local[e] \in Local
    BY <1>0 DEF TypeOK
  <2>3. /\ local'[e].todo = {m \in Missions : /\ progress[m].status = "IN_PROGRESS"
                                              /\ TypeOf[m] = TypeOf[e]}
        /\ local'[e].counts = [m \in Missions |-> progress[m].count]
    BY <1>0, <1>6, <2>2 DEF FindProgress, TypeOK, Local
  <2>4. \A m \in Missions : progress[m].status = "IN_PROGRESS" =>
          progress[m].count < Required[m]
    <3> SUFFICES ASSUME NEW m \in Missions, progress[m].status = "IN_PROGRESS"
                 PROVE  progress[m].count < Required[m]
      OBVIOUS
    <3>1. progress[m] \in Row
      BY <1>0 DEF TypeOK
    <3>2. progress[m].count <= Required[m] /\ progress[m].count # Required[m]
      BY DEF CountInv, CountsWithinRequired, Unassigned
    <3> QED
      BY <3>1, <3>2 DEF Row
  <2>5. \A m \in local'[e].todo : local'[e].counts[m] < Required[m]
    BY <2>3, <2>4
  <2>6. CountsWithinRequired'
    BY <2>1 DEF CountInv, CountsWithinRequired, Unassigned
  <2> QED
    BY <1>0, <2>1, <2>5, <2>6 DEF CountInv, Updating
<1>7. ASSUME NEW e \in Events, Update(e) PROVE CountInv'
  <2>1. PICK m \in local[e].todo : TRUE /\
          LET row == Counted(m, local[e].counts[m] + 1)
              l   == [local[e] EXCEPT !.todo = @ \ {m}]
          IN  /\ progress' = [progress EXCEPT ![m] = row]
              /\ IF row.status = "COMPLETED"
                 THEN CallAddXp(e, l, m, Reward[m], "update")
                 ELSE local' = [local EXCEPT ![e] = l] /\ UNCHANGED pc
    BY <1>7 DEF Update
  <2> DEFINE l   == [local[e] EXCEPT !.todo = @ \ {m}]
             row == Counted(m, local[e].counts[m] + 1)
  <2>2. local[e] \in Local
    BY <1>0 DEF TypeOK
  <2>3. l \in Local /\ m \in Missions /\ local[e].counts[m] \in Nat
    <3>1. local[e].todo \in SUBSET Missions /\ local[e].counts \in [Missions -> Nat]
      BY <2>2 DEF Local
    <3>2. m \in Missions /\ local[e].todo \ {m} \in SUBSET Missions
      BY <3>1
    <3>3. l \in Local
      BY <2>2, <3>2 DEF Local
    <3> QED
      BY <3>1, <3>2, <3>3
  <2>4. local[e].counts[m] < Required[m]
    BY <1>7 DEF Update, Updating, CountInv
  <2>5. /\ row \in Row /\ row.count <= Required[m]
        /\ row.status = "COMPLETED" <=> row.count = Required[m]
    BY <2>3, <2>4 DEF Counted, Row
  <2>6. CountsWithinRequired'
    BY <2>1, <2>3, <2>5, CountWrite
  <2>7. \A b \in Actors \ {e} : UNCHANGED local[b] /\ UNCHANGED pc[b]
    BY <1>0, <2>1 DEF CallAddXp, Goto, TypeOK
  <2>8. local'[e].todo \subseteq local[e].todo /\ local'[e].counts = local[e].counts
    <3>1. l.todo \subseteq local[e].todo /\ l.counts = local[e].counts
      BY <2>2 DEF Local
    <3>2. CASE row.status = "COMPLETED"
      <4>1. CallAddXp(e, l, m, Reward[m], "update")
        BY <2>1, <3>2
      <4>2. e \in Actors /\ m \in Missions \cup {NoMission} /\ Reward[m] \in 0 .. LevelXp
        BY <2>3
      <4> HIDE DEF l
      <4>3. local'[e].todo = l.todo /\ local'[e].counts = l.counts
        BY <1>0, <2>3, <4>1, <4>2, CallEffect
      <4> QED
        BY <3>1, <4>3
    <3>3. CASE row.status # "COMPLETED"
      BY <1>0, <2>1, <3>1, <3>3 DEF TypeOK
    <3> QED
      BY <3>2, <3>3
  <2>9. \A k \in local'[e].todo : local'[e].counts[k] < Required[k]
    BY <1>7, <2>8 DEF Update, Updating, CountInv
  <2> QED
    BY <1>0, <2>6, <2>7, <2>9 DEF CountInv, Updating
<1>8. ASSUME NEW e \in Events, Finish(e) PROVE CountInv'
  BY <1>0, <1>8, CountQuiet DEF Finish, Return, Goto, TypeOK, Updating, rows
<1>9. CASE Certify \/ Crash \/ UNCHANGED vars
  BY <1>0, <1>9, CountQuiet DEF Certify, Crash, vars, rows, Over, Updating
<1> QED
  BY <1>1, <1>2, <1>3, <1>4, <1>5, <1>6, <1>7, <1>8, <1>9
     DEF Next, ProfileStep, XpStep, MissionStep

(* No row counts beyond its requirement and exactly the full ones are      *)
(* completed, although events write back counts they read long before.     *)
THEOREM CountsCorrect == Spec => []CountsWithinRequired
<1>1. CountInv => CountsWithinRequired
  BY DEF CountInv
<1> QED
  BY <1>1, CountInit, CountStep, PTL DEF Spec

-----------------------------------------------------------------------------
(* Rewards.                                                                *)
Paying(a, m) == pc[a] \in {"log", "failed"} /\ local[a].mission = m

PaidInv == TypeOK /\ CompletionPaid

(* Steps that complete no mission and leave every request that is paying,  *)
(* or was lost before it paid, where it is.                                *)
LEMMA PaidQuiet ==
        ASSUME PaidInv, TypeOK', UNCHANGED rewards,
               \A m \in Missions : progress'[m].status = "COMPLETED" =>
                 \/ progress[m].status = "COMPLETED"
                 \/ \E a \in Actors : Paying(a, m)',
               \A a \in Actors : pc[a] \in {"log", "failed"} =>
                 pc'[a] \in {"log", "failed"} /\ UNCHANGED local[a]
        PROVE  PaidInv'
BY DEF PaidInv, CompletionPaid, Paying

(* No mission is completed yet.                                            *)
LEMMA PaidInit == Init => PaidInv
<1> SUFFICES ASSUME Init PROVE PaidInv
  OBVIOUS
<1> QED
  BY TypeInit DEF Init, PaidInv, CompletionPaid

(* Completing a mission and calling addXp is one step of the handler.      *)
LEMMA PaidStep == PaidInv /\ [Next]_vars => PaidInv'
<1> SUFFICES ASSUME PaidInv, [Next]_vars PROVE PaidInv'
  OBVIOUS
<1> USE ConstantFacts
<1>0. TypeOK /\ TypeOK'
  BY TypeStep DEF PaidInv
<1>1. ASSUME NEW a \in Actors, FindProfile(a) \/ CountCertificates(a) \/ Ensured(a)
      PROVE  PaidInv'
  <2>1. UNCHANGED <<progress, rewards>> /\ pc[a] \notin {"log", "failed"}
    BY <1>1 DEF FindProfile, CountCertificates, Ensured, rows
  <2>2. \A b \in Actors \ {a} : UNCHANGED local[b] /\ UNCHANGED pc[b]
    BY <1>0, <1>1 DEF FindProfile, CountCertificates, Ensured, Return, CallAddXp, Goto, TypeOK
  <2> QED
    BY <1>0, <2>1, <2>2, PaidQuiet
<1>2. ASSUME NEW a \in Actors, CreateProfile(a) PROVE PaidInv'
  BY <1>0, <1>2, PaidQuiet DEF CreateProfile, Goto, TypeOK
<1>3. ASSUME NEW a \in Actors, Assign(a) PROVE PaidInv'
  <2>1. PICK m \in local[a].todo : TRUE /\
          LET l == [local[a] EXCEPT !.todo = @ \ {m}]
          IN  IF m \notin Unassigned
              THEN Goto(a, "failed") /\ UNCHANGED <<progress, local>>
              ELSE /\ progress' = [progress EXCEPT ![m] = FirstRow(a, m)]
                   /\ IF FirstRow(a, m).status = "COMPLETED"
                      THEN CallAddXp(a, l, m, Reward[m], "assign")
                      ELSE local' = [local EXCEPT ![a] = l] /\ UNCHANGED pc
    BY <1>3 DEF Assign
  <2> DEFINE l == [local[a] EXCEPT !.todo = @ \ {m}]
  <2>2. l \in Local /\ m \in Missions
    <3>1. local[a] \in Local /\ local[a].todo \in SUBSET Missions
      BY <1>0 DEF TypeOK, Local
    <3>2. m \in Missions /\ local[a].todo \ {m} \in SUBSET Missions
      BY <3>1
    <3> QED
      BY <3>1, <3>2 DEF Local
  <2>3. UNCHANGED rewards /\ pc[a] \notin {"log", "failed"}
    BY <1>3 DEF Assign
  <2>4. \A b \in Actors \ {a} : UNCHANGED local[b] /\ UNCHANGED pc[b]
    BY <1>0, <2>1 DEF CallAddXp, Goto, TypeOK
  <2>5. \A k \in Missions \ {m} : UNCHANGED progress[k]
    BY <1>0, <2>1 DEF TypeOK
  <2>6. CASE progress' = progress
    BY <1>0, <2>3, <2>4, <2>6, PaidQuiet
  <2>7. CASE m \in Unassigned /\ FirstRow(a, m).status # "COMPLETED"
    <3>1. progress'[m].status # "COMPLETED"
      BY <1>0, <2>1, <2>2, <2>7 DEF TypeOK
    <3> QED
      BY <1>0, <2>3, <2>4, <2>5, <3>1, PaidQuiet
  <2>8. CASE m \in Unassigned /\ FirstRow(a, m).status = "COMPLETED"
    <3>1. CallAddXp(a, l, m, Reward[m], "assign")
      BY <2>1, <2>8
    <3>2. m \in Missions \cup {NoMission} /\ Reward[m] \in 0 .. LevelXp
      BY <2>2
    <3> HIDE DEF l
    <3>3. pc'[a] = "log" /\ local'[a].mission = m
      BY <1>0, <2>2, <3>1, <3>2, CallEffect
    <3>4. Paying(a, m)'
      BY <3>3 DEF Paying
    <3> QED
      BY <1>0, <2>3, <2>4, <2>5, <3>4, PaidQuiet
  <2> QED
    BY <2>1, <2>6, <2>7, <2>8
<1>4. ASSUME NEW a \in Actors, Log(a) PROVE PaidInv'
  <2>1. local[a].mission \in Missions \cup {NoMission}
    BY <1>0 DEF TypeOK, Local
  <2>2. /\ UNCHANGED <<progress, local>>
        /\ \A b \in Actors \ {a} : UNCHANGED pc[b]
    BY <1>0, <1>4 DEF Log, Goto, TypeOK
  <2>3. ASSUME NEW m \in Missions, rewards[m] > 0 \/ local[a].mission = m
        PROVE  rewards'[m] > 0
    BY <1>0, <1>4, <2>3 DEF Log, TypeOK
  <2> QED
    BY <1>0, <2>2, <2>3 DEF PaidInv, CompletionPaid
<1>5. ASSUME NEW a \in Actors, Read(a) \/ Write(a) PROVE PaidInv'
  <2>1. UNCHANGED <<progress, rewards>> /\ pc[a] \notin {"log", "failed"}
    BY <1>5 DEF Read, Write, rows
  <2>2. \A b \in Actors \ {a} : UNCHANGED local[b] /\ UNCHANGED pc[b]
    BY <1>0, <1>5 DEF Read, Write, Goto, TypeOK
  <2> QED
    BY <1>0, <2>1, <2>2, PaidQuiet
<1>6. ASSUME NEW e \in Events, FindProgress(e) \/ Finish(e) PROVE PaidInv'
  <2>1. UNCHANGED <<progress, rewards>> /\ pc[e] \notin {"log", "failed"}
    BY <1>6 DEF FindProgress, Finish, rows
  <2>2. \A b \in Actors \ {e} : UNCHANGED local[b] /\ UNCHANGED pc[b]
    BY <1>0, <1>6 DEF FindProgress, Finish, Return, Goto, TypeOK
  <2> QED
    BY <1>0, <2>1, <2>2, PaidQuiet
<1>7. ASSUME NEW e \in Events, Update(e) PROVE PaidInv'
  <2>1. PICK m \in local[e].todo : TRUE /\
          LET row == Counted(m, local[e].counts[m] + 1)
              l   == [local[e] EXCEPT !.todo = @ \ {m}]
          IN  /\ progress' = [progress EXCEPT ![m] = row]
              /\ IF row.status = "COMPLETED"
                 THEN CallAddXp(e, l, m, Reward[m], "update")
                 ELSE local' = [local EXCEPT ![e] = l] /\ UNCHANGED pc
    BY <1>7 DEF Update
  <2> DEFINE l   == [local[e] EXCEPT !.todo = @ \ {m}]
             row == Counted(m, local[e].counts[m] + 1)
  <2>2. l \in Local /\ m \in Missions
    <3>1. local[e] \in Local /\ local[e].todo \in SUBSET Missions
      BY <1>0 DEF TypeOK, Local
    <3>2. m \in Missions /\ local[e].todo \ {m} \in SUBSET Missions
      BY <3>1
    <3> QED
      BY <3>1, <3>2 DEF Local
  <2>3. UNCHANGED rewards /\ pc[e] \notin {"log", "failed"}
    BY <1>7 DEF Update
  <2>4. \A b \in Actors \ {e} : UNCHANGED local[b] /\ UNCHANGED pc[b]
    BY <1>0, <2>1 DEF CallAddXp, Goto, TypeOK
  <2>5. /\ \A k \in Missions \ {m} : UNCHANGED progress[k]
        /\ progress'[m] = row
    BY <1>0, <2>1, <2>2 DEF TypeOK
  <2>6. CASE row.status # "COMPLETED"
    BY <1>0, <2>3, <2>4, <2>5, <2>6, PaidQuiet
  <2>7. CASE row.status = "COMPLETED"
    <3>1. CallAddXp(e, l, m, Reward[m], "update")
      BY <2>1, <2>7
    <3>2. e \in Actors /\ m \in Missions \cup {NoMission} /\ Reward[m] \in 0 .. LevelXp
      BY <2>2
    <3> HIDE DEF l, row
    <3>3. pc'[e] = "log" /\ local'[e].mission = m
      BY <1>0, <2>2, <3>1, <3>2, CallEffect
    <3>4. Paying(e, m)'
      BY <3>3 DEF Paying
    <3> QED
      BY <1>0, <2>3, <2>4, <2>5, <3>2, <3>4, PaidQuiet
  <2> QED
    BY <2>6, <2>7
<1>8. CASE Certify \/ Crash \/ UNCHANGED vars
  BY <1>0, <1>8, PaidQuiet DEF Certify, Crash, vars, rows, Over, TypeOK
<1> QED
  BY <1>1, <1>2, <1>3, <1>4, <1>5, <1>6, <1>7, <1>8
     DEF Next, ProfileStep, XpStep, MissionStep

(* A completed mission was paid, is about to be, or lost its reward with   *)
(* the request that completed it.                                          *)
THEOREM CompletionsPaid == Spec => []CompletionPaid
<1>1. PaidInv => CompletionPaid
  BY DEF PaidInv
<1> QED
  BY <1>1, PaidInit, PaidStep, PTL DEF Spec

-----------------------------------------------------------------------------
(* The history and the profile.  Each unit of XP in the history is         *)
(* numbered: the profile's XP are units of it, an addXp that has logged    *)
(* its amount but not read the profile owns units nobody else has, and     *)
(* what it will write back are the units it read together with its own.  A *)
(* lost update drops units, and no step counts one twice.                  *)
Units == 1 .. logged

Split(units, own, held) ==
  /\ Cardinality(units) = profile.xp
  /\ \A a \in Actors : pc[a] = "read" =>
       /\ Cardinality(own[a]) = local[a].amount
       /\ own[a] \cap units = {}
       /\ \A b \in Actors \ {a} : pc[b] = "read" => own[a] \cap own[b] = {}
       /\ \A b \in Actors : pc[b] = "write" => own[a] \cap held[b] = {}
  /\ \A a \in Actors : pc[a] = "write" =>
       Cardinality(held[a]) = local[a].xp + local[a].amount

HistoryInv ==
  /\ TypeOK
  /\ \E units \in SUBSET Units, own, held \in [Actors -> SUBSET Units] :
       Split(units, own, held)

(* A set of units is finite and has at most as many as the history.        *)
LEMMA UnitsFinite ==
        ASSUME TypeOK, NEW units \in SUBSET Units
        PROVE  /\ IsFiniteSet(units) /\ Cardinality(units) \in Nat
               /\ Cardinality(units) <= logged
<1>1. logged \in Nat
  BY DEF TypeOK
<1>2. IsFiniteSet(Units) /\ Cardinality(Units) = logged
  <2>1. IsFiniteSet(1 .. logged) /\ Cardinality(1 .. logged) = IF 1 > logged
                                                             THEN 0 ELSE logged - 1 + 1
    BY <1>1, FS_Interval
  <2> QED
    BY <1>1, <2>1 DEF Units
<1>3. IsFiniteSet(units) /\ Cardinality(units) <= Cardinality(Units)
  BY <1>2, FS_Subset
<1>4. Cardinality(units) \in Nat
  BY <1>3, FS_CardinalityType
<1> QED
  BY <1>2, <1>3, <1>4

(* Steps that log nothing, and leave the profile's XP and what the calls   *)
(* of addXp under way own and hold alone.                                  *)
LEMMA HistoryQuiet ==
        ASSUME HistoryInv, TypeOK', UNCHANGED logged, profile'.xp = profile.xp,
               \A a \in Actors : pc'[a] \in {"read", "write"} =>
                 /\ pc'[a] = pc[a]
                 /\ UNCHANGED <<local[a].amount, local[a].xp>>
        PROVE  HistoryInv'
<1>1. PICK units \in SUBSET Units, own \in [Actors -> SUBSET Units],
           held \in [Actors -> SUBSET Units] : Split(units, own, held)
  BY DEF HistoryInv
<1>2. Units' = Units
  BY DEF Units
<1>3. Split(units, own, held)'
  BY <1>1 DEF Split
<1> QED
  BY <1>1, <1>2, <1>3 DEF HistoryInv

(* Nothing has been logged.                                                *)
LEMMA HistoryInit == Init => HistoryInv
<1> SUFFICES ASSUME Init PROVE HistoryInv
  OBVIOUS
<1> DEFINE none == [a \in Actors |-> {}]
<1>1. Cardinality({}) = 0
  BY FS_EmptySet
<1>2. Split({}, none, none)
  BY <1>1 DEF Init, Split
<1>3. {} \in SUBSET Units /\ none \in [Actors -> SUBSET Units]
  OBVIOUS
<1> HIDE DEF none
<1> QED
  BY <1>2, <1>3, TypeInit DEF HistoryInv

(* Logging makes new units, that only the request that logs them owns.     *)
LEMMA HistoryLog ==
        ASSUME HistoryInv, TypeOK', NEW a \in Actors, Log(a) PROVE HistoryInv'
<1>0. TypeOK
  BY DEF HistoryInv
<1>1. PICK units \in SUBSET Units, own \in [Actors -> SUBSET Units],
           held \in [Actors -> SUBSET Units] : Split(units, own, held)
  BY DEF HistoryInv
<1> DEFINE n    == local[a].amount
           mine == (logged + 1) .. (logged + n)
<1>2. logged \in Nat /\ n \in Nat /\ logged' = logged + n
  BY <1>0, ConstantFacts DEF Log, TypeOK, Local
<1>3. /\ pc[a] = "log" /\ pc'[a] = "read" /\ UNCHANGED <<profile, local>>
      /\ \A b \in Actors \ {a} : pc'[b] = pc[b]
  BY <1>0 DEF Log, Goto, TypeOK
<1>4. Cardinality(mine) = n
  <2>1. logged + 1 \in Int /\ logged + n \in Int
    BY <1>2
  <2>2. Cardinality(mine) = IF logged + 1 > logged + n THEN 0
                                                 ELSE (logged + n) - (logged + 1) + 1
    BY <2>1, FS_Interval, Zenon
  <2> QED
    BY <1>2, <2>2
<1>5. Units \subseteq Units' /\ mine \subseteq Units' /\ mine \cap Units = {}
  BY <1>2 DEF Units
<1> HIDE DEF mine, n
<1>6. PICK new : new = [own EXCEPT ![a] = mine]
  OBVIOUS
<1>7. /\ units \in SUBSET Units' /\ held \in [Actors -> SUBSET Units']
      /\ new \in [Actors -> SUBSET Units']
  BY <1>5, <1>6
<1>8. /\ new[a] = mine /\ \A b \in Actors \ {a} : new[b] = own[b]
      /\ mine \cap units = {}
      /\ \A b \in Actors : mine \cap own[b] = {} /\ mine \cap held[b] = {}
  BY <1>5, <1>6
<1>9. Split(units, new, held)'
  <2>1. Cardinality(units) = profile'.xp
    BY <1>1, <1>3 DEF Split
  <2>2. ASSUME NEW c \in Actors, pc'[c] = "read"
        PROVE  /\ Cardinality(new[c]) = local'[c].amount
               /\ new[c] \cap units = {}
               /\ \A b \in Actors \ {c} : pc'[b] = "read" => new[c] \cap new[b] = {}
               /\ \A b \in Actors : pc'[b] = "write" => new[c] \cap held[b] = {}
    <3>1. CASE c = a
      BY <1>3, <1>4, <1>8, <3>1 DEF n
    <3>2. CASE c # a
      BY <1>1, <1>3, <1>8, <2>2, <3>2 DEF Split
    <3> QED
      BY <3>1, <3>2
  <2>3. \A c \in Actors : pc'[c] = "write" => Cardinality(held[c]) = local'[c].xp + local'[c].amount
    BY <1>1, <1>3 DEF Split
  <2> QED
    BY <2>1, <2>2, <2>3 DEF Split
<1> QED
  BY <1>7, <1>9 DEF HistoryInv

(* What a request will write back are the units of the profile and its     *)
(* own.                                                                    *)
LEMMA HistoryRead ==
        ASSUME HistoryInv, TypeOK', NEW a \in Actors, Read(a) PROVE HistoryInv'
<1>0. TypeOK /\ local[a] \in Local
  BY DEF HistoryInv, TypeOK
<1>1. PICK units \in SUBSET Units, own \in [Actors -> SUBSET Units],
           held \in [Actors -> SUBSET Units] : Split(units, own, held)
  BY DEF HistoryInv
<1> DEFINE sum == units \cup own[a]
           new == [held EXCEPT ![a] = sum]
<1>2. /\ pc[a] = "read" /\ pc'[a] = "write" /\ UNCHANGED rows
      /\ \A b \in Actors \ {a} : pc'[b] = pc[b]
  BY <1>0 DEF Read, Goto, TypeOK
<1>3. /\ local'[a].xp = profile.xp /\ local'[a].amount = local[a].amount
      /\ \A b \in Actors \ {a} : UNCHANGED local[b]
  <2>1. local' = [local EXCEPT ![a] = [local[a] EXCEPT !.xp = profile.xp,
                                                       !.level = profile.level]]
    BY <1>0 DEF Read, TypeOK, Local
  <2> QED
    BY <1>0, <2>1 DEF TypeOK, Local
<1>4. Units' = Units
  BY <1>2 DEF Units, rows
<1>5. sum \in SUBSET Units /\ new \in [Actors -> SUBSET Units]
  OBVIOUS
<1>6. Cardinality(sum) = profile.xp + local[a].amount
  <2>1. /\ IsFiniteSet(units) /\ Cardinality(units) \in Nat
        /\ IsFiniteSet(own[a]) /\ Cardinality(own[a]) \in Nat
    BY <1>0, UnitsFinite
  <2>2. /\ Cardinality(units) = profile.xp /\ Cardinality(own[a]) = local[a].amount
        /\ own[a] \cap units = {}
    BY <1>1, <1>2 DEF Split
  <2>3. Cardinality(units \cup own[a]) =
          Cardinality(units) + Cardinality(own[a]) - Cardinality(units \cap own[a])
    BY <2>1, FS_Union
  <2>4. Cardinality(units \cap own[a]) = 0
    <3>1. units \cap own[a] = {}
      BY <2>2
    <3> QED
      BY <3>1, FS_EmptySet
  <2> QED
    BY <2>1, <2>2, <2>3, <2>4
<1>7. new[a] = sum /\ \A b \in Actors \ {a} : new[b] = held[b]
  BY <1>1
<1> HIDE DEF new
<1>8. Split(units, own, new)'
  <2>1. Cardinality(units) = profile'.xp
    BY <1>1, <1>2 DEF Split, rows
  <2>2. ASSUME NEW c \in Actors, pc'[c] = "read"
        PROVE  /\ Cardinality(own[c]) = local'[c].amount
               /\ own[c] \cap units = {}
               /\ \A b \in Actors \ {c} : pc'[b] = "read" => own[c] \cap own[b] = {}
               /\ \A b \in Actors : pc'[b] = "write" => own[c] \cap new[b] = {}
    <3>1. c # a /\ pc[c] = "read" /\ local'[c] = local[c]
      BY <1>2, <1>3, <2>2
    <3>2. own[c] \cap units = {} /\ own[c] \cap own[a] = {}
      BY <1>1, <1>2, <3>1 DEF Split
    <3>3. own[c] \cap new[a] = {}
      BY <1>7, <3>2
    <3>4. \A b \in Actors \ {a} : pc'[b] = "write" => own[c] \cap new[b] = {}
      BY <1>1, <1>2, <1>7, <3>1 DEF Split
    <3>5. \A b \in Actors \ {c} : pc'[b] = "read" => own[c] \cap own[b] = {}
      BY <1>1, <1>2, <3>1 DEF Split
    <3>6. Cardinality(own[c]) = local'[c].amount
      BY <1>1, <3>1 DEF Split
    <3> QED
      BY <3>2, <3>3, <3>4, <3>5, <3>6
  <2>3. ASSUME NEW c \in Actors, pc'[c] = "write"
        PROVE  Cardinality(new[c]) = local'[c].xp + local'[c].amount
    <3>1. CASE c = a
      BY <1>3, <1>6, <1>7, <3>1
    <3>2. CASE c # a
      BY <1>1, <1>2, <1>3, <1>7, <2>3, <3>2 DEF Split
    <3> QED
      BY <3>1, <3>2
  <2> QED
    BY <2>1, <2>2, <2>3 DEF Split
<1> QED
  BY <1>1, <1>4, <1>5, <1>8 DEF HistoryInv

(* The units written back replace those of the profile.                    *)
LEMMA HistoryWrite ==
        ASSUME HistoryInv, TypeOK', NEW a \in Actors, Write(a) PROVE HistoryInv'
<1>0. TypeOK /\ local[a] \in Local
  BY DEF HistoryInv, TypeOK
<1>1. PICK units \in SUBSET Units, own \in [Actors -> SUBSET Units],
           held \in [Actors -> SUBSET Units] : Split(units, own, held)
  BY DEF HistoryInv
<1>2. /\ pc[a] = "write" /\ pc'[a] \notin {"read", "write"}
      /\ UNCHANGED <<logged, local>>
      /\ \A b \in Actors \ {a} : pc'[b] = pc[b]
  BY <1>0 DEF Write, Goto, TypeOK, Local
<1>3. profile'.xp = local[a].xp + local[a].amount
  BY <1>0 DEF Write, TypeOK
<1>4. Units' = Units
  BY <1>2 DEF Units
<1>5. Split(held[a], own, held)'
  <2>1. Cardinality(held[a]) = profile'.xp
    BY <1>1, <1>2, <1>3 DEF Split
  <2>2. \A c \in Actors : pc'[c] = "read" =>
          /\ Cardinality(own[c]) = local'[c].amount
          /\ own[c] \cap held[a] = {}
          /\ \A b \in Actors \ {c} : pc'[b] = "read" => own[c] \cap own[b] = {}
          /\ \A b \in Actors : pc'[b] = "write" => own[c] \cap held[b] = {}
    BY <1>1, <1>2 DEF Split
  <2>3. \A c \in Actors : pc'[c] = "write" => Cardinality(held[c]) = local'[c].xp + local'[c].amount
    BY <1>1, <1>2 DEF Split
  <2> QED
    BY <2>1, <2>2, <2>3 DEF Split
<1>6. held[a] \in SUBSET Units
  BY <1>1
<1> QED
  BY <1>1, <1>4, <1>5, <1>6 DEF HistoryInv

(* Creating the profile starts it without a unit.                          *)
LEMMA HistoryCreate ==
        ASSUME HistoryInv, TypeOK', NEW a \in Actors, CreateProfile(a) PROVE HistoryInv'
<1>0. TypeOK
  BY DEF HistoryInv
<1>1. /\ UNCHANGED <<logged, local>> /\ pc[a] = "create"
      /\ pc'[a] \in {"missions", "failed"}
      /\ \A b \in Actors \ {a} : pc'[b] = pc[b]
  BY <1>0 DEF CreateProfile, Goto, TypeOK
<1>2. CASE profile.exists
  <2>1. UNCHANGED profile
    BY <1>2 DEF CreateProfile
  <2> QED
    BY <1>1, <2>1, HistoryQuiet
<1>3. CASE ~profile.exists
  <2>1. PICK units \in SUBSET Units, own \in [Actors -> SUBSET Units],
             held \in [Actors -> SUBSET Units] : Split(units, own, held)
    BY DEF HistoryInv
  <2>2. profile'.xp = 0 /\ Cardinality({}) = 0
    BY <1>3, FS_EmptySet DEF CreateProfile
  <2>3. Split({}, own, held)'
    BY <1>1, <2>1, <2>2 DEF Split
  <2>4. Units' = Units /\ {} \in SUBSET Units
    BY <1>1 DEF Units
  <2> QED
    BY <2>1, <2>3, <2>4 DEF HistoryInv
<1> QED
  BY <1>2, <1>3

(* Units are made by Log and move only in the three steps of addXp.        *)
LEMMA HistoryStep == HistoryInv /\ [Next]_vars => HistoryInv'
<1> SUFFICES ASSUME HistoryInv, [Next]_vars PROVE HistoryInv'
  OBVIOUS
<1>0. TypeOK /\ TypeOK'
  BY TypeStep DEF HistoryInv
<1>1. ASSUME NEW a \in Actors,
             FindProfile(a) \/ CountCertificates(a) \/ Assign(a) \/ Ensured(a)
      PROVE  HistoryInv'
  <2>1. UNCHANGED <<logged, profile>>
    BY <1>1 DEF FindProfile, CountCertificates, Assign, Ensured, rows
  <2>2. \/ pc' = pc /\ pc[a] = "assign"
        \/ \E l \in PCs \ {"read", "write"} : pc' = [pc EXCEPT ![a] = l]
    BY <1>1 DEF FindProfile, CountCertificates, Assign, Ensured, Return, CallAddXp, Goto, PCs
  <2>3. \A b \in Actors \ {a} : UNCHANGED local[b]
    BY <1>0, <1>1 DEF FindProfile, CountCertificates, Assign, Ensured, Return, CallAddXp, TypeOK
  <2> QED
    BY <1>0, <2>1, <2>2, <2>3, HistoryQuiet DEF TypeOK
<1>2. ASSUME NEW a \in Actors, CreateProfile(a) \/ Log(a) \/ Read(a) \/ Write(a)
      PROVE  HistoryInv'
  BY <1>0, <1>2, HistoryCreate, HistoryLog, HistoryRead, HistoryWrite
<1>3. ASSUME NEW e \in Events, MissionStep(e) PROVE HistoryInv'
  <2>0. e \in Actors
    BY DEF Actors
  <2>1. UNCHANGED <<logged, profile>>
    BY <1>3 DEF MissionStep, FindProgress, Update, Finish, rows
  <2>2. \/ pc' = pc /\ pc[e] = "update"
        \/ \E l \in PCs \ {"read", "write"} : pc' = [pc EXCEPT ![e] = l]
    BY <1>3 DEF MissionStep, FindProgress, Update, Finish, Return, CallAddXp, Goto, PCs
  <2>3. \A b \in Actors \ {e} : UNCHANGED local[b]
    BY <1>0, <1>3, <2>0 DEF MissionStep, FindProgress, Update, Finish, Return, CallAddXp, TypeOK
  <2> QED
    BY <1>0, <2>0, <2>1, <2>2, <2>3, HistoryQuiet DEF TypeOK
<1>4. CASE Certify \/ Crash \/ UNCHANGED vars
  BY <1>0, <1>4, HistoryQuiet DEF Certify, Crash, vars, rows, Over
<1> QED
  BY <1>1, <1>2, <1>3, <1>4 DEF Next, ProfileStep, XpStep

(* The units of the profile are among those of the history.                *)
LEMMA HistoryCovers == HistoryInv => HistoryCoversXp
<1> SUFFICES ASSUME HistoryInv PROVE HistoryCoversXp
  OBVIOUS
<1>1. PICK units \in SUBSET Units, own \in [Actors -> SUBSET Units],
           held \in [Actors -> SUBSET Units] : Split(units, own, held)
  BY DEF HistoryInv
<1>2. Cardinality(units) <= logged /\ Cardinality(units) = profile.xp
  BY <1>1, UnitsFinite DEF HistoryInv, Split
<1> QED
  BY <1>2 DEF HistoryCoversXp

-----------------------------------------------------------------------------
(* The rewards of a mission of one event.  Only the requests in flight     *)
(* when its row was completed can still pay for it, and the reward and the *)
(* requests that are busy with it are bounded together.                    *)
Holds(a, m) == Updating(a) /\ m \in local[a].todo

Pays(a, m) == pc[a] = "log" /\ local[a].mission = m

Busy(m) == {a \in Actors : Holds(a, m) \/ Pays(a, m)}

Bound(m) == IF m = Welcome THEN 1 ELSE MaxInFlight

RewardOK(m) ==
  /\ progress[m].status = "NONE" => \A a \in Actors : ~Holds(a, m)
  /\ progress[m].status # "COMPLETED" =>
       rewards[m] = 0 /\ \A a \in Actors : ~Pays(a, m)
  /\ progress[m].status = "COMPLETED" => rewards[m] + Cardinality(Busy(m)) <= Bound(m)

(* No event works on the welcome mission: its row is completed at once.    *)
WelcomeOK ==
  /\ progress[Welcome].status # "IN_PROGRESS"
  /\ \A a \in Actors : ~Holds(a, Welcome)

FlightOK == IsFiniteSet(InFlight) /\ Cardinality(InFlight) <= MaxInFlight

RewardInv ==
  /\ TypeOK
  /\ FlightOK
  /\ WelcomeOK
  /\ \A a \in Actors : pc[a] = "log" => local[a].mission \notin local[a].todo
  /\ \A m \in Missions : Required[m] = 1 => RewardOK(m)

(* Only requests in flight are busy with a mission.                        *)
LEMMA BusyInFlight ==
        ASSUME TypeOK, FlightOK, NEW m \in Missions, NEW S \in SUBSET Busy(m)
        PROVE  IsFiniteSet(S) /\ Cardinality(S) \in Nat /\ Cardinality(S) <= MaxInFlight
<1>1. S \in SUBSET InFlight
  BY DEF Busy, Holds, Pays, Updating, InFlight, Over
<1>2. IsFiniteSet(S) /\ Cardinality(S) <= Cardinality(InFlight)
  BY <1>1, FS_Subset DEF FlightOK
<1>3. Cardinality(S) \in Nat /\ Cardinality(InFlight) \in Nat
  BY <1>2, FS_CardinalityType DEF FlightOK
<1>4. MaxInFlight \in Nat
  BY MissionsAssumption
<1> QED
  BY <1>2, <1>3, <1>4 DEF FlightOK

(* Only the first step of a request adds to those in flight.               *)
LEMMA FlightStep == TypeOK /\ FlightOK /\ [Next]_vars => FlightOK'
<1> SUFFICES ASSUME TypeOK, FlightOK, [Next]_vars PROVE FlightOK'
  OBVIOUS
<1>0. MaxInFlight \in Nat /\ Cardinality(InFlight) \in Nat
  BY MissionsAssumption, FS_CardinalityType DEF FlightOK
<1>1. PICK fleet : fleet = InFlight'
  OBVIOUS
<1>2. CASE \E a \in Actors : FindProfile(a)
  <2>1. PICK a \in Actors : FindProfile(a)
    BY <1>2
  <2>2. fleet \in SUBSET (InFlight \cup {a}) /\ Cardinality(InFlight) < MaxInFlight
    BY <1>1, <2>1 DEF FindProfile, Goto, InFlight, TypeOK
  <2>3. /\ IsFiniteSet(InFlight \cup {a})
        /\ Cardinality(InFlight \cup {a}) =
             IF a \in InFlight THEN Cardinality(InFlight) ELSE Cardinality(InFlight) + 1
    BY FS_AddElement DEF FlightOK
  <2>4. /\ IsFiniteSet(fleet) /\ Cardinality(fleet) <= Cardinality(InFlight \cup {a})
        /\ Cardinality(fleet) \in Nat
    BY <2>2, <2>3, FS_Subset, FS_CardinalityType
  <2>5. Cardinality(fleet) <= MaxInFlight
    BY <1>0, <2>2, <2>3, <2>4
  <2> QED
    BY <1>1, <2>4, <2>5 DEF FlightOK
<1>3. CASE ~\E a \in Actors : FindProfile(a)
  <2>1. \A b \in Actors : pc[b] \in Over => pc'[b] \in Over
    <3>1. ASSUME NEW a \in Actors,
                 CreateProfile(a) \/ CountCertificates(a) \/ Assign(a) \/ Ensured(a) \/ XpStep(a)
          PROVE  /\ pc[a] \notin Over /\ \A b \in Actors \ {a} : pc'[b] = pc[b]
      BY <3>1 DEF CreateProfile, CountCertificates, Assign, Ensured, Return, CallAddXp, Goto,
                  XpStep, Log, Read, Write, Over, TypeOK
    <3>2. ASSUME NEW a \in Events, MissionStep(a)
          PROVE  /\ pc[a] \notin Over /\ \A b \in Actors \ {a} : pc'[b] = pc[b]
      BY <3>2 DEF MissionStep, FindProgress, Update, Finish, Return, CallAddXp, Goto,
                  Over, TypeOK
    <3>3. CASE Certify \/ Crash \/ UNCHANGED vars
      BY <3>3 DEF Certify, Crash, Over, vars
    <3> QED
      BY <1>3, <3>1, <3>2, <3>3 DEF Next, ProfileStep
  <2>2. fleet \in SUBSET InFlight
    BY <1>1, <2>1 DEF InFlight
  <2>3. /\ IsFiniteSet(fleet) /\ Cardinality(fleet) <= Cardinality(InFlight)
        /\ Cardinality(fleet) \in Nat
    BY <2>2, FS_Subset, FS_CardinalityType DEF FlightOK
  <2>4. Cardinality(fleet) <= MaxInFlight
    BY <1>0, <2>3 DEF FlightOK
  <2> QED
    BY <1>1, <2>3, <2>4 DEF FlightOK
<1> QED
  BY <1>2, <1>3

(* Steps that complete no row of the mission and pay no reward for it, and *)
(* after which no other request is busy with it.                           *)
LEMMA RewardKept ==
        ASSUME TypeOK, FlightOK, NEW m \in Missions, RewardOK(m), TypeOK',
               UNCHANGED <<progress[m], rewards[m]>>,
               \A a \in Actors : Holds(a, m)' =>
                 Holds(a, m) \/ progress[m].status = "IN_PROGRESS" \/ Pays(a, m),
               \A a \in Actors : Pays(a, m)' =>
                 Pays(a, m) \/ (Holds(a, m) /\ progress[m].status = "COMPLETED"),
               progress[m].status = "NONE" => \A a \in Actors : ~Holds(a, m)'
        PROVE  RewardOK(m)'
<1>1. PICK busy : busy = Busy(m)'
  OBVIOUS
<1>2. CASE progress[m].status = "COMPLETED"
  <2>1. busy \in SUBSET Busy(m)
    BY <1>1, <1>2 DEF Busy
  <2>2. IsFiniteSet(Busy(m)) /\ Cardinality(Busy(m)) \in Nat
    BY BusyInFlight
  <2>3. Cardinality(busy) <= Cardinality(Busy(m))
    BY <2>1, <2>2, FS_Subset
  <2>4. IsFiniteSet(busy) /\ Cardinality(busy) \in Nat
    BY <2>1, BusyInFlight
  <2>5. rewards[m] \in Nat /\ Bound(m) \in Nat
    BY MissionsAssumption DEF TypeOK, Bound
  <2>6. rewards[m] + Cardinality(Busy(m)) <= Bound(m)
    BY <1>2 DEF RewardOK
  <2>7. rewards[m] + Cardinality(busy) <= Bound(m)
    BY <2>2, <2>3, <2>4, <2>5, <2>6
  <2> QED
    BY <1>1, <1>2, <2>7 DEF RewardOK, Bound
<1>3. CASE progress[m].status # "COMPLETED"
  BY <1>3 DEF RewardOK
<1> QED
  BY <1>2, <1>3

(* Steps that touch no row and no reward, and start no loop over missions. *)
LEMMA RewardQuiet ==
        ASSUME RewardInv, TypeOK', FlightOK', UNCHANGED <<progress, rewards>>,
               \A a \in Actors : Updating(a)' =>
                 Updating(a) /\ local'[a].todo \subseteq local[a].todo,
               \A a \in Actors : pc'[a] = "log" =>
                 \/ pc[a] = "log" /\ UNCHANGED local[a]
                 \/ local'[a].mission = NoMission
        PROVE  RewardInv'
<1>1. NoMission \notin Missions
  BY ConstantFacts
<1>2. \A a \in Actors, m \in Missions : Holds(a, m)' => Holds(a, m)
  BY DEF Holds
<1>3. \A a \in Actors, m \in Missions : Pays(a, m)' => Pays(a, m)
  BY <1>1 DEF Pays
<1>4. WelcomeOK'
  BY <1>2, MissionsAssumption DEF RewardInv, WelcomeOK
<1>5. ASSUME NEW m \in Missions, Required[m] = 1 PROVE RewardOK(m)'
  <2>1. RewardOK(m) /\ TypeOK /\ FlightOK
    BY <1>5 DEF RewardInv
  <2> QED
    BY <1>2, <1>3, <2>1, RewardKept DEF RewardOK
<1>6. \A a \in Actors : pc'[a] = "log" => local'[a].mission \notin local'[a].todo
  <2> SUFFICES ASSUME NEW a \in Actors, pc'[a] = "log"
               PROVE  local'[a].mission \notin local'[a].todo
    OBVIOUS
  <2>1. local'[a].todo \in SUBSET Missions
    BY DEF TypeOK, Local
  <2> QED
    BY <1>1, <2>1 DEF RewardInv
<1> QED
  BY <1>4, <1>5, <1>6 DEF RewardInv

(* No request has come.                                                    *)
LEMMA RewardInit == Init => RewardInv
<1> SUFFICES ASSUME Init PROVE RewardInv
  OBVIOUS
<1>1. InFlight = {} /\ IsFiniteSet({}) /\ Cardinality({}) = 0
  BY FS_EmptySet DEF Init, InFlight, Over
<1>2. \A a \in Actors, m \in Missions : ~Holds(a, m) /\ ~Pays(a, m)
  BY DEF Init, Holds, Pays, Updating
<1>3. FlightOK
  BY <1>1, MissionsAssumption DEF FlightOK
<1>4. WelcomeOK
  BY <1>2, MissionsAssumption DEF Init, WelcomeOK
<1>5. \A m \in Missions : RewardOK(m)
  BY <1>2 DEF Init, RewardOK
<1> QED
  BY <1>3, <1>4, <1>5, TypeInit DEF Init, RewardInv

(* A reward is paid by a request that was busy with its mission.           *)
LEMMA RewardLog ==
        ASSUME RewardInv, TypeOK', FlightOK', NEW a \in Actors, Log(a) PROVE RewardInv'
<1>0. TypeOK /\ FlightOK /\ local[a] \in Local
  BY DEF RewardInv, TypeOK
<1>1. /\ pc[a] = "log" /\ pc'[a] = "read" /\ UNCHANGED <<progress, local>>
      /\ \A b \in Actors \ {a} : pc'[b] = pc[b]
  BY <1>0 DEF Log, Goto, TypeOK
<1>2. \A b \in Actors : Updating(b)' <=> Updating(b)
  BY <1>1 DEF Updating
<1>3. \A b \in Actors, m \in Missions : Holds(b, m)' <=> Holds(b, m)
  BY <1>1, <1>2 DEF Holds
<1>4. \A b \in Actors, m \in Missions : Pays(b, m)' <=> Pays(b, m) /\ b # a
  BY <1>1 DEF Pays
<1>5. WelcomeOK'
  BY <1>1, <1>3, MissionsAssumption DEF RewardInv, WelcomeOK
<1>6. ASSUME NEW m \in Missions, Required[m] = 1 PROVE RewardOK(m)'
  <2>0. RewardOK(m)
    BY <1>6 DEF RewardInv
  <2>1. CASE local[a].mission # m
    <3>1. UNCHANGED <<progress[m], rewards[m]>>
      BY <1>0, <1>1, <2>1 DEF Log, TypeOK
    <3> QED
      BY <1>0, <1>3, <1>4, <2>0, <3>1, RewardKept DEF RewardOK
  <2>2. CASE local[a].mission = m
    <3>1. Pays(a, m) /\ progress[m].status = "COMPLETED"
      BY <1>1, <2>0, <2>2 DEF Pays, RewardOK
    <3>2. ~Holds(a, m)
      BY <1>1, <2>2 DEF RewardInv, Holds
    <3>3. rewards'[m] = rewards[m] + 1
      <4>1. m # NoMission
        BY ConstantFacts
      <4> QED
        BY <1>0, <2>2, <4>1 DEF Log, TypeOK
    <3>4. PICK busy : busy = Busy(m)'
      OBVIOUS
    <3>5. busy = Busy(m) \ {a} /\ a \in Busy(m)
      BY <1>3, <1>4, <3>1, <3>2, <3>4 DEF Busy
    <3>6. IsFiniteSet(Busy(m)) /\ Cardinality(Busy(m)) \in Nat
      BY <1>0, BusyInFlight
    <3>7. Cardinality(busy) = Cardinality(Busy(m)) - 1
      BY <3>5, <3>6, FS_RemoveElement
    <3>8. rewards[m] \in Nat /\ Bound(m) \in Nat
      BY <1>0, MissionsAssumption DEF TypeOK, Bound
    <3>9. rewards[m] + Cardinality(Busy(m)) <= Bound(m)
      BY <2>0, <3>1 DEF RewardOK
    <3>10. rewards'[m] + Cardinality(busy) <= Bound(m)
      BY <3>3, <3>6, <3>7, <3>8, <3>9
    <3> QED
      BY <1>1, <3>1, <3>4, <3>10 DEF RewardOK, Bound
  <2> QED
    BY <2>1, <2>2
<1>7. \A b \in Actors : pc'[b] = "log" => local'[b].mission \notin local'[b].todo
  BY <1>1 DEF RewardInv
<1> QED
  BY <1>5, <1>6, <1>7 DEF RewardInv

(* A row that is completed as it is created is paid by its creator alone.  *)
LEMMA RewardAssign ==
        ASSUME RewardInv, TypeOK', FlightOK', NEW a \in Actors, Assign(a) PROVE RewardInv'
<1>0. TypeOK /\ FlightOK /\ local[a] \in Local
  BY DEF RewardInv, TypeOK
<1>1. PICK m \in local[a].todo : TRUE /\
        LET l == [local[a] EXCEPT !.todo = @ \ {m}]
        IN  IF m \notin Unassigned
            THEN Goto(a, "failed") /\ UNCHANGED <<progress, local>>
            ELSE /\ progress' = [progress EXCEPT ![m] = FirstRow(a, m)]
                 /\ IF FirstRow(a, m).status = "COMPLETED"
                    THEN CallAddXp(a, l, m, Reward[m], "assign")
                    ELSE local' = [local EXCEPT ![a] = l] /\ UNCHANGED pc
  BY DEF Assign
<1> DEFINE l == [local[a] EXCEPT !.todo = @ \ {m}]
<1>2. l \in Local /\ m \in Missions /\ l.todo = local[a].todo \ {m}
  <2>1. local[a].todo \in SUBSET Missions
    BY <1>0 DEF Local
  <2>2. m \in Missions /\ local[a].todo \ {m} \in SUBSET Missions
    BY <2>1
  <2> QED
    BY <1>0, <2>2 DEF Local
<1>3. pc[a] = "assign" /\ UNCHANGED rewards
  BY DEF Assign
<1>4. CASE m \notin Unassigned
  <2>1. UNCHANGED <<progress, local>> /\ pc' = [pc EXCEPT ![a] = "failed"]
    BY <1>1, <1>4 DEF Goto
  <2> QED
    BY <1>0, <1>3, <2>1, RewardQuiet DEF TypeOK, Updating
<1>5. CASE m \in Unassigned
  <2>1. progress[m].status = "NONE" /\ progress' = [progress EXCEPT ![m] = FirstRow(a, m)]
    BY <1>1, <1>5 DEF Unassigned
  <2>2. \A k \in Missions \ {m} : UNCHANGED progress[k]
    BY <1>0, <2>1 DEF TypeOK
  <2>3. progress'[m] = FirstRow(a, m)
    BY <1>0, <1>2, <2>1 DEF TypeOK
  <2>4. \A b \in Actors \ {a} : UNCHANGED local[b] /\ UNCHANGED pc[b]
    BY <1>0, <1>1, <1>5 DEF CallAddXp, Goto, TypeOK
  <2>5. /\ ~Updating(a) /\ ~Updating(a)' /\ pc[a] # "log"
        /\ pc'[a] = "log" =>
             /\ FirstRow(a, m).status = "COMPLETED"
             /\ local'[a].mission = m /\ local'[a].todo = local[a].todo \ {m}
    <3>1. CASE FirstRow(a, m).status = "COMPLETED"
      <4>1. CallAddXp(a, l, m, Reward[m], "assign")
        BY <1>1, <1>5, <3>1
      <4>2. m \in Missions \cup {NoMission} /\ Reward[m] \in 0 .. LevelXp
        BY <1>2, ConstantFacts
      <4> HIDE DEF l
      <4>3. pc'[a] = "log" /\ local'[a].mission = m /\ local'[a].todo = l.todo
            /\ local'[a].next = "assign"
        BY <1>0, <1>2, <4>1, <4>2, CallEffect
      <4> QED
        BY <1>2, <1>3, <3>1, <4>3 DEF Updating
    <3>2. CASE FirstRow(a, m).status # "COMPLETED"
      BY <1>1, <1>3, <1>5, <3>2 DEF Updating
    <3> QED
      BY <3>1, <3>2
  <2>6. \A b \in Actors, k \in Missions : Holds(b, k)' => Holds(b, k)
    BY <2>4, <2>5 DEF Holds, Updating
  <2>7. \A b \in Actors, k \in Missions \ {m} : Pays(b, k)' => Pays(b, k)
    BY <2>4, <2>5 DEF Pays
  <2>8. \A b \in Actors \ {a} : Pays(b, m)' <=> Pays(b, m)
    BY <2>4 DEF Pays
  <2>9. WelcomeOK'
    <3>1. Welcome \in Missions
      BY MissionsAssumption
    <3>2. CASE m = Welcome
      BY <2>3, <2>6, <3>1, <3>2 DEF RewardInv, WelcomeOK, FirstRow
    <3>3. CASE m # Welcome
      BY <2>2, <2>6, <3>1, <3>3 DEF RewardInv, WelcomeOK
    <3> QED
      BY <3>2, <3>3
  <2>10. ASSUME NEW k \in Missions, Required[k] = 1 PROVE RewardOK(k)'
    <3>0. RewardOK(k)
      BY <2>10 DEF RewardInv
    <3>1. CASE k # m
      <4>1. UNCHANGED <<progress[k], rewards[k]>>
        BY <1>3, <2>2, <3>1
      <4> QED
        BY <1>0, <2>6, <2>7, <3>0, <3>1, <4>1, RewardKept DEF RewardOK
    <3>2. CASE k = m
      <4>1. rewards[m] = 0 /\ \A b \in Actors : ~Pays(b, m) /\ ~Holds(b, m)
        BY <2>1, <3>0, <3>2 DEF RewardOK
      <4>2. FirstRow(a, m).status \in {"COMPLETED", "IN_PROGRESS"}
        BY DEF FirstRow
      <4>3. CASE FirstRow(a, m).status = "COMPLETED"
        <5>1. PICK busy : busy = Busy(m)'
          OBVIOUS
        <5>2. busy \in SUBSET {a}
          BY <1>2, <2>6, <2>8, <4>1, <5>1 DEF Busy
        <5>3. IsFiniteSet({a}) /\ Cardinality({a}) = 1
          BY FS_Singleton
        <5>4. IsFiniteSet(busy) /\ Cardinality(busy) <= 1
          BY <5>2, <5>3, FS_Subset
        <5>5. Cardinality(busy) \in Nat
          BY <5>4, FS_CardinalityType
        <5>6. Bound(m) \in Nat /\ Bound(m) >= 1
          BY MissionsAssumption DEF Bound
        <5>7. rewards'[m] + Cardinality(busy) <= Bound(m)
          BY <1>3, <4>1, <5>4, <5>5, <5>6
        <5> QED
          BY <2>3, <3>2, <4>3, <5>1, <5>7 DEF RewardOK, Bound
      <4>4. CASE FirstRow(a, m).status = "IN_PROGRESS"
        <5>1. ~Pays(a, m)'
          BY <2>5, <4>4 DEF Pays
        <5> QED
          BY <1>3, <2>3, <2>8, <3>2, <4>1, <4>4, <5>1 DEF RewardOK
      <4> QED
        BY <4>2, <4>3, <4>4
    <3> QED
      BY <3>1, <3>2
  <2>11. \A b \in Actors : pc'[b] = "log" => local'[b].mission \notin local'[b].todo
    BY <2>4, <2>5 DEF RewardInv
  <2> QED
    BY <2>9, <2>10, <2>11 DEF RewardInv
<1> QED
  BY <1>4, <1>5

(* An event finds open missions only.                                      *)
LEMMA RewardFind ==
        ASSUME RewardInv, TypeOK', FlightOK', NEW e \in Events, FindProgress(e)
        PROVE  RewardInv'
<1>0. TypeOK /\ FlightOK /\ e \in Actors /\ local[e] \in Local
  BY DEF RewardInv, TypeOK, Actors
<1>1. /\ pc[e] = "progress" /\ pc'[e] = "update" /\ UNCHANGED <<progress, rewards>>
      /\ \A b \in Actors \ {e} : UNCHANGED local[b] /\ UNCHANGED pc[b]
  BY <1>0 DEF FindProgress, Goto, TypeOK, rows
<1>2. local'[e].todo = {m \in Missions : /\ progress[m].status = "IN_PROGRESS"
                                         /\ TypeOf[m] = TypeOf[e]}
  BY <1>0 DEF FindProgress, TypeOK, Local
<1>3. \A b \in Actors, m \in Missions :
        Holds(b, m)' => Holds(b, m) \/ progress[m].status = "IN_PROGRESS"
  BY <1>1, <1>2 DEF Holds, Updating
<1>4. \A b \in Actors, m \in Missions : Pays(b, m)' => Pays(b, m)
  BY <1>1 DEF Pays
<1>5. WelcomeOK'
  BY <1>1, <1>3, MissionsAssumption DEF RewardInv, WelcomeOK
<1>6. ASSUME NEW m \in Missions, Required[m] = 1 PROVE RewardOK(m)'
  <2>1. RewardOK(m)
    BY <1>6 DEF RewardInv
  <2> QED
    BY <1>0, <1>1, <1>3, <1>4, <2>1, RewardKept DEF RewardOK
<1>7. \A b \in Actors : pc'[b] = "log" => local'[b].mission \notin local'[b].todo
  BY <1>1 DEF RewardInv
<1> QED
  BY <1>5, <1>6, <1>7 DEF RewardInv

(* An event completes a mission of one event; what is paid for it later is *)
(* paid by the requests that had found it open.                            *)
LEMMA RewardUpdate ==
        ASSUME RewardInv, TypeOK', FlightOK', NEW e \in Events, Update(e) PROVE RewardInv'
<1>0. TypeOK /\ FlightOK /\ e \in Actors /\ local[e] \in Local
  BY DEF RewardInv, TypeOK, Actors
<1>1. PICK m \in local[e].todo : TRUE /\
        LET row == Counted(m, local[e].counts[m] + 1)
            l   == [local[e] EXCEPT !.todo = @ \ {m}]
        IN  /\ progress' = [progress EXCEPT ![m] = row]
            /\ IF row.status = "COMPLETED"
               THEN CallAddXp(e, l, m, Reward[m], "update")
               ELSE local' = [local EXCEPT ![e] = l] /\ UNCHANGED pc
  BY DEF Update
<1> DEFINE l   == [local[e] EXCEPT !.todo = @ \ {m}]
           row == Counted(m, local[e].counts[m] + 1)
<1>2. /\ l \in Local /\ m \in Missions /\ l.todo = local[e].todo \ {m}
      /\ local[e].counts[m] \in Nat
  <2>1. local[e].todo \in SUBSET Missions /\ local[e].counts \in [Missions -> Nat]
    BY <1>0 DEF Local
  <2>2. m \in Missions /\ local[e].todo \ {m} \in SUBSET Missions
    BY <2>1
  <2> QED
    BY <1>0, <2>1, <2>2 DEF Local
<1>3. pc[e] = "update" /\ UNCHANGED rewards
  BY DEF Update
<1>4. Holds(e, m)
  BY <1>3 DEF Holds, Updating
<1>5. progress'[m] = row /\ \A k \in Missions \ {m} : UNCHANGED progress[k]
  BY <1>0, <1>1, <1>2 DEF TypeOK
<1>6. \A b \in Actors \ {e} : UNCHANGED local[b] /\ UNCHANGED pc[b]
  BY <1>0, <1>1 DEF CallAddXp, Goto, TypeOK
<1>7. row.status \in {"COMPLETED", "IN_PROGRESS"}
  BY DEF Counted
<1>8. /\ local'[e].todo = local[e].todo \ {m}
      /\ pc'[e] \in {"update", "log"}
      /\ pc'[e] = "log" => row.status = "COMPLETED" /\ local'[e].mission = m
  <2>1. CASE row.status = "COMPLETED"
    <3>1. CallAddXp(e, l, m, Reward[m], "update")
      BY <1>1, <2>1
    <3>2. m \in Missions \cup {NoMission} /\ Reward[m] \in 0 .. LevelXp
      BY <1>2, ConstantFacts
    <3> HIDE DEF l, row
    <3>3. pc'[e] = "log" /\ local'[e].mission = m /\ local'[e].todo = l.todo
      BY <1>0, <1>2, <3>1, <3>2, CallEffect
    <3> QED
      BY <1>2, <2>1, <3>3
  <2>2. CASE row.status # "COMPLETED"
    <3>1. local' = [local EXCEPT ![e] = l] /\ pc' = pc
      BY <1>1, <2>2
    <3> HIDE DEF l, row
    <3>2. local'[e] = l
      BY <1>0, <3>1 DEF TypeOK
    <3> QED
      BY <1>2, <1>3, <3>1, <3>2
  <2> QED
    BY <2>1, <2>2
<1> HIDE DEF l, row
<1>9. \A b \in Actors, k \in Missions : Holds(b, k)' => Holds(b, k)
  BY <1>3, <1>6, <1>8 DEF Holds, Updating
<1>10. \A b \in Actors, k \in Missions \ {m} : Pays(b, k)' => Pays(b, k)
  BY <1>6, <1>8 DEF Pays
<1>11. \A b \in Actors \ {e} : Pays(b, m)' => Pays(b, m)
  BY <1>6 DEF Pays
<1>12. WelcomeOK'
  <2>1. Welcome \in Missions /\ m # Welcome
    BY <1>0, <1>4, MissionsAssumption DEF RewardInv, WelcomeOK
  <2> QED
    BY <1>5, <1>9, <2>1 DEF RewardInv, WelcomeOK
<1>13. ASSUME NEW k \in Missions, Required[k] = 1 PROVE RewardOK(k)'
  <2>0. RewardOK(k)
    BY <1>13 DEF RewardInv
  <2>1. CASE k # m
    <3>1. UNCHANGED <<progress[k], rewards[k]>>
      BY <1>3, <1>5, <2>1
    <3> QED
      BY <1>0, <1>9, <1>10, <2>0, <2>1, <3>1, RewardKept DEF RewardOK
  <2>2. CASE k = m
    <3>1. row.status = "COMPLETED"
      BY <1>2, <1>13, <2>2 DEF Counted, row
    <3>2. rewards[m] \in Nat /\ Bound(m) \in Nat
      BY <1>0, <1>2, MissionsAssumption DEF TypeOK, Bound
    <3>3. PICK busy : busy = Busy(m)'
      OBVIOUS
    <3>4. CASE progress[m].status = "COMPLETED"
      <4>1. busy \in SUBSET Busy(m)
        BY <1>2, <1>4, <1>9, <1>11, <3>3 DEF Busy
      <4>2. IsFiniteSet(Busy(m)) /\ Cardinality(Busy(m)) \in Nat
        BY <1>0, <1>2, BusyInFlight
      <4>3. Cardinality(busy) <= Cardinality(Busy(m))
        BY <4>1, <4>2, FS_Subset
      <4>4. Cardinality(busy) \in Nat
        BY <1>0, <1>2, <4>1, BusyInFlight
      <4>5. rewards[m] + Cardinality(Busy(m)) <= Bound(m)
        BY <2>0, <2>2, <3>4 DEF RewardOK
      <4>6. rewards'[m] + Cardinality(busy) <= Bound(m)
        BY <1>3, <3>2, <4>2, <4>3, <4>4, <4>5
      <4> QED
        BY <1>5, <2>2, <3>1, <3>3, <4>6 DEF RewardOK, Bound
    <3>5. CASE progress[m].status # "COMPLETED"
      <4>1. rewards[m] = 0 /\ m # Welcome
        BY <1>0, <1>4, <2>0, <2>2, <3>5 DEF RewardOK, RewardInv, WelcomeOK
      <4>2. busy \in SUBSET Busy(m)
        BY <1>2, <1>4, <1>9, <1>11, <3>3 DEF Busy
      <4>3. Cardinality(busy) \in Nat /\ Cardinality(busy) <= MaxInFlight
        BY <1>0, <1>2, <4>2, BusyInFlight
      <4>4. rewards'[m] + Cardinality(busy) <= Bound(m)
        BY <1>3, <4>1, <4>3, MissionsAssumption DEF Bound
      <4> QED
        BY <1>5, <2>2, <3>1, <3>3, <4>4 DEF RewardOK, Bound
    <3> QED
      BY <3>4, <3>5
  <2> QED
    BY <2>1, <2>2
<1>14. \A b \in Actors : pc'[b] = "log" => local'[b].mission \notin local'[b].todo
  BY <1>6, <1>8 DEF RewardInv
<1> QED
  BY <1>12, <1>13, <1>14 DEF RewardInv

(* The reward of a mission and the requests busy with it stay bounded.     *)
LEMMA RewardStep == RewardInv /\ [Next]_vars => RewardInv'
<1> SUFFICES ASSUME RewardInv, [Next]_vars PROVE RewardInv'
  OBVIOUS
<1>0. TypeOK /\ TypeOK' /\ FlightOK'
  BY TypeStep, FlightStep DEF RewardInv
<1>1. ASSUME NEW a \in Actors, FindProfile(a) \/ CreateProfile(a) \/ CountCertificates(a)
      PROVE  RewardInv'
  <2>1. UNCHANGED <<progress, rewards>>
    BY <1>1 DEF FindProfile, CreateProfile, CountCertificates, rows
  <2>2. pc'[a] \in {"create", "missions", "assign", "failed"}
    BY <1>0, <1>1 DEF FindProfile, CreateProfile, CountCertificates, Goto, TypeOK
  <2>3. \A b \in Actors \ {a} : UNCHANGED local[b] /\ UNCHANGED pc[b]
    BY <1>0, <1>1 DEF FindProfile, CreateProfile, CountCertificates, Goto, TypeOK
  <2> QED
    BY <1>0, <2>1, <2>2, <2>3, RewardQuiet DEF Updating
<1>2. ASSUME NEW a \in Actors, Ensured(a) PROVE RewardInv'
  <2>1. UNCHANGED <<progress, rewards>>
    BY <1>2 DEF Ensured, rows
  <2>2. \A b \in Actors \ {a} : UNCHANGED local[b] /\ UNCHANGED pc[b]
    BY <1>0, <1>2 DEF Ensured, Return, CallAddXp, Goto, TypeOK
  <2>3. ~Updating(a)' /\ (pc'[a] = "log" => local'[a].mission = NoMission)
    <3>1. CASE a \in Events
      <4>1. local[a] \in Local
        BY <1>0 DEF TypeOK
      <4>2. CallAddXp(a, local[a], NoMission, EventXp, "progress")
        BY <1>2, <3>1 DEF Ensured
      <4>3. local'[a].mission = NoMission /\ local'[a].next = "progress" /\ pc'[a] = "log"
        BY <1>0, <4>1, <4>2, CallEffect, ConstantFacts
      <4> QED
        BY <4>3 DEF Updating
    <3>2. CASE a \notin Events
      BY <1>0, <1>2, <3>2 DEF Ensured, Return, Goto, TypeOK, Updating
    <3> QED
      BY <3>1, <3>2
  <2> QED
    BY <1>0, <2>1, <2>2, <2>3, RewardQuiet DEF Updating
<1>3. ASSUME NEW a \in Actors, Assign(a) PROVE RewardInv'
  BY <1>0, <1>3, RewardAssign
<1>4. ASSUME NEW a \in Actors, Log(a) PROVE RewardInv'
  BY <1>0, <1>4, RewardLog
<1>5. ASSUME NEW a \in Actors, Read(a) PROVE RewardInv'
  <2>1. local[a] \in Local
    BY <1>0 DEF TypeOK
  <2>2. local' = [local EXCEPT ![a] = [local[a] EXCEPT !.xp = profile.xp,
                                                       !.level = profile.level]]
    BY <1>0, <1>5, <2>1 DEF Read, TypeOK, Local
  <2>3. /\ UNCHANGED <<local[a].todo, local[a].next>>
        /\ \A b \in Actors \ {a} : UNCHANGED local[b]
    BY <1>0, <2>1, <2>2 DEF TypeOK, Local
  <2>4. /\ pc[a] = "read" /\ pc'[a] = "write" /\ UNCHANGED <<progress, rewards>>
        /\ \A b \in Actors \ {a} : UNCHANGED pc[b]
    BY <1>0, <1>5 DEF Read, Goto, TypeOK, rows
  <2> QED
    BY <1>0, <2>3, <2>4, RewardQuiet DEF Updating
<1>6. ASSUME NEW a \in Actors, Write(a) PROVE RewardInv'
  <2>1. /\ pc[a] = "write" /\ pc'[a] = local[a].next
        /\ UNCHANGED <<progress, rewards, local>>
        /\ \A b \in Actors \ {a} : UNCHANGED pc[b]
    BY <1>0, <1>6 DEF Write, Goto, TypeOK
  <2>2. local[a].next \in {"assign", "progress", "update", "done"}
    BY <1>0 DEF TypeOK, Local
  <2> QED
    BY <1>0, <2>1, <2>2, RewardQuiet DEF Updating
<1>7. ASSUME NEW e \in Events, FindProgress(e) PROVE RewardInv'
  BY <1>0, <1>7, RewardFind
<1>8. ASSUME NEW e \in Events, Update(e) PROVE RewardInv'
  BY <1>0, <1>8, RewardUpdate
<1>9. ASSUME NEW e \in Events, Finish(e) PROVE RewardInv'
  BY <1>0, <1>9, RewardQuiet DEF Finish, Return, Goto, TypeOK, Updating, rows
<1>10. CASE Certify \/ Crash \/ UNCHANGED vars
  BY <1>0, <1>10, RewardQuiet DEF Certify, Crash, vars, rows, Over, Updating, TypeOK
<1> QED
  BY <1>1, <1>2, <1>3, <1>4, <1>5, <1>6, <1>7, <1>8, <1>9, <1>10
     DEF Next, ProfileStep, XpStep, MissionStep

(* A reward that is bounded together with the busy requests is bounded.    *)
LEMMA RewardBound == RewardInv /\ HistoryInv => RewardsBounded
<1> SUFFICES ASSUME RewardInv, HistoryInv PROVE RewardsBounded
  OBVIOUS
<1>1. ASSUME NEW m \in Missions, Required[m] = 1 PROVE rewards[m] <= Bound(m)
  <2>1. RewardOK(m) /\ rewards[m] \in Nat /\ Bound(m) \in Nat
    BY <1>1, MissionsAssumption DEF RewardInv, TypeOK, Bound
  <2>2. Cardinality(Busy(m)) \in Nat
    BY BusyInFlight DEF RewardInv
  <2>3. CASE progress[m].status = "COMPLETED"
    BY <2>1, <2>2, <2>3 DEF RewardOK
  <2>4. CASE progress[m].status # "COMPLETED"
    BY <2>1, <2>4 DEF RewardOK
  <2> QED
    BY <2>3, <2>4
<1> QED
  BY <1>1, HistoryCovers DEF RewardsBounded, Bound

(* The welcome reward is paid once, a mission of one event at most once    *)
(* per request that was in flight, and the history covers the profile's    *)
(* XP.                                                                     *)
THEOREM RewardsCorrect == Spec => []RewardsBounded
BY RewardInit, RewardStep, HistoryInit, HistoryStep, RewardBound, PTL DEF Spec
=============================================================================
