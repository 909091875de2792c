------------------------------ MODULE Leveling ------------------------------
(***************************************************************************)
(* Gamification of one user: experience points (XP), the level they give   *)
(* and the progress of the global missions.                                *)
(*                                                                         *)
(* Every request, a mere dashboard view included, first runs               *)
(* ensureProfileExists, which creates the profile and the missing progress *)
(* rows and may pay their rewards.  An event (POST /leveling/pj/event)     *)
(* then pays its XP and advances the missions of its type.  XP is paid by  *)
(* addXp in three statements: log, read the profile, write it back.        *)
(***************************************************************************)
EXTENDS Integers, FiniteSets

CONSTANTS Events,        \* POST /leveling/pj/event requests of the user
          Views,         \* GET requests of the user under /leveling/pf
          Missions,      \* active global MissionTemplate rows
          Welcome,       \* the mission titled 'Bem-vindo a Bordo'
          Required,      \* Required[m]: requiredCount of a mission
          Reward,        \* Reward[m]: xpReward of a mission
          EventXp,       \* XP of an event, 10 in the code
          LevelXp,       \* xpToLevelUp, 500 in the code
          TypeOf,        \* type of a mission, and of an event
          MaxInFlight,   \* bound: requests handled at the same time
          NoMission      \* XP paid for the event itself

Types  == {"CERTIFICATE_EMISSION", "COURSE_COMPLETION", "PATH_COMPLETION"}
Actors == Events \cup Views

(* The seeded missions are worth at most one level each.                   *)
ASSUME MissionsAssumption ==
         /\ Welcome \in Missions /\ NoMission \notin Missions
         /\ Required \in [Missions -> Nat \ {0}]
         /\ TypeOf \in [Missions \cup Events -> Types]
         /\ MaxInFlight \in Nat \ {0}

ASSUME RewardsAssumption ==
         /\ LevelXp \in Nat \ {0} /\ EventXp \in 1 .. LevelXp
         /\ Reward \in [Missions -> 0 .. LevelXp]

VARIABLES profile,       \* the GamificationProfile row: exists, xp, level
          progress,      \* UserMissionProgress rows: status, count
          logged,        \* XP of all XpHistory rows together
          rewards,       \* XpHistory rows for a mission
          certified,     \* a certificate of the user has status SUCCESS
          pc,            \* where the handler of an actor is
          local          \* the variables of the handler of an actor

rows == <<profile, progress, logged, rewards>>
vars == <<rows, certified, pc, local>>

-----------------------------------------------------------------------------
PCs == {"idle", "create", "missions", "assign", "log", "read", "write",
        "progress", "update", "done", "failed"}

Over == {"idle", "done", "failed"}

InFlight == {a \in Actors : pc[a] \notin Over}

Row == [status : {"NONE", "IN_PROGRESS", "COMPLETED"}, count : Nat]

Unassigned == {m \in Missions : progress[m].status = "NONE"}

Goto(a, l) == pc' = [pc EXCEPT ![a] = l]

Fresh == [todo |-> {}, counts |-> [m \in Missions |-> 0], certified |-> FALSE,
          mission |-> NoMission, amount |-> 0, next |-> "done", xp |-> 0, level |-> 1]

(* The handler returns; its variables are gone.                            *)
Return(a) == Goto(a, "done") /\ local' = [local EXCEPT ![a] = Fresh]

(* A call of addXp, that continues at next.                                *)
CallAddXp(a, l, m, xp, next) ==
  /\ local' = [local EXCEPT ![a] = [l EXCEPT !.mission = m, !.amount = xp, !.next = next]]
  /\ Goto(a, "log")

-----------------------------------------------------------------------------
(* ensureProfileExists.                                                    *)

FindProfile(a) ==
  /\ pc[a] = "idle" /\ Cardinality(InFlight) < MaxInFlight
  /\ local' = [local EXCEPT ![a].todo = Unassigned]
  /\ Goto(a, IF profile.exists THEN "missions" ELSE "create")
  /\ UNCHANGED <<rows, certified>>

(* userId is unique: the second of two first requests fails.               *)
CreateProfile(a) ==
  /\ pc[a] = "create"
  /\ IF profile.exists
     THEN Goto(a, "failed") /\ UNCHANGED profile
     ELSE /\ profile' = [exists |-> TRUE, xp |-> 0, level |-> 1]
          /\ Goto(a, "missions")
  /\ UNCHANGED <<progress, logged, rewards, certified, local>>

CountCertificates(a) ==
  /\ pc[a] = "missions"
  /\ local' = [local EXCEPT ![a].certified = certified]
  /\ Goto(a, "assign")
  /\ UNCHANGED <<rows, certified>>

(* Mutant: the status, a cast string in the code, is misspelt.             *)
FirstRowMisspelt(a, m) ==
  IF m = Welcome THEN [status |-> "COMPLETE", count |-> Required[m]]
  ELSE [status |-> "IN_PROGRESS", count |-> 0]

FirstRow(a, m) ==
  IF m = Welcome \/ (TypeOf[m] = "CERTIFICATE_EMISSION" /\ local[a].certified)
  THEN [status |-> "COMPLETED", count |-> Required[m]]
  ELSE [status |-> "IN_PROGRESS", count |-> 0]

(* Mutant: the row is written whether or not there is one.                 *)
AssignOver(a) ==
  /\ pc[a] = "assign"
  /\ \E m \in local[a].todo :
       LET l == [local[a] EXCEPT !.todo = @ \ {m}]
       IN  /\ progress' = [progress EXCEPT ![m] = FirstRow(a, m)]
           /\ IF FirstRow(a, m).status = "COMPLETED"
              THEN CallAddXp(a, l, m, Reward[m], "assign")
              ELSE local' = [local EXCEPT ![a] = l] /\ UNCHANGED pc
  /\ UNCHANGED <<profile, logged, rewards, certified>>

(* The missions the request found without a row, one at a time; a row made *)
(* by another request meanwhile breaks the unique index and the request.   *)
Assign(a) ==
  /\ pc[a] = "assign"
  /\ \E m \in local[a].todo :
       LET l == [local[a] EXCEPT !.todo = @ \ {m}]
       IN  IF m \notin Unassigned
           THEN Goto(a, "failed") /\ UNCHANGED <<progress, local>>
           ELSE /\ progress' = [progress EXCEPT ![m] = FirstRow(a, m)]
                /\ IF FirstRow(a, m).status = "COMPLETED"
                   THEN CallAddXp(a, l, m, Reward[m], "assign")
                   ELSE local' = [local EXCEPT ![a] = l] /\ UNCHANGED pc
  /\ UNCHANGED <<profile, logged, rewards, certified>>

(* Back in the caller: a view has only reads left, an event pays its XP.   *)
Ensured(a) ==
  /\ pc[a] = "assign" /\ local[a].todo = {}
  /\ IF a \in Events
     THEN CallAddXp(a, local[a], NoMission, EventXp, "progress")
     ELSE Return(a)
  /\ UNCHANGED <<rows, certified>>

-----------------------------------------------------------------------------
(* addXp.                                                                  *)

Log(a) ==
  /\ pc[a] = "log"
  /\ logged' = logged + local[a].amount
  /\ rewards' = IF local[a].mission = NoMission
                THEN rewards
                ELSE [rewards EXCEPT ![local[a].mission] = @ + 1]
  /\ Goto(a, "read")
  /\ UNCHANGED <<profile, progress, certified, local>>

(* Mutant: the XP read already includes the amount.                        *)
ReadAfter(a) ==
  /\ pc[a] = "read"
  /\ local' = [local EXCEPT ![a].xp = profile.xp + local[a].amount,
                            ![a].level = profile.level]
  /\ Goto(a, "write")
  /\ UNCHANGED <<rows, certified>>

Read(a) ==
  /\ pc[a] = "read"
  /\ local' = [local EXCEPT ![a].xp = profile.xp, ![a].level = profile.level]
  /\ Goto(a, "write")
  /\ UNCHANGED <<rows, certified>>

(* Mutant: the level goes up only beyond the threshold.                    *)
LevelLate(level, xp) == IF xp > level * LevelXp THEN level + 1 ELSE level

NewLevel(level, xp) == IF xp >= level * LevelXp THEN level + 1 ELSE level

(* What another addXp wrote since the read is overwritten.                 *)
Write(a) ==
  LET xp == local[a].xp + local[a].amount
  IN  /\ pc[a] = "write"
      /\ profile' = [profile EXCEPT !.xp = xp, !.level = NewLevel(local[a].level, xp)]
      /\ Goto(a, local[a].next)
      /\ UNCHANGED <<progress, logged, rewards, certified, local>>

-----------------------------------------------------------------------------
(* processEvent, after its XP has been paid.                               *)

FindProgress(e) ==
  /\ pc[e] = "progress"
  /\ local' = [local EXCEPT
                 ![e].todo = {m \in Missions : /\ progress[m].status = "IN_PROGRESS"
                                               /\ TypeOf[m] = TypeOf[e]},
                 ![e].counts = [m \in Missions |-> progress[m].count]]
  /\ Goto(e, "update")
  /\ UNCHANGED <<rows, certified>>

(* Mutant: one event too many counts.                                      *)
LateRow(m, n) ==
  [status |-> IF n > Required[m] THEN "COMPLETED" ELSE "IN_PROGRESS", count |-> n]

Counted(m, n) ==
  [status |-> IF n >= Required[m] THEN "COMPLETED" ELSE "IN_PROGRESS", count |-> n]

(* Mutant: a completed mission is not paid.                                *)
UpdateUnpaid(e) ==
  /\ pc[e] = "update"
  /\ \E m \in local[e].todo :
       /\ progress' = [progress EXCEPT ![m] = Counted(m, local[e].counts[m] + 1)]
       /\ local' = [local EXCEPT ![e].todo = @ \ {m}]
  /\ UNCHANGED <<profile, logged, rewards, certified, pc>>

(* The row is written from the count found before the loop, whatever other *)
(* events did to it meanwhile.                                             *)
Update(e) ==
  /\ pc[e] = "update"
  /\ \E m \in local[e].todo :
       LET row == Counted(m, local[e].counts[m] + 1)
           l   == [local[e] EXCEPT !.todo = @ \ {m}]
       IN  /\ progress' = [progress EXCEPT ![m] = row]
           /\ IF row.status = "COMPLETED"
              THEN CallAddXp(e, l, m, Reward[m], "update")
              ELSE local' = [local EXCEPT ![e] = l] /\ UNCHANGED pc
  /\ UNCHANGED <<profile, logged, rewards, certified>>

Finish(e) ==
  /\ pc[e] = "update" /\ local[e].todo = {}
  /\ Return(e)
  /\ UNCHANGED <<rows, certified>>

-----------------------------------------------------------------------------
(* A certificate of the user is completed (TemplateEmission!Complete).     *)
Certify ==
  /\ ~certified
  /\ certified' = TRUE
  /\ UNCHANGED <<rows, pc, local>>

Crash ==
  /\ InFlight # {}
  /\ pc' = [a \in Actors |-> IF pc[a] \in Over THEN pc[a] ELSE "failed"]
  /\ UNCHANGED <<rows, certified, local>>

Init ==
  /\ profile = [exists |-> FALSE, xp |-> 0, level |-> 1]
  /\ progress = [m \in Missions |-> [status |-> "NONE", count |-> 0]]
  /\ logged = 0
  /\ rewards = [m \in Missions |-> 0]
  /\ certified \in BOOLEAN
  /\ pc = [a \in Actors |-> "idle"]
  /\ local = [a \in Actors |-> Fresh]

ProfileStep(a) == \/ FindProfile(a) \/ CreateProfile(a) \/ CountCertificates(a)
                  \/ Assign(a) \/ Ensured(a)
XpStep(a)      == Log(a) \/ Read(a) \/ Write(a)
MissionStep(e) == FindProgress(e) \/ Update(e) \/ Finish(e)

Next == \/ \E a \in Actors : ProfileStep(a) \/ XpStep(a)
        \/ \E e \in Events : MissionStep(e)
        \/ Certify \/ Crash

Spec == Init /\ [][Next]_vars

-----------------------------------------------------------------------------
(* Properties.                                                             *)

Local == [todo : SUBSET Missions, counts : [Missions -> Nat], certified : BOOLEAN,
          mission : Missions \cup {NoMission}, amount : 0 .. LevelXp,
          next : {"assign", "progress", "update", "done"}, xp : Nat, level : Nat]

(* Every variable holds values of the rows and locals it stands for.       *)
TypeOK ==
  /\ profile \in [exists : BOOLEAN, xp : Nat, level : Nat]
  /\ progress \in [Missions -> Row]
  /\ logged \in Nat
  /\ rewards \in [Missions -> Nat]
  /\ certified \in BOOLEAN
  /\ pc \in [Actors -> PCs]
  /\ local \in [Actors -> Local]

LevelFits(level, xp) == (level - 1) * LevelXp <= xp /\ xp < level * LevelXp

(* "Level up every 500xp" (leveling.service.ts:367): the level is the one  *)
(* of the XP, although addXp raises it by one at most and loses updates of *)
(* concurrent requests.                                                    *)
LevelMatchesXp == LevelFits(profile.level, profile.xp)

(* The two rankings count different things, profile XP (global) and the    *)
(* XP of the history (temporal).  Updates of the profile get lost, never   *)
(* invented: the history always covers it.                                 *)
HistoryCoversXp == profile.xp <= logged

(* A mission whose row says completed is paid, or the request that         *)
(* completed it is about to pay, or was lost with the reward.              *)
CompletionPaid ==
  \A m \in Missions :
    progress[m].status = "COMPLETED" =>
      \/ rewards[m] > 0
      \/ \E a \in Actors : pc[a] \in {"log", "failed"} /\ local[a].mission = m

(* The welcome reward is paid once.  A mission of one event is paid at     *)
(* most once per request that was in flight when it was completed, and the *)
(* history covers what reached the profile.                                *)
RewardsBounded ==
  /\ \A m \in Missions :
       Required[m] = 1 => rewards[m] <= IF m = Welcome THEN 1 ELSE MaxInFlight
  /\ HistoryCoversXp

(* Stale counts are written back, and still no row counts beyond the       *)
(* requirement, and a row is completed exactly when its count reaches it:  *)
(* an open mission can always be completed.                                *)
CountsWithinRequired ==
  \A m \in Missions \ Unassigned :
    /\ progress[m].count <= Required[m]
    /\ progress[m].status = "COMPLETED" <=> progress[m].count = Required[m]
=============================================================================
