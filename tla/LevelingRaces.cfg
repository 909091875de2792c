\* The first requests of a user at the same time: two events and a view.
SPECIFICATION Spec
CONSTANTS
  welcome = welcome
  first = first
  second = second
  e1 = e1
  e2 = e2
  v1 = v1
  Events = {e1, e2}
  Views = {v1}
  Missions = {welcome, first, second}
  Welcome = welcome
  Required <- MCRequired
  Reward <- MCReward
  EventXp = 1
  LevelXp = 3
  TypeOf <- MCTypeOf
  MaxInFlight = 3
  NoMission = NoMission
SYMMETRY MCSymmetry
CHECK_DEADLOCK FALSE
INVARIANTS
  TypeOK
  LevelMatchesXp
  RewardsBounded
  CountsWithinRequired
  CompletionPaid
