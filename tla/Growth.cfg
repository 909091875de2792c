\* Three requests and two emissions, in the mixes of MCGrowth.
SPECIFICATION Spec
CONSTANTS
  r1 = r1
  r2 = r2
  r3 = r3
  e1 = e1
  e2 = e2
  Requests = {r1, r2, r3}
  Emissions = {e1, e2}
  Mixes <- MCMixes
  Former = Former
  Hours = {1, 2}
  Most = 2
  Syllabi <- MCSyllabi
  Indexes = {1, 2}
  Outlines <- MCOutlines
  Skills = {"s", "t"}
  Books = {"b", "c"}
  Catalogue = {}
  Roadmaps <- MCRoadmaps
  None = None
CHECK_DEADLOCK FALSE
INVARIANTS
  TypeOK
  EmptyPathHasCause
  HoursMatchHasCause
  AbilitiesLostHaveCause
  SilentProfileHasCause
  ListedCandidatesHaveCause
  PdfShowsRow
  SkillsLostHaveCause
  RepeatsHaveCause
