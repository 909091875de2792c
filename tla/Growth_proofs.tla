---------------------------- MODULE Growth_proofs ----------------------------
(***************************************************************************)
(* Proofs about Growth: why a learning path may be without modules, an     *)
(* ability missing from a profile, a profile unknown to the search, and a  *)
(* candidate listed without an open profile, for any number of requests    *)
(* and emissions in any mix.                                               *)
(***************************************************************************)
EXTENDS Growth, TLAPS

-----------------------------------------------------------------------------
(* Control: what a step may do to pc and kind.                             *)

PathLabels == {"deleteModules", "checkTemplate", "writePath", "findModules", "deletePath"}

StudyLabels == {"insertRows", "findSubject", "findInternship", "readSemesters", "insertSemester",
                "readComponent", "findSemesters", "readHolder", "writeLinks", "editRow",
                "removeComponent", "removeHolder"}

ResumeLabels == {"insertResume", "readResume", "writeResume", "draw", "recordPdf", "removeResume"}

PlanLabels == {"writePlan", "createNode", "findKnown", "findReviews", "addReviews",
               "linkAbilities", "findBook", "writeBook", "removePlan", "decide"}

OtherLabels == StudyLabels \cup ResumeLabels \cup PlanLabels

CareerLabels == {"findPaths", "completePath", "insert", "readAbilities", "leaveJobs",
                 "writeProfile", "readBoth", "writeAbilities", "post", "deleteProfile",
                 "writeJob", "search", "filter", "recommend", "deleteJob"}

Labels == PathLabels \cup OtherLabels \cup CareerLabels \cup Over \cup {"idle"}

PathKinds == {"createPath", "updatePath", "deletePath"}

StudyKinds == {"createSubject", "createInternship", "createCurriculum", "createSemester",
               "editSubject", "deleteComponent", "addSubject", "removeSubject", "addToHolder",
               "removeInternship", "deleteCurriculum", "deleteSemester"}

ResumeKinds == {"createResume", "updateResume", "deleteResume", "createPdf"}

PlanKinds == {"createPDI", "deletePDI", "approve", "reject", "deleteAbility", "createAbility",
              "suggest"}

CareerKinds == {"createProfile", "updateProfile", "deleteProfile", "createJob", "editJob",
                "deleteJob", "emission"}

Kinds == PathKinds \cup StudyKinds \cup ResumeKinds \cup PlanKinds \cup CareerKinds

ControlOK == /\ pc \in [Handlers -> Labels]
             /\ kind \in [Handlers -> Kinds \cup {None}]

(* Only the handler moves, and only one that was idle changes its kind.    *)
Moves(a) == /\ ControlOK'
            /\ \A b \in Handlers \ {a} : pc'[b] = pc[b] /\ kind'[b] = kind[b]
            /\ pc[a] # "idle" => kind'[a] = kind[a]

(* A step of a component stays among its labels, and what it starts is one *)
(* of its operations.                                                      *)
Stays(a, L, K) == /\ Moves(a)
                  /\ pc[a] \in L \cup {"idle"} /\ pc'[a] \in L \cup Over
                  /\ pc[a] = "idle" => kind'[a] \in K

(* A step of the careers stays clear of the labels of the paths.           *)
Elsewhere(a) == /\ Moves(a)
                /\ pc[a] \notin PathLabels \cup Over
                /\ pc'[a] \notin PathLabels

(* Steps of resumes, plans and the academic structure stay apart from it.  *)
Apart(a) == /\ Moves(a)
            /\ pc[a] \in OtherLabels \cup {"idle"}
            /\ pc'[a] \in OtherLabels \cup Over

(* Either leaves alone the labels of profiles, jobs and emissions.         *)
Aside(a) == /\ Moves(a)
            /\ pc[a] \in PathLabels \cup OtherLabels \cup {"idle"}
            /\ pc'[a] \in PathLabels \cup OtherLabels \cup Over

LEMMA GotoMoves ==
  ASSUME ControlOK, NEW a \in Handlers, NEW l \in Labels, Goto(a, l)
  PROVE  Moves(a) /\ pc'[a] = l /\ kind' = kind
BY DEF Goto, Moves, ControlOK

LEMMA StartMoves ==
  ASSUME ControlOK, NEW a \in Handlers, NEW k \in Kinds, NEW l \in Labels, Start(a, k, l)
  PROVE  Moves(a) /\ pc[a] = "idle" /\ pc'[a] = l /\ kind'[a] = k
BY DEF Start, Moves, ControlOK

LEMMA PathsMove ==
  ASSUME ControlOK, NEW r \in Requests, PathsStep(r)
  PROVE  Stays(r, PathLabels, PathKinds)
<1> USE GotoMoves, StartMoves DEF Labels, PathLabels, Over, Kinds, PathKinds, Begin, Refuse, Stays
<1>0. r \in Handlers
  BY DEF Handlers
<1>1. CASE CreateLearningPath(r) \/ UpdateLearningPath(r) \/ DeleteLearningPath(r)
  BY <1>0, <1>1 DEF CreateLearningPath, UpdateLearningPath, DeleteLearningPath
<1>2. CASE DeleteLearningPathModules(r) \/ CheckTemplateById(r)
  BY <1>0, <1>2 DEF DeleteLearningPathModules, CheckTemplateById
<1>3. CASE CreateRow(r) \/ UpdateRow(r)
  BY <1>0, <1>3 DEF CreateRow, UpdateRow
<1>4. CASE FindModule(r) \/ CheckChildren(r)
  <2>1. pc[r] = "findModules" /\ (Goto(r, "refused") \/ UNCHANGED control)
    BY <1>4 DEF FindModule, CheckChildren
  <2> QED
    BY <1>0, <2>1 DEF control, Moves, ControlOK
<1>5. CASE AssociateModuleChildren(r) \/ DeleteRow(r)
  BY <1>0, <1>5 DEF AssociateModuleChildren, DeleteRow
<1> QED
  BY <1>1, <1>2, <1>3, <1>4, <1>5 DEF PathsStep

LEMMA CareersMove ==
  ASSUME ControlOK, NEW r \in Requests, CareersStep(r)
  PROVE  Elsewhere(r) /\ Stays(r, CareerLabels, CareerKinds)
<1> USE GotoMoves, StartMoves DEF Labels, PathLabels, CareerLabels, Over, Kinds, CareerKinds,
                                   Elsewhere, Stays, RefuseHire
<1>0. r \in Handlers
  BY DEF Handlers
<1>1. CASE CreateProfile(r)
  <2>1. Start(r, "createProfile", "readAbilities")
    BY <1>1, Zenon DEF CreateProfile
  <2> QED
    BY <1>0, <2>1
<1>10. CASE UpdateProfile(r)
  BY <1>0, <1>10 DEF UpdateProfile
<1>11. CASE DeleteProfile(r)
  BY <1>0, <1>11 DEF DeleteProfile
<1>2. CASE GetUserAbilities(r) \/ RemoveCandidateFromJobs(r)
  BY <1>0, <1>2 DEF GetUserAbilities, RemoveCandidateFromJobs
<1>3. CASE CreateProfileRecord(r) \/ UpdateProfileRecord(r) \/ DeleteProfileRecord(r)
  BY <1>0, <1>3 DEF CreateProfileRecord, UpdateProfileRecord, DeleteProfileRecord
<1>4. CASE ReadUserAbilities(r)
  BY <1>0, <1>4 DEF ReadUserAbilities, After
<1>5. CASE UpdateAbilitiesOnProfile(r)
  BY <1>0, <1>5 DEF UpdateAbilitiesOnProfile, Abandon, After
<1>6. CASE AbilitiesFail(r)
  BY <1>0, <1>6 DEF AbilitiesFail, Abandon
<1>12. CASE Post(r)
  <2>1. pc[r] = "post" /\ \E l \in {"done", "deleteProfile", "refused"} : Goto(r, l)
    BY <1>12 DEF Post, Abandon
  <2> QED
    BY <1>0, <2>1
<1>7. CASE CreateJob(r) \/ EditJob(r) \/ DeleteJob(r)
  BY <1>0, <1>7 DEF CreateJob, EditJob, DeleteJob, EditOrDeleteJob
<1>8. CASE WriteJob(r) \/ Search(r)
  BY <1>0, <1>8 DEF WriteJob, Search
<1>9. CASE FilterCandidates(r) \/ AssociateCandidates(r) \/ DeleteJobRecord(r)
  BY <1>0, <1>9 DEF FilterCandidates, AssociateCandidates, DeleteJobRecord
<1> QED
  BY <1>1, <1>2, <1>3, <1>4, <1>5, <1>6, <1>7, <1>8, <1>9, <1>10, <1>11, <1>12 DEF CareersStep

LEMMA EmissionsMove ==
  ASSUME ControlOK, NEW e \in Emissions, EmissionStep(e) \/ AbilitiesStep(e)
  PROVE  Elsewhere(e) /\ Stays(e, CareerLabels, CareerKinds)
<1> USE GotoMoves, StartMoves DEF Labels, PathLabels, CareerLabels, Over, Kinds, CareerKinds,
                                   Elsewhere, Stays
<1>0. e \in Handlers
  BY DEF Handlers
<1>1. CASE FindPaths(e)
  BY <1>0, <1>1 DEF FindPaths
<1>2. CASE AssociatePfOnEmission(e)
  BY <1>0, <1>2 DEF AssociatePfOnEmission, Refuse
<1>3. CASE GetReceptor(e)
  <2>1. Start(e, "emission", "findPaths")
    BY <1>3, Zenon DEF GetReceptor
  <2> QED
    BY <1>0, <2>1
<1>6. CASE InsertCertificate(e)
  BY <1>0, <1>6 DEF InsertCertificate
<1>4. CASE ReadUserAbilities(e)
  BY <1>0, <1>4 DEF ReadUserAbilities, After
<1>5. CASE UpdateAbilitiesOnProfile(e)
  BY <1>0, <1>5 DEF UpdateAbilitiesOnProfile, Abandon, After
<1> QED
  BY <1>1, <1>2, <1>3, <1>4, <1>5, <1>6 DEF EmissionStep, AbilitiesStep

LEMMA ResumesMove ==
  ASSUME ControlOK, NEW r \in Requests, ResumesStep(r)
  PROVE  Stays(r, ResumeLabels, ResumeKinds)
<1> USE GotoMoves, StartMoves DEF Labels, OtherLabels, ResumeLabels, Over, Kinds, ResumeKinds,
                                   Stays, RefuseResume
<1>0. r \in Handlers
  BY DEF Handlers
<1>1. CASE CreateResume(r)
  BY <1>0, <1>1 DEF CreateResume
<1>2. CASE UpdateResume(r) \/ DeleteResume(r) \/ CreatePdf(r)
  <2>1. \E k \in {"updateResume", "deleteResume", "createPdf"} : Start(r, k, "readResume")
    BY <1>2, Zenon DEF UpdateResume, DeleteResume, CreatePdf, Open
  <2> QED
    BY <1>0, <2>1
<1>3. CASE InsertResume(r)
  BY <1>0, <1>3 DEF InsertResume
<1>4. CASE GetResume(r)
  BY <1>0, <1>4 DEF GetResume, AfterRead
<1>5. CASE WriteResume(r)
  BY <1>0, <1>5 DEF WriteResume
<1>6. CASE ResumePdfLambda(r) \/ RecordPdf(r) \/ RemoveResume(r)
  BY <1>0, <1>6 DEF ResumePdfLambda, RecordPdf, RemoveResume
<1> QED
  BY <1>1, <1>2, <1>3, <1>4, <1>5, <1>6 DEF ResumesStep

LEMMA PlansMove ==
  ASSUME ControlOK, NEW r \in Requests, PlansStep(r)
  PROVE  Stays(r, PlanLabels, PlanKinds)
<1> USE GotoMoves, StartMoves DEF Labels, OtherLabels, PlanLabels, Over, Kinds, PlanKinds, Stays, RefusePlan
<1>0. r \in Handlers
  BY DEF Handlers
<1>1. CASE CreatePDI(r) \/ DeletePDI(r)
  <2>1. Start(r, "createPDI", "writePlan") \/ Start(r, "deletePDI", "removePlan")
    BY <1>1, Zenon DEF CreatePDI, DeletePDI
  <2> QED
    BY <1>0, <2>1
<1>2. CASE CreatePdi(r) \/ CreatePdiNode(r) \/ DeletePdi(r)
  BY <1>0, <1>2 DEF CreatePdi, CreatePdiNode, DeletePdi
<1>3. CASE GetAbilitiesByName(r) \/ GetAbilitiesOnReviewByName(r)
  BY <1>0, <1>3 DEF GetAbilitiesByName, GetAbilitiesOnReviewByName
<1>4. CASE CreateAbilityOnReview(r)
  <2>1. pc[r] = "addReviews" /\ (Goto(r, "linkAbilities") \/ UNCHANGED control)
    BY <1>4 DEF CreateAbilityOnReview
  <2> QED
    BY <1>0, <2>1 DEF control, Moves, ControlOK
<1>5. CASE LinkAbilities(r) \/ FindBook(r)
  BY <1>0, <1>5 DEF LinkAbilities, FindBook
<1>6. CASE WriteBook(r)
  <2>1. pc[r] = "writeBook" /\ \E l \in {"done", "createNode", "refused"} : Goto(r, l)
    BY <1>6 DEF WriteBook
  <2> QED
    BY <1>0, <2>1
<1>7. CASE \/ UpgradeAbilityOnReview(r) \/ DeleteAbilityOnReview(r) \/ DeleteAbility(r)
           \/ CreateNewAbility(r) \/ SuggestAbility(r)
  BY <1>0, <1>7 DEF UpgradeAbilityOnReview, DeleteAbilityOnReview, DeleteAbility, CreateNewAbility,
                    SuggestAbility, Decide
<1>8. CASE Upgrade(r) \/ Delete(r) \/ Create(r)
  BY <1>0, <1>8 DEF Upgrade, Delete, Create
<1> QED
  BY <1>1, <1>2, <1>3, <1>4, <1>5, <1>6, <1>7, <1>8 DEF PlansStep

LEMMA OthersMove ==
  ASSUME ControlOK, NEW r \in Requests, OtherStep(r)
  PROVE  Apart(r)
BY ResumesMove, PlansMove DEF OtherStep, Stays, Apart, OtherLabels

LEMMA StudiesMove ==
  ASSUME ControlOK, NEW r \in Requests, StudiesStep(r)
  PROVE  Stays(r, StudyLabels, StudyKinds)
<1> USE GotoMoves, StartMoves DEF Labels, OtherLabels, StudyLabels, Over, Kinds, StudyKinds, Stays, RefuseStudy
<1>0. r \in Handlers
  BY DEF Handlers
<1>1. CASE \/ CreateSubject(r) \/ CreateInternship(r) \/ CreateSemester(r)
           \/ DeleteSubject(r) \/ DeleteInternship(r)
  <2>1. \/ Start(r, "createSubject", "insertRows") \/ Start(r, "createInternship", "findInternship")
        \/ Start(r, "createSemester", "readSemesters") \/ Start(r, "deleteComponent", "readComponent")
    BY <1>1, Zenon DEF CreateSubject, CreateInternship, CreateSemester,
                       DeleteSubject, DeleteInternship, Ask
  <2> QED
    BY <1>0, <2>1
<1>10. CASE CreateCurriculum(r) \/ EditSubject(r)
  <2>1. Start(r, "createCurriculum", "findSubject") \/ Start(r, "editSubject", "readComponent")
    BY <1>10 DEF CreateCurriculum, EditSubject, Ask
  <2> QED
    BY <1>0, <2>1
<1>2. CASE \/ AddSubjectToSemester(r) \/ RemoveSubjectFromSemester(r) \/ AddSubjectsToSemester(r)
           \/ AddInternshipsToCurriculum(r) \/ RemoveInternshipsFromCurriculum(r)
           \/ DeleteCurriculum(r) \/ DeleteSemester(r)
  <2>1. \/ Start(r, "addSubject", "readComponent") \/ Start(r, "removeSubject", "readComponent")
        \/ Start(r, "addToHolder", "readHolder") \/ Start(r, "removeInternship", "readHolder")
        \/ Start(r, "deleteCurriculum", "removeHolder") \/ Start(r, "deleteSemester", "removeHolder")
    BY <1>2, Zenon DEF AddSubjectToSemester, RemoveSubjectFromSemester, AddSubjectsToSemester,
                       AddInternshipsToCurriculum, RemoveInternshipsFromCurriculum,
                       DeleteCurriculum, DeleteSemester, Ask
  <2> QED
    BY <1>0, <2>1
<1>3. CASE CheckSubject(r) \/ CheckInternship(r)
  <2>1. /\ pc[r] \in {"findSubject", "findInternship"}
        /\ \E l \in {"done", "findInternship", "insertRows"} : Goto(r, l)
    BY <1>3 DEF CheckSubject, CheckInternship, FindEqual
  <2> QED
    BY <1>0, <2>1
<1>4. CASE InsertRows(r)
  <2>1. pc[r] = "insertRows" /\ (Goto(r, "refused") \/ Goto(r, "done"))
    BY <1>4 DEF InsertRows
  <2> QED
    BY <1>0, <2>1
<1>5. CASE GetCurriculumSemesters(r) \/ InsertSemester(r)
  BY <1>0, <1>5 DEF GetCurriculumSemesters, InsertSemester
<1>6. CASE GetSubjectById(r)
  BY <1>0, <1>6 DEF GetSubjectById, AfterComponent
<1>7. CASE GetValidSemestersIds(r) \/ GetHolder(r)
  BY <1>0, <1>7 DEF GetValidSemestersIds, GetHolder
<1>8. CASE WriteLinks(r) \/ EditRow(r) \/ RemoveComponent(r)
  BY <1>0, <1>8 DEF WriteLinks, EditRow, RemoveComponent
<1>9. CASE RemoveHolder(r)
  <2>1. pc[r] = "removeHolder" /\ (Goto(r, "refused") \/ Goto(r, "done"))
    BY <1>9 DEF RemoveHolder
  <2> QED
    BY <1>0, <2>1
<1> QED
  BY <1>1, <1>2, <1>3, <1>4, <1>5, <1>6, <1>7, <1>8, <1>9, <1>10 DEF StudiesStep, AcademicsStep

LEMMA StudiesApart ==
  ASSUME ControlOK, NEW r \in Requests, StudiesStep(r)
  PROVE  Apart(r)
BY StudiesMove DEF Stays, Apart, OtherLabels

LEMMA FailMoves ==
  ASSUME ControlOK, NEW a \in Handlers, Fail(a)
  PROVE  Moves(a) /\ pc'[a] = "failed" /\ pc[a] \notin Over \cup {"idle"} /\ kind' = kind
BY GotoMoves DEF Fail, Labels, Over

LEMMA ControlStep ==
  ASSUME ControlOK, [Next]_vars
  PROVE  ControlOK'
<1>1. CASE UNCHANGED vars
  BY <1>1 DEF ControlOK, vars, control
<1> QED
  BY <1>1, StudiesMove, PathsMove, CareersMove, OthersMove, EmissionsMove, FailMoves
     DEF Next, Stays, Elsewhere, Apart, Moves

-----------------------------------------------------------------------------
(* A path without modules.                                                 *)

(* What a handler knows of paths has the fields the steps go by.           *)
BuildOK == /\ DOMAIN build = Handlers
           /\ \A a \in Handlers : "path" \in DOMAIN build[a] /\ "outline" \in DOMAIN build[a]

(* The rows of the modules, and what a handler of paths knows.             *)
PathInv ==
  /\ DOMAIN paths = Makers
  /\ modules \in [Makers -> [Indexes -> Makers \cup {None}]]
  /\ BuildOK
  /\ \A r \in Requests :
       /\ pc[r] = "deleteModules" => kind[r] = "updatePath"
       /\ pc[r] \in PathLabels => build[r].path \in Makers
       /\ pc[r] \in PathLabels \ {"deletePath"} => build[r].outline \in Outlines
       /\ pc[r] \in PathLabels /\ kind[r] = "createPath" => build[r].path = r

EmptyInv == PathInv /\ EmptyPathHasCause

LEMMA EmptyInit == Init => ControlOK /\ EmptyInv
<1> SUFFICES ASSUME Init PROVE ControlOK /\ EmptyInv
  OBVIOUS
<1>1. ControlOK
  BY DEF Init, ControlInit, ControlOK, Labels
<1>2. /\ paths = [p \in Makers |-> IF p = Former THEN [template |-> TRUE, hours |-> 0] ELSE None]
      /\ modules = [p \in Makers |-> IF p = Former THEN [i \in Indexes |-> Former]
                                     ELSE NoModules]
  BY DEF Init, PathsInit
<1>4. modules \in [Makers -> [Indexes -> Makers \cup {None}]]
  BY <1>2 DEF NoModules, Makers
<1>5. BuildOK
  BY DEF Init, PathsInit, NoBuild, BuildOK
<1>6. \A a \in Handlers : pc[a] = "idle"
  BY DEF Init, ControlInit
<1>7. EmptyPathHasCause
  <2> SUFFICES ASSUME NEW p \in Makers, paths[p] # None, modules[p] = NoModules PROVE FALSE
    BY DEF EmptyPathHasCause
  <2>1. p = Former
    BY <1>2
  <2>2. modules[p] = [i \in Indexes |-> Former]
    BY <1>2, <2>1
  <2>3. PICK i \in Indexes : TRUE
    BY PathsAssumption
  <2> QED
    BY <2>2, <2>3, HandlersAssumption DEF NoModules
<1>8. DOMAIN paths = Makers
  BY <1>2
<1> QED
  BY <1>1, <1>4, <1>5, <1>6, <1>7, <1>8 DEF EmptyInv, PathInv, PathLabels, Handlers

(* A step that leaves paths, modules and what requests know of them alone, *)
(* and takes no request out of an update that has deleted its modules.     *)
LEMMA PathFrame ==
  ASSUME ControlOK, EmptyInv, NEW a \in Handlers, Moves(a),
         UNCHANGED <<paths, modules>>, BuildOK',
         \A r \in Requests : build'[r] = build[r],
         a \in Requests => /\ pc[a] \notin Over
                           /\ pc'[a] \notin PathLabels
                           /\ pc[a] \in PathLabels => pc'[a] = "failed"
  PROVE  EmptyInv'
<1>1. PathInv'
  <2>1. DOMAIN paths' = Makers /\ modules' \in [Makers -> [Indexes -> Makers \cup {None}]]
    BY DEF EmptyInv, PathInv
  <2>2. ASSUME NEW r \in Requests, pc'[r] \in PathLabels
        PROVE  pc'[r] = pc[r] /\ kind'[r] = kind[r] /\ build'[r] = build[r]
    BY <2>2 DEF Moves, Handlers
  <2> QED
    BY <2>1, <2>2 DEF EmptyInv, PathInv, PathLabels
<1>2. EmptyPathHasCause'
  BY DEF EmptyInv, EmptyPathHasCause, Moves, Handlers, PathLabels, Over, Makers, NoModules
<1> QED
  BY <1>1, <1>2 DEF EmptyInv

(* The rows a build writes: there is one if it was asked for a module.     *)
LEMMA BlankRows ==
  ASSUME NEW r \in Requests, build[r].outline \in Outlines
  PROVE  /\ Blank(r) \in [Indexes -> Makers \cup {None}]
         /\ Planned(build[r].outline) # {} => \E i \in Indexes : Blank(r)[i] # None
<1>1. r \in Makers /\ r # None
  BY HandlersAssumption DEF Makers, Handlers
<1> QED
  BY <1>1 DEF Blank, Planned

(* What a lookup leaves of a handler's knowledge.                          *)
LEMMA BuildFields ==
  ASSUME BuildOK, NEW a \in Handlers, NEW b,
         "path" \in DOMAIN b, "outline" \in DOMAIN b, build' = [build EXCEPT ![a] = b]
  PROVE  BuildOK' /\ build'[a] = b /\ \A c \in Handlers \ {a} : build'[c] = build[c]
BY DEF BuildOK

LEMMA LookupKeeps ==
  ASSUME PathInv, NEW r \in Requests, FindModule(r) \/ CheckChildren(r), ~Refuse(r)
  PROVE  /\ BuildOK'
         /\ build'[r].path = build[r].path /\ build'[r].outline = build[r].outline
         /\ \A q \in Requests \ {r} : build'[q] = build[q]
<1>0. r \in Handlers /\ BuildOK
  BY DEF PathInv, Handlers
<1>1. CASE FindModule(r)
  <2>1. PICK i, l : build' = [build EXCEPT ![r].found[i] = modules[build[r].path][i], ![r].left = l]
    BY <1>1, Zenon DEF FindModule
  <2> QED
    BY <1>0, <2>1 DEF BuildOK, Handlers
<1>2. CASE CheckChildren(r)
  <2>1. PICK l, d : build' = [build EXCEPT ![r].left = l, ![r].read = d]
    BY <1>2, Zenon DEF CheckChildren
  <2> QED
    BY <1>0, <2>1 DEF BuildOK, Handlers
<1> QED
  BY <1>1, <1>2

LEMMA PathInvStep ==
  ASSUME ControlOK, PathInv, NEW r \in Requests, PathsStep(r)
  PROVE  PathInv'
<1> USE DEF PathInv, Labels, PathLabels, Over, Kinds, PathKinds
<1>0. r \in Handlers /\ Moves(r)
  BY PathsMove DEF Handlers, Stays
<1>a. ASSUME build' = build, DOMAIN paths' = Makers, modules' \in [Makers -> [Indexes -> Makers \cup {None}]],
             pc'[r] \in PathLabels => pc[r] \in PathLabels \ {"deletePath"},
             pc'[r] # "deleteModules"
      PROVE  PathInv'
  BY <1>0, <1>a DEF Moves, Handlers, BuildOK
<1>1. ASSUME NEW k \in {"createPath", "updatePath", "deletePath"}, NEW l \in PathLabels, NEW B,
             Begin(r, k, l, B),
             \A b \in B : /\ "path" \in DOMAIN b /\ "outline" \in DOMAIN b
                          /\ b.path \in Makers /\ (l # "deletePath" => b.outline \in Outlines),
             l = "deleteModules" => k = "updatePath",
             k = "createPath" => \A b \in B : b.path = r
      PROVE  PathInv'
  <2>1. pc'[r] = l /\ kind'[r] = k
    BY <1>0, <1>1, StartMoves DEF Begin
  <2>2. PICK b \in B : build' = [build EXCEPT ![r] = b]
    BY <1>1 DEF Begin
  <2>3. /\ BuildOK' /\ build'[r] = b /\ \A q \in Handlers \ {r} : build'[q] = build[q]
        /\ UNCHANGED <<paths, modules>>
    BY <1>0, <1>1, <2>2, BuildFields DEF Begin, pathTables
  <2> QED
    BY <1>0, <1>1, <2>1, <2>3 DEF Moves, Handlers
<1>b. ASSUME NEW P \in SUBSET Makers, NEW T, NEW b \in Bodies(P, T)
      PROVE  /\ "path" \in DOMAIN b /\ "outline" \in DOMAIN b
             /\ b.path \in P /\ b.path \in Makers /\ b.outline \in Outlines
  <2>1. PICK q \in P, o \in Outlines, t \in T :
          b = Body(q, o, t)
    BY <1>b DEF Bodies
  <2>2. "path" \in DOMAIN b /\ "outline" \in DOMAIN b
    BY <2>1 DEF Body, NoBuild
  <2>3. b.path = q /\ b.outline = o
    BY <2>1 DEF Body, NoBuild
  <2> QED
    BY <2>2, <2>3
<1>2. CASE CreateLearningPath(r)
  BY <1>1, <1>2, <1>b DEF CreateLearningPath, Makers
<1>3. CASE UpdateLearningPath(r)
  BY <1>1, <1>3, <1>b DEF UpdateLearningPath, Existing
<1>4. CASE DeleteLearningPath(r)
  BY <1>1, <1>4 DEF DeleteLearningPath, Existing, NoBuild
<1>5. CASE DeleteLearningPathModules(r)
  BY <1>0, <1>5, <1>a, GotoMoves DEF DeleteLearningPathModules, NoModules
<1>6. CASE CheckTemplateById(r)
  BY <1>0, <1>6, <1>a, GotoMoves DEF CheckTemplateById, Refuse, pathVars, pathTables
<1>7. CASE CreateRow(r)
  BY <1>0, <1>7, <1>a, GotoMoves, BlankRows DEF CreateRow, Connected, Makers
<1>8. CASE UpdateRow(r)
  <2>1. CASE Refuse(r)
    BY <1>0, <1>8, <2>1, <1>a, GotoMoves DEF UpdateRow, Refuse, pathVars, pathTables
  <2>2. CASE ~Refuse(r)
    <3> DEFINE own == build[r].path
    <3>1. Blank(r) \in [Indexes -> Makers \cup {None}] /\ own \in Makers
      BY <1>8, BlankRows DEF UpdateRow
    <3>2. /\ paths' = Connected(paths, own, build[r].template = "valid")
          /\ modules' = [modules EXCEPT ![own] =
                           [i \in Indexes |-> IF Blank(r)[i] = None THEN modules[own][i]
                                              ELSE Blank(r)[i]]]
          /\ Goto(r, "findModules") /\ pc[r] = "writePath" /\ build' = build
      BY <1>8, <2>2 DEF UpdateRow
    <3>3. DOMAIN paths' = Makers /\ modules' \in [Makers -> [Indexes -> Makers \cup {None}]]
      BY <3>1, <3>2 DEF Connected
    <3> QED
      BY <1>0, <1>a, <3>2, <3>3, GotoMoves
  <2> QED
    BY <2>1, <2>2
<1>9. CASE FindModule(r) \/ CheckChildren(r)
  <2>1. CASE Refuse(r)
    BY <1>0, <1>9, <2>1, <1>a, GotoMoves DEF Refuse, pathVars, pathTables, FindModule, CheckChildren
  <2>2. CASE ~Refuse(r)
    <3>1. pc[r] = "findModules" /\ UNCHANGED <<control, pathTables>>
      BY <1>9, <2>2 DEF FindModule, CheckChildren
    <3>2. /\ BuildOK'
          /\ build'[r].path = build[r].path /\ build'[r].outline = build[r].outline
          /\ \A q \in Requests \ {r} : build'[q] = build[q]
      BY <1>9, <2>2, LookupKeeps
    <3> QED
      BY <3>1, <3>2 DEF control, pathTables
  <2> QED
    BY <2>1, <2>2
<1>10. CASE AssociateModuleChildren(r)
  BY <1>0, <1>10, <1>a, GotoMoves DEF AssociateModuleChildren, Refuse, pathVars, pathTables
<1>11. CASE DeleteRow(r)
  <2>1. CASE Refuse(r)
    BY <1>0, <1>11, <2>1, <1>a, GotoMoves DEF DeleteRow, Refuse, pathVars, pathTables
  <2>2. CASE ~Refuse(r)
    <3>1. /\ paths' = [paths EXCEPT ![build[r].path] = None]
          /\ modules' = [modules EXCEPT ![build[r].path] = NoModules]
          /\ build' = build /\ Goto(r, "done") /\ pc[r] = "deletePath"
      BY <1>11, <2>2 DEF DeleteRow
    <3>2. pc'[r] = "done"
      BY <1>0, <3>1, GotoMoves
    <3>3. DOMAIN paths' = Makers /\ modules' \in [Makers -> [Indexes -> Makers \cup {None}]]
      BY <3>1 DEF NoModules
    <3> QED
      BY <1>a, <3>1, <3>2, <3>3
  <2> QED
    BY <2>1, <2>2
<1> QED
  BY <1>2, <1>3, <1>4, <1>5, <1>6, <1>7, <1>8, <1>9, <1>10, <1>11 DEF PathsStep

LEMMA EmptyStepOfPaths ==
  ASSUME ControlOK, EmptyInv, NEW r \in Requests, PathsStep(r)
  PROVE  EmptyInv'
<1> USE DEF Labels, PathLabels, Over, Kinds, PathKinds
<1>0. r \in Handlers /\ Moves(r) /\ PathInv /\ PathInv'
  BY PathsMove, PathInvStep DEF Handlers, EmptyInv, Stays
<1> SUFFICES ASSUME NEW p \in Makers, paths'[p] # None, modules'[p] = NoModules
             PROVE  \E q \in Requests :
                      /\ build'[q].path = p
                      /\ \/ /\ kind'[q] = "updatePath"
                            /\ pc'[q] \in {"checkTemplate", "writePath", "refused", "failed"}
                         \/ /\ kind'[q] \in {"createPath", "updatePath"}
                            /\ Planned(build'[q].outline) = {}
                            /\ pc'[q] \in {"findModules", "done", "refused", "failed"}
  BY <1>0 DEF EmptyInv, EmptyPathHasCause, NoModules
<1> DEFINE Cause(q) ==
             /\ build[q].path = p
             /\ \/ /\ kind[q] = "updatePath"
                   /\ pc[q] \in {"checkTemplate", "writePath", "refused", "failed"}
                \/ /\ kind[q] \in {"createPath", "updatePath"} /\ Planned(build[q].outline) = {}
                   /\ pc[q] \in {"findModules", "done", "refused", "failed"}
<1>a. ASSUME paths[p] # None, modules[p] = NoModules, build'[r] = build[r] \/ pc[r] = "idle",
             \A q \in Requests \ {r} : build'[q] = build[q],
             ~Cause(r) \/ Cause(r)'
      PROVE  \E q \in Requests : Cause(q)'
  <2>1. PICK q \in Requests : Cause(q)
    BY <1>a DEF EmptyInv, EmptyPathHasCause
  <2>2. CASE q = r
    BY <1>a, <2>1, <2>2
  <2>3. CASE q # r
    BY <1>0, <1>a, <2>1, <2>3 DEF Moves, Handlers
  <2> QED
    BY <2>2, <2>3
<1>b. CASE Refuse(r) /\ pc[r] # "idle"
  BY <1>0, <1>a, <1>b, GotoMoves DEF Refuse, pathVars, pathTables
<1>1. CASE CreateLearningPath(r) \/ UpdateLearningPath(r) \/ DeleteLearningPath(r)
  <2>1. \E k, l, B : Begin(r, k, l, B)
    BY <1>1, Zenon DEF CreateLearningPath, UpdateLearningPath, DeleteLearningPath
  <2>2. pc[r] = "idle" /\ UNCHANGED pathTables /\ \A q \in Requests \ {r} : build'[q] = build[q]
    BY <1>0, <2>1 DEF Begin, Start, PathInv, BuildOK, Handlers
  <2> QED
    BY <1>a, <2>2 DEF pathTables
<1>5. CASE DeleteLearningPathModules(r)
  <2>1. CASE p = build[r].path
    BY <1>0, <1>5, <2>1, GotoMoves DEF DeleteLearningPathModules, PathInv
  <2>2. CASE p # build[r].path
    BY <1>0, <1>5, <2>2, <1>a, GotoMoves DEF DeleteLearningPathModules, PathInv
  <2> QED
    BY <2>1, <2>2
<1>6. CASE CheckTemplateById(r)
  BY <1>0, <1>6, <1>a, <1>b, GotoMoves DEF CheckTemplateById, pathVars, pathTables
<1>7. CASE CreateRow(r)
  <2>1. /\ build' = build /\ pc[r] = "writePath" /\ kind[r] = "createPath" /\ build[r].path = r
        /\ pc'[r] = "findModules" /\ kind' = kind
    BY <1>0, <1>7, GotoMoves DEF CreateRow, PathInv
  <2>2. CASE p = r
    <3>1. modules'[r] = Blank(r)
      BY <1>0, <1>7 DEF CreateRow, PathInv, Makers
    <3>2. \A i \in Indexes : Blank(r)[i] = None
      BY <2>2, <3>1 DEF NoModules
    <3>3. Planned(build[r].outline) = {}
      BY <1>0, <2>1, <3>2, BlankRows DEF PathInv
    <3> QED
      BY <2>1, <2>2, <3>3
  <2>3. CASE p # r
    <3>1. paths[p] # None /\ modules[p] = NoModules
      BY <1>0, <1>7, <2>3 DEF CreateRow, Connected, PathInv
    <3> QED
      BY <1>a, <2>1, <2>3, <3>1
  <2> QED
    BY <2>2, <2>3
<1>8. CASE UpdateRow(r)
  <2>1. CASE Refuse(r)
    BY <1>8, <1>b, <2>1 DEF UpdateRow
  <2>2. CASE ~Refuse(r)
    <3> DEFINE own == build[r].path
    <3>1. own \in Makers /\ build[r].outline \in Outlines
      BY <1>0, <1>8 DEF PathInv, UpdateRow
    <3>2. /\ paths' = Connected(paths, own, build[r].template = "valid")
          /\ modules' = [modules EXCEPT ![own] =
                           [i \in Indexes |-> IF Blank(r)[i] = None THEN modules[own][i]
                                              ELSE Blank(r)[i]]]
          /\ build' = build /\ kind[r] = "updatePath" /\ Goto(r, "findModules") /\ pc[r] = "writePath"
      BY <1>8, <2>2 DEF UpdateRow
    <3>3. kind' = kind /\ pc'[r] = "findModules"
      BY <1>0, <3>2, GotoMoves
    <3>4. CASE p = own
      <4>1. ASSUME Planned(build[r].outline) # {} PROVE FALSE
        <5>1. PICK i \in Indexes : Blank(r)[i] # None
          BY <1>0, <3>1, <4>1, BlankRows
        <5>2. modules'[own][i] = Blank(r)[i]
          BY <1>0, <3>1, <3>2, <5>1 DEF PathInv
        <5> QED
          BY <3>4, <5>1, <5>2 DEF NoModules
      <4> QED
        BY <3>2, <3>3, <3>4, <4>1
    <3>5. CASE p # own
      <4>1. modules[p] = NoModules
        BY <1>0, <3>1, <3>2, <3>5 DEF PathInv
      <4>2. paths[p] # None
        BY <3>2 DEF Connected
      <4> QED
        BY <1>a, <3>2, <3>5, <4>1, <4>2
    <3> QED
      BY <3>4, <3>5
  <2> QED
    BY <2>1, <2>2
<1>9. CASE FindModule(r) \/ CheckChildren(r)
  <2>1. CASE Refuse(r)
    BY <1>9, <1>b, <2>1 DEF FindModule, CheckChildren
  <2>2. CASE ~Refuse(r)
    <3>1. UNCHANGED pathTables /\ UNCHANGED control
      BY <1>9, <2>2 DEF FindModule, CheckChildren
    <3>2. \A q \in Requests : build'[q].path = build[q].path /\ build'[q].outline = build[q].outline
      BY <1>0, <1>9, <2>2, LookupKeeps
    <3>3. paths[p] # None /\ modules[p] = NoModules
      BY <3>1 DEF pathTables
    <3>4. PICK q \in Requests : Cause(q)
      BY <3>3 DEF EmptyInv, EmptyPathHasCause
    <3> QED
      BY <3>1, <3>2, <3>4 DEF control
  <2> QED
    BY <2>1, <2>2
<1>10. CASE AssociateModuleChildren(r)
  <2>1. CASE Refuse(r)
    BY <1>10, <1>b, <2>1 DEF AssociateModuleChildren
  <2>2. CASE ~Refuse(r)
    <3>1. /\ pc[r] = "findModules" /\ paths[build[r].path] # None /\ UNCHANGED <<modules, build>>
          /\ paths' = [paths EXCEPT ![build[r].path].hours = NewHours(r)]
          /\ kind' = kind /\ pc'[r] = "done"
      BY <1>0, <1>10, <2>2, GotoMoves DEF AssociateModuleChildren
    <3>2. paths[p] # None
      <4>1. CASE p # build[r].path
        BY <1>0, <3>1, <4>1 DEF PathInv
      <4> QED
        BY <3>1, <4>1
    <3> QED
      BY <1>a, <3>1, <3>2
  <2> QED
    BY <2>1, <2>2
<1>11. CASE DeleteRow(r)
  <2>1. CASE Refuse(r)
    BY <1>11, <1>b, <2>1 DEF DeleteRow
  <2>2. CASE ~Refuse(r)
    <3>1. build[r].path \in Makers /\ pc[r] = "deletePath"
      BY <1>0, <1>11 DEF PathInv, DeleteRow
    <3>2. /\ paths' = [paths EXCEPT ![build[r].path] = None]
          /\ modules' = [modules EXCEPT ![build[r].path] = NoModules]
          /\ build' = build
      BY <1>11, <2>2 DEF DeleteRow
    <3>3. p # build[r].path
      BY <1>0, <3>1, <3>2 DEF PathInv
    <3>4. paths[p] # None /\ modules[p] = NoModules
      BY <1>0, <3>2, <3>3 DEF PathInv
    <3> QED
      BY <1>a, <3>1, <3>2, <3>4
  <2> QED
    BY <2>1, <2>2
<1> QED
  BY <1>1, <1>5, <1>6, <1>7, <1>8, <1>9, <1>10, <1>11 DEF PathsStep

LEMMA EmptyStep ==
  ASSUME ControlOK, EmptyInv, [Next]_vars
  PROVE  EmptyInv'
<1>1. CASE UNCHANGED vars
  BY <1>1 DEF vars, control, pathVars, pathTables, EmptyInv, PathInv, BuildOK, EmptyPathHasCause,
              NoModules
<1>2. ASSUME NEW r \in Requests, PathsStep(r) PROVE EmptyInv'
  BY <1>2, EmptyStepOfPaths
<1>3. ASSUME NEW r \in Requests, CareersStep(r), UNCHANGED pathVars PROVE EmptyInv'
  <2>1. r \in Handlers /\ Elsewhere(r)
    BY <1>3, CareersMove DEF Handlers
  <2> QED
    BY <1>3, <2>1, PathFrame DEF Elsewhere, pathVars, pathTables, EmptyInv, PathInv, BuildOK
<1>4. ASSUME NEW e \in Emissions, EmissionStep(e) \/ (AbilitiesStep(e) /\ UNCHANGED pathVars)
      PROVE  EmptyInv'
  <2>1. e \in Handlers \ Requests /\ Moves(e)
    BY <1>4, EmissionsMove, HandlersAssumption DEF Handlers, Elsewhere
  <2>2. UNCHANGED <<paths, modules>>
    BY <1>4 DEF EmissionStep, FindPaths, AssociatePfOnEmission, Refuse, pathVars, pathTables
  <2>3. build' = build \/ \E p \in Makers : build' = [build EXCEPT ![e].path = p]
    BY <1>4 DEF EmissionStep, FindPaths, AssociatePfOnEmission, Refuse, pathVars
  <2>4. BuildOK' /\ \A r \in Requests : build'[r] = build[r]
    BY <2>1, <2>3, BuildFields DEF EmptyInv, PathInv, BuildOK, Handlers
  <2> QED
    BY <2>1, <2>2, <2>4, PathFrame
<1>7. ASSUME NEW r \in Requests, OtherStep(r), UNCHANGED pathVars PROVE EmptyInv'
  <2>1. r \in Handlers /\ Apart(r)
    BY <1>7, OthersMove DEF Handlers
  <2>2. pc[r] \notin PathLabels \cup Over /\ pc'[r] \notin PathLabels
    BY <2>1 DEF Apart, PathLabels, OtherLabels, StudyLabels, ResumeLabels, PlanLabels, Over
  <2> QED
    BY <1>7, <2>1, <2>2, PathFrame DEF Apart, pathVars, pathTables, EmptyInv, PathInv, BuildOK
<1>8. ASSUME NEW r \in Requests, StudiesStep(r) PROVE EmptyInv'
  <2>1. r \in Handlers /\ Apart(r)
    BY <1>8, StudiesApart DEF Handlers
  <2>2. pc[r] \notin PathLabels \cup Over /\ pc'[r] \notin PathLabels
    BY <2>1 DEF Apart, PathLabels, OtherLabels, StudyLabels, ResumeLabels, PlanLabels, Over
  <2> QED
    BY <1>8, <2>1, <2>2, PathFrame DEF StudiesStep, Apart, EmptyInv, PathInv, BuildOK
<1>5. ASSUME NEW a \in Handlers, Fail(a) PROVE EmptyInv'
  <2>1. Moves(a) /\ pc'[a] = "failed" /\ pc[a] \notin Over
    BY <1>5, FailMoves
  <2>2. UNCHANGED <<paths, modules, build>>
    BY <1>5 DEF Fail, pathVars, pathTables
  <2> QED
    BY <2>1, <2>2, PathFrame DEF PathLabels, EmptyInv, PathInv, BuildOK
<1>6. CASE Next
  BY <1>2, <1>3, <1>4, <1>5, <1>6, <1>7, <1>8, Zenon DEF Next
<1> QED
  BY <1>1, <1>6

(* Every run of any number of requests and emissions keeps                 *)
(* EmptyPathHasCause: a path is without modules only by an update that     *)
(* deleted them and did not, or did not yet, write its own, or by a build  *)
(* that wrote a body without any (paths.controller.ts:151, paths-          *)
(* input.dto.ts:49).                                                       *)
THEOREM EmptyPathsExplained == Spec => []EmptyPathHasCause
<1>1. Init => ControlOK /\ EmptyInv
  BY EmptyInit
<1>2. ControlOK /\ EmptyInv /\ [Next]_vars => (ControlOK /\ EmptyInv)'
  BY ControlStep, EmptyStep
<1>3. ControlOK /\ EmptyInv => EmptyPathHasCause
  BY DEF EmptyInv
<1> QED
  BY <1>1, <1>2, <1>3, PTL DEF Spec

-----------------------------------------------------------------------------
(* What a handler of profiles has read.                                    *)

(* What a handler of profiles has read is from before.                     *)
ReadInv ==
  /\ CareersTypeOK
  /\ \A a \in Handlers : hire[a].abilities \subseteq granted

(* A request that creates a profile knows it by its own name, and is past  *)
(* the writing of it as long as the profile is there.                      *)
CreatorInv ==
  /\ \A r \in Requests : kind[r] = "createProfile" /\ pc[r] \in {"readAbilities", "leaveJobs", "writeProfile"}
                           => hire[r].profile = r
  /\ profile # None /\ profile.by \in Requests =>
       /\ kind[profile.by] = "createProfile" /\ hire[profile.by].profile = profile.by
       /\ pc[profile.by] \in {"readBoth", "writeAbilities", "post", "deleteProfile"} \cup Over

(* The search knows a profile of before, and one its creation ended well.  *)
IndexedInv ==
  profile # None /\ ~indexed =>
    profile.by \in Requests /\ pc[profile.by] \notin {"done", "refused"}

(* A profile is deleted by its deletion, or by its creation.  Candidates a *)
(* job is about to list had an open profile when they were filtered.       *)
ListedInv ==
  /\ \A r \in Requests : pc[r] = "deleteProfile" => kind[r] \in {"deleteProfile", "createProfile"}
  /\ \/ \E r \in Requests : pc[r] = "recommend" /\ hire[r].found
     \/ \E j \in Makers : jobs[j] = "listed"
     => OpenProfile \/ \E r \in Requests : Closed(r)

(* Only the creation of a profile, and emissions, rewrite its abilities.   *)
LabelInv ==
  /\ \A r \in Requests : pc[r] \in {"readBoth", "writeAbilities"} => kind[r] = "createProfile"
  /\ \A e \in Emissions : pc[e] # "idle" => kind[e] = "emission"

(* Where an emission is in its certificate, and what it must have read.    *)
GrantInv ==
  \A e \in Emissions :
    /\ pc[e] \in {"idle", "findPaths", "completePath", "insert"} => e \notin granted
    /\ pc[e] \in {"readBoth", "writeAbilities"} => e \in granted
    /\ pc[e] = "writeAbilities" => e \in hire[e].abilities
    /\ profile # None /\ profile.by = Former /\ pc[e] \in {"findPaths", "completePath", "insert"} =>
         hire[e].found

(* Another handler wrote to the profile what it read before e was granted. *)
Overwritten(e) == \E a \in Handlers : /\ hire[a].profile = profile.by /\ e \notin hire[a].abilities
                                      /\ Wrote(a)

LostInv ==
  profile # None =>
    \A e \in granted \ profile.abilities :
      pc[e] = "done" =>
        \/ Overwritten(e)
        \/ /\ profile.by \in Requests
           /\ pc[profile.by] \in {"readBoth", "writeAbilities", "deleteProfile", "refused", "failed"}

CareersInv == /\ ReadInv /\ CreatorInv /\ LabelInv
              /\ IndexedInv /\ ListedInv /\ GrantInv /\ LostInv

(* The step of a leaves what the others have read alone, and what a itself *)
(* has read once it is done with reading.                                  *)
Reading == {"idle", "readAbilities", "readBoth"}

Keeps(a) == /\ hire'[a].profile = hire[a].profile
            /\ hire'[a].open = hire[a].open
            /\ hire'[a].abilities = hire[a].abilities

Reads(a) == /\ ReadInv'
            /\ \A b \in Handlers \ {a} : hire'[b] = hire[b]
            /\ pc[a] \in Reading \/ Keeps(a)

LEMMA NewHire ==
  ASSUME ReadInv, NEW a \in Handlers, NEW h \in Hire, hire' = [hire EXCEPT ![a] = h],
         UNCHANGED careerTables, h.abilities \subseteq granted,
         \/ pc[a] \in Reading
         \/ /\ h.profile = hire[a].profile /\ h.open = hire[a].open
            /\ h.abilities = hire[a].abilities
  PROVE  Reads(a) /\ hire'[a] = h
BY DEF ReadInv, CareersTypeOK, careerTables, Reads, Keeps

LEMMA SameHire ==
  ASSUME ReadInv, NEW a \in Handlers, hire' = hire, UNCHANGED granted,
         profile' \in Profile \cup {None}, profile' # None => profile'.abilities \subseteq granted,
         indexed' \in BOOLEAN, jobs' \in [Makers -> {"listed", "unlisted", None}]
  PROVE  Reads(a)
BY DEF ReadInv, CareersTypeOK, Reads, Keeps

LEMMA ReadBothReads ==
  ASSUME ReadInv, NEW a \in Handlers, ReadUserAbilities(a)
  PROVE  Reads(a)
<1>0. hire[a] \in Hire
  BY DEF ReadInv, CareersTypeOK
<1>1. CASE profile = None
  BY <1>1, SameHire DEF ReadUserAbilities, careerTables, ReadInv, CareersTypeOK
<1>2. CASE profile # None
  <2> DEFINE h == [hire[a] EXCEPT !.profile = profile.by, !.abilities = granted]
  <2>1. profile.by \in Makers
    BY <1>2 DEF ReadInv, CareersTypeOK, Profile
  <2>2. h \in Hire /\ h.abilities = granted
    BY <1>0, <2>1 DEF Hire, ReadInv, CareersTypeOK
  <2>3. hire' = [hire EXCEPT ![a] = h]
    BY <1>2 DEF ReadUserAbilities
  <2> QED
    BY <2>2, <2>3, NewHire DEF ReadUserAbilities, Reading
<1> QED
  BY <1>1, <1>2

LEMMA WriteAbilitiesReads ==
  ASSUME ReadInv, NEW a \in Handlers, UpdateAbilitiesOnProfile(a)
  PROVE  Reads(a)
<1>1. CASE ~Holds(a)
  BY <1>1, SameHire DEF UpdateAbilitiesOnProfile, ReadInv, CareersTypeOK
<1>2. CASE Holds(a)
  <2>1. profile \in Profile /\ hire[a].abilities \subseteq granted /\ granted \subseteq Emissions
    BY <1>2 DEF Holds, ReadInv, CareersTypeOK
  <2>2. /\ [profile EXCEPT !.abilities = hire[a].abilities] \in Profile
        /\ [profile EXCEPT !.abilities = hire[a].abilities].abilities = hire[a].abilities
    BY <2>1 DEF Profile
  <2> QED
    BY <1>2, <2>1, <2>2, SameHire DEF UpdateAbilitiesOnProfile, NewAbilityIds, ReadInv, CareersTypeOK
<1> QED
  BY <1>1, <1>2

LEMMA CareersRead ==
  ASSUME ReadInv, NEW r \in Requests, CareersStep(r)
  PROVE  Reads(r)
<1>0. r \in Handlers /\ r \in Makers /\ hire[r] \in Hire /\ hire[r].abilities \subseteq granted
  BY DEF Handlers, Makers, ReadInv, CareersTypeOK
<1>1. CASE CreateProfile(r)
  <2>1. PICK o \in {"yes", "no"}, f \in BOOLEAN :
          hire' = [hire EXCEPT ![r] = [NoHire EXCEPT !.profile = r, !.open = o, !.field = f]]
    BY <1>1 DEF CreateProfile
  <2>2. /\ [NoHire EXCEPT !.profile = r, !.open = o, !.field = f] \in Hire
        /\ [NoHire EXCEPT !.profile = r, !.open = o, !.field = f].abilities = {}
    BY <1>0 DEF NoHire, Hire
  <2> QED
    BY <1>0, <1>1, <2>1, <2>2, NewHire DEF CreateProfile, Start, Reading
<1>2. CASE UpdateProfile(r)
  <2>1. PICK o \in {"yes", "no", "asBefore"}, f \in BOOLEAN :
          hire' = [hire EXCEPT ![r] =
                     [NoHire EXCEPT !.profile = profile.by, !.open = o, !.field = f]]
    BY <1>2 DEF UpdateProfile
  <2>2. profile.by \in Makers
    BY <1>2 DEF UpdateProfile, ReadInv, CareersTypeOK, Profile
  <2>3. /\ [NoHire EXCEPT !.profile = profile.by, !.open = o, !.field = f] \in Hire
        /\ [NoHire EXCEPT !.profile = profile.by, !.open = o, !.field = f].abilities = {}
    BY <2>2 DEF NoHire, Hire
  <2> QED
    BY <1>0, <1>2, <2>1, <2>3, NewHire DEF UpdateProfile, Start, Reading
<1>3. CASE DeleteProfile(r)
  <2>1. profile.by \in Makers
    BY <1>3 DEF DeleteProfile, ReadInv, CareersTypeOK, Profile
  <2>2. /\ [NoHire EXCEPT !.profile = profile.by] \in Hire
        /\ [NoHire EXCEPT !.profile = profile.by].abilities = {}
    BY <2>1 DEF NoHire, Hire
  <2> QED
    BY <1>0, <1>3, <2>2, NewHire DEF DeleteProfile, Start, Reading
<1>4. CASE GetUserAbilities(r)
  <2>1. /\ [hire[r] EXCEPT !.abilities = granted] \in Hire
        /\ [hire[r] EXCEPT !.abilities = granted].abilities = granted
    BY <1>0 DEF Hire, ReadInv, CareersTypeOK
  <2> QED
    BY <1>0, <1>4, <2>1, NewHire DEF GetUserAbilities, Reading
<1>5. CASE RemoveCandidateFromJobs(r)
  BY <1>0, <1>5, SameHire DEF RemoveCandidateFromJobs, ReadInv, CareersTypeOK
<1>6. CASE CreateProfileRecord(r)
  <2>1. CASE RefuseHire(r)
    BY <1>0, <2>1, SameHire DEF RefuseHire, careerVars, careerTables, ReadInv, CareersTypeOK
  <2>2. CASE ~RefuseHire(r)
    <3> DEFINE new == [by |-> r, open |-> hire[r].open = "yes", field |-> hire[r].field,
                       abilities |-> hire[r].abilities]
    <3>1. new \in Profile /\ new.abilities = hire[r].abilities
      BY <1>0 DEF Profile, Hire
    <3> QED
      BY <1>0, <1>6, <2>2, <3>1, SameHire DEF CreateProfileRecord, ReadInv, CareersTypeOK
  <2> QED
    BY <2>1, <2>2
<1>7. CASE UpdateProfileRecord(r)
  <2>1. CASE RefuseHire(r)
    BY <1>0, <2>1, SameHire DEF RefuseHire, careerVars, careerTables, ReadInv, CareersTypeOK
  <2>2. CASE ~RefuseHire(r)
    <3>1. profile \in Profile
      BY <1>7, <2>2 DEF UpdateProfileRecord, Holds, ReadInv, CareersTypeOK
    <3> DEFINE new == [profile EXCEPT !.field = @ \/ hire[r].field,
                                      !.open = IF hire[r].open = "asBefore" THEN @
                                               ELSE hire[r].open = "yes",
                                      !.abilities = hire[r].abilities]
    <3>2. new \in Profile /\ new.abilities = hire[r].abilities
      BY <1>0, <3>1 DEF Profile, Hire
    <3>3. profile' = new /\ UNCHANGED <<granted, indexed, jobs, hire>>
      BY <1>7, <2>2 DEF UpdateProfileRecord
    <3> QED
      BY <1>0, <3>2, <3>3, SameHire DEF ReadInv, CareersTypeOK
  <2> QED
    BY <2>1, <2>2
<1>8. CASE DeleteProfileRecord(r)
  BY <1>0, <1>8, SameHire DEF DeleteProfileRecord, RefuseHire, careerVars, careerTables, ReadInv,
                              CareersTypeOK
<1>9. CASE ReadUserAbilities(r)
  BY <1>0, <1>9, ReadBothReads DEF Handlers
<1>10. CASE UpdateAbilitiesOnProfile(r)
  BY <1>0, <1>10, WriteAbilitiesReads
<1>11. CASE AbilitiesFail(r) \/ Post(r)
  BY <1>0, <1>11, SameHire DEF AbilitiesFail, Post, careerVars, careerTables, ReadInv, CareersTypeOK
<1>12. CASE CreateJob(r)
  <2>1. [NoHire EXCEPT !.job = r] \in Hire /\ [NoHire EXCEPT !.job = r].abilities = {}
    BY <1>0 DEF NoHire, Hire
  <2> QED
    BY <1>0, <1>12, <2>1, NewHire DEF CreateJob, Start, Reading
<1>13. CASE EditJob(r) \/ DeleteJob(r)
  <2>1. PICK j \in Makers : hire' = [hire EXCEPT ![r] = [NoHire EXCEPT !.job = j]]
    BY <1>13 DEF EditJob, DeleteJob, EditOrDeleteJob
  <2>2. [NoHire EXCEPT !.job = j] \in Hire /\ [NoHire EXCEPT !.job = j].abilities = {}
    BY DEF NoHire, Hire
  <2> QED
    BY <1>0, <1>13, <2>1, <2>2, NewHire DEF EditJob, DeleteJob, EditOrDeleteJob, Start, Reading
<1>14. CASE WriteJob(r) \/ AssociateCandidates(r) \/ DeleteJobRecord(r)
  BY <1>0, <1>14, SameHire DEF WriteJob, AssociateCandidates, DeleteJobRecord, RefuseHire, careerVars,
                               careerTables, ReadInv, CareersTypeOK
<1>15. CASE Search(r)
  <2>1. CASE hire' = hire
    BY <1>0, <1>15, <2>1, SameHire DEF Search, careerTables, ReadInv, CareersTypeOK
  <2>2. ASSUME NEW known \in {FALSE, indexed}, hire' = [hire EXCEPT ![r].found = known]
        PROVE  Reads(r)
    <3>1. /\ [hire[r] EXCEPT !.found = known] \in Hire
          /\ [hire[r] EXCEPT !.found = known].abilities = hire[r].abilities
          /\ [hire[r] EXCEPT !.found = known].profile = hire[r].profile
          /\ [hire[r] EXCEPT !.found = known].open = hire[r].open
      BY <1>0 DEF Hire, ReadInv, CareersTypeOK
    <3> QED
      BY <1>0, <1>15, <2>2, <3>1, NewHire DEF Search
  <2> QED
    BY <1>15, <2>1, <2>2 DEF Search
<1>16. CASE FilterCandidates(r)
  <2>1. /\ [hire[r] EXCEPT !.found = @ /\ OpenProfile] \in Hire
        /\ [hire[r] EXCEPT !.found = @ /\ OpenProfile].abilities = hire[r].abilities
        /\ [hire[r] EXCEPT !.found = @ /\ OpenProfile].profile = hire[r].profile
        /\ [hire[r] EXCEPT !.found = @ /\ OpenProfile].open = hire[r].open
    BY <1>0 DEF Hire
  <2> QED
    BY <1>0, <1>16, <2>1, NewHire DEF FilterCandidates
<1> QED
  BY <1>1, <1>2, <1>3, <1>4, <1>5, <1>6, <1>7, <1>8, <1>9, <1>10, <1>11, <1>12, <1>13, <1>14, <1>15,
     <1>16 DEF CareersStep

LEMMA AbilitiesRead ==
  ASSUME ReadInv, NEW e \in Emissions, AbilitiesStep(e)
  PROVE  Reads(e)
<1>0. e \in Handlers /\ hire[e] \in Hire /\ hire[e].abilities \subseteq granted
  BY DEF Handlers, ReadInv, CareersTypeOK
<1>1. CASE GetReceptor(e)
  <2>1. /\ [hire[e] EXCEPT !.found = profile # None] \in Hire
        /\ [hire[e] EXCEPT !.found = profile # None].abilities = hire[e].abilities
    BY <1>0 DEF Hire
  <2> QED
    BY <1>0, <1>1, <2>1, NewHire DEF GetReceptor, Start, Reading
<1>2. CASE InsertCertificate(e)
  BY <1>0, <1>2 DEF InsertCertificate, Reads, Keeps, ReadInv, CareersTypeOK
<1>3. CASE ReadUserAbilities(e)
  BY <1>0, <1>3, ReadBothReads
<1>4. CASE UpdateAbilitiesOnProfile(e)
  BY <1>0, <1>4, WriteAbilitiesReads
<1> QED
  BY <1>1, <1>2, <1>3, <1>4 DEF AbilitiesStep

LEMMA CreatorStep ==
  ASSUME ControlOK, ReadInv, CreatorInv, NEW r \in Requests, CareersStep(r)
  PROVE  CreatorInv'
<1> USE DEF Labels, PathLabels, CareerLabels, Over, Kinds, CareerKinds
<1>0. r \in Handlers /\ r \in Makers /\ r \notin Emissions /\ Elsewhere(r) /\ Reads(r)
  BY CareersMove, CareersRead, HandlersAssumption DEF Handlers, Makers
<1> DEFINE First(q) == kind[q] = "createProfile" /\ pc[q] \in {"readAbilities", "leaveJobs", "writeProfile"}
                         => hire[q].profile = q
           Late == {"readBoth", "writeAbilities", "post", "deleteProfile"}
<1>a. ASSUME First(r)', profile' # None => profile # None /\ profile'.by = profile.by,
             pc[r] \in Late => pc'[r] \in Late \cup Over,
             pc[r] = "readBoth" /\ profile # None /\ profile.by = r => hire'[r].profile = r
      PROVE  CreatorInv'
  BY <1>0, <1>a DEF CreatorInv, Elsewhere, Moves, Reads, Reading, Keeps, Handlers
<1> USE GotoMoves, StartMoves
<1>1. CASE CreateProfile(r)
  <2>1. hire'[r].profile = r
    BY <1>0, <1>1 DEF CreateProfile, NoHire, ReadInv, CareersTypeOK
  <2> QED
    BY <1>0, <1>1, <1>a, <2>1 DEF CreateProfile, careerTables
<1>2. CASE UpdateProfile(r) \/ DeleteProfile(r)
  <2>1. Start(r, "updateProfile", "readAbilities") \/ Start(r, "deleteProfile", "deleteProfile")
    BY <1>2, Zenon DEF UpdateProfile, DeleteProfile
  <2>2. /\ pc[r] = "idle" /\ pc'[r] \in Labels
        /\ kind'[r] = "updateProfile" \/ kind'[r] = "deleteProfile"
    BY <1>0, <2>1
  <2>3. UNCHANGED profile
    BY <1>2, Zenon DEF UpdateProfile, DeleteProfile, careerTables
  <2> QED
    BY <1>0, <1>a, <2>2, <2>3
<1>3. CASE GetUserAbilities(r)
  <2>1. hire'[r].profile = hire[r].profile
    BY <1>0, <1>3 DEF GetUserAbilities, ReadInv, CareersTypeOK, Hire
  <2> QED
    BY <1>0, <1>3, <1>a, <2>1 DEF GetUserAbilities, careerTables, CreatorInv
<1>4. CASE RemoveCandidateFromJobs(r)
  BY <1>0, <1>4, <1>a DEF RemoveCandidateFromJobs, CreatorInv
<1>5. CASE CreateProfileRecord(r)
  <2>1. CASE RefuseHire(r)
    BY <1>0, <1>5, <1>a, <2>1 DEF CreateProfileRecord, RefuseHire, careerVars, careerTables
  <2>2. CASE ~RefuseHire(r)
    <3>1. /\ profile'.by = r /\ hire' = hire /\ hire[r].profile = r
          /\ pc'[r] = "readBoth" /\ kind' = kind /\ kind[r] = "createProfile"
      BY <1>0, <1>5, <2>2 DEF CreateProfileRecord, CreatorInv
    <3> QED
      BY <1>0, <3>1 DEF CreatorInv, Elsewhere, Moves, Handlers
  <2> QED
    BY <2>1, <2>2
<1>6. CASE UpdateProfileRecord(r)
  <2>1. CASE RefuseHire(r)
    BY <1>0, <1>6, <1>a, <2>1 DEF UpdateProfileRecord, RefuseHire, careerVars, careerTables
  <2>2. CASE ~RefuseHire(r)
    <3>1. profile \in Profile
      BY <1>6, <2>2 DEF UpdateProfileRecord, Holds, ReadInv, CareersTypeOK
    <3>2. profile # None /\ profile'.by = profile.by
      BY <1>6, <2>2, <3>1 DEF UpdateProfileRecord, Holds, Profile
    <3> QED
      BY <1>0, <1>6, <1>a, <2>2, <3>2 DEF UpdateProfileRecord
  <2> QED
    BY <2>1, <2>2
<1>7. CASE DeleteProfileRecord(r)
  BY <1>0, <1>7, <1>a DEF DeleteProfileRecord, RefuseHire, careerVars, careerTables
<1>8. CASE ReadUserAbilities(r)
  <2>1. UNCHANGED profile /\ pc[r] = "readBoth" /\ pc'[r] \in {"writeAbilities", "post"}
    BY <1>0, <1>8 DEF ReadUserAbilities, careerTables, After
  <2>2. profile # None => hire'[r].profile = profile.by
    BY <1>0, <1>8 DEF ReadUserAbilities, ReadInv, CareersTypeOK, Hire
  <2> QED
    BY <1>0, <1>a, <2>1, <2>2
<1>9. CASE UpdateAbilitiesOnProfile(r)
  <2>1. pc[r] = "writeAbilities" /\ pc'[r] \in {"post", "deleteProfile", "refused"}
    BY <1>0, <1>9 DEF UpdateAbilitiesOnProfile, After, Abandon
  <2>2. profile' # None => profile # None /\ profile'.by = profile.by
    BY <1>9 DEF UpdateAbilitiesOnProfile, Holds, ReadInv, CareersTypeOK, Profile
  <2> QED
    BY <1>0, <1>a, <2>1, <2>2
<1>10. CASE AbilitiesFail(r)
  BY <1>0, <1>10, <1>a DEF AbilitiesFail, Abandon, careerVars, careerTables, CreatorInv
<1>11. CASE Post(r)
  <2>1. pc[r] = "post" /\ pc'[r] \in {"done", "deleteProfile", "refused"}
    BY <1>0, <1>11 DEF Post, Abandon
  <2> QED
    BY <1>0, <1>11, <1>a, <2>1 DEF Post
<1>12. CASE CreateJob(r) \/ EditJob(r) \/ DeleteJob(r)
  BY <1>0, <1>12, <1>a DEF CreateJob, EditJob, DeleteJob, EditOrDeleteJob, careerTables
<1>13. CASE WriteJob(r) \/ Search(r) \/ FilterCandidates(r)
  BY <1>0, <1>13, <1>a DEF WriteJob, Search, FilterCandidates, RefuseHire, careerVars, careerTables
<1>14. CASE AssociateCandidates(r) \/ DeleteJobRecord(r)
  BY <1>0, <1>14, <1>a DEF AssociateCandidates, DeleteJobRecord, RefuseHire, careerVars, careerTables
<1> QED
  BY <1>1, <1>2, <1>3, <1>4, <1>5, <1>6, <1>7, <1>8, <1>9, <1>10, <1>11, <1>12, <1>13, <1>14
     DEF CareersStep

LEMMA IndexedStep ==
  ASSUME ControlOK, ReadInv, CreatorInv, IndexedInv, NEW r \in Requests, CareersStep(r)
  PROVE  IndexedInv'
<1> USE DEF Labels, PathLabels, CareerLabels, Over, Kinds, CareerKinds
<1>0. r \in Handlers /\ r \in Makers /\ r \notin Emissions /\ Elsewhere(r) /\ Reads(r)
  BY CareersMove, CareersRead, HandlersAssumption DEF Handlers, Makers
<1>a. ASSUME indexed => indexed', profile' # None => profile # None /\ profile'.by = profile.by,
             \/ pc'[r] \notin {"done", "refused"} \/ profile = None \/ profile.by # r
      PROVE  IndexedInv'
  BY <1>0, <1>a DEF IndexedInv, Elsewhere, Moves, Handlers
<1>b. ASSUME UNCHANGED <<profile, indexed>>,
             pc[r] \notin {"readBoth", "writeAbilities", "post", "deleteProfile"}
      PROVE  IndexedInv'
  BY <1>0, <1>a, <1>b DEF CreatorInv, Elsewhere
<1> USE GotoMoves, StartMoves
<1>1. CASE CreateProfile(r) \/ UpdateProfile(r) \/ DeleteProfile(r)
  BY <1>1, <1>b DEF CreateProfile, UpdateProfile, DeleteProfile, Start, careerTables
<1>2. CASE GetUserAbilities(r) \/ RemoveCandidateFromJobs(r)
  BY <1>2, <1>b DEF GetUserAbilities, RemoveCandidateFromJobs, careerTables
<1>3. CASE CreateProfileRecord(r)
  <2>1. CASE RefuseHire(r)
    BY <1>3, <1>b, <2>1 DEF CreateProfileRecord, RefuseHire, careerVars, careerTables
  <2>2. CASE ~RefuseHire(r)
    BY <1>0, <1>3, <2>2 DEF CreateProfileRecord, IndexedInv
  <2> QED
    BY <2>1, <2>2
<1>4. CASE UpdateProfileRecord(r)
  <2>1. CASE RefuseHire(r)
    BY <1>4, <1>b, <2>1 DEF UpdateProfileRecord, RefuseHire, careerVars, careerTables
  <2>2. CASE ~RefuseHire(r)
    <3>1. profile \in Profile
      BY <1>4, <2>2 DEF UpdateProfileRecord, Holds, ReadInv, CareersTypeOK
    <3>2. profile # None /\ profile'.by = profile.by
      BY <1>4, <2>2, <3>1 DEF UpdateProfileRecord, Holds, Profile
    <3> QED
      BY <1>0, <1>4, <1>a, <2>2, <3>2 DEF UpdateProfileRecord
  <2> QED
    BY <2>1, <2>2
<1>5. CASE DeleteProfileRecord(r)
  <2>1. CASE RefuseHire(r)
    <3>1. profile = None \/ profile.by # Target(r) \/ profile' = None
      BY <1>5 DEF DeleteProfileRecord
    <3> QED
      BY <1>0, <1>a, <2>1, <3>1 DEF RefuseHire, careerVars, careerTables, Target, CreatorInv
  <2>2. CASE ~RefuseHire(r)
    BY <1>5, <2>2 DEF DeleteProfileRecord, IndexedInv
  <2> QED
    BY <2>1, <2>2
<1>6. CASE ReadUserAbilities(r)
  <2>1. UNCHANGED <<profile, indexed>> /\ pc'[r] \in {"writeAbilities", "post"}
    BY <1>0, <1>6 DEF ReadUserAbilities, careerTables, After
  <2> QED
    BY <1>a, <2>1
<1>7. CASE UpdateAbilitiesOnProfile(r)
  <2>1. indexed' = indexed /\ (pc'[r] = "refused" => kind[r] # "createProfile") /\ pc'[r] # "done"
    BY <1>0, <1>7 DEF UpdateAbilitiesOnProfile, After, Abandon
  <2>2. profile' # None => profile # None /\ profile'.by = profile.by
    BY <1>7 DEF UpdateAbilitiesOnProfile, Holds, ReadInv, CareersTypeOK, Profile
  <2> QED
    BY <1>0, <1>a, <2>1, <2>2 DEF CreatorInv
<1>8. CASE AbilitiesFail(r)
  BY <1>0, <1>8, <1>a DEF AbilitiesFail, Abandon, careerVars, careerTables
<1>9. CASE Post(r)
  <2>1. CASE indexed' = TRUE
    BY <2>1 DEF IndexedInv
  <2>2. CASE indexed' = indexed /\ Abandon(r)
    BY <1>0, <1>9, <1>a, <2>2 DEF Post, Abandon, CreatorInv
  <2> QED
    BY <1>9, <2>1, <2>2 DEF Post
<1>10. CASE CreateJob(r) \/ EditJob(r) \/ DeleteJob(r)
  BY <1>10, <1>b DEF CreateJob, EditJob, DeleteJob, EditOrDeleteJob, Start, careerTables
<1>11. CASE WriteJob(r) \/ Search(r) \/ FilterCandidates(r)
  BY <1>11, <1>b DEF WriteJob, Search, FilterCandidates, RefuseHire, careerVars, careerTables
<1>12. CASE AssociateCandidates(r) \/ DeleteJobRecord(r)
  BY <1>12, <1>b DEF AssociateCandidates, DeleteJobRecord, RefuseHire, careerVars, careerTables
<1> QED
  BY <1>1, <1>2, <1>3, <1>4, <1>5, <1>6, <1>7, <1>8, <1>9, <1>10, <1>11, <1>12 DEF CareersStep

LEMMA OnlyPost ==
  ASSUME ControlOK, NEW r \in Requests, CareersStep(r), pc[r] = "post"
  PROVE  pc'[r] \in {"done", "refused"} \/ (pc'[r] = "deleteProfile" /\ kind[r] = "createProfile")
<1>0. r \in Handlers
  BY DEF Handlers
<1>1. Post(r)
  BY DEF CareersStep, CreateProfile, UpdateProfile, DeleteProfile, GetUserAbilities,
         RemoveCandidateFromJobs, CreateProfileRecord, UpdateProfileRecord, DeleteProfileRecord,
         ReadUserAbilities, UpdateAbilitiesOnProfile, AbilitiesFail, CreateJob, EditJob, DeleteJob,
         EditOrDeleteJob, WriteJob, Search, FilterCandidates, AssociateCandidates, DeleteJobRecord,
         Start
<1>2. CASE kind[r] = "createProfile"
  <2>1. \E l \in {"done", "deleteProfile"} : Goto(r, l)
    BY <1>1, <1>2 DEF Post, Abandon
  <2> QED
    BY <1>0, <1>2, <2>1, GotoMoves DEF Labels, CareerLabels, Over
<1>3. CASE kind[r] # "createProfile"
  <2>1. PICK l \in {"done", "refused"} : Goto(r, l)
    BY <1>1, <1>3 DEF Post, Abandon
  <2>2. l \in Labels
    BY DEF Labels, CareerLabels, Over
  <2> QED
    BY <1>0, <2>1, <2>2, GotoMoves
<1> QED
  BY <1>2, <1>3

LEMMA ListedStep ==
  ASSUME ControlOK, ReadInv, ListedInv, NEW r \in Requests, CareersStep(r)
  PROVE  ListedInv'
<1> USE DEF Labels, PathLabels, CareerLabels, Over, Kinds, CareerKinds
<1>0. r \in Handlers /\ r \in Makers /\ r \notin Emissions /\ Elsewhere(r) /\ Reads(r)
  BY CareersMove, CareersRead, HandlersAssumption DEF Handlers, Makers
<1> DEFINE Posted == \/ \E q \in Requests : pc[q] = "recommend" /\ hire[q].found
                     \/ \E j \in Makers : jobs[j] = "listed"
           Owned == pc[r] = "deleteProfile" => kind[r] \in {"deleteProfile", "createProfile"}
           Explained == OpenProfile \/ \E q \in Requests : Closed(q)
<1>1. ASSUME NEW q \in Requests, Closed(q) PROVE Closed(q)'
  <2>1. CASE q = r
    <3>1. pc[r] = "post" /\ kind[r] = "updateProfile" /\ hire[r].open = "no"
      BY <1>0, <1>1, <2>1 DEF Closed, Wrote, ListedInv, Elsewhere
    <3>2. pc'[r] \in {"done", "refused"} /\ kind'[r] = kind[r] /\ hire'[r].open = "no"
      BY <1>0, <3>1, OnlyPost DEF Elsewhere, Moves, Reads, Reading, Keeps
    <3> QED
      BY <2>1, <3>1, <3>2 DEF Closed, Wrote
  <2>2. CASE q # r
    BY <1>0, <1>1, <2>2 DEF Closed, Wrote, Elsewhere, Moves, Reads, Handlers
  <2> QED
    BY <2>1, <2>2
<1>a. ASSUME Posted' => Posted \/ Explained', OpenProfile => Explained', Owned'
      PROVE  ListedInv'
  <2>1. Posted' => Explained'
    BY <1>a, <1>1 DEF ListedInv
  <2>2. \A q \in Requests \ {r} : pc'[q] = pc[q] /\ kind'[q] = kind[q]
    BY <1>0 DEF Elsewhere, Moves, Handlers
  <2> QED
    BY <1>a, <2>1, <2>2 DEF ListedInv
<1>b. ASSUME UNCHANGED <<profile, jobs>>, pc'[r] # "recommend", Owned'
      PROVE  ListedInv'
  <2>1. Posted' => Posted
    BY <1>0, <1>b DEF Elsewhere, Moves, Reads, Handlers
  <2>2. OpenProfile => OpenProfile'
    BY <1>b DEF OpenProfile
  <2> QED
    BY <1>a, <1>b, <2>1, <2>2
<1> USE GotoMoves, StartMoves
<1>2. CASE CreateProfile(r) \/ UpdateProfile(r) \/ DeleteProfile(r)
  <2>1. UNCHANGED <<profile, jobs>> /\ pc'[r] \in {"readAbilities", "deleteProfile"}
    BY <1>0, <1>2 DEF CreateProfile, UpdateProfile, DeleteProfile, careerTables
  <2>2. Owned'
    <3>1. CASE CreateProfile(r) \/ UpdateProfile(r)
      <4>1. pc'[r] = "readAbilities"
        BY <1>0, <3>1 DEF CreateProfile, UpdateProfile
      <4> QED
        BY <4>1
    <3>2. CASE DeleteProfile(r)
      BY <1>0, <3>2 DEF DeleteProfile
    <3> QED
      BY <1>2, <3>1, <3>2
  <2> QED
    BY <1>b, <2>1, <2>2
<1>3. CASE GetUserAbilities(r)
  BY <1>0, <1>3, <1>b DEF GetUserAbilities, careerTables
<1>4. CASE RemoveCandidateFromJobs(r)
  <2>1. pc'[r] = "writeProfile" /\ UNCHANGED profile /\ \A j \in Makers : jobs'[j] # "listed"
    BY <1>0, <1>4 DEF RemoveCandidateFromJobs
  <2>2. Posted' => Posted
    BY <1>0, <2>1 DEF Elsewhere, Moves, Reads, Handlers
  <2> QED
    BY <1>a, <2>1, <2>2 DEF OpenProfile
<1>5. CASE CreateProfileRecord(r)
  <2>1. CASE RefuseHire(r)
    BY <1>0, <1>b, <2>1 DEF RefuseHire, careerVars, careerTables
  <2>2. CASE ~RefuseHire(r)
    <3>1. profile = None /\ UNCHANGED jobs /\ pc'[r] = "readBoth"
      BY <1>0, <1>5, <2>2 DEF CreateProfileRecord
    <3>2. Posted' => Posted
      BY <1>0, <3>1 DEF Elsewhere, Moves, Reads, Handlers
    <3> QED
      BY <1>a, <3>1, <3>2 DEF OpenProfile
  <2> QED
    BY <2>1, <2>2
<1>6. CASE UpdateProfileRecord(r)
  <2>1. CASE RefuseHire(r)
    BY <1>0, <1>b, <2>1 DEF RefuseHire, careerVars, careerTables
  <2>2. CASE ~RefuseHire(r)
    <3>1. UNCHANGED <<jobs, hire>> /\ pc'[r] = "post" /\ kind'[r] = "updateProfile"
      BY <1>0, <1>6, <2>2 DEF UpdateProfileRecord
    <3>2. Posted' => Posted
      BY <1>0, <3>1 DEF Elsewhere, Moves, Reads, Handlers
    <3>3. CASE hire[r].open = "no"
      BY <1>a, <3>1, <3>2, <3>3 DEF Closed, Wrote
    <3>4. CASE hire[r].open # "no"
      <4>1. profile \in Profile /\ hire[r].open \in {"yes", "asBefore"}
        BY <1>0, <1>6, <2>2, <3>4 DEF UpdateProfileRecord, Holds, ReadInv, CareersTypeOK, Hire
      <4>2. profile' # None /\ (profile.open => profile'.open)
        <5> DEFINE new == [profile EXCEPT !.field = @ \/ hire[r].field,
                                          !.open = IF hire[r].open = "asBefore" THEN @
                                                   ELSE hire[r].open = "yes",
                                          !.abilities = hire[r].abilities]
        <5>0. hire[r] \in Hire /\ profile' = new
          BY <1>0, <1>6, <2>2 DEF ReadInv, CareersTypeOK, UpdateProfileRecord
        <5>1. profile' \in Profile
          BY <4>1, <5>0 DEF Profile, Hire
        <5>2. profile'.open = (IF hire[r].open = "asBefore" THEN profile.open
                               ELSE hire[r].open = "yes")
          BY <1>6, <2>2, <4>1 DEF UpdateProfileRecord, Profile
        <5> QED
          BY <4>1, <5>1, <5>2, CareersAssumption
      <4> QED
        BY <1>a, <3>1, <3>2, <4>2 DEF OpenProfile
    <3> QED
      BY <3>3, <3>4
  <2> QED
    BY <2>1, <2>2
<1>7. CASE DeleteProfileRecord(r)
  <2>1. CASE RefuseHire(r)
    BY <1>0, <1>b, <2>1 DEF RefuseHire, careerVars, careerTables
  <2>2. CASE ~RefuseHire(r)
    <3>1. /\ pc[r] = "deleteProfile" /\ UNCHANGED jobs
          /\ pc'[r] = (IF kind[r] = "deleteProfile" THEN "done" ELSE "refused") /\ kind' = kind
      BY <1>0, <1>7, <2>2 DEF DeleteProfileRecord
    <3>2. Posted' => Posted
      BY <1>0, <3>1 DEF Elsewhere, Moves, Reads, Handlers
    <3>3. Closed(r)'
      BY <3>1 DEF Closed, ListedInv
    <3> QED
      BY <1>a, <3>1, <3>2, <3>3
  <2> QED
    BY <2>1, <2>2
<1>8. CASE ReadUserAbilities(r)
  <2>1. UNCHANGED <<profile, jobs>> /\ pc'[r] \in {"writeAbilities", "post"}
    BY <1>0, <1>8 DEF ReadUserAbilities, careerTables, After
  <2> QED
    BY <1>b, <2>1
<1>9. CASE UpdateAbilitiesOnProfile(r)
  <2>1. /\ UNCHANGED jobs /\ pc'[r] \in {"post", "deleteProfile", "refused"}
        /\ pc'[r] = "deleteProfile" => kind'[r] = "createProfile"
    BY <1>0, <1>9 DEF UpdateAbilitiesOnProfile, After, Abandon
  <2>2. OpenProfile => OpenProfile'
    <3>1. CASE ~Holds(r)
      BY <1>9, <3>1 DEF UpdateAbilitiesOnProfile, OpenProfile
    <3>2. CASE Holds(r)
      <4>1. profile \in Profile /\ hire[r].abilities \subseteq Emissions
        BY <1>0, <3>2 DEF Holds, ReadInv, CareersTypeOK
      <4>2. profile' \in Profile /\ profile'.open = profile.open
        BY <1>9, <3>2, <4>1 DEF UpdateAbilitiesOnProfile, NewAbilityIds, Profile
      <4> QED
        BY <4>2, CareersAssumption DEF OpenProfile
    <3> QED
      BY <3>1, <3>2
  <2>3. Posted' => Posted
    BY <1>0, <2>1 DEF Elsewhere, Moves, Reads, Handlers
  <2> QED
    BY <1>a, <2>1, <2>2, <2>3
<1>10. CASE AbilitiesFail(r)
  BY <1>0, <1>10, <1>b DEF AbilitiesFail, Abandon, careerVars, careerTables
<1>11. CASE Post(r)
  <2>1. /\ UNCHANGED <<profile, jobs>> /\ pc'[r] \in {"done", "deleteProfile", "refused"}
        /\ pc'[r] = "deleteProfile" => kind[r] = "createProfile"
    BY <1>11, OnlyPost DEF Post
  <2>2. kind'[r] = kind[r]
    BY <1>0, <1>11 DEF Post, Elsewhere, Moves
  <2> QED
    BY <1>b, <2>1, <2>2
<1>12. CASE CreateJob(r) \/ EditJob(r) \/ DeleteJob(r)
  <2>1. UNCHANGED <<profile, jobs>> /\ pc'[r] \in {"writeJob", "deleteJob"}
    BY <1>0, <1>12 DEF CreateJob, EditJob, DeleteJob, EditOrDeleteJob, careerTables
  <2> QED
    BY <1>b, <2>1
<1>13. CASE WriteJob(r)
  <2>1. CASE RefuseHire(r)
    BY <1>0, <1>b, <2>1 DEF RefuseHire, careerVars, careerTables
  <2>2. CASE ~RefuseHire(r)
    <3>1. /\ UNCHANGED profile /\ pc'[r] = "search"
          /\ \A j \in Makers : jobs'[j] = "listed" => jobs[j] = "listed"
      BY <1>0, <1>13, <2>2 DEF WriteJob, ReadInv, CareersTypeOK
    <3>2. Posted' => Posted
      BY <1>0, <3>1 DEF Elsewhere, Moves, Reads, Handlers
    <3> QED
      BY <1>a, <3>1, <3>2 DEF OpenProfile
  <2> QED
    BY <2>1, <2>2
<1>14. CASE Search(r)
  <2>1. UNCHANGED <<profile, jobs>> /\ pc'[r] \in {"deleteJob", "refused", "filter"}
    BY <1>0, <1>14 DEF Search, careerTables
  <2> QED
    BY <1>b, <2>1
<1>15. CASE FilterCandidates(r)
  <2>1. UNCHANGED <<profile, jobs>> /\ pc'[r] = "recommend"
    BY <1>0, <1>15 DEF FilterCandidates, careerTables
  <2>2. hire'[r].found = (hire[r].found /\ OpenProfile)
    BY <1>0, <1>15 DEF FilterCandidates, ReadInv, CareersTypeOK, Hire
  <2>3. Posted' => Posted \/ OpenProfile
    <3>1. \A q \in Requests \ {r} : pc'[q] = pc[q] /\ hire'[q] = hire[q]
      BY <1>0 DEF Elsewhere, Moves, Reads, Handlers
    <3> QED
      BY <2>1, <2>2, <3>1
  <2> QED
    BY <1>a, <2>1, <2>3 DEF OpenProfile
<1>16. CASE AssociateCandidates(r)
  <2>1. CASE RefuseHire(r)
    BY <1>0, <1>b, <2>1 DEF RefuseHire, careerVars, careerTables
  <2>2. CASE ~RefuseHire(r)
    <3>1. /\ UNCHANGED <<profile, hire>> /\ pc[r] = "recommend" /\ pc'[r] = "done"
          /\ \A j \in Makers : jobs'[j] = "listed" => jobs[j] = "listed" \/ hire[r].found
      BY <1>0, <1>16, <2>2 DEF AssociateCandidates, ReadInv, CareersTypeOK
    <3>2. Posted' => Posted
      BY <1>0, <3>1 DEF Elsewhere, Moves, Reads, Handlers
    <3> QED
      BY <1>a, <3>1, <3>2 DEF OpenProfile
  <2> QED
    BY <2>1, <2>2
<1>17. CASE DeleteJobRecord(r)
  <2>1. CASE RefuseHire(r)
    BY <1>0, <1>b, <2>1 DEF RefuseHire, careerVars, careerTables
  <2>2. CASE ~RefuseHire(r)
    <3>1. /\ UNCHANGED profile /\ pc'[r] \in {"done", "refused"}
          /\ \A j \in Makers : jobs'[j] = "listed" => jobs[j] = "listed"
      BY <1>0, <1>17, <2>2, CareersAssumption DEF DeleteJobRecord, ReadInv, CareersTypeOK
    <3>2. Posted' => Posted
      BY <1>0, <3>1 DEF Elsewhere, Moves, Reads, Handlers
    <3> QED
      BY <1>a, <3>1, <3>2 DEF OpenProfile
  <2> QED
    BY <2>1, <2>2
<1> QED
  BY <1>2, <1>3, <1>4, <1>5, <1>6, <1>7, <1>8, <1>9, <1>10, <1>11, <1>12, <1>13, <1>14, <1>15, <1>16,
     <1>17 DEF CareersStep

LEMMA LabelStep ==
  ASSUME ControlOK, LabelInv, NEW r \in Requests, CareersStep(r)
  PROVE  LabelInv'
<1> USE DEF Labels, PathLabels, CareerLabels, Over, Kinds, CareerKinds
<1>0. r \in Handlers /\ r \notin Emissions /\ Elsewhere(r)
  BY CareersMove, HandlersAssumption DEF Handlers
<1>a. ASSUME pc'[r] \in {"readBoth", "writeAbilities"} => kind'[r] = "createProfile"
      PROVE  LabelInv'
  BY <1>0, <1>a DEF LabelInv, Elsewhere, Moves, Handlers
<1> USE GotoMoves, StartMoves
<1>1. CASE CreateProfile(r) \/ UpdateProfile(r) \/ DeleteProfile(r)
  <2>1. pc'[r] \in {"readAbilities", "deleteProfile"}
    BY <1>0, <1>1 DEF CreateProfile, UpdateProfile, DeleteProfile
  <2> QED
    BY <1>a, <2>1
<1>2. CASE GetUserAbilities(r) \/ RemoveCandidateFromJobs(r)
  <2>1. pc'[r] \in {"leaveJobs", "writeProfile"}
    BY <1>0, <1>2 DEF GetUserAbilities, RemoveCandidateFromJobs
  <2> QED
    BY <1>a, <2>1
<1>3. CASE CreateProfileRecord(r)
  <2>1. kind' = kind /\ kind[r] = "createProfile"
    BY <1>0, <1>3 DEF CreateProfileRecord, RefuseHire
  <2> QED
    BY <1>a, <2>1
<1>4. CASE UpdateProfileRecord(r) \/ DeleteProfileRecord(r)
  <2>1. pc'[r] \in {"post", "done", "refused"}
    BY <1>0, <1>4 DEF UpdateProfileRecord, DeleteProfileRecord, RefuseHire
  <2> QED
    BY <1>a, <2>1
<1>5. CASE ReadUserAbilities(r) \/ UpdateAbilitiesOnProfile(r) \/ AbilitiesFail(r)
  <2>1. pc[r] \in {"readBoth", "writeAbilities"}
    BY <1>5 DEF ReadUserAbilities, UpdateAbilitiesOnProfile, AbilitiesFail
  <2> QED
    BY <1>0, <1>a, <2>1 DEF LabelInv, Elsewhere, Moves
<1>6. CASE Post(r)
  <2>1. pc'[r] \in {"done", "refused", "deleteProfile"}
    BY <1>6, OnlyPost DEF Post
  <2> QED
    BY <1>a, <2>1
<1>7. CASE CreateJob(r) \/ EditJob(r) \/ DeleteJob(r)
  <2>1. pc'[r] \in {"writeJob", "deleteJob"}
    BY <1>0, <1>7 DEF CreateJob, EditJob, DeleteJob, EditOrDeleteJob
  <2> QED
    BY <1>a, <2>1
<1>8. CASE WriteJob(r) \/ Search(r) \/ FilterCandidates(r)
  <2>1. pc'[r] \in {"search", "deleteJob", "filter", "recommend", "refused"}
    BY <1>0, <1>8 DEF WriteJob, Search, FilterCandidates, RefuseHire
  <2> QED
    BY <1>a, <2>1
<1>9. CASE AssociateCandidates(r) \/ DeleteJobRecord(r)
  <2>1. pc'[r] \in {"done", "refused"}
    BY <1>0, <1>9 DEF AssociateCandidates, DeleteJobRecord, RefuseHire
  <2> QED
    BY <1>a, <2>1
<1> QED
  BY <1>1, <1>2, <1>3, <1>4, <1>5, <1>6, <1>7, <1>8, <1>9 DEF CareersStep

(* What is written to the profile is what was read, unless it is another.  *)
LEMMA WriteEffect ==
  ASSUME ReadInv, NEW a \in Handlers, UpdateAbilitiesOnProfile(a)
  PROVE  \/ profile' = profile /\ Abandon(a)
         \/ /\ profile # None /\ profile' # None /\ profile.by = hire[a].profile
            /\ profile'.by = profile.by /\ profile'.open = profile.open
            /\ profile'.abilities = hire[a].abilities
            /\ Goto(a, After(a))
<1>1. CASE ~Holds(a)
  BY <1>1 DEF UpdateAbilitiesOnProfile
<1>2. CASE Holds(a)
  <2>1. /\ profile \in Profile /\ profile # None /\ profile.by = hire[a].profile
        /\ hire[a].abilities \subseteq Emissions
    BY <1>2 DEF Holds, ReadInv, CareersTypeOK
  <2>2. /\ profile' \in Profile /\ profile'.by = profile.by /\ profile'.open = profile.open
        /\ profile'.abilities = hire[a].abilities
    BY <1>2, <2>1 DEF UpdateAbilitiesOnProfile, NewAbilityIds, Profile
  <2> QED
    BY <1>2, <2>1, <2>2, CareersAssumption DEF UpdateAbilitiesOnProfile
<1> QED
  BY <1>1, <1>2

(* A profile is a new one of the handler, or stays whose it was.           *)
LEMMA SameMaker ==
  ASSUME ReadInv, NEW r \in Requests, CareersStep(r), profile' # None
  PROVE  profile'.by = r \/ (profile # None /\ profile'.by = profile.by)
<1>0. r \in Handlers
  BY DEF Handlers
<1>1. CASE profile' = profile
  BY <1>1
<1>2. CASE CreateProfileRecord(r)
  BY <1>1, <1>2 DEF CreateProfileRecord, RefuseHire, careerVars, careerTables
<1>3. CASE UpdateProfileRecord(r)
  <2>1. CASE RefuseHire(r)
    BY <1>1, <2>1 DEF RefuseHire, careerVars, careerTables
  <2>2. CASE ~RefuseHire(r)
    BY <1>3, <2>2 DEF UpdateProfileRecord, Holds, ReadInv, CareersTypeOK, Profile
  <2> QED
    BY <2>1, <2>2
<1>4. CASE DeleteProfileRecord(r)
  BY <1>1, <1>4 DEF DeleteProfileRecord, RefuseHire, careerVars, careerTables
<1>5. CASE UpdateAbilitiesOnProfile(r)
  BY <1>0, <1>5, WriteEffect
<1> QED
  BY <1>1, <1>2, <1>3, <1>4, <1>5 DEF CareersStep, CreateProfile, UpdateProfile, DeleteProfile,
     GetUserAbilities, RemoveCandidateFromJobs, ReadUserAbilities, AbilitiesFail, Post, CreateJob,
     EditJob, DeleteJob, EditOrDeleteJob, WriteJob, Search, FilterCandidates, AssociateCandidates,
     DeleteJobRecord, RefuseHire, careerVars, careerTables

LEMMA SameGrants ==
  ASSUME NEW r \in Requests, CareersStep(r)
  PROVE  granted' = granted
BY DEF CareersStep, CreateProfile, UpdateProfile, DeleteProfile, GetUserAbilities,
       RemoveCandidateFromJobs, CreateProfileRecord, UpdateProfileRecord, DeleteProfileRecord,
       ReadUserAbilities, UpdateAbilitiesOnProfile, AbilitiesFail, Post, CreateJob, EditJob, DeleteJob,
       EditOrDeleteJob, WriteJob, Search, FilterCandidates, AssociateCandidates, DeleteJobRecord,
       RefuseHire, careerVars, careerTables

LEMMA GrantStep ==
  ASSUME ControlOK, ReadInv, GrantInv, NEW r \in Requests, CareersStep(r)
  PROVE  GrantInv'
<1>1. \A e \in Emissions : pc'[e] = pc[e] /\ hire'[e] = hire[e]
  BY CareersMove, CareersRead, HandlersAssumption DEF Elsewhere, Moves, Reads, Handlers
<1>2. profile' # None /\ profile'.by = Former => profile # None /\ profile.by = Former
  BY SameMaker, HandlersAssumption DEF Handlers
<1> QED
  BY <1>1, <1>2, SameGrants DEF GrantInv

(* What has been overwritten stays overwritten while the profile stays.    *)
LEMMA OverwrittenStays ==
  ASSUME NEW a \in Handlers, Moves(a), \A b \in Handlers \ {a} : hire'[b] = hire[b],
         Wrote(a) => Keeps(a) /\ Wrote(a)',
         NEW e, Overwritten(e), profile'.by = profile.by
  PROVE  Overwritten(e)'
BY DEF Overwritten, Moves, Keeps, Wrote

LEMMA LostStep ==
  ASSUME ControlOK, ReadInv, CreatorInv, LabelInv, LostInv, NEW r \in Requests, CareersStep(r)
  PROVE  LostInv'
<1> USE DEF Labels, PathLabels, CareerLabels, Over, Kinds, CareerKinds
<1>0. r \in Handlers /\ r \in Makers /\ r \notin Emissions /\ Elsewhere(r) /\ Reads(r)
  BY CareersMove, CareersRead, HandlersAssumption DEF Handlers, Makers
<1> DEFINE Late == {"readBoth", "writeAbilities", "post", "deleteProfile"}
           Unsettled == {"readBoth", "writeAbilities", "deleteProfile", "refused", "failed"}
<1>a. ASSUME profile' = profile, Wrote(r) => Wrote(r)',
             \/ pc[r] \notin Late
             \/ pc[r] = "post"
             \/ pc'[r] \in Unsettled
      PROVE  LostInv'
  <2> SUFFICES ASSUME profile' # None, NEW e \in granted' \ profile'.abilities, pc'[e] = "done",
                      ~Overwritten(e)'
               PROVE  profile'.by \in Requests /\ pc'[profile'.by] \in Unsettled
    BY DEF LostInv
  <2>1. e \in granted /\ e \in Emissions /\ pc[e] = "done" /\ profile # None
    BY <1>0, <1>a, SameGrants DEF ReadInv, CareersTypeOK, Elsewhere, Moves, Handlers
  <2>2. Wrote(r) => Keeps(r)
    BY <1>0 DEF Wrote, Reads, Reading
  <2>3. ~Overwritten(e)
    BY <1>0, <1>a, <2>2, OverwrittenStays DEF Elsewhere, Reads
  <2>4. profile.by \in Requests /\ pc[profile.by] \in Unsettled
    BY <1>a, <2>1, <2>3 DEF LostInv
  <2>5. CASE profile.by # r
    BY <1>0, <1>a, <2>4, <2>5 DEF Elsewhere, Moves, Handlers
  <2>6. CASE profile.by = r
    BY <1>0, <1>a, <2>1, <2>4, <2>6 DEF Elsewhere
  <2> QED
    BY <2>5, <2>6
<1>b. ASSUME hire' = hire, profile'.by = hire[r].profile, profile'.abilities = hire[r].abilities,
             pc'[r] = "post", kind'[r] # "deleteProfile"
      PROVE  LostInv'
  BY <1>0, <1>b DEF LostInv, Overwritten, Wrote
<1>c. ASSUME UNCHANGED profile, pc[r] \notin Late
      PROVE  LostInv'
  BY <1>0, <1>a, <1>c DEF Wrote, Elsewhere
<1> USE GotoMoves, StartMoves
<1>1. CASE CreateProfile(r) \/ UpdateProfile(r) \/ DeleteProfile(r)
  BY <1>1, <1>c DEF CreateProfile, UpdateProfile, DeleteProfile, Start, careerTables
<1>2. CASE GetUserAbilities(r) \/ RemoveCandidateFromJobs(r)
  BY <1>2, <1>c DEF GetUserAbilities, RemoveCandidateFromJobs, careerTables
<1>3. CASE CreateProfileRecord(r)
  <2>1. CASE RefuseHire(r)
    BY <1>3, <1>c, <2>1 DEF CreateProfileRecord, RefuseHire, careerVars, careerTables
  <2>2. CASE ~RefuseHire(r)
    <3>1. profile'.by = r /\ pc'[r] = "readBoth"
      BY <1>0, <1>3, <2>2 DEF CreateProfileRecord
    <3> QED
      BY <3>1 DEF LostInv
  <2> QED
    BY <2>1, <2>2
<1>4. CASE UpdateProfileRecord(r)
  <2>1. CASE RefuseHire(r)
    BY <1>4, <1>c, <2>1 DEF UpdateProfileRecord, RefuseHire, careerVars, careerTables
  <2>2. CASE ~RefuseHire(r)
    <3>1. profile \in Profile /\ profile.by = hire[r].profile
      BY <1>4, <2>2 DEF UpdateProfileRecord, Holds, ReadInv, CareersTypeOK
    <3>2. profile'.by = profile.by /\ profile'.abilities = hire[r].abilities
      BY <1>4, <2>2, <3>1 DEF UpdateProfileRecord, Profile
    <3>3. hire' = hire /\ pc'[r] = "post" /\ kind'[r] = "updateProfile"
      BY <1>0, <1>4, <2>2 DEF UpdateProfileRecord
    <3> QED
      BY <1>b, <3>1, <3>2, <3>3
  <2> QED
    BY <2>1, <2>2
<1>5. CASE DeleteProfileRecord(r)
  <2>1. CASE RefuseHire(r)
    <3>1. profile' = profile /\ pc[r] = "deleteProfile" /\ pc'[r] = "refused" /\ kind' = kind
      BY <1>0, <1>5, <2>1 DEF DeleteProfileRecord, RefuseHire, careerVars, careerTables
    <3> QED
      BY <1>a, <3>1 DEF Wrote
  <2>2. CASE ~RefuseHire(r)
    BY <1>5, <2>2 DEF DeleteProfileRecord, LostInv
  <2> QED
    BY <2>1, <2>2
<1>6. CASE ReadUserAbilities(r)
  <2>1. profile' = profile /\ pc[r] = "readBoth"
    BY <1>6 DEF ReadUserAbilities, careerTables
  <2>2. CASE profile = None \/ granted = {}
    BY <2>1, <2>2, SameGrants DEF LostInv
  <2>3. CASE profile # None /\ granted # {}
    <3>1. pc'[r] = "writeAbilities"
      BY <1>0, <1>6, <2>3 DEF ReadUserAbilities
    <3> QED
      BY <1>a, <2>1, <3>1 DEF Wrote
  <2> QED
    BY <2>2, <2>3
<1>7. CASE UpdateAbilitiesOnProfile(r)
  <2>1. pc[r] = "writeAbilities" /\ kind[r] = "createProfile" /\ hire' = hire /\ kind'[r] = kind[r]
    BY <1>0, <1>7 DEF UpdateAbilitiesOnProfile, LabelInv, Elsewhere, Moves
  <2>2. CASE profile' = profile /\ Abandon(r)
    <3>1. pc'[r] = "deleteProfile"
      BY <1>0, <2>1, <2>2 DEF Abandon
    <3> QED
      BY <1>a, <2>1, <2>2, <3>1 DEF Wrote
  <2>3. CASE /\ profile.by = hire[r].profile /\ profile'.by = profile.by
             /\ profile'.abilities = hire[r].abilities /\ Goto(r, After(r))
    <3>1. pc'[r] = "post"
      BY <1>0, <2>3 DEF After
    <3> QED
      BY <1>b, <2>1, <2>3, <3>1
  <2> QED
    BY <1>0, <1>7, <2>2, <2>3, WriteEffect
<1>8. CASE AbilitiesFail(r)
  <2>1. /\ profile' = profile /\ pc[r] \in {"readBoth", "writeAbilities"}
        /\ pc'[r] = "deleteProfile"
    BY <1>0, <1>8 DEF AbilitiesFail, Abandon, careerVars, careerTables
  <2> QED
    BY <1>a, <2>1 DEF Wrote
<1>9. CASE Post(r)
  <2>1. /\ profile' = profile /\ pc[r] = "post" /\ kind'[r] = kind[r]
        /\ pc'[r] \in {"done", "refused", "deleteProfile"}
    BY <1>0, <1>9, OnlyPost DEF Post, Elsewhere, Moves
  <2> QED
    BY <1>a, <2>1 DEF Wrote
<1>10. CASE CreateJob(r) \/ EditJob(r) \/ DeleteJob(r)
  BY <1>10, <1>c DEF CreateJob, EditJob, DeleteJob, EditOrDeleteJob, Start, careerTables
<1>11. CASE WriteJob(r) \/ Search(r) \/ FilterCandidates(r)
  BY <1>11, <1>c DEF WriteJob, Search, FilterCandidates, RefuseHire, careerVars, careerTables
<1>12. CASE AssociateCandidates(r) \/ DeleteJobRecord(r)
  BY <1>12, <1>c DEF AssociateCandidates, DeleteJobRecord, RefuseHire, careerVars, careerTables
<1> QED
  BY <1>1, <1>2, <1>3, <1>4, <1>5, <1>6, <1>7, <1>8, <1>9, <1>10, <1>11, <1>12 DEF CareersStep

LEMMA EmissionLabels ==
  ASSUME NEW e \in Emissions, EmissionStep(e) \/ AbilitiesStep(e)
  PROVE  pc[e] \in {"idle", "findPaths", "completePath", "insert", "readBoth", "writeAbilities"}
BY DEF EmissionStep, AbilitiesStep, FindPaths, AssociatePfOnEmission, GetReceptor, InsertCertificate,
       ReadUserAbilities, UpdateAbilitiesOnProfile, Start

(* An emission between its certificate and the profile.                    *)
LEMMA AbilitiesStepInv ==
  ASSUME ControlOK, CareersInv, NEW e \in Emissions, AbilitiesStep(e)
  PROVE  CareersInv'
<1> USE DEF Labels, PathLabels, CareerLabels, Over, Kinds, CareerKinds
<1>0. e \in Handlers /\ e \notin Requests /\ Elsewhere(e) /\ Reads(e)
  BY EmissionsMove, AbilitiesRead, HandlersAssumption DEF Handlers, CareersInv
<1>1. \A r \in Requests : pc'[r] = pc[r] /\ kind'[r] = kind[r] /\ hire'[r] = hire[r]
  BY <1>0 DEF Elsewhere, Moves, Reads, Handlers
<1>2. UNCHANGED <<jobs, indexed>> /\ granted \subseteq granted' /\ granted' \subseteq granted \cup {e}
  BY DEF AbilitiesStep, GetReceptor, InsertCertificate, ReadUserAbilities, UpdateAbilitiesOnProfile,
         careerTables
<1>3. \/ profile' = profile
      \/ /\ profile # None /\ profile' # None /\ profile.by = hire[e].profile
         /\ profile'.by = profile.by /\ profile'.open = profile.open
         /\ profile'.abilities = hire[e].abilities
         /\ UpdateAbilitiesOnProfile(e) /\ Goto(e, After(e))
  BY <1>0, WriteEffect DEF AbilitiesStep, GetReceptor, InsertCertificate, ReadUserAbilities, careerTables,
         CareersInv
<1>4. kind'[e] = "emission"
  <2>1. CASE GetReceptor(e)
    BY <1>0, <2>1, StartMoves DEF GetReceptor
  <2>2. CASE pc[e] # "idle"
    BY <1>0, <2>2 DEF CareersInv, LabelInv, Elsewhere, Moves
  <2> QED
    BY <2>1, <2>2 DEF AbilitiesStep, InsertCertificate, ReadUserAbilities, UpdateAbilitiesOnProfile
<1>5. CreatorInv'
  BY <1>1, <1>3 DEF CareersInv, CreatorInv
<1>6. LabelInv'
  BY <1>0, <1>1, <1>4 DEF CareersInv, LabelInv, Elsewhere, Moves, Handlers
<1>7. IndexedInv'
  BY <1>1, <1>2, <1>3 DEF CareersInv, IndexedInv
<1>8. ListedInv'
  <2>1. OpenProfile => OpenProfile'
    BY <1>3 DEF OpenProfile
  <2>2. \A r \in Requests : Closed(r) => Closed(r)'
    BY <1>1 DEF Closed, Wrote
  <2> QED
    BY <1>1, <1>2, <2>1, <2>2 DEF CareersInv, ListedInv
<1> USE GotoMoves, StartMoves
<1>9. GrantInv'
  <2>0. \A d \in Emissions \ {e} : pc'[d] = pc[d] /\ hire'[d] = hire[d] /\ (d \in granted' <=> d \in granted)
    BY <1>0, <1>2 DEF Elsewhere, Moves, Reads, Handlers
  <2>a. ASSUME /\ pc'[e] \in {"idle", "findPaths", "completePath", "insert"} => e \notin granted'
               /\ pc'[e] \in {"readBoth", "writeAbilities"} => e \in granted'
               /\ pc'[e] = "writeAbilities" => e \in hire'[e].abilities
               /\ profile # None /\ pc'[e] \in {"findPaths", "completePath", "insert"} =>
                    hire'[e].found
        PROVE  GrantInv'
    BY <1>3, <2>0, <2>a DEF CareersInv, GrantInv
  <2>1. CASE GetReceptor(e)
    <3>0. Start(e, "emission", "findPaths")
      BY <2>1, Zenon DEF GetReceptor
    <3>4. hire'[e].found = (profile # None) /\ granted' = granted
      BY <1>0, <2>1 DEF GetReceptor, careerTables, CareersInv, ReadInv, CareersTypeOK, Hire
    <3>1. hire'[e].found = (profile # None) /\ pc'[e] = "findPaths" /\ granted' = granted /\ pc[e] = "idle"
      BY <1>0, <3>0, <3>4
    <3> QED
      BY <2>a, <3>1 DEF CareersInv, GrantInv
  <2>2. CASE InsertCertificate(e)
    <3>1. pc'[e] \in {"readBoth", "done"} /\ e \in granted'
      BY <1>0, <2>2 DEF InsertCertificate
    <3> QED
      BY <2>a, <3>1
  <2>3. CASE ReadUserAbilities(e)
    <3>1. pc[e] = "readBoth" /\ e \in granted /\ granted' = granted
      BY <2>3 DEF ReadUserAbilities, careerTables, CareersInv, GrantInv
    <3>2. CASE profile = None
      BY <1>0, <2>3, <2>a, <3>1, <3>2 DEF ReadUserAbilities, After
    <3>3. CASE profile # None
      <4>1. hire'[e].abilities = granted /\ pc'[e] = "writeAbilities"
        BY <1>0, <2>3, <3>1, <3>3 DEF ReadUserAbilities, CareersInv, ReadInv, CareersTypeOK, Hire
      <4> QED
        BY <2>a, <3>1, <4>1
    <3> QED
      BY <3>2, <3>3
  <2>4. CASE UpdateAbilitiesOnProfile(e)
    <3>1. pc'[e] \in {"done", "deleteProfile", "refused"}
      BY <1>0, <2>4 DEF UpdateAbilitiesOnProfile, After, Abandon
    <3> QED
      BY <2>a, <3>1
  <2> QED
    BY <2>1, <2>2, <2>3, <2>4 DEF AbilitiesStep
<1>10. LostInv'
  <2> SUFFICES ASSUME profile' # None, NEW d \in granted' \ profile'.abilities, pc'[d] = "done",
                      ~Overwritten(d)'
               PROVE  profile'.by \in Requests
                      /\ pc'[profile'.by] \in {"readBoth", "writeAbilities", "deleteProfile",
                                               "refused", "failed"}
    BY DEF LostInv
  <2>0. profile # None /\ profile'.by = profile.by /\ d \in Emissions /\ pc[e] \notin Over
    BY <1>0, <1>2, <1>3 DEF CareersInv, ReadInv, CareersTypeOK, Elsewhere
  <2>1. CASE profile' = profile /\ d # e
    <3>1. d \in granted /\ pc[d] = "done"
      BY <1>0, <1>2, <2>0, <2>1 DEF Elsewhere, Moves, Handlers
    <3>2. ~Wrote(e)
      BY <1>0, <2>0, EmissionLabels DEF Wrote
    <3>3. ~Overwritten(d)
      BY <1>0, <2>0, <3>2, OverwrittenStays DEF Elsewhere, Reads
    <3> QED
      BY <1>1, <2>0, <2>1, <3>1, <3>3 DEF CareersInv, LostInv
  <2>2. CASE profile' = profile /\ d = e
    <3>1. CASE InsertCertificate(e)
      <4>1. pc[e] = "insert" /\ ~hire[e].found /\ hire' = hire
        BY <1>0, <2>2, <3>1 DEF InsertCertificate
      <4>2. e \notin granted /\ profile.by # Former
        BY <2>0, <4>1 DEF CareersInv, GrantInv
      <4>3. profile.by \in Requests
        BY <2>0, <4>2 DEF CareersInv, ReadInv, CareersTypeOK, Profile, Makers
      <4>4. /\ kind[profile.by] = "createProfile" /\ hire[profile.by].profile = profile.by
            /\ pc[profile.by] \in {"readBoth", "writeAbilities", "post", "deleteProfile"} \cup Over
        BY <2>0, <4>3 DEF CareersInv, CreatorInv
      <4>5. profile.by \in Handlers /\ e \notin hire[profile.by].abilities
        BY <4>2, <4>3 DEF Handlers, CareersInv, ReadInv
      <4>6. ~Wrote(profile.by)'
        BY <1>1, <2>0, <2>2, <4>1, <4>3, <4>4, <4>5 DEF Overwritten
      <4> QED
        BY <1>1, <2>0, <4>3, <4>4, <4>6 DEF Wrote
    <3>2. CASE ReadUserAbilities(e)
      <4>1. e \in granted /\ pc'[e] = "writeAbilities"
        BY <1>0, <2>0, <3>2 DEF ReadUserAbilities, CareersInv, GrantInv
      <4> QED
        BY <2>2, <4>1
    <3>3. CASE UpdateAbilitiesOnProfile(e)
      <4>1. CASE Abandon(e)
        BY <1>0, <2>2, <4>1 DEF Abandon
      <4>2. CASE ~Abandon(e)
        BY <2>2, <3>3, <4>2, <1>0, WriteEffect DEF CareersInv, ReadInv, GrantInv, UpdateAbilitiesOnProfile
      <4> QED
        BY <4>1, <4>2
    <3>4. CASE GetReceptor(e)
      BY <1>0, <2>2, <3>4 DEF GetReceptor
    <3> QED
      BY <3>1, <3>2, <3>3, <3>4 DEF AbilitiesStep
  <2>3. CASE profile' # profile
    <3>1. /\ profile'.by = hire[e].profile /\ profile'.abilities = hire[e].abilities /\ hire' = hire
          /\ pc'[e] = "done"
      BY <1>0, <1>3, <2>3 DEF UpdateAbilitiesOnProfile, After
    <3>2. Wrote(e)' /\ d \notin hire'[e].abilities
      BY <1>4, <3>1 DEF Wrote
    <3> QED
      BY <1>0, <3>1, <3>2 DEF Overwritten
  <2> QED
    BY <2>1, <2>2, <2>3
<1> QED
  BY <1>0, <1>5, <1>6, <1>7, <1>8, <1>9, <1>10 DEF CareersInv, Reads

(* The other steps leave the careers alone: those of paths, resumes and    *)
(* plans, those of an emission before its certificate, and failures.       *)
LEMMA CareersFrame ==
  ASSUME ControlOK, CareersInv, NEW a \in Handlers, UNCHANGED careerVars, Moves(a),
         \/ a \in Requests /\ Aside(a)
         \/ a \in Emissions /\ pc[a] \in {"findPaths", "completePath"}
                            /\ pc'[a] \in {"completePath", "insert", "refused"}
         \/ pc[a] \notin Over \cup {"idle"} /\ pc'[a] = "failed"
  PROVE  CareersInv'
<1> USE DEF Labels, PathLabels, OtherLabels, StudyLabels, ResumeLabels, PlanLabels, CareerLabels,
            Over, Kinds, CareerKinds
<1>1. UNCHANGED <<profile, granted, indexed, jobs, hire>>
  BY DEF careerVars, careerTables
<1>2. \A b \in Handlers \ {a} : pc'[b] = pc[b] /\ kind'[b] = kind[b]
  BY DEF Moves
<1>3. pc[a] # "idle" => kind'[a] = kind[a]
  BY DEF Moves
<1>4. Requests \subseteq Handlers /\ Emissions \subseteq Handlers /\ Requests \cap Emissions = {}
  BY HandlersAssumption DEF Handlers
<1>5. ReadInv'
  BY <1>1 DEF CareersInv, ReadInv, CareersTypeOK, Profile
<1>6. CreatorInv'
  BY <1>1, <1>2, <1>3, <1>4 DEF CareersInv, CreatorInv, Aside
<1>7. LabelInv'
  BY <1>1, <1>2, <1>3, <1>4 DEF CareersInv, LabelInv, Aside
<1>8. IndexedInv'
  BY <1>1, <1>2, <1>3, <1>4 DEF CareersInv, CreatorInv, IndexedInv, Aside
<1>9. \A b \in Handlers : Wrote(b) => Wrote(b)' /\ kind'[b] = kind[b]
  BY <1>2, <1>3 DEF Wrote, Aside
<1>10. ListedInv'
  <2>1. \A r \in Requests : Closed(r) => Closed(r)'
    BY <1>1, <1>2, <1>3, <1>4, <1>9 DEF Closed, Aside
  <2>2. OpenProfile => OpenProfile'
    BY <1>1 DEF OpenProfile
  <2>3. \A r \in Requests : pc'[r] = "recommend" => pc[r] = "recommend"
    BY <1>2, <1>4 DEF Aside
  <2>4. \A r \in Requests : pc'[r] = "deleteProfile" => pc[r] = "deleteProfile" /\ kind'[r] = kind[r]
    BY <1>2, <1>4 DEF Aside
  <2> QED
    BY <1>1, <2>1, <2>2, <2>3, <2>4 DEF CareersInv, ListedInv
<1>11. GrantInv'
  BY <1>1, <1>2, <1>3, <1>4 DEF CareersInv, GrantInv, Aside
<1>12. LostInv'
  <2> SUFFICES ASSUME profile # None, NEW e \in granted \ profile.abilities, pc'[e] = "done",
                      ~Overwritten(e)'
               PROVE  /\ profile.by \in Requests
                      /\ pc'[profile.by] \in {"readBoth", "writeAbilities", "deleteProfile",
                                              "refused", "failed"}
    BY <1>1 DEF LostInv
  <2>1. e \in Emissions
    BY DEF CareersInv, ReadInv, CareersTypeOK
  <2>2. pc[e] = "done"
    BY <1>2, <1>4, <2>1 DEF Aside
  <2>3. ~Overwritten(e)
    BY <1>1, <1>9 DEF Overwritten
  <2>4. /\ profile.by \in Requests
        /\ pc[profile.by] \in {"readBoth", "writeAbilities", "deleteProfile", "refused", "failed"}
    BY <2>2, <2>3 DEF CareersInv, LostInv
  <2> QED
    BY <1>2, <1>4, <2>4 DEF Aside
<1> QED
  BY <1>5, <1>6, <1>7, <1>8, <1>10, <1>11, <1>12 DEF CareersInv

LEMMA CareersInitInv == Init => CareersInv
<1> SUFFICES ASSUME Init PROVE CareersInv
  OBVIOUS
<1>1. \A a \in Handlers : pc[a] = "idle" /\ hire[a] = NoHire
  BY DEF Init, ControlInit, CareersInit
<1>2. profile = None \/ profile = [by |-> Former, open |-> TRUE, field |-> TRUE, abilities |-> {}]
  BY DEF Init, CareersInit
<1>11. profile # None => /\ profile \in Profile /\ profile.abilities = {}
                         /\ profile.open /\ profile.by = Former
  <2> DEFINE row == [by |-> Former, open |-> TRUE, field |-> TRUE, abilities |-> {}]
  <2>1. row \in Profile /\ row.abilities = {} /\ row.open /\ row.by = Former
    BY DEF Profile, Makers
  <2> HIDE DEF row
  <2>2. profile = None \/ profile = row
    BY <1>2 DEF row
  <2> QED
    BY <2>1, <2>2
<1>3. /\ granted = {} /\ indexed = (profile # None)
      /\ jobs = [j \in Makers |-> IF j = Former /\ profile # None THEN "listed" ELSE None]
      /\ hire = [a \in Handlers |-> NoHire]
  BY DEF Init, CareersInit
<1>4. Requests \subseteq Handlers /\ Emissions \subseteq Handlers
  BY DEF Handlers
<1>5. ReadInv
  <2>1. profile # None => profile \in Profile /\ profile.abilities = {}
    BY <1>11
  <2>2. NoHire \in Hire /\ NoHire.abilities = {}
    BY DEF NoHire, Hire
  <2> QED
    BY <1>3, <2>1, <2>2 DEF ReadInv, CareersTypeOK
<1>6. CreatorInv
  BY <1>1, <1>2, <1>4, HandlersAssumption DEF CreatorInv, Handlers
<1>7. LabelInv /\ GrantInv
  BY <1>1, <1>3, <1>4 DEF LabelInv, GrantInv
<1>8. IndexedInv
  BY <1>3 DEF IndexedInv
<1>9. ListedInv
  <2>1. \A j \in Makers : jobs[j] = "listed" => OpenProfile
    BY <1>3, <1>11, CareersAssumption DEF OpenProfile
  <2> QED
    BY <1>1, <1>4, <2>1 DEF ListedInv
<1>10. LostInv
  BY <1>3 DEF LostInv
<1> QED
  BY <1>5, <1>6, <1>7, <1>8, <1>9, <1>10 DEF CareersInv

LEMMA CareersInvStep ==
  ASSUME ControlOK, CareersInv, [Next]_vars
  PROVE  CareersInv'
<1>1. CASE UNCHANGED vars
  <2>1. UNCHANGED <<pc, kind, profile, granted, indexed, jobs, hire>>
    BY <1>1 DEF vars, control, careerVars, careerTables
  <2> QED
    BY <2>1 DEF CareersInv, ReadInv, CareersTypeOK, CreatorInv, LabelInv, IndexedInv, ListedInv,
       OpenProfile, Closed, Wrote, GrantInv, LostInv, Overwritten
<1>2. ASSUME NEW r \in Requests, PathsStep(r), UNCHANGED careerVars PROVE CareersInv'
  BY <1>2, PathsMove, CareersFrame DEF Stays, Aside, Handlers
<1>8. ASSUME NEW r \in Requests, OtherStep(r), UNCHANGED careerVars PROVE CareersInv'
  BY <1>8, OthersMove, CareersFrame DEF Apart, Aside, Handlers
<1>9. ASSUME NEW r \in Requests, StudiesStep(r), UNCHANGED careerVars PROVE CareersInv'
  BY <1>9, StudiesApart, CareersFrame DEF Apart, Aside, Handlers
<1>3. ASSUME NEW r \in Requests, CareersStep(r) PROVE CareersInv'
  BY <1>3, CareersRead, CreatorStep, LabelStep, IndexedStep, ListedStep, GrantStep, LostStep
     DEF CareersInv, Reads
<1>4. ASSUME NEW e \in Emissions, EmissionStep(e), UNCHANGED careerVars PROVE CareersInv'
  <2>1. e \in Handlers /\ Moves(e)
    BY <1>4, EmissionsMove DEF Elsewhere, Handlers
  <2>2. pc[e] \in {"findPaths", "completePath"} /\ pc'[e] \in {"completePath", "insert", "refused"}
    BY <1>4, <2>1, GotoMoves DEF EmissionStep, FindPaths, AssociatePfOnEmission, Refuse, Labels,
                               CareerLabels, Over
  <2> QED
    BY <1>4, <2>1, <2>2, CareersFrame
<1>5. ASSUME NEW e \in Emissions, AbilitiesStep(e) PROVE CareersInv'
  BY <1>5, AbilitiesStepInv
<1>6. ASSUME NEW a \in Handlers, Fail(a) PROVE CareersInv'
  BY <1>6, FailMoves, CareersFrame DEF Fail
<1>7. CASE Next
  BY <1>2, <1>3, <1>4, <1>5, <1>6, <1>7, <1>8, <1>9, Zenon DEF Next
<1> QED
  BY <1>1, <1>7

LEMMA CareersAlways == Spec => []CareersInv
<1>1. Init => ControlOK /\ CareersInv
  BY EmptyInit, CareersInitInv
<1>2. ControlOK /\ CareersInv /\ [Next]_vars => (ControlOK /\ CareersInv)'
  BY ControlStep, CareersInvStep
<1> QED
  BY <1>1, <1>2, PTL DEF Spec

(* Every run keeps SilentProfileHasCause: a profile the search service     *)
(* does not know is being created, or its creation was cut off by a        *)
(* failure (candidate.controller.ts:97).                                   *)
THEOREM SilentProfilesExplained == Spec => []SilentProfileHasCause
<1>1. CareersInv => SilentProfileHasCause
  BY DEF CareersInv, IndexedInv, CreatorInv, SilentProfileHasCause, Over
<1> QED
  BY <1>1, CareersAlways, PTL

(* Every run keeps ListedCandidatesHaveCause: a candidate is listed        *)
(* without an open profile only after a request closed, deleted or took    *)
(* back his profile (corporate.service.ts:101).                            *)
THEOREM ListedCandidatesExplained == Spec => []ListedCandidatesHaveCause
<1>1. CareersInv => ListedCandidatesHaveCause
  BY DEF CareersInv, ListedInv, OpenProfile, ListedCandidatesHaveCause
<1> QED
  BY <1>1, CareersAlways, PTL

(* Every run keeps AbilitiesLostHaveCause: an emission whose abilities are *)
(* not on the profile has not ended, met a profile whose creation has not, *)
(* or was overwritten by a handler that had read before                    *)
(* (candidate.service.ts:184).                                             *)
THEOREM LostAbilitiesExplained == Spec => []AbilitiesLostHaveCause
<1>1. CareersInv => AbilitiesLostHaveCause
  BY DEF CareersInv, LostInv, Overwritten, AbilitiesLostHaveCause
<1> QED
  BY <1>1, CareersAlways, PTL
=============================================================================
