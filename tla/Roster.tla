------------------------------- MODULE Roster -------------------------------
(***************************************************************************)
(* An institution, one CNPJ: its administrators, its school, courses with   *)
(* the institutional events beside them, its students and the audit log.   *)
(* Handlers read rows, decide, and write in later statements; the log is   *)
(* written last and its failures are swallowed.  Rows are named by the      *)
(* request that created them.                                              *)
(***************************************************************************)

CONSTANTS Requests,
          KindsOf,      \* KindsOf[r]: the handlers request r may be for
          Students,     \* PF users, and
          Raw,          \* those of them who have yet to complete a profile
          Names,        \* name, description and level of a course
          None

Envs == {"institutional", "corporate"}

Kinds == {"associateAdmin", "enableAdmin", "deleteAdmin",
          "createSchool", "createSchoolAPI", "deleteSchool",
          "createCourse", "createCourseAPI", "editCourse", "deleteCourse", "deleteCourseAPI",
          "associate", "disassociate", "enrol", "unenrol"}

ASSUME RosterAssumption ==
         /\ KindsOf \in [Requests -> SUBSET Kinds] /\ Raw \subseteq Students
         /\ Requests \cap Students = {}
         /\ None \notin Requests \cup Students \cup Names \cup Envs \cup Kinds

Actors == Requests \cup Students

VARIABLES admins,       \* PJAdmins and CorporateAdmins rows
          school,       \* the Schools row of the CNPJ
          courses,      \* Course rows
          events,       \* InstitutionalEvents rows: what they are called
          users,        \* student rows
          enrolments,   \* CourseStudents rows
          audit,        \* AuditLog rows: what the entries of a request name
          pc, local

staff == <<admins>>
catalogue == <<school, courses, events>>
people == <<users, enrolments>>
vars == <<staff, catalogue, people, audit, pc, local>>

-----------------------------------------------------------------------------
Admin == [person : Students, env : Envs, enabled : BOOLEAN]

Course == [name : Names, academic : BOOLEAN,
           linked : BOOLEAN]    \* it has a SchoolsCourses row

User == [pf : BOOLEAN, member : BOOLEAN,    \* a PF row, linked to the school
         tempSchool : BOOLEAN, tempCourse : Requests \cup {None}]

Enrolment == [by : Actors, course : Requests, student : Students]

ASSUME RowsAssumption == None \notin Admin \cup Course \cup User \cup Enrolment

Local == [kind : Kinds \cup {None}, student : Students \cup {None},
          course : Requests \cup {None}, name : Names \cup {None}, new : Names \cup {None}, academic : BOOLEAN,
          event : Requests \cup {None}, env : Envs \cup {None},
          ids : SUBSET Requests, found : SUBSET Requests, seen : User \cup {None}]

PCs == {"idle", "insertAdmin", "enableAdmin", "findAdmins", "deleteAdmins", "logAdmins",
        "createCourses", "insertSchool", "findSchool", "reactivate", "deleteSchool",
        "createEvent", "findSchoolOf", "insertCourse", "findEvent", "changeEvent",
        "checkOwner", "writeCourse", "log",
        "readUser", "connect", "readStudent", "enrol", "tempCourse",
        "readRemoval", "disconnect", "logRemoval", "readCourse", "unenrol",
        "createPf", "clearTemp", "done", "failed"}

Over == {"idle", "done", "failed"}

Goto(a, l) == pc' = [pc EXCEPT ![a] = l]

Is(r, kind) == local[r].kind = kind

Gone(x) == admins[x] = None /\ courses[x] = None

(* audit.log catches its errors: the request goes on without the entry.    *)
Log(r, targets, next) ==
  /\ \/ audit' = [audit EXCEPT ![r] = @ \cup targets]
     \/ UNCHANGED audit
  /\ Goto(r, next)

Begin(r, kind, l) == pc[r] = "idle" /\ kind \in KindsOf[r] /\ Goto(r, l)

-----------------------------------------------------------------------------
(* Administrators.                                                         *)

RowsOf(person, env) ==
  {a \in Requests : admins[a] # None /\ admins[a].person = person /\ admins[a].env = env}

(* An existing association is returned as it is; a raw user has no PF row.  *)
AssociateUserAdmin(r) ==
  /\ Begin(r, "associateAdmin", "insertAdmin")
  /\ \E p \in Students, e \in Envs :
       /\ users[p].pf /\ RowsOf(p, e) = {}
       /\ local' = [local EXCEPT ![r] = [@ EXCEPT !.kind = "associateAdmin", !.student = p, !.env = e]]
  /\ UNCHANGED <<staff, catalogue, people, audit>>

AssociateAdminRecord(r) ==
  /\ pc[r] = "insertAdmin"
  /\ admins' = [admins EXCEPT ![r] = [person |-> local[r].student, env |-> local[r].env,
                                      enabled |-> FALSE]]
  /\ Goto(r, "done")
  /\ UNCHANGED <<catalogue, people, audit, local>>

(* findFirst: any of the rows of the person.                               *)
EnableUserAdmin(r) ==
  /\ Begin(r, "enableAdmin", "enableAdmin")
  /\ \E p \in Students, e \in Envs : \E a \in RowsOf(p, e) :
       local' = [local EXCEPT ![r] = [@ EXCEPT !.kind = "enableAdmin", !.ids = {a}]]
  /\ UNCHANGED <<staff, catalogue, people, audit>>

UpdateAdminStatus(r) ==
  /\ pc[r] = "enableAdmin"
  /\ \E a \in local[r].ids :
       IF admins[a] = None THEN Goto(r, "failed") /\ UNCHANGED admins
       ELSE admins' = [admins EXCEPT ![a].enabled = TRUE] /\ Goto(r, "done")
  /\ UNCHANGED <<catalogue, people, audit, local>>

(* The ids that are valid now; institutional rows go first.                *)
DeleteUserAdmin(r) ==
  /\ Begin(r, "deleteAdmin", "findAdmins")
  /\ \E ids \in SUBSET {a \in Requests : admins[a] # None} \ {{}} :
       local' = [local EXCEPT ![r] = [@ EXCEPT !.kind = "deleteAdmin", !.ids = ids,
                                               !.env = "institutional"]]
  /\ UNCHANGED <<staff, catalogue, people, audit>>

Named(r) == {a \in local[r].ids : admins[a] # None /\ admins[a].env = local[r].env}

(* Mutant: what is to be deleted is logged first.                          *)
LogFirst(r) ==
  /\ pc[r] = "findAdmins"
  /\ local' = [local EXCEPT ![r].found = Named(r)]
  /\ Log(r, Named(r), "deleteAdmins")
  /\ UNCHANGED <<staff, catalogue, people>>

FindAdmins(r) ==
  /\ pc[r] = "findAdmins"
  /\ local' = [local EXCEPT ![r].found = Named(r)]
  /\ Goto(r, "deleteAdmins")
  /\ UNCHANGED <<staff, catalogue, people, audit>>

DeleteAdmins(r) ==
  /\ pc[r] = "deleteAdmins"
  /\ admins' = [a \in Requests |-> IF a \in Named(r) THEN None ELSE admins[a]]
  /\ Goto(r, "logAdmins")
  /\ UNCHANGED <<catalogue, people, audit, local>>

LogAdmins(r) ==
  /\ pc[r] = "logAdmins"
  /\ IF local[r].env = "institutional"
     THEN /\ Log(r, local[r].found, "findAdmins")
          /\ local' = [local EXCEPT ![r].env = "corporate"]
     ELSE Log(r, local[r].found, "done") /\ UNCHANGED local
  /\ UNCHANGED <<staff, catalogue, people>>

-----------------------------------------------------------------------------
(* The school.  Deletion is a flag; the CNPJ stays unique.                 *)

(* Courses may come with it, and are written first.                        *)
CreateSchool(r) ==
  /\ \/ Begin(r, "createSchool", "insertSchool")
     \/ Begin(r, "createSchool", "createCourses")
  /\ school # "active"
  /\ local' = [local EXCEPT ![r].kind = "createSchool"]
  /\ UNCHANGED <<staff, catalogue, people, audit>>

GetCreateCourseFromArray(r) ==
  /\ pc[r] = "createCourses"
  /\ \E n \in Names, academic \in BOOLEAN :
       courses' = [courses EXCEPT ![r] = [name |-> n, academic |-> academic, linked |-> FALSE]]
  /\ local' = [local EXCEPT ![r].course = r]
  /\ Goto(r, "insertSchool")
  /\ UNCHANGED <<staff, school, events, people, audit>>

(* Mutant: the courses are not named in the school's data.                 *)
SchoolWithoutCourses(r) ==
  /\ pc[r] = "insertSchool"
  /\ IF school # "none" THEN Goto(r, "failed") /\ UNCHANGED school
     ELSE school' = "active" /\ Goto(r, "log")
  /\ UNCHANGED <<staff, courses, events, people, audit, local>>

(* A course that was deleted since refuses the row.                        *)
InsertSchool(r) ==
  /\ pc[r] = "insertSchool"
  /\ IF school # "none" \/ (local[r].course = r /\ courses[r] = None)
     THEN Goto(r, "failed") /\ UNCHANGED <<school, courses>>
     ELSE /\ school' = "active"
          /\ courses' = IF courses[r] = None THEN courses
                        ELSE [courses EXCEPT ![r].linked = TRUE]
          /\ Goto(r, "log")
  /\ UNCHANGED <<staff, events, people, audit, local>>

CreateSchoolAPI(r) ==
  /\ Begin(r, "createSchoolAPI", "findSchool") /\ school # "active"
  /\ local' = [local EXCEPT ![r].kind = "createSchoolAPI"]
  /\ UNCHANGED <<staff, catalogue, people, audit>>

CreateOrReactivateSchool(r) ==
  /\ pc[r] = "findSchool"
  /\ Goto(r, CASE school = "active" -> "failed" [] school = "deleted" -> "reactivate"
               [] school = "none" -> "insertSchool")
  /\ UNCHANGED <<staff, catalogue, people, audit, local>>

Reactivate(r) ==
  /\ pc[r] = "reactivate"
  /\ school' = "active" /\ Goto(r, "log")
  /\ UNCHANGED <<staff, courses, events, people, audit, local>>

DeleteSchool(r) ==
  /\ Begin(r, "deleteSchool", "deleteSchool") /\ school = "active"
  /\ local' = [local EXCEPT ![r].kind = "deleteSchool"]
  /\ UNCHANGED <<staff, catalogue, people, audit>>

FlagDeleted(r) ==
  /\ pc[r] = "deleteSchool"
  /\ school' = "deleted" /\ Goto(r, "log")
  /\ UNCHANGED <<staff, courses, events, people, audit, local>>

(* The API names the institution as the author of a course's creation or   *)
(* deletion: the log refuses it.                                           *)
LogCatalogue(r) ==
  /\ pc[r] = "log"
  /\ LET target == CASE local[r].kind \in {"createSchool", "createSchoolAPI", "deleteSchool"}
                          -> {"school"}
                     [] Is(r, "createCourse") -> {r}
                     [] Is(r, "deleteCourse") -> {local[r].course}
                     [] OTHER -> {}
     IN  Log(r, target, "done")
  /\ UNCHANGED <<staff, catalogue, people, local>>

-----------------------------------------------------------------------------
(* Courses.  A course that is not academic has an institutional event of   *)
(* the same name, and nothing else ties the two.                           *)

CreateCourse(r) ==
  /\ \E n \in Names, academic \in BOOLEAN :
       /\ Begin(r, "createCourse", IF academic THEN "findSchoolOf" ELSE "createEvent")
       /\ local' = [local EXCEPT ![r] = [@ EXCEPT !.kind = "createCourse", !.name = n,
                                                  !.academic = academic]]
  /\ UNCHANGED <<staff, catalogue, people, audit>>

(* Mutant: the condition is the other way round.                           *)
CreateNoEvent(r) ==
  /\ pc[r] = "createEvent"
  /\ Goto(r, "findSchoolOf")
  /\ UNCHANGED <<staff, catalogue, people, audit, local>>

(* Before anything is checked.                                             *)
CreateInstEventByCourse(r) ==
  /\ pc[r] = "createEvent"
  /\ events' = [events EXCEPT ![r] = local[r].name]
  /\ Goto(r, "findSchoolOf")
  /\ UNCHANGED <<staff, school, courses, people, audit, local>>

CreateCourseAPI(r) ==
  /\ Begin(r, "createCourseAPI", "findSchoolOf")
  /\ \E n \in Names :
       local' = [local EXCEPT ![r] = [@ EXCEPT !.kind = "createCourseAPI", !.name = n]]
  /\ UNCHANGED <<staff, catalogue, people, audit>>

(* getSchool finds deleted schools too.                                    *)
GetSchool(r) ==
  /\ pc[r] = "findSchoolOf"
  /\ Goto(r, IF school = "none" THEN "failed" ELSE "insertCourse")
  /\ UNCHANGED <<staff, catalogue, people, audit, local>>

InsertCourse(r) ==
  /\ pc[r] = "insertCourse"
  /\ courses' = [courses EXCEPT ![r] = [name |-> local[r].name, linked |-> TRUE,
                                        academic |-> local[r].academic]]
  /\ Goto(r, "log")
  /\ UNCHANGED <<staff, school, events, people, audit, local>>

(* The name that is in the row is kept to find the event by.               *)
Target(r, kind, c, academic, new) ==
  /\ Begin(r, kind, IF academic THEN "checkOwner" ELSE "findEvent")
  /\ courses[c] # None
  /\ local' = [local EXCEPT ![r] = [@ EXCEPT !.kind = kind, !.course = c, !.academic = academic,
                                             !.name = courses[c].name, !.new = new,
                                             !.found = IF courses[c].linked THEN {c} ELSE {}]]
  /\ UNCHANGED <<staff, catalogue, people, audit>>

EditCourse(r) ==
  \E c \in Requests, academic \in BOOLEAN, n \in Names : Target(r, "editCourse", c, academic, n)

DeleteCourse(r) ==
  \E c \in Requests : courses[c] # None /\ Target(r, "deleteCourse", c, courses[c].academic, None)

DeleteCourseAPI(r) ==
  /\ Begin(r, "deleteCourseAPI", "writeCourse")
  /\ \E c \in Requests : /\ courses[c] # None
                         /\ local' = [local EXCEPT ![r] = [@ EXCEPT !.kind = "deleteCourseAPI",
                                                                    !.course = c]]
  /\ UNCHANGED <<staff, catalogue, people, audit>>

(* findFirst by name.                                                      *)
FindEvent(r) ==
  /\ pc[r] = "findEvent"
  /\ LET same == {e \in Requests : events[e] = local[r].name}
     IN  \/ same = {} /\ Goto(r, "checkOwner") /\ UNCHANGED local
         \/ \E e \in same : /\ local' = [local EXCEPT ![r].event = e]
                            /\ Goto(r, "changeEvent")
  /\ UNCHANGED <<staff, catalogue, people, audit>>

ChangeInstEventByCourse(r) ==
  /\ pc[r] = "changeEvent"
  /\ IF events[local[r].event] = None
     THEN Goto(r, "failed") /\ UNCHANGED events
     ELSE /\ events' = [events EXCEPT ![local[r].event] = local[r].new]   \* None deletes it
          /\ Goto(r, "checkOwner")
  /\ UNCHANGED <<staff, school, courses, people, audit, local>>

(* Only now: a course without a school is nobody's.                        *)
CheckOwner(r) ==
  /\ pc[r] = "checkOwner"
  /\ Goto(r, IF local[r].found = {} THEN "failed" ELSE "writeCourse")
  /\ UNCHANGED <<staff, catalogue, people, audit, local>>

UpdateCourse(r) ==
  /\ pc[r] = "writeCourse" /\ Is(r, "editCourse")
  /\ LET c == local[r].course
     IN  IF courses[c] = None THEN Goto(r, "failed") /\ UNCHANGED courses
         ELSE /\ courses' = [courses EXCEPT ![c] = [@ EXCEPT !.name = local[r].new,
                                                             !.academic = local[r].academic]]
              /\ Goto(r, "done")
  /\ UNCHANGED <<staff, school, events, people, audit, local>>

(* Mutant: the enrolments stay.                                            *)
KeepEnrolments(r) ==
  /\ pc[r] = "writeCourse" /\ ~Is(r, "editCourse")
  /\ LET c == local[r].course
     IN  IF courses[c] = None THEN Goto(r, "failed") /\ UNCHANGED courses
         ELSE courses' = [courses EXCEPT ![c] = None] /\ Goto(r, "log")
  /\ UNCHANGED <<staff, school, events, people, audit, local>>

(* With its links and enrolments.                                          *)
RemoveCourse(r) ==
  /\ pc[r] = "writeCourse" /\ ~Is(r, "editCourse")
  /\ LET c == local[r].course
     IN  IF courses[c] = None THEN Goto(r, "failed") /\ UNCHANGED <<courses, enrolments>>
         ELSE /\ courses' = [courses EXCEPT ![c] = None]
              /\ enrolments' = {e \in enrolments : e.course # c}
              /\ Goto(r, "log")
  /\ UNCHANGED <<staff, school, events, users, audit, local>>

-----------------------------------------------------------------------------
(* Students.  A raw user carries the school and one course in columns of   *)
(* his user row until he completes his profile.                            *)

Enrolled(s, c) == \E e \in enrolments : e.student = s /\ e.course = c

(* Courses all of whose schools are this one: those without any, too.      *)
CoursesOfSchool == {c \in Requests : courses[c] # None}

About(r, kind, l, s, c) ==
  /\ Begin(r, kind, l)
  /\ local' = [local EXCEPT ![r] = [@ EXCEPT !.kind = kind, !.student = s, !.course = c]]
  /\ UNCHANGED <<staff, catalogue, people, audit>>

CreateStudentAssociation(r) ==
  \E s \in Students, c \in CoursesOfSchool \cup {None} :
    school = "active" /\ About(r, "associate", "readUser", s, c)

DeleteStudentAssociation(r) ==
  \E s \in Students, c \in Requests \cup {None} :
    school = "active" /\ About(r, "disassociate", "readRemoval", s, c)

Linked == {c \in Requests : courses[c] # None /\ courses[c].linked}

AddStudentToCourse(r) ==
  \E s \in Students, c \in Linked : About(r, "enrol", "readStudent", s, c)

DeleteStudentFromCourse(r) ==
  \E s \in Students, c \in Linked : About(r, "unenrol", "readCourse", s, c)

(* Each of the services begins with a query for the users.                 *)
ReadUser(r) ==
  /\ pc[r] \in {"readUser", "readRemoval"}
  /\ local' = [local EXCEPT ![r].seen = users[local[r].student]]
  /\ Goto(r, IF pc[r] = "readUser" THEN "connect" ELSE "disconnect")
  /\ UNCHANGED <<staff, catalogue, people, audit>>

ThenCourse(r, l) == IF local[r].course = None THEN "done" ELSE l

AssociateUsersToSchool(r) ==
  /\ pc[r] = "connect"
  /\ LET s == local[r].student
         seen == local[r].seen
     IN  users' = IF seen.pf THEN [users EXCEPT ![s].member = TRUE]
                  ELSE IF ~seen.tempSchool THEN [users EXCEPT ![s].tempSchool = TRUE]
                  ELSE users
  /\ Goto(r, ThenCourse(r, "readStudent"))
  /\ UNCHANGED <<staff, catalogue, enrolments, audit, local>>

(* A raw user's course is written after the answer, if he has none.        *)
FindStudents(r) ==
  /\ pc[r] = "readStudent"
  /\ LET s == local[r].student
         c == local[r].course
     IN  Goto(r, IF users[s].pf /\ ~Enrolled(s, c) THEN "enrol"
                 ELSE IF /\ ~users[s].pf /\ users[s].tempSchool
                         /\ users[s].tempCourse = None /\ c \in CoursesOfSchool
                 THEN "tempCourse" ELSE "done")
  /\ UNCHANGED <<staff, catalogue, people, audit, local>>

CreateCourseStudentAssociation(r) ==
  /\ pc[r] = "enrol"
  /\ LET c == local[r].course
     IN  IF courses[c] = None THEN Goto(r, "failed") /\ UNCHANGED enrolments
         ELSE /\ enrolments' = enrolments \cup
                    {[by |-> r, course |-> c, student |-> local[r].student]}
              /\ Goto(r, "done")
  /\ UNCHANGED <<staff, catalogue, users, audit, local>>

SetTempCourse(r) ==
  /\ pc[r] = "tempCourse"
  /\ users' = [users EXCEPT ![local[r].student].tempCourse = local[r].course]
  /\ Goto(r, "done")
  /\ UNCHANGED <<staff, catalogue, enrolments, audit, local>>

(* A PF is disconnected and the removal logged; what a raw user carries is  *)
(* cleared.                                                                *)
DisassociateUsersFromSchool(r) ==
  /\ pc[r] = "disconnect"
  /\ LET s == local[r].student
         seen == local[r].seen
     IN  \/ /\ seen.pf /\ seen.member
            /\ users' = [users EXCEPT ![s].member = FALSE]
            /\ Goto(r, "logRemoval")
         \/ /\ ~seen.pf /\ seen.tempSchool
            /\ users' = [users EXCEPT ![s] = [@ EXCEPT !.tempSchool = FALSE, !.tempCourse = None]]
            /\ Goto(r, ThenCourse(r, "readCourse"))
         \/ /\ ~seen.member /\ (seen.pf \/ ~seen.tempSchool)
            /\ UNCHANGED users /\ Goto(r, ThenCourse(r, "readCourse"))
  /\ UNCHANGED <<staff, catalogue, enrolments, audit, local>>

LogRemoval(r) ==
  /\ pc[r] = "logRemoval"
  /\ Log(r, {local[r].student}, ThenCourse(r, "readCourse"))
  /\ UNCHANGED <<staff, catalogue, people, local>>

RemoveStudentFromCourse(r) ==
  /\ pc[r] = "readCourse"
  /\ LET s == local[r].student
     IN  Goto(r, IF users[s].pf /\ Enrolled(s, local[r].course) THEN "unenrol" ELSE "done")
  /\ UNCHANGED <<staff, catalogue, people, audit, local>>

DeleteCourseStudentAssociation(r) ==
  /\ pc[r] = "unenrol"
  /\ enrolments' = {e \in enrolments : ~(/\ e.student = local[r].student
                                         /\ e.course = local[r].course)}
  /\ Goto(r, "done")
  /\ UNCHANGED <<staff, catalogue, users, audit, local>>

(* PATCH users/raw: the guard loaded the user row.                          *)
UpdateRawUserInfo(s) ==
  /\ s \in Raw /\ pc[s] \in {"idle", "failed"} /\ ~users[s].pf
  /\ local' = [local EXCEPT ![s].seen = users[s]]
  /\ Goto(s, "createPf")
  /\ UNCHANGED <<staff, catalogue, people, audit>>

(* Mutant: the PF row is created without the school.                       *)
CreateUnconnected(s) ==
  /\ pc[s] = "createPf"
  /\ users' = [users EXCEPT ![s].pf = TRUE]
  /\ Goto(s, "clearTemp")
  /\ UNCHANGED <<staff, catalogue, enrolments, audit, local>>

(* A course that was deleted since refuses the row.                        *)
CreatePessoaFisica(s) ==
  /\ pc[s] = "createPf"
  /\ LET c == local[s].seen.tempCourse
     IN  IF c # None /\ c \notin CoursesOfSchool
         THEN Goto(s, "failed") /\ UNCHANGED people
         ELSE /\ users' = [users EXCEPT ![s] = [@ EXCEPT !.pf = TRUE,
                                                         !.member = local[s].seen.tempSchool]]
              /\ enrolments' = IF c = None THEN enrolments
                               ELSE enrolments \cup {[by |-> s, course |-> c, student |-> s]}
              /\ Goto(s, "clearTemp")
  /\ UNCHANGED <<staff, catalogue, audit, local>>

(* Mutant: the school is left in the user row.                             *)
ClearCourse(s) ==
  /\ pc[s] = "clearTemp"
  /\ users' = [users EXCEPT ![s].tempCourse = None]
  /\ Goto(s, "done")
  /\ UNCHANGED <<staff, catalogue, enrolments, audit, local>>

ClearTemp(s) ==
  /\ pc[s] = "clearTemp"
  /\ users' = [users EXCEPT ![s] = [@ EXCEPT !.tempSchool = FALSE, !.tempCourse = None]]
  /\ Goto(s, "done")
  /\ UNCHANGED <<staff, catalogue, enrolments, audit, local>>

-----------------------------------------------------------------------------
(* A statement fails, or the server dies.                                  *)
Fail(a) ==
  /\ pc[a] \notin Over
  /\ Goto(a, "failed")
  /\ UNCHANGED <<staff, catalogue, people, audit, local>>

Blank == [kind |-> None, student |-> None, course |-> None, name |-> None, new |-> None,
          academic |-> FALSE, event |-> None, env |-> None, ids |-> {}, found |-> {},
          seen |-> None]

Init ==
  /\ admins = [r \in Requests |-> None] /\ courses = admins /\ events = admins
  /\ school \in {"none", "active"}
  /\ users = [s \in Students |-> [pf |-> s \notin Raw, member |-> FALSE,
                                  tempSchool |-> FALSE, tempCourse |-> None]]
  /\ enrolments = {}
  /\ audit = [r \in Requests |-> {}]
  /\ pc = [a \in Actors |-> "idle"] /\ local = [a \in Actors |-> Blank]

StaffStep(r) == \/ AssociateUserAdmin(r) \/ AssociateAdminRecord(r) \/ EnableUserAdmin(r)
                \/ UpdateAdminStatus(r) \/ DeleteUserAdmin(r) \/ FindAdmins(r)
                \/ DeleteAdmins(r) \/ LogAdmins(r)

SchoolStep(r) == \/ CreateSchool(r) \/ GetCreateCourseFromArray(r) \/ InsertSchool(r)
                 \/ CreateSchoolAPI(r) \/ CreateOrReactivateSchool(r) \/ Reactivate(r)
                 \/ DeleteSchool(r) \/ FlagDeleted(r) \/ LogCatalogue(r)

CourseStep(r) == \/ CreateCourse(r) \/ CreateInstEventByCourse(r) \/ CreateCourseAPI(r)
                 \/ GetSchool(r) \/ InsertCourse(r) \/ EditCourse(r) \/ DeleteCourse(r)
                 \/ DeleteCourseAPI(r) \/ FindEvent(r) \/ ChangeInstEventByCourse(r)
                 \/ CheckOwner(r) \/ UpdateCourse(r) \/ RemoveCourse(r)

StudentStep(r) == \/ CreateStudentAssociation(r) \/ DeleteStudentAssociation(r)
                  \/ AddStudentToCourse(r) \/ DeleteStudentFromCourse(r)
                  \/ ReadUser(r) \/ AssociateUsersToSchool(r) \/ FindStudents(r)
                  \/ CreateCourseStudentAssociation(r) \/ SetTempCourse(r)
                  \/ DisassociateUsersFromSchool(r) \/ LogRemoval(r)
                  \/ RemoveStudentFromCourse(r) \/ DeleteCourseStudentAssociation(r)

ProfileStep(s) == UpdateRawUserInfo(s) \/ CreatePessoaFisica(s) \/ ClearTemp(s)

Next == \/ \E r \in Requests : StaffStep(r) \/ SchoolStep(r) \/ CourseStep(r) \/ StudentStep(r)
        \/ \E s \in Students : ProfileStep(s)
        \/ \E a \in Actors : Fail(a)

Spec == Init /\ [][Next]_vars

-----------------------------------------------------------------------------
(* Properties.                                                             *)

(* Rows, log and locals hold what they stand for.                          *)
TypeOK ==
  /\ admins \in [Requests -> Admin \cup {None}]
  /\ school \in {"none", "active", "deleted"}
  /\ courses \in [Requests -> Course \cup {None}]
  /\ events \in [Requests -> Names \cup {None}]
  /\ users \in [Students -> User] /\ enrolments \subseteq Enrolment
  /\ \A e \in enrolments : courses[e.course] # None /\ users[e.student].pf
  /\ audit \in [Requests -> SUBSET (Actors \cup {"school"})]
  /\ pc \in [Actors -> PCs] /\ local \in [Actors -> Local]

(* The log never claims the removal of an administrator or a course that   *)
(* is still there: it names what an earlier query found, and a failure or  *)
(* another removal may have come between.                                  *)
AuditMatchesRemovals ==
  \A r \in Requests :
    local[r].kind \in {"deleteAdmin", "deleteCourse"} => \A x \in audit[r] : Gone(x)

(* A course without a school comes only from the creation of a school that *)
(* failed, or is under way, after its courses were written: its pages can  *)
(* neither edit nor delete it, and every school lists it.                  *)
OrphanCourseHasCause ==
  \A c \in Requests :
    courses[c] # None /\ ~courses[c].linked =>
      Is(c, "createSchool") /\ pc[c] \in {"insertSchool", "failed"}

(* A course the institution created as not academic misses its event only  *)
(* if an edit or a deletion, of it or of a course of the same name, found   *)
(* that event, or if it was edited.                                        *)
MissingEventHasCause ==
  \A c \in Requests :
    /\ Is(c, "createCourse") /\ courses[c] # None /\ ~courses[c].academic
    /\ \A e \in Requests : events[e] # courses[c].name
    => \E r \in Requests : (local[r].event # None \/ (Is(r, "editCourse") /\ local[r].course = c))

(* A student whose association with the school was answered as a success   *)
(* is the school's, unless somebody removed him or it met the completion   *)
(* of his profile, which had read the user row before.                     *)
AssociatedStudentIsKept ==
  \A r \in Requests :
    LET s == local[r].student
    IN  Is(r, "associate") /\ pc[r] = "done" =>
          \/ users[s].member \/ users[s].tempSchool
          \/ \E q \in Requests : Is(q, "disassociate") /\ local[q].student = s
                                /\ local[q].seen # None
          \/ local[s].seen # None /\ ~local[s].seen.tempSchool

Early(r, s) == /\ Is(r, "associate") /\ local[r].student = s /\ local[r].seen # None
               /\ ~local[r].seen.pf /\ ~local[r].seen.tempSchool

(* A school stays in the user row of a completed profile only if clearing  *)
(* it failed or is to come, or if an association, besides the one that the *)
(* completion honoured, had read the row before.                           *)
TempSchoolHasCause ==
  \A s \in Students :
    users[s].pf /\ users[s].tempSchool =>
      \/ pc[s] # "done"
      \/ \E r, q \in Requests : /\ Early(r, s) /\ Early(q, s)
                                /\ local[s].seen.tempSchool => r # q

(* Associations race with the completion of a profile; a school is neither  *)
(* lost nor left behind but for these causes.                              *)
AssociationsHaveCause == AssociatedStudentIsKept /\ TempSchoolHasCause
=============================================================================
