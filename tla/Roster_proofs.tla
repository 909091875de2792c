---------------------------- MODULE Roster_proofs ----------------------------
(***************************************************************************)
(* Proofs about Roster, for any number of requests of any kinds and any    *)
(* number of students: what the audit log names is gone, what explains a   *)
(* course without a school or without its event, and what explains an      *)
(* association that is lost or left behind.                                *)
(***************************************************************************)
EXTENDS Roster, TLAPS

StaffKinds == {"associateAdmin", "enableAdmin", "deleteAdmin"}

CourseKinds == {"createSchool", "createSchoolAPI", "deleteSchool",
                "createCourse", "createCourseAPI", "editCourse", "deleteCourse", "deleteCourseAPI"}

StudentKinds == {"associate", "disassociate", "enrol", "unenrol"}

StaffLabels == {"insertAdmin", "enableAdmin", "findAdmins", "deleteAdmins", "logAdmins"}

Making == {"createCourses", "createEvent", "findSchoolOf", "insertCourse"}

CourseLabels == {"createCourses", "insertSchool", "findSchool", "reactivate", "deleteSchool",
                 "createEvent", "findSchoolOf", "insertCourse", "findEvent", "changeEvent",
                 "checkOwner", "writeCourse", "log"}

StudentLabels == {"readUser", "connect", "readStudent", "enrol", "tempCourse",
                  "readRemoval", "disconnect", "logRemoval", "readCourse", "unenrol"}

-----------------------------------------------------------------------------
(* What a request is for, by what it does next.                            *)
KindOK(r) ==
  /\ pc[r] = "idle" => local[r] = Blank /\ audit[r] = {}
  /\ pc[r] \in StaffLabels => local[r].kind \in StaffKinds
  /\ pc[r] = "insertAdmin" => Is(r, "associateAdmin")
  /\ pc[r] = "enableAdmin" => Is(r, "enableAdmin")
  /\ pc[r] \in {"findAdmins", "deleteAdmins", "logAdmins"} => Is(r, "deleteAdmin")
  /\ pc[r] \in CourseLabels => local[r].kind \in CourseKinds
  /\ pc[r] = "createCourses" => Is(r, "createSchool")
  /\ pc[r] = "insertSchool" => local[r].kind \in {"createSchool", "createSchoolAPI"}
  /\ pc[r] \in {"findSchool", "reactivate"} => Is(r, "createSchoolAPI")
  /\ pc[r] = "deleteSchool" => Is(r, "deleteSchool")
  /\ pc[r] = "createEvent" => Is(r, "createCourse")
  /\ pc[r] \in {"findSchoolOf", "insertCourse"} => local[r].kind \in {"createCourse", "createCourseAPI"}
  /\ pc[r] \in {"findEvent", "changeEvent", "checkOwner"} => local[r].kind \in {"editCourse", "deleteCourse"}
  /\ pc[r] = "writeCourse" => local[r].kind \in {"editCourse", "deleteCourse", "deleteCourseAPI"}
  /\ pc[r] \in StudentLabels => local[r].kind \in StudentKinds
  /\ pc[r] \in {"readUser", "connect"} => Is(r, "associate")
  /\ pc[r] \in {"readRemoval", "disconnect", "logRemoval"} => Is(r, "disassociate")
  /\ pc[r] \in {"readStudent", "enrol", "tempCourse"} => local[r].kind \in {"associate", "enrol"}
  /\ pc[r] \in {"readCourse", "unenrol"} => local[r].kind \in {"disassociate", "unenrol"}
  /\ pc[r] \notin {"createPf", "clearTemp"}

(* What a request has at hand when it comes to use it.                     *)
Filled(r) ==
  /\ pc[r] = "insertAdmin" => local[r].student \in Students /\ local[r].env \in Envs
  /\ pc[r] \in {"createEvent", "findSchoolOf", "insertCourse"} => local[r].name \in Names
  /\ pc[r] = "changeEvent" => local[r].event \in Requests
  /\ local[r].kind \in {"editCourse", "deleteCourse", "deleteCourseAPI"} => local[r].course \in Requests
  /\ Is(r, "editCourse") => local[r].new \in Names
  /\ local[r].kind \in {"associate", "disassociate", "enrol", "unenrol"} => local[r].student \in Students
  /\ pc[r] \in {"connect", "disconnect"} => local[r].seen \in User
  /\ pc[r] \in {"readStudent", "enrol", "tempCourse"} => local[r].course \in Requests
  /\ pc[r] = "enrol" => users[local[r].student].pf

(* The same of a student who completes his profile.                        *)
ProfileOK(s) ==
  /\ pc[s] \in {"idle", "createPf", "clearTemp", "done", "failed"} /\ local[s].kind = None
  /\ pc[s] = "idle" => local[s].seen = None
  /\ pc[s] \in {"createPf", "clearTemp", "done"} => local[s].seen \in User

Well == /\ TypeOK
        /\ \A r \in Requests : KindOK(r) /\ Filled(r)
        /\ \A s \in Students : ProfileOK(s)

(* A step of a.                                                            *)
Moves(a) == \A b \in Actors \ {a} : pc'[b] = pc[b] /\ local'[b] = local[b]

(* A step of request r that is of one of the kinds and stays of its kind.  *)
StepOf(r, K) ==
  /\ Moves(r)
  /\ pc'[r] # "idle" /\ local'[r].kind \in K
  /\ pc[r] = "idle" \/ (local[r].kind = local'[r].kind /\ pc[r] \notin {"done", "failed"})
  /\ local[r].event # None => local'[r].event # None
  /\ \A q \in Requests \ {r} : audit'[q] = audit[q]

LEMMA WellInit == Init => Well
<1> SUFFICES ASSUME Init PROVE Well
  OBVIOUS
<1>1. TypeOK
  BY RosterAssumption DEF Init, TypeOK, Blank, Local, Actors, PCs, User
<1>2. /\ \A a \in Actors : pc[a] = "idle" /\ local[a] = Blank
      /\ \A r \in Requests : audit[r] = {}
  BY DEF Init
<1>3. \A r \in Requests : KindOK(r) /\ Filled(r)
  <2> SUFFICES ASSUME NEW r \in Requests PROVE KindOK(r) /\ Filled(r)
    OBVIOUS
  <2>1. pc[r] = "idle" /\ local[r] = Blank /\ audit[r] = {}
    BY <1>2 DEF Actors
  <2>2. local[r].kind = None
    BY <2>1 DEF Blank
  <2>3. /\ None \notin {"editCourse", "deleteCourse", "deleteCourseAPI"}
        /\ None \notin {"associate", "disassociate", "enrol", "unenrol"}
    BY RosterAssumption DEF Kinds
  <2> QED
    BY <2>1, <2>2, <2>3 DEF KindOK, Filled, Is, StaffLabels, CourseLabels, StudentLabels
<1>4. \A s \in Students : ProfileOK(s)
  BY <1>2 DEF ProfileOK, Blank, Actors
<1> QED
  BY <1>1, <1>3, <1>4 DEF Well

LEMMA Moving ==
  ASSUME Well, NEW a \in Actors, NEW l \in PCs, Goto(a, l)
  PROVE  /\ pc' \in [Actors -> PCs] /\ pc'[a] = l
         /\ \A b \in Actors \ {a} : pc'[b] = pc[b]
  BY DEF Well, TypeOK, Goto

(* It is enough to look at the request that moves.                         *)
LEMMA OthersWell ==
  ASSUME Well, NEW r \in Requests, TypeOK', Moves(r), KindOK(r)', Filled(r)',
         \A q \in Requests \ {r} : audit'[q] = audit[q],
         \A s \in Students : users[s].pf => users'[s].pf
  PROVE  Well'
<1>1. \A q \in Requests \ {r} : KindOK(q)'
  <2> SUFFICES ASSUME NEW q \in Requests \ {r} PROVE KindOK(q)'
    OBVIOUS
  <2>1. KindOK(q) /\ pc'[q] = pc[q] /\ local'[q] = local[q] /\ audit'[q] = audit[q]
    BY DEF Well, Moves, Actors
  <2> QED
    BY <2>1 DEF KindOK, Is, Blank
<1>2. \A q \in Requests \ {r} : Filled(q)'
  <2> SUFFICES ASSUME NEW q \in Requests \ {r} PROVE Filled(q)'
    OBVIOUS
  <2>1. Filled(q) /\ pc'[q] = pc[q] /\ local'[q] = local[q]
    BY DEF Well, Moves, Actors
  <2>2. pc[q] = "enrol" => local[q].student \in Students
    BY <2>1 DEF Well, KindOK, Filled
  <2> QED
    BY <2>1, <2>2 DEF Filled, Is
<1>3. \A s \in Students : ProfileOK(s)'
  <2> SUFFICES ASSUME NEW s \in Students PROVE ProfileOK(s)'
    OBVIOUS
  <2>1. ProfileOK(s) /\ pc'[s] = pc[s] /\ local'[s] = local[s]
    BY RosterAssumption DEF Well, Moves, Actors
  <2> QED
    BY <2>1 DEF ProfileOK
<1> QED
  BY <1>1, <1>2, <1>3 DEF Well

LEMMA BlankLocal == Blank \in Local /\ Blank.kind = None /\ Blank.event = None
  BY DEF Blank, Local, Kinds

(* The first step of a request: it keeps what it was asked.                *)
Asked(r, l, n) == /\ pc[r] = "idle" /\ Goto(r, l) /\ local' = [local EXCEPT ![r] = n]
                  /\ UNCHANGED <<staff, catalogue, people, audit>>

LEMMA Beginning ==
  ASSUME Well, NEW r \in Requests, NEW l \in PCs \ {"idle"}, NEW n \in Local, Asked(r, l, n),
         NEW K, n.kind \in K
  PROVE  /\ TypeOK' /\ pc[r] = "idle" /\ pc'[r] = l /\ local[r] = Blank /\ local'[r] = n
         /\ audit'[r] = {}
         /\ StepOf(r, K)
         /\ KindOK(r)' /\ Filled(r)' => Well'
<1>. r \in Actors /\ l \in PCs
  BY DEF Actors
<1>1. /\ pc' \in [Actors -> PCs] /\ pc'[r] = l /\ pc[r] = "idle"
      /\ \A b \in Actors \ {r} : pc'[b] = pc[b]
  BY Moving DEF Asked
<1>2. /\ local' \in [Actors -> Local] /\ local'[r] = n
      /\ \A b \in Actors \ {r} : local'[b] = local[b]
  BY DEF Well, TypeOK, Asked
<1>3. TypeOK'
  BY <1>1, <1>2 DEF Well, TypeOK, staff, catalogue, people, Asked
<1>4. local[r] = Blank /\ audit' = audit /\ audit'[r] = {}
  BY <1>1 DEF Well, KindOK, Asked
<1>5. Moves(r)
  BY <1>1, <1>2 DEF Moves
<1>6. StepOf(r, K)
  BY <1>1, <1>2, <1>4, <1>5, BlankLocal DEF StepOf
<1>7. KindOK(r)' /\ Filled(r)' => Well'
  BY <1>3, <1>4, <1>5, OthersWell DEF people, Asked
<1> QED
  BY <1>1, <1>2, <1>3, <1>4, <1>6, <1>7

(* A step that keeps its locals.                                           *)
LEMMA Going ==
  ASSUME Well, NEW r \in Requests, NEW l \in PCs \ {"idle"}, Goto(r, l), NEW K, local[r].kind \in K, UNCHANGED local,
         pc[r] \notin {"idle", "done", "failed"}
  PROVE  /\ pc' \in [Actors -> PCs] /\ pc'[r] = l /\ local' \in [Actors -> Local] /\ local'[r] = local[r]
         /\ Moves(r)
         /\ (\A q \in Requests \ {r} : audit'[q] = audit[q]) => StepOf(r, K)
<1>. r \in Actors /\ l \in PCs
  BY DEF Actors
<1>1. pc' \in [Actors -> PCs] /\ pc'[r] = l /\ \A b \in Actors \ {r} : pc'[b] = pc[b]
  BY Moving
<1>2. local' \in [Actors -> Local]
  BY DEF Well, TypeOK
<1> QED
  BY <1>1, <1>2 DEF StepOf, Moves

(* A step that keeps its kind and its event.                               *)
Learned(r, l, n) == Goto(r, l) /\ local' = [local EXCEPT ![r] = n]

LEMMA Learning ==
  ASSUME Well, NEW r \in Requests, NEW l \in PCs \ {"idle"}, NEW n \in Local, Learned(r, l, n),
         NEW K, local[r].kind \in K, n.kind = local[r].kind,
         local[r].event # None => n.event # None,
         pc[r] \notin {"idle", "done", "failed"}
  PROVE  /\ pc' \in [Actors -> PCs] /\ pc'[r] = l /\ local' \in [Actors -> Local] /\ local'[r] = n
         /\ Moves(r)
         /\ (\A q \in Requests \ {r} : audit'[q] = audit[q]) => StepOf(r, K)
<1>. r \in Actors /\ l \in PCs
  BY DEF Actors
<1>1. pc' \in [Actors -> PCs] /\ pc'[r] = l /\ \A b \in Actors \ {r} : pc'[b] = pc[b]
  BY Moving DEF Learned
<1>2. /\ local' \in [Actors -> Local] /\ local'[r] = n
      /\ \A b \in Actors \ {r} : local'[b] = local[b]
  BY DEF Well, TypeOK, Learned
<1> QED
  BY <1>1, <1>2 DEF StepOf, Moves

(* The log: an entry, or none.                                             *)
LEMMA Logging ==
  ASSUME Well, NEW r \in Requests, NEW T \in SUBSET (Actors \cup {"school"}), NEW l, Log(r, T, l)
  PROVE  /\ Goto(r, l)
         /\ audit' \in [Requests -> SUBSET (Actors \cup {"school"})]
         /\ \A q \in Requests \ {r} : audit'[q] = audit[q]
         /\ audit'[r] \subseteq audit[r] \cup T
  BY DEF Well, TypeOK, Log

-----------------------------------------------------------------------------
(* Administrators.  The row of one is inserted once, when its request is   *)
(* done: one that was removed is gone for good.                            *)

Associated(a) == a \in Requests /\ Is(a, "associateAdmin") /\ pc[a] = "done"

AdminsOf(r) ==
  /\ local[r].kind \in StaffKinds => \A a \in local[r].ids : Associated(a)
  /\ Is(r, "deleteAdmin") =>
       /\ \A a \in local[r].found : a \in local[r].ids
       /\ pc[r] = "deleteAdmins" =>
            \A a \in local[r].found : admins[a] # None => admins[a].env = local[r].env
       /\ pc[r] = "logAdmins" => \A a \in local[r].found : admins[a] = None
       /\ \A a \in audit[r] : Associated(a) /\ admins[a] = None

AdminsOK == /\ \A a \in Requests : admins[a] # None => Associated(a)
            /\ \A r \in Requests : AdminsOf(r)

(* A request that has inserted its row is over.                            *)
LEMMA AssociatedKept ==
  ASSUME NEW r \in Requests, NEW K, StepOf(r, K)
  PROVE  \A a : Associated(a) => Associated(a)'
<1> SUFFICES ASSUME NEW a, Associated(a) PROVE Associated(a)'
  OBVIOUS
<1>1. a \in Requests /\ a # r
  BY DEF Associated, StepOf
<1> QED
  BY <1>1 DEF Associated, StepOf, Moves, Actors, Is

(* Rows are not inserted again, nor do they change hands.                  *)
LEMMA OthersAdmins ==
  ASSUME AdminsOK, NEW r \in Requests, NEW K, StepOf(r, K), AdminsOf(r)',
         \A a \in Requests : admins'[a] # None => Associated(a)',
         \A a \in Requests : Associated(a) /\ admins[a] = None => admins'[a] = None,
         \A a \in Requests : admins[a] # None /\ admins'[a] # None => admins'[a].env = admins[a].env
  PROVE  AdminsOK'
<1>1. \A a : Associated(a) => Associated(a)'
  BY AssociatedKept
<1>2. \A q \in Requests \ {r} : AdminsOf(q)'
  <2> SUFFICES ASSUME NEW q \in Requests \ {r} PROVE AdminsOf(q)'
    OBVIOUS
  <2>1. AdminsOf(q) /\ pc'[q] = pc[q] /\ local'[q] = local[q] /\ audit'[q] = audit[q]
    BY DEF AdminsOK, StepOf, Moves, Actors
  <2>2. \A a : Associated(a) => a \in Requests
    BY DEF Associated
  <2>3. local[q].kind \in StaffKinds => \A a \in local[q].ids : Associated(a)
    BY <2>1 DEF AdminsOf
  <2>4. Is(q, "deleteAdmin") => local[q].kind \in StaffKinds
    BY DEF Is, StaffKinds
  <2>5. local'[q].kind \in StaffKinds => \A a \in local'[q].ids : Associated(a)'
    BY <2>1, <2>3, <1>1
  <2>6. ASSUME Is(q, "deleteAdmin"), pc[q] = "deleteAdmins", NEW a \in local[q].found, admins'[a] # None
        PROVE  admins'[a].env = local[q].env
    <3>1. a \in local[q].ids /\ (admins[a] # None => admins[a].env = local[q].env)
      BY <2>1, <2>6 DEF AdminsOf
    <3>2. a \in Requests /\ Associated(a)
      BY <3>1, <2>2, <2>3, <2>4, <2>6
    <3> QED
      BY <3>1, <3>2, <2>6
  <2>7. ASSUME Is(q, "deleteAdmin"), pc[q] = "logAdmins", NEW a \in local[q].found
        PROVE  admins'[a] = None
    <3>1. a \in local[q].ids /\ admins[a] = None
      BY <2>1, <2>7 DEF AdminsOf
    <3>2. a \in Requests /\ Associated(a)
      BY <3>1, <2>2, <2>3, <2>4, <2>7
    <3> QED
      BY <3>1, <3>2
  <2>8. ASSUME Is(q, "deleteAdmin"), NEW a \in audit[q] PROVE Associated(a)' /\ admins'[a] = None
    <3>1. Associated(a) /\ admins[a] = None
      BY <2>1, <2>8 DEF AdminsOf
    <3> QED
      BY <3>1, <2>2, <1>1
  <2>9. Is(q, "deleteAdmin") => \A a \in local[q].found : a \in local[q].ids
    BY <2>1 DEF AdminsOf
  <2> QED
    BY <2>1, <2>5, <2>6, <2>7, <2>8, <2>9 DEF AdminsOf, Is
<1> QED
  BY <1>2 DEF AdminsOK

(* As long as the rows stay, only what the request knows matters.          *)
LEMMA SameAdmins ==
  ASSUME AdminsOK, NEW r \in Requests, NEW K, StepOf(r, K), AdminsOf(r)', UNCHANGED admins
  PROVE  AdminsOK'
<1>1. \A a : Associated(a) => Associated(a)'
  BY AssociatedKept
<1>2. /\ \A a \in Requests : admins'[a] # None => Associated(a)'
      /\ \A a \in Requests : Associated(a) /\ admins[a] = None => admins'[a] = None
      /\ \A a \in Requests : admins[a] # None /\ admins'[a] # None => admins'[a].env = admins[a].env
  BY <1>1 DEF AdminsOK
<1> QED
  BY <1>2, OthersAdmins

(* Requests of other kinds have nothing to do with them.                   *)
LEMMA AdminsAside ==
  ASSUME AdminsOK, NEW r \in Requests, NEW K, StepOf(r, K), UNCHANGED admins,
         K \cap StaffKinds = {}
  PROVE  AdminsOK'
<1>1. AdminsOf(r)'
  BY DEF AdminsOf, StepOf, StaffKinds, Is
<1> QED
  BY <1>1, SameAdmins

LEMMA AssociateUserAdminKeeps ==
  ASSUME Well, AdminsOK, NEW r \in Requests, AssociateUserAdmin(r)
  PROVE  Well' /\ AdminsOK' /\ StepOf(r, StaffKinds)
<1>1. PICK p \in Students, e \in Envs :
        local' = [local EXCEPT ![r] = [@ EXCEPT !.kind = "associateAdmin", !.student = p, !.env = e]]
  BY DEF AssociateUserAdmin
<1>2. Begin(r, "associateAdmin", "insertAdmin") /\ UNCHANGED <<staff, catalogue, people, audit>>
  BY DEF AssociateUserAdmin
<1>3. local[r] = Blank
  BY <1>2 DEF Begin, Well, KindOK
<1> DEFINE n == [Blank EXCEPT !.kind = "associateAdmin", !.student = p, !.env = e]
<1>4. local' = [local EXCEPT ![r] = n]
  BY <1>1, <1>3
<1>5. n \in Local /\ n.kind = "associateAdmin" /\ n.student = p /\ n.env = e /\ n.ids = {}
  BY DEF Blank, Local, Kinds
<1> HIDE DEF n
<1>. "associateAdmin" \in StaffKinds /\ "insertAdmin" \in PCs \ {"idle"}
  BY DEF StaffKinds, PCs
<1>. Asked(r, "insertAdmin", n)
  BY <1>2, <1>4 DEF Begin, Asked
<1>6. /\ pc'[r] = "insertAdmin" /\ local'[r] = n /\ StepOf(r, StaffKinds)
      /\ KindOK(r)' /\ Filled(r)' => Well'
  BY <1>2, <1>4, <1>5, Beginning
<1>7. KindOK(r)' /\ Filled(r)'
  BY <1>5, <1>6 DEF KindOK, Filled, Is, StaffLabels, CourseLabels, StudentLabels, StaffKinds
<1>8. AdminsOf(r)'
  BY <1>5, <1>6 DEF AdminsOf, Is
<1> QED
  BY <1>2, <1>6, <1>7, <1>8, SameAdmins DEF staff

LEMMA EnableUserAdminKeeps ==
  ASSUME Well, AdminsOK, NEW r \in Requests, EnableUserAdmin(r)
  PROVE  Well' /\ AdminsOK' /\ StepOf(r, StaffKinds)
<1>1. PICK p \in Students, e \in Envs : \E a \in RowsOf(p, e) :
        local' = [local EXCEPT ![r] = [@ EXCEPT !.kind = "enableAdmin", !.ids = {a}]]
  BY DEF EnableUserAdmin
<1>2. PICK a \in RowsOf(p, e) :
        local' = [local EXCEPT ![r] = [@ EXCEPT !.kind = "enableAdmin", !.ids = {a}]]
  BY <1>1
<1>3. Begin(r, "enableAdmin", "enableAdmin") /\ UNCHANGED <<staff, catalogue, people, audit>>
  BY DEF EnableUserAdmin
<1>4. local[r] = Blank
  BY <1>3 DEF Begin, Well, KindOK
<1> DEFINE n == [Blank EXCEPT !.kind = "enableAdmin", !.ids = {a}]
<1>5. local' = [local EXCEPT ![r] = n]
  BY <1>2, <1>4
<1>6. a \in Requests /\ admins[a] # None
  BY DEF RowsOf
<1>7. n \in Local /\ n.kind = "enableAdmin" /\ n.ids = {a}
  BY <1>6 DEF Blank, Local, Kinds
<1> HIDE DEF n
<1>. "enableAdmin" \in StaffKinds /\ "enableAdmin" \in PCs \ {"idle"}
  BY DEF StaffKinds, PCs
<1>. Asked(r, "enableAdmin", n)
  BY <1>3, <1>5 DEF Begin, Asked
<1>8. /\ pc'[r] = "enableAdmin" /\ local'[r] = n /\ StepOf(r, StaffKinds)
      /\ KindOK(r)' /\ Filled(r)' => Well'
  BY <1>3, <1>5, <1>7, Beginning
<1>9. KindOK(r)' /\ Filled(r)'
  BY <1>7, <1>8 DEF KindOK, Filled, Is, StaffLabels, CourseLabels, StudentLabels, StaffKinds
<1>10. Associated(a)'
  BY <1>6, <1>8, AssociatedKept DEF AdminsOK
<1>11. AdminsOf(r)'
  BY <1>7, <1>8, <1>10 DEF AdminsOf, Is
<1> QED
  BY <1>3, <1>8, <1>9, <1>11, SameAdmins DEF staff

LEMMA DeleteUserAdminKeeps ==
  ASSUME Well, AdminsOK, NEW r \in Requests, DeleteUserAdmin(r)
  PROVE  Well' /\ AdminsOK' /\ StepOf(r, StaffKinds)
<1>1. PICK ids \in SUBSET {a \in Requests : admins[a] # None} \ {{}} :
        local' = [local EXCEPT ![r] = [@ EXCEPT !.kind = "deleteAdmin", !.ids = ids,
                                                !.env = "institutional"]]
  BY DEF DeleteUserAdmin
<1>2. Begin(r, "deleteAdmin", "findAdmins") /\ UNCHANGED <<staff, catalogue, people, audit>>
  BY DEF DeleteUserAdmin
<1>3. local[r] = Blank
  BY <1>2 DEF Begin, Well, KindOK
<1> DEFINE n == [Blank EXCEPT !.kind = "deleteAdmin", !.ids = ids, !.env = "institutional"]
<1>4. local' = [local EXCEPT ![r] = n]
  BY <1>1, <1>3
<1>5. n \in Local /\ n.kind = "deleteAdmin" /\ n.ids = ids /\ n.found = {}
  BY DEF Blank, Local, Kinds, Envs
<1> HIDE DEF n
<1>. "deleteAdmin" \in StaffKinds /\ "findAdmins" \in PCs \ {"idle"}
  BY DEF StaffKinds, PCs
<1>. Asked(r, "findAdmins", n)
  BY <1>2, <1>4 DEF Begin, Asked
<1>6. /\ pc'[r] = "findAdmins" /\ local'[r] = n /\ StepOf(r, StaffKinds) /\ audit'[r] = {}
      /\ KindOK(r)' /\ Filled(r)' => Well'
  BY <1>2, <1>4, <1>5, Beginning
<1>7. KindOK(r)' /\ Filled(r)'
  BY <1>5, <1>6 DEF KindOK, Filled, Is, StaffLabels, CourseLabels, StudentLabels, StaffKinds
<1>8. \A a \in ids : Associated(a)'
  BY <1>6, AssociatedKept DEF AdminsOK
<1>9. AdminsOf(r)'
  BY <1>5, <1>6, <1>8 DEF AdminsOf, Is
<1> QED
  BY <1>2, <1>6, <1>7, <1>9, SameAdmins DEF staff

LEMMA AssociateAdminRecordKeeps ==
  ASSUME Well, AdminsOK, NEW r \in Requests, AssociateAdminRecord(r)
  PROVE  Well' /\ AdminsOK' /\ StepOf(r, StaffKinds)
<1>1. /\ pc[r] = "insertAdmin" /\ Goto(r, "done") /\ UNCHANGED <<catalogue, people, audit, local>>
      /\ admins' = [admins EXCEPT ![r] = [person |-> local[r].student, env |-> local[r].env,
                                          enabled |-> FALSE]]
  BY DEF AssociateAdminRecord
<1>2. /\ local[r].kind = "associateAdmin" /\ local[r].kind \in StaffKinds
      /\ local[r].student \in Students /\ local[r].env \in Envs
  BY <1>1 DEF Well, KindOK, Filled, Is, StaffKinds
<1>. "done" \in PCs \ {"idle"}
  BY DEF PCs
<1>3. /\ pc' \in [Actors -> PCs] /\ pc'[r] = "done"
      /\ local' \in [Actors -> Local] /\ local'[r] = local[r] /\ StepOf(r, StaffKinds)
  BY <1>1, <1>2, Going
<1> DEFINE row == [person |-> local[r].student, env |-> local[r].env, enabled |-> FALSE]
<1>4. row \in Admin
  BY <1>2 DEF Admin
<1>5. /\ admins' \in [Requests -> Admin \cup {None}] /\ admins'[r] = row
      /\ \A a \in Requests \ {r} : admins'[a] = admins[a]
  BY <1>1, <1>4 DEF Well, TypeOK
<1>6. TypeOK'
  BY <1>1, <1>3, <1>5 DEF Well, TypeOK, catalogue, people
<1>7. KindOK(r)' /\ Filled(r)'
  BY <1>2, <1>3 DEF KindOK, Filled, Is, StaffLabels, CourseLabels, StudentLabels, StaffKinds
<1>8. Well'
  BY <1>1, <1>3, <1>6, <1>7, OthersWell DEF StepOf, people
<1>9. Associated(r)' /\ ~Associated(r)
  BY <1>1, <1>2, <1>3 DEF Associated, Is
<1>10. admins[r] = None
  BY <1>9 DEF AdminsOK
<1>11. local[r].ids = local'[r].ids /\ \A a \in local'[r].ids : Associated(a)'
  BY <1>2, <1>3, AssociatedKept DEF AdminsOK, AdminsOf
<1>12. AdminsOf(r)'
  BY <1>2, <1>3, <1>11 DEF AdminsOf, Is
<1>13. \A a : Associated(a) => Associated(a)'
  BY <1>3, AssociatedKept
<1>14. \A a \in Requests : admins'[a] # None => Associated(a)'
  BY <1>5, <1>9, <1>13 DEF AdminsOK
<1>15. \A a \in Requests : Associated(a) /\ admins[a] = None => admins'[a] = None
  BY <1>5, <1>9
<1>16. \A a \in Requests : admins[a] # None /\ admins'[a] # None => admins'[a].env = admins[a].env
  BY <1>5, <1>10
<1> QED
  BY <1>3, <1>8, <1>12, <1>14, <1>15, <1>16, OthersAdmins

LEMMA UpdateAdminStatusKeeps ==
  ASSUME Well, AdminsOK, NEW r \in Requests, UpdateAdminStatus(r)
  PROVE  Well' /\ AdminsOK' /\ StepOf(r, StaffKinds)
<1>1. /\ pc[r] = "enableAdmin" /\ UNCHANGED <<catalogue, people, audit, local>>
      /\ local[r].kind = "enableAdmin" /\ local[r].kind \in StaffKinds
  BY DEF UpdateAdminStatus, Well, KindOK, Is, StaffKinds
<1>2. PICK a \in local[r].ids :
        IF admins[a] = None THEN Goto(r, "failed") /\ UNCHANGED admins
        ELSE admins' = [admins EXCEPT ![a].enabled = TRUE] /\ Goto(r, "done")
  BY DEF UpdateAdminStatus
<1>3. PICK l \in {"done", "failed"} : Goto(r, l)
  BY <1>2
<1>. l \in PCs \ {"idle"}
  BY DEF PCs
<1>4. /\ pc' \in [Actors -> PCs] /\ pc'[r] = l
      /\ local' \in [Actors -> Local] /\ local'[r] = local[r] /\ StepOf(r, StaffKinds)
  BY <1>1, <1>3, Going
<1>5. a \in Requests /\ \A b \in local[r].ids : Associated(b)
  BY <1>1 DEF AdminsOK, AdminsOf, Associated
<1>6. /\ admins' \in [Requests -> Admin \cup {None}]
      /\ \A b \in Requests : (admins'[b] = None) <=> (admins[b] = None)
      /\ \A b \in Requests : admins[b] # None => admins'[b].env = admins[b].env
  <2>1. CASE admins[a] = None
    BY <1>2, <2>1 DEF Well, TypeOK
  <2>2. CASE admins[a] # None
    <3> DEFINE row == [admins[a] EXCEPT !.enabled = TRUE]
    <3>1. admins[a] \in Admin
      BY <1>5, <2>2 DEF Well, TypeOK
    <3>2. row \in Admin /\ row.env = admins[a].env
      BY <3>1 DEF Admin
    <3>3. row # None
      BY <3>2, RowsAssumption
    <3>4. admins' = [admins EXCEPT ![a] = row]
      BY <1>2, <2>2
    <3> HIDE DEF row
    <3>5. /\ admins' \in [Requests -> Admin \cup {None}] /\ admins'[a] = row
          /\ \A b \in Requests \ {a} : admins'[b] = admins[b]
      BY <1>5, <3>2, <3>4 DEF Well, TypeOK
    <3> QED
      BY <2>2, <3>2, <3>3, <3>5
  <2> QED
    BY <2>1, <2>2
<1>7. TypeOK'
  BY <1>1, <1>4, <1>6 DEF Well, TypeOK, catalogue, people
<1>8. KindOK(r)' /\ Filled(r)'
  BY <1>1, <1>4 DEF KindOK, Filled, Is, StaffLabels, CourseLabels, StudentLabels, StaffKinds
<1>9. Well'
  BY <1>1, <1>4, <1>7, <1>8, OthersWell DEF StepOf, people
<1>10. \A b : Associated(b) => Associated(b)'
  BY <1>4, AssociatedKept
<1>11. AdminsOf(r)'
  BY <1>1, <1>4, <1>5, <1>10 DEF AdminsOf, Is
<1>12. \A b \in Requests : admins'[b] # None => Associated(b)'
  BY <1>6, <1>10 DEF AdminsOK
<1> QED
  BY <1>4, <1>6, <1>9, <1>11, <1>12, OthersAdmins

LEMMA FindAdminsKeeps ==
  ASSUME Well, AdminsOK, NEW r \in Requests, FindAdmins(r)
  PROVE  Well' /\ AdminsOK' /\ StepOf(r, StaffKinds)
<1>1. /\ pc[r] = "findAdmins" /\ Goto(r, "deleteAdmins") /\ UNCHANGED <<staff, catalogue, people, audit>>
      /\ local[r].kind = "deleteAdmin" /\ local[r].kind \in StaffKinds
      /\ local' = [local EXCEPT ![r].found = Named(r)]
  BY DEF FindAdmins, Well, KindOK, Is, StaffKinds
<1> DEFINE o == local[r]
           n == [o EXCEPT !.found = Named(r)]
<1>2. o \in Local /\ r \in Actors /\ o.kind = "deleteAdmin"
  BY <1>1 DEF Well, TypeOK, Actors
<1>3. local' = [local EXCEPT ![r] = n]
  BY <1>1
<1>4. /\ \A a \in Named(r) : a \in o.ids /\ (admins[a] # None => admins[a].env = o.env)
      /\ Named(r) \subseteq Requests
  BY <1>2 DEF Named, Local
<1> HIDE DEF o
<1>5. n \in Local /\ n.kind = o.kind /\ n.event = o.event /\ n.ids = o.ids /\ n.env = o.env
      /\ n.found = Named(r)
  BY <1>2, <1>4 DEF Local
<1> HIDE DEF n
<1>6. Learned(r, "deleteAdmins", n)
  BY <1>1, <1>3 DEF Learned
<1>. "deleteAdmins" \in PCs \ {"idle"}
  BY DEF PCs
<1>7. /\ pc' \in [Actors -> PCs] /\ pc'[r] = "deleteAdmins"
      /\ local' \in [Actors -> Local] /\ local'[r] = n /\ StepOf(r, StaffKinds)
  BY <1>1, <1>5, <1>6, Learning DEF o
<1>8. TypeOK'
  BY <1>1, <1>7 DEF Well, TypeOK, staff, catalogue, people
<1>9. KindOK(r)' /\ Filled(r)'
  BY <1>2, <1>5, <1>7 DEF KindOK, Filled, Is, StaffLabels, CourseLabels, StudentLabels, StaffKinds
<1>10. Well'
  BY <1>1, <1>7, <1>8, <1>9, OthersWell DEF StepOf, people
<1>11. \A b : Associated(b) => Associated(b)'
  BY <1>7, AssociatedKept
<1>12. (\A a \in o.ids : Associated(a)) /\ \A a \in audit[r] : Associated(a) /\ admins[a] = None
  BY <1>1 DEF AdminsOK, AdminsOf, o, Is
<1>13. admins' = admins /\ audit' = audit
  BY <1>1 DEF staff
<1>14. AdminsOf(r)'
  <2>1. \A a \in local'[r].ids : Associated(a)'
    BY <1>5, <1>7, <1>11, <1>12
  <2>2. \A a \in local'[r].found : /\ a \in local'[r].ids
                                   /\ admins'[a] # None => admins'[a].env = local'[r].env
    BY <1>4, <1>5, <1>7, <1>13
  <2>3. \A a \in audit'[r] : Associated(a)' /\ admins'[a] = None
    BY <1>11, <1>12, <1>13
  <2> QED
    BY <1>7, <2>1, <2>2, <2>3 DEF AdminsOf
<1> QED
  BY <1>7, <1>10, <1>13, <1>14, SameAdmins

LEMMA DeleteAdminsKeeps ==
  ASSUME Well, AdminsOK, NEW r \in Requests, DeleteAdmins(r)
  PROVE  Well' /\ AdminsOK' /\ StepOf(r, StaffKinds)
<1>1. /\ pc[r] = "deleteAdmins" /\ Goto(r, "logAdmins") /\ UNCHANGED <<catalogue, people, audit, local>>
      /\ local[r].kind = "deleteAdmin" /\ local[r].kind \in StaffKinds
      /\ admins' = [a \in Requests |-> IF a \in Named(r) THEN None ELSE admins[a]]
  BY DEF DeleteAdmins, Well, KindOK, Is, StaffKinds
<1>. "logAdmins" \in PCs \ {"idle"}
  BY DEF PCs
<1>2. /\ pc' \in [Actors -> PCs] /\ pc'[r] = "logAdmins"
      /\ local' \in [Actors -> Local] /\ local'[r] = local[r] /\ StepOf(r, StaffKinds)
  BY <1>1, Going
<1>3. /\ admins' \in [Requests -> Admin \cup {None}]
      /\ \A a \in Requests : admins'[a] = IF a \in Named(r) THEN None ELSE admins[a]
  BY <1>1 DEF Well, TypeOK
<1>4. TypeOK'
  BY <1>1, <1>2, <1>3 DEF Well, TypeOK, catalogue, people
<1>5. KindOK(r)' /\ Filled(r)'
  BY <1>1, <1>2 DEF KindOK, Filled, Is, StaffLabels, CourseLabels, StudentLabels, StaffKinds
<1>6. Well'
  BY <1>1, <1>2, <1>4, <1>5, OthersWell DEF StepOf, people
<1>7. \A b : Associated(b) => Associated(b)' /\ b \in Requests
  BY <1>2, AssociatedKept DEF Associated
<1>8. /\ \A a \in local[r].ids : Associated(a)
      /\ \A a \in local[r].found : /\ a \in local[r].ids
                                   /\ admins[a] # None => admins[a].env = local[r].env
      /\ \A a \in audit[r] : Associated(a) /\ admins[a] = None
  BY <1>1 DEF AdminsOK, AdminsOf, Is
<1>9. \A a \in local[r].found : admins'[a] = None
  <2> SUFFICES ASSUME NEW a \in local[r].found PROVE admins'[a] = None
    OBVIOUS
  <2>1. a \in local[r].ids /\ a \in Requests /\ (admins[a] # None => admins[a].env = local[r].env)
    BY <1>7, <1>8
  <2> QED
    BY <1>3, <2>1 DEF Named
<1>10. \A a \in audit[r] : Associated(a)' /\ admins'[a] = None
  BY <1>3, <1>7, <1>8
<1>11. AdminsOf(r)'
  BY <1>1, <1>2, <1>7, <1>8, <1>9, <1>10 DEF AdminsOf, Is
<1>12. \A b \in Requests : admins'[b] # None => Associated(b)'
  BY <1>3, <1>7 DEF AdminsOK
<1>13. /\ \A a \in Requests : Associated(a) /\ admins[a] = None => admins'[a] = None
       /\ \A a \in Requests : admins[a] # None /\ admins'[a] # None => admins'[a].env = admins[a].env
  BY <1>3
<1> QED
  BY <1>2, <1>6, <1>11, <1>12, <1>13, OthersAdmins

LEMMA LogAdminsKeeps ==
  ASSUME Well, AdminsOK, NEW r \in Requests, LogAdmins(r)
  PROVE  Well' /\ AdminsOK' /\ StepOf(r, StaffKinds)
<1>1. /\ pc[r] = "logAdmins" /\ UNCHANGED <<staff, catalogue, people>>
      /\ local[r].kind = "deleteAdmin" /\ local[r].kind \in StaffKinds
  BY DEF LogAdmins, Well, KindOK, Is, StaffKinds
<1> DEFINE o == local[r]
<1>2. o \in Local /\ r \in Actors
  BY DEF Well, TypeOK, Actors
<1>3. o.found \in SUBSET (Actors \cup {"school"}) /\ o.ids \in SUBSET Requests
  BY <1>2 DEF Local, Actors
<1>4. PICK l \in {"findAdmins", "done"} :
        Log(r, o.found, l) /\ (UNCHANGED local \/ local' = [local EXCEPT ![r].env = "corporate"])
  BY DEF LogAdmins
<1>5. /\ Goto(r, l)
      /\ audit' \in [Requests -> SUBSET (Actors \cup {"school"})]
      /\ \A q \in Requests \ {r} : audit'[q] = audit[q]
      /\ audit'[r] \subseteq audit[r] \cup o.found
  <2> HIDE DEF o
  <2> QED
    BY <1>3, <1>4, Logging
<1> DEFINE n == local'[r]
<1>6. n \in Local /\ n.kind = o.kind /\ n.event = o.event /\ n.ids = o.ids /\ n.found = o.found
  <2>1. CASE UNCHANGED local
    BY <1>2, <2>1
  <2>2. CASE local' = [local EXCEPT ![r].env = "corporate"]
    <3> DEFINE m == [o EXCEPT !.env = "corporate"]
    <3>1. n = m
      BY <1>2, <2>2 DEF Well, TypeOK
    <3>2. m \in Local /\ m.kind = o.kind /\ m.event = o.event /\ m.ids = o.ids /\ m.found = o.found
      <4> HIDE DEF o, n
      <4> QED
        BY <1>2 DEF Local, Envs
    <3> QED
      BY <3>1, <3>2
  <2> QED
    BY <1>4, <2>1, <2>2
<1>7. local' = [local EXCEPT ![r] = n]
  BY <1>2, <1>4 DEF Well, TypeOK
<1>8. Learned(r, l, n)
  BY <1>5, <1>7 DEF Learned
<1>. l \in PCs \ {"idle"}
  BY DEF PCs
<1>9. local[r] = o /\ local'[r] = n
  OBVIOUS
<1> HIDE DEF o, n
<1>10. /\ pc' \in [Actors -> PCs] /\ pc'[r] = l
       /\ local' \in [Actors -> Local] /\ StepOf(r, StaffKinds)
  BY <1>1, <1>5, <1>6, <1>8, <1>9, Learning
<1>11. TypeOK'
  BY <1>1, <1>5, <1>10 DEF Well, TypeOK, staff, catalogue, people
<1>12. KindOK(r)' /\ Filled(r)'
  BY <1>1, <1>6, <1>9, <1>10
  DEF KindOK, Filled, Is, StaffLabels, CourseLabels, StudentLabels, StaffKinds
<1>13. Well'
  BY <1>1, <1>5, <1>10, <1>11, <1>12, OthersWell DEF StepOf, people
<1>14. \A b : Associated(b) => Associated(b)'
  BY <1>10, AssociatedKept
<1>15. /\ \A a \in o.ids : Associated(a)
       /\ \A a \in o.found : a \in o.ids /\ admins[a] = None
       /\ \A a \in audit[r] : Associated(a) /\ admins[a] = None
  BY <1>1, <1>9 DEF AdminsOK, AdminsOf, Is
<1>16. admins' = admins
  BY <1>1 DEF staff
<1>17. AdminsOf(r)'
  <2>1. \A a \in local'[r].ids : Associated(a)'
    BY <1>6, <1>9, <1>14, <1>15
  <2>2. \A a \in local'[r].found : a \in local'[r].ids /\ admins'[a] = None
    BY <1>6, <1>9, <1>15, <1>16
  <2>3. \A a \in audit'[r] : Associated(a)' /\ admins'[a] = None
    BY <1>5, <1>14, <1>15, <1>16
  <2> QED
    BY <1>10, <2>1, <2>2, <2>3 DEF AdminsOf
<1> QED
  BY <1>10, <1>13, <1>16, <1>17, SameAdmins

(* What the administrators' handlers leave alone.                          *)
LEMMA StaffKeeps ==
  ASSUME Well, AdminsOK, NEW r \in Requests, StaffStep(r)
  PROVE  Well' /\ AdminsOK' /\ StepOf(r, StaffKinds) /\ UNCHANGED <<catalogue, people>>
<1>1. UNCHANGED <<catalogue, people>>
  BY DEF StaffStep, AssociateUserAdmin, AssociateAdminRecord, EnableUserAdmin, UpdateAdminStatus,
         DeleteUserAdmin, FindAdmins, DeleteAdmins, LogAdmins
<1> QED
  BY <1>1, AssociateUserAdminKeeps, AssociateAdminRecordKeeps, EnableUserAdminKeeps,
     UpdateAdminStatusKeeps, DeleteUserAdminKeeps, FindAdminsKeeps, DeleteAdminsKeeps,
     LogAdminsKeeps DEF StaffStep

-----------------------------------------------------------------------------
(* The school and its courses.  A course is inserted once, too.            *)

Made(c) == /\ c \in Requests /\ local[c].kind \in {"createSchool", "createCourse", "createCourseAPI"}
           /\ pc[c] \notin Making

CoursesOf(r) ==
  /\ courses[r] # None => Made(r)
  /\ pc[r] = "insertSchool" /\ local[r].course # r => courses[r] = None
  /\ local[r].kind \in {"editCourse", "deleteCourse", "deleteCourseAPI"} => Made(local[r].course)
  /\ Is(r, "deleteCourse") =>
       /\ pc[r] = "log" => courses[local[r].course] = None
       /\ \A c \in audit[r] : Made(c) /\ courses[c] = None

Orphan(c) == courses[c] # None /\ ~courses[c].linked

Found == \E r \in Requests : local[r].event # None

Edited(c) == \E r \in Requests : Is(r, "editCourse") /\ local[r].course = c

(* Until an event is found, or the course edited, they go by one name.     *)
EventsOf(c) ==
  Is(c, "createCourse") =>
    /\ ~local[c].academic /\ (pc[c] \in {"findSchoolOf", "insertCourse"} \/ courses[c] # None) =>
         Found \/ events[c] = local[c].name
    /\ courses[c] # None =>
         Edited(c) \/ (courses[c].academic = local[c].academic /\ courses[c].name = local[c].name)

CatalogueOf(r) ==
  /\ CoursesOf(r) /\ EventsOf(r)
  /\ Orphan(r) => Is(r, "createSchool") /\ pc[r] \in {"insertSchool", "failed"}

CatalogueOK == \A r \in Requests : CatalogueOf(r)

LEMMA FoundKept ==
  ASSUME NEW r \in Requests, NEW K, StepOf(r, K)
  PROVE  Found => Found'
<1> SUFFICES ASSUME NEW q \in Requests, local[q].event # None PROVE Found'
  BY DEF Found
<1>1. local'[q].event # None
  BY DEF StepOf, Moves, Actors
<1> QED
  BY <1>1 DEF Found

LEMMA EditedKept ==
  ASSUME Well, NEW r \in Requests, NEW K, StepOf(r, K),
         Is(r, "editCourse") => local'[r].course = local[r].course
  PROVE  \A c : Edited(c) => Edited(c)'
<1> SUFFICES ASSUME NEW c, NEW q \in Requests, Is(q, "editCourse"), local[q].course = c
             PROVE  Edited(c)'
  BY DEF Edited
<1>1. CASE q = r
  <2>1. pc[r] # "idle"
    BY <1>1, BlankLocal, RosterAssumption DEF Well, KindOK, Is, Kinds
  <2>2. local'[r].kind = "editCourse" /\ local'[r].course = c
    BY <1>1, <2>1 DEF StepOf, Is
  <2> QED
    BY <2>2 DEF Edited, Is
<1>2. CASE q # r
  <2>1. local'[q] = local[q]
    BY <1>2 DEF StepOf, Moves, Actors
  <2> QED
    BY <2>1 DEF Edited, Is
<1> QED
  BY <1>1, <1>2

(* It is enough to look at the request that moves and at what it does to   *)
(* the rows of others: it inserts none, it links none.                     *)
LEMMA OthersCatalogue ==
  ASSUME Well, CatalogueOK, NEW r \in Requests, NEW K, StepOf(r, K), CatalogueOf(r)',
         Is(r, "editCourse") => local'[r].course = local[r].course,
         Made(r) => Made(r)' /\ (courses[r] = None => courses'[r] = None),
         \A c \in Requests \ {r} : courses'[c] # None =>
            /\ courses[c] # None /\ courses'[c].linked = courses[c].linked
            /\ courses'[c] = courses[c] \/ Edited(c)',
         \A c \in Requests \ {r} : Found' \/ events'[c] = events[c]
  PROVE  CatalogueOK'
<1>1. \A c : Made(c) => Made(c)' /\ c \in Requests
  BY DEF Made, StepOf, Moves, Actors
<1>2. (Found => Found') /\ \A c : Edited(c) => Edited(c)'
  BY FoundKept, EditedKept
<1>3. ASSUME NEW q \in Requests \ {r} PROVE CatalogueOf(q)'
  <2>1. CatalogueOf(q) /\ pc'[q] = pc[q] /\ local'[q] = local[q] /\ audit'[q] = audit[q]
    BY DEF CatalogueOK, StepOf, Moves, Actors
  <2>2. CoursesOf(q)'
    <3>1. CoursesOf(q)
      BY <2>1 DEF CatalogueOf
    <3>2. courses'[q] # None => Made(q)'
      BY <1>1, <3>1 DEF CoursesOf
    <3>3. pc'[q] = "insertSchool" /\ local'[q].course # q => courses'[q] = None
      BY <2>1, <3>1 DEF CoursesOf
    <3>4. local'[q].kind \in {"editCourse", "deleteCourse", "deleteCourseAPI"} => Made(local[q].course)'
      BY <1>1, <2>1, <3>1 DEF CoursesOf, Made
    <3>5. \A c : Made(c) /\ courses[c] = None => courses'[c] = None
      BY <1>1
    <3>6. Is(q, "deleteCourse")' =>
            /\ pc'[q] = "log" => courses'[local'[q].course] = None
            /\ \A c \in audit'[q] : Made(c)' /\ courses'[c] = None
      BY <1>1, <2>1, <3>1, <3>5 DEF CoursesOf, Is
    <3> QED
      BY <3>2, <3>3, <3>4, <3>6 DEF CoursesOf
  <2>3. EventsOf(q)'
    BY <1>2, <2>1 DEF CatalogueOf, EventsOf, Is
  <2>4. Orphan(q)' => Is(q, "createSchool")' /\ pc'[q] \in {"insertSchool", "failed"}
    BY <2>1 DEF CatalogueOf, Orphan, Is
  <2> QED
    BY <2>2, <2>3, <2>4 DEF CatalogueOf
<1> QED
  BY <1>3 DEF CatalogueOK

LEMMA SameCatalogue ==
  ASSUME Well, CatalogueOK, NEW r \in Requests, NEW K, StepOf(r, K), CatalogueOf(r)',
         Is(r, "editCourse") => local'[r].course = local[r].course,
         Made(r) => Made(r)',
         UNCHANGED <<courses, events>>
  PROVE  CatalogueOK'
BY OthersCatalogue

(* Requests of other kinds have nothing to do with it.                     *)
LEMMA CatalogueAside ==
  ASSUME Well, Well', CatalogueOK, NEW r \in Requests, NEW K, StepOf(r, K), UNCHANGED <<courses, events>>,
         K \cap CourseKinds = {}
  PROVE  CatalogueOK'
<1>1. local[r].kind \notin CourseKinds
  BY BlankLocal, RosterAssumption DEF StepOf, Well, KindOK, CourseKinds, Kinds
<1>2. local'[r].kind \notin CourseKinds
  BY DEF StepOf
<1>3. ~Made(r) /\ ~Is(r, "editCourse")
  BY <1>1 DEF Made, Is, CourseKinds
<1>4. courses'[r] = None
  BY <1>3 DEF CatalogueOK, CatalogueOf, CoursesOf
<1>5. CatalogueOf(r)'
  BY <1>2, <1>4 DEF CatalogueOf, CoursesOf, EventsOf, Orphan, Is, CourseKinds
<1> QED
  BY <1>3, <1>5, SameCatalogue

(* The first step of a request about the catalogue.                        *)
LEMMA BeginCatalogue ==
  ASSUME Well, CatalogueOK, NEW r \in Requests, NEW l \in PCs \ {"idle", "log"}, NEW n \in Local,
         Asked(r, l, n), n.kind \in CourseKinds,
         n.kind \in {"editCourse", "deleteCourse", "deleteCourseAPI"} =>
            n.course \in Requests /\ courses[n.course] # None,
         n.kind = "createCourse" /\ l \in {"findSchoolOf", "insertCourse"} => n.academic,
         (KindOK(r) /\ Filled(r))'
  PROVE  Well' /\ CatalogueOK' /\ StepOf(r, CourseKinds)
<1>. l \in PCs \ {"idle"}
  OBVIOUS
<1>1. /\ pc[r] = "idle" /\ pc'[r] = l /\ local[r] = Blank /\ local'[r] = n /\ audit'[r] = {}
      /\ StepOf(r, CourseKinds) /\ Well'
  BY Beginning
<1>2. UNCHANGED <<courses, events>>
  BY DEF Asked, catalogue
<1>3. ~Made(r) /\ ~Is(r, "editCourse")
  BY <1>1, BlankLocal, RosterAssumption DEF Made, Is, Kinds
<1>4. courses'[r] = None
  BY <1>2, <1>3 DEF CatalogueOK, CatalogueOf, CoursesOf
<1>5. n.kind \in {"editCourse", "deleteCourse", "deleteCourseAPI"} => Made(n.course)'
  <2> SUFFICES ASSUME n.kind \in {"editCourse", "deleteCourse", "deleteCourseAPI"} PROVE Made(n.course)'
    OBVIOUS
  <2>1. Made(n.course) /\ n.course # r
    BY <1>3 DEF CatalogueOK, CatalogueOf, CoursesOf
  <2> QED
    BY <1>1, <2>1 DEF Made, StepOf, Moves, Actors
<1>6. CoursesOf(r)'
  BY <1>1, <1>4, <1>5 DEF CoursesOf, Is
<1>7. EventsOf(r)'
  BY <1>1, <1>4 DEF EventsOf, Is
<1>8. CatalogueOf(r)'
  BY <1>4, <1>6, <1>7 DEF CatalogueOf, Orphan
<1> QED
  BY <1>1, <1>2, <1>3, <1>8, SameCatalogue

(* A step that changes neither rows of courses nor events.                 *)
LEMMA SteadyCatalogue ==
  ASSUME Well, CatalogueOK, NEW r \in Requests, NEW l \in PCs \ {"idle"}, Goto(r, l),
         UNCHANGED <<staff, courses, events, people, local>>,
         school' \in {"none", "active", "deleted"},
         pc[r] \in CourseLabels \ {"insertSchool"},
         audit' \in [Requests -> SUBSET (Actors \cup {"school"})],
         \A q \in Requests \ {r} : audit'[q] = audit[q],
         l \in Making => l = "insertCourse" /\ pc[r] = "findSchoolOf",
         l = "insertSchool" => pc[r] = "findSchool",
         Is(r, "deleteCourse") => l # "log",
         Is(r, "deleteCourse") => \A c \in audit'[r] : c \in audit[r] \/ (Made(c) /\ courses[c] = None),
         (KindOK(r) /\ Filled(r))'
  PROVE  Well' /\ CatalogueOK' /\ StepOf(r, CourseKinds)
<1>1. local[r].kind \in CourseKinds /\ pc[r] \notin {"idle", "done", "failed"}
  BY DEF Well, KindOK, CourseLabels
<1>2. /\ pc' \in [Actors -> PCs] /\ pc'[r] = l /\ local' \in [Actors -> Local] /\ local'[r] = local[r]
      /\ Moves(r) /\ StepOf(r, CourseKinds)
  BY <1>1, Going
<1>3. TypeOK'
  BY <1>2 DEF Well, TypeOK, staff, people
<1>4. Well'
  BY <1>2, <1>3, OthersWell DEF people
<1>5. Made(r) => Made(r)'
  BY <1>2 DEF Made, Making
<1>6. \A c : Made(c) => Made(c)'
  BY <1>2, <1>5 DEF Made, StepOf, Moves, Actors
<1>7. CatalogueOf(r)
  BY DEF CatalogueOK
<1>8. CoursesOf(r)'
  <2>1. courses'[r] # None => Made(r)'
    BY <1>5, <1>7 DEF CatalogueOf, CoursesOf
  <2>2. l = "insertSchool" => courses'[r] = None
    <3> SUFFICES ASSUME l = "insertSchool" PROVE courses[r] = None
      OBVIOUS
    <3>1. local[r].kind = "createSchoolAPI"
      BY DEF Well, KindOK, Is
    <3> QED
      BY <1>7, <3>1 DEF CatalogueOf, CoursesOf, Made
  <2>3. local'[r].kind \in {"editCourse", "deleteCourse", "deleteCourseAPI"} => Made(local[r].course)'
    BY <1>2, <1>6, <1>7 DEF CatalogueOf, CoursesOf, Made
  <2>4. Is(r, "deleteCourse") => \A c \in audit'[r] : Made(c)' /\ courses'[c] = None
    BY <1>6, <1>7 DEF CatalogueOf, CoursesOf
  <2> QED
    BY <1>2, <2>1, <2>2, <2>3, <2>4 DEF CoursesOf, Is
<1>9. EventsOf(r)'
  BY <1>2, <1>7, FoundKept, EditedKept DEF CatalogueOf, EventsOf, Is, Making
<1>10. ~Orphan(r)'
  BY <1>1, <1>7 DEF CatalogueOf, Orphan
<1>11. CatalogueOf(r)'
  BY <1>8, <1>9, <1>10 DEF CatalogueOf
<1> QED
  BY <1>2, <1>4, <1>5, <1>11, SameCatalogue

LEMMA CreateSchoolKeeps ==
  ASSUME Well, CatalogueOK, NEW r \in Requests, CreateSchool(r)
  PROVE  Well' /\ CatalogueOK' /\ StepOf(r, CourseKinds)
<1>1. PICK l \in {"insertSchool", "createCourses"} : Begin(r, "createSchool", l)
  BY DEF CreateSchool
<1>2. local[r] = Blank
  BY <1>1 DEF Begin, Well, KindOK
<1> DEFINE n == [Blank EXCEPT !.kind = "createSchool"]
<1>3. Asked(r, l, n)
  BY <1>1, <1>2 DEF Asked, Begin, CreateSchool
<1>4. n \in Local /\ n.kind = "createSchool" /\ n.kind \in CourseKinds
  BY DEF Blank, Local, Kinds, CourseKinds
<1> HIDE DEF n
<1>. l \in PCs \ {"idle"} /\ l \in PCs \ {"idle", "log"}
  BY DEF PCs
<1>5. pc'[r] = l /\ local'[r] = n
  BY <1>3, <1>4, Beginning
<1>6. (KindOK(r) /\ Filled(r))'
  BY <1>4, <1>5 DEF KindOK, Filled, Is, StaffLabels, CourseLabels, StudentLabels, CourseKinds
<1> QED
  BY <1>3, <1>4, <1>6, BeginCatalogue

LEMMA CreateSchoolAPIKeeps ==
  ASSUME Well, CatalogueOK, NEW r \in Requests, CreateSchoolAPI(r)
  PROVE  Well' /\ CatalogueOK' /\ StepOf(r, CourseKinds)
<1>1. local[r] = Blank
  BY DEF CreateSchoolAPI, Begin, Well, KindOK
<1> DEFINE n == [Blank EXCEPT !.kind = "createSchoolAPI"]
<1>2. Asked(r, "findSchool", n)
  BY <1>1 DEF Asked, Begin, CreateSchoolAPI
<1>3. n \in Local /\ n.kind = "createSchoolAPI" /\ n.kind \in CourseKinds
  BY DEF Blank, Local, Kinds, CourseKinds
<1> HIDE DEF n
<1>. "findSchool" \in PCs \ {"idle"} /\ "findSchool" \in PCs \ {"idle", "log"}
  BY DEF PCs
<1>4. pc'[r] = "findSchool" /\ local'[r] = n
  BY <1>2, <1>3, Beginning
<1>5. (KindOK(r) /\ Filled(r))'
  BY <1>3, <1>4 DEF KindOK, Filled, Is, StaffLabels, CourseLabels, StudentLabels, CourseKinds
<1> QED
  BY <1>2, <1>3, <1>5, BeginCatalogue

LEMMA DeleteSchoolKeeps ==
  ASSUME Well, CatalogueOK, NEW r \in Requests, DeleteSchool(r)
  PROVE  Well' /\ CatalogueOK' /\ StepOf(r, CourseKinds)
<1>1. local[r] = Blank
  BY DEF DeleteSchool, Begin, Well, KindOK
<1> DEFINE n == [Blank EXCEPT !.kind = "deleteSchool"]
<1>2. Asked(r, "deleteSchool", n)
  BY <1>1 DEF Asked, Begin, DeleteSchool
<1>3. n \in Local /\ n.kind = "deleteSchool" /\ n.kind \in CourseKinds
  BY DEF Blank, Local, Kinds, CourseKinds
<1> HIDE DEF n
<1>. "deleteSchool" \in PCs \ {"idle"} /\ "deleteSchool" \in PCs \ {"idle", "log"}
  BY DEF PCs
<1>4. pc'[r] = "deleteSchool" /\ local'[r] = n
  BY <1>2, <1>3, Beginning
<1>5. (KindOK(r) /\ Filled(r))'
  BY <1>3, <1>4 DEF KindOK, Filled, Is, StaffLabels, CourseLabels, StudentLabels, CourseKinds
<1> QED
  BY <1>2, <1>3, <1>5, BeginCatalogue

LEMMA CreateCourseKeeps ==
  ASSUME Well, CatalogueOK, NEW r \in Requests, CreateCourse(r)
  PROVE  Well' /\ CatalogueOK' /\ StepOf(r, CourseKinds)
<1>1. PICK name \in Names, academic \in BOOLEAN :
        /\ Begin(r, "createCourse", IF academic THEN "findSchoolOf" ELSE "createEvent")
        /\ local' = [local EXCEPT ![r] = [@ EXCEPT !.kind = "createCourse", !.name = name,
                                                   !.academic = academic]]
  BY DEF CreateCourse
<1> DEFINE l == IF academic THEN "findSchoolOf" ELSE "createEvent"
           n == [Blank EXCEPT !.kind = "createCourse", !.name = name, !.academic = academic]
<1>2. local[r] = Blank
  BY <1>1 DEF Begin, Well, KindOK
<1>3. local' = [local EXCEPT ![r] = n]
  BY <1>1, <1>2
<1>4. /\ n \in Local /\ n.kind = "createCourse" /\ n.kind \in CourseKinds
      /\ n.name = name /\ n.academic = academic
  BY DEF Blank, Local, Kinds, CourseKinds
<1>5. l \in {"findSchoolOf", "createEvent"} /\ (l = "findSchoolOf" => academic) /\ Begin(r, "createCourse", l)
  BY <1>1
<1> HIDE DEF n, l
<1>6. Asked(r, l, n)
  BY <1>3, <1>5 DEF Asked, Begin, CreateCourse
<1>. l \in PCs \ {"idle"} /\ l \in PCs \ {"idle", "log"}
  BY <1>5 DEF PCs
<1>7. pc'[r] = l /\ local'[r] = n
  BY <1>4, <1>6, Beginning
<1>8. (KindOK(r) /\ Filled(r))'
  BY <1>4, <1>5, <1>7 DEF KindOK, Filled, Is, StaffLabels, CourseLabels, StudentLabels, CourseKinds
<1> QED
  BY <1>4, <1>5, <1>6, <1>8, BeginCatalogue

LEMMA CreateCourseAPIKeeps ==
  ASSUME Well, CatalogueOK, NEW r \in Requests, CreateCourseAPI(r)
  PROVE  Well' /\ CatalogueOK' /\ StepOf(r, CourseKinds)
<1>1. PICK name \in Names :
        local' = [local EXCEPT ![r] = [@ EXCEPT !.kind = "createCourseAPI", !.name = name]]
  BY DEF CreateCourseAPI
<1> DEFINE n == [Blank EXCEPT !.kind = "createCourseAPI", !.name = name]
<1>2. local[r] = Blank
  BY DEF CreateCourseAPI, Begin, Well, KindOK
<1>3. local' = [local EXCEPT ![r] = n]
  BY <1>1, <1>2
<1>4. n \in Local /\ n.kind = "createCourseAPI" /\ n.kind \in CourseKinds /\ n.name = name
  BY DEF Blank, Local, Kinds, CourseKinds
<1> HIDE DEF n
<1>5. Asked(r, "findSchoolOf", n)
  BY <1>3 DEF Asked, Begin, CreateCourseAPI
<1>. "findSchoolOf" \in PCs \ {"idle"} /\ "findSchoolOf" \in PCs \ {"idle", "log"}
  BY DEF PCs
<1>6. pc'[r] = "findSchoolOf" /\ local'[r] = n
  BY <1>4, <1>5, Beginning
<1>7. (KindOK(r) /\ Filled(r))'
  BY <1>4, <1>6 DEF KindOK, Filled, Is, StaffLabels, CourseLabels, StudentLabels, CourseKinds
<1> QED
  BY <1>4, <1>5, <1>7, BeginCatalogue

(* An edit or a deletion of a course that is there.                        *)
LEMMA TargetKeeps ==
  ASSUME Well, CatalogueOK, NEW r \in Requests, NEW k \in {"editCourse", "deleteCourse"},
         NEW c \in Requests, NEW academic \in BOOLEAN, NEW new \in Names \cup {None},
         k = "editCourse" => new \in Names, Target(r, k, c, academic, new)
  PROVE  Well' /\ CatalogueOK' /\ StepOf(r, CourseKinds)
<1>1. courses[c] \in Course /\ courses[c] # None
  BY DEF Target, Well, TypeOK
<1> DEFINE l == IF academic THEN "checkOwner" ELSE "findEvent"
           name == courses[c].name
           found == IF courses[c].linked THEN {c} ELSE {}
           n == [Blank EXCEPT !.kind = k, !.course = c, !.academic = academic,
                              !.name = name, !.new = new, !.found = found]
<1>2. name \in Names /\ found \in SUBSET Requests
  BY <1>1 DEF Course
<1>3. local[r] = Blank /\ Begin(r, k, l)
  BY DEF Target, Begin, Well, KindOK
<1>4. local' = [local EXCEPT ![r] = n]
  BY <1>3 DEF Target
<1> HIDE DEF name, found
<1>5. /\ n \in Local /\ n.kind = k /\ n.kind \in CourseKinds
      /\ n.course = c /\ n.new = new
  BY <1>2 DEF Blank, Local, Kinds, CourseKinds
<1> HIDE DEF n
<1>6. Asked(r, l, n) /\ l \in {"checkOwner", "findEvent"}
  BY <1>3, <1>4 DEF Asked, Begin, Target
<1> HIDE DEF l
<1>. l \in PCs \ {"idle"} /\ l \in PCs \ {"idle", "log"}
  BY <1>6 DEF PCs
<1>7. pc'[r] = l /\ local'[r] = n
  BY <1>5, <1>6, Beginning
<1>8. (KindOK(r) /\ Filled(r))'
  BY <1>5, <1>6, <1>7 DEF KindOK, Filled, Is, StaffLabels, CourseLabels, StudentLabels, CourseKinds
<1> QED
  BY <1>1, <1>5, <1>6, <1>8, BeginCatalogue

LEMMA DeleteCourseAPIKeeps ==
  ASSUME Well, CatalogueOK, NEW r \in Requests, DeleteCourseAPI(r)
  PROVE  Well' /\ CatalogueOK' /\ StepOf(r, CourseKinds)
<1>1. PICK c \in Requests :
        /\ courses[c] # None
        /\ local' = [local EXCEPT ![r] = [@ EXCEPT !.kind = "deleteCourseAPI", !.course = c]]
  BY DEF DeleteCourseAPI
<1> DEFINE n == [Blank EXCEPT !.kind = "deleteCourseAPI", !.course = c]
<1>2. local[r] = Blank
  BY DEF DeleteCourseAPI, Begin, Well, KindOK
<1>3. local' = [local EXCEPT ![r] = n]
  BY <1>1, <1>2
<1>4. n \in Local /\ n.kind = "deleteCourseAPI" /\ n.kind \in CourseKinds /\ n.course = c
  BY DEF Blank, Local, Kinds, CourseKinds
<1> HIDE DEF n
<1>5. Asked(r, "writeCourse", n)
  BY <1>3 DEF Asked, Begin, DeleteCourseAPI
<1>. "writeCourse" \in PCs \ {"idle"} /\ "writeCourse" \in PCs \ {"idle", "log"}
  BY DEF PCs
<1>6. pc'[r] = "writeCourse" /\ local'[r] = n
  BY <1>4, <1>5, Beginning
<1>7. (KindOK(r) /\ Filled(r))'
  BY <1>4, <1>6 DEF KindOK, Filled, Is, StaffLabels, CourseLabels, StudentLabels, CourseKinds
<1> QED
  BY <1>1, <1>4, <1>5, <1>7, BeginCatalogue

LEMMA CreateOrReactivateSchoolKeeps ==
  ASSUME Well, CatalogueOK, NEW r \in Requests, CreateOrReactivateSchool(r)
  PROVE  Well' /\ CatalogueOK' /\ StepOf(r, CourseKinds)
<1>1. /\ pc[r] = "findSchool" /\ local[r].kind = "createSchoolAPI"
      /\ UNCHANGED <<staff, courses, events, people, local>> /\ UNCHANGED <<school, audit>>
  BY DEF CreateOrReactivateSchool, catalogue, Well, KindOK, Is
<1>2. PICK l \in {"failed", "reactivate", "insertSchool"} : Goto(r, l)
  BY DEF CreateOrReactivateSchool, Well, TypeOK
<1>. l \in PCs \ {"idle"} /\ "createSchoolAPI" \in CourseKinds /\ pc[r] \in CourseLabels \ {"insertSchool"}
  BY <1>1 DEF PCs, CourseKinds, CourseLabels
<1>3. pc'[r] = l /\ local'[r] = local[r]
  BY <1>1, <1>2, Going
<1>4. (KindOK(r) /\ Filled(r))'
  BY <1>1, <1>3 DEF KindOK, Filled, Is, StaffLabels, CourseLabels, StudentLabels, CourseKinds
<1>5. school' \in {"none", "active", "deleted"} /\ audit' \in [Requests -> SUBSET (Actors \cup {"school"})]
  BY <1>1 DEF Well, TypeOK
<1>6. l \notin Making /\ ~Is(r, "deleteCourse")
  BY <1>1 DEF Making, Is
<1> QED
  BY <1>1, <1>2, <1>4, <1>5, <1>6, SteadyCatalogue

LEMMA ReactivateKeeps ==
  ASSUME Well, CatalogueOK, NEW r \in Requests, Reactivate(r) \/ FlagDeleted(r)
  PROVE  Well' /\ CatalogueOK' /\ StepOf(r, CourseKinds)
<1>1. /\ pc[r] \in {"reactivate", "deleteSchool"} /\ local[r].kind \in {"createSchoolAPI", "deleteSchool"}
      /\ UNCHANGED <<staff, courses, events, people, local>> /\ audit' = audit
      /\ school' \in {"none", "active", "deleted"} /\ Goto(r, "log")
  BY DEF Reactivate, FlagDeleted, catalogue, Well, KindOK, Is
<1>. "log" \in PCs \ {"idle"} /\ local[r].kind \in CourseKinds /\ pc[r] \in CourseLabels \ {"insertSchool"}
  BY <1>1 DEF PCs, CourseKinds, CourseLabels
<1>2. pc'[r] = "log" /\ local'[r] = local[r]
  BY <1>1, Going
<1>3. (KindOK(r) /\ Filled(r))'
  BY <1>1, <1>2 DEF KindOK, Filled, Is, StaffLabels, CourseLabels, StudentLabels, CourseKinds
<1>4. audit' \in [Requests -> SUBSET (Actors \cup {"school"})]
  BY <1>1 DEF Well, TypeOK
<1>5. "log" \notin Making /\ ~Is(r, "deleteCourse")
  BY <1>1 DEF Making, Is
<1> QED
  BY <1>1, <1>3, <1>4, <1>5, SteadyCatalogue

LEMMA LogCatalogueKeeps ==
  ASSUME Well, CatalogueOK, NEW r \in Requests, LogCatalogue(r)
  PROVE  Well' /\ CatalogueOK' /\ StepOf(r, CourseKinds)
<1>1. /\ pc[r] = "log" /\ local[r].kind \in CourseKinds
      /\ UNCHANGED <<staff, courses, events, people, local>> /\ school' = school
  BY DEF LogCatalogue, catalogue, Well, KindOK, CourseLabels
<1>2. Is(r, "deleteCourse") => /\ local[r].course \in Requests /\ courses[local[r].course] = None
                               /\ Made(local[r].course)
  BY <1>1 DEF CatalogueOK, CatalogueOf, CoursesOf, Well, Filled, Is
<1>3. PICK T \in SUBSET (Actors \cup {"school"}) :
        /\ Log(r, T, "done")
        /\ Is(r, "deleteCourse") => T = {local[r].course}
  <2> DEFINE T == CASE local[r].kind \in {"createSchool", "createSchoolAPI", "deleteSchool"} -> {"school"}
                    [] Is(r, "createCourse") -> {r}
                    [] Is(r, "deleteCourse") -> {local[r].course}
                    [] OTHER -> {}
  <2>1. Log(r, T, "done")
    BY DEF LogCatalogue
  <2>2. Is(r, "deleteCourse") => T = {local[r].course}
    BY DEF Is
  <2>3. T \in SUBSET (Actors \cup {"school"})
    BY <1>2 DEF Is, Actors
  <2> HIDE DEF T
  <2> QED
    BY <2>1, <2>2, <2>3
<1>4. /\ Goto(r, "done") /\ audit' \in [Requests -> SUBSET (Actors \cup {"school"})]
      /\ \A q \in Requests \ {r} : audit'[q] = audit[q]
      /\ audit'[r] \subseteq audit[r] \cup T
  BY <1>3, Logging
<1>. "done" \in PCs \ {"idle"} /\ pc[r] \in CourseLabels \ {"insertSchool"}
  BY <1>1 DEF PCs, CourseLabels
<1>5. pc'[r] = "done" /\ local'[r] = local[r]
  BY <1>1, <1>4, Going
<1>6. (KindOK(r) /\ Filled(r))'
  <2>1. Filled(r)
    BY DEF Well
  <2> QED
    BY <1>5, <2>1 DEF KindOK, Filled, Is, StaffLabels, CourseLabels, StudentLabels
<1>7. Is(r, "deleteCourse") => \A c \in audit'[r] : c \in audit[r] \/ (Made(c) /\ courses[c] = None)
  BY <1>2, <1>3, <1>4
<1>8. "done" \notin Making /\ school' \in {"none", "active", "deleted"}
  BY <1>1 DEF Making, Well, TypeOK
<1> QED
  BY <1>1, <1>4, <1>6, <1>7, <1>8, SteadyCatalogue

LEMMA GetSchoolKeeps ==
  ASSUME Well, CatalogueOK, NEW r \in Requests, GetSchool(r)
  PROVE  Well' /\ CatalogueOK' /\ StepOf(r, CourseKinds)
<1>1. /\ pc[r] = "findSchoolOf" /\ local[r].kind \in {"createCourse", "createCourseAPI"}
      /\ UNCHANGED <<staff, courses, events, people, local>> /\ UNCHANGED <<school, audit>>
      /\ Filled(r)
  BY DEF GetSchool, catalogue, Well, KindOK
<1>2. PICK l \in {"failed", "insertCourse"} : Goto(r, l)
  BY DEF GetSchool
<1>. l \in PCs \ {"idle"} /\ local[r].kind \in CourseKinds /\ pc[r] \in CourseLabels \ {"insertSchool"}
  BY <1>1 DEF PCs, CourseKinds, CourseLabels
<1>3. pc'[r] = l /\ local'[r] = local[r]
  BY <1>1, <1>2, Going
<1>4. (KindOK(r) /\ Filled(r))'
  BY <1>1, <1>3 DEF KindOK, Filled, Is, StaffLabels, CourseLabels, StudentLabels, CourseKinds
<1>5. school' \in {"none", "active", "deleted"} /\ audit' \in [Requests -> SUBSET (Actors \cup {"school"})]
  BY <1>1 DEF Well, TypeOK
<1>6. (l \in Making => l = "insertCourse" /\ pc[r] = "findSchoolOf") /\ ~Is(r, "deleteCourse")
  BY <1>1 DEF Making, Is
<1> QED
  BY <1>1, <1>2, <1>4, <1>5, <1>6, SteadyCatalogue

LEMMA CheckOwnerKeeps ==
  ASSUME Well, CatalogueOK, NEW r \in Requests, CheckOwner(r)
  PROVE  Well' /\ CatalogueOK' /\ StepOf(r, CourseKinds)
<1>1. /\ pc[r] = "checkOwner" /\ local[r].kind \in {"editCourse", "deleteCourse"}
      /\ UNCHANGED <<staff, courses, events, people, local>> /\ UNCHANGED <<school, audit>>
      /\ Filled(r)
  BY DEF CheckOwner, catalogue, Well, KindOK
<1>2. PICK l \in {"failed", "writeCourse"} : Goto(r, l)
  BY DEF CheckOwner
<1>. l \in PCs \ {"idle"} /\ local[r].kind \in CourseKinds /\ pc[r] \in CourseLabels \ {"insertSchool"}
  BY <1>1 DEF PCs, CourseKinds, CourseLabels
<1>3. pc'[r] = l /\ local'[r] = local[r]
  BY <1>1, <1>2, Going
<1>4. (KindOK(r) /\ Filled(r))'
  BY <1>1, <1>3 DEF KindOK, Filled, Is, StaffLabels, CourseLabels, StudentLabels, CourseKinds
<1>5. school' \in {"none", "active", "deleted"} /\ audit' \in [Requests -> SUBSET (Actors \cup {"school"})]
  BY <1>1 DEF Well, TypeOK
<1>6. l \notin Making
  BY DEF Making
<1> QED
  BY <1>1, <1>2, <1>4, <1>5, <1>6, SteadyCatalogue

(* The rows that a request may insert, with their courses.                 *)
LEMMA GetCreateCourseFromArrayKeeps ==
  ASSUME Well, CatalogueOK, NEW r \in Requests, GetCreateCourseFromArray(r)
  PROVE  Well' /\ CatalogueOK' /\ StepOf(r, CourseKinds)
<1>1. /\ pc[r] = "createCourses" /\ local[r].kind = "createSchool" /\ local[r].kind \in CourseKinds
      /\ UNCHANGED <<staff, school, events, people, audit>> /\ Goto(r, "insertSchool")
      /\ local' = [local EXCEPT ![r].course = r]
  BY DEF GetCreateCourseFromArray, Well, KindOK, Is, CourseKinds
<1>2. PICK row \in Course : row.linked = FALSE /\ courses' = [courses EXCEPT ![r] = row]
  BY DEF GetCreateCourseFromArray, Course
<1> DEFINE o == local[r]
           n == [o EXCEPT !.course = r]
<1>3. o \in Local /\ r \in Actors
  BY DEF Well, TypeOK, Actors
<1>4. local' = [local EXCEPT ![r] = n]
  BY <1>1
<1> HIDE DEF o
<1>5. n \in Local /\ n.kind = o.kind /\ n.event = o.event /\ n.course = r
  BY <1>3 DEF Local
<1> HIDE DEF n
<1>6. Learned(r, "insertSchool", n) /\ o = local[r]
  BY <1>1, <1>4 DEF Learned, o
<1>. "insertSchool" \in PCs \ {"idle"}
  BY DEF PCs
<1>7. /\ pc' \in [Actors -> PCs] /\ pc'[r] = "insertSchool" /\ local' \in [Actors -> Local]
      /\ local'[r] = n /\ StepOf(r, CourseKinds)
  BY <1>1, <1>5, <1>6, Learning
<1>8. row # None
  BY RowsAssumption
<1>9. /\ courses' \in [Requests -> Course \cup {None}] /\ courses'[r] = row
      /\ \A c \in Requests \ {r} : courses'[c] = courses[c]
  BY <1>2 DEF Well, TypeOK
<1>10. TypeOK'
  <2>1. \A e \in enrolments' : courses'[e.course] # None /\ users'[e.student].pf
    BY <1>1, <1>8, <1>9 DEF Well, TypeOK, people, Enrolment
  <2> QED
    BY <1>1, <1>7, <1>9, <2>1 DEF Well, TypeOK, staff, people
<1>11. (KindOK(r) /\ Filled(r))'
  BY <1>1, <1>5, <1>6, <1>7 DEF KindOK, Filled, Is, StaffLabels, CourseLabels, StudentLabels, CourseKinds
<1>12. Well'
  BY <1>1, <1>7, <1>10, <1>11, OthersWell DEF StepOf, people
<1>13. Made(r)' /\ ~Made(r)
  BY <1>1, <1>5, <1>6, <1>7 DEF Made, Making
<1>14. CatalogueOf(r)'
  BY <1>1, <1>5, <1>6, <1>7, <1>13 DEF CatalogueOf, CoursesOf, EventsOf, Is
<1>15. ~Is(r, "editCourse")
  BY <1>1 DEF Is
<1> QED
  BY <1>1, <1>7, <1>9, <1>12, <1>13, <1>14, <1>15, OthersCatalogue

LEMMA InsertSchoolKeeps ==
  ASSUME Well, CatalogueOK, NEW r \in Requests, InsertSchool(r)
  PROVE  Well' /\ CatalogueOK' /\ StepOf(r, CourseKinds)
<1>1. /\ pc[r] = "insertSchool" /\ local[r].kind \in {"createSchool", "createSchoolAPI"}
      /\ local[r].kind \in CourseKinds
      /\ UNCHANGED <<staff, events, people, audit, local>>
  BY DEF InsertSchool, Well, KindOK, CourseKinds
<1>2. PICK l \in {"failed", "log"} :
        /\ Goto(r, l) /\ school' \in {"none", "active", "deleted"}
        /\ \/ l = "failed" /\ UNCHANGED courses
           \/ /\ courses' = IF courses[r] = None THEN courses
                            ELSE [courses EXCEPT ![r].linked = TRUE]
  BY DEF InsertSchool, Well, TypeOK
<1>. l \in PCs \ {"idle"}
  BY DEF PCs
<1>3. /\ pc' \in [Actors -> PCs] /\ pc'[r] = l /\ local' \in [Actors -> Local]
      /\ local'[r] = local[r] /\ StepOf(r, CourseKinds)
  BY <1>1, <1>2, Going
<1>4. /\ courses' \in [Requests -> Course \cup {None}]
      /\ \A c \in Requests \ {r} : courses'[c] = courses[c]
      /\ (courses'[r] = None) <=> (courses[r] = None)
      /\ l = "failed" \/ courses'[r] = None \/ courses'[r].linked
  <2>1. CASE l = "failed" /\ UNCHANGED courses
    BY <2>1 DEF Well, TypeOK
  <2>2. CASE courses[r] = None /\ courses' = courses
    BY <2>2 DEF Well, TypeOK
  <2>3. CASE courses[r] # None /\ courses' = [courses EXCEPT ![r].linked = TRUE]
    <3> DEFINE row == [courses[r] EXCEPT !.linked = TRUE]
    <3>1. courses[r] \in Course
      BY <2>3 DEF Well, TypeOK
    <3>2. row \in Course /\ row.linked
      BY <3>1 DEF Course
    <3>3. row # None
      BY <3>2, RowsAssumption
    <3>4. courses' = [courses EXCEPT ![r] = row]
      BY <2>3
    <3> HIDE DEF row
    <3>5. /\ courses' \in [Requests -> Course \cup {None}] /\ courses'[r] = row
          /\ \A c \in Requests \ {r} : courses'[c] = courses[c]
      BY <3>2, <3>4 DEF Well, TypeOK
    <3> QED
      BY <2>3, <3>2, <3>3, <3>5
  <2> QED
    BY <1>2, <2>1, <2>2, <2>3
<1>5. TypeOK'
  <2>1. \A e \in enrolments' : courses'[e.course] # None /\ users'[e.student].pf
    BY <1>1, <1>4 DEF Well, TypeOK, people, Enrolment
  <2> QED
    BY <1>1, <1>2, <1>3, <1>4, <2>1 DEF Well, TypeOK, staff, people
<1>6. (KindOK(r) /\ Filled(r))'
  BY <1>1, <1>3 DEF KindOK, Filled, Is, StaffLabels, CourseLabels, StudentLabels, CourseKinds
<1>7. Well'
  BY <1>1, <1>3, <1>5, <1>6, OthersWell DEF StepOf, people
<1>8. Made(r) => Made(r)'
  BY <1>3 DEF Made, Making
<1>9. courses'[r] # None => Made(r)' /\ Is(r, "createSchool")'
  BY <1>1, <1>3, <1>4, <1>8 DEF CatalogueOK, CatalogueOf, CoursesOf, Made, Is
<1>10. CatalogueOf(r)'
  BY <1>1, <1>3, <1>4, <1>9 DEF CatalogueOf, CoursesOf, EventsOf, Orphan, Is
<1>11. ~Is(r, "editCourse")
  BY <1>1 DEF Is
<1> QED
  BY <1>1, <1>3, <1>4, <1>7, <1>8, <1>10, <1>11, OthersCatalogue

LEMMA CreateInstEventByCourseKeeps ==
  ASSUME Well, CatalogueOK, NEW r \in Requests, CreateInstEventByCourse(r)
  PROVE  Well' /\ CatalogueOK' /\ StepOf(r, CourseKinds)
<1>1. /\ pc[r] = "createEvent" /\ local[r].kind = "createCourse" /\ local[r].kind \in CourseKinds
      /\ local[r].name \in Names
      /\ UNCHANGED <<staff, school, courses, people, audit, local>> /\ Goto(r, "findSchoolOf")
      /\ events' = [events EXCEPT ![r] = local[r].name]
  BY DEF CreateInstEventByCourse, Well, KindOK, Filled, Is, CourseKinds
<1>. "findSchoolOf" \in PCs \ {"idle"}
  BY DEF PCs
<1>2. /\ pc' \in [Actors -> PCs] /\ pc'[r] = "findSchoolOf" /\ local' \in [Actors -> Local]
      /\ local'[r] = local[r] /\ StepOf(r, CourseKinds)
  BY <1>1, Going
<1>3. /\ events' \in [Requests -> Names \cup {None}] /\ events'[r] = local[r].name
      /\ \A c \in Requests \ {r} : events'[c] = events[c]
  BY <1>1 DEF Well, TypeOK
<1>4. TypeOK'
  BY <1>1, <1>2, <1>3 DEF Well, TypeOK, staff, people
<1>5. (KindOK(r) /\ Filled(r))'
  BY <1>1, <1>2 DEF KindOK, Filled, Is, StaffLabels, CourseLabels, StudentLabels, CourseKinds
<1>6. Well'
  BY <1>1, <1>2, <1>4, <1>5, OthersWell DEF StepOf, people
<1>7. ~Made(r) /\ courses'[r] = None
  BY <1>1 DEF CatalogueOK, CatalogueOf, CoursesOf, Made, Making
<1>8. CatalogueOf(r)'
  BY <1>1, <1>2, <1>3, <1>7 DEF CatalogueOf, CoursesOf, EventsOf, Orphan, Is
<1>9. ~Is(r, "editCourse")
  BY <1>1 DEF Is
<1> QED
  BY <1>1, <1>2, <1>3, <1>6, <1>7, <1>8, <1>9, OthersCatalogue

LEMMA InsertCourseKeeps ==
  ASSUME Well, CatalogueOK, NEW r \in Requests, InsertCourse(r)
  PROVE  Well' /\ CatalogueOK' /\ StepOf(r, CourseKinds)
<1> DEFINE row == [name |-> local[r].name, linked |-> TRUE, academic |-> local[r].academic]
<1>1. /\ pc[r] = "insertCourse" /\ local[r].kind \in {"createCourse", "createCourseAPI"}
      /\ local[r].kind \in CourseKinds /\ local[r].name \in Names
      /\ UNCHANGED <<staff, school, events, people, audit, local>> /\ Goto(r, "log")
      /\ courses' = [courses EXCEPT ![r] = row]
  BY DEF InsertCourse, Well, KindOK, Filled, CourseKinds
<1>2. local[r] \in Local /\ r \in Actors
  BY DEF Well, TypeOK, Actors
<1>3. row \in Course /\ row.linked /\ row.name = local[r].name /\ row.academic = local[r].academic
  BY <1>1, <1>2 DEF Course, Local
<1> HIDE DEF row
<1>. "log" \in PCs \ {"idle"}
  BY DEF PCs
<1>4. /\ pc' \in [Actors -> PCs] /\ pc'[r] = "log" /\ local' \in [Actors -> Local]
      /\ local'[r] = local[r] /\ StepOf(r, CourseKinds)
  BY <1>1, Going
<1>5. row # None
  BY <1>3, RowsAssumption
<1>6. /\ courses' \in [Requests -> Course \cup {None}] /\ courses'[r] = row
      /\ \A c \in Requests \ {r} : courses'[c] = courses[c]
  BY <1>1, <1>3 DEF Well, TypeOK
<1>7. TypeOK'
  <2>1. \A e \in enrolments' : courses'[e.course] # None /\ users'[e.student].pf
    BY <1>1, <1>5, <1>6 DEF Well, TypeOK, people, Enrolment
  <2> QED
    BY <1>1, <1>4, <1>6, <2>1 DEF Well, TypeOK, staff, people
<1>8. (KindOK(r) /\ Filled(r))'
  BY <1>1, <1>4 DEF KindOK, Filled, Is, StaffLabels, CourseLabels, StudentLabels, CourseKinds
<1>9. Well'
  BY <1>1, <1>4, <1>7, <1>8, OthersWell DEF StepOf, people
<1>10. Made(r)' /\ ~Made(r)
  BY <1>1, <1>4 DEF Made, Making
<1>11. EventsOf(r)'
  <2>1. EventsOf(r) /\ (Found => Found')
    BY <1>4, FoundKept DEF CatalogueOK, CatalogueOf
  <2>2. Is(r, "createCourse") /\ ~local[r].academic => Found \/ events[r] = local[r].name
    BY <1>1, <2>1 DEF EventsOf
  <2> QED
    BY <1>1, <1>3, <1>4, <1>6, <2>1, <2>2 DEF EventsOf, Is
<1>12. CatalogueOf(r)'
  BY <1>1, <1>3, <1>4, <1>6, <1>10, <1>11 DEF CatalogueOf, CoursesOf, Orphan, Is
<1>13. ~Is(r, "editCourse")
  BY <1>1 DEF Is
<1> QED
  BY <1>1, <1>4, <1>6, <1>9, <1>10, <1>12, <1>13, OthersCatalogue

(* An edit or a deletion: first the event that goes by the name, if any.   *)
LEMMA FindEventKeeps ==
  ASSUME Well, CatalogueOK, NEW r \in Requests, FindEvent(r)
  PROVE  Well' /\ CatalogueOK' /\ StepOf(r, CourseKinds)
<1>1. /\ pc[r] = "findEvent" /\ local[r].kind \in {"editCourse", "deleteCourse"}
      /\ local[r].kind \in CourseKinds
      /\ UNCHANGED <<staff, catalogue, people, audit>>
  BY DEF FindEvent, Well, KindOK, CourseKinds
<1> DEFINE o == local[r]
<1>2. o \in Local /\ r \in Actors /\ o.kind = local[r].kind /\ o.event = local[r].event
  BY DEF Well, TypeOK, Actors
<1>3. PICK l \in {"checkOwner", "changeEvent"}, n \in Local :
        /\ Learned(r, l, n)
        /\ n.kind = o.kind /\ n.course = o.course /\ n.new = o.new
        /\ n.name = o.name /\ n.academic = o.academic
        /\ l = "changeEvent" => n.event \in Requests
        /\ l = "checkOwner" => n.event = o.event
  <2>1. CASE Goto(r, "checkOwner") /\ UNCHANGED local
    <3>1. Learned(r, "checkOwner", o)
      BY <1>2, <2>1 DEF Learned, Well, TypeOK
    <3> QED
      BY <1>2, <3>1
  <2>2. ASSUME NEW e \in Requests, local' = [local EXCEPT ![r].event = e], Goto(r, "changeEvent")
        PROVE  \E n \in Local :
                 /\ Learned(r, "changeEvent", n)
                 /\ n.kind = o.kind /\ n.course = o.course /\ n.new = o.new
                 /\ n.name = o.name /\ n.academic = o.academic /\ n.event \in Requests
    <3> DEFINE n == [o EXCEPT !.event = e]
    <3>1. Learned(r, "changeEvent", n)
      BY <2>2 DEF Learned
    <3> HIDE DEF o
    <3>2. /\ n \in Local /\ n.kind = o.kind /\ n.course = o.course /\ n.new = o.new
          /\ n.name = o.name /\ n.academic = o.academic /\ n.event \in Requests
      BY <1>2 DEF Local
    <3> HIDE DEF n
    <3> QED
      BY <3>1, <3>2
  <2>3. \/ Goto(r, "checkOwner") /\ UNCHANGED local
        \/ \E e \in Requests : local' = [local EXCEPT ![r].event = e] /\ Goto(r, "changeEvent")
    BY DEF FindEvent
  <2> HIDE DEF o
  <2> QED
    BY <2>1, <2>2, <2>3
<1>4. o = local[r]
  OBVIOUS
<1> HIDE DEF o
<1>5. local[r].event # None => n.event # None
  BY <1>3, <1>4, RosterAssumption
<1>. l \in PCs \ {"idle"}
  BY DEF PCs
<1>6. /\ pc' \in [Actors -> PCs] /\ pc'[r] = l /\ local' \in [Actors -> Local]
      /\ local'[r] = n /\ StepOf(r, CourseKinds)
  BY <1>1, <1>3, <1>4, <1>5, Learning
<1>7. TypeOK'
  BY <1>1, <1>6 DEF Well, TypeOK, staff, catalogue, people
<1>8. Filled(r) /\ CatalogueOf(r)
  BY DEF Well, CatalogueOK
<1>9. (KindOK(r) /\ Filled(r))'
  BY <1>1, <1>3, <1>4, <1>6, <1>8
  DEF KindOK, Filled, Is, StaffLabels, CourseLabels, StudentLabels, CourseKinds
<1>10. Well'
  BY <1>1, <1>6, <1>7, <1>9, OthersWell DEF StepOf, people
<1>11. ~Made(r) /\ Made(local[r].course) /\ local[r].course # r /\ courses[r] = None
  BY <1>1, <1>8 DEF CatalogueOf, CoursesOf, Made
<1>12. Made(local[r].course)'
  BY <1>3, <1>4, <1>6, <1>11 DEF Made, StepOf, Moves, Actors
<1>13. UNCHANGED <<courses, events, audit>>
  BY <1>1 DEF catalogue
<1>14. CoursesOf(r)'
  <2>1. Is(r, "deleteCourse")' => \A c \in audit'[r] : Made(c)' /\ courses'[c] = None
    <3> SUFFICES ASSUME Is(r, "deleteCourse")', NEW c \in audit[r] PROVE Made(c)' /\ courses[c] = None
      BY <1>13
    <3>1. Made(c) /\ courses[c] = None /\ c # r
      BY <1>3, <1>4, <1>6, <1>8, <1>11 DEF CatalogueOf, CoursesOf, Is
    <3> QED
      BY <1>6, <3>1 DEF Made, StepOf, Moves, Actors
  <2> QED
    BY <1>6, <1>11, <1>12, <1>13, <2>1 DEF CoursesOf, Is
<1>15. CatalogueOf(r)'
  BY <1>1, <1>3, <1>4, <1>6, <1>11, <1>13, <1>14 DEF CatalogueOf, EventsOf, Orphan, Is
<1>16. local'[r].course = local[r].course
  BY <1>3, <1>4, <1>6
<1> QED
  BY <1>6, <1>10, <1>11, <1>13, <1>15, <1>16, SameCatalogue

(* What the request that edits or deletes keeps, when its locals stay.     *)
LEMMA ChangerKeeps ==
  ASSUME Well, CatalogueOK, NEW r \in Requests, StepOf(r, CourseKinds),
         local[r].kind \in {"editCourse", "deleteCourse", "deleteCourseAPI"}, pc[r] # "log",
         UNCHANGED <<local, audit>>, courses'[r] = None, pc'[r] # "insertSchool",
         Is(r, "deleteCourse") /\ pc'[r] = "log" => courses'[local[r].course] = None,
         \A c \in Requests : courses[c] = None => courses'[c] = None
  PROVE  CatalogueOf(r)' /\ ~Made(r) /\ (Is(r, "editCourse") => local'[r].course = local[r].course)
<1>1. ~Made(r) /\ CatalogueOf(r)
  BY DEF Made, CatalogueOK
<1>2. Made(local[r].course) /\ local[r].course # r
  BY <1>1 DEF CatalogueOf, CoursesOf
<1>3. \A c : Made(c) => Made(c)' /\ c \in Requests
  BY <1>1 DEF Made, StepOf, Moves, Actors
<1>4. Made(local[r].course)'
  BY <1>2, <1>3 DEF Made
<1>5. Is(r, "deleteCourse")' => \A c \in audit'[r] : Made(c)' /\ courses'[c] = None
  BY <1>1, <1>3 DEF CatalogueOf, CoursesOf, Is
<1>6. CoursesOf(r)'
  BY <1>4, <1>5 DEF CoursesOf, Is
<1> QED
  BY <1>1, <1>6 DEF CatalogueOf, EventsOf, Orphan, Is

LEMMA ChangeInstEventByCourseKeeps ==
  ASSUME Well, CatalogueOK, NEW r \in Requests, ChangeInstEventByCourse(r)
  PROVE  Well' /\ CatalogueOK' /\ StepOf(r, CourseKinds)
<1>1. /\ pc[r] = "changeEvent" /\ local[r].kind \in {"editCourse", "deleteCourse"}
      /\ local[r].kind \in CourseKinds /\ local[r].event \in Requests
      /\ UNCHANGED <<staff, school, courses, people, audit, local>>
  BY DEF ChangeInstEventByCourse, Well, KindOK, Filled, CourseKinds
<1>2. PICK l \in {"failed", "checkOwner"} :
        /\ Goto(r, l)
        /\ UNCHANGED events \/ events' = [events EXCEPT ![local[r].event] = local[r].new]
  BY DEF ChangeInstEventByCourse
<1>. l \in PCs \ {"idle"}
  BY DEF PCs
<1>3. /\ pc' \in [Actors -> PCs] /\ pc'[r] = l /\ local' \in [Actors -> Local]
      /\ local'[r] = local[r] /\ StepOf(r, CourseKinds)
  BY <1>1, <1>2, Going
<1>4. local[r].new \in Names \cup {None}
  BY DEF Well, TypeOK, Local, Actors
<1>5. events' \in [Requests -> Names \cup {None}]
  BY <1>2, <1>4 DEF Well, TypeOK
<1>6. TypeOK'
  BY <1>1, <1>3, <1>5 DEF Well, TypeOK, staff, people
<1>7. (KindOK(r) /\ Filled(r))'
  <2>1. Filled(r)
    BY DEF Well
  <2> QED
    BY <1>1, <1>3, <2>1 DEF KindOK, Filled, Is, StaffLabels, CourseLabels, StudentLabels, CourseKinds
<1>8. Well'
  BY <1>1, <1>3, <1>6, <1>7, OthersWell DEF StepOf, people
<1>9. courses'[r] = None
  BY <1>1 DEF CatalogueOK, CatalogueOf, CoursesOf, Made
<1>10. CatalogueOf(r)' /\ ~Made(r) /\ (Is(r, "editCourse") => local'[r].course = local[r].course)
  BY <1>1, <1>3, <1>9, ChangerKeeps
<1>11. Found'
  BY <1>1, <1>3, RosterAssumption DEF Found
<1> QED
  BY <1>1, <1>3, <1>8, <1>10, <1>11, OthersCatalogue

LEMMA UpdateCourseKeeps ==
  ASSUME Well, CatalogueOK, NEW r \in Requests, UpdateCourse(r)
  PROVE  Well' /\ CatalogueOK' /\ StepOf(r, CourseKinds)
<1>1. PICK c \in Requests : c = local[r].course
  BY DEF UpdateCourse, Well, Filled, Is
<1>2. /\ pc[r] = "writeCourse" /\ local[r].kind = "editCourse" /\ local[r].kind \in CourseKinds
      /\ UNCHANGED <<staff, school, events, people, audit, local>>
      /\ local[r].new \in Names
  BY DEF UpdateCourse, Well, Filled, Is, CourseKinds
<1>3. PICK l \in {"failed", "done"} :
        /\ Goto(r, l)
        /\ \/ UNCHANGED courses
           \/ /\ courses[c] # None
              /\ courses' = [courses EXCEPT ![c] = [@ EXCEPT !.name = local[r].new,
                                                             !.academic = local[r].academic]]
  BY <1>1 DEF UpdateCourse
<1>4. Edited(c)
  BY <1>1, <1>2 DEF Edited, Is
<1>5. local[r].academic \in BOOLEAN
  BY DEF Well, TypeOK, Local, Actors
<1>. l \in PCs \ {"idle"}
  BY DEF PCs
<1>6. /\ pc' \in [Actors -> PCs] /\ pc'[r] = l /\ local' \in [Actors -> Local]
      /\ local'[r] = local[r] /\ StepOf(r, CourseKinds)
  BY <1>2, <1>3, Going
<1>7. /\ courses' \in [Requests -> Course \cup {None}]
      /\ \A x \in Requests : /\ courses'[x] = None <=> courses[x] = None
                             /\ courses[x] # None => courses'[x].linked = courses[x].linked
                             /\ courses'[x] = courses[x] \/ x = c
  <2>1. CASE UNCHANGED courses
    BY <2>1 DEF Well, TypeOK
  <2>2. CASE /\ courses[c] # None
             /\ courses' = [courses EXCEPT ![c] = [@ EXCEPT !.name = local[r].new,
                                                            !.academic = local[r].academic]]
    <3> DEFINE o == courses[c]
               row == [o EXCEPT !.name = local[r].new, !.academic = local[r].academic]
    <3>1. o \in Course
      BY <1>2, <2>2 DEF Well, TypeOK
    <3>2. courses' = [courses EXCEPT ![c] = row] /\ o = courses[c]
      BY <2>2
    <3> HIDE DEF o
    <3>3. row \in Course /\ row.linked = o.linked
      BY <1>2, <1>5, <3>1 DEF Course
    <3> HIDE DEF row
    <3>4. row # None
      BY <3>3, RowsAssumption
    <3>5. /\ courses' \in [Requests -> Course \cup {None}] /\ courses'[c] = row
          /\ \A x \in Requests \ {c} : courses'[x] = courses[x]
      BY <1>2, <3>2, <3>3 DEF Well, TypeOK
    <3> QED
      BY <2>2, <3>2, <3>3, <3>4, <3>5
  <2> QED
    BY <1>3, <2>1, <2>2
<1>8. TypeOK'
  <2>1. \A e \in enrolments' : courses'[e.course] # None /\ users'[e.student].pf
    BY <1>2, <1>7 DEF Well, TypeOK, people, Enrolment
  <2> QED
    BY <1>2, <1>6, <1>7, <2>1 DEF Well, TypeOK, staff, people
<1>9. (KindOK(r) /\ Filled(r))'
  <2>1. Filled(r)
    BY DEF Well
  <2> QED
    BY <1>2, <1>6, <2>1 DEF KindOK, Filled, Is, StaffLabels, CourseLabels, StudentLabels, CourseKinds
<1>10. Well'
  BY <1>2, <1>6, <1>8, <1>9, OthersWell DEF StepOf, people
<1>11. courses'[r] = None
  BY <1>2, <1>7 DEF CatalogueOK, CatalogueOf, CoursesOf, Made
<1>12. CatalogueOf(r)' /\ ~Made(r) /\ (Is(r, "editCourse") => local'[r].course = local[r].course)
  BY <1>2, <1>6, <1>7, <1>11, ChangerKeeps DEF Is
<1>13. Edited(c)'
  BY <1>4, <1>6, <1>12, EditedKept
<1> QED
  BY <1>2, <1>6, <1>7, <1>10, <1>12, <1>13, OthersCatalogue

LEMMA RemoveCourseKeeps ==
  ASSUME Well, CatalogueOK, NEW r \in Requests, RemoveCourse(r)
  PROVE  Well' /\ CatalogueOK' /\ StepOf(r, CourseKinds)
<1> DEFINE c == local[r].course
<1>1. /\ pc[r] = "writeCourse" /\ local[r].kind \in {"deleteCourse", "deleteCourseAPI"}
      /\ local[r].kind \in CourseKinds
      /\ UNCHANGED <<staff, school, events, users, audit, local>>
      /\ c \in Requests
  BY DEF RemoveCourse, Well, KindOK, Filled, Is, CourseKinds
<1>2. PICK l \in {"failed", "log"} :
        /\ Goto(r, l)
        /\ \/ l = "failed" /\ UNCHANGED <<courses, enrolments>>
           \/ courses' = [courses EXCEPT ![c] = None] /\ enrolments' = {e \in enrolments : e.course # c}
  BY DEF RemoveCourse
<1>3. c = local[r].course
  OBVIOUS
<1> HIDE DEF c
<1>. l \in PCs \ {"idle"}
  BY DEF PCs
<1>4. /\ pc' \in [Actors -> PCs] /\ pc'[r] = l /\ local' \in [Actors -> Local]
      /\ local'[r] = local[r] /\ StepOf(r, CourseKinds)
  BY <1>1, <1>2, Going
<1>5. /\ courses' \in [Requests -> Course \cup {None}]
      /\ \A x \in Requests : courses'[x] = courses[x] \/ courses'[x] = None
      /\ l = "failed" \/ courses'[c] = None
  BY <1>1, <1>2 DEF Well, TypeOK
<1>6. enrolments' \subseteq Enrolment /\ \A e \in enrolments' : courses'[e.course] # None /\ users'[e.student].pf
  BY <1>1, <1>2 DEF Well, TypeOK, Enrolment
<1>7. TypeOK'
  BY <1>1, <1>4, <1>5, <1>6 DEF Well, TypeOK, staff
<1>8. (KindOK(r) /\ Filled(r))'
  <2>1. Filled(r)
    BY DEF Well
  <2> QED
    BY <1>1, <1>4, <2>1 DEF KindOK, Filled, Is, StaffLabels, CourseLabels, StudentLabels, CourseKinds
<1>9. Well'
  BY <1>1, <1>4, <1>7, <1>8, OthersWell DEF StepOf
<1>10. courses'[r] = None
  BY <1>1, <1>5 DEF CatalogueOK, CatalogueOf, CoursesOf, Made
<1>11. CatalogueOf(r)' /\ ~Made(r) /\ (Is(r, "editCourse") => local'[r].course = local[r].course)
  BY <1>1, <1>3, <1>4, <1>5, <1>10, ChangerKeeps DEF Is
<1> QED
  BY <1>1, <1>4, <1>5, <1>9, <1>11, OthersCatalogue

LEMMA CourseKeeps ==
  ASSUME Well, CatalogueOK, NEW r \in Requests, SchoolStep(r) \/ CourseStep(r)
  PROVE  Well' /\ CatalogueOK' /\ StepOf(r, CourseKinds) /\ UNCHANGED <<staff, users>>
<1>1. CASE SchoolStep(r)
  <2>1. UNCHANGED <<staff, users>>
    BY <1>1 DEF SchoolStep, CreateSchool, GetCreateCourseFromArray, InsertSchool, CreateSchoolAPI,
           CreateOrReactivateSchool, Reactivate, DeleteSchool, FlagDeleted, LogCatalogue, people
  <2> QED
    BY <1>1, <2>1, CreateSchoolKeeps, GetCreateCourseFromArrayKeeps, InsertSchoolKeeps,
       CreateSchoolAPIKeeps, CreateOrReactivateSchoolKeeps, ReactivateKeeps, DeleteSchoolKeeps,
       LogCatalogueKeeps DEF SchoolStep
<1>2. CASE CourseStep(r)
  <2>1. UNCHANGED <<staff, users>>
    BY <1>2 DEF CourseStep, CreateCourse, CreateInstEventByCourse, CreateCourseAPI, GetSchool,
           InsertCourse, EditCourse, DeleteCourse, DeleteCourseAPI, Target, FindEvent,
           ChangeInstEventByCourse, CheckOwner, UpdateCourse, RemoveCourse, people
  <2>2. EditCourse(r) => Well' /\ CatalogueOK' /\ StepOf(r, CourseKinds)
    BY TargetKeeps DEF EditCourse
  <2>3. DeleteCourse(r) => Well' /\ CatalogueOK' /\ StepOf(r, CourseKinds)
    <3> SUFFICES ASSUME NEW c \in Requests, courses[c] # None,
                        Target(r, "deleteCourse", c, courses[c].academic, None)
                 PROVE  Well' /\ CatalogueOK' /\ StepOf(r, CourseKinds)
      BY DEF DeleteCourse
    <3>1. courses[c].academic \in BOOLEAN
      BY DEF Well, TypeOK, Course
    <3> QED
      BY <3>1, TargetKeeps
  <2> QED
    BY <1>2, <2>1, <2>2, <2>3, CreateCourseKeeps, CreateInstEventByCourseKeeps, CreateCourseAPIKeeps,
       GetSchoolKeeps, InsertCourseKeeps, DeleteCourseAPIKeeps, FindEventKeeps,
       ChangeInstEventByCourseKeeps, CheckOwnerKeeps, UpdateCourseKeeps, RemoveCourseKeeps DEF CourseStep
<1> QED
  BY <1>1, <1>2

-----------------------------------------------------------------------------
(* Students.  Who is the school's stays so, but for the causes; the school *)
(* is written to a user row by the associations that read it early.        *)

Removed(s) == \E q \in Requests : Is(q, "disassociate") /\ local[q].student = s /\ local[q].seen # None

Completed(s) == local[s].seen # None /\ ~local[s].seen.tempSchool

Kept(s) == users[s].member \/ users[s].tempSchool \/ Removed(s) \/ Completed(s)

KeptBy(r) ==
  /\ Is(r, "associate") /\ pc[r] \in {"readStudent", "enrol", "tempCourse", "done"} => Kept(local[r].student)
  /\ pc[r] = "connect" /\ local[r].seen.tempSchool => Kept(local[r].student)
  /\ pc[r] = "readUser" => local[r].seen = None

Wrote(r, s) == Early(r, s) /\ pc[r] # "connect"

Twice(s) == \E r, q \in Requests : Early(r, s) /\ Early(q, s) /\ (local[s].seen.tempSchool => r # q)

StudentOK(s) ==
  /\ pc[s] = "clearTemp" => users[s].member \/ Removed(s) \/ Completed(s)
  /\ users[s].tempSchool => \E r \in Requests : Wrote(r, s)
  /\ local[s].seen # None /\ local[s].seen.tempSchool => \E r \in Requests : Wrote(r, s)
  /\ pc[s] = "done" /\ users[s].tempSchool => Twice(s)

PeopleOK == /\ \A r \in Requests : KeptBy(r)
            /\ \A s \in Students : StudentOK(s)

(* What a request of a student's knows, it goes on knowing.                *)
SeenKept(r) ==
  /\ pc[r] # "idle" => local'[r].student = local[r].student
  /\ Is(r, "associate") /\ local[r].seen # None => local'[r].seen = local[r].seen
  /\ Is(r, "disassociate") /\ local[r].seen # None => local'[r].seen # None
  /\ pc'[r] = "connect" => pc[r] = "readUser"

LEMMA RemovedKept ==
  ASSUME Well, NEW r \in Requests, NEW K, StepOf(r, K), SeenKept(r)
  PROVE  \A s : Removed(s) => Removed(s)'
<1> SUFFICES ASSUME NEW s, NEW q \in Requests, Is(q, "disassociate"), local[q].student = s,
                    local[q].seen # None
             PROVE  Removed(s)'
  BY DEF Removed
<1>1. CASE q = r
  <2>1. pc[r] # "idle"
    BY <1>1, BlankLocal, RosterAssumption DEF Well, KindOK, Is, Kinds
  <2>2. local'[r].kind = "disassociate" /\ local'[r].student = s /\ local'[r].seen # None
    BY <1>1, <2>1 DEF StepOf, Is, SeenKept
  <2> QED
    BY <2>2 DEF Removed, Is
<1>2. CASE q # r
  <2>1. local'[q] = local[q]
    BY <1>2 DEF StepOf, Moves, Actors
  <2> QED
    BY <2>1 DEF Removed, Is
<1> QED
  BY <1>1, <1>2

LEMMA EarlyKept ==
  ASSUME Well, PeopleOK, NEW r \in Requests, NEW K, StepOf(r, K), SeenKept(r)
  PROVE  \A q \in Requests : \A s : /\ Early(q, s) => Early(q, s)'
                                    /\ Wrote(q, s) => Wrote(q, s)'
<1> SUFFICES ASSUME NEW s, NEW q \in Requests, Early(q, s)
             PROVE  Early(q, s)' /\ (pc[q] # "connect" => pc'[q] # "connect")
  BY DEF Wrote
<1>1. CASE q = r
  <2>1. pc[r] # "idle"
    BY <1>1, BlankLocal, RosterAssumption DEF Well, KindOK, Is, Kinds, Early
  <2>2. local'[r].kind = "associate" /\ local'[r].student = s /\ local'[r].seen = local[r].seen
    BY <1>1, <2>1 DEF StepOf, Is, SeenKept, Early
  <2>3. pc[r] # "readUser"
    BY <1>1 DEF PeopleOK, KeptBy, Early
  <2> QED
    BY <1>1, <2>2, <2>3 DEF Early, Is, SeenKept
<1>2. CASE q # r
  <2>1. local'[q] = local[q] /\ pc'[q] = pc[q]
    BY <1>2 DEF StepOf, Moves, Actors
  <2> QED
    BY <2>1 DEF Early, Is
<1> QED
  BY <1>1, <1>2

(* It is enough to look at the request that moves, and at what it does to  *)
(* the user rows.                                                          *)
LEMMA OthersPeople ==
  ASSUME Well, PeopleOK, NEW r \in Requests, NEW K, StepOf(r, K), SeenKept(r), KeptBy(r)',
         \A s \in Students :
            /\ users[s].member => users'[s].member \/ Removed(s)'
            /\ users[s].tempSchool => users'[s].tempSchool \/ Removed(s)'
            /\ users'[s].tempSchool => \/ users[s].tempSchool
                                       \/ Early(r, s)' /\ pc[r] = "connect" /\ pc'[r] # "connect"
  PROVE  PeopleOK'
<1>1. \A s : Removed(s) => Removed(s)'
  BY RemovedKept
<1>2. \A q \in Requests : \A s : (Early(q, s) => Early(q, s)') /\ (Wrote(q, s) => Wrote(q, s)')
  BY EarlyKept
<1>3. \A s \in Students : pc'[s] = pc[s] /\ local'[s] = local[s] /\ (Completed(s) => Completed(s)')
  BY RosterAssumption DEF StepOf, Moves, Actors, Completed
<1>4. \A s \in Students : Kept(s) => Kept(s)'
  BY <1>1, <1>3 DEF Kept
<1>5. ASSUME NEW q \in Requests PROVE KeptBy(q)'
  <2>1. CASE q = r
    BY <2>1
  <2>2. CASE q # r
    <3>1. KeptBy(q) /\ pc'[q] = pc[q] /\ local'[q] = local[q]
      BY <2>2 DEF PeopleOK, StepOf, Moves, Actors
    <3>2. Is(q, "associate") \/ pc[q] = "connect" => local[q].student \in Students
      BY DEF Well, KindOK, Filled, Is
    <3>3. Is(q, "associate") \/ pc[q] = "connect" => (Kept(local[q].student) => Kept(local[q].student)')
      <4> SUFFICES ASSUME NEW s \in Students, s = local[q].student, Kept(s) PROVE Kept(local[q].student)'
        BY <3>2
      <4>1. Kept(s)' /\ s = local'[q].student
        BY <1>4, <3>1
      <4> QED
        BY <4>1 DEF Kept, Removed, Completed
    <3> QED
      BY <3>1, <3>3 DEF KeptBy, Is
  <2> QED
    BY <2>1, <2>2
<1>6. ASSUME NEW s \in Students PROVE StudentOK(s)'
  <2>1. StudentOK(s)
    BY DEF PeopleOK
  <2>2. (\E q \in Requests : Wrote(q, s)) => (\E q \in Requests : Wrote(q, s)')
    BY <1>2
  <2>3. pc'[s] = "clearTemp" => users'[s].member \/ Removed(s)' \/ Completed(s)'
    BY <1>1, <1>3, <2>1 DEF StudentOK
  <2>4. users'[s].tempSchool => \E q \in Requests : Wrote(q, s)'
    BY <2>1, <2>2 DEF StudentOK, Wrote
  <2>5. local'[s].seen # None /\ local'[s].seen.tempSchool => \E q \in Requests : Wrote(q, s)'
    BY <1>3, <2>1, <2>2 DEF StudentOK
  <2>6. pc'[s] = "done" /\ users'[s].tempSchool => Twice(s)'
    <3> SUFFICES ASSUME pc'[s] = "done", users'[s].tempSchool PROVE Twice(s)'
      OBVIOUS
    <3>1. CASE users[s].tempSchool
      <4>1. Twice(s)
        BY <1>3, <2>1, <3>1 DEF StudentOK
      <4> QED
        BY <1>2, <1>3, <4>1 DEF Twice
    <3>2. CASE Early(r, s)' /\ pc[r] = "connect"
      <4>1. local[s].seen # None
        BY <1>3, RowsAssumption DEF Well, ProfileOK
      <4>2. CASE local[s].seen.tempSchool
        <5>1. PICK q \in Requests : Wrote(q, s)
          BY <2>1, <4>1, <4>2 DEF StudentOK
        <5>2. q # r /\ Early(q, s)'
          BY <1>2, <3>2, <5>1 DEF Wrote
        <5> QED
          BY <3>2, <5>2 DEF Twice
      <4>3. CASE ~local[s].seen.tempSchool
        BY <1>3, <3>2, <4>3 DEF Twice
      <4> QED
        BY <4>2, <4>3
    <3> QED
      BY <3>1, <3>2
  <2> QED
    BY <2>3, <2>4, <2>5, <2>6 DEF StudentOK
<1> QED
  BY <1>5, <1>6 DEF PeopleOK

(* Requests of other kinds have nothing to do with them.                   *)
LEMMA PeopleAside ==
  ASSUME Well, Well', PeopleOK, NEW r \in Requests, NEW K, StepOf(r, K), UNCHANGED users,
         K \cap StudentKinds = {}
  PROVE  PeopleOK'
<1>1. local[r].kind \notin StudentKinds /\ local'[r].kind \notin StudentKinds
  BY BlankLocal, RosterAssumption DEF StepOf, Well, KindOK, StudentKinds, Kinds
<1>2. ~Is(r, "associate") /\ ~Is(r, "disassociate") /\ ~Is(r, "associate")'
  BY <1>1 DEF Is, StudentKinds
<1>3. pc'[r] \notin {"connect", "readUser"}
  BY <1>2 DEF Well, KindOK
<1>4. KeptBy(r)'
  BY <1>2, <1>3 DEF KeptBy
<1>5. \A q \in Requests : \A s : (Early(q, s) => Early(q, s)') /\ (Wrote(q, s) => Wrote(q, s)')
  BY <1>2, <1>3 DEF StepOf, Moves, Actors, Early, Wrote, Is
<1>6. \A s : Removed(s) => Removed(s)'
  BY <1>2 DEF StepOf, Moves, Actors, Removed, Is
<1>7. \A s \in Students : pc'[s] = pc[s] /\ local'[s] = local[s]
  BY RosterAssumption DEF StepOf, Moves, Actors
<1>8. ASSUME NEW q \in Requests \ {r} PROVE KeptBy(q)'
  <2>1. KeptBy(q) /\ pc'[q] = pc[q] /\ local'[q] = local[q]
    BY DEF PeopleOK, StepOf, Moves, Actors
  <2>2. \A s : Is(q, "associate") \/ pc[q] = "connect" => local[q].student \in Students
    BY DEF Well, KindOK, Filled, Is
  <2>3. Is(q, "associate") \/ pc[q] = "connect" => (Kept(local[q].student) => Kept(local[q].student)')
    BY <1>6, <1>7, <2>1, <2>2 DEF Kept, Completed, Removed
  <2> QED
    BY <2>1, <2>3 DEF KeptBy, Is
<1>9. ASSUME NEW s \in Students PROVE StudentOK(s)'
  <2>1. StudentOK(s)
    BY DEF PeopleOK
  <2>2. Twice(s) => Twice(s)'
    BY <1>5, <1>7 DEF Twice
  <2> QED
    BY <1>5, <1>6, <1>7, <2>1, <2>2 DEF StudentOK, Completed
<1> QED
  BY <1>4, <1>8, <1>9 DEF PeopleOK

(* The first step of a request about a student.                            *)
LEMMA BeginStudents ==
  ASSUME Well, PeopleOK, NEW r \in Requests, NEW l \in {"readUser", "readRemoval", "readStudent", "readCourse"},
         NEW k \in {"associate", "disassociate", "enrol", "unenrol"},
         NEW s \in Students, NEW c \in Requests \cup {None}, About(r, k, l, s, c),
         l = "readUser" => k = "associate", l = "readRemoval" => k = "disassociate",
         l = "readStudent" => k = "enrol" /\ c \in Requests, l = "readCourse" => k = "unenrol"
  PROVE  Well' /\ PeopleOK' /\ StepOf(r, StudentKinds)
<1>1. local[r] = Blank /\ Begin(r, k, l)
  BY DEF About, Begin, Well, KindOK
<1> DEFINE n == [Blank EXCEPT !.kind = k, !.student = s, !.course = c]
<1>2. Asked(r, l, n)
  BY <1>1 DEF Asked, Begin, About
<1>3. /\ n \in Local /\ n.kind = k /\ n.kind \in StudentKinds /\ n.student = s /\ n.course = c
      /\ n.seen = None
  BY DEF Blank, Local, Kinds, StudentKinds
<1> HIDE DEF n
<1>. l \in PCs \ {"idle"}
  BY DEF PCs
<1>4. /\ pc[r] = "idle" /\ pc'[r] = l /\ local'[r] = n /\ StepOf(r, StudentKinds)
      /\ KindOK(r)' /\ Filled(r)' => Well'
  BY <1>2, <1>3, Beginning
<1>5. (KindOK(r) /\ Filled(r))'
  BY <1>3, <1>4 DEF KindOK, Filled, Is, StaffLabels, CourseLabels, StudentLabels, StudentKinds
<1>6. KeptBy(r)'
  BY <1>3, <1>4 DEF KeptBy, Is
<1>7. SeenKept(r)
  BY <1>1, <1>4, BlankLocal, RosterAssumption DEF SeenKept, Is, Kinds
<1>8. users' = users
  BY DEF About, people
<1> QED
  BY <1>4, <1>5, <1>6, <1>7, <1>8, OthersPeople

(* A step that keeps locals, and whose student is or is not the school's   *)
(* as before.                                                              *)
LEMMA SteadyPeople ==
  ASSUME Well, PeopleOK, NEW r \in Requests, NEW l \in {"enrol", "tempCourse", "readCourse", "unenrol", "done", "failed"},
         Goto(r, l), UNCHANGED local,
         pc[r] \in {"readStudent", "enrol", "tempCourse", "logRemoval", "readCourse", "unenrol"},
         \A q \in Requests \ {r} : audit'[q] = audit[q],
         \A s \in Students : users'[s].member = users[s].member /\ users'[s].tempSchool = users[s].tempSchool
  PROVE  PeopleOK' /\ StepOf(r, StudentKinds)
<1>1. local[r].kind \in StudentKinds /\ pc[r] \notin {"idle", "done", "failed"}
  BY DEF Well, KindOK, StudentLabels
<1>. l \in PCs \ {"idle"}
  BY DEF PCs
<1>2. pc'[r] = l /\ local'[r] = local[r] /\ StepOf(r, StudentKinds)
  BY <1>1, Going
<1>3. SeenKept(r)
  BY <1>2 DEF SeenKept
<1>4. \A s : Removed(s) => Removed(s)'
  BY <1>2, <1>3, RemovedKept
<1>5. KeptBy(r)'
  <2>1. Is(r, "associate") => pc[r] \in {"readStudent", "enrol", "tempCourse"} /\ local[r].student \in Students
    BY DEF Well, KindOK, Filled, Is
  <2>2. Is(r, "associate") => Kept(local[r].student)'
    <3> SUFFICES ASSUME Is(r, "associate"), NEW s \in Students, s = local[r].student
                 PROVE  Kept(local[r].student)'
      BY <2>1
    <3>1. Kept(s) /\ s = local'[r].student
      BY <1>2, <2>1 DEF PeopleOK, KeptBy
    <3>2. local'[s] = local[s]
      BY RosterAssumption DEF Actors
    <3>3. users'[s].member \/ users'[s].tempSchool \/ Removed(s)' \/ (local'[s].seen # None /\ ~local'[s].seen.tempSchool)
      BY <1>4, <3>1, <3>2 DEF Kept, Completed
    <3> QED
      BY <3>1, <3>3 DEF Kept, Removed, Completed
  <2> QED
    BY <1>2, <2>2 DEF KeptBy, Is
<1> QED
  BY <1>2, <1>3, <1>5, OthersPeople

(* Well after such a step.                                                 *)
LEMMA SteadyWell ==
  ASSUME Well, NEW r \in Requests, NEW l \in PCs \ {"idle"}, Goto(r, l),
         UNCHANGED <<staff, catalogue, local>>, StepOf(r, StudentKinds),
         users' \in [Students -> User], \A s \in Students : users[s].pf => users'[s].pf,
         enrolments' \subseteq Enrolment,
         \A e \in enrolments' : courses[e.course] # None /\ users'[e.student].pf,
         audit' \in [Requests -> SUBSET (Actors \cup {"school"})],
         (KindOK(r) /\ Filled(r))'
  PROVE  Well'
<1>. r \in Actors /\ l \in PCs
  BY DEF Actors
<1>1. pc' \in [Actors -> PCs]
  BY Moving
<1>2. TypeOK'
  BY <1>1 DEF Well, TypeOK, staff, catalogue
<1> QED
  BY <1>2, OthersWell DEF StepOf

LEMMA FindStudentsKeeps ==
  ASSUME Well, PeopleOK, NEW r \in Requests, FindStudents(r) \/ RemoveStudentFromCourse(r)
  PROVE  Well' /\ PeopleOK' /\ StepOf(r, StudentKinds)
<1>1. /\ pc[r] \in {"readStudent", "readCourse"} /\ UNCHANGED <<staff, catalogue, people, audit, local>>
      /\ local[r].kind \in StudentKinds
  BY DEF FindStudents, RemoveStudentFromCourse, Well, KindOK, StudentLabels
<1>2. PICK l \in {"enrol", "tempCourse", "unenrol", "done"} :
        /\ Goto(r, l)
        /\ l \in {"enrol", "tempCourse"} => pc[r] = "readStudent"
        /\ l = "unenrol" => pc[r] = "readCourse"
        /\ l = "enrol" => users[local[r].student].pf
  BY DEF FindStudents, RemoveStudentFromCourse
<1>. l \in PCs \ {"idle"} /\ pc[r] \notin {"idle", "done", "failed"}
  BY <1>1 DEF PCs
<1>3. UNCHANGED <<users, enrolments, audit, local>>
  BY <1>1 DEF people
<1>4. PeopleOK' /\ StepOf(r, StudentKinds)
  BY <1>1, <1>2, <1>3, SteadyPeople
<1>5. pc'[r] = l /\ local'[r] = local[r]
  BY <1>1, <1>2, <1>3, Going
<1>6. KindOK(r) /\ Filled(r)
  BY DEF Well
<1>7. (KindOK(r) /\ Filled(r))'
  BY <1>1, <1>2, <1>3, <1>5, <1>6
  DEF KindOK, Filled, Is, StaffLabels, CourseLabels, StudentLabels, StudentKinds
<1>8. /\ users' \in [Students -> User] /\ enrolments' \subseteq Enrolment
      /\ \A e \in enrolments' : courses[e.course] # None /\ users'[e.student].pf
      /\ audit' \in [Requests -> SUBSET (Actors \cup {"school"})]
      /\ \A s \in Students : users[s].pf => users'[s].pf
  BY <1>3 DEF Well, TypeOK
<1> QED
  BY <1>1, <1>2, <1>3, <1>4, <1>7, <1>8, SteadyWell

LEMMA EnrolmentKeeps ==
  ASSUME Well, PeopleOK, NEW r \in Requests,
         CreateCourseStudentAssociation(r) \/ DeleteCourseStudentAssociation(r)
  PROVE  Well' /\ PeopleOK' /\ StepOf(r, StudentKinds)
<1>1. /\ pc[r] \in {"enrol", "unenrol"} /\ UNCHANGED <<staff, catalogue, users, audit, local>>
      /\ local[r].kind \in StudentKinds /\ local[r].student \in Students
      /\ KindOK(r) /\ Filled(r)
  BY DEF CreateCourseStudentAssociation, DeleteCourseStudentAssociation, Well, KindOK, Filled, StudentLabels,
         StudentKinds
<1>2. PICK l \in {"failed", "done"} : Goto(r, l)
  BY DEF CreateCourseStudentAssociation, DeleteCourseStudentAssociation
<1>. l \in PCs \ {"idle"} /\ pc[r] \notin {"idle", "done", "failed"}
  BY <1>1 DEF PCs
<1>3. /\ enrolments' \subseteq Enrolment
      /\ \A e \in enrolments' : courses[e.course] # None /\ users'[e.student].pf
  <2>1. CASE enrolments' \subseteq enrolments
    BY <1>1, <2>1 DEF Well, TypeOK
  <2>2. CASE ~(enrolments' \subseteq enrolments)
    <3> DEFINE new == [by |-> r, course |-> local[r].course, student |-> local[r].student]
    <3>1. /\ courses[local[r].course] # None /\ enrolments' = enrolments \cup {new}
          /\ pc[r] = "enrol"
      BY <2>2 DEF CreateCourseStudentAssociation, DeleteCourseStudentAssociation
    <3>2. local[r].course \in Requests /\ users[local[r].student].pf
      BY <1>1, <3>1 DEF Filled
    <3>3. new \in Enrolment /\ courses[new.course] # None /\ users[new.student].pf
      BY <1>1, <3>1, <3>2 DEF Enrolment, Actors
    <3> HIDE DEF new
    <3> QED
      BY <1>1, <3>1, <3>3 DEF Well, TypeOK
  <2> QED
    BY <2>1, <2>2
<1>4. PeopleOK' /\ StepOf(r, StudentKinds)
  BY <1>1, <1>2, SteadyPeople
<1>5. pc'[r] = l /\ local'[r] = local[r]
  BY <1>1, <1>2, Going
<1>6. (KindOK(r) /\ Filled(r))'
  BY <1>1, <1>5 DEF KindOK, Filled, Is, StaffLabels, CourseLabels, StudentLabels, StudentKinds
<1>7. /\ users' \in [Students -> User] /\ audit' \in [Requests -> SUBSET (Actors \cup {"school"})]
      /\ \A s \in Students : users[s].pf => users'[s].pf
  BY <1>1 DEF Well, TypeOK
<1> QED
  BY <1>1, <1>2, <1>3, <1>4, <1>6, <1>7, SteadyWell

LEMMA SetTempCourseKeeps ==
  ASSUME Well, PeopleOK, NEW r \in Requests, SetTempCourse(r)
  PROVE  Well' /\ PeopleOK' /\ StepOf(r, StudentKinds)
<1>1. /\ pc[r] = "tempCourse" /\ UNCHANGED <<staff, catalogue, enrolments, audit, local>> /\ Goto(r, "done")
      /\ local[r].student \in Students /\ local[r].course \in Requests
      /\ KindOK(r) /\ Filled(r)
  BY DEF SetTempCourse, Well, KindOK, Filled
<1>. "done" \in PCs \ {"idle"} /\ pc[r] \notin {"idle", "done", "failed"}
  BY <1>1 DEF PCs
<1>2. /\ users' \in [Students -> User]
      /\ \A s \in Students : /\ users'[s].pf = users[s].pf /\ users'[s].member = users[s].member
                             /\ users'[s].tempSchool = users[s].tempSchool
  <2>1. users \in [Students -> User]
    BY DEF Well, TypeOK
  <2>2. users' = [users EXCEPT ![local[r].student].tempCourse = local[r].course]
    BY DEF SetTempCourse
  <2> QED
    BY <1>1, <2>1, <2>2 DEF User
<1>3. PeopleOK' /\ StepOf(r, StudentKinds)
  BY <1>1, <1>2, SteadyPeople
<1>4. pc'[r] = "done" /\ local'[r] = local[r] /\ local[r].kind \in StudentKinds
  BY <1>1, Going DEF KindOK, StudentLabels
<1>5. (KindOK(r) /\ Filled(r))'
  BY <1>1, <1>4 DEF KindOK, Filled, Is, StaffLabels, CourseLabels, StudentLabels
<1>6. /\ enrolments' \subseteq Enrolment /\ audit' \in [Requests -> SUBSET (Actors \cup {"school"})]
      /\ \A e \in enrolments' : courses[e.course] # None /\ users'[e.student].pf
  BY <1>1, <1>2 DEF Well, TypeOK, Enrolment
<1> QED
  BY <1>1, <1>2, <1>3, <1>5, <1>6, SteadyWell

LEMMA LogRemovalKeeps ==
  ASSUME Well, PeopleOK, NEW r \in Requests, LogRemoval(r)
  PROVE  Well' /\ PeopleOK' /\ StepOf(r, StudentKinds)
<1>1. /\ pc[r] = "logRemoval" /\ UNCHANGED <<staff, catalogue, people, local>>
      /\ local[r].student \in Students /\ local[r].kind = "disassociate"
      /\ Log(r, {local[r].student}, ThenCourse(r, "readCourse"))
      /\ KindOK(r) /\ Filled(r)
  BY DEF LogRemoval, Well, KindOK, Filled, Is
<1>2. {local[r].student} \in SUBSET (Actors \cup {"school"})
  BY <1>1 DEF Actors
<1>3. PICK l \in {"done", "readCourse"} : Log(r, {local[r].student}, l)
  BY <1>1 DEF ThenCourse
<1>4. /\ Goto(r, l) /\ audit' \in [Requests -> SUBSET (Actors \cup {"school"})]
      /\ \A q \in Requests \ {r} : audit'[q] = audit[q]
  BY <1>2, <1>3, Logging
<1>. l \in PCs \ {"idle"} /\ pc[r] \notin {"idle", "done", "failed"} /\ local[r].kind \in StudentKinds
  BY <1>1 DEF PCs, StudentKinds
<1>5. UNCHANGED <<users, enrolments, local>>
  BY <1>1 DEF people
<1>6. PeopleOK' /\ StepOf(r, StudentKinds)
  BY <1>1, <1>4, <1>5, SteadyPeople
<1>7. pc'[r] = l /\ local'[r] = local[r]
  BY <1>1, <1>4, Going
<1>8. (KindOK(r) /\ Filled(r))'
  BY <1>1, <1>5, <1>7 DEF KindOK, Filled, Is, StaffLabels, CourseLabels, StudentLabels
<1>9. /\ users' \in [Students -> User] /\ enrolments' \subseteq Enrolment
      /\ \A e \in enrolments' : courses[e.course] # None /\ users'[e.student].pf
      /\ \A s \in Students : users[s].pf => users'[s].pf
  BY <1>5 DEF Well, TypeOK
<1> QED
  BY <1>1, <1>4, <1>5, <1>6, <1>8, <1>9, SteadyWell

LEMMA ReadUserKeeps ==
  ASSUME Well, PeopleOK, NEW r \in Requests, ReadUser(r)
  PROVE  Well' /\ PeopleOK' /\ StepOf(r, StudentKinds)
<1>1. PICK s \in Students : s = local[r].student
  BY DEF ReadUser, Well, KindOK, Filled, Is
<1> DEFINE o == local[r]
           n == [o EXCEPT !.seen = users[s]]
           l == IF pc[r] = "readUser" THEN "connect" ELSE "disconnect"
<1>2. /\ pc[r] \in {"readUser", "readRemoval"} /\ UNCHANGED <<staff, catalogue, people, audit>>
      /\ local' = [local EXCEPT ![r] = n] /\ Goto(r, l)
      /\ o \in Local /\ r \in Actors /\ users[s] \in User
  BY <1>1 DEF ReadUser, Well, TypeOK, Actors
<1>3. /\ pc[r] = "readUser" => l = "connect" /\ o.kind = "associate" /\ o.seen = None
      /\ pc[r] = "readRemoval" => l = "disconnect" /\ o.kind = "disassociate"
      /\ o = local[r] /\ o.kind \in StudentKinds
  BY <1>2 DEF Well, KindOK, PeopleOK, KeptBy, Is, StudentKinds
<1> HIDE DEF l, o
<1>4. /\ n \in Local /\ n.kind = o.kind /\ n.event = o.event /\ n.student = o.student
      /\ n.course = o.course /\ n.seen = users[s]
  BY <1>2 DEF Local
<1> HIDE DEF n
<1>. l \in PCs \ {"idle"} /\ pc[r] \notin {"idle", "done", "failed"}
  BY <1>2, <1>3 DEF PCs
<1>5. Learned(r, l, n)
  BY <1>2 DEF Learned
<1>6. /\ pc' \in [Actors -> PCs] /\ pc'[r] = l /\ local' \in [Actors -> Local]
      /\ local'[r] = n /\ StepOf(r, StudentKinds)
  BY <1>2, <1>3, <1>4, <1>5, Learning
<1>7. TypeOK'
  BY <1>2, <1>6 DEF Well, TypeOK, staff, catalogue, people
<1>8. (KindOK(r) /\ Filled(r))'
  BY <1>1, <1>2, <1>3, <1>4, <1>6 DEF KindOK, Filled, Is, StaffLabels, CourseLabels, StudentLabels
<1>9. Well'
  BY <1>2, <1>6, <1>7, <1>8, OthersWell DEF StepOf, people
<1>10. users' = users /\ users[s] # None
  BY <1>2, RowsAssumption DEF people
<1>11. SeenKept(r)
  BY <1>2, <1>3, <1>4, <1>6, <1>10 DEF SeenKept, Is
<1>12. KeptBy(r)'
  <2>1. users'[s].tempSchool => Kept(s)'
    BY DEF Kept
  <2>2. local'[r].student = s
    BY <1>1, <1>3, <1>4, <1>6
  <2>3. n.seen.tempSchool => Kept(local[r].student)'
    BY <1>4, <1>10, <2>1, <2>2 DEF Kept, Removed, Completed
  <2> QED
    BY <1>2, <1>3, <1>6, <2>3 DEF KeptBy
<1> QED
  BY <1>6, <1>9, <1>10, <1>11, <1>12, OthersPeople

(* The answer to an association: its student is the school's.              *)
LEMMA AssociateUsersToSchoolKeeps ==
  ASSUME Well, PeopleOK, NEW r \in Requests, AssociateUsersToSchool(r)
  PROVE  Well' /\ PeopleOK' /\ StepOf(r, StudentKinds)
<1>1. PICK s \in Students : s = local[r].student
  BY DEF AssociateUsersToSchool, Well, KindOK, Filled, Is
<1>2. /\ pc[r] = "connect" /\ UNCHANGED <<staff, catalogue, enrolments, audit, local>>
      /\ local[r].kind = "associate" /\ local[r].seen \in User
  BY DEF AssociateUsersToSchool, Well, KindOK, Filled, Is
<1>3. PICK l \in {"done", "readStudent"} : Goto(r, l) /\ (l = "readStudent" => local[r].course \in Requests)
  <2>1. local[r].course \in Requests \cup {None}
    BY DEF Well, TypeOK, Local, Actors
  <2> QED
    BY <2>1 DEF AssociateUsersToSchool, ThenCourse
<1>. l \in PCs \ {"idle"} /\ pc[r] \notin {"idle", "done", "failed"} /\ local[r].kind \in StudentKinds
  BY <1>2 DEF PCs, StudentKinds
<1>4. pc'[r] = l /\ local'[r] = local[r] /\ StepOf(r, StudentKinds)
  BY <1>2, <1>3, Going
<1> DEFINE seen == local[r].seen
<1>5. /\ users' \in [Students -> User]
      /\ \A t \in Students \ {s} : users'[t] = users[t]
      /\ users'[s].pf = users[s].pf
      /\ users[s].member => users'[s].member
      /\ users[s].tempSchool => users'[s].tempSchool
      /\ seen.pf => users'[s].member
      /\ ~seen.pf /\ ~seen.tempSchool => users'[s].tempSchool
      /\ users'[s].tempSchool => users[s].tempSchool \/ (~seen.pf /\ ~seen.tempSchool)
  <2>1. users \in [Students -> User]
    BY DEF Well, TypeOK
  <2>2. CASE seen.pf
    <3>1. users' = [users EXCEPT ![s].member = TRUE]
      BY <1>1, <2>2 DEF AssociateUsersToSchool
    <3> HIDE DEF seen
    <3> QED
      BY <2>1, <2>2, <3>1 DEF User
  <2>3. CASE ~seen.pf /\ ~seen.tempSchool
    <3>1. users' = [users EXCEPT ![s].tempSchool = TRUE]
      BY <1>1, <2>3 DEF AssociateUsersToSchool
    <3> HIDE DEF seen
    <3> QED
      BY <2>1, <2>3, <3>1 DEF User
  <2>4. CASE ~seen.pf /\ seen.tempSchool
    <3>1. users' = users
      BY <2>4 DEF AssociateUsersToSchool
    <3> HIDE DEF seen
    <3> QED
      BY <2>1, <2>4, <3>1
  <2> QED
    BY <2>2, <2>3, <2>4
<1>6. SeenKept(r)
  BY <1>3, <1>4 DEF SeenKept
<1>7. \A t : Removed(t) => Removed(t)'
  BY <1>4, <1>6, RemovedKept
<1>8. local'[r].student = s /\ (seen.tempSchool => Kept(s))
  BY <1>1, <1>2, <1>4 DEF PeopleOK, KeptBy
<1>9. Kept(s)'
  <2>1. CASE seen.pf \/ ~seen.tempSchool
    BY <1>5, <2>1 DEF Kept
  <2>2. CASE seen.tempSchool
    <3>1. local'[s] = local[s]
      BY <1>2
    <3> QED
      BY <1>5, <1>7, <1>8, <2>2, <3>1 DEF Kept, Completed
  <2> QED
    BY <2>1, <2>2
<1>10. KeptBy(r)'
  <2>1. Kept(local[r].student)'
    BY <1>8, <1>9 DEF Kept, Removed, Completed
  <2> QED
    BY <1>3, <1>4, <2>1 DEF KeptBy
<1>11. ~seen.pf /\ ~seen.tempSchool => Early(r, s)'
  BY <1>2, <1>4, <1>8, RowsAssumption DEF Early, Is
<1>12. \A t \in Students :
         /\ users[t].member => users'[t].member
         /\ users[t].tempSchool => users'[t].tempSchool
         /\ users'[t].tempSchool => \/ users[t].tempSchool
                                    \/ Early(r, t)' /\ pc[r] = "connect" /\ pc'[r] # "connect"
  <2> SUFFICES ASSUME NEW t \in Students
               PROVE  /\ users[t].member => users'[t].member
                      /\ users[t].tempSchool => users'[t].tempSchool
                      /\ users'[t].tempSchool =>
                           \/ users[t].tempSchool
                           \/ Early(r, t)' /\ pc[r] = "connect" /\ pc'[r] # "connect"
    OBVIOUS
  <2>1. CASE t # s
    BY <1>5, <2>1
  <2>2. CASE t = s
    BY <1>2, <1>3, <1>4, <1>5, <1>11, <2>2
  <2> QED
    BY <2>1, <2>2
<1>13. PeopleOK'
  <2> HIDE DEF seen
  <2> QED
    BY <1>4, <1>6, <1>10, <1>12, OthersPeople
<1>14. (KindOK(r) /\ Filled(r))'
  BY <1>1, <1>2, <1>3, <1>4 DEF KindOK, Filled, Is, StaffLabels, CourseLabels, StudentLabels
<1>15. /\ \A t \in Students : users[t].pf => users'[t].pf
       /\ enrolments' \subseteq Enrolment /\ audit' \in [Requests -> SUBSET (Actors \cup {"school"})]
       /\ \A e \in enrolments' : courses[e.course] # None /\ users'[e.student].pf
  <2>1. \A t \in Students : users[t].pf => users'[t].pf
    BY <1>5
  <2> QED
    BY <1>2, <2>1 DEF Well, TypeOK, Enrolment
<1>16. Well'
  BY <1>2, <1>3, <1>4, <1>5, <1>14, <1>15, SteadyWell
<1> QED
  BY <1>4, <1>13, <1>16

LEMMA DisassociateUsersFromSchoolKeeps ==
  ASSUME Well, PeopleOK, NEW r \in Requests, DisassociateUsersFromSchool(r)
  PROVE  Well' /\ PeopleOK' /\ StepOf(r, StudentKinds)
<1>1. PICK s \in Students : s = local[r].student
  BY DEF DisassociateUsersFromSchool, Well, KindOK, Filled, Is
<1>2. /\ pc[r] = "disconnect" /\ UNCHANGED <<staff, catalogue, enrolments, audit, local>>
      /\ local[r].kind = "disassociate" /\ local[r].seen \in User
  BY DEF DisassociateUsersFromSchool, Well, KindOK, Filled, Is
<1>3. PICK l \in {"done", "readCourse", "logRemoval"} : Goto(r, l)
  BY DEF DisassociateUsersFromSchool, ThenCourse
<1>. l \in PCs \ {"idle"} /\ pc[r] \notin {"idle", "done", "failed"} /\ local[r].kind \in StudentKinds
  BY <1>2 DEF PCs, StudentKinds
<1>4. pc'[r] = l /\ local'[r] = local[r] /\ StepOf(r, StudentKinds)
  BY <1>2, <1>3, Going
<1>5. /\ users' \in [Students -> User]
      /\ \A t \in Students \ {s} : users'[t] = users[t]
      /\ users'[s].pf = users[s].pf
      /\ users'[s].tempSchool => users[s].tempSchool
  <2>1. users \in [Students -> User]
    BY DEF Well, TypeOK
  <2>2. CASE users' = users
    BY <2>1, <2>2
  <2>3. CASE users' = [users EXCEPT ![s].member = FALSE]
    BY <2>1, <2>3 DEF User
  <2>4. CASE users' = [users EXCEPT ![s] = [@ EXCEPT !.tempSchool = FALSE, !.tempCourse = None]]
    <3> DEFINE o == users[s]
               row == [o EXCEPT !.tempSchool = FALSE, !.tempCourse = None]
    <3>1. users' = [users EXCEPT ![s] = row] /\ o \in User /\ o = users[s]
      BY <2>1, <2>4
    <3> HIDE DEF o
    <3>2. row \in User /\ row.pf = o.pf /\ ~row.tempSchool
      BY <3>1 DEF User
    <3> HIDE DEF row
    <3> QED
      BY <2>1, <3>1, <3>2
  <2> QED
    BY <1>1, <2>2, <2>3, <2>4 DEF DisassociateUsersFromSchool
<1>6. SeenKept(r)
  BY <1>3, <1>4 DEF SeenKept
<1>7. \A t : Removed(t) => Removed(t)'
  BY <1>4, <1>6, RemovedKept
<1>8. Removed(s)'
  BY <1>1, <1>2, <1>4, RowsAssumption DEF Removed, Is
<1>9. KeptBy(r)'
  BY <1>2, <1>3, <1>4 DEF KeptBy, Is
<1>10. \A t \in Students :
         /\ users[t].member => users'[t].member \/ Removed(t)'
         /\ users[t].tempSchool => users'[t].tempSchool \/ Removed(t)'
         /\ users'[t].tempSchool => users[t].tempSchool
  <2> SUFFICES ASSUME NEW t \in Students
               PROVE  /\ users[t].member => users'[t].member \/ Removed(t)'
                      /\ users[t].tempSchool => users'[t].tempSchool \/ Removed(t)'
                      /\ users'[t].tempSchool => users[t].tempSchool
    OBVIOUS
  <2>1. CASE t # s
    BY <1>5, <2>1
  <2>2. CASE t = s
    BY <1>5, <1>8, <2>2
  <2> QED
    BY <2>1, <2>2
<1>11. PeopleOK'
  BY <1>4, <1>6, <1>9, <1>10, OthersPeople
<1>12. (KindOK(r) /\ Filled(r))'
  BY <1>1, <1>2, <1>3, <1>4 DEF KindOK, Filled, Is, StaffLabels, CourseLabels, StudentLabels
<1>13. /\ \A t \in Students : users[t].pf => users'[t].pf
       /\ enrolments' \subseteq Enrolment /\ audit' \in [Requests -> SUBSET (Actors \cup {"school"})]
       /\ \A e \in enrolments' : courses[e.course] # None /\ users'[e.student].pf
  <2>1. \A t \in Students : users[t].pf => users'[t].pf
    BY <1>5
  <2> QED
    BY <1>2, <2>1 DEF Well, TypeOK, Enrolment
<1>14. Well'
  BY <1>2, <1>3, <1>4, <1>5, <1>12, <1>13, SteadyWell
<1> QED
  BY <1>4, <1>11, <1>14

LEMMA StudentKeeps ==
  ASSUME Well, PeopleOK, NEW r \in Requests, StudentStep(r)
  PROVE  Well' /\ PeopleOK' /\ StepOf(r, StudentKinds) /\ UNCHANGED <<staff, catalogue>>
<1>1. UNCHANGED <<staff, catalogue>>
  BY DEF StudentStep, CreateStudentAssociation, DeleteStudentAssociation, AddStudentToCourse,
         DeleteStudentFromCourse, About, ReadUser, AssociateUsersToSchool, FindStudents,
         CreateCourseStudentAssociation, SetTempCourse, DisassociateUsersFromSchool, LogRemoval,
         RemoveStudentFromCourse, DeleteCourseStudentAssociation
<1>2. ASSUME \/ CreateStudentAssociation(r) \/ DeleteStudentAssociation(r)
             \/ AddStudentToCourse(r) \/ DeleteStudentFromCourse(r)
      PROVE  Well' /\ PeopleOK' /\ StepOf(r, StudentKinds)
  <2>1. PICK s \in Students, c \in Requests \cup {None} :
          \/ About(r, "associate", "readUser", s, c)
          \/ About(r, "disassociate", "readRemoval", s, c)
          \/ About(r, "enrol", "readStudent", s, c) /\ c \in Requests
          \/ About(r, "unenrol", "readCourse", s, c)
    BY <1>2 DEF CreateStudentAssociation, DeleteStudentAssociation, AddStudentToCourse,
                DeleteStudentFromCourse, CoursesOfSchool, Linked
  <2>2. CASE About(r, "associate", "readUser", s, c)
    BY <2>2, BeginStudents
  <2>3. CASE About(r, "disassociate", "readRemoval", s, c)
    BY <2>3, BeginStudents
  <2>4. CASE About(r, "enrol", "readStudent", s, c) /\ c \in Requests
    BY <2>4, BeginStudents
  <2>5. CASE About(r, "unenrol", "readCourse", s, c)
    BY <2>5, BeginStudents
  <2> QED
    BY <2>1, <2>2, <2>3, <2>4, <2>5
<1> QED
  BY <1>1, <1>2, ReadUserKeeps, AssociateUsersToSchoolKeeps, FindStudentsKeeps, EnrolmentKeeps,
     SetTempCourseKeeps, DisassociateUsersFromSchoolKeeps, LogRemovalKeeps DEF StudentStep

-----------------------------------------------------------------------------
(* A raw user completes his profile.                                       *)

(* It is enough to look at him.                                            *)
LEMMA OthersPeopleByProfile ==
  ASSUME Well, PeopleOK, NEW s \in Students, Moves(s), TypeOK', ProfileOK(s)', UNCHANGED audit,
         \A t \in Students : users[t].pf => users'[t].pf,
         \A t \in Students \ {s} : users'[t] = users[t],
         StudentOK(s)', Kept(s) => Kept(s)'
  PROVE  Well' /\ PeopleOK'
<1>1. \A r \in Requests : pc'[r] = pc[r] /\ local'[r] = local[r]
  BY RosterAssumption DEF Moves, Actors
<1>2. \A t \in Students \ {s} : pc'[t] = pc[t] /\ local'[t] = local[t]
  BY DEF Moves, Actors
<1>3. ASSUME NEW r \in Requests PROVE KindOK(r)' /\ Filled(r)'
  <2>1. KindOK(r) /\ Filled(r) /\ pc'[r] = pc[r] /\ local'[r] = local[r] /\ audit'[r] = audit[r]
    BY <1>1 DEF Well
  <2>2. pc[r] = "enrol" => local[r].student \in Students
    BY <2>1 DEF KindOK, Filled
  <2>3. KindOK(r)'
    BY <2>1 DEF KindOK, Is, Blank
  <2>4. Filled(r)'
    BY <2>1, <2>2 DEF Filled, Is
  <2> QED
    BY <2>3, <2>4
<1>4. ASSUME NEW t \in Students PROVE ProfileOK(t)'
  <2>1. CASE t = s
    BY <2>1
  <2>2. CASE t # s
    BY <1>2, <2>2 DEF Well, ProfileOK
  <2> QED
    BY <2>1, <2>2
<1>5. Well'
  BY <1>3, <1>4 DEF Well
<1>6. \A t : Removed(t) => Removed(t)'
  BY <1>1 DEF Removed, Is
<1>7. \A q \in Requests : \A t : (Early(q, t) => Early(q, t)') /\ (Wrote(q, t) => Wrote(q, t)')
  BY <1>1 DEF Early, Wrote, Is
<1>8. ASSUME NEW t \in Students, Kept(t) PROVE Kept(t)'
  <2>1. CASE t = s
    BY <1>8, <2>1
  <2>2. CASE t # s
    BY <1>2, <1>6, <1>8, <2>2 DEF Kept, Completed
  <2> QED
    BY <2>1, <2>2
<1>9. ASSUME NEW q \in Requests PROVE KeptBy(q)'
  <2>1. KeptBy(q) /\ pc'[q] = pc[q] /\ local'[q] = local[q]
    BY <1>1 DEF PeopleOK
  <2>2. Is(q, "associate") \/ pc[q] = "connect" => local[q].student \in Students
    BY DEF Well, KindOK, Filled, Is
  <2>3. Is(q, "associate") \/ pc[q] = "connect" => (Kept(local[q].student) => Kept(local[q].student)')
    <3> SUFFICES ASSUME NEW t \in Students, t = local[q].student, Kept(t) PROVE Kept(local[q].student)'
      BY <2>2
    <3>1. Kept(t)' /\ t = local'[q].student
      BY <1>8, <2>1
    <3> QED
      BY <3>1 DEF Kept, Removed, Completed
  <2> QED
    BY <2>1, <2>3 DEF KeptBy, Is
<1>10. ASSUME NEW t \in Students PROVE StudentOK(t)'
  <2>1. CASE t = s
    BY <2>1
  <2>2. CASE t # s
    <3>1. StudentOK(t) /\ pc'[t] = pc[t] /\ local'[t] = local[t] /\ users'[t] = users[t]
      BY <1>2, <2>2 DEF PeopleOK
    <3>2. Twice(t) => Twice(t)'
      BY <1>7, <3>1 DEF Twice
    <3> QED
      BY <1>6, <1>7, <3>1, <3>2 DEF StudentOK, Completed
  <2> QED
    BY <2>1, <2>2
<1> QED
  BY <1>5, <1>9, <1>10 DEF PeopleOK

LEMMA UpdateRawUserInfoKeeps ==
  ASSUME Well, PeopleOK, NEW s \in Students, UpdateRawUserInfo(s)
  PROVE  Well' /\ PeopleOK' /\ Moves(s)
<1> DEFINE o == local[s]
           n == [o EXCEPT !.seen = users[s]]
<1>1. /\ UNCHANGED <<staff, catalogue, people, audit>> /\ Goto(s, "createPf")
      /\ local' = [local EXCEPT ![s] = n]
      /\ o \in Local /\ o.kind = None /\ s \in Actors /\ users[s] \in User
  BY DEF UpdateRawUserInfo, Well, TypeOK, ProfileOK, Actors
<1> HIDE DEF o
<1>2. n \in Local /\ n.kind = o.kind /\ n.seen = users[s]
  BY <1>1 DEF Local
<1> HIDE DEF n
<1>. "createPf" \in PCs
  BY DEF PCs
<1>3. /\ pc' \in [Actors -> PCs] /\ pc'[s] = "createPf"
      /\ \A b \in Actors \ {s} : pc'[b] = pc[b]
  BY <1>1, Moving
<1>4. local' \in [Actors -> Local] /\ local'[s] = n /\ \A b \in Actors \ {s} : local'[b] = local[b]
  BY <1>1, <1>2 DEF Well, TypeOK
<1>5. Moves(s)
  BY <1>3, <1>4 DEF Moves
<1>6. TypeOK'
  BY <1>1, <1>3, <1>4 DEF Well, TypeOK, staff, catalogue, people
<1>7. users' = users /\ audit' = audit
  BY <1>1 DEF people
<1>8. ProfileOK(s)'
  BY <1>1, <1>2, <1>3, <1>4 DEF ProfileOK
<1>9. \A q \in Requests : \A t : Wrote(q, t) => Wrote(q, t)'
  BY <1>3, <1>4, RosterAssumption DEF Wrote, Early, Is, Actors
<1>10. StudentOK(s)'
  BY <1>2, <1>3, <1>4, <1>7, <1>9 DEF PeopleOK, StudentOK
<1>11. users[s] # None
  BY <1>1, RowsAssumption
<1>12. Kept(s) => Kept(s)'
  BY <1>2, <1>4, <1>7, <1>11 DEF Kept, Completed
<1> QED
  BY <1>5, <1>6, <1>7, <1>8, <1>10, <1>12, OthersPeopleByProfile

LEMMA CreatePessoaFisicaKeeps ==
  ASSUME Well, PeopleOK, NEW s \in Students, CreatePessoaFisica(s)
  PROVE  Well' /\ PeopleOK' /\ Moves(s)
<1> DEFINE c == local[s].seen.tempCourse
           new == [by |-> s, course |-> c, student |-> s]
<1>1. /\ pc[s] = "createPf" /\ UNCHANGED <<staff, catalogue, audit, local>>
      /\ local[s].seen \in User /\ local[s].kind = None /\ s \in Actors
  BY DEF CreatePessoaFisica, Well, ProfileOK, Actors
<1>2. \/ Goto(s, "failed") /\ UNCHANGED people
      \/ /\ Goto(s, "clearTemp")
         /\ users' = [users EXCEPT ![s] = [@ EXCEPT !.pf = TRUE, !.member = local[s].seen.tempSchool]]
         /\ \/ enrolments' = enrolments
            \/ c # None /\ c \in CoursesOfSchool /\ enrolments' = enrolments \cup {new}
  BY DEF CreatePessoaFisica
<1>3. PICK l \in {"failed", "clearTemp"} :
        /\ Goto(s, l)
        /\ users' \in [Students -> User]
        /\ \A t \in Students \ {s} : users'[t] = users[t]
        /\ users[s].pf => users'[s].pf
        /\ users'[s].tempSchool = users[s].tempSchool
        /\ \/ l = "failed" /\ users' = users /\ enrolments' = enrolments
           \/ /\ l = "clearTemp" /\ users'[s].member = local[s].seen.tempSchool /\ users'[s].pf
              /\ \/ enrolments' = enrolments
                 \/ c # None /\ c \in CoursesOfSchool /\ enrolments' = enrolments \cup {new}
  <2>1. users \in [Students -> User]
    BY DEF Well, TypeOK
  <2>2. CASE Goto(s, "failed") /\ UNCHANGED people
    BY <2>1, <2>2 DEF people
  <2>3. CASE /\ Goto(s, "clearTemp")
             /\ users' = [users EXCEPT ![s] = [@ EXCEPT !.pf = TRUE, !.member = local[s].seen.tempSchool]]
    <3> DEFINE o == users[s]
               m == local[s].seen.tempSchool
               row == [o EXCEPT !.pf = TRUE, !.member = m]
    <3>1. users' = [users EXCEPT ![s] = row] /\ o \in User /\ o = users[s] /\ m \in BOOLEAN
      BY <1>1, <2>1, <2>3 DEF User
    <3> HIDE DEF o, m
    <3>2. row \in User /\ row.pf /\ row.member = m /\ row.tempSchool = o.tempSchool
      BY <3>1 DEF User
    <3> HIDE DEF row
    <3>3. /\ users' \in [Students -> User] /\ users'[s] = row
          /\ \A t \in Students \ {s} : users'[t] = users[t]
      BY <2>1, <3>1, <3>2
    <3>4. m = local[s].seen.tempSchool
      BY DEF m
    <3>5. /\ users[s].pf => users'[s].pf
          /\ users'[s].tempSchool = users[s].tempSchool
          /\ users'[s].member = local[s].seen.tempSchool /\ users'[s].pf
      BY <3>1, <3>2, <3>3, <3>4
    <3>6. \/ enrolments' = enrolments
          \/ c # None /\ c \in CoursesOfSchool /\ enrolments' = enrolments \cup {new}
      BY <1>2 DEF people
    <3> HIDE DEF c, new
    <3> QED
      BY <2>3, <3>3, <3>5, <3>6
  <2> QED
    BY <1>2, <2>2, <2>3
<1>4. l \in PCs
  BY DEF PCs
<1>5. /\ pc' \in [Actors -> PCs] /\ pc'[s] = l /\ \A b \in Actors \ {s} : pc'[b] = pc[b]
  BY <1>1, <1>3, <1>4, Moving
<1>6. Moves(s) /\ local'[s] = local[s]
  BY <1>1, <1>5 DEF Moves
<1>7. \A t \in Students : users[t].pf => users'[t].pf
  BY <1>3
<1>8. /\ enrolments' \subseteq Enrolment
      /\ \A e \in enrolments' : courses[e.course] # None /\ users'[e.student].pf
  <2>1. CASE enrolments' = enrolments
    BY <1>7, <2>1 DEF Well, TypeOK, Enrolment
  <2>2. CASE c \in CoursesOfSchool /\ enrolments' = enrolments \cup {new} /\ users'[s].pf
    <3>1. new \in Enrolment /\ courses[new.course] # None /\ users'[new.student].pf
      BY <1>1, <2>2 DEF Enrolment, CoursesOfSchool
    <3> HIDE DEF new
    <3> QED
      BY <1>7, <2>2, <3>1 DEF Well, TypeOK, Enrolment
  <2> QED
    BY <1>3, <2>1, <2>2
<1>9. TypeOK'
  BY <1>1, <1>3, <1>5, <1>8 DEF Well, TypeOK, staff, catalogue
<1>10. ProfileOK(s)'
  BY <1>1, <1>5, <1>6 DEF ProfileOK
<1>11. \A q \in Requests : \A t : Wrote(q, t) => Wrote(q, t)'
  BY <1>6, RosterAssumption DEF Wrote, Early, Is, Actors, Moves
<1>12. l = "clearTemp" => users'[s].member \/ Completed(s)'
  BY <1>1, <1>3, <1>6, RowsAssumption DEF Completed
<1>13. StudentOK(s)'
  BY <1>3, <1>5, <1>6, <1>11, <1>12 DEF PeopleOK, StudentOK, Completed
<1>14. \A t : Removed(t) => Removed(t)'
  BY <1>6, RosterAssumption DEF Removed, Is, Moves, Actors
<1>15. Kept(s) => Kept(s)'
  BY <1>3, <1>6, <1>12, <1>14 DEF Kept, Completed
<1>16. audit' = audit
  BY <1>1
<1> QED
  BY <1>3, <1>6, <1>7, <1>9, <1>10, <1>13, <1>15, <1>16, OthersPeopleByProfile

LEMMA ClearTempKeeps ==
  ASSUME Well, PeopleOK, NEW s \in Students, ClearTemp(s)
  PROVE  Well' /\ PeopleOK' /\ Moves(s)
<1>1. /\ pc[s] = "clearTemp" /\ UNCHANGED <<staff, catalogue, enrolments, audit, local>> /\ Goto(s, "done")
      /\ users' = [users EXCEPT ![s] = [@ EXCEPT !.tempSchool = FALSE, !.tempCourse = None]]
      /\ local[s].seen \in User /\ local[s].kind = None /\ s \in Actors
  BY DEF ClearTemp, Well, ProfileOK, Actors
<1>2. /\ users' \in [Students -> User]
      /\ \A t \in Students \ {s} : users'[t] = users[t]
      /\ users'[s].pf = users[s].pf /\ users'[s].member = users[s].member /\ ~users'[s].tempSchool
  <2> DEFINE o == users[s]
             row == [o EXCEPT !.tempSchool = FALSE, !.tempCourse = None]
  <2>1. users \in [Students -> User] /\ users' = [users EXCEPT ![s] = row] /\ o \in User /\ o = users[s]
    BY <1>1 DEF Well, TypeOK
  <2> HIDE DEF o
  <2>2. row \in User /\ row.pf = o.pf /\ row.member = o.member /\ ~row.tempSchool
    BY <2>1 DEF User
  <2> HIDE DEF row
  <2> QED
    BY <2>1, <2>2
<1>. "done" \in PCs
  BY DEF PCs
<1>3. /\ pc' \in [Actors -> PCs] /\ pc'[s] = "done" /\ \A b \in Actors \ {s} : pc'[b] = pc[b]
  BY <1>1, Moving
<1>4. Moves(s) /\ local'[s] = local[s]
  BY <1>1, <1>3 DEF Moves
<1>5. \A t \in Students : users[t].pf => users'[t].pf
  BY <1>2
<1>6. TypeOK'
  BY <1>1, <1>2, <1>3, <1>5 DEF Well, TypeOK, Enrolment, staff, catalogue
<1>7. ProfileOK(s)'
  BY <1>1, <1>3, <1>4 DEF ProfileOK
<1>8. \A q \in Requests : \A t : Wrote(q, t) => Wrote(q, t)'
  BY <1>4, RosterAssumption DEF Wrote, Early, Is, Actors, Moves
<1>9. StudentOK(s)'
  BY <1>2, <1>3, <1>4, <1>8 DEF PeopleOK, StudentOK
<1>10. \A t : Removed(t) => Removed(t)'
  BY <1>4, RosterAssumption DEF Removed, Is, Moves, Actors
<1>11. Kept(s)'
  BY <1>1, <1>2, <1>4, <1>10 DEF PeopleOK, StudentOK, Kept, Completed
<1>12. audit' = audit
  BY <1>1
<1> QED
  BY <1>2, <1>4, <1>5, <1>6, <1>7, <1>9, <1>11, <1>12, OthersPeopleByProfile

LEMMA ProfileKeeps ==
  ASSUME Well, PeopleOK, NEW s \in Students, ProfileStep(s)
  PROVE  Well' /\ PeopleOK' /\ Moves(s) /\ UNCHANGED <<staff, catalogue, audit>>
<1>1. UNCHANGED <<staff, catalogue, audit>>
  BY DEF ProfileStep, UpdateRawUserInfo, CreatePessoaFisica, ClearTemp
<1> QED
  BY <1>1, UpdateRawUserInfoKeeps, CreatePessoaFisicaKeeps, ClearTempKeeps DEF ProfileStep

(* Administrators and the catalogue are a matter of requests.              *)
LEMMA RowsAside ==
  ASSUME AdminsOK, CatalogueOK, UNCHANGED <<staff, catalogue, audit>>,
         \A r \in Requests : pc'[r] = pc[r] /\ local'[r] = local[r]
  PROVE  AdminsOK' /\ CatalogueOK'
<1>1. \A a : Associated(a) => Associated(a)'
  BY DEF Associated, Is
<1>2. \A c : Made(c) => Made(c)' /\ c \in Requests
  BY DEF Made
<1>3. (Found => Found') /\ \A c : Edited(c) => Edited(c)'
  BY DEF Found, Edited, Is
<1>4. AdminsOK'
  <2>1. \A r \in Requests : AdminsOf(r)'
    BY <1>1 DEF AdminsOK, AdminsOf, staff, Is
  <2> QED
    BY <1>1, <2>1 DEF AdminsOK, staff
<1>5. ASSUME NEW r \in Requests PROVE CatalogueOf(r)'
  <2>1. /\ CatalogueOf(r) /\ pc'[r] = pc[r] /\ local'[r] = local[r]
        /\ UNCHANGED <<courses, events, audit>>
    BY DEF CatalogueOK, catalogue
  <2>2. CoursesOf(r)'
    <3>1. local'[r].kind \in {"editCourse", "deleteCourse", "deleteCourseAPI"} => Made(local[r].course)'
      BY <1>2, <2>1 DEF CatalogueOf, CoursesOf, Made
    <3> QED
      BY <1>2, <2>1, <3>1 DEF CatalogueOf, CoursesOf, Is
  <2>3. EventsOf(r)'
    BY <1>3, <2>1 DEF CatalogueOf, EventsOf, Is
  <2>4. Orphan(r)' => Is(r, "createSchool")' /\ pc'[r] \in {"insertSchool", "failed"}
    BY <2>1 DEF CatalogueOf, Orphan, Is
  <2> QED
    BY <2>2, <2>3, <2>4 DEF CatalogueOf
<1> QED
  BY <1>4, <1>5 DEF CatalogueOK

-----------------------------------------------------------------------------
(* A failure takes nothing back.                                           *)

Inv == Well /\ AdminsOK /\ CatalogueOK /\ PeopleOK

LEMMA FailKeeps ==
  ASSUME Inv, NEW a \in Actors, Fail(a)
  PROVE  Inv'
<1>. "failed" \in PCs /\ "failed" \in PCs \ {"idle"}
  BY DEF PCs
<1>1. /\ pc[a] \notin Over /\ Goto(a, "failed") /\ UNCHANGED <<staff, catalogue, people, audit, local>>
      /\ Well /\ AdminsOK /\ CatalogueOK /\ PeopleOK
  BY DEF Fail, Inv
<1>2. /\ pc' \in [Actors -> PCs] /\ pc'[a] = "failed" /\ \A b \in Actors \ {a} : pc'[b] = pc[b]
  BY <1>1, Moving
<1>3. Moves(a) /\ TypeOK'
  BY <1>1, <1>2 DEF Moves, Well, TypeOK, staff, catalogue, people
<1>4. UNCHANGED <<admins, courses, events, users, audit>>
  BY <1>1 DEF staff, catalogue, people
<1>5. CASE a \in Students
  <2>1. ProfileOK(a)'
    BY <1>1, <1>2, <1>5 DEF Well, ProfileOK
  <2>2. \A q \in Requests : \A t : Wrote(q, t) => Wrote(q, t)'
    BY <1>1, <1>2, <1>5, RosterAssumption DEF Wrote, Early, Is, Actors
  <2>3. StudentOK(a)'
    BY <1>1, <1>2, <1>4, <1>5, <2>2 DEF PeopleOK, StudentOK
  <2>4. Kept(a) => Kept(a)'
    BY <1>1, <1>4 DEF Kept, Removed, Completed, Is
  <2>5. Well' /\ PeopleOK'
    BY <1>1, <1>3, <1>4, <1>5, <2>1, <2>3, <2>4, OthersPeopleByProfile
  <2>6. \A r \in Requests : pc'[r] = pc[r] /\ local'[r] = local[r]
    BY <1>3, <1>5, RosterAssumption DEF Moves, Actors
  <2> QED
    BY <1>1, <2>5, <2>6, RowsAside DEF Inv
<1>6. CASE a \in Requests
  <2>1. KindOK(a) /\ Filled(a) /\ pc[a] \notin {"idle", "done", "failed"}
    BY <1>1, <1>6 DEF Well, Over
  <2>2. KindOK(a)' /\ Filled(a)'
    BY <1>1, <1>2, <2>1 DEF KindOK, Filled, Is, StaffLabels, CourseLabels, StudentLabels
  <2>3. Well'
    BY <1>1, <1>3, <1>4, <1>6, <2>2, OthersWell
  <2>4. local'[a] = local[a] /\ StepOf(a, {local[a].kind})
    BY <1>1, <1>2, <1>3, <1>4, <2>1 DEF StepOf
  <2>5. AdminsOf(a)'
    <3>1. \A b : Associated(b) => Associated(b)'
      BY <1>6, <2>4, AssociatedKept
    <3> QED
      BY <1>1, <1>2, <1>4, <1>6, <2>4, <3>1 DEF AdminsOK, AdminsOf, Is
  <2>6. AdminsOK'
    BY <1>1, <1>4, <1>6, <2>4, <2>5, SameAdmins
  <2>7. Made(a) => Made(a)'
    BY <1>2, <2>4 DEF Made, Making
  <2>8. \A c : Made(c) => Made(c)'
    BY <1>3, <2>7 DEF Made, Moves, Actors
  <2>9. CatalogueOf(a)'
    <3>1. CatalogueOf(a)
      BY <1>1, <1>6 DEF CatalogueOK
    <3>2. local'[a].kind \in {"editCourse", "deleteCourse", "deleteCourseAPI"} => Made(local[a].course)'
      BY <2>4, <2>8, <3>1 DEF CatalogueOf, CoursesOf, Made
    <3>3. CoursesOf(a)'
      BY <1>2, <1>4, <2>4, <2>8, <3>1, <3>2 DEF CatalogueOf, CoursesOf, Is
    <3>4. EventsOf(a)'
      BY <1>1, <1>2, <1>4, <1>6, <2>4, <3>1, FoundKept, EditedKept DEF CatalogueOf, EventsOf, Is
    <3>5. Orphan(a)' => Is(a, "createSchool")' /\ pc'[a] \in {"insertSchool", "failed"}
      BY <1>2, <1>4, <2>4, <3>1 DEF CatalogueOf, Orphan, Is
    <3> QED
      BY <3>3, <3>4, <3>5 DEF CatalogueOf
  <2>10. CatalogueOK'
    BY <1>1, <1>4, <1>6, <2>4, <2>7, <2>9, SameCatalogue
  <2>11. SeenKept(a) /\ KeptBy(a)'
    BY <1>2, <2>4 DEF SeenKept, KeptBy
  <2>12. PeopleOK'
    BY <1>1, <1>4, <1>6, <2>4, <2>11, OthersPeople
  <2> QED
    BY <2>3, <2>6, <2>10, <2>12 DEF Inv
<1> QED
  BY <1>5, <1>6 DEF Actors

-----------------------------------------------------------------------------
(* The requests and the profiles together.                                 *)

LEMMA Apart == /\ StaffKinds \cap CourseKinds = {} /\ CourseKinds \cap StaffKinds = {}
               /\ StaffKinds \cap StudentKinds = {} /\ StudentKinds \cap StaffKinds = {}
               /\ CourseKinds \cap StudentKinds = {} /\ StudentKinds \cap CourseKinds = {}
  BY DEF StaffKinds, CourseKinds, StudentKinds

LEMMA InitInv == Init => Inv
<1> SUFFICES ASSUME Init PROVE Inv
  OBVIOUS
<1>1. Well
  BY WellInit
<1>2. /\ \A a \in Actors : pc[a] = "idle" /\ local[a] = Blank
      /\ \A r \in Requests : audit[r] = {} /\ admins[r] = None /\ courses[r] = None
      /\ \A s \in Students : ~users[s].tempSchool
  BY DEF Init
<1>3. Blank.kind = None /\ Blank.seen = None
  BY DEF Blank
<1>4. \A r \in Requests : local[r].kind = None /\ local[r].kind \notin Kinds /\ pc[r] = "idle"
  BY <1>2, <1>3, RosterAssumption DEF Actors
<1>5. AdminsOK
  BY <1>2, <1>4 DEF AdminsOK, AdminsOf, StaffKinds, Kinds, Is
<1>6. CatalogueOK
  BY <1>2, <1>4 DEF CatalogueOK, CatalogueOf, CoursesOf, EventsOf, Orphan, Kinds, Is
<1>7. \A s \in Students : pc[s] = "idle" /\ local[s].seen = None
  BY <1>2, <1>3 DEF Actors
<1>8. PeopleOK
  BY <1>2, <1>4, <1>7 DEF PeopleOK, KeptBy, StudentOK
<1> QED
  BY <1>1, <1>5, <1>6, <1>8 DEF Inv

LEMMA StepInv == Inv /\ [Next]_vars => Inv'
<1> SUFFICES ASSUME Inv, [Next]_vars PROVE Inv'
  OBVIOUS
<1>. Well /\ AdminsOK /\ CatalogueOK /\ PeopleOK
  BY DEF Inv
<1>1. ASSUME NEW r \in Requests, StaffStep(r) PROVE Inv'
  <2>1. Well' /\ AdminsOK' /\ StepOf(r, StaffKinds) /\ UNCHANGED <<catalogue, people>>
    BY <1>1, StaffKeeps
  <2>2. UNCHANGED <<courses, events, users>>
    BY <2>1 DEF catalogue, people
  <2> QED
    BY <2>1, <2>2, Apart, CatalogueAside, PeopleAside DEF Inv
<1>2. ASSUME NEW r \in Requests, SchoolStep(r) \/ CourseStep(r) PROVE Inv'
  <2>1. Well' /\ CatalogueOK' /\ StepOf(r, CourseKinds) /\ UNCHANGED <<staff, users>>
    BY <1>2, CourseKeeps
  <2>2. UNCHANGED <<admins, users>>
    BY <2>1 DEF staff
  <2> QED
    BY <2>1, <2>2, Apart, AdminsAside, PeopleAside DEF Inv
<1>3. ASSUME NEW r \in Requests, StudentStep(r) PROVE Inv'
  <2>1. Well' /\ PeopleOK' /\ StepOf(r, StudentKinds) /\ UNCHANGED <<staff, catalogue>>
    BY <1>3, StudentKeeps
  <2>2. UNCHANGED admins /\ UNCHANGED <<courses, events>>
    BY <2>1 DEF staff, catalogue
  <2> QED
    BY <2>1, <2>2, Apart, AdminsAside, CatalogueAside DEF Inv
<1>4. ASSUME NEW s \in Students, ProfileStep(s) PROVE Inv'
  <2>1. Well' /\ PeopleOK' /\ Moves(s) /\ UNCHANGED <<staff, catalogue, audit>>
    BY <1>4, ProfileKeeps
  <2>2. \A r \in Requests : pc'[r] = pc[r] /\ local'[r] = local[r]
    BY <2>1, RosterAssumption DEF Moves, Actors
  <2> QED
    BY <2>1, <2>2, RowsAside DEF Inv
<1>5. CASE UNCHANGED vars
  <2>1. UNCHANGED <<staff, catalogue, people, audit, pc, local>>
    BY <1>5 DEF vars
  <2>2. AdminsOK' /\ CatalogueOK'
    BY <2>1, RowsAside
  <2>3. Well'
    <3>1. TypeOK'
      BY <2>1 DEF Well, TypeOK, staff, catalogue, people
    <3>2. ASSUME NEW r \in Requests PROVE KindOK(r)'
      BY <2>1 DEF Well, KindOK, Is, Blank
    <3>3. ASSUME NEW r \in Requests PROVE Filled(r)'
      BY <2>1 DEF Well, Filled, Is, people
    <3>4. \A s \in Students : ProfileOK(s)'
      BY <2>1 DEF Well, ProfileOK
    <3> QED
      BY <3>1, <3>2, <3>3, <3>4 DEF Well
  <2>4. PeopleOK'
    BY <2>1 DEF PeopleOK, KeptBy, StudentOK, Kept, Removed, Completed, Wrote, Twice, Early, Is, people
  <2> QED
    BY <2>2, <2>3, <2>4 DEF Inv
<1> QED
  BY <1>1, <1>2, <1>3, <1>4, <1>5, FailKeeps DEF Next

LEMMA InvHolds == Spec => []Inv
  BY InitInv, StepInv, PTL DEF Spec

(* Rows, log and locals hold what they stand for.                          *)
THEOREM RosterTypes == Spec => []TypeOK
<1>1. Inv => TypeOK
  BY DEF Inv, Well
<1> QED
  BY <1>1, InvHolds, PTL

(* What the log says was removed, of administrators or of a course, is     *)
(* gone for good, whatever failed or was removed in between: a row is      *)
(* inserted once, by the request that names it, and the log is written     *)
(* after.                                                                  *)
THEOREM AuditTrue == Spec => []AuditMatchesRemovals
<1>1. Inv => AuditMatchesRemovals
  <2> SUFFICES ASSUME Inv, NEW r \in Requests, local[r].kind \in {"deleteAdmin", "deleteCourse"},
                      NEW x \in audit[r]
               PROVE  Gone(x)
    BY DEF AuditMatchesRemovals
  <2>1. CASE Is(r, "deleteAdmin")
    <3>1. Associated(x) /\ admins[x] = None
      BY <2>1 DEF Inv, AdminsOK, AdminsOf
    <3>2. ~Made(x) /\ x \in Requests
      BY <3>1 DEF Associated, Made, Is
    <3> QED
      BY <3>1, <3>2 DEF Gone, Inv, CatalogueOK, CatalogueOf, CoursesOf
  <2>2. CASE Is(r, "deleteCourse")
    <3>1. Made(x) /\ courses[x] = None
      BY <2>2 DEF Inv, CatalogueOK, CatalogueOf, CoursesOf
    <3>2. ~Associated(x) /\ x \in Requests
      BY <3>1 DEF Associated, Made, Is
    <3> QED
      BY <3>1, <3>2 DEF Gone, Inv, AdminsOK
  <2> QED
    BY <2>1, <2>2 DEF Is
<1> QED
  BY <1>1, InvHolds, PTL

(* A course that its pages can neither edit nor delete was written by the  *)
(* creation of a school that has not come to link it, or never will.       *)
THEOREM OrphanCourses == Spec => []OrphanCourseHasCause
<1>1. Inv => OrphanCourseHasCause
  BY DEF Inv, CatalogueOK, CatalogueOf, Orphan, OrphanCourseHasCause
<1> QED
  BY <1>1, InvHolds, PTL

(* A course goes by the name of its event until some request has found an  *)
(* event by a name, or the course is edited.                               *)
THEOREM MissingEvents == Spec => []MissingEventHasCause
<1>1. Inv => MissingEventHasCause
  <2> SUFFICES ASSUME Inv, NEW c \in Requests, Is(c, "createCourse"), courses[c] # None,
                      ~courses[c].academic, \A e \in Requests : events[e] # courses[c].name
               PROVE  Found \/ Edited(c)
    BY DEF MissingEventHasCause, Found, Edited
  <2>1. EventsOf(c)
    BY DEF Inv, CatalogueOK, CatalogueOf
  <2> QED
    BY <2>1 DEF EventsOf
<1> QED
  BY <1>1, InvHolds, PTL

(* Whoever was answered that a student is associated is right, and nobody  *)
(* who has completed his profile carries the school in his user row, but   *)
(* for the removals, failures and early reads that are named.              *)
THEOREM Associations == Spec => []AssociationsHaveCause
<1>1. Inv => AssociatedStudentIsKept
  <2> SUFFICES ASSUME Inv, NEW r \in Requests, Is(r, "associate"), pc[r] = "done"
               PROVE  Kept(local[r].student)
    BY DEF AssociatedStudentIsKept, Kept, Removed, Completed
  <2> QED
    BY DEF Inv, PeopleOK, KeptBy
<1>2. Inv => TempSchoolHasCause
  BY DEF Inv, PeopleOK, StudentOK, Twice, TempSchoolHasCause
<1> QED
  BY <1>1, <1>2, InvHolds, PTL DEF AssociationsHaveCause
=============================================================================
