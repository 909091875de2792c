------------------------- MODULE AcademicStructure -------------------------
(***************************************************************************)
(* Subjects and internships of an institution, and the semesters and       *)
(* curricula that list them.  A request reads what is there and what is    *)
(* listed, and writes in a later statement; nothing but that read keeps a  *)
(* component from being written, or listed, twice; nothing keeps one body  *)
(* from saying, or naming, the same twice.                                 *)
(***************************************************************************)
EXTENDS Handlers, Naturals

CONSTANTS Hours,        \* what a component says: its hours stand for the rest
          Most,         \* bound: length of the lists of a body
          Syllabi       \* bodies of curricula: what they say of either sort, as lists

VARIABLES components,   \* Subjects and Internships rows
          curricula,    \* Curriculum rows
          semesters,    \* Semester rows: their curriculum
          links,        \* SemesterSubjects and CurriculumInternships rows
          study         \* what a handler has of them

academicTables == <<components, curricula, semesters, links>>
academicVars == <<academicTables, study>>

Sorts == {"subject", "internship"}

Places == 1..Most

(* The row that a request makes of what its body says at a place.          *)
Component == Sorts \X Makers \X Places

Sort(c) == c[1]

FirstOf(s) == <<s, 1>>          \* the first of its list

(* Subjects are listed by semesters, internships by curricula.             *)
Link == [component : Component, holder : Makers, by : Makers, place : Places]

Said == [Sorts \X Places -> Hours \cup {None}]

ASSUME AcademicsAssumption == /\ Hours \subseteq Nat /\ Hours # {}
                              /\ Most \in Nat \ {0}
                              /\ Syllabi \subseteq Said
                              /\ None \notin Hours \cup Component

Study == [component : Component \cup {None},
          body : Said,
          curriculums : [Places -> Makers \cup {None}],    \* of an internship: a list
          holders : SUBSET Makers,
          compared : SUBSET Component,  \* history: the rows there when it looked for an equal one
          seen : SUBSET Link]           \* links it read

Listed(s) == IF s = "subject" THEN {m \in Makers : semesters[m] # None} ELSE curricula

AcademicsTypeOK ==
  /\ components \in [Component -> Hours \cup {None}]
  /\ curricula \subseteq Makers
  /\ semesters \in [Makers -> curricula \cup {None}]
  /\ links \subseteq Link
  /\ \A l \in links : components[l.component] # None /\ l.holder \in Listed(Sort(l.component))
  /\ study \in [Handlers -> Study]

-----------------------------------------------------------------------------
NoStudy == [component |-> None, body |-> [x \in Sorts \X Places |-> None],
            curriculums |-> [p \in Places |-> None], holders |-> {},
            compared |-> {}, seen |-> {}]

RefuseStudy(r) == Goto(r, "refused") /\ UNCHANGED academicVars

Ask(r, k, l, requests) ==
  /\ Start(r, k, l)
  /\ \E s \in requests : study' = [study EXCEPT ![r] = s]
  /\ UNCHANGED academicTables

(* A request says what is to be written, or names components, or who is to *)
(* list them or no longer, or both.                                        *)
Says(s, h, L) == [NoStudy EXCEPT !.body[FirstOf(s)] = h, !.curriculums = L]

Saying(s, LL) == {Says(s, h, L) : h \in Hours, L \in LL}

(* Lists of members of S, which may name one more than once.               *)
Lists(S) == {L \in [Places -> S \cup {None}] :
               \A p \in Places \ {1} : L[p] # None => L[p - 1] # None}

Names(c, G) == [NoStudy EXCEPT !.component = c, !.holders = G]

Naming(C, H) == {Names(c, G) : c \in C, G \in H}

Rows(s) == {c \in Component : Sort(c) = s /\ components[c] # None}

One(S) == {{x} : x \in S}

Some(S) == SUBSET S \ {{}}

CreateSubject(r) == Ask(r, "createSubject", "insertRows", Saying("subject", Lists({})))

CreateInternship(r) ==
  Ask(r, "createInternship", "findInternship", Saying("internship", Lists(curricula)))

(* A curriculum comes with a semester, and one without it throws.          *)
CreateCurriculum(r) ==
  Ask(r, "createCurriculum", "findSubject",
      {[NoStudy EXCEPT !.body = b] : b \in Syllabi})

(* A semester that comes with subjects throws.                             *)
CreateSemester(r) == Ask(r, "createSemester", "readSemesters", Naming({None}, One(curricula)))

(* The edit of an internship looks its institution up by nothing: it       *)
(* throws.                                                                 *)
EditSubject(r) ==
  Ask(r, "editSubject", "readComponent",
      {[s EXCEPT !.body[FirstOf("subject")] = h] : s \in Naming(Rows("subject"), {{}}), h \in Hours})

DeleteSubject(r) == Ask(r, "deleteComponent", "readComponent", Naming(Rows("subject"), {{}}))

DeleteInternship(r) == Ask(r, "deleteComponent", "readComponent", Naming(Rows("internship"), {{}}))

AddSubjectToSemester(r) ==
  Ask(r, "addSubject", "readComponent", Naming(Rows("subject"), Some(Listed("subject"))))

RemoveSubjectFromSemester(r) ==
  Ask(r, "removeSubject", "readComponent", Naming(Rows("subject"), Some(Listed("subject"))))

(* The same from the side of the semester or the curriculum.  Subjects are *)
(* not removed from that side: their ids are taken for those of the links. *)
AddSubjectsToSemester(r) ==
  Ask(r, "addToHolder", "readHolder", Naming(Rows("subject"), One(Listed("subject"))))

AddInternshipsToCurriculum(r) ==
  Ask(r, "addToHolder", "readHolder", Naming(Rows("internship"), One(curricula)))

RemoveInternshipsFromCurriculum(r) ==
  Ask(r, "removeInternship", "readHolder", Naming(Rows("internship"), One(curricula)))

DeleteCurriculum(r) ==
  Ask(r, "deleteCurriculum", "removeHolder", Naming({None}, One(curricula)))

DeleteSemester(r) ==
  Ask(r, "deleteSemester", "removeHolder", Naming({None}, One(Listed("subject"))))

-----------------------------------------------------------------------------
(* An equal subject of anybody, or an equal internship, is not written     *)
(* again: a creation of it is answered with it, and a curriculum does      *)
(* without it.  What a body says is not compared with the rest of the      *)
(* body.                                                                   *)
Known(s, h) == \E c \in Rows(s) : components[c] = h

Unknown(s, body) ==
  [x \in Sorts \X Places |-> IF x[1] = s /\ Known(s, body[x]) THEN None ELSE body[x]]

FindEqual(r, s) ==
  LET body == study[r].body
      next == IF s = "subject" THEN "findInternship" ELSE "insertRows"
  IN  IF kind[r] = "createInternship" /\ Known(s, body[FirstOf(s)])
      THEN Goto(r, "done") /\ UNCHANGED academicVars
      ELSE /\ study' = [study EXCEPT ![r].body = Unknown(s, @), ![r].compared = @ \cup Rows(s)]
           /\ Goto(r, next)
           /\ UNCHANGED academicTables

CheckSubject(r) == pc[r] = "findSubject" /\ FindEqual(r, "subject")

CheckInternship(r) == pc[r] = "findInternship" /\ FindEqual(r, "internship")

(* Who is to list what r writes, and its place in the body.                *)
Listing(r) ==
  IF kind[r] = "createCurriculum" THEN {FirstOf(r)}
  ELSE {x \in Makers \X Places : study[r].curriculums[x[2]] = x[1]}

NewLinks(r, C, L) ==
  {[component |-> c, holder |-> x[1], by |-> r, place |-> x[2]] : c \in C, x \in L}

(* One statement: components, the curriculum with its semester, and links, *)
(* one for each time the body names a curriculum.                          *)
InsertRows(r) ==
  /\ pc[r] = "insertRows"
  /\ LET saying(c) == study[r].body[<<c[1], c[3]>>]
         made == {c \in Component : c[2] = r /\ saying(c) # None}
         curriculum == kind[r] = "createCurriculum"
     IN  IF ~curriculum /\ \E x \in Listing(r) : x[1] \notin curricula THEN RefuseStudy(r)
         ELSE /\ components' = [c \in Component |-> IF c \in made THEN saying(c) ELSE components[c]]
              /\ curricula' = IF curriculum THEN curricula \cup {r} ELSE curricula
              /\ semesters' = IF curriculum THEN [semesters EXCEPT ![r] = r] ELSE semesters
              /\ links' = links \cup NewLinks(r, made, Listing(r))
              /\ Goto(r, "done")
              /\ UNCHANGED study

(* The first semester tells the owner: without any it throws.  A number    *)
(* that is taken refuses the semester, here or by the index.               *)
GetCurriculumSemesters(r) ==
  /\ pc[r] = "readSemesters"
  /\ \/ RefuseStudy(r)
     \/ /\ \E m \in Makers : semesters[m] \in study[r].holders
        /\ Goto(r, "insertSemester")
        /\ UNCHANGED academicVars

InsertSemester(r) ==
  /\ pc[r] = "insertSemester"
  /\ \/ RefuseStudy(r)
     \/ \E m \in study[r].holders \cap curricula :
          /\ semesters' = [semesters EXCEPT ![r] = m]
          /\ Goto(r, "done")
          /\ UNCHANGED <<components, curricula, links, study>>

AfterComponent(r) == IF kind[r] = "editSubject" THEN "editRow"
                ELSE IF kind[r] = "deleteComponent" THEN "removeComponent" ELSE "findSemesters"

GetSubjectById(r) ==
  /\ pc[r] = "readComponent"
  /\ LET c == study[r].component
     IN  IF components[c] = None THEN RefuseStudy(r)
         ELSE /\ study' = [study EXCEPT ![r].seen = {l \in links : l.component = c}]
              /\ Goto(r, AfterComponent(r))
              /\ UNCHANGED academicTables

(* Mutant: semesters that list the subject are not left out.               *)
AllSemesters(r, valid, linked) == IF kind[r] = "addSubject" THEN valid ELSE valid \cap linked

(* What remains of the semesters a request names.                          *)
Chosen(r, valid, linked) == IF kind[r] = "addSubject" THEN valid \ linked ELSE valid \cap linked

GetValidSemestersIds(r) ==
  /\ pc[r] = "findSemesters"
  /\ LET chosen == Chosen(r, study[r].holders \cap Listed("subject"), {l.holder : l \in study[r].seen})
     IN  IF chosen = {} THEN RefuseStudy(r)
         ELSE /\ study' = [study EXCEPT ![r].holders = chosen]
              /\ Goto(r, "writeLinks")
              /\ UNCHANGED academicTables

(* From this side the filter of an addition is inverted: it keeps what is  *)
(* listed already, and lists it again.                                     *)
GetHolder(r) ==
  /\ pc[r] = "readHolder"
  /\ LET seen == {l \in links : l.holder \in study[r].holders /\ l.component = study[r].component}
     IN  IF seen = {} THEN RefuseStudy(r)
         ELSE /\ study' = [study EXCEPT ![r].seen = seen]
              /\ Goto(r, "writeLinks")
              /\ UNCHANGED academicTables

(* One statement, which is refused if a row it names is gone.              *)
WriteLinks(r) ==
  /\ pc[r] = "writeLinks"
  /\ LET c == study[r].component
         H == study[r].holders
     IN  IF \/ kind[r] # "removeInternship" /\ components[c] = None
            \/ kind[r] # "removeSubject" /\ ~(H \subseteq Listed(Sort(c)))
         THEN RefuseStudy(r)
         ELSE /\ links' = IF kind[r] \in {"addSubject", "addToHolder"}
                          THEN links \cup NewLinks(r, {c}, H \X {1})
                          ELSE {l \in links : l.component # c \/ l.holder \notin H}
              /\ Goto(r, "done")
              /\ UNCHANGED <<components, curricula, semesters, study>>

EditRow(r) ==
  /\ pc[r] = "editRow"
  /\ LET c == study[r].component
     IN  IF components[c] = None THEN RefuseStudy(r)
         ELSE /\ components' = [components EXCEPT ![c] = study[r].body[FirstOf("subject")]]
              /\ Goto(r, "done")
              /\ UNCHANGED <<curricula, semesters, links, study>>

(* Links go with what they link.                                           *)
RemoveComponent(r) ==
  /\ pc[r] = "removeComponent"
  /\ LET c == study[r].component
     IN  IF components[c] = None THEN RefuseStudy(r)
         ELSE /\ components' = [components EXCEPT ![c] = None]
              /\ links' = {l \in links : l.component # c}
              /\ Goto(r, "done")
              /\ UNCHANGED <<curricula, semesters, study>>

RemoveHolder(r) ==
  /\ pc[r] = "removeHolder"
  /\ LET whole == kind[r] = "deleteCurriculum"
         H == study[r].holders
         gone == IF whole THEN {m \in Makers : semesters[m] \in H} ELSE H
     IN  IF ~(H \subseteq IF whole THEN curricula ELSE Listed("subject")) THEN RefuseStudy(r)
         ELSE /\ curricula' = IF whole THEN curricula \ H ELSE curricula
              /\ semesters' = [m \in Makers |-> IF m \in gone THEN None ELSE semesters[m]]
              /\ links' = {l \in links : l.holder \notin IF Sort(l.component) = "subject" THEN gone
                                                        ELSE IF whole THEN H ELSE {}}
              /\ Goto(r, "done")
              /\ UNCHANGED <<components, study>>

(* A subject and an internship from before, with the semester and the      *)
(* curriculum that list them.                                              *)
AcademicsInit ==
  /\ components = [c \in Component |-> IF c[2] = Former /\ c[3] = 1 THEN CHOOSE h \in Hours : TRUE
                                       ELSE None]
  /\ curricula = {Former}
  /\ semesters = [m \in Makers |-> IF m = Former THEN Former ELSE None]
  /\ links = NewLinks(Former, Sorts \X {Former} \X {1}, {FirstOf(Former)})
  /\ study = [a \in Handlers |-> NoStudy]

AcademicsStep(r) ==
  \/ CreateSubject(r) \/ CreateInternship(r) \/ CreateCurriculum(r) \/ CreateSemester(r)
  \/ EditSubject(r) \/ DeleteSubject(r) \/ DeleteInternship(r)
  \/ AddSubjectToSemester(r) \/ RemoveSubjectFromSemester(r)
  \/ AddSubjectsToSemester(r) \/ AddInternshipsToCurriculum(r) \/ RemoveInternshipsFromCurriculum(r)
  \/ DeleteCurriculum(r) \/ DeleteSemester(r)
  \/ CheckSubject(r) \/ CheckInternship(r) \/ InsertRows(r)
  \/ GetCurriculumSemesters(r) \/ InsertSemester(r)
  \/ GetSubjectById(r) \/ GetValidSemestersIds(r) \/ GetHolder(r) \/ WriteLinks(r)
  \/ EditRow(r) \/ RemoveComponent(r) \/ RemoveHolder(r)

-----------------------------------------------------------------------------
(* Properties.                                                             *)

(* A body that says the same of two internships, or names a curriculum at  *)
(* two places.                                                             *)
SaysTwice(r, h) == \E p, q \in Places : /\ p # q
                                       /\ study[r].body[<<"internship", p>>] = h
                                       /\ study[r].body[<<"internship", q>>] = h

NamesTwice(r, m) ==
  \E p, q \in Places : p # q /\ study[r].curriculums[p] = m /\ study[r].curriculums[q] = m

LinkCause(l, m) ==
  \/ \E r \in {l.by, m.by} \cap Requests : kind[r] = "addToHolder"
  \/ l.by = m.by /\ l.by \in Requests /\ NamesTwice(l.by, l.holder)
  \/ /\ l.by # m.by /\ {l.by, m.by} \subseteq Requests
     /\ l \notin study[m.by].seen /\ m \notin study[l.by].seen

RowCause(c, d) ==
  /\ {c[2], d[2]} \subseteq Requests
  /\ \/ c[2] = d[2] /\ SaysTwice(c[2], components[c])
     \/ c[2] # d[2] /\ d \notin study[c[2]].compared /\ c \notin study[d[2]].compared

(* A component is listed twice only by an addition from the side of what   *)
(* lists it, by a creation that names the curriculum twice, or by two      *)
(* additions neither of which had read the other's; an internship is there *)
(* twice only by a curriculum that says it twice, or by two creations      *)
(* neither of which was compared with the other's.                         *)
RepeatsHaveCause ==
  /\ \A l, m \in links :
       l # m /\ l.component = m.component /\ l.holder = m.holder => LinkCause(l, m)
  /\ \A c, d \in Rows("internship") :
       c # d /\ components[c] = components[d] => RowCause(c, d)
=============================================================================
