------------------------- MODULE GrowthTables_proofs -------------------------
(***************************************************************************)
(* Proofs about the tables of Growth: repeated rows of the academic        *)
(* structure, the PDFs of resumes, the skills of development plans, the    *)
(* hours of learning paths, and the types of all of them.  Each part has   *)
(* its inductive invariant: StudyInv, ResumeInv, PlanInv, HoursInv.        *)
(***************************************************************************)
EXTENDS Growth_proofs, FiniteSetTheorems, SequenceTheorems, WellFoundedInduction

-----------------------------------------------------------------------------
(* Subjects, internships and what lists them.                              *)

(* Who made a row has come to an end.                                      *)
Settled(m) == m \in Requests => pc[m] = "done"

(* Labels at which a request has named a component.                        *)
NamingLabels == {"readComponent", "findSemesters", "readHolder", "writeLinks", "editRow",
                 "removeComponent"}

(* The edit of a subject says what it is to be.                            *)
EditOK(r) ==
  pc[r] = "editRow" \/ (pc[r] = "readComponent" /\ kind[r] = "editSubject") =>
    Sort(study[r].component) = "subject" /\ study[r].body[FirstOf("subject")] # None

(* Only a curriculum lists the subjects it comes with.                     *)
ListOK(r) ==
  /\ pc[r] \in {"findSubject", "findInternship", "insertRows"} /\ kind[r] # "createCurriculum"
  /\ \E p \in Places : study[r].body[<<"subject", p>>] # None
  => \A p \in Places : study[r].curriculums[p] = None

(* An internship about to be written differs from those it was compared    *)
(* with, and those of before are among these.                              *)
ComparedOK(r) ==
  pc[r] = "insertRows" =>
    \A p \in Places :
      study[r].body[<<"internship", p>>] # None =>
        /\ \A c \in study[r].compared :
             Sort(c) = "internship" => components[c] # study[r].body[<<"internship", p>>]
        /\ \A c \in Component :
             Sort(c) = "internship" /\ c[2] = Former /\ components[c] # None =>
               c \in study[r].compared

(* An addition to a subject has seen its links of before, and is not for   *)
(* who holds one that it has seen.                                         *)
SeenOK(r) ==
  kind[r] = "addSubject" =>
    /\ pc[r] \in {"findSemesters", "writeLinks"} =>
         \A l \in links : l.by = Former /\ l.component = study[r].component => l \in study[r].seen
    /\ pc[r] = "writeLinks" =>
         \A l \in study[r].seen : l.holder \notin study[r].holders
    /\ pc[r] # "readHolder"

(* What a request has read was written by those who have come to an end.   *)
StudyOK(r) ==
  /\ \A l \in study[r].seen : Settled(l.by)
  /\ \A c \in study[r].compared : Settled(c[2])
  /\ pc[r] \in NamingLabels => study[r].component \in Component
  /\ EditOK(r) /\ ListOK(r) /\ ComparedOK(r) /\ SeenOK(r)

StudyInv ==
  /\ AcademicsTypeOK
  /\ RepeatsHaveCause
  /\ \A c \in Component : components[c] # None => Settled(c[2])
  /\ \A l \in links : Settled(l.by)
  /\ \A r \in Requests : StudyOK(r)

LEMMA ComponentParts ==
  /\ \A c \in Component : /\ Sort(c) \in Sorts /\ c[2] \in Makers /\ c[3] \in Places
                          /\ c = <<Sort(c), c[2], c[3]>> /\ c[1] = Sort(c)
  /\ 1 \in Places
BY AcademicsAssumption DEF Component, Sort, Places

(* What a request does not touch of the causes stays.                      *)
LEMMA LinkCauseStays ==
  ASSUME NEW l, NEW m, LinkCause(l, m),
         \A q \in {l.by, m.by} \cap Requests : kind'[q] = kind[q] /\ study'[q] = study[q]
  PROVE  LinkCause(l, m)'
BY DEF LinkCause, NamesTwice

LEMMA RowCauseStays ==
  ASSUME NEW c, NEW d, RowCause(c, d), components'[c] = components[c],
         \A q \in {c[2], d[2]} \cap Requests : study'[q] = study[q]
  PROVE  RowCause(c, d)'
BY DEF RowCause, SaysTwice

LEMMA RequestFacts ==
  ASSUME NEW r \in Requests
  PROVE  r \in Handlers /\ r \in Makers /\ r # Former /\ r # None
BY HandlersAssumption DEF Handlers, Makers

LEMMA StudyInit == Init => StudyInv
<1> SUFFICES ASSUME Init PROVE StudyInv
  OBVIOUS
<1>1. /\ components = [c \in Component |-> IF c[2] = Former /\ c[3] = 1 THEN CHOOSE h \in Hours : TRUE
                                           ELSE None]
      /\ curricula = {Former}
      /\ semesters = [m \in Makers |-> IF m = Former THEN Former ELSE None]
      /\ links = NewLinks(Former, Sorts \X {Former} \X {1}, {FirstOf(Former)})
      /\ study = [a \in Handlers |-> NoStudy]
      /\ pc = [a \in Handlers |-> "idle"]
  BY DEF Init, AcademicsInit, ControlInit
<1>2. (CHOOSE h \in Hours : TRUE) \in Hours /\ None \notin Hours
  BY AcademicsAssumption
<1>3. Former \in Makers /\ Former # None /\ Former \notin Requests
  BY HandlersAssumption DEF Makers, Handlers
<1>4. NoStudy \in Study
  BY DEF NoStudy, Study, Said
<1>5. ASSUME NEW l \in links
      PROVE  /\ l \in Link /\ l.by = Former /\ l.holder = Former /\ l.place = 1
             /\ components[l.component] # None /\ l.component[2] = Former
  <2>1. PICK c \in Sorts \X {Former} \X {1} :
          l = [component |-> c, holder |-> Former, by |-> Former, place |-> 1]
    BY <1>1 DEF NewLinks, FirstOf
  <2>2. c \in Component /\ c[2] = Former /\ c[3] = 1
    BY <1>3, ComponentParts DEF Component
  <2> QED
    BY <1>1, <1>2, <1>3, <2>1, <2>2, ComponentParts DEF Link
<1>6. AcademicsTypeOK
  <2>1. components \in [Component -> Hours \cup {None}]
    BY <1>1, <1>2
  <2>2. curricula \subseteq Makers /\ semesters \in [Makers -> curricula \cup {None}]
    BY <1>1, <1>3
  <2>3. \A l \in links : l.holder \in Listed(Sort(l.component))
    BY <1>1, <1>3, <1>5 DEF Listed
  <2>4. study \in [Handlers -> Study]
    BY <1>1, <1>4
  <2> QED
    BY <1>5, <2>1, <2>2, <2>3, <2>4 DEF AcademicsTypeOK
<1>7. RepeatsHaveCause
  <2>1. \A l, m \in links : l.component = m.component /\ l.holder = m.holder => l = m
    BY <1>5 DEF Link
  <2>2. \A c \in Rows("internship") :
          Sort(c) = "internship" /\ c[2] = Former /\ c[3] = 1 /\ c \in Component
    BY <1>1 DEF Rows
  <2>3. \A c, d \in Rows("internship") : c = d
    BY <2>2, ComponentParts
  <2> QED
    BY <2>1, <2>3 DEF RepeatsHaveCause
<1>8. \A c \in Component : components[c] # None => Settled(c[2])
  BY <1>1, <1>3 DEF Settled
<1>9. \A l \in links : Settled(l.by)
  BY <1>3, <1>5 DEF Settled
<1>10. ASSUME NEW r \in Requests PROVE StudyOK(r)
  <2>1. pc[r] = "idle" /\ study[r].seen = {} /\ study[r].compared = {}
    BY <1>1, RequestFacts DEF NoStudy
  <2> QED
    BY <2>1 DEF StudyOK, EditOK, ListOK, ComparedOK, SeenOK, NamingLabels
<1> QED
  BY <1>6, <1>7, <1>8, <1>9, <1>10 DEF StudyInv

(* Who has come to an end stays there.                                     *)
LEMMA SettledStays ==
  ASSUME NEW a \in Handlers, Moves(a), pc[a] # "done"
  PROVE  \A m : Settled(m) => Settled(m)' /\ (m \in Requests => kind'[m] = kind[m])
BY DEF Settled, Moves, Handlers

(* What StudyOK says of a request that does not move stays true of tables  *)
(* that change in the same way.                                            *)
LEMMA StudyOfOthers ==
  ASSUME StudyInv, NEW a \in Handlers, Moves(a), pc[a] # "done",
         NEW r \in Requests, r # a, study'[r] = study[r],
         \A l \in links' : l.by = Former => l \in links,
         \A c \in Component : Sort(c) = "internship" /\ Settled(c[2]) =>
            components'[c] \in {components[c], None}
  PROVE  StudyOK(r)'
<1>1. pc'[r] = pc[r] /\ kind'[r] = kind[r]
  BY DEF Moves, Handlers
<1>2. StudyOK(r) /\ study[r] \in Study
  BY RequestFacts DEF StudyInv, AcademicsTypeOK
<1>3. /\ \A l \in study[r].seen : Settled(l.by)'
      /\ \A c \in study[r].compared : Settled(c[2])'
  BY <1>2, SettledStays DEF StudyOK
<1>4. EditOK(r)' /\ ListOK(r)' /\ SeenOK(r)'
  BY <1>1, <1>2 DEF StudyOK, EditOK, ListOK, SeenOK, Sort
<1>5. ComparedOK(r)'
  <2> SUFFICES ASSUME pc[r] = "insertRows", NEW p \in Places, study[r].body[<<"internship", p>>] # None
               PROVE  /\ \A c \in study[r].compared : Sort(c) = "internship" =>
                           components'[c] # study[r].body[<<"internship", p>>]
                      /\ \A c \in Component :
                           Sort(c) = "internship" /\ c[2] = Former /\ components'[c] # None =>
                             c \in study[r].compared
    BY <1>1 DEF ComparedOK, Sort
  <2>1. \A c \in study[r].compared : c \in Component /\ Settled(c[2])
    BY <1>2 DEF StudyOK, Study
  <2>2. Settled(Former)
    BY HandlersAssumption DEF Settled, Handlers
  <2> QED
    BY <1>2, <2>1, <2>2 DEF StudyOK, ComparedOK
<1>6. pc'[r] \in NamingLabels => study'[r].component \in Component
  BY <1>1, <1>2 DEF StudyOK
<1> QED
  BY <1>3, <1>4, <1>5, <1>6 DEF StudyOK

(* A step of others, or one that refuses.                                  *)
LEMMA StudyFrame ==
  ASSUME StudyInv, NEW a \in Handlers, Moves(a), UNCHANGED academicVars,
         pc[a] # "done", pc'[a] \notin StudyLabels
  PROVE  StudyInv'
<1>1. /\ UNCHANGED <<components, curricula, semesters, links, study>>
      /\ \A m : Settled(m) => Settled(m)' /\ (m \in Requests => kind'[m] = kind[m])
  BY SettledStays DEF academicVars, academicTables
<1>2. AcademicsTypeOK'
  BY <1>1 DEF StudyInv, AcademicsTypeOK, Listed
<1>3. RepeatsHaveCause'
  <2>1. \A l \in links : Settled(l.by)
    BY DEF StudyInv
  <2>2. \A l, m \in links : LinkCause(l, m) => LinkCause(l, m)'
    BY <1>1, <2>1, LinkCauseStays
  <2>3. \A c, d : RowCause(c, d) => RowCause(c, d)'
    BY <1>1, RowCauseStays
  <2> QED
    BY <1>1, <2>2, <2>3 DEF StudyInv, RepeatsHaveCause, Rows
<1>4. ASSUME NEW r \in Requests PROVE StudyOK(r)'
  <2>1. CASE r # a
    BY <1>1, <2>1, StudyOfOthers
  <2>2. CASE r = a
    <3>1. StudyOK(r)
      BY DEF StudyInv
    <3> QED
      BY <1>1, <2>2, <3>1 DEF StudyOK, EditOK, ListOK, ComparedOK, SeenOK, NamingLabels, StudyLabels
  <2> QED
    BY <2>1, <2>2
<1> QED
  BY <1>1, <1>2, <1>3, <1>4 DEF StudyInv

(* A request that reads.                                                   *)
LEMMA StudyReads ==
  ASSUME StudyInv, NEW r \in Requests, Moves(r), pc[r] # "done", UNCHANGED academicTables,
         NEW s \in Study, study' = [study EXCEPT ![r] = s], StudyOK(r)'
  PROVE  StudyInv'
<1>1. /\ UNCHANGED <<components, curricula, semesters, links>> /\ r \in Handlers
      /\ \A m : Settled(m) => Settled(m)' /\ (m \in Requests => kind'[m] = kind[m])
  BY SettledStays, RequestFacts DEF academicTables
<1>2. AcademicsTypeOK'
  BY <1>1 DEF StudyInv, AcademicsTypeOK, Listed
<1>3. \A m : m \in Requests /\ Settled(m) => study'[m] = study[m]
  BY <1>1, RequestFacts DEF Settled, StudyInv, AcademicsTypeOK
<1>4. RepeatsHaveCause'
  <2>1. \A l \in links : Settled(l.by)
    BY DEF StudyInv
  <2>2. \A c \in Rows("internship") : Settled(c[2])
    BY DEF StudyInv, Rows
  <2>3. \A l, m \in links : LinkCause(l, m) => LinkCause(l, m)'
    BY <1>1, <1>3, <2>1, LinkCauseStays
  <2>4. \A c, d \in Rows("internship") : RowCause(c, d) => RowCause(c, d)'
    BY <1>1, <1>3, <2>2, RowCauseStays
  <2> QED
    BY <1>1, <2>3, <2>4 DEF StudyInv, RepeatsHaveCause, Rows
<1>5. ASSUME NEW q \in Requests, q # r PROVE StudyOK(q)'
  BY <1>1, <1>5, StudyOfOthers, RequestFacts DEF StudyInv, AcademicsTypeOK
<1> QED
  BY <1>1, <1>2, <1>4, <1>5 DEF StudyInv

(* A request that writes rows of its own, changes no internship but to     *)
(* delete it, and ends.                                                    *)
LEMMA StudyWrites ==
  ASSUME StudyInv, NEW r \in Requests, Moves(r), pc[r] # "done", pc'[r] = "done", study' = study,
         AcademicsTypeOK', RepeatsHaveCause',
         \A c \in Component : components'[c] # None => components[c] # None \/ c[2] = r,
         \A c \in Component : Sort(c) = "internship" /\ c[2] # r =>
            components'[c] \in {components[c], None},
         \A l \in links' : l \in links \/ l.by = r
  PROVE  StudyInv'
<1>1. /\ r \in Handlers /\ r # Former
      /\ \A m : Settled(m) => Settled(m)' /\ (m \in Requests => kind'[m] = kind[m])
      /\ Settled(r)'
  BY SettledStays, RequestFacts DEF Settled
<1>2. ASSUME NEW q \in Requests, q # r PROVE StudyOK(q)'
  <2>1. \A l \in links' : l.by = Former => l \in links
    BY <1>1
  <2>2. ~Settled(r)
    BY DEF Settled
  <2> QED
    BY <1>1, <1>2, <2>1, <2>2, StudyOfOthers
<1>3. StudyOK(r)'
  <2>1. StudyOK(r)
    BY DEF StudyInv
  <2> QED
    BY <1>1, <2>1 DEF StudyOK, EditOK, ListOK, ComparedOK, SeenOK, NamingLabels
<1> QED
  BY <1>1, <1>2, <1>3 DEF StudyInv

(* What a request brings along.                                            *)
Fresh(s) == s \in Study /\ s.seen = {} /\ s.compared = {}

LEMMA ListFacts ==
  ASSUME NEW S \in SUBSET Makers, NEW L \in Lists(S)
  PROVE  L \in [Places -> Makers \cup {None}] /\ (S = {} => \A p \in Places : L[p] = None)
BY DEF Lists

LEMMA SayingFacts ==
  ASSUME NEW t \in Sorts, NEW LL \in SUBSET [Places -> Makers \cup {None}], NEW s \in Saying(t, LL)
  PROVE  /\ Fresh(s) /\ s.curriculums \in LL
         /\ \A u \in Sorts \ {t}, p \in Places : s.body[<<u, p>>] = None
<1>1. PICK h \in Hours, L \in LL : s = Says(t, h, L)
  BY DEF Saying
<1> DEFINE b == [[x \in Sorts \X Places |-> None] EXCEPT ![<<t, 1>>] = h]
<1>2. s = [component |-> None, body |-> b, curriculums |-> L, holders |-> {},
           compared |-> {}, seen |-> {}]
  BY <1>1 DEF Says, NoStudy, FirstOf
<1>3. b \in Said /\ \A u \in Sorts \ {t}, p \in Places : b[<<u, p>>] = None
  BY ComponentParts DEF Said
<1>4. L \in [Places -> Makers \cup {None}]
  OBVIOUS
<1> HIDE DEF b
<1> QED
  BY <1>2, <1>3, <1>4 DEF Fresh, Study

LEMMA NamingFacts ==
  ASSUME NEW C \in SUBSET (Component \cup {None}), NEW H \in SUBSET (SUBSET Makers),
         NEW s \in Naming(C, H)
  PROVE  /\ Fresh(s) /\ s.component \in C /\ s.holders \in H
         /\ \A x \in Sorts \X Places : s.body[x] = None
<1>1. PICK c \in C, G \in H : s = Names(c, G)
  BY DEF Naming
<1>2. s = [component |-> c, body |-> [x \in Sorts \X Places |-> None],
           curriculums |-> [p \in Places |-> None], holders |-> G, compared |-> {}, seen |-> {}]
  BY <1>1 DEF Names, NoStudy
<1> QED
  BY <1>2 DEF Fresh, Study, Said

LEMMA AskKeeps ==
  ASSUME ControlOK, StudyInv, NEW r \in Requests, NEW k \in StudyKinds, NEW l \in StudyLabels,
         NEW S, Ask(r, k, l, S),
         l \notin {"findSemesters", "writeLinks", "editRow"},
         \A s \in S :
           /\ Fresh(s)
           /\ l \in NamingLabels => s.component \in Component
           /\ k = "editSubject" => Sort(s.component) = "subject" /\ s.body[FirstOf("subject")] # None
           /\ l \in {"findSubject", "findInternship", "insertRows"} /\ k # "createCurriculum" =>
                \/ \A p \in Places : s.curriculums[p] = None
                \/ \A p \in Places : s.body[<<"subject", p>>] = None
           /\ l = "insertRows" => \A p \in Places : s.body[<<"internship", p>>] = None
           /\ l = "readHolder" => k # "addSubject"
  PROVE  StudyInv'
<1>1. r \in Handlers /\ Start(r, k, l) /\ UNCHANGED academicTables
  BY RequestFacts DEF Ask
<1>2. Moves(r) /\ pc[r] = "idle" /\ pc'[r] = l /\ kind'[r] = k
  BY <1>1, StartMoves DEF Labels, OtherLabels, Kinds
<1>3. PICK s \in S : study' = [study EXCEPT ![r] = s]
  BY DEF Ask
<1>4. study'[r] = s /\ s \in Study /\ s.seen = {} /\ s.compared = {}
  BY <1>1, <1>3 DEF StudyInv, AcademicsTypeOK, Fresh
<1>5. StudyOK(r)'
  BY <1>2, <1>3, <1>4 DEF StudyOK, EditOK, ListOK, ComparedOK, SeenOK, NamingLabels, Sort
<1> QED
  BY <1>1, <1>2, <1>3, <1>4, <1>5, StudyReads

LEMMA AsksKeep ==
  ASSUME ControlOK, StudyInv, NEW r \in Requests,
         \/ CreateSubject(r) \/ CreateInternship(r) \/ CreateCurriculum(r) \/ CreateSemester(r)
         \/ EditSubject(r) \/ DeleteSubject(r) \/ DeleteInternship(r)
         \/ AddSubjectToSemester(r) \/ RemoveSubjectFromSemester(r)
         \/ AddSubjectsToSemester(r) \/ AddInternshipsToCurriculum(r)
         \/ RemoveInternshipsFromCurriculum(r) \/ DeleteCurriculum(r) \/ DeleteSemester(r)
  PROVE  StudyInv'
<1> USE DEF StudyKinds, StudyLabels, NamingLabels
<1>0. /\ curricula \in SUBSET Makers /\ Listed("subject") \in SUBSET Makers
      /\ "subject" \in Sorts /\ "internship" \in Sorts
  BY DEF StudyInv, AcademicsTypeOK, Listed, Sorts
<1>a. \A t \in Sorts : \A c \in Rows(t) : c \in Component /\ Sort(c) = t
  BY DEF Rows
<1>b. \A t \in Sorts : Rows(t) \in SUBSET (Component \cup {None})
  BY <1>a
<1>c. /\ {{}} \in SUBSET (SUBSET Makers)
      /\ One(curricula) \in SUBSET (SUBSET Makers)
      /\ One(Listed("subject")) \in SUBSET (SUBSET Makers)
      /\ Some(Listed("subject")) \in SUBSET (SUBSET Makers)
  BY <1>0 DEF One, Some
<1>e. /\ Lists({}) \subseteq [Places -> Makers \cup {None}]
      /\ Lists(curricula) \subseteq [Places -> Makers \cup {None}]
      /\ \A L \in Lists({}) : \A p \in Places : L[p] = None
  BY <1>0, ListFacts
<1>d. ASSUME NEW t \in Sorts, NEW H \in SUBSET (SUBSET Makers), NEW s \in Naming(Rows(t), H)
      PROVE  Fresh(s) /\ s.component \in Component /\ Sort(s.component) = t
  BY <1>a, <1>b, NamingFacts
<1>1. CASE CreateSubject(r)
  <2>1. ASSUME NEW s \in Saying("subject", Lists({}))
        PROVE  /\ Fresh(s) /\ \A p \in Places : s.curriculums[p] = None
               /\ \A p \in Places : s.body[<<"internship", p>>] = None
    BY <1>0, <1>e, SayingFacts
  <2>2. Ask(r, "createSubject", "insertRows", Saying("subject", Lists({})))
    BY <1>1 DEF CreateSubject
  <2> QED
    BY <2>1, <2>2, AskKeeps
<1>2. CASE CreateInternship(r)
  <2>1. ASSUME NEW s \in Saying("internship", Lists(curricula))
        PROVE  Fresh(s) /\ \A p \in Places : s.body[<<"subject", p>>] = None
    BY <1>0, <1>e, SayingFacts
  <2>2. Ask(r, "createInternship", "findInternship", Saying("internship", Lists(curricula)))
    BY <1>2 DEF CreateInternship
  <2> QED
    BY <2>1, <2>2, AskKeeps
<1>3. CASE CreateCurriculum(r)
  <2> DEFINE S == {[NoStudy EXCEPT !.body = b] : b \in Syllabi}
  <2>1. \A s \in S : Fresh(s)
    BY AcademicsAssumption DEF Fresh, NoStudy, Study
  <2>2. Ask(r, "createCurriculum", "findSubject", S)
    BY <1>3 DEF CreateCurriculum
  <2> HIDE DEF S
  <2> QED
    BY <2>1, <2>2, AskKeeps
<1>4. CASE CreateSemester(r)
  <2>1. \A s \in Naming({None}, One(curricula)) : Fresh(s)
    BY <1>c, NamingFacts
  <2>2. Ask(r, "createSemester", "readSemesters", Naming({None}, One(curricula)))
    BY <1>4 DEF CreateSemester
  <2> QED
    BY <2>1, <2>2, AskKeeps
<1>5. CASE EditSubject(r)
  <2> DEFINE S == {[s EXCEPT !.body[FirstOf("subject")] = h] : s \in Naming(Rows("subject"), {{}}), h \in Hours}
  <2>1. ASSUME NEW x \in S
        PROVE  Fresh(x) /\ x.component \in Component /\ Sort(x.component) = "subject"
               /\ x.body[FirstOf("subject")] # None
    <3>1. PICK s \in Naming(Rows("subject"), {{}}), h \in Hours : x = [s EXCEPT !.body[FirstOf("subject")] = h]
      OBVIOUS
    <3>2. Fresh(s) /\ s.component \in Component /\ Sort(s.component) = "subject"
      BY <1>0, <1>c, <1>d
    <3>3. s \in Study /\ s.seen = {} /\ s.compared = {}
      BY <3>2 DEF Fresh
    <3>4. x = [s EXCEPT !.body = [s.body EXCEPT ![FirstOf("subject")] = h]]
      BY <3>1, <3>3 DEF Study
    <3>5. x.component = s.component /\ x.seen = {} /\ x.compared = {} /\ x.holders = s.holders
          /\ x.body = [s.body EXCEPT ![FirstOf("subject")] = h]
      BY <3>3, <3>4 DEF Study
    <3>6. [s.body EXCEPT ![FirstOf("subject")] = h] \in Said
          /\ [s.body EXCEPT ![FirstOf("subject")] = h][FirstOf("subject")] # None
      BY <1>0, <3>3, AcademicsAssumption, ComponentParts DEF Study, Said, FirstOf
    <3>7. x \in Study
      BY <3>3, <3>4, <3>6 DEF Study
    <3> QED
      BY <3>2, <3>5, <3>6, <3>7 DEF Fresh
  <2>2. Ask(r, "editSubject", "readComponent", S)
    BY <1>5 DEF EditSubject
  <2> HIDE DEF S
  <2> QED
    BY <2>1, <2>2, AskKeeps
<1>6. CASE DeleteSubject(r) \/ DeleteInternship(r)
  <2>1. PICK t \in Sorts : Ask(r, "deleteComponent", "readComponent", Naming(Rows(t), {{}}))
    BY <1>0, <1>6 DEF DeleteSubject, DeleteInternship
  <2>2. \A s \in Naming(Rows(t), {{}}) : Fresh(s) /\ s.component \in Component
    BY <1>c, <1>d
  <2> QED
    BY <2>1, <2>2, AskKeeps
<1>7. CASE AddSubjectToSemester(r) \/ RemoveSubjectFromSemester(r)
  <2>1. PICK k \in {"addSubject", "removeSubject"} :
          Ask(r, k, "readComponent", Naming(Rows("subject"), Some(Listed("subject"))))
    BY <1>7 DEF AddSubjectToSemester, RemoveSubjectFromSemester
  <2>2. \A s \in Naming(Rows("subject"), Some(Listed("subject"))) : Fresh(s) /\ s.component \in Component
    BY <1>0, <1>c, <1>d
  <2> QED
    BY <2>1, <2>2, AskKeeps
<1>8. CASE AddSubjectsToSemester(r) \/ AddInternshipsToCurriculum(r) \/ RemoveInternshipsFromCurriculum(r)
  <2>1. PICK k \in {"addToHolder", "removeInternship"}, t \in Sorts, H \in {One(curricula), One(Listed("subject"))} :
          Ask(r, k, "readHolder", Naming(Rows(t), H))
    BY <1>0, <1>8 DEF AddSubjectsToSemester, AddInternshipsToCurriculum, RemoveInternshipsFromCurriculum
  <2>2. \A s \in Naming(Rows(t), H) : Fresh(s) /\ s.component \in Component
    BY <1>c, <1>d
  <2> QED
    BY <2>1, <2>2, AskKeeps
<1>9. CASE DeleteCurriculum(r) \/ DeleteSemester(r)
  <2>1. PICK k \in {"deleteCurriculum", "deleteSemester"}, H \in {One(curricula), One(Listed("subject"))} :
          Ask(r, k, "removeHolder", Naming({None}, H))
    BY <1>9 DEF DeleteCurriculum, DeleteSemester
  <2>2. H \in SUBSET (SUBSET Makers) /\ {None} \in SUBSET (Component \cup {None})
    BY <1>c
  <2>3. \A s \in Naming({None}, H) : Fresh(s)
    BY <2>2, NamingFacts
  <2>4. /\ k \in StudyKinds /\ k # "editSubject" /\ "removeHolder" \in StudyLabels
        /\ "removeHolder" \notin NamingLabels \cup {"findSubject", "findInternship", "insertRows"}
    OBVIOUS
  <2> HIDE DEF StudyKinds, StudyLabels, NamingLabels
  <2> QED
    BY <2>1, <2>3, <2>4, AskKeeps
<1> QED
  BY <1>1, <1>2, <1>3, <1>4, <1>5, <1>6, <1>7, <1>8, <1>9

(* A creation looks for equal rows.                                        *)
LEMMA FindKeeps ==
  ASSUME ControlOK, StudyInv, NEW r \in Requests, CheckSubject(r) \/ CheckInternship(r)
  PROVE  StudyInv'
<1>0. r \in Handlers /\ study[r] \in Study /\ StudyOK(r)
  BY RequestFacts DEF StudyInv, AcademicsTypeOK
<1>1. PICK s \in Sorts : /\ FindEqual(r, s)
                         /\ pc[r] = IF s = "subject" THEN "findSubject" ELSE "findInternship"
  BY DEF CheckSubject, CheckInternship, Sorts
<1> DEFINE answered == kind[r] = "createInternship" /\ Known(s, study[r].body[FirstOf(s)])
           next == IF s = "subject" THEN "findInternship" ELSE "insertRows"
<1>2. CASE answered
  <2>1. Goto(r, "done") /\ UNCHANGED academicVars
    BY <1>1, <1>2 DEF FindEqual
  <2>2. Moves(r) /\ pc'[r] = "done" /\ pc[r] # "done"
    BY <1>0, <1>1, <2>1, GotoMoves DEF Labels, Over
  <2> QED
    BY <1>0, <2>1, <2>2, StudyFrame DEF StudyLabels
<1>3. CASE ~answered
  <2> DEFINE body == study[r].body
             new == Unknown(s, body)
             row == [study[r] EXCEPT !.body = new, !.compared = study[r].compared \cup Rows(s)]
  <2>1. /\ study' = [study EXCEPT ![r].body = new, ![r].compared = @ \cup Rows(s)]
        /\ Goto(r, next) /\ UNCHANGED academicTables
    BY <1>0, <1>1, <1>3 DEF FindEqual, StudyInv, AcademicsTypeOK
  <2>2. study' = [study EXCEPT ![r] = row]
    BY <1>0, <2>1 DEF StudyInv, AcademicsTypeOK
  <2>3. Moves(r) /\ pc'[r] = next /\ kind' = kind /\ pc[r] # "done"
    BY <1>0, <1>1, <2>1, GotoMoves DEF Labels, OtherLabels, StudyLabels
  <2>4. /\ body \in Said /\ new \in Said /\ Rows(s) \subseteq Component
        /\ \A x \in Sorts \X Places : /\ new[x] \in {body[x], None}
                                      /\ x[1] # s => new[x] = body[x]
                                      /\ x[1] = s /\ new[x] # None => ~Known(s, new[x])
    BY <1>0 DEF Study, Said, Unknown, Rows
  <2> HIDE DEF new
  <2>5. row \in Study
    BY <1>0, <2>4 DEF Study
  <2>6. /\ row.body = new /\ row.compared = study[r].compared \cup Rows(s)
        /\ row.curriculums = study[r].curriculums /\ row.seen = study[r].seen
    BY <1>0 DEF Study
  <2>7. study'[r] = row
    BY <1>0, <2>2 DEF StudyInv, AcademicsTypeOK
  <2>8. \A c \in row.compared : Settled(c[2]) /\ c \in Component
    BY <1>0, <2>4, <2>6 DEF StudyOK, StudyInv, Rows, Study
  <2>9. /\ \A l \in row.seen : Settled(l.by)'
        /\ \A c \in row.compared : Settled(c[2])'
    BY <1>0, <2>3, <2>6, <2>8, SettledStays DEF StudyOK
  <2>10. ASSUME pc'[r] = "insertRows", NEW p \in Places, row.body[<<"internship", p>>] # None
         PROVE  /\ \A c \in row.compared :
                     Sort(c) = "internship" => components[c] # row.body[<<"internship", p>>]
                /\ \A c \in Component :
                     Sort(c) = "internship" /\ components[c] # None => c \in row.compared
    <3>1. s = "internship"
      BY <1>1, <2>3, <2>10 DEF Sorts
    <3>2. ~Known(s, row.body[<<"internship", p>>])
      BY <2>4, <2>6, <2>10, <3>1
    <3>3. ASSUME NEW c \in Component, Sort(c) = "internship", components[c] # None
          PROVE  c \in Rows(s) /\ components[c] # row.body[<<"internship", p>>]
      BY <3>1, <3>2, <3>3 DEF Rows, Known
    <3> QED
      BY <2>6, <2>8, <2>10, <3>3
  <2>11. ListOK(r)'
    <3> SUFFICES ASSUME pc'[r] \in {"findInternship", "insertRows"}, kind[r] # "createCurriculum",
                        NEW p \in Places, row.body[<<"subject", p>>] # None
                 PROVE  \A q \in Places : row.curriculums[q] = None
      BY <2>3, <2>7 DEF ListOK
    <3>1. body[<<"subject", p>>] # None
      BY <1>1, <2>4, <2>6 DEF Sorts
    <3> QED
      BY <1>0, <1>1, <2>6, <3>1 DEF StudyOK, ListOK
  <2>12. StudyOK(r)'
    <3>1. pc'[r] \in {"findInternship", "insertRows"}
      BY <2>3
    <3> HIDE DEF row, next, body
    <3>2. EditOK(r)' /\ SeenOK(r)' /\ pc'[r] \notin NamingLabels
      BY <3>1 DEF EditOK, SeenOK, NamingLabels
    <3>3. ComparedOK(r)'
      BY <2>1, <2>7, <2>10 DEF ComparedOK, Sort, academicTables
    <3> QED
      BY <2>7, <2>9, <2>11, <3>2, <3>3 DEF StudyOK
  <2> HIDE DEF row, next, body
  <2> QED
    BY <2>1, <2>2, <2>3, <2>5, <2>12, StudyReads
<1> QED
  BY <1>2, <1>3

LEMMA RefuseStudyKeeps ==
  ASSUME ControlOK, StudyInv, NEW r \in Requests, RefuseStudy(r), pc[r] \in StudyLabels
  PROVE  StudyInv'
<1>1. r \in Handlers /\ Goto(r, "refused") /\ UNCHANGED academicVars
  BY RequestFacts DEF RefuseStudy
<1>2. Moves(r) /\ pc'[r] = "refused"
  BY <1>1, GotoMoves DEF Labels, Over
<1> QED
  BY <1>1, <1>2, StudyFrame DEF StudyLabels

(* A request reads what it is about, and links of it.                      *)
LEMMA StudyRowsKeep ==
  ASSUME ControlOK, StudyInv, NEW r \in Requests,
         GetCurriculumSemesters(r) \/ GetSubjectById(r) \/ GetValidSemestersIds(r) \/ GetHolder(r)
  PROVE  StudyInv'
<1>0. r \in Handlers /\ study[r] \in Study /\ StudyOK(r) /\ links \subseteq Link
      /\ DOMAIN study = Handlers /\ \A l \in links : Settled(l.by)
  BY RequestFacts DEF StudyInv, AcademicsTypeOK
<1>a. CASE RefuseStudy(r)
  <2>1. pc[r] \in StudyLabels
    BY DEF GetCurriculumSemesters, GetSubjectById, GetValidSemestersIds, GetHolder, StudyLabels
  <2> QED
    BY <1>a, <2>1, RefuseStudyKeeps
<1>1. CASE GetCurriculumSemesters(r) /\ ~RefuseStudy(r)
  <2>1. pc[r] = "readSemesters" /\ Goto(r, "insertSemester") /\ UNCHANGED academicVars
    BY <1>1 DEF GetCurriculumSemesters
  <2>2. Moves(r) /\ pc'[r] = "insertSemester" /\ kind' = kind
    BY <1>0, <2>1, GotoMoves DEF Labels, OtherLabels, StudyLabels
  <2>3. /\ UNCHANGED academicTables /\ study' = study
        /\ \A m : Settled(m) => Settled(m)'
    BY <1>0, <2>1, <2>2, SettledStays DEF academicVars
  <2>4. StudyOK(r)'
    BY <1>0, <2>2, <2>3 DEF StudyOK, EditOK, ListOK, ComparedOK, SeenOK, NamingLabels
  <2>5. study' = [study EXCEPT ![r] = study[r]]
    BY <1>0, <2>3 DEF StudyInv, AcademicsTypeOK
  <2> QED
    BY <1>0, <2>1, <2>2, <2>3, <2>4, <2>5, StudyReads
<1>2. CASE GetSubjectById(r) /\ ~RefuseStudy(r)
  <2> DEFINE c == study[r].component
             seen == {l \in links : l.component = c}
             row == [study[r] EXCEPT !.seen = seen]
  <2>1. pc[r] = "readComponent" /\ study' = [study EXCEPT ![r] = row]
        /\ Goto(r, AfterComponent(r)) /\ UNCHANGED academicTables
    BY <1>0, <1>2 DEF GetSubjectById
  <2>2. Moves(r) /\ pc'[r] = AfterComponent(r) /\ kind' = kind
    BY <1>0, <2>1, GotoMoves DEF AfterComponent, Labels, OtherLabels, StudyLabels
  <2>3. row \in Study /\ study'[r] = row
    BY <1>0, <2>1 DEF Study
  <2>4. row.seen = seen /\ row.component = c /\ row.body = study[r].body
        /\ row.compared = study[r].compared /\ row.curriculums = study[r].curriculums
    BY <1>0 DEF Study
  <2>5. /\ \A l \in row.seen : Settled(l.by)'
        /\ \A d \in row.compared : Settled(d[2])'
    BY <1>0, <2>1, <2>2, <2>4, SettledStays DEF StudyOK
  <2>6. c \in Component
    BY <1>0, <2>1 DEF StudyOK, NamingLabels
  <2>7. EditOK(r)'
    BY <1>0, <2>1, <2>2, <2>3, <2>4 DEF StudyOK, EditOK, AfterComponent, Sort
  <2>8. SeenOK(r)'
    <3>1. links' = links /\ pc'[r] \notin {"writeLinks", "readHolder"}
      BY <2>1, <2>2 DEF academicTables, AfterComponent
    <3> QED
      BY <2>3, <2>4, <3>1 DEF SeenOK
  <2>9. ListOK(r)' /\ ComparedOK(r)'
    BY <2>2 DEF ListOK, ComparedOK, AfterComponent
  <2> HIDE DEF row, seen
  <2>10. StudyOK(r)'
    BY <2>3, <2>4, <2>5, <2>6, <2>7, <2>8, <2>9 DEF StudyOK
  <2> QED
    BY <2>1, <2>2, <2>3, <2>10, StudyReads
<1>3. CASE GetValidSemestersIds(r) /\ ~RefuseStudy(r)
  <2> DEFINE linked == {l.holder : l \in study[r].seen}
             chosen == Chosen(r, study[r].holders \cap Listed("subject"), linked)
             row == [study[r] EXCEPT !.holders = chosen]
  <2>1. pc[r] = "findSemesters" /\ study' = [study EXCEPT ![r] = row]
        /\ Goto(r, "writeLinks") /\ UNCHANGED academicTables
    BY <1>0, <1>3 DEF GetValidSemestersIds
  <2>2. Moves(r) /\ pc'[r] = "writeLinks" /\ kind' = kind
    BY <1>0, <2>1, GotoMoves DEF Labels, OtherLabels, StudyLabels
  <2>3. chosen \subseteq study[r].holders /\ (kind[r] = "addSubject" => chosen \cap linked = {})
    BY DEF Chosen
  <2>4. row \in Study /\ study'[r] = row
    BY <1>0, <2>1, <2>3 DEF Study
  <2>5. row.seen = study[r].seen /\ row.component = study[r].component /\ row.holders = chosen
        /\ row.compared = study[r].compared
    BY <1>0 DEF Study
  <2>6. /\ \A l \in row.seen : Settled(l.by)'
        /\ \A d \in row.compared : Settled(d[2])'
    BY <1>0, <2>1, <2>2, <2>5, SettledStays DEF StudyOK
  <2>7. SeenOK(r)'
    <3>1. links' = links
      BY <2>1 DEF academicTables
    <3>2. kind[r] = "addSubject" => \A l \in study[r].seen : l.holder \notin chosen
      BY <2>3
    <3> HIDE DEF row, chosen
    <3> QED
      BY <1>0, <2>1, <2>2, <2>4, <2>5, <3>1, <3>2 DEF StudyOK, SeenOK
  <2>8. EditOK(r)' /\ ListOK(r)' /\ ComparedOK(r)'
    BY <2>2 DEF EditOK, ListOK, ComparedOK
  <2>9. row.component \in Component
    BY <1>0, <2>1, <2>5 DEF StudyOK, NamingLabels
  <2> HIDE DEF row, chosen
  <2>10. StudyOK(r)'
    BY <2>4, <2>6, <2>7, <2>8, <2>9 DEF StudyOK
  <2> QED
    BY <2>1, <2>2, <2>4, <2>10, StudyReads
<1>4. CASE GetHolder(r) /\ ~RefuseStudy(r)
  <2> DEFINE seen == {l \in links : l.holder \in study[r].holders /\ l.component = study[r].component}
             row == [study[r] EXCEPT !.seen = seen]
  <2>1. pc[r] = "readHolder" /\ study' = [study EXCEPT ![r] = row]
        /\ Goto(r, "writeLinks") /\ UNCHANGED academicTables
    BY <1>0, <1>4 DEF GetHolder
  <2>2. Moves(r) /\ pc'[r] = "writeLinks" /\ kind' = kind
    BY <1>0, <2>1, GotoMoves DEF Labels, OtherLabels, StudyLabels
  <2>3. row \in Study /\ study'[r] = row
    BY <1>0, <2>1 DEF Study
  <2>4. row.seen = seen /\ row.component = study[r].component
        /\ row.compared = study[r].compared
    BY <1>0 DEF Study
  <2>5. /\ \A l \in row.seen : Settled(l.by)'
        /\ \A d \in row.compared : Settled(d[2])'
    BY <1>0, <2>1, <2>2, <2>4, SettledStays DEF StudyOK
  <2>6. row.component \in Component /\ kind[r] # "addSubject"
    BY <1>0, <2>1, <2>4 DEF StudyOK, SeenOK, NamingLabels
  <2>7. EditOK(r)' /\ ListOK(r)' /\ ComparedOK(r)' /\ SeenOK(r)'
    BY <2>2, <2>6 DEF EditOK, ListOK, ComparedOK, SeenOK
  <2> HIDE DEF row, seen
  <2>8. StudyOK(r)'
    BY <2>3, <2>5, <2>6, <2>7 DEF StudyOK
  <2> QED
    BY <2>1, <2>2, <2>3, <2>8, StudyReads
<1> QED
  BY <1>a, <1>1, <1>2, <1>3, <1>4

(* A new row's maker has no row of the sort, nor a link, yet.              *)
LEMMA UnmadeRows ==
  ASSUME StudyInv, NEW r \in Requests, pc[r] # "done"
  PROVE  /\ \A c \in Component : c[2] = r => components[c] = None
         /\ \A l \in links : l.by # r /\ l.component[2] # r
BY DEF StudyInv, Settled, AcademicsTypeOK, Link

LEMMA InsertRowsKeeps ==
  ASSUME ControlOK, StudyInv, NEW r \in Requests, InsertRows(r)
  PROVE  StudyInv'
<1>0. /\ r \in Handlers /\ r \in Makers /\ r # Former /\ r # None
      /\ study[r] \in Study /\ StudyOK(r) /\ pc[r] = "insertRows" /\ links \subseteq Link
  BY RequestFacts DEF StudyInv, AcademicsTypeOK, InsertRows
<1>a. CASE RefuseStudy(r)
  BY <1>0, <1>a, RefuseStudyKeeps DEF StudyLabels
<1>1. CASE ~RefuseStudy(r)
  <2> DEFINE body == study[r].body
             said(c) == body[<<c[1], c[3]>>]
             made == {c \in Component : c[2] = r /\ said(c) # None}
             curriculum == kind[r] = "createCurriculum"
             listing == Listing(r)
             new == NewLinks(r, made, listing)
  <2>1. /\ curriculum \/ \A x \in listing : x[1] \in curricula
        /\ components' = [c \in Component |-> IF c \in made THEN said(c) ELSE components[c]]
        /\ curricula' = IF curriculum THEN curricula \cup {r} ELSE curricula
        /\ semesters' = IF curriculum THEN [semesters EXCEPT ![r] = r] ELSE semesters
        /\ links' = links \cup new
        /\ Goto(r, "done") /\ study' = study
    BY <1>0, <1>1 DEF InsertRows
  <2>2. Moves(r) /\ pc'[r] = "done"
    BY <1>0, <2>1, GotoMoves DEF Labels, Over
  <2>3. \A c \in Component : /\ c \notin made => components'[c] = components[c]
                             /\ c \in made => components'[c] = said(c) /\ components'[c] # None
    BY <2>1
  <2>b. /\ curriculum => \A x \in listing : x[1] = r /\ x[2] = 1
        /\ ~curriculum => \A x \in listing : study[r].curriculums[x[2]] = x[1] /\ x[1] # None
        /\ listing \subseteq Makers \X Places
    BY <1>0, ComponentParts, HandlersAssumption DEF Listing, FirstOf, Makers, Handlers
  <2>4. ASSUME NEW l \in new
        PROVE  /\ l.by = r /\ l.component \in made /\ <<l.holder, l.place>> \in listing
               /\ l.holder \in Makers /\ l \in Link
               /\ l = [component |-> l.component, holder |-> l.holder, by |-> r, place |-> l.place]
    <3>1. PICK c \in made, x \in listing :
            l = [component |-> c, holder |-> x[1], by |-> r, place |-> x[2]]
      BY DEF NewLinks
    <3>2. x = <<x[1], x[2]>> /\ x[1] \in Makers /\ x[2] \in Places
      BY <2>b, <3>1
    <3>3. c \in Component
      OBVIOUS
    <3> HIDE DEF made, listing
    <3> QED
      BY <1>0, <3>1, <3>2, <3>3 DEF Link
  <2>5. curricula \subseteq Makers /\ semesters \in [Makers -> curricula \cup {None}]
    BY <1>0 DEF StudyInv, AcademicsTypeOK, Study
  <2>6. /\ curricula' \subseteq Makers /\ curricula \subseteq curricula'
        /\ semesters' \in [Makers -> curricula' \cup {None}]
        /\ \A m \in Makers : semesters[m] # None => semesters'[m] # None
        /\ curriculum => semesters'[r] = r /\ r \in curricula'
    BY <1>0, <2>1, <2>5
  <2>7. \A l \in links : components'[l.component] # None /\ l.holder \in Listed(Sort(l.component))'
    <3> SUFFICES ASSUME NEW l \in links
                 PROVE  components'[l.component] # None /\ l.holder \in Listed(Sort(l.component))'
      OBVIOUS
    <3>1. /\ l.component \in Component /\ l.holder \in Makers /\ components[l.component] # None
          /\ l.holder \in Listed(Sort(l.component))
      BY <1>0 DEF StudyInv, AcademicsTypeOK, Link
    <3>2. components'[l.component] # None
      BY <2>3, <3>1
    <3>3. l.holder \in Listed(Sort(l.component))'
      BY <2>6, <3>1 DEF Listed, Sort
    <3> QED
      BY <3>2, <3>3
  <2>8. \A l \in new : components'[l.component] # None /\ l.holder \in Listed(Sort(l.component))'
    <3> SUFFICES ASSUME NEW l \in new
                 PROVE  components'[l.component] # None /\ l.holder \in Listed(Sort(l.component))'
      OBVIOUS
    <3>1. l.component \in made /\ <<l.holder, l.place>> \in listing /\ l.holder \in Makers
      BY <2>4
    <3>2. components'[l.component] # None
      BY <2>3, <3>1
    <3>3. CASE curriculum
      <4>1. l.holder = r /\ semesters'[r] # None /\ r \in curricula'
        BY <1>0, <2>6, <2>b, <3>1, <3>3
      <4> QED
        BY <1>0, <3>2, <4>1 DEF Listed, Sort
    <3>4. CASE ~curriculum
      <4>1. Sort(l.component) # "subject"
        <5>1. study[r].curriculums[l.place] # None /\ l.place \in Places
          BY <2>b, <3>1, <3>4
        <5>2. \A p \in Places : body[<<"subject", p>>] = None
          BY <1>0, <3>4, <5>1 DEF StudyOK, ListOK
        <5> QED
          BY <3>1, <5>2, ComponentParts
      <4>2. l.holder \in curricula
        BY <2>1, <3>1, <3>4
      <4> QED
        BY <2>1, <2>6, <3>1, <3>4, <4>1, <4>2 DEF Listed, Sort
    <3> QED
      BY <3>2, <3>3, <3>4
  <2>9. components' \in [Component -> Hours \cup {None}]
    <3>1. components \in [Component -> Hours \cup {None}] /\ body \in [Sorts \X Places -> Hours \cup {None}]
      BY <1>0 DEF StudyInv, AcademicsTypeOK, Study, Said
    <3>2. \A c \in Component : components'[c] \in Hours \cup {None}
      BY <2>1, <3>1, ComponentParts
    <3> QED
      BY <2>1, <3>2
  <2>10. links' \subseteq Link
    BY <1>0, <2>1, <2>4
  <2>11. AcademicsTypeOK'
    <3>1. \A l \in links' : components'[l.component] # None /\ l.holder \in Listed(Sort(l.component))'
      BY <2>1, <2>7, <2>8
    <3>2. study' \in [Handlers -> Study]
      BY <2>1 DEF StudyInv, AcademicsTypeOK
    <3> QED
      BY <2>6, <2>9, <2>10, <3>1, <3>2 DEF AcademicsTypeOK, Sort
  <2>u. /\ \A c \in Component : c[2] = r => components[c] = None
        /\ \A l \in links : l.by # r /\ l.component[2] # r
    BY <1>0, UnmadeRows
  <2>k. kind' = kind
    BY <2>1 DEF Goto
  <2>12. ASSUME NEW l \in links', NEW m \in links', l # m, l.component = m.component, l.holder = m.holder
         PROVE  LinkCause(l, m)'
    <3>1. ASSUME l \in new, m \in new
          PROVE  LinkCause(l, m)'
      <4>1. /\ l.by = r /\ m.by = r /\ <<l.holder, l.place>> \in listing
            /\ <<m.holder, m.place>> \in listing /\ l.place # m.place
        BY <2>4, <2>12, <3>1
      <4>2. ~curriculum
        BY <2>b, <4>1
      <4>3. /\ study[r].curriculums[l.place] = l.holder /\ study[r].curriculums[m.place] = l.holder
            /\ l.place \in Places /\ m.place \in Places
        BY <2>b, <2>12, <4>1, <4>2
      <4> QED
        BY <2>1, <4>1, <4>3 DEF LinkCause, NamesTwice
    <3>2. l \in new <=> m \in new
      BY <2>1, <2>4, <2>12, <2>u
    <3>3. CASE l \in links /\ m \in links
      <4>1. LinkCause(l, m)
        BY <2>12, <3>3 DEF StudyInv, RepeatsHaveCause
      <4> QED
        BY <2>1, <2>k, <4>1, LinkCauseStays
    <3> HIDE DEF new
    <3> QED
      BY <2>1, <3>1, <3>2, <3>3
  <2>13. ASSUME NEW c \in Component, NEW d \in Component, c # d,
                Sort(c) = "internship", Sort(d) = "internship",
                components'[c] # None, components'[c] = components'[d], c[2] = r
         PROVE  RowCause(c, d)' /\ RowCause(d, c)'
    <3>1. c \in made /\ components'[c] = body[<<"internship", c[3]>>]
          /\ c[3] \in Places /\ d[3] \in Places
      BY <2>3, <2>13, <2>u, ComponentParts
    <3>2. CASE d[2] = r
      <4>1. components'[d] = body[<<"internship", d[3]>>]
        BY <2>3, <2>13, <2>u, <3>2, ComponentParts
      <4>2. c[3] # d[3]
        BY <2>13, <3>2, ComponentParts
      <4> QED
        BY <2>1, <2>13, <3>1, <3>2, <4>1, <4>2 DEF RowCause, SaysTwice
    <3>3. CASE d[2] # r
      <4>1. d \notin made
        BY <3>3
      <4>2. components[d] = body[<<"internship", c[3]>>] /\ body[<<"internship", c[3]>>] # None
        BY <2>3, <2>13, <3>1, <4>1
      <4>3. d \notin study[r].compared /\ d[2] # Former
        BY <1>0, <2>13, <3>1, <4>2 DEF StudyOK, ComparedOK
      <4>4. d[2] \in Requests
        BY <4>3, ComponentParts DEF Makers
      <4>5. ~Settled(c[2])
        BY <1>0, <2>13 DEF Settled
      <4>6. c \notin study[d[2]].compared
        BY <4>4, <4>5 DEF StudyInv, StudyOK
      <4> QED
        BY <2>1, <2>13, <3>3, <4>3, <4>4, <4>6 DEF RowCause
    <3> QED
      BY <3>2, <3>3
  <2>14. RepeatsHaveCause'
    <3>1. ASSUME NEW c \in Component, NEW d \in Component, c # d,
                 Sort(c) = "internship", Sort(d) = "internship",
                 components'[c] # None, components'[c] = components'[d]
          PROVE  RowCause(c, d)'
      <4>1. CASE c[2] = r
        BY <2>13, <3>1, <4>1
      <4>2. CASE d[2] = r
        BY <2>13, <3>1, <4>2
      <4>3. CASE c[2] # r /\ d[2] # r
        <5>1. components'[c] = components[c] /\ components'[d] = components[d]
          BY <2>3, <4>3
        <5>2. RowCause(c, d)
          BY <3>1, <5>1 DEF StudyInv, RepeatsHaveCause, Rows
        <5> QED
          BY <2>1, <5>1, <5>2, RowCauseStays
      <4> QED
        BY <4>1, <4>2, <4>3
    <3> HIDE DEF made, new, listing, curriculum, body, said
    <3> QED
      BY <2>12, <3>1 DEF RepeatsHaveCause, Rows, Sort
  <2>15. /\ \A c \in Component : components'[c] # None => components[c] # None \/ c[2] = r
         /\ \A c \in Component : Sort(c) = "internship" /\ c[2] # r =>
              components'[c] \in {components[c], None}
         /\ \A l \in links' : l \in links \/ l.by = r
    BY <2>1, <2>3, <2>4
  <2> HIDE DEF made, new, listing, curriculum, body, said
  <2> QED
    BY <1>0, <2>1, <2>2, <2>11, <2>14, <2>15, StudyWrites
<1> QED
  BY <1>a, <1>1

(* What changes no component and adds no link to whom Repeats is about.    *)
LEMMA FewerRepeats ==
  ASSUME StudyInv, kind' = kind, study' = study, links' \subseteq links,
         \A c \in Component : Sort(c) = "internship" /\ components'[c] # None =>
            components'[c] = components[c]
  PROVE  RepeatsHaveCause'
<1>1. ASSUME NEW l \in links', NEW m \in links', l # m, l.component = m.component, l.holder = m.holder
      PROVE  LinkCause(l, m)'
  <2>1. LinkCause(l, m)
    BY <1>1 DEF StudyInv, RepeatsHaveCause
  <2> QED
    BY <2>1, LinkCauseStays
<1>2. ASSUME NEW c \in Component, NEW d \in Component, c # d,
             Sort(c) = "internship", Sort(d) = "internship",
             components'[c] # None, components'[c] = components'[d]
      PROVE  RowCause(c, d)'
  <2>1. components'[c] = components[c] /\ components'[d] = components[d]
    BY <1>2
  <2>2. RowCause(c, d)
    BY <1>2, <2>1 DEF StudyInv, RepeatsHaveCause, Rows
  <2> QED
    BY <2>1, <2>2, RowCauseStays
<1> QED
  BY <1>1, <1>2 DEF RepeatsHaveCause, Rows, Sort

LEMMA InsertSemesterKeeps ==
  ASSUME ControlOK, StudyInv, NEW r \in Requests, InsertSemester(r)
  PROVE  StudyInv'
<1>0. r \in Handlers /\ r \in Makers /\ r # None /\ pc[r] = "insertSemester" /\ None \notin Makers
  BY RequestFacts, HandlersAssumption DEF InsertSemester, Makers, Handlers
<1>a. CASE RefuseStudy(r)
  BY <1>0, <1>a, RefuseStudyKeeps DEF StudyLabels
<1>1. CASE ~RefuseStudy(r)
  <2>1. PICK m \in curricula : semesters' = [semesters EXCEPT ![r] = m]
    BY <1>1 DEF InsertSemester
  <2>2. Goto(r, "done") /\ UNCHANGED <<components, curricula, links, study>>
    BY <1>1 DEF InsertSemester
  <2>3. Moves(r) /\ pc'[r] = "done" /\ kind' = kind
    BY <1>0, <2>2, GotoMoves DEF Labels, Over
  <2>4. curricula \subseteq Makers /\ semesters \in [Makers -> curricula \cup {None}]
    BY DEF StudyInv, AcademicsTypeOK
  <2>5. /\ semesters' \in [Makers -> curricula' \cup {None}]
        /\ \A n \in Makers : semesters[n] # None => semesters'[n] # None
    BY <1>0, <2>1, <2>2, <2>4
  <2>6. \A t : \A n : n \in Listed(t) => n \in Listed(t)'
    BY <2>2, <2>5 DEF Listed
  <2>7. AcademicsTypeOK'
    <3>1. \A l \in links : l.holder \in Listed(Sort(l.component))'
      <4>1. \A l \in links : l.holder \in Listed(Sort(l.component))
        BY DEF StudyInv, AcademicsTypeOK
      <4> QED
        BY <2>6, <4>1 DEF Sort, Listed
    <3> QED
      BY <2>2, <2>5, <3>1 DEF StudyInv, AcademicsTypeOK
  <2>8. RepeatsHaveCause'
    BY <2>2, <2>3, FewerRepeats
  <2> QED
    BY <1>0, <2>2, <2>3, <2>7, <2>8, StudyWrites
<1> QED
  BY <1>a, <1>1

LEMMA WriteLinksKeeps ==
  ASSUME ControlOK, StudyInv, NEW r \in Requests, WriteLinks(r)
  PROVE  StudyInv'
<1>0. /\ r \in Handlers /\ r \in Makers /\ r # Former /\ pc[r] = "writeLinks"
      /\ study[r] \in Study /\ StudyOK(r) /\ links \subseteq Link
  BY RequestFacts DEF StudyInv, AcademicsTypeOK, WriteLinks
<1>a. CASE RefuseStudy(r)
  BY <1>0, <1>a, RefuseStudyKeeps DEF StudyLabels
<1>1. CASE ~RefuseStudy(r)
  <2> DEFINE c == study[r].component
             H == study[r].holders
             new == NewLinks(r, {c}, H \X {1})
  <2>1. /\ kind[r] # "removeInternship" => components[c] # None
        /\ kind[r] # "removeSubject" => H \subseteq Listed(Sort(c))
        /\ links' = IF kind[r] \in {"addSubject", "addToHolder"} THEN links \cup new
                    ELSE {l \in links : l.component # c \/ l.holder \notin H}
        /\ Goto(r, "done") /\ UNCHANGED <<components, curricula, semesters, study>>
    BY <1>0, <1>1 DEF WriteLinks
  <2>2. Moves(r) /\ pc'[r] = "done" /\ kind' = kind
    BY <1>0, <2>1, GotoMoves DEF Labels, Over
  <2>3. c \in Component /\ H \subseteq Makers
    BY <1>0 DEF StudyOK, NamingLabels, Study
  <2>4. ASSUME kind[r] \in {"addSubject", "addToHolder"}, NEW l \in new
        PROVE  l \in Link /\ l.by = r /\ l.component = c /\ l.holder \in H /\ l.place = 1
               /\ components[l.component] # None /\ l.holder \in Listed(Sort(l.component))
    <3>1. PICK h \in H : l = [component |-> c, holder |-> h, by |-> r, place |-> 1]
      BY DEF NewLinks
    <3> QED
      BY <1>0, <2>1, <2>3, <2>4, <3>1, ComponentParts DEF Link
  <2>5. \A l \in links' : l \in links \/ (l \in new /\ kind[r] \in {"addSubject", "addToHolder"})
    BY <2>1
  <2>6. AcademicsTypeOK'
    <3>1. \A l \in links' : l \in Link /\ components[l.component] # None
                            /\ l.holder \in Listed(Sort(l.component))
      BY <2>4, <2>5 DEF StudyInv, AcademicsTypeOK
    <3>2. \A t : Listed(t)' = Listed(t)
      BY <2>1 DEF Listed
    <3>3. \A l \in links' : components'[l.component] # None /\ l.holder \in Listed(Sort(l.component))'
      BY <2>1, <3>1, <3>2 DEF Sort, Listed
    <3> QED
      BY <2>1, <3>1, <3>3 DEF StudyInv, AcademicsTypeOK, Sort
  <2>7. RepeatsHaveCause'
    <3>1. CASE kind[r] \notin {"addSubject", "addToHolder"}
      BY <2>1, <2>2, <3>1, FewerRepeats
    <3>2. CASE kind[r] \in {"addSubject", "addToHolder"}
      <4>1. ASSUME NEW l \in links, NEW m \in new, l # m, l.component = m.component, l.holder = m.holder
            PROVE  LinkCause(l, m) /\ LinkCause(m, l)
        <5>1. m.by = r /\ l.component = c /\ l.holder \in H
          BY <2>4, <3>2, <4>1
        <5>2. CASE kind[r] = "addToHolder"
          BY <5>1, <5>2 DEF LinkCause
        <5>3. CASE kind[r] = "addSubject"
          <6>1. l \notin study[r].seen
            BY <1>0, <5>1, <5>3 DEF StudyOK, SeenOK
          <6>2. l.by \in Requests
            BY <1>0, <5>1, <5>3, <6>1 DEF StudyOK, SeenOK, Link, Makers
          <6>3. m \notin study[l.by].seen
            BY <1>0, <5>1, <6>2 DEF StudyInv, StudyOK, Settled
          <6>4. l.by # r
            BY <1>0, UnmadeRows
          <6> QED
            BY <5>1, <6>1, <6>2, <6>3, <6>4 DEF LinkCause
        <5> QED
          BY <3>2, <5>2, <5>3
      <4>2. ASSUME NEW l \in new, NEW m \in new, l.component = m.component, l.holder = m.holder
            PROVE  l = m
        BY <2>4, <3>2, <4>2 DEF Link
      <4>3. ASSUME NEW l \in links', NEW m \in links', l # m, l.component = m.component, l.holder = m.holder
            PROVE  LinkCause(l, m)'
        <5> HIDE DEF new
        <5>1. CASE l \in links /\ m \in links
          BY <2>1, <2>2, <4>3, <5>1, LinkCauseStays DEF StudyInv, RepeatsHaveCause
        <5>2. CASE l \in links /\ m \in new
          BY <2>1, <2>2, <4>1, <4>3, <5>2, LinkCauseStays
        <5>3. CASE l \in new /\ m \in links
          BY <2>1, <2>2, <4>1, <4>3, <5>3, LinkCauseStays
        <5>4. CASE l \in new /\ m \in new
          BY <4>2, <4>3, <5>4
        <5> QED
          BY <2>5, <5>1, <5>2, <5>3, <5>4
      <4>4. \A a, b \in Rows("internship") :
              a # b /\ components[a] = components[b] => RowCause(a, b)'
        BY <2>1, RowCauseStays DEF StudyInv, RepeatsHaveCause
      <4>5. Rows("internship")' = Rows("internship")
        BY <2>1 DEF Rows
      <4> HIDE DEF new, c, H
      <4> QED
        BY <2>1, <2>2, <4>3, <4>4, <4>5 DEF RepeatsHaveCause
    <3> QED
      BY <3>1, <3>2
  <2>8. \A l \in links' : l \in links \/ l.by = r
    BY <2>4, <2>5
  <2> HIDE DEF c, H, new
  <2> QED
    BY <1>0, <2>1, <2>2, <2>6, <2>7, <2>8, StudyWrites
<1> QED
  BY <1>a, <1>1

LEMMA EditRowKeeps ==
  ASSUME ControlOK, StudyInv, NEW r \in Requests, EditRow(r)
  PROVE  StudyInv'
<1>0. /\ r \in Handlers /\ pc[r] = "editRow" /\ study[r] \in Study /\ StudyOK(r)
  BY RequestFacts DEF StudyInv, AcademicsTypeOK, EditRow
<1>a. CASE RefuseStudy(r)
  BY <1>0, <1>a, RefuseStudyKeeps DEF StudyLabels
<1>1. CASE ~RefuseStudy(r)
  <2> DEFINE c == study[r].component
             h == study[r].body[FirstOf("subject")]
  <2>1. /\ components[c] # None /\ components' = [components EXCEPT ![c] = h]
        /\ Goto(r, "done") /\ UNCHANGED <<curricula, semesters, links, study>>
    BY <1>0, <1>1 DEF EditRow
  <2>2. Moves(r) /\ pc'[r] = "done" /\ kind' = kind
    BY <1>0, <2>1, GotoMoves DEF Labels, Over
  <2>3. c \in Component /\ Sort(c) = "subject" /\ h # None /\ h \in Hours
    BY <1>0, ComponentParts DEF StudyOK, NamingLabels, EditOK, Study, Said, Sorts, FirstOf
  <2>4. components \in [Component -> Hours \cup {None}]
    BY DEF StudyInv, AcademicsTypeOK
  <2>5. /\ components' \in [Component -> Hours \cup {None}]
        /\ \A d \in Component : components'[d] # None <=> components[d] # None
        /\ \A d \in Component : Sort(d) = "internship" => components'[d] = components[d]
    BY <2>1, <2>3, <2>4
  <2>6. AcademicsTypeOK'
    <3>1. \A l \in links : l \in Link /\ components[l.component] # None /\ l.holder \in Listed(Sort(l.component))
      BY DEF StudyInv, AcademicsTypeOK
    <3>2. \A l \in links : components'[l.component] # None
      BY <2>5, <3>1 DEF Link
    <3>3. \A l \in links : l.holder \in Listed(Sort(l.component))'
      BY <2>1, <3>1 DEF Listed, Sort
    <3> QED
      BY <2>1, <2>5, <3>2, <3>3 DEF StudyInv, AcademicsTypeOK
  <2>7. RepeatsHaveCause'
    BY <2>1, <2>2, <2>5, FewerRepeats
  <2> HIDE DEF c, h
  <2> QED
    BY <1>0, <2>1, <2>2, <2>5, <2>6, <2>7, StudyWrites
<1> QED
  BY <1>a, <1>1

LEMMA RemoveComponentKeeps ==
  ASSUME ControlOK, StudyInv, NEW r \in Requests, RemoveComponent(r)
  PROVE  StudyInv'
<1>0. /\ r \in Handlers /\ pc[r] = "removeComponent" /\ study[r] \in Study /\ StudyOK(r)
  BY RequestFacts DEF StudyInv, AcademicsTypeOK, RemoveComponent
<1>a. CASE RefuseStudy(r)
  BY <1>0, <1>a, RefuseStudyKeeps DEF StudyLabels
<1>1. CASE ~RefuseStudy(r)
  <2> DEFINE c == study[r].component
  <2>1. /\ components' = [components EXCEPT ![c] = None]
        /\ links' = {l \in links : l.component # c}
        /\ Goto(r, "done") /\ UNCHANGED <<curricula, semesters, study>>
    BY <1>0, <1>1 DEF RemoveComponent
  <2>2. Moves(r) /\ pc'[r] = "done" /\ kind' = kind
    BY <1>0, <2>1, GotoMoves DEF Labels, Over
  <2>3. components \in [Component -> Hours \cup {None}] /\ links' \subseteq links
    BY <2>1 DEF StudyInv, AcademicsTypeOK
  <2>4. /\ components' \in [Component -> Hours \cup {None}]
        /\ \A d \in Component : components'[d] # None => components'[d] = components[d]
        /\ \A d \in Component : d # c => components'[d] = components[d]
    BY <2>1, <2>3
  <2>5. AcademicsTypeOK'
    <3>1. \A l \in links' : /\ l \in Link /\ l.component # c /\ components[l.component] # None
                            /\ l.holder \in Listed(Sort(l.component))
      BY <2>1 DEF StudyInv, AcademicsTypeOK
    <3>2. \A l \in links' : components'[l.component] # None
      BY <2>4, <3>1 DEF Link
    <3>3. \A l \in links' : l.holder \in Listed(Sort(l.component))'
      BY <2>1, <3>1 DEF Listed, Sort
    <3> QED
      BY <2>1, <2>4, <3>1, <3>2, <3>3 DEF StudyInv, AcademicsTypeOK
  <2>6. RepeatsHaveCause'
    BY <2>1, <2>2, <2>3, <2>4, FewerRepeats
  <2> HIDE DEF c
  <2> QED
    BY <1>0, <2>1, <2>2, <2>3, <2>4, <2>5, <2>6, StudyWrites
<1> QED
  BY <1>a, <1>1

LEMMA RemoveHolderKeeps ==
  ASSUME ControlOK, StudyInv, NEW r \in Requests, RemoveHolder(r)
  PROVE  StudyInv'
<1>0. /\ r \in Handlers /\ pc[r] = "removeHolder" /\ study[r] \in Study
  BY RequestFacts DEF StudyInv, AcademicsTypeOK, RemoveHolder
<1>a. CASE RefuseStudy(r)
  BY <1>0, <1>a, RefuseStudyKeeps DEF StudyLabels
<1>1. CASE ~RefuseStudy(r)
  <2> DEFINE whole == kind[r] = "deleteCurriculum"
             H == study[r].holders
             gone == IF whole THEN {m \in Makers : semesters[m] \in H} ELSE H
             from(t) == IF t = "subject" THEN gone ELSE IF whole THEN H ELSE {}
  <2>1. /\ curricula' = IF whole THEN curricula \ H ELSE curricula
        /\ semesters' = [m \in Makers |-> IF m \in gone THEN None ELSE semesters[m]]
        /\ links' = {l \in links : l.holder \notin from(Sort(l.component))}
        /\ Goto(r, "done") /\ UNCHANGED <<components, study>>
    BY <1>0, <1>1 DEF RemoveHolder
  <2>2. Moves(r) /\ pc'[r] = "done" /\ kind' = kind
    BY <1>0, <2>1, GotoMoves DEF Labels, Over
  <2>3. curricula \subseteq Makers /\ semesters \in [Makers -> curricula \cup {None}]
    BY DEF StudyInv, AcademicsTypeOK
  <2>4. curricula' \subseteq Makers /\ semesters' \in [Makers -> curricula' \cup {None}]
    BY <2>1, <2>3
  <2>5. \A t : \A m : m \in Listed(t) /\ m \notin from(t) => m \in Listed(t)'
    BY <2>1, <2>3 DEF Listed
  <2>6. AcademicsTypeOK'
    <3>1. \A l \in links' : /\ l \in Link /\ components[l.component] # None
                            /\ l.holder \in Listed(Sort(l.component))
                            /\ l.holder \notin from(Sort(l.component))
      BY <2>1 DEF StudyInv, AcademicsTypeOK
    <3> HIDE DEF from
    <3>2. \A l \in links' : l.holder \in Listed(Sort(l.component))'
      BY <2>5, <3>1 DEF Sort, Listed
    <3> QED
      BY <2>1, <2>4, <3>1, <3>2 DEF StudyInv, AcademicsTypeOK
  <2>7. links' \subseteq links
    BY <2>1
  <2>8. RepeatsHaveCause'
    BY <2>1, <2>2, <2>7, FewerRepeats
  <2> HIDE DEF from, gone, H, whole
  <2> QED
    BY <1>0, <2>1, <2>2, <2>6, <2>7, <2>8, StudyWrites
<1> QED
  BY <1>a, <1>1

(* A step of the academic structure writes no table of the paths, but what *)
(* it deletes goes from behind their modules.                              *)
LEMMA AcademicsKeep ==
  ASSUME ControlOK, StudyInv, NEW r \in Requests, StudiesStep(r)
  PROVE  StudyInv'
BY AsksKeep, FindKeeps, StudyRowsKeep, InsertRowsKeeps, InsertSemesterKeeps, WriteLinksKeeps,
   EditRowKeeps, RemoveComponentKeeps, RemoveHolderKeeps DEF StudiesStep, AcademicsStep

(* Steps of a component keep clear of the labels of the others.            *)
LEMMA Sides ==
  /\ PathLabels \cap (StudyLabels \cup ResumeLabels \cup PlanLabels \cup CareerLabels) = {}
  /\ StudyLabels \cap (ResumeLabels \cup PlanLabels \cup CareerLabels) = {}
  /\ ResumeLabels \cap (PlanLabels \cup CareerLabels) = {}
  /\ PlanLabels \cap CareerLabels = {}
  /\ "idle" \notin PathLabels \cup StudyLabels \cup ResumeLabels \cup PlanLabels \cup CareerLabels
  /\ Over \cap (PathLabels \cup StudyLabels \cup ResumeLabels \cup PlanLabels \cup CareerLabels) = {}
  /\ "done" \in Over /\ "refused" \in Over /\ "failed" \in Over /\ "idle" \notin Over
BY DEF PathLabels, StudyLabels, ResumeLabels, PlanLabels, CareerLabels, Over

LEMMA StudyStep ==
  ASSUME ControlOK, StudyInv, [Next]_vars
  PROVE  StudyInv'
<1>1. CASE UNCHANGED vars
  <2>1. UNCHANGED <<pc, kind, components, curricula, semesters, links, study>>
    BY <1>1 DEF vars, control, academicVars, academicTables
  <2>2. AcademicsTypeOK'
    BY <2>1 DEF StudyInv, AcademicsTypeOK, Listed
  <2>3. RepeatsHaveCause'
    BY <2>1 DEF StudyInv, RepeatsHaveCause, LinkCause, RowCause, SaysTwice, NamesTwice, Rows
  <2>4. ASSUME NEW r \in Requests PROVE StudyOK(r)'
    BY <2>1 DEF StudyInv, StudyOK, EditOK, ListOK, ComparedOK, SeenOK, Settled, Sort
  <2>5. \A m : Settled(m)' <=> Settled(m)
    BY <2>1 DEF Settled
  <2> QED
    BY <2>1, <2>2, <2>3, <2>4, <2>5 DEF StudyInv
<1>2. ASSUME NEW a \in Handlers, NEW L, NEW K, Stays(a, L, K), UNCHANGED academicVars,
             L \cap (StudyLabels \cup {"done"}) = {}
      PROVE  StudyInv'
  BY <1>2, StudyFrame, Sides DEF Stays
<1>3. ASSUME NEW r \in Requests, OtherStep(r), UNCHANGED academicVars PROVE StudyInv'
  BY <1>2, <1>3, ResumesMove, PlansMove, Sides, RequestFacts DEF OtherStep
<1>4. ASSUME NEW e \in Emissions, EmissionStep(e) \/ AbilitiesStep(e), UNCHANGED academicVars
      PROVE  StudyInv'
  BY <1>2, <1>4, EmissionsMove, Sides DEF Handlers
<1>5. ASSUME NEW a \in Handlers, Fail(a) PROVE StudyInv'
  BY <1>5, FailMoves, StudyFrame, Sides DEF Fail
<1>6. ASSUME NEW r \in Requests, PathsStep(r) \/ CareersStep(r), UNCHANGED academicVars
      PROVE  StudyInv'
  BY <1>2, <1>6, PathsMove, CareersMove, Sides, RequestFacts
<1>7. CASE Next
  BY <1>3, <1>4, <1>5, <1>6, <1>7, AcademicsKeep DEF Next
<1> QED
  BY <1>1, <1>7

(* Every run of any number of requests keeps RepeatsHaveCause: a component *)
(* is listed twice, or an internship there twice, only by requests neither *)
(* of which had seen what the other was to write, by one whose body names  *)
(* a curriculum or says an internship twice, or by the inverted filter of  *)
(* an addition from the side of what lists it (internships.service.ts,     *)
(* internships.controller.ts:88-94, subjects.service.ts).                  *)
THEOREM RepeatsExplained == Spec => []RepeatsHaveCause
<1>1. Init => ControlOK /\ StudyInv
  BY EmptyInit, StudyInit
<1>2. ControlOK /\ StudyInv /\ [Next]_vars => (ControlOK /\ StudyInv)'
  BY ControlStep, StudyStep
<1>3. ControlOK /\ StudyInv => RepeatsHaveCause
  BY DEF StudyInv
<1> QED
  BY <1>1, <1>2, <1>3, PTL DEF Spec


-----------------------------------------------------------------------------
(* Resumes and their PDFs.                                                 *)

Drawing == {"draw", "recordPdf"}

(* A handler that was overtaken gives, or gave, this version.              *)
Overtaken(f) == \E r \in Requests : /\ desk[r].resume = f.resume /\ desk[r].overtaken
                                    /\ desk[r].version + 1 = f.version

Shown(f) == f.text = resumes[f.resume].text \/ Overtaken(f)

(* The file a handler is to record.                                        *)
Drawn(r, f) == f.resume = desk[r].resume /\ f.version = desk[r].version + 1

(* What a handler draws is what the row says, if it was not overtaken, and *)
(* so is the file it records.                                              *)
CurrentOK(r) ==
  pc[r] \in Drawing /\ resumes[desk[r].resume] # None /\ ~desk[r].overtaken =>
    /\ desk[r].text = resumes[desk[r].resume].text
    /\ pc[r] = "recordPdf" => \A f \in files : Drawn(r, f) => Shown(f)

DeskOK(r) ==
  /\ pc[r] = "insertResume" => desk[r].resume = r
  /\ pc[r] \in ResumeLabels => desk[r].resume \in Makers
  /\ pc[r] \in Drawing => desk[r].text \in Makers
  /\ desk[r].overtaken => pc[r] \in Drawing \cup Over
  /\ desk[r].resume \in Requests \ {r} => pc[desk[r].resume] \notin {"idle", "insertResume"}
  /\ pc[r] = "recordPdf" => \E f \in files : Drawn(r, f)
  /\ CurrentOK(r)

(* Whoever wrote the text of a row has the resume in hand since.           *)
RowOK(p) ==
  /\ p \in Requests => pc[p] \notin {"idle", "insertResume"}
  /\ resumes[p].text \in Requests =>
       pc[resumes[p].text] \in Drawing \cup Over /\ desk[resumes[p].text].resume = p

ResumeInv ==
  /\ ResumesTypeOK
  /\ PdfShowsRow
  /\ \A r \in Requests : DeskOK(r)
  /\ \A p \in Makers : resumes[p] # None => RowOK(p)

LEMMA ResumeInit == Init => ResumeInv
<1> SUFFICES ASSUME Init PROVE ResumeInv
  OBVIOUS
<1>1. /\ resumes = [p \in Makers |->
                      IF p = Former THEN [text |-> Former, entries |-> {Former},
                                          pdfVersion |-> 2, pdfPath |-> 2] ELSE None]
      /\ files = {[resume |-> Former, version |-> 2, text |-> Former]}
      /\ desk = [a \in Handlers |-> NoDesk]
      /\ pc = [a \in Handlers |-> "idle"]
  BY DEF Init, ResumesInit, ControlInit
<1>2. Former \in Makers /\ Former \notin Requests
  BY HandlersAssumption DEF Makers, Handlers
<1>3. [text |-> Former, entries |-> {Former}, pdfVersion |-> 2, pdfPath |-> 2] \in Resume
  BY <1>2 DEF Resume
<1>4. ResumesTypeOK
  <2>1. files \subseteq File /\ NoDesk \in Desk
    BY <1>1, <1>2 DEF File, NoDesk, Desk
  <2>2. resumes \in [Makers -> Resume \cup {None}] /\ desk \in [Handlers -> Desk]
    BY <1>1, <1>3, <2>1
  <2>3. \A p \in Makers : resumes[p] # None => p = Former /\ resumes[p].pdfPath = 2 /\ resumes[p].pdfVersion = 2
    BY <1>1
  <2> QED
    BY <1>1, <2>1, <2>2, <2>3 DEF ResumesTypeOK
<1>5. PdfShowsRow
  BY <1>1, <1>2 DEF PdfShowsRow
<1>6. ASSUME NEW r \in Requests PROVE DeskOK(r)
  <2>1. pc[r] = "idle" /\ desk[r].resume = None /\ ~desk[r].overtaken
    BY <1>1, RequestFacts DEF NoDesk
  <2> QED
    BY <2>1, HandlersAssumption DEF DeskOK, CurrentOK, Drawing, ResumeLabels, Handlers
<1>7. ASSUME NEW p \in Makers, resumes[p] # None PROVE RowOK(p)
  BY <1>1, <1>2, <1>7 DEF RowOK
<1> QED
  BY <1>4, <1>5, <1>6, <1>7 DEF ResumeInv

LEMMA ResumeTypes ==
  ASSUME ResumeInv
  PROVE  /\ \A a \in Handlers : desk[a] \in Desk
         /\ DOMAIN desk = Handlers /\ DOMAIN resumes = Makers
         /\ \A p \in Makers : resumes[p] # None => resumes[p] \in Resume
         /\ \A f \in files : f \in File /\ f.resume \in Makers
BY DEF ResumeInv, ResumesTypeOK, File

(* Nobody who was overtaken changes what he has.                           *)
KeepsOvertaken ==
  \A r \in Requests : desk[r].overtaken =>
    /\ desk'[r].overtaken /\ desk'[r].resume = desk[r].resume
    /\ desk'[r].version = desk[r].version

LEMMA OvertakenStays ==
  ASSUME KeepsOvertaken
  PROVE  \A f : Overtaken(f) => Overtaken(f)'
BY DEF KeepsOvertaken, Overtaken

(* A step of others, one that refuses, and one that fails.                 *)
LEMMA ResumeFrame ==
  ASSUME ResumeInv, NEW a \in Handlers, Moves(a), UNCHANGED resumeVars, pc[a] \notin Over,
         pc'[a] \notin ResumeLabels \cup {"idle"},
         pc[a] \in ResumeLabels => pc'[a] \in {"refused", "failed"}
  PROVE  ResumeInv'
<1>1. UNCHANGED <<resumes, files, desk>>
  BY DEF resumeVars, resumeTables
<1>2. \A b \in Handlers : b # a => pc'[b] = pc[b]
  BY DEF Moves
<1>3. /\ pc'[a] \notin Drawing /\ pc'[a] \notin {"recordPdf", "idle", "insertResume"}
      /\ pc[a] \notin Over
      /\ pc[a] \in Drawing => pc'[a] \in {"refused", "failed"} /\ pc'[a] \in Over
  BY DEF ResumeLabels, Drawing, Over
<1>4. ResumesTypeOK'
  BY <1>1 DEF ResumeInv, ResumesTypeOK
<1>5. ASSUME NEW p \in Makers, resumes[p] # None PROVE RowOK(p)'
  <2>1. RowOK(p)
    BY <1>5 DEF ResumeInv
  <2> QED
    BY <1>1, <1>2, <1>3, <2>1 DEF RowOK, Handlers
<1>6. PdfShowsRow'
  <2> SUFFICES ASSUME NEW f \in files, resumes[f.resume] # None,
                      f.version = resumes[f.resume].pdfPath, f.text # resumes[f.resume].text
               PROVE  \/ resumes[f.resume].text \in Requests /\ pc'[resumes[f.resume].text] # "done"
                      \/ \E r \in Requests : /\ desk[r].resume = f.resume /\ desk[r].overtaken
                                             /\ desk[r].version + 1 = f.version
    BY <1>1 DEF PdfShowsRow
  <2> DEFINE w == resumes[f.resume].text
  <2>1. CASE w \in Requests /\ pc[w] # "done"
    <3>1. pc[w] \in Drawing \cup Over
      BY <2>1, ResumeTypes DEF ResumeInv, RowOK
    <3> QED
      BY <1>2, <1>3, <2>1, <3>1 DEF Handlers
  <2>2. CASE ~(w \in Requests /\ pc[w] # "done")
    BY <2>2 DEF ResumeInv, PdfShowsRow
  <2> QED
    BY <2>1, <2>2
<1>7. ASSUME NEW r \in Requests PROVE DeskOK(r)'
  <2>1. DeskOK(r)
    BY DEF ResumeInv
  <2>2. CurrentOK(r)'
    <3> SUFFICES ASSUME pc'[r] \in Drawing PROVE CurrentOK(r)'
      BY DEF CurrentOK
    <3>1. pc'[r] = pc[r]
      BY <1>2, <1>3 DEF Handlers
    <3> QED
      BY <1>1, <2>1, <3>1 DEF DeskOK, CurrentOK, Drawn, Shown, Overtaken
  <2>3. pc'[r] = pc[r] \/ r = a
    BY <1>2 DEF Handlers
  <2>4. desk[r].overtaken => pc'[r] \in Drawing \cup Over
    BY <1>3, <2>1, <2>3 DEF DeskOK
  <2>5. desk[r].resume \in Requests \ {r} => pc'[desk[r].resume] \notin {"idle", "insertResume"}
    BY <1>2, <1>3, <2>1 DEF DeskOK, Handlers
  <2>6. /\ pc'[r] = "insertResume" => desk[r].resume = r
        /\ pc'[r] \in ResumeLabels => desk[r].resume \in Makers
        /\ pc'[r] \in Drawing => desk[r].text \in Makers
        /\ pc'[r] = "recordPdf" => \E f \in files : Drawn(r, f)
    BY <1>3, <2>1, <2>3 DEF DeskOK
  <2> QED
    BY <1>1, <2>2, <2>4, <2>5, <2>6 DEF DeskOK, Drawn
<1> QED
  BY <1>1, <1>4, <1>5, <1>6, <1>7 DEF ResumeInv

(* A request that begins, or that reads.                                   *)
LEMMA ResumeReads ==
  ASSUME ResumeInv, NEW r \in Requests, Moves(r), UNCHANGED resumeTables,
         NEW d \in Desk, desk' = [desk EXCEPT ![r] = d], ~d.overtaken, d.resume \in Makers,
         resumes[d.resume] # None \/ d.resume = r,
         pc[r] \notin Drawing \cup Over, pc'[r] \notin {"idle", "recordPdf"},
         pc'[r] = "insertResume" => pc[r] = "idle" /\ d.resume = r,
         pc'[r] = "draw" => resumes[d.resume] # None /\ d.text = resumes[d.resume].text
  PROVE  ResumeInv'
<1>1. /\ UNCHANGED <<resumes, files>> /\ r \in Handlers /\ r \in Makers
      /\ desk'[r] = d /\ \A q \in Requests : q # r => desk'[q] = desk[q]
  BY RequestFacts, ResumeTypes DEF resumeTables, Handlers
<1>2. \A q \in Requests : q # r => pc'[q] = pc[q]
  BY DEF Moves, Handlers
<1>3. KeepsOvertaken
  <2>1. ~desk[r].overtaken
    BY DEF ResumeInv, DeskOK
  <2> QED
    BY <1>1, <2>1 DEF KeepsOvertaken
<1>4. ResumesTypeOK'
  <2>1. desk' \in [Handlers -> Desk]
    BY DEF ResumeInv, ResumesTypeOK
  <2> QED
    BY <1>1, <2>1 DEF ResumeInv, ResumesTypeOK
<1>5. ASSUME NEW p \in Makers, resumes[p] # None PROVE RowOK(p)'
  <2>1. RowOK(p)
    BY <1>5 DEF ResumeInv
  <2>2. resumes[p].text # r
    BY <2>1 DEF RowOK
  <2>3. p = r => pc'[p] \notin {"idle", "insertResume"}
    BY <2>1 DEF RowOK
  <2> QED
    BY <1>1, <1>2, <2>1, <2>2, <2>3 DEF RowOK
<1>6. PdfShowsRow'
  <2> SUFFICES ASSUME NEW f \in files, resumes[f.resume] # None,
                      f.version = resumes[f.resume].pdfPath, f.text # resumes[f.resume].text
               PROVE  \/ resumes[f.resume].text \in Requests /\ pc'[resumes[f.resume].text] # "done"
                      \/ Overtaken(f)'
    BY <1>1 DEF PdfShowsRow, Overtaken
  <2>1. resumes[f.resume].text # r
    BY ResumeTypes DEF ResumeInv, RowOK
  <2>2. \/ resumes[f.resume].text \in Requests /\ pc[resumes[f.resume].text] # "done"
        \/ Overtaken(f)
    BY DEF ResumeInv, PdfShowsRow, Overtaken
  <2> QED
    BY <1>2, <1>3, <2>1, <2>2, OvertakenStays
<1>7. ASSUME NEW q \in Requests, q # r PROVE DeskOK(q)'
  <2>1. DeskOK(q)
    BY DEF ResumeInv
  <2>2. CurrentOK(q)'
    <3>1. \A f \in files : Shown(f) => Shown(f)'
      BY <1>1, <1>3, OvertakenStays DEF Shown
    <3> QED
      BY <1>1, <1>2, <1>7, <2>1, <3>1 DEF DeskOK, CurrentOK, Drawn
  <2>3. desk[q].resume = r => pc'[r] \notin {"idle", "insertResume"}
    BY <1>7, <2>1 DEF DeskOK
  <2>4. desk[q].resume \in Requests \ {q} => pc'[desk[q].resume] \notin {"idle", "insertResume"}
    BY <1>2, <2>1, <2>3 DEF DeskOK
  <2> QED
    BY <1>1, <1>2, <1>7, <2>1, <2>2, <2>4 DEF DeskOK, Drawn
<1>8. DeskOK(r)'
  <2>1. d.resume \in Requests \ {r} => pc'[d.resume] \notin {"idle", "insertResume"}
    BY <1>2 DEF ResumeInv, RowOK
  <2>2. pc'[r] \in Drawing => d.text \in Makers /\ d.text = resumes[d.resume].text
    BY ResumeTypes DEF Drawing, Resume
  <2>3. CurrentOK(r)'
    BY <1>1, <2>2 DEF CurrentOK
  <2> QED
    BY <1>1, <2>1, <2>2, <2>3 DEF DeskOK
<1> QED
  BY <1>1, <1>4, <1>5, <1>6, <1>7, <1>8 DEF ResumeInv

LEMMA RefuseResumeKeeps ==
  ASSUME ControlOK, ResumeInv, NEW r \in Requests, RefuseResume(r), pc[r] \in ResumeLabels
  PROVE  ResumeInv'
<1>1. r \in Handlers /\ Goto(r, "refused") /\ UNCHANGED resumeVars
  BY RequestFacts DEF RefuseResume
<1>2. Moves(r) /\ pc'[r] = "refused"
  BY <1>1, GotoMoves DEF Labels, Over
<1> QED
  BY <1>1, <1>2, ResumeFrame, Sides

LEMMA OpensKeep ==
  ASSUME ControlOK, ResumeInv, NEW r \in Requests,
         CreateResume(r) \/ UpdateResume(r) \/ DeleteResume(r) \/ CreatePdf(r)
  PROVE  ResumeInv'
<1>0. r \in Handlers /\ r \in Makers
  BY RequestFacts
<1>1. CASE CreateResume(r)
  <2>1. PICK e \in BOOLEAN : desk' = [desk EXCEPT ![r] = [NoDesk EXCEPT !.resume = r, !.added = e]]
    BY <1>1 DEF CreateResume
  <2> DEFINE d == [NoDesk EXCEPT !.resume = r, !.added = e]
  <2>2. d \in Desk /\ ~d.overtaken /\ d.resume = r
    BY <1>0 DEF NoDesk, Desk
  <2>3. Moves(r) /\ pc[r] = "idle" /\ pc'[r] = "insertResume"
    BY <1>0, <1>1, StartMoves DEF CreateResume, Labels, OtherLabels, ResumeLabels, Kinds, ResumeKinds
  <2>4. UNCHANGED resumeTables
    BY <1>1 DEF CreateResume
  <2> HIDE DEF d
  <2> QED
    BY <1>0, <2>1, <2>2, <2>3, <2>4, ResumeReads DEF d, Drawing, Over
<1>2. CASE ~CreateResume(r)
  <2>1. PICK k \in ResumeKinds : Open(r, k)
    BY <1>2 DEF UpdateResume, DeleteResume, CreatePdf, ResumeKinds
  <2>2. Start(r, k, "readResume") /\ UNCHANGED resumeTables
    BY <2>1 DEF Open
  <2>3. PICK p \in Makers :
          /\ resumes[p] # None
          /\ \E kept \in IF k = "updateResume" THEN SUBSET resumes[p].entries ELSE {{}},
                e \in IF k = "updateResume" THEN BOOLEAN ELSE {FALSE} :
               desk' = [desk EXCEPT ![r] = [NoDesk EXCEPT !.resume = p, !.kept = kept, !.added = e]]
    BY <2>1 DEF Open
  <2>4. PICK kept \in SUBSET Makers, e \in BOOLEAN :
          desk' = [desk EXCEPT ![r] = [NoDesk EXCEPT !.resume = p, !.kept = kept, !.added = e]]
    BY <2>3, ResumeTypes DEF Resume
  <2> DEFINE d == [NoDesk EXCEPT !.resume = p, !.kept = kept, !.added = e]
  <2>5. d \in Desk /\ ~d.overtaken /\ d.resume = p
    BY DEF NoDesk, Desk
  <2>6. Moves(r) /\ pc[r] = "idle" /\ pc'[r] = "readResume"
    BY <1>0, <2>2, StartMoves DEF Labels, OtherLabels, ResumeLabels, Kinds
  <2> HIDE DEF d
  <2> QED
    BY <1>0, <2>2, <2>3, <2>4, <2>5, <2>6, ResumeReads DEF d, Drawing, Over
<1> QED
  BY <1>1, <1>2

LEMMA GetResumeKeeps ==
  ASSUME ControlOK, ResumeInv, NEW r \in Requests, GetResume(r)
  PROVE  ResumeInv'
<1>0. r \in Handlers /\ pc[r] = "readResume" /\ desk[r] \in Desk /\ desk[r].resume \in Makers
      /\ DOMAIN desk = Handlers
  BY RequestFacts, ResumeTypes DEF GetResume, ResumeInv, DeskOK, ResumeLabels
<1>a. CASE RefuseResume(r)
  BY <1>0, <1>a, RefuseResumeKeeps DEF ResumeLabels
<1>1. CASE ~RefuseResume(r)
  <2> DEFINE row == resumes[desk[r].resume]
             d == [desk[r] EXCEPT !.existing = row.entries, !.text = row.text,
                                  !.version = row.pdfVersion]
  <2>1. row # None /\ Goto(r, AfterRead(r)) /\ UNCHANGED resumeTables
        /\ desk' = [desk EXCEPT ![r].existing = row.entries, ![r].text = row.text,
                                ![r].version = row.pdfVersion]
    BY <1>1 DEF GetResume
  <2>2. desk' = [desk EXCEPT ![r] = d]
    BY <1>0, <2>1
  <2>3. Moves(r) /\ pc'[r] \in {"writeResume", "removeResume", "draw"}
    BY <1>0, <2>1, GotoMoves DEF AfterRead, Labels, OtherLabels, ResumeLabels
  <2>4. row \in Resume
    BY <1>0, <2>1, ResumeTypes
  <2>5. d \in Desk /\ d.resume = desk[r].resume /\ d.text = row.text /\ d.overtaken = desk[r].overtaken
    BY <1>0, <2>4 DEF Desk, Resume
  <2>6. ~desk[r].overtaken
    BY <1>0 DEF ResumeInv, DeskOK, Drawing, Over
  <2> HIDE DEF d
  <2> QED
    BY <1>0, <2>1, <2>2, <2>3, <2>5, <2>6, ResumeReads DEF Drawing, Over
<1> QED
  BY <1>a, <1>1

-----------------------------------------------------------------------------
(* A handler that writes: what is to be shown of the resume it has in      *)
(* hand, and what follows for the others.                                  *)
ShowsOK(f) ==
  LET row == resumes[f.resume]
  IN  row # None /\ f.version = row.pdfPath /\ f.text # row.text =>
        (row.text \in Requests /\ pc[row.text] # "done") \/ Overtaken(f)

InHandOK(r, p) ==
  /\ ResumesTypeOK /\ DeskOK(r) /\ desk[r].resume = p
  /\ resumes[p] # None => RowOK(p) /\ \A f \in files : f.resume = p => ShowsOK(f)
  /\ \A q \in Requests \ {r} : desk[q].resume = p => CurrentOK(q)

KeepsDesk(q) ==
  /\ desk'[q].resume = desk[q].resume /\ desk'[q].text = desk[q].text
  /\ desk'[q].version = desk[q].version
  /\ desk[q].overtaken => desk'[q].overtaken
  /\ desk'[q].overtaken => desk[q].overtaken \/ pc[q] \in Drawing

LEMMA OneResume ==
  ASSUME ResumeInv, NEW r \in Requests, NEW p \in Makers, desk[r].resume = p,
         Moves(r), pc'[r] \in Drawing \cup Over, pc[r] \notin Over \cup {"idle"},
         pc[r] \notin Drawing => ~desk'[r].overtaken,
         pc[r] \in Drawing => desk'[r] = desk[r],
         \A q \in Requests \ {r} : KeepsDesk(q),
         \A o \in Makers \ {p} : resumes'[o] = resumes[o],
         \A f \in files' : f.resume # p => f \in files,
         \A f \in files : \E g \in files' : g.resume = f.resume /\ g.version = f.version,
         InHandOK(r, p)'
  PROVE  ResumeInv'
<1>0. /\ \A q \in Requests : q # r => pc'[q] = pc[q]
      /\ Drawing \cap Over = {} /\ "insertResume" \notin Drawing \cup Over
      /\ "idle" \notin Drawing \cup Over /\ "done" \in Over
      /\ desk'[r].resume = p
  <2>1. desk'[r].resume = p
    BY DEF InHandOK
  <2> QED
    BY <2>1 DEF Moves, Handlers, Drawing, Over
<1>1. KeepsOvertaken
  <2>1. desk[r].overtaken => pc[r] \in Drawing
    BY DEF ResumeInv, DeskOK
  <2> QED
    BY <2>1 DEF KeepsOvertaken, KeepsDesk
<1>2. ASSUME NEW o \in Makers \ {p}, resumes[o] # None PROVE RowOK(o)' /\ resumes[o].text # r
  <2>1. RowOK(o)
    BY <1>2 DEF ResumeInv
  <2>2. resumes[o].text # r
    BY <2>1 DEF RowOK
  <2> QED
    BY <1>0, <1>2, <2>1, <2>2 DEF RowOK, KeepsDesk
<1>3. ASSUME NEW f \in files', f.resume # p PROVE ShowsOK(f)'
  <2>1. f \in files /\ f.resume \in Makers \ {p}
    BY <1>3, ResumeTypes
  <2>2. ShowsOK(f)
    BY <2>1 DEF ResumeInv, PdfShowsRow, ShowsOK, Overtaken
  <2>3. resumes'[f.resume] = resumes[f.resume]
    BY <2>1
  <2>4. Overtaken(f) => Overtaken(f)'
    BY <1>1, OvertakenStays
  <2>5. resumes[f.resume] # None => resumes[f.resume].text # r
    BY <1>2, <2>1
  <2> QED
    BY <1>0, <2>2, <2>3, <2>4, <2>5 DEF ShowsOK
<1>4. PdfShowsRow'
  <2>1. \A f \in files' : ShowsOK(f)'
    BY <1>3 DEF InHandOK, ShowsOK
  <2> QED
    BY <2>1 DEF PdfShowsRow, ShowsOK, Overtaken
<1>5. ASSUME NEW q \in Requests \ {r} PROVE DeskOK(q)'
  <2>1. DeskOK(q) /\ KeepsDesk(q) /\ pc'[q] = pc[q]
    BY <1>0 DEF ResumeInv
  <2>2. ASSUME desk[q].resume = p PROVE CurrentOK(q)'
    BY <2>1, <2>2 DEF InHandOK, KeepsDesk
  <2>3. ASSUME desk[q].resume # p PROVE CurrentOK(q)'
    <3> SUFFICES ASSUME pc[q] \in Drawing, resumes'[desk[q].resume] # None, ~desk'[q].overtaken
                 PROVE  CurrentOK(q)'
      BY <2>1 DEF CurrentOK, KeepsDesk
    <3>1. desk[q].resume \in Makers \ {p} /\ resumes'[desk[q].resume] = resumes[desk[q].resume]
      BY <2>1, <2>3 DEF DeskOK, Drawing, ResumeLabels
    <3>2. CurrentOK(q) /\ ~desk[q].overtaken
      BY <2>1 DEF DeskOK, KeepsDesk
    <3>3. ASSUME NEW f \in files', pc[q] = "recordPdf", f.resume = desk[q].resume,
                 f.version = desk[q].version + 1
          PROVE  Shown(f)'
      <4>1. f \in files /\ Shown(f)
        BY <2>3, <3>1, <3>2, <3>3 DEF CurrentOK, Drawn
      <4>2. Overtaken(f) => Overtaken(f)'
        BY <1>1, OvertakenStays
      <4> QED
        BY <3>1, <3>3, <4>1, <4>2 DEF Shown
    <3> QED
      BY <2>1, <3>1, <3>2, <3>3 DEF CurrentOK, KeepsDesk, Drawn
  <2>4. CurrentOK(q)'
    BY <2>2, <2>3
  <2>5. desk[q].resume = r => pc'[r] \notin {"idle", "insertResume"}
    BY <1>0
  <2>6. desk'[q].resume \in Requests \ {q} => pc'[desk'[q].resume] \notin {"idle", "insertResume"}
    BY <1>0, <2>1, <2>5 DEF DeskOK, KeepsDesk
  <2>7. pc[q] = "recordPdf" => \E g \in files' : Drawn(q, g)'
    BY <2>1 DEF DeskOK, KeepsDesk, Drawn
  <2> QED
    BY <2>1, <2>4, <2>6, <2>7 DEF DeskOK, KeepsDesk
<1>6. ASSUME NEW o \in Makers, resumes'[o] # None PROVE RowOK(o)'
  BY <1>2, <1>6 DEF InHandOK
<1> QED
  BY <1>4, <1>5, <1>6 DEF ResumeInv, InHandOK

LEMMA InsertResumeKeeps ==
  ASSUME ControlOK, ResumeInv, NEW r \in Requests, InsertResume(r)
  PROVE  ResumeInv'
<1>0. /\ r \in Handlers /\ r \in Makers /\ pc[r] = "insertResume" /\ desk[r] \in Desk
      /\ desk[r].resume = r /\ ~desk[r].overtaken /\ DeskOK(r)
      /\ DOMAIN desk = Handlers /\ DOMAIN resumes = Makers
  <2>1. pc[r] = "insertResume" /\ DeskOK(r)
    BY DEF InsertResume, ResumeInv
  <2> QED
    BY <2>1, RequestFacts, ResumeTypes DEF DeskOK, Drawing, Over
<1> DEFINE row == [text |-> r, entries |-> IF desk[r].added THEN {r} ELSE {},
                   pdfVersion |-> 1, pdfPath |-> 0]
           d == [desk[r] EXCEPT !.text = r, !.version = 1]
<1>1. /\ resumes' = [resumes EXCEPT ![r] = row] /\ files' = files
      /\ desk' = [desk EXCEPT ![r].text = r, ![r].version = 1] /\ Goto(r, "draw")
  BY DEF InsertResume
<1>2. desk' = [desk EXCEPT ![r] = d]
  BY <1>0, <1>1
<1>3. row \in Resume /\ row.text = r /\ row.pdfPath = 0
  BY <1>0 DEF Resume
<1>4. d \in Desk /\ d.resume = r /\ d.text = r /\ ~d.overtaken
  BY <1>0 DEF Desk
<1>5. Moves(r) /\ pc'[r] = "draw"
  BY <1>0, <1>1, GotoMoves DEF Labels, OtherLabels, ResumeLabels
<1> HIDE DEF row, d
<1>6. /\ resumes'[r] = row /\ \A o \in Makers \ {r} : resumes'[o] = resumes[o]
      /\ desk'[r] = d /\ \A q \in Requests \ {r} : desk'[q] = desk[q]
  BY <1>0, <1>1, <1>2, RequestFacts
<1>7. ResumesTypeOK'
  <2>1. resumes' \in [Makers -> Resume \cup {None}]
    BY <1>1, <1>3 DEF ResumeInv, ResumesTypeOK
  <2>3. desk' \in [Handlers -> Desk]
    BY <1>0, <1>2, <1>4 DEF ResumeInv, ResumesTypeOK
  <2> QED
    BY <1>1, <1>3, <1>6, <2>1, <2>3 DEF ResumeInv, ResumesTypeOK
<1>8. \A q \in Requests \ {r} : desk[q].resume # r
  BY <1>0 DEF ResumeInv, DeskOK
<1>9. InHandOK(r, r)'
  <2>1. DeskOK(r)'
    BY <1>0, <1>3, <1>4, <1>5, <1>6 DEF DeskOK, CurrentOK, Drawing
  <2>2. RowOK(r)'
    BY <1>3, <1>4, <1>5, <1>6 DEF RowOK, Drawing
  <2>3. ASSUME NEW f \in files, f.resume = r PROVE ShowsOK(f)'
    <3>1. f.version # row.pdfPath
      BY <1>3, ResumeTypes DEF File
    <3> QED
      BY <1>6, <2>3, <3>1 DEF ShowsOK
  <2> QED
    BY <1>1, <1>4, <1>6, <1>7, <1>8, <2>1, <2>2, <2>3 DEF InHandOK
<1> QED
  BY <1>0, <1>1, <1>4, <1>5, <1>6, <1>9, OneResume DEF KeepsDesk, Drawing, Over

LEMMA ResumePdfLambdaKeeps ==
  ASSUME ControlOK, ResumeInv, NEW r \in Requests, ResumePdfLambda(r)
  PROVE  ResumeInv'
<1>0. r \in Handlers /\ pc[r] = "draw" /\ DeskOK(r) /\ desk[r] \in Desk
      /\ desk[r].resume \in Makers /\ desk[r].text \in Makers
  BY RequestFacts, ResumeTypes DEF ResumePdfLambda, ResumeInv, DeskOK, ResumeLabels, Drawing
<1>a. CASE RefuseResume(r)
  BY <1>0, <1>a, RefuseResumeKeeps DEF ResumeLabels
<1>b. CASE ~RefuseResume(r)
  <2>0. [resume |-> desk[r].resume, version |-> desk[r].version + 1, text |-> desk[r].text] \in File
    BY <1>0 DEF File, Desk
  <2>1. PICK f \in File :
          /\ f = [resume |-> desk[r].resume, version |-> desk[r].version + 1, text |-> desk[r].text]
          /\ files' = {g \in files : g.resume # f.resume \/ g.version # f.version} \cup {f}
          /\ Goto(r, "recordPdf") /\ UNCHANGED <<resumes, desk>>
    BY <1>b, <2>0 DEF ResumePdfLambda
  <2>2. Moves(r) /\ pc'[r] = "recordPdf"
    BY <1>0, <2>1, GotoMoves DEF Labels, OtherLabels, ResumeLabels
  <2>3. PICK p \in Makers : desk[r].resume = p
    BY <1>0
  <2>4. f \in File /\ f.resume = p /\ f.version = desk[r].version + 1 /\ f.text = desk[r].text
    BY <2>1, <2>3
  <2>5. /\ files' \subseteq files \cup {f} /\ f \in files'
        /\ \A g \in files : \E h \in files' : h.resume = g.resume /\ h.version = g.version
    BY <2>1
  <2>6. ResumesTypeOK'
    <3>1. files' \subseteq File
      BY <2>4, <2>5 DEF ResumeInv, ResumesTypeOK
    <3> QED
      BY <2>1, <2>5, <3>1 DEF ResumeInv, ResumesTypeOK
  <2>7. KeepsOvertaken
    BY <2>1 DEF KeepsOvertaken
  <2>8. resumes[p] # None => Shown(f)'
    <3>1. CASE desk[r].overtaken
      BY <2>1, <2>4, <2>3, <3>1 DEF Shown, Overtaken
    <3>2. ASSUME ~desk[r].overtaken, resumes[p] # None PROVE Shown(f)'
      BY <1>0, <2>1, <2>3, <2>4, <3>2 DEF DeskOK, CurrentOK, Drawing, Shown
    <3> QED
      BY <3>1, <3>2
  <2>9. DeskOK(r)'
    <3>1. Drawn(r, f)'
      BY <2>1, <2>3, <2>4 DEF Drawn
    <3>2. ASSUME NEW g \in files', Drawn(r, g)' PROVE g = f
      BY <2>1, <2>3, <2>4, <3>2 DEF Drawn
    <3>3. CurrentOK(r)'
      BY <1>0, <2>1, <2>2, <2>3, <2>8, <3>2 DEF DeskOK, CurrentOK, Drawing
    <3>4. desk[r].resume \in Requests \ {r} => pc'[desk[r].resume] \notin {"idle", "insertResume"}
      BY <1>0, <2>2 DEF DeskOK, Moves, Handlers
    <3> QED
      BY <1>0, <2>1, <2>2, <2>5, <3>1, <3>3, <3>4 DEF DeskOK, Drawing
  <2>10. ASSUME resumes[p] # None, NEW g \in files', g.resume = p PROVE ShowsOK(g)'
    <3>1. CASE g = f
      BY <2>1, <2>4, <2>8, <2>10, <3>1 DEF ShowsOK, Shown
    <3>2. CASE g # f
      <4>1. g \in files /\ ShowsOK(g)
        BY <2>5, <2>10, <3>2 DEF ResumeInv, PdfShowsRow, ShowsOK, Overtaken
      <4>2. Overtaken(g) => Overtaken(g)'
        BY <2>7, OvertakenStays
      <4>3. \A w \in Requests : pc[w] # "done" => pc'[w] # "done"
        BY <2>2 DEF Moves, Handlers
      <4> QED
        BY <2>1, <4>1, <4>2, <4>3 DEF ShowsOK
    <3> QED
      BY <3>1, <3>2
  <2>11. resumes[p] # None => RowOK(p)'
    <3> SUFFICES ASSUME resumes[p] # None PROVE RowOK(p)'
      OBVIOUS
    <3>1. RowOK(p)
      BY DEF ResumeInv
    <3> QED
      BY <1>0, <2>1, <2>2, <3>1 DEF RowOK, Moves, Handlers, Drawing
  <2>12. ASSUME NEW q \in Requests \ {r}, desk[q].resume = p PROVE CurrentOK(q)'
    <3> SUFFICES ASSUME pc[q] \in Drawing, resumes[p] # None, ~desk[q].overtaken PROVE CurrentOK(q)'
      BY <2>1, <2>2, <2>12 DEF CurrentOK, Moves, Handlers
    <3>1. CurrentOK(q) /\ pc'[q] = pc[q]
      BY <2>2 DEF ResumeInv, DeskOK, Moves, Handlers
    <3>2. ASSUME NEW g \in files', pc[q] = "recordPdf", Drawn(q, g) PROVE Shown(g)'
      <4>1. CASE g = f
        BY <2>8, <4>1
      <4>2. CASE g # f
        <5>1. Shown(g)
          BY <2>5, <2>12, <3>1, <3>2, <4>2 DEF CurrentOK
        <5>2. Overtaken(g) => Overtaken(g)'
          BY <2>7, OvertakenStays
        <5> QED
          BY <2>1, <5>1, <5>2 DEF Shown
      <4> QED
        BY <4>1, <4>2
    <3> QED
      BY <2>1, <2>12, <3>1, <3>2 DEF CurrentOK, Drawn
  <2>13. InHandOK(r, p)'
    BY <2>1, <2>3, <2>6, <2>9, <2>10, <2>11, <2>12 DEF InHandOK
  <2>14. \A g \in files' : g.resume # p => g \in files
    BY <2>4, <2>5
  <2>15. \A q \in Requests \ {r} : KeepsDesk(q)
    BY <2>1 DEF KeepsDesk
  <2> QED
    BY <1>0, <2>1, <2>2, <2>3, <2>5, <2>13, <2>14, <2>15, OneResume DEF Drawing, Over
<1> QED
  BY <1>a, <1>b

LEMMA RecordPdfKeeps ==
  ASSUME ControlOK, ResumeInv, NEW r \in Requests, RecordPdf(r)
  PROVE  ResumeInv'
<1>0. r \in Handlers /\ pc[r] = "recordPdf" /\ DeskOK(r) /\ desk[r] \in Desk
      /\ desk[r].resume \in Makers /\ DOMAIN resumes = Makers
  BY RequestFacts, ResumeTypes DEF RecordPdf, ResumeInv, DeskOK, ResumeLabels
<1>a. CASE RefuseResume(r)
  BY <1>0, <1>a, RefuseResumeKeeps DEF ResumeLabels
<1>b. CASE ~RefuseResume(r)
  <2>1. PICK p \in Makers : desk[r].resume = p
    BY <1>0
  <2> DEFINE v == desk[r].version + 1
  <2>2. /\ resumes[p] # None /\ Goto(r, "done") /\ UNCHANGED <<files, desk>>
        /\ resumes' = [resumes EXCEPT ![p].pdfVersion = v, ![p].pdfPath = v]
    BY <1>b, <2>1 DEF RecordPdf
  <2> DEFINE row == [resumes[p] EXCEPT !.pdfVersion = v, !.pdfPath = v]
  <2>3. resumes' = [resumes EXCEPT ![p] = row]
    BY <1>0, <2>2
  <2>4. Moves(r) /\ pc'[r] = "done"
    BY <1>0, <2>2, GotoMoves DEF Labels, Over
  <2>5. v \in Nat \ {0}
    BY <1>0 DEF Desk
  <2>6. row \in Resume /\ row.pdfPath = v /\ row.pdfVersion = v /\ row.text = resumes[p].text
    BY <2>2, <2>5, ResumeTypes DEF Resume
  <2>7. \E f \in files : f.resume = p /\ f.version = v
    BY <1>0, <2>1 DEF DeskOK, Drawn
  <2>8. ASSUME NEW f \in files, f.resume = p, f.version = v PROVE Shown(f)
    <3>1. CASE desk[r].overtaken
      BY <2>1, <2>8, <3>1 DEF Shown, Overtaken
    <3>2. CASE ~desk[r].overtaken
      BY <1>0, <2>1, <2>2, <2>8, <3>2 DEF DeskOK, CurrentOK, Drawing, Drawn
    <3> QED
      BY <3>1, <3>2
  <2>9. v = desk[r].version + 1
    OBVIOUS
  <2> HIDE DEF row, v
  <2>10. resumes'[p] = row /\ \A o \in Makers \ {p} : resumes'[o] = resumes[o]
    BY <1>0, <2>3
  <2>11. ResumesTypeOK'
    <3>1. resumes' \in [Makers -> Resume \cup {None}]
      BY <2>3, <2>6 DEF ResumeInv, ResumesTypeOK
    <3> QED
      BY <2>2, <2>6, <2>7, <2>10, <3>1 DEF ResumeInv, ResumesTypeOK
  <2>12. \A f : Overtaken(f) => Overtaken(f)'
    BY <2>2 DEF Overtaken
  <2>13. InHandOK(r, p)'
    <3>1. RowOK(p)'
      <4>1. RowOK(p)
        BY <2>2 DEF ResumeInv
      <4> QED
        BY <2>2, <2>4, <2>6, <2>10, <4>1 DEF RowOK, Moves, Handlers, Over
    <3>2. DeskOK(r)'
      BY <1>0, <2>2, <2>4 DEF DeskOK, CurrentOK, Drawing, Over, ResumeLabels, Moves, Handlers
    <3>3. ASSUME NEW f \in files, f.resume = p PROVE ShowsOK(f)'
      BY <2>6, <2>8, <2>10, <2>12, <3>3 DEF ShowsOK, Shown
    <3>4. ASSUME NEW q \in Requests \ {r}, desk[q].resume = p PROVE CurrentOK(q)'
      <4>1. CurrentOK(q) /\ pc'[q] = pc[q]
        BY <2>4 DEF ResumeInv, DeskOK, Moves, Handlers
      <4>2. \A f \in files : Drawn(q, f) /\ Shown(f) => Shown(f)'
        BY <2>6, <2>10, <2>12, <3>4 DEF Shown, Drawn
      <4> QED
        BY <2>2, <2>6, <2>10, <3>4, <4>1, <4>2 DEF CurrentOK, Drawn
    <3> QED
      BY <2>1, <2>2, <2>11, <3>1, <3>2, <3>3, <3>4 DEF InHandOK
  <2> QED
    BY <1>0, <2>1, <2>2, <2>4, <2>10, <2>13, OneResume DEF KeepsDesk, Drawing, Over
<1> QED
  BY <1>a, <1>b

LEMMA RemoveResumeKeeps ==
  ASSUME ControlOK, ResumeInv, NEW r \in Requests, RemoveResume(r)
  PROVE  ResumeInv'
<1>0. r \in Handlers /\ pc[r] = "removeResume" /\ DeskOK(r) /\ desk[r].resume \in Makers
      /\ DOMAIN resumes = Makers
  BY RequestFacts, ResumeTypes DEF RemoveResume, ResumeInv, DeskOK, ResumeLabels
<1>a. CASE RefuseResume(r)
  BY <1>0, <1>a, RefuseResumeKeeps DEF ResumeLabels
<1>b. CASE ~RefuseResume(r)
  <2>1. PICK p \in Makers : desk[r].resume = p
    BY <1>0
  <2>2. /\ Goto(r, "done") /\ UNCHANGED <<files, desk>>
        /\ resumes' = [resumes EXCEPT ![p] = None]
    BY <1>b, <2>1 DEF RemoveResume
  <2>3. Moves(r) /\ pc'[r] = "done"
    BY <1>0, <2>2, GotoMoves DEF Labels, Over
  <2>4. resumes'[p] = None /\ \A o \in Makers \ {p} : resumes'[o] = resumes[o]
    BY <1>0, <2>2
  <2>5. ResumesTypeOK'
    <3>1. resumes' \in [Makers -> Resume \cup {None}]
      BY <2>2 DEF ResumeInv, ResumesTypeOK
    <3> QED
      BY <2>2, <2>4, <3>1 DEF ResumeInv, ResumesTypeOK
  <2>6. ~desk[r].overtaken
    BY <1>0 DEF DeskOK, Drawing, Over
  <2>7. InHandOK(r, p)'
    <3>1. DeskOK(r)'
      BY <1>0, <2>2, <2>3, <2>6 DEF DeskOK, CurrentOK, Drawing, Over, ResumeLabels, Moves, Handlers
    <3>2. ASSUME NEW q \in Requests \ {r}, desk[q].resume = p PROVE CurrentOK(q)'
      BY <2>2, <2>4, <3>2 DEF CurrentOK
    <3> QED
      BY <2>1, <2>2, <2>4, <2>5, <3>1, <3>2 DEF InHandOK
  <2> QED
    BY <1>0, <2>1, <2>2, <2>3, <2>4, <2>6, <2>7, OneResume DEF KeepsDesk, Drawing, Over
<1> QED
  BY <1>a, <1>b

LEMMA WriteResumeKeeps ==
  ASSUME ControlOK, ResumeInv, NEW r \in Requests, WriteResume(r)
  PROVE  ResumeInv'
<1>0. r \in Handlers /\ r \in Makers /\ pc[r] = "writeResume" /\ DeskOK(r) /\ desk[r] \in Desk
      /\ desk[r].resume \in Makers /\ DOMAIN resumes = Makers /\ ~desk[r].overtaken
  <2>1. r \in Handlers /\ r \in Makers /\ pc[r] = "writeResume" /\ DeskOK(r)
    BY RequestFacts DEF WriteResume, ResumeInv
  <2> QED
    BY <2>1, ResumeTypes DEF DeskOK, ResumeLabels, Drawing, Over
<1>a. CASE RefuseResume(r)
  BY <1>0, <1>a, RefuseResumeKeeps DEF ResumeLabels
<1>b. CASE ~RefuseResume(r)
  <2>1. PICK p \in Makers : desk[r].resume = p
    BY <1>0
  <2>2. /\ resumes[p] # None /\ files' = files /\ Goto(r, "draw")
        /\ resumes' = [resumes EXCEPT ![p].text = r, ![p].entries = EntriesAfter(r)]
        /\ desk' = [Overtake(desk, r) EXCEPT ![r].text = r, ![r].version = resumes[p].pdfVersion]
    BY <1>b, <2>1 DEF WriteResume
  <2>3. Moves(r) /\ pc'[r] = "draw"
    BY <1>0, <2>2, GotoMoves DEF Labels, OtherLabels, ResumeLabels
  <2>4. resumes[p] \in Resume
    BY <2>2, ResumeTypes
  <2>5. EntriesAfter(r) \subseteq Makers
    BY <1>0, <2>1, <2>4 DEF EntriesAfter, Resume
  <2> DEFINE row == [resumes[p] EXCEPT !.text = r, !.entries = EntriesAfter(r)]
             d == [desk[r] EXCEPT !.text = r, !.version = resumes[p].pdfVersion]
  <2>6. resumes' = [resumes EXCEPT ![p] = row]
    BY <1>0, <2>2
  <2>7. row \in Resume /\ row.text = r /\ row.pdfPath = resumes[p].pdfPath
        /\ row.pdfVersion = resumes[p].pdfVersion
    BY <1>0, <2>4, <2>5 DEF Resume
  <2>8. d \in Desk /\ d.resume = p /\ d.text = r /\ ~d.overtaken
    BY <1>0, <2>1, <2>4 DEF Desk, Resume
  <2>9. Overtake(desk, r)[r] = desk[r]
    BY <1>0 DEF Overtake
  <2>10. desk' = [Overtake(desk, r) EXCEPT ![r] = d]
    BY <2>2, <2>9, <1>0 DEF Overtake
  <2> HIDE DEF row, d
  <2>11. desk'[r] = d
    BY <1>0, <2>10 DEF Overtake
  <2>12. ASSUME NEW q \in Handlers, q # r
         PROVE  desk'[q] = IF desk[q].resume = p /\ pc[q] \in Drawing
                           THEN [desk[q] EXCEPT !.overtaken = TRUE] ELSE desk[q]
    BY <2>1, <2>10, <2>12 DEF Overtake, Drawing
  <2>13. ASSUME NEW q \in Requests \ {r}
         PROVE  KeepsDesk(q) /\ (desk[q].resume = p /\ pc[q] \in Drawing => desk'[q].overtaken)
    <3>1. q \in Handlers /\ q # r /\ desk[q] \in Desk
      BY RequestFacts, ResumeTypes
    <3> QED
      BY <2>12, <3>1 DEF KeepsDesk, Desk
  <2>14. desk' \in [Handlers -> Desk]
    <3>1. \A q \in Handlers : desk'[q] \in Desk
      <4> SUFFICES ASSUME NEW q \in Handlers, q # r PROVE desk'[q] \in Desk
        BY <2>8, <2>11
      <4>1. desk[q] \in Desk
        BY ResumeTypes
      <4>2. [desk[q] EXCEPT !.overtaken = TRUE] \in Desk
        BY <4>1 DEF Desk
      <4> QED
        BY <2>12, <4>1, <4>2
    <3> QED
      BY <2>10, <3>1 DEF Overtake
  <2>15. resumes'[p] = row /\ \A o \in Makers \ {p} : resumes'[o] = resumes[o]
    BY <1>0, <2>6
  <2>16. ResumesTypeOK'
    <3>1. resumes' \in [Makers -> Resume \cup {None}]
      BY <2>6, <2>7 DEF ResumeInv, ResumesTypeOK
    <3>2. /\ files' \subseteq File
          /\ \A o \in Makers : resumes[o] # None /\ resumes[o].pdfPath # 0 =>
               /\ resumes[o].pdfPath = resumes[o].pdfVersion
               /\ \E f \in files : f.resume = o /\ f.version = resumes[o].pdfPath
      BY <2>2 DEF ResumeInv, ResumesTypeOK
    <3>3. ASSUME NEW o \in Makers, resumes'[o] # None, resumes'[o].pdfPath # 0
          PROVE  /\ resumes'[o].pdfPath = resumes'[o].pdfVersion
                 /\ \E f \in files' : f.resume = o /\ f.version = resumes'[o].pdfPath
      <4>1. /\ resumes[o] # None /\ resumes'[o].pdfPath = resumes[o].pdfPath
            /\ resumes'[o].pdfVersion = resumes[o].pdfVersion
        BY <2>2, <2>7, <2>15, <3>3
      <4> QED
        BY <2>2, <3>2, <3>3, <4>1
    <3> QED
      BY <2>14, <3>1, <3>2, <3>3 DEF ResumesTypeOK
  <2>17. InHandOK(r, p)'
    <3>1. RowOK(p)'
      <4>1. RowOK(p)
        BY <2>2 DEF ResumeInv
      <4>2. p \in Requests => pc'[p] \notin {"idle", "insertResume"}
        BY <2>3, <4>1 DEF RowOK, Moves, Handlers
      <4> QED
        BY <2>3, <2>7, <2>8, <2>11, <2>15, <4>2 DEF RowOK, Drawing
    <3>2. DeskOK(r)'
      <4>1. CurrentOK(r)'
        BY <2>3, <2>7, <2>8, <2>11, <2>15 DEF CurrentOK
      <4>2. p \in Requests \ {r} => pc'[p] \notin {"idle", "insertResume"}
        BY <1>0, <2>1, <2>3 DEF DeskOK, Moves, Handlers
      <4> QED
        BY <1>0, <2>3, <2>8, <2>11, <4>1, <4>2 DEF DeskOK, Drawing
    <3>3. ASSUME NEW f \in files, f.resume = p PROVE ShowsOK(f)'
      BY <2>3, <2>7, <2>15, <3>3 DEF ShowsOK
    <3>4. ASSUME NEW q \in Requests \ {r}, desk'[q].resume = p PROVE CurrentOK(q)'
      <4>1. pc'[q] = pc[q] /\ desk[q].resume = p
        BY <2>3, <2>13, <3>4 DEF Moves, Handlers, KeepsDesk
      <4> QED
        BY <2>13, <4>1 DEF CurrentOK
    <3> QED
      BY <2>2, <2>8, <2>11, <2>16, <3>1, <3>2, <3>3, <3>4 DEF InHandOK
  <2> QED
    BY <1>0, <2>1, <2>2, <2>3, <2>8, <2>11, <2>13, <2>15, <2>17, OneResume DEF Drawing, Over
<1> QED
  BY <1>a, <1>b

LEMMA ResumesKeep ==
  ASSUME ControlOK, ResumeInv, NEW r \in Requests, ResumesStep(r)
  PROVE  ResumeInv'
BY OpensKeep, InsertResumeKeeps, GetResumeKeeps, WriteResumeKeeps, ResumePdfLambdaKeeps,
   RecordPdfKeeps, RemoveResumeKeeps DEF ResumesStep

LEMMA ResumeStep ==
  ASSUME ControlOK, ResumeInv, [Next]_vars
  PROVE  ResumeInv'
<1>1. CASE UNCHANGED vars
  <2>1. UNCHANGED <<pc, resumes, files, desk>>
    BY <1>1 DEF vars, control, resumeVars, resumeTables
  <2>2. ResumesTypeOK' /\ PdfShowsRow'
    BY <2>1 DEF ResumeInv, ResumesTypeOK, PdfShowsRow
  <2>3. ASSUME NEW r \in Requests PROVE DeskOK(r)'
    BY <2>1 DEF ResumeInv, DeskOK, CurrentOK, Drawn, Shown, Overtaken
  <2>4. \A p \in Makers : resumes[p] # None => RowOK(p)'
    BY <2>1 DEF ResumeInv, RowOK
  <2> QED
    BY <2>1, <2>2, <2>3, <2>4 DEF ResumeInv
<1>2. ASSUME NEW a \in Handlers, NEW L, NEW K, Stays(a, L, K), UNCHANGED resumeVars,
             L \cap ResumeLabels = {}, "idle" \notin L, L \cap Over = {}
      PROVE  ResumeInv'
  <2>1. pc[a] \notin Over /\ pc'[a] \notin ResumeLabels \cup {"idle"} /\ pc[a] \notin ResumeLabels
    BY <1>2, Sides DEF Stays
  <2> QED
    BY <1>2, <2>1, ResumeFrame DEF Stays
<1>3. ASSUME NEW r \in Requests, OtherStep(r) PROVE ResumeInv'
  BY <1>2, <1>3, ResumesKeep, PlansMove, Sides, RequestFacts DEF OtherStep
<1>4. ASSUME NEW e \in Emissions, EmissionStep(e) \/ AbilitiesStep(e), UNCHANGED resumeVars
      PROVE  ResumeInv'
  BY <1>2, <1>4, EmissionsMove, Sides DEF Handlers
<1>5. ASSUME NEW a \in Handlers, Fail(a) PROVE ResumeInv'
  <2>1. Moves(a) /\ pc'[a] = "failed" /\ pc[a] \notin Over /\ UNCHANGED resumeVars
    BY <1>5, FailMoves DEF Fail
  <2> QED
    BY <2>1, ResumeFrame, Sides
<1>6. ASSUME NEW r \in Requests, PathsStep(r) \/ CareersStep(r), UNCHANGED resumeVars
      PROVE  ResumeInv'
  BY <1>2, <1>6, PathsMove, CareersMove, Sides, RequestFacts
<1>7. ASSUME NEW r \in Requests, StudiesStep(r), UNCHANGED resumeVars PROVE ResumeInv'
  BY <1>2, <1>7, StudiesMove, Sides, RequestFacts DEF StudiesStep
<1>8. CASE Next
  BY <1>3, <1>4, <1>5, <1>6, <1>7, <1>8 DEF Next, otherVars
<1> QED
  BY <1>1, <1>8

(* Every run of any number of requests keeps PdfShowsRow: the PDF a resume *)
(* names shows what the resume says, unless who wrote that did not come to *)
(* recording its PDF or a handler overtaken while it drew gave the version *)
(* (resumes.service.ts).                                                   *)
THEOREM PdfsExplained == Spec => []PdfShowsRow
<1>1. Init => ControlOK /\ ResumeInv
  BY EmptyInit, ResumeInit
<1>2. ControlOK /\ ResumeInv /\ [Next]_vars => (ControlOK /\ ResumeInv)'
  BY ControlStep, ResumeStep
<1>3. ControlOK /\ ResumeInv => PdfShowsRow
  BY DEF ResumeInv
<1> QED
  BY <1>1, <1>2, <1>3, PTL DEF Spec


-----------------------------------------------------------------------------
(* Development plans and the catalogue of abilities.                       *)

(* The labels of the making of a plan, and those before the links of a     *)
(* node are written.                                                       *)
Linking == {"findKnown", "findReviews", "addReviews", "linkAbilities"}

Making == Linking \cup {"createNode", "findBook", "writeBook"}

(* A skill was approved, rejected or deleted.                              *)
Lost(s) == \E r \in Requests : /\ kind[r] \in {"approve", "reject", "deleteAbility"}
                               /\ pc[r] = "done" /\ draft[r].row.skill = s

Linked(p, i, s) == \E a \in plans[p][i] : a.skill = s

Covered(p, i) == \A s \in draft[p].roadmap[i].skills : Linked(p, i, s) \/ Lost(s)

(* The plan has its nodes up to the step it is at, with their skills.      *)
ProgressOK(p) ==
  kind[p] = "createPDI" /\ pc[p] \in Making \cup {"done"} /\ plans[p] # None =>
    /\ Len(plans[p]) = draft[p].step
    /\ \A i \in 1..draft[p].step : i < draft[p].step \/ pc[p] \notin Linking => Covered(p, i)
    /\ pc[p] = "done" => draft[p].step = Len(draft[p].roadmap)

StageOK(p) ==
  /\ kind[p] = "createPDI" /\ pc[p] # "idle" => pc[p] \in Making \cup {"writePlan"} \cup Over
  /\ pc[p] \in Making \cup {"writePlan"} =>
       /\ kind[p] = "createPDI" /\ draft[p].roadmap \in Roadmaps
       /\ IF pc[p] \in {"createNode", "writePlan"} THEN draft[p].step < Len(draft[p].roadmap)
          ELSE draft[p].step \in 1..Len(draft[p].roadmap)
  /\ pc[p] = "writePlan" => draft[p].step = 0
  /\ pc[p] = "linkAbilities" => Missing(p) = {}
  /\ pc[p] = "decide" => draft[p].row \in Ability
  /\ pc[p] = "removePlan" => draft[p].plan \in Makers

RowsOK ==
  /\ PlansTypeOK
  /\ plans \in [Makers -> Seq(SUBSET (abilities \cup reviews)) \cup {None}]

PlanInv ==
  /\ RowsOK
  /\ \A p \in Requests : ProgressOK(p) /\ StageOK(p)

LEMMA PlanProperty == PlanInv => SkillsLostHaveCause
<1> SUFFICES ASSUME PlanInv, NEW p \in Requests, kind[p] = "createPDI", pc[p] = "done", plans[p] # None
             PROVE  /\ Len(plans[p]) = Len(draft[p].roadmap)
                    /\ \A i \in 1..Len(draft[p].roadmap) : Covered(p, i)
  BY DEF SkillsLostHaveCause, Covered, Linked, Lost
<1>1. ProgressOK(p) /\ pc[p] \notin Linking
  BY DEF PlanInv, Linking
<1> QED
  BY <1>1 DEF ProgressOK

LEMMA PlanInit == Init => PlanInv
<1> SUFFICES ASSUME Init PROVE PlanInv
  OBVIOUS
<1>1. /\ abilities = {[skill |-> s, theme |-> "other", by |-> Former, at |-> 0] : s \in Catalogue}
      /\ reviews = {} /\ books = {}
      /\ plans = [p \in Makers |-> None]
      /\ draft = [a \in Handlers |-> NoDraft]
      /\ pc = [a \in Handlers |-> "idle"] /\ kind = [a \in Handlers |-> None]
  BY DEF Init, PlansInit, ControlInit
<1>2. abilities \subseteq Ability
  BY <1>1, PlansAssumption DEF Ability, Makers
<1>3. NoDraft \in Draft
  BY DEF NoDraft, Draft
<1>4. RowsOK
  <2>1. \A a, b \in abilities : a.skill = b.skill /\ a.theme = b.theme => a = b
    BY <1>1
  <2> QED
    BY <1>1, <1>2, <1>3, <2>1 DEF RowsOK, PlansTypeOK
<1>5. \A p \in Requests : pc[p] = "idle" /\ plans[p] = None
  BY <1>1, RequestFacts
<1> QED
  BY <1>4, <1>5 DEF PlanInv, ProgressOK, StageOK, Making, Linking

LEMMA PlanTypes ==
  ASSUME PlanInv
  PROVE  /\ draft \in [Handlers -> Draft] /\ DOMAIN draft = Handlers /\ DOMAIN plans = Makers
         /\ \A a \in Handlers : draft[a] \in Draft
         /\ \A p \in Makers : plans[p] # None => plans[p] \in Seq(SUBSET (abilities \cup reviews))
         /\ abilities \subseteq Ability /\ reviews \subseteq Ability
BY DEF PlanInv, RowsOK, PlansTypeOK

(* What a step may do to the plan of another: nothing, delete it, or take  *)
(* out of it what is lost.                                                 *)
Retained(q) ==
  plans'[q] # None =>
    /\ plans[q] # None /\ Len(plans'[q]) = Len(plans[q])
    /\ \A i \in 1..Len(plans[q]) : \A s : Linked(q, i, s) => Linked(q, i, s)' \/ Lost(s)'

(* What was lost stays lost.                                               *)
LEMMA LostStays ==
  ASSUME NEW a \in Handlers, Moves(a), pc[a] \notin Over,
         \A b \in Handlers \ {a} : draft'[b] = draft[b]
  PROVE  \A s : Lost(s) => Lost(s)'
<1> SUFFICES ASSUME NEW s, Lost(s) PROVE Lost(s)'
  OBVIOUS
<1>1. PICK r \in Requests : /\ kind[r] \in {"approve", "reject", "deleteAbility"}
                            /\ pc[r] = "done" /\ draft[r].row.skill = s
  BY DEF Lost
<1>2. r # a /\ r \in Handlers
  BY <1>1, RequestFacts DEF Over
<1> QED
  BY <1>1, <1>2 DEF Lost, Moves

(* The others keep what they have when one moves.                          *)
LEMMA OnePlan ==
  ASSUME PlanInv, NEW a \in Handlers, Moves(a), pc[a] \notin Over, pc'[a] # "idle",
         \A b \in Handlers \ {a} : draft'[b] = draft[b],
         \A q \in Requests \ {a} : Retained(q),
         RowsOK',
         a \in Requests => ProgressOK(a)' /\ StageOK(a)'
  PROVE  PlanInv'
<1>1. \A b \in Handlers \ {a} : pc'[b] = pc[b] /\ kind'[b] = kind[b]
  BY DEF Moves
<1>2. \A s : Lost(s) => Lost(s)'
  BY LostStays
<1>3. ASSUME NEW q \in Requests \ {a} PROVE ProgressOK(q)' /\ StageOK(q)'
  <2>1. /\ pc'[q] = pc[q] /\ kind'[q] = kind[q] /\ draft'[q] = draft[q] /\ Retained(q)
        /\ ProgressOK(q) /\ StageOK(q)
    BY <1>1, RequestFacts DEF PlanInv
  <2>2. StageOK(q)'
    BY <2>1 DEF StageOK, Missing, Current
  <2>3. ProgressOK(q)'
    <3> SUFFICES ASSUME kind[q] = "createPDI", pc[q] \in Making \cup {"done"}, plans'[q] # None
                 PROVE  ProgressOK(q)'
      BY <2>1 DEF ProgressOK
    <3>1. plans[q] # None /\ Len(plans'[q]) = Len(plans[q]) /\ Len(plans[q]) = draft[q].step
      BY <2>1 DEF ProgressOK, Retained
    <3>2. ASSUME NEW i \in 1..draft[q].step, Covered(q, i) PROVE Covered(q, i)'
      <4>1. \A s : Linked(q, i, s) => Linked(q, i, s)' \/ Lost(s)'
        BY <2>1, <3>1 DEF Retained
      <4> QED
        BY <1>2, <2>1, <3>2, <4>1 DEF Covered
    <3> QED
      BY <2>1, <3>1, <3>2 DEF ProgressOK
  <2> QED
    BY <2>2, <2>3
<1> QED
  BY <1>3 DEF PlanInv

LEMMA KeptIsRetained ==
  ASSUME NEW q, plans'[q] = plans[q]
  PROVE  Retained(q)
BY DEF Retained, Linked

(* A step that keeps the tables and is of no plan, or ends one badly.      *)
LEMMA PlanFrame ==
  ASSUME PlanInv, NEW a \in Handlers, Moves(a), UNCHANGED planVars, pc[a] \notin Over,
         pc'[a] \notin PlanLabels \cup {"idle"},
         a \in Requests /\ kind'[a] = "createPDI" => pc'[a] \in {"refused", "failed"}
  PROVE  PlanInv'
<1>1. UNCHANGED <<abilities, reviews, books, plans, draft>>
  BY DEF planVars, planTables
<1>2. RowsOK'
  BY <1>1 DEF PlanInv, RowsOK, PlansTypeOK
<1>3. a \in Requests => ProgressOK(a)' /\ StageOK(a)'
  BY DEF ProgressOK, StageOK, Making, Linking, PlanLabels, Over
<1>4. \A q \in Requests : Retained(q)
  BY <1>1, KeptIsRetained
<1> QED
  BY <1>1, <1>2, <1>3, <1>4, OnePlan

LEMMA RefusePlanKeeps ==
  ASSUME ControlOK, PlanInv, NEW r \in Requests, RefusePlan(r), pc[r] \in PlanLabels
  PROVE  PlanInv'
<1>1. r \in Handlers /\ Goto(r, "refused") /\ UNCHANGED planVars
  BY RequestFacts DEF RefusePlan
<1>2. Moves(r) /\ pc'[r] = "refused"
  BY <1>1, GotoMoves DEF Labels, Over
<1> QED
  BY <1>1, <1>2, PlanFrame, Sides

(* A step that writes no more than the draft.                              *)
LEMMA PlanDrafts ==
  ASSUME PlanInv, NEW r \in Requests, Moves(r), UNCHANGED planTables,
         NEW d \in Draft, draft' = [draft EXCEPT ![r] = d],
         pc[r] \notin Over, pc'[r] # "idle", ProgressOK(r)', StageOK(r)'
  PROVE  PlanInv'
<1>1. UNCHANGED <<abilities, reviews, books, plans>> /\ r \in Handlers
  BY RequestFacts DEF planTables
<1>2. draft' \in [Handlers -> Draft] /\ \A b \in Handlers \ {r} : draft'[b] = draft[b]
  BY <1>1, PlanTypes
<1>3. RowsOK'
  BY <1>1, <1>2 DEF PlanInv, RowsOK, PlansTypeOK
<1>4. \A q \in Requests : Retained(q)
  BY <1>1, KeptIsRetained
<1> QED
  BY <1>1, <1>2, <1>3, <1>4, OnePlan

(* The step a plan is at.                                                  *)
LEMMA CurrentStep ==
  ASSUME PlanInv, NEW r \in Requests, pc[r] \in Making \ {"createNode"}
  PROVE  /\ draft[r].step \in 1..Len(draft[r].roadmap) /\ draft[r].roadmap \in Roadmaps
         /\ Current(r) \in Step /\ kind[r] = "createPDI" /\ draft[r].step \in Nat \ {0}
         /\ draft[r].step <= Len(draft[r].roadmap) /\ Len(draft[r].roadmap) \in Nat
<1>1. StageOK(r) /\ pc[r] \notin {"createNode", "writePlan"}
  BY DEF PlanInv, Making, Linking
<1>2. draft[r].step \in 1..Len(draft[r].roadmap) /\ draft[r].roadmap \in Roadmaps
  BY <1>1 DEF StageOK
<1>3. draft[r].roadmap \in Seq(Step)
  BY <1>2, PlansAssumption
<1> QED
  BY <1>1, <1>2, <1>3, ElementOfSeq, LenProperties DEF Current, StageOK

LEMMA PlanOpensKeep ==
  ASSUME ControlOK, PlanInv, NEW r \in Requests, CreatePDI(r) \/ DeletePDI(r)
  PROVE  PlanInv'
<1>0. r \in Handlers /\ r \in Makers
  BY RequestFacts
<1>1. CASE CreatePDI(r)
  <2>1. PICK m \in Roadmaps : draft' = [draft EXCEPT ![r] = [NoDraft EXCEPT !.plan = r, !.roadmap = m]]
    BY <1>1 DEF CreatePDI
  <2> DEFINE d == [NoDraft EXCEPT !.plan = r, !.roadmap = m]
  <2>2. d \in Draft /\ d.roadmap = m /\ d.step = 0
    BY <1>0 DEF NoDraft, Draft
  <2>3. m \in Roadmaps /\ 0 < Len(m)
    <3>1. m \in Seq(Step) /\ m # <<>>
      BY PlansAssumption
    <3> QED
      BY <3>1, EmptySeq
  <2> HIDE DEF d
  <2>4. Start(r, "createPDI", "writePlan") /\ UNCHANGED planTables
    BY <1>1 DEF CreatePDI
  <2>5. Moves(r) /\ pc[r] = "idle" /\ pc'[r] = "writePlan" /\ kind'[r] = "createPDI"
    BY <1>0, <2>4, StartMoves DEF Labels, OtherLabels, PlanLabels, Kinds, PlanKinds
  <2>6. draft' = [draft EXCEPT ![r] = d] /\ draft'[r] = d
    BY <1>0, <2>1, PlanTypes DEF d
  <2>7. ProgressOK(r)' /\ StageOK(r)'
    BY <2>2, <2>3, <2>5, <2>6 DEF ProgressOK, StageOK, Making, Linking
  <2> QED
    BY <2>2, <2>4, <2>5, <2>6, <2>7, PlanDrafts DEF Over
<1>2. CASE DeletePDI(r)
  <2>1. PICK p \in Makers : draft' = [draft EXCEPT ![r] = [NoDraft EXCEPT !.plan = p]]
    BY <1>2 DEF DeletePDI
  <2> DEFINE d == [NoDraft EXCEPT !.plan = p]
  <2>2. d \in Draft /\ d.plan = p
    BY <1>0 DEF NoDraft, Draft
  <2> HIDE DEF d
  <2>4. Start(r, "deletePDI", "removePlan") /\ UNCHANGED planTables
    BY <1>2 DEF DeletePDI
  <2>5. Moves(r) /\ pc[r] = "idle" /\ pc'[r] = "removePlan" /\ kind'[r] = "deletePDI"
    BY <1>0, <2>4, StartMoves DEF Labels, OtherLabels, PlanLabels, Kinds, PlanKinds
  <2>6. draft' = [draft EXCEPT ![r] = d] /\ draft'[r] = d
    BY <1>0, <2>1, PlanTypes DEF d
  <2>7. ProgressOK(r)' /\ StageOK(r)'
    BY <2>2, <2>5, <2>6 DEF ProgressOK, StageOK, Making, Linking
  <2> QED
    BY <2>2, <2>4, <2>5, <2>6, <2>7, PlanDrafts DEF Over
<1> QED
  BY <1>1, <1>2

LEMMA DecideKeeps ==
  ASSUME ControlOK, PlanInv, NEW r \in Requests, NEW k \in PlanKinds \ {"createPDI"},
         NEW rows \in SUBSET Ability, Decide(r, k, rows)
  PROVE  PlanInv'
<1>0. r \in Handlers
  BY RequestFacts
<1>1. PICK a \in rows : draft' = [draft EXCEPT ![r] = [NoDraft EXCEPT !.row = a]]
  BY DEF Decide
<1> DEFINE d == [NoDraft EXCEPT !.row = a]
<1>2. d \in Draft /\ d.row = a /\ a \in Ability
  BY DEF NoDraft, Draft
<1> HIDE DEF d
<1>4. Start(r, k, "decide") /\ UNCHANGED planTables
  BY DEF Decide
<1>5. Moves(r) /\ pc[r] = "idle" /\ pc'[r] = "decide" /\ kind'[r] = k
  BY <1>0, <1>4, StartMoves DEF Labels, OtherLabels, PlanLabels, Kinds
<1>6. draft' = [draft EXCEPT ![r] = d] /\ draft'[r] = d
  BY <1>0, <1>1, PlanTypes DEF d
<1>7. ProgressOK(r)' /\ StageOK(r)'
  BY <1>2, <1>5, <1>6 DEF ProgressOK, StageOK, Making, Linking
<1> QED
  BY <1>2, <1>4, <1>5, <1>6, <1>7, PlanDrafts DEF Over

LEMMA DecidesKeep ==
  ASSUME ControlOK, PlanInv, NEW r \in Requests,
         \/ UpgradeAbilityOnReview(r) \/ DeleteAbilityOnReview(r) \/ DeleteAbility(r)
         \/ CreateNewAbility(r) \/ SuggestAbility(r)
  PROVE  PlanInv'
<1>1. New(r) \subseteq Ability
  BY RequestFacts DEF New, Ability
<1> QED
  BY <1>1, PlanTypes, DecideKeeps DEF UpgradeAbilityOnReview, DeleteAbilityOnReview, DeleteAbility,
     CreateNewAbility, SuggestAbility, PlanKinds

(* What a maker finds out about the step he is at.                         *)
LEMMA PlanFindsKeep ==
  ASSUME ControlOK, PlanInv, NEW r \in Requests,
         GetAbilitiesByName(r) \/ GetAbilitiesOnReviewByName(r) \/ FindBook(r)
  PROVE  PlanInv'
<1>0. /\ r \in Handlers /\ pc[r] \in {"findKnown", "findReviews", "findBook"}
      /\ ProgressOK(r) /\ StageOK(r)
  BY RequestFacts DEF GetAbilitiesByName, GetAbilitiesOnReviewByName, FindBook, PlanInv
<1>1. PICK d \in Draft :
        /\ draft' = [draft EXCEPT ![r] = d]
        /\ d.roadmap = draft[r].roadmap /\ d.step = draft[r].step
  <2>1. draft[r] \in Draft
    BY <1>0, PlanTypes
  <2>2. CASE GetAbilitiesByName(r)
    <3> DEFINE d == [draft[r] EXCEPT !.known = OfStep(r, abilities)]
    <3>1. d \in Draft /\ d.roadmap = draft[r].roadmap /\ d.step = draft[r].step
      BY <2>1, PlanTypes DEF Draft, OfStep
    <3>2. draft' = [draft EXCEPT ![r] = d]
      BY <1>0, <2>2, PlanTypes DEF GetAbilitiesByName
    <3> QED
      BY <3>1, <3>2
  <2>3. CASE GetAbilitiesOnReviewByName(r)
    <3> DEFINE d == [draft[r] EXCEPT !.pending = OfStep(r, reviews)]
    <3>1. d \in Draft /\ d.roadmap = draft[r].roadmap /\ d.step = draft[r].step
      BY <2>1, PlanTypes DEF Draft, OfStep
    <3>2. draft' = [draft EXCEPT ![r] = d]
      BY <1>0, <2>3, PlanTypes DEF GetAbilitiesOnReviewByName
    <3> QED
      BY <3>1, <3>2
  <2>4. CASE FindBook(r)
    <3> DEFINE has == Current(r).book \in books
    <3>a. draft' = [draft EXCEPT ![r].bookFound = has]
      BY <2>4, Zenon DEF FindBook
    <3>b. has \in BOOLEAN
      OBVIOUS
    <3> HIDE DEF has
    <3>0. PICK found \in BOOLEAN : draft' = [draft EXCEPT ![r].bookFound = found]
      BY <3>a, <3>b, Zenon
    <3> DEFINE d == [draft[r] EXCEPT !.bookFound = found]
    <3>1. d \in Draft /\ d.roadmap = draft[r].roadmap /\ d.step = draft[r].step
      BY <2>1 DEF Draft
    <3>2. draft' = [draft EXCEPT ![r] = d]
      BY <1>0, <3>0, PlanTypes
    <3> QED
      BY <3>1, <3>2
  <2> QED
    BY <2>2, <2>3, <2>4
<1>2. /\ UNCHANGED <<abilities, reviews, books, plans>> /\ draft'[r] = d
      /\ \/ pc[r] = "findKnown" /\ Goto(r, "findReviews")
         \/ pc[r] = "findReviews" /\ Goto(r, "addReviews")
         \/ pc[r] = "findBook" /\ Goto(r, "writeBook")
  BY <1>0, <1>1, PlanTypes DEF GetAbilitiesByName, GetAbilitiesOnReviewByName, FindBook, planTables
<1>3. /\ Moves(r) /\ kind'[r] = kind[r]
      /\ \/ pc[r] \in Linking /\ pc'[r] \in {"findReviews", "addReviews"}
         \/ pc[r] = "findBook" /\ pc'[r] = "writeBook"
  BY <1>0, <1>2, GotoMoves DEF Labels, OtherLabels, PlanLabels, Linking
<1>4. StageOK(r)'
  BY <1>0, <1>1, <1>2, <1>3 DEF StageOK, Making, Linking
<1>5. ProgressOK(r)'
  <2> SUFFICES ASSUME plans[r] # None PROVE ProgressOK(r)'
    BY <1>2 DEF ProgressOK
  <2>1. \A i : Covered(r, i) => Covered(r, i)'
    <3>1. \A s : Lost(s) => Lost(s)'
      BY <1>0, <1>1, <1>3, LostStays, PlanTypes DEF Linking, Over
    <3> QED
      BY <1>1, <1>2, <3>1 DEF Covered, Linked
  <2> QED
    BY <1>0, <1>1, <1>2, <1>3, <2>1 DEF ProgressOK, StageOK, Making, Linking
<1> QED
  BY <1>0, <1>1, <1>2, <1>3, <1>4, <1>5, PlanDrafts DEF planTables, Over

(* The rows of the plans, when those they are linked to are not taken      *)
(* away.                                                                   *)
LEMMA PlanRows ==
  ASSUME PlanInv, DOMAIN plans' = Makers, abilities \cup reviews \subseteq abilities' \cup reviews',
         \A p \in Makers : plans'[p] # None =>
           plans'[p] = plans[p] \/ plans'[p] \in Seq(SUBSET (abilities' \cup reviews')),
         plans' = [p \in DOMAIN plans' |-> plans'[p]]
  PROVE  /\ plans' \in [Makers -> Seq(SUBSET (abilities \cup reviews)') \cup {None}]
         /\ \A p \in Makers : plans'[p] # None => plans'[p] \in Seq(SUBSET (abilities \cup reviews)')
<1> DEFINE S == SUBSET (abilities \cup reviews)
           T == SUBSET (abilities' \cup reviews')
<1>1. S \subseteq T
  OBVIOUS
<1>2. \A p \in Makers : plans[p] # None => plans[p] \in Seq(S)
  BY PlanTypes
<1> HIDE DEF S, T
<1>3. ASSUME NEW p \in Makers, plans'[p] # None PROVE plans'[p] \in Seq(T)
  <2>1. CASE plans'[p] = plans[p]
    BY <1>1, <1>2, <1>3, <2>1, SeqMonotonic
  <2>2. CASE plans'[p] \in Seq(T)
    BY <2>2
  <2> QED
    BY <1>3, <2>1, <2>2 DEF T
<1>4. plans' \in [Makers -> Seq(T) \cup {None}]
  BY <1>3
<1> QED
  BY <1>3, <1>4 DEF T

LEMMA CreatePdiKeeps ==
  ASSUME ControlOK, PlanInv, NEW r \in Requests, CreatePdi(r)
  PROVE  PlanInv'
<1>0. r \in Handlers /\ r \in Makers /\ StageOK(r) /\ pc[r] = "writePlan" /\ Goto(r, "createNode")
      /\ UNCHANGED <<abilities, reviews, books, draft>> /\ plans' = [plans EXCEPT ![r] = <<>>]
  BY RequestFacts DEF CreatePdi, PlanInv
<1>1. Moves(r) /\ pc'[r] = "createNode" /\ kind'[r] = kind[r]
  BY <1>0, GotoMoves DEF Labels, OtherLabels, PlanLabels
<1>2. plans'[r] = <<>> /\ \A p \in Makers \ {r} : plans'[p] = plans[p]
  BY <1>0, PlanTypes
<1>3. RowsOK'
  <2>1. DOMAIN plans' = Makers /\ plans' = [p \in DOMAIN plans' |-> plans'[p]]
    BY <1>0, PlanTypes
  <2>2. <<>> \in Seq(SUBSET (abilities' \cup reviews'))
    BY EmptySeq
  <2> QED
    BY <1>0, <1>2, <2>1, <2>2, PlanRows DEF PlanInv, RowsOK, PlansTypeOK
<1>4. StageOK(r)'
  BY <1>0, <1>1 DEF StageOK, Making, Linking
<1>5. ProgressOK(r)'
  <2>1. draft'[r].step = 0 /\ Len(<<>>) = 0
    BY <1>0, EmptySeq DEF StageOK
  <2> QED
    BY <1>1, <1>2, <2>1 DEF ProgressOK
<1>6. \A q \in Requests \ {r} : Retained(q)
  BY <1>2, KeptIsRetained, RequestFacts
<1> QED
  BY <1>0, <1>1, <1>3, <1>4, <1>5, <1>6, OnePlan DEF Over

LEMMA CreatePdiNodeKeeps ==
  ASSUME ControlOK, PlanInv, NEW r \in Requests, CreatePdiNode(r)
  PROVE  PlanInv'
<1>a. CASE RefusePlan(r)
  BY <1>a, RefusePlanKeeps DEF CreatePdiNode, PlanLabels
<1>b. CASE ~RefusePlan(r)
  <2>0. /\ r \in Handlers /\ r \in Makers /\ StageOK(r) /\ ProgressOK(r) /\ pc[r] = "createNode"
        /\ plans[r] # None /\ Goto(r, "findKnown")
        /\ UNCHANGED <<abilities, reviews, books>> /\ plans' = [plans EXCEPT ![r] = Append(@, {})]
        /\ draft' = [draft EXCEPT ![r].step = @ + 1] /\ draft[r] \in Draft
    BY <1>b, RequestFacts, PlanTypes DEF CreatePdiNode, PlanInv
  <2> DEFINE d == [draft[r] EXCEPT !.step = @ + 1]
  <2>1. draft' = [draft EXCEPT ![r] = d]
    BY <2>0, PlanTypes
  <2>2. d \in Draft /\ d.step = draft[r].step + 1 /\ d.roadmap = draft[r].roadmap /\ draft[r].step \in Nat
    BY <2>0 DEF Draft
  <2> HIDE DEF d
  <2>3. /\ draft' \in [Handlers -> Draft] /\ draft'[r] = d
        /\ \A b \in Handlers \ {r} : draft'[b] = draft[b]
    BY <2>0, <2>1, <2>2, PlanTypes
  <2>4. Moves(r) /\ pc'[r] = "findKnown" /\ kind'[r] = kind[r]
    BY <2>0, GotoMoves DEF Labels, OtherLabels, PlanLabels
  <2>5. plans'[r] = Append(plans[r], {}) /\ \A p \in Makers \ {r} : plans'[p] = plans[p]
    BY <2>0, PlanTypes
  <2>6. plans[r] \in Seq(SUBSET (abilities \cup reviews))
    BY <2>0, PlanTypes
  <2>7. /\ plans'[r] \in Seq(SUBSET (abilities \cup reviews)) /\ Len(plans'[r]) = Len(plans[r]) + 1
        /\ \A i \in 1..Len(plans[r]) : plans'[r][i] = plans[r][i]
        /\ Len(plans[r]) \in Nat
    <3> DEFINE S == SUBSET (abilities \cup reviews)
    <3>1. {} \in S
      OBVIOUS
    <3> HIDE DEF S
    <3>2. plans[r] \in Seq(S)
      BY <2>6 DEF S
    <3> QED
      BY <2>5, <3>1, <3>2 DEF S
  <2>8. RowsOK'
    <3>1. DOMAIN plans' = Makers /\ plans' = [p \in DOMAIN plans' |-> plans'[p]]
      BY <2>0, PlanTypes
    <3>2. plans'[r] \in Seq(SUBSET (abilities' \cup reviews'))
      BY <2>0, <2>7
    <3> QED
      BY <2>0, <2>3, <2>5, <3>1, <3>2, PlanRows DEF PlanInv, RowsOK, PlansTypeOK
  <2>9. StageOK(r)'
    <3>1. Len(draft[r].roadmap) \in Nat
      BY <2>0, PlansAssumption, LenProperties DEF StageOK
    <3> QED
      BY <2>0, <2>2, <2>3, <2>4, <3>1 DEF StageOK, Making, Linking
  <2>10. ProgressOK(r)'
    <3>1. kind[r] = "createPDI" /\ Len(plans[r]) = draft[r].step
          /\ \A i \in 1..draft[r].step : Covered(r, i)
      BY <2>0 DEF ProgressOK, StageOK, Making, Linking
    <3>2. \A s : Lost(s) => Lost(s)'
      BY <2>0, <2>3, <2>4, LostStays DEF Over
    <3>3. ASSUME NEW i \in 1..draft[r].step PROVE Covered(r, i)'
      BY <2>2, <2>3, <2>7, <3>1, <3>2 DEF Covered, Linked
    <3>4. \A i \in 1..draft'[r].step : i < draft'[r].step => i \in 1..draft[r].step
      BY <2>2, <2>3
    <3> QED
      BY <2>2, <2>3, <2>4, <2>7, <3>1, <3>3, <3>4 DEF ProgressOK, Linking
  <2>11. \A q \in Requests \ {r} : Retained(q)
    BY <2>5, KeptIsRetained, RequestFacts
  <2> QED
    BY <2>0, <2>3, <2>4, <2>8, <2>9, <2>10, <2>11, OnePlan DEF Over
<1> QED
  BY <1>a, <1>b

LEMMA CreateAbilityOnReviewKeeps ==
  ASSUME ControlOK, PlanInv, NEW r \in Requests, CreateAbilityOnReview(r)
  PROVE  PlanInv'
<1>0. /\ r \in Handlers /\ r \in Makers /\ StageOK(r) /\ ProgressOK(r) /\ pc[r] = "addReviews"
      /\ draft[r] \in Draft
  BY RequestFacts, PlanTypes DEF CreateAbilityOnReview, PlanInv
<1>1. CASE Missing(r) = {} /\ Goto(r, "linkAbilities") /\ UNCHANGED planVars
  <2>1. Moves(r) /\ pc'[r] = "linkAbilities" /\ kind'[r] = kind[r]
    BY <1>0, <1>1, GotoMoves DEF Labels, OtherLabels, PlanLabels
  <2>2. UNCHANGED <<abilities, reviews, books, plans, draft>>
    BY <1>1 DEF planVars, planTables
  <2>3. StageOK(r)'
    BY <1>0, <1>1, <2>1, <2>2 DEF StageOK, Missing, Current, Making, Linking
  <2>4. \A s : Lost(s) => Lost(s)'
    BY <1>0, <2>1, <2>2, LostStays DEF Over
  <2>5. \A i : Covered(r, i) => Covered(r, i)'
    BY <2>2, <2>4 DEF Covered, Linked
  <2>6. ProgressOK(r)'
    BY <1>0, <2>1, <2>2, <2>5 DEF ProgressOK, Making, Linking
  <2>7. draft' = [draft EXCEPT ![r] = draft[r]]
    BY <2>2, PlanTypes
  <2> QED
    BY <1>0, <2>1, <2>2, <2>3, <2>6, <2>7, PlanDrafts DEF Over, planTables
<1>2. CASE ~(Missing(r) = {} /\ Goto(r, "linkAbilities") /\ UNCHANGED planVars)
  <2>1. draft[r].step \in Nat /\ Current(r) \in Step
    BY <1>0, CurrentStep DEF Making, Linking
  <2>2. PICK s, row :
          /\ s \in Missing(r)
          /\ row = [skill |-> s, theme |-> "pdi", by |-> r, at |-> draft[r].step]
          /\ reviews' = reviews \cup {row}
          /\ draft' = [draft EXCEPT ![r].pending = @ \cup {row}]
          /\ UNCHANGED <<control, abilities, books, plans>>
    BY <1>2 DEF CreateAbilityOnReview
  <2>3. row \in Ability
    BY <1>0, <2>1, <2>2 DEF Missing, Step, Ability
  <2> DEFINE d == [draft[r] EXCEPT !.pending = @ \cup {row}]
  <2>4. draft' = [draft EXCEPT ![r] = d]
    BY <1>0, <2>2, PlanTypes
  <2>5. d \in Draft /\ d.step = draft[r].step /\ d.roadmap = draft[r].roadmap
    BY <1>0, <2>3 DEF Draft
  <2> HIDE DEF d
  <2>6. /\ draft' \in [Handlers -> Draft] /\ draft'[r] = d
        /\ \A b \in Handlers \ {r} : draft'[b] = draft[b]
    BY <1>0, <2>4, <2>5, PlanTypes
  <2>7. Moves(r) /\ UNCHANGED <<pc, kind, plans>>
    BY <1>0, <2>2 DEF control, Moves, ControlOK
  <2>8. RowsOK'
    <3>1. DOMAIN plans' = Makers /\ plans' = [p \in DOMAIN plans' |-> plans'[p]]
      BY <2>7 DEF PlanInv, RowsOK
    <3>2. abilities \cup reviews \subseteq abilities' \cup reviews' /\ reviews' \subseteq Ability
      BY <2>2, <2>3, PlanTypes
    <3> QED
      BY <2>2, <2>6, <2>7, <3>1, <3>2, PlanRows DEF PlanInv, RowsOK, PlansTypeOK
  <2>9. StageOK(r)'
    BY <1>0, <2>5, <2>6, <2>7 DEF StageOK, Making, Linking
  <2>10. ProgressOK(r)'
    <3>1. \A x : Lost(x) => Lost(x)'
      BY <1>0, <2>6, <2>7, LostStays DEF Over
    <3>2. \A i : Covered(r, i) => Covered(r, i)'
      BY <2>5, <2>6, <2>7, <3>1 DEF Covered, Linked
    <3> QED
      BY <1>0, <2>5, <2>6, <2>7, <3>2 DEF ProgressOK
  <2>11. \A q \in Requests : Retained(q)
    BY <2>7, KeptIsRetained
  <2> QED
    BY <1>0, <2>6, <2>7, <2>8, <2>9, <2>10, <2>11, OnePlan DEF Over
<1> QED
  BY <1>1, <1>2

LEMMA LinkAbilitiesKeeps ==
  ASSUME ControlOK, PlanInv, NEW r \in Requests, LinkAbilities(r)
  PROVE  PlanInv'
<1>a. CASE RefusePlan(r)
  BY <1>a, RefusePlanKeeps DEF LinkAbilities, PlanLabels
<1>b. CASE ~RefusePlan(r)
  <2>0. /\ r \in Handlers /\ r \in Makers /\ StageOK(r) /\ ProgressOK(r) /\ pc[r] = "linkAbilities"
        /\ ~Gone(r) /\ Goto(r, "findBook") /\ UNCHANGED <<abilities, reviews, books, draft>>
        /\ plans' = [plans EXCEPT ![r][draft[r].step] = Held(r)]
    BY <1>b, RequestFacts DEF LinkAbilities, PlanInv
  <2>1. kind[r] = "createPDI" /\ draft[r].step \in Nat \ {0} /\ Missing(r) = {}
    BY <2>0, CurrentStep DEF StageOK, Making, Linking
  <2>2. plans[r] # None /\ Held(r) \subseteq abilities \cup reviews
    BY <2>0 DEF Gone, Held
  <2>3. Len(plans[r]) = draft[r].step /\ \A i \in 1..draft[r].step : i < draft[r].step => Covered(r, i)
    BY <2>0, <2>1, <2>2 DEF ProgressOK, Making, Linking
  <2>4. draft[r].step \in 1..Len(plans[r])
    BY <2>1, <2>3
  <2>5. plans' = [plans EXCEPT ![r] = [plans[r] EXCEPT ![draft[r].step] = Held(r)]]
    BY <2>0, PlanTypes
  <2>6. /\ plans'[r] = [plans[r] EXCEPT ![draft[r].step] = Held(r)]
        /\ \A p \in Makers \ {r} : plans'[p] = plans[p]
    BY <2>0, <2>5, PlanTypes
  <2>7. /\ plans'[r] \in Seq(SUBSET (abilities \cup reviews)) /\ Len(plans'[r]) = Len(plans[r])
        /\ \A i \in 1..Len(plans[r]) :
             plans'[r][i] = IF i = draft[r].step THEN Held(r) ELSE plans[r][i]
    <3> DEFINE S == SUBSET (abilities \cup reviews)
    <3>1. Held(r) \in S
      BY <2>2
    <3>2. plans[r] \in Seq(S)
      BY <2>0, <2>2, PlanTypes
    <3> HIDE DEF S
    <3>3. plans'[r] \in Seq(S) /\ Len(plans'[r]) = Len(plans[r])
      BY <2>4, <2>6, <3>1, <3>2, ExceptSeq
    <3>4. \A i \in 1..Len(plans[r]) :
            plans'[r][i] = IF i = draft[r].step THEN Held(r) ELSE plans[r][i]
      BY <2>4, <2>6, <3>1, <3>2, ExceptSeq
    <3> QED
      BY <3>3, <3>4 DEF S
  <2>8. Moves(r) /\ pc'[r] = "findBook" /\ kind'[r] = kind[r]
    BY <2>0, GotoMoves DEF Labels, OtherLabels, PlanLabels
  <2>9. RowsOK'
    <3>1. DOMAIN plans' = Makers /\ plans' = [p \in DOMAIN plans' |-> plans'[p]]
      BY <2>5, PlanTypes
    <3>2. plans'[r] \in Seq(SUBSET (abilities' \cup reviews'))
      BY <2>0, <2>7
    <3> QED
      BY <2>0, <2>6, <3>1, <3>2, PlanRows DEF PlanInv, RowsOK, PlansTypeOK
  <2>10. StageOK(r)'
    BY <2>0, <2>8 DEF StageOK, Making, Linking
  <2>11. ProgressOK(r)'
    <3>1. \A s : Lost(s) => Lost(s)'
      BY <2>0, <2>8, LostStays DEF Over
    <3>2. ASSUME NEW i \in 1..draft[r].step PROVE Covered(r, i)'
      <4>1. CASE i = draft[r].step
        <5>1. \A s \in draft[r].roadmap[i].skills : \E a \in Held(r) : a.skill = s
          BY <2>1, <4>1 DEF Missing, Current, Held
        <5> QED
          BY <2>0, <2>3, <2>7, <4>1, <5>1 DEF Covered, Linked
      <4>2. CASE i # draft[r].step
        <5>1. Covered(r, i) /\ plans'[r][i] = plans[r][i]
          BY <2>1, <2>3, <2>7, <4>2
        <5> QED
          BY <2>0, <3>1, <5>1 DEF Covered, Linked
      <4> QED
        BY <4>1, <4>2
    <3> QED
      BY <2>0, <2>3, <2>7, <2>8, <3>2 DEF ProgressOK
  <2>12. \A q \in Requests \ {r} : Retained(q)
    BY <2>6, KeptIsRetained, RequestFacts
  <2> QED
    BY <2>0, <2>8, <2>9, <2>10, <2>11, <2>12, OnePlan DEF Over
<1> QED
  BY <1>a, <1>b

LEMMA WriteBookKeeps ==
  ASSUME ControlOK, PlanInv, NEW r \in Requests, WriteBook(r)
  PROVE  PlanInv'
<1>a. CASE RefusePlan(r)
  BY <1>a, RefusePlanKeeps DEF WriteBook, PlanLabels
<1>b. CASE ~RefusePlan(r)
  <2> DEFINE l == IF draft[r].step = Len(draft[r].roadmap) THEN "done" ELSE "createNode"
  <2>0. /\ r \in Handlers /\ StageOK(r) /\ ProgressOK(r) /\ pc[r] = "writeBook"
        /\ books' = books \cup {Current(r).book} /\ Goto(r, l)
        /\ UNCHANGED <<abilities, reviews, plans, draft>>
    BY <1>b, RequestFacts DEF WriteBook, PlanInv
  <2>1. /\ Current(r).book \in Books /\ kind[r] = "createPDI" /\ draft[r].roadmap \in Roadmaps
        /\ draft[r].step \in Nat /\ Len(draft[r].roadmap) \in Nat
        /\ draft[r].step <= Len(draft[r].roadmap)
    BY <2>0, CurrentStep DEF Making, Linking, Step
  <2>2. Moves(r) /\ pc'[r] = l /\ kind'[r] = kind[r]
    BY <2>0, GotoMoves DEF Labels, OtherLabels, PlanLabels, Over
  <2>3. RowsOK'
    BY <2>0, <2>1 DEF PlanInv, RowsOK, PlansTypeOK
  <2>4. StageOK(r)'
    BY <2>0, <2>1, <2>2 DEF StageOK, Making, Linking, Over
  <2>5. ProgressOK(r)'
    <3>1. \A s : Lost(s) => Lost(s)'
      BY <2>0, <2>2, LostStays DEF Over
    <3>2. \A i : Covered(r, i) => Covered(r, i)'
      BY <2>0, <3>1 DEF Covered, Linked
    <3> QED
      BY <2>0, <2>2, <3>2 DEF ProgressOK, Making, Linking
  <2>6. \A q \in Requests : Retained(q)
    BY <2>0, KeptIsRetained
  <2> QED
    BY <2>0, <2>2, <2>3, <2>4, <2>5, <2>6, OnePlan DEF Over
<1> QED
  BY <1>a, <1>b

LEMMA DeletePdiKeeps ==
  ASSUME ControlOK, PlanInv, NEW r \in Requests, DeletePdi(r)
  PROVE  PlanInv'
<1>a. CASE RefusePlan(r)
  BY <1>a, RefusePlanKeeps DEF DeletePdi, PlanLabels
<1>b. CASE ~RefusePlan(r)
  <2>0. /\ r \in Handlers /\ StageOK(r) /\ pc[r] = "removePlan" /\ draft[r].plan \in Makers
        /\ plans' = [plans EXCEPT ![draft[r].plan] = None] /\ Goto(r, "done")
        /\ UNCHANGED <<abilities, reviews, books, draft>>
    BY <1>b, RequestFacts DEF DeletePdi, PlanInv, StageOK
  <2>1. Moves(r) /\ pc'[r] = "done" /\ kind'[r] = kind[r] /\ kind[r] # "createPDI"
    BY <2>0, GotoMoves DEF Labels, Over, StageOK, Making, Linking
  <2>2. \A p \in Makers : plans'[p] \in {plans[p], None}
    BY <2>0, PlanTypes
  <2>3. RowsOK'
    <3>1. DOMAIN plans' = Makers /\ plans' = [p \in DOMAIN plans' |-> plans'[p]]
      BY <2>0, PlanTypes
    <3> QED
      BY <2>0, <2>2, <3>1, PlanRows DEF PlanInv, RowsOK, PlansTypeOK
  <2>4. StageOK(r)' /\ ProgressOK(r)'
    BY <2>1 DEF StageOK, ProgressOK, Making, Linking, Over
  <2>5. \A q \in Requests : Retained(q)
    BY <2>2, RequestFacts DEF Retained, Linked
  <2> QED
    BY <2>0, <2>1, <2>3, <2>4, <2>5, OnePlan DEF Over
<1> QED
  BY <1>a, <1>b

(* An ability that goes is taken out of every plan.                        *)
LEMMA WithoutAbility ==
  ASSUME PlanInv, NEW a, plans' = Without(a),
         (abilities \cup reviews) \ {a} \subseteq abilities' \cup reviews'
  PROVE  /\ plans' \in [Makers -> Seq(SUBSET (abilities \cup reviews)') \cup {None}]
         /\ \A p \in Makers : plans'[p] # None => plans'[p] \in Seq(SUBSET (abilities \cup reviews)')
         /\ \A p \in Makers : plans'[p] # None =>
              /\ plans[p] # None /\ Len(plans'[p]) = Len(plans[p])
              /\ \A i \in 1..Len(plans[p]) : plans'[p][i] = plans[p][i] \ {a}
<1> DEFINE S == SUBSET (abilities \cup reviews)
           T == SUBSET (abilities' \cup reviews')
<1>1. \A s \in S : s \ {a} \in T
  OBVIOUS
<1>2. \A p \in Makers : plans[p] # None => plans[p] \in Seq(S)
  BY PlanTypes
<1> HIDE DEF S, T
<1>3. ASSUME NEW p \in Makers, plans'[p] # None
      PROVE  /\ plans'[p] \in Seq(T) /\ plans[p] # None /\ Len(plans'[p]) = Len(plans[p])
             /\ \A i \in 1..Len(plans[p]) : plans'[p][i] = plans[p][i] \ {a}
  <2>1. plans[p] # None /\ plans'[p] = [i \in 1..Len(plans[p]) |-> plans[p][i] \ {a}]
    BY <1>3 DEF Without
  <2>2. plans[p] \in Seq(S) /\ Len(plans[p]) \in Nat
    BY <1>2, <2>1, LenProperties
  <2>3. \A i \in 1..Len(plans[p]) : plans[p][i] \in S
    BY <2>2, ElementOfSeq
  <2>4. plans'[p] \in [1..Len(plans[p]) -> T]
    BY <1>1, <2>1, <2>3
  <2>5. plans'[p] \in Seq(T)
    BY <2>2, <2>4, SeqDef
  <2>6. Len(plans'[p]) = Len(plans[p])
    BY <2>1, <2>2
  <2> QED
    BY <2>1, <2>5, <2>6
<1>4. plans' \in [Makers -> Seq(T) \cup {None}]
  BY <1>3 DEF Without
<1> QED
  BY <1>3, <1>4 DEF T

(* Who takes an ability away explains it.                                  *)
LEMMA AbilityLost ==
  ASSUME PlanInv, NEW r \in Requests, pc'[r] = "done", draft' = draft,
         kind'[r] \in {"approve", "reject", "deleteAbility"}, plans' = Without(draft[r].row),
         (abilities \cup reviews) \ {draft[r].row} \subseteq abilities' \cup reviews'
  PROVE  \A q \in Requests : Retained(q)
<1> SUFFICES ASSUME NEW q \in Requests, plans'[q] # None PROVE Retained(q)
  BY DEF Retained
<1>1. /\ plans[q] # None /\ Len(plans'[q]) = Len(plans[q])
      /\ \A i \in 1..Len(plans[q]) : plans'[q][i] = plans[q][i] \ {draft[r].row}
  BY WithoutAbility, RequestFacts
<1>2. Lost(draft[r].row.skill)'
  BY DEF Lost
<1>3. ASSUME NEW i \in 1..Len(plans[q]), NEW s, Linked(q, i, s)
      PROVE  Linked(q, i, s)' \/ Lost(s)'
  <2>1. PICK a \in plans[q][i] : a.skill = s
    BY <1>3 DEF Linked
  <2>2. CASE a = draft[r].row
    <3>1. PICK x : x = draft[r].row /\ draft'[r].row = x
      OBVIOUS
    <3> QED
      BY <2>1, <2>2, <3>1 DEF Lost
  <2>3. CASE a # draft[r].row
    BY <1>1, <2>1, <2>3 DEF Linked
  <2> QED
    BY <2>2, <2>3
<1> QED
  BY <1>1, <1>3 DEF Retained

LEMMA DecideFacts ==
  ASSUME ControlOK, PlanInv, NEW r \in Requests, pc[r] = "decide", Goto(r, "done")
  PROVE  /\ r \in Handlers /\ draft[r].row \in Ability /\ Moves(r)
         /\ pc'[r] = "done" /\ kind'[r] = kind[r] /\ kind[r] # "createPDI"
         /\ ProgressOK(r)' /\ StageOK(r)'
<1>1. r \in Handlers /\ StageOK(r)
  BY RequestFacts DEF PlanInv
<1>2. Moves(r) /\ pc'[r] = "done" /\ kind'[r] = kind[r]
  BY <1>1, GotoMoves DEF Labels, Over
<1>3. kind[r] # "createPDI" /\ draft[r].row \in Ability
  BY <1>1 DEF StageOK, Making, Linking, Over
<1>4. ProgressOK(r)' /\ StageOK(r)'
  BY <1>2, <1>3 DEF ProgressOK, StageOK, Making, Linking
<1> QED
  BY <1>1, <1>2, <1>3, <1>4

LEMMA UpgradeKeeps ==
  ASSUME ControlOK, PlanInv, NEW r \in Requests, Upgrade(r)
  PROVE  PlanInv'
<1>a. CASE RefusePlan(r)
  BY <1>a, RefusePlanKeeps DEF Upgrade, PlanLabels
<1>b. CASE ~RefusePlan(r)
  <2>1. PICK a : a = draft[r].row
    OBVIOUS
  <2>2. /\ pc[r] = "decide" /\ kind[r] = "approve" /\ a \in reviews
        /\ \A b \in abilities : ~Same(a, b)
        /\ reviews' = reviews \ {a} /\ abilities' = abilities \cup {[a EXCEPT !.by = r, !.at = 0]}
        /\ plans' = Without(a) /\ Goto(r, "done") /\ UNCHANGED <<books, draft>>
    BY <1>b, <2>1 DEF Upgrade
  <2>3. /\ r \in Handlers /\ Moves(r) /\ pc'[r] = "done" /\ kind'[r] = kind[r]
        /\ ProgressOK(r)' /\ StageOK(r)' /\ a \in Ability
    BY <2>1, <2>2, DecideFacts
  <2>4. [a EXCEPT !.by = r, !.at = 0] \in Ability /\ [a EXCEPT !.by = r, !.at = 0].skill = a.skill
        /\ [a EXCEPT !.by = r, !.at = 0].theme = a.theme
    BY <2>3, RequestFacts DEF Ability
  <2>5. RowsOK'
    <3>1. (abilities \cup reviews) \ {a} \subseteq abilities' \cup reviews'
      BY <2>2
    <3>2. abilities' \subseteq Ability /\ reviews' \subseteq Ability
      BY <2>2, <2>4, PlanTypes
    <3>3. \A x, y \in abilities' : x.skill = y.skill /\ x.theme = y.theme => x = y
      <4>1. \A x, y \in abilities : x.skill = y.skill /\ x.theme = y.theme => x = y
        BY DEF PlanInv, RowsOK, PlansTypeOK
      <4>2. PICK n : n = [a EXCEPT !.by = r, !.at = 0]
        OBVIOUS
      <4>3. abilities' = abilities \cup {n} /\ n.skill = a.skill /\ n.theme = a.theme
        BY <2>2, <2>4, <4>2
      <4>4. \A b \in abilities : ~(a.skill = b.skill /\ a.theme = b.theme)
        BY <2>2 DEF Same
      <4> QED
        BY <4>1, <4>3, <4>4
    <3> QED
      BY <2>2, <3>1, <3>2, <3>3, WithoutAbility DEF PlanInv, RowsOK, PlansTypeOK
  <2>6. \A q \in Requests : Retained(q)
    <3>1. (abilities \cup reviews) \ {draft[r].row} \subseteq abilities' \cup reviews'
      BY <2>1, <2>2
    <3> QED
      BY <2>1, <2>2, <2>3, <3>1, AbilityLost
  <2> QED
    BY <2>2, <2>3, <2>5, <2>6, OnePlan DEF Over
<1> QED
  BY <1>a, <1>b

LEMMA DeleteKeeps ==
  ASSUME ControlOK, PlanInv, NEW r \in Requests, Delete(r)
  PROVE  PlanInv'
<1>a. CASE RefusePlan(r)
  BY <1>a, RefusePlanKeeps DEF Delete, PlanLabels
<1>b. CASE ~RefusePlan(r)
  <2>1. PICK a : a = draft[r].row
    OBVIOUS
  <2>2. /\ pc[r] = "decide" /\ kind[r] \in {"reject", "deleteAbility"}
        /\ reviews' = IF kind[r] = "reject" THEN reviews \ {a} ELSE reviews
        /\ abilities' = IF kind[r] = "reject" THEN abilities ELSE abilities \ {a}
        /\ plans' = Without(a) /\ Goto(r, "done") /\ UNCHANGED <<books, draft>>
    BY <1>b, <2>1 DEF Delete
  <2>3. /\ r \in Handlers /\ Moves(r) /\ pc'[r] = "done" /\ kind'[r] = kind[r]
        /\ ProgressOK(r)' /\ StageOK(r)'
    BY <2>2, DecideFacts
  <2>4. /\ (abilities \cup reviews) \ {a} \subseteq abilities' \cup reviews'
        /\ abilities' \subseteq abilities /\ reviews' \subseteq reviews
    BY <2>2
  <2>5. RowsOK'
    <3>1. \A x, y \in abilities' : x.skill = y.skill /\ x.theme = y.theme => x = y
      BY <2>4 DEF PlanInv, RowsOK, PlansTypeOK
    <3>2. abilities' \subseteq Ability /\ reviews' \subseteq Ability
      BY <2>4, PlanTypes
    <3> QED
      BY <2>2, <2>4, <3>1, <3>2, WithoutAbility DEF PlanInv, RowsOK, PlansTypeOK
  <2>6. \A q \in Requests : Retained(q)
    BY <2>1, <2>2, <2>3, <2>4, AbilityLost
  <2> QED
    BY <2>2, <2>3, <2>5, <2>6, OnePlan DEF Over
<1> QED
  BY <1>a, <1>b

LEMMA CreateKeeps ==
  ASSUME ControlOK, PlanInv, NEW r \in Requests, Create(r)
  PROVE  PlanInv'
<1>a. CASE RefusePlan(r)
  BY <1>a, RefusePlanKeeps DEF Create, PlanLabels
<1>b. CASE ~RefusePlan(r)
  <2>1. PICK a : a = draft[r].row
    OBVIOUS
  <2>2. /\ pc[r] = "decide" /\ kind[r] \in {"createAbility", "suggest"}
        /\ IF kind[r] = "suggest" THEN reviews' = reviews \cup {a} /\ UNCHANGED abilities
           ELSE abilities' = abilities \cup {a} /\ UNCHANGED reviews
        /\ kind[r] = "createAbility" => \A b \in abilities : ~Same(a, b)
        /\ Goto(r, "done") /\ UNCHANGED <<books, plans, draft>>
    BY <1>b, <2>1 DEF Create
  <2>3. /\ r \in Handlers /\ Moves(r) /\ pc'[r] = "done" /\ kind'[r] = kind[r]
        /\ ProgressOK(r)' /\ StageOK(r)' /\ a \in Ability
    BY <2>1, <2>2, DecideFacts
  <2>4. RowsOK'
    <3>1. abilities \cup reviews \subseteq abilities' \cup reviews'
      BY <2>2
    <3>2. abilities' \subseteq Ability /\ reviews' \subseteq Ability
      BY <2>2, <2>3, PlanTypes
    <3>3. \A x, y \in abilities' : x.skill = y.skill /\ x.theme = y.theme => x = y
      BY <2>2 DEF PlanInv, RowsOK, PlansTypeOK, Same
    <3>4. DOMAIN plans' = Makers /\ plans' = [p \in DOMAIN plans' |-> plans'[p]]
      BY <2>2 DEF PlanInv, RowsOK
    <3> QED
      BY <2>2, <3>1, <3>2, <3>3, <3>4, PlanRows DEF PlanInv, RowsOK, PlansTypeOK
  <2>5. \A q \in Requests : Retained(q)
    BY <2>2, KeptIsRetained
  <2> QED
    BY <2>2, <2>3, <2>4, <2>5, OnePlan DEF Over
<1> QED
  BY <1>a, <1>b

LEMMA PlansKeep ==
  ASSUME ControlOK, PlanInv, NEW r \in Requests, PlansStep(r)
  PROVE  PlanInv'
BY PlanOpensKeep, DecidesKeep, PlanFindsKeep, CreatePdiKeeps, CreatePdiNodeKeeps,
   CreateAbilityOnReviewKeeps, LinkAbilitiesKeeps, WriteBookKeeps, DeletePdiKeeps, UpgradeKeeps,
   DeleteKeeps, CreateKeeps DEF PlansStep

LEMMA PlanStep ==
  ASSUME ControlOK, PlanInv, [Next]_vars
  PROVE  PlanInv'
<1>1. CASE UNCHANGED vars
  <2>1. UNCHANGED <<pc, kind, abilities, reviews, books, plans, draft>>
    BY <1>1 DEF vars, control, planVars, planTables
  <2>2. RowsOK'
    BY <2>1 DEF PlanInv, RowsOK, PlansTypeOK
  <2>3. ASSUME NEW p \in Requests PROVE ProgressOK(p)' /\ StageOK(p)'
    BY <2>1 DEF PlanInv, ProgressOK, StageOK, Covered, Linked, Lost, Missing, Current
  <2> QED
    BY <2>2, <2>3 DEF PlanInv
<1>2. ASSUME NEW a \in Handlers, NEW L, NEW K, Stays(a, L, K), UNCHANGED planVars,
             L \cap PlanLabels = {}, "idle" \notin L, L \cap Over = {}, "createPDI" \notin K
      PROVE  PlanInv'
  <2>1. pc[a] \notin Over /\ pc'[a] \notin PlanLabels \cup {"idle"} /\ Moves(a)
    BY <1>2, Sides DEF Stays
  <2>2. ASSUME a \in Requests, kind'[a] = "createPDI" PROVE FALSE
    <3>1. pc[a] # "idle" /\ pc[a] \in L /\ kind[a] = "createPDI"
      BY <1>2, <2>1, <2>2 DEF Stays, Moves
    <3>2. StageOK(a)
      BY <2>2 DEF PlanInv
    <3> QED
      BY <1>2, <2>1, <3>1, <3>2 DEF StageOK, Making, Linking, PlanLabels
  <2> QED
    BY <1>2, <2>1, <2>2, PlanFrame
<1>0. "createPDI" \notin PathKinds \cup StudyKinds \cup ResumeKinds \cup CareerKinds
  BY DEF PathKinds, StudyKinds, ResumeKinds, CareerKinds
<1>3. ASSUME NEW r \in Requests, OtherStep(r) PROVE PlanInv'
  BY <1>0, <1>2, <1>3, PlansKeep, ResumesMove, Sides, RequestFacts DEF OtherStep
<1>4. ASSUME NEW e \in Emissions, EmissionStep(e) \/ AbilitiesStep(e), UNCHANGED planVars
      PROVE  PlanInv'
  BY <1>0, <1>2, <1>4, EmissionsMove, Sides DEF Handlers
<1>5. ASSUME NEW a \in Handlers, Fail(a) PROVE PlanInv'
  <2>1. Moves(a) /\ pc'[a] = "failed" /\ pc[a] \notin Over /\ UNCHANGED planVars
    BY <1>5, FailMoves DEF Fail
  <2> QED
    BY <2>1, PlanFrame, Sides
<1>6. ASSUME NEW r \in Requests, PathsStep(r) \/ CareersStep(r), UNCHANGED planVars
      PROVE  PlanInv'
  BY <1>0, <1>2, <1>6, PathsMove, CareersMove, Sides, RequestFacts
<1>7. ASSUME NEW r \in Requests, StudiesStep(r), UNCHANGED planVars PROVE PlanInv'
  BY <1>0, <1>2, <1>7, StudiesMove, Sides, RequestFacts
<1>8. CASE Next
  BY <1>3, <1>4, <1>5, <1>6, <1>7, <1>8 DEF Next, otherVars
<1> QED
  BY <1>1, <1>8

(* Every run of any number of requests keeps SkillsLostHaveCause: a plan   *)
(* that was answered as a success has a node for every step, with every    *)
(* skill of the step, but for what was approved, rejected or deleted       *)
(* meanwhile (pdi.service.ts).                                             *)
THEOREM LostSkillsExplained == Spec => []SkillsLostHaveCause
<1>1. Init => ControlOK /\ PlanInv
  BY EmptyInit, PlanInit
<1>2. ControlOK /\ PlanInv /\ [Next]_vars => (ControlOK /\ PlanInv)'
  BY ControlStep, PlanStep
<1>3. ControlOK /\ PlanInv => SkillsLostHaveCause
  BY PlanProperty
<1> QED
  BY <1>1, <1>2, <1>3, PTL DEF Spec

-----------------------------------------------------------------------------
(* Sums of hours.                                                          *)

Least(s) == CHOOSE x \in s : TRUE

Added(it, s) == IF s = {} THEN 0 ELSE Least(s).hours + it[s \ {Least(s)}]

Unfolded(D, it) == it = [s \in D |-> Added(it, s)]

Small(S, n) == {s \in SUBSET S : Cardinality(s) <= n}

LEMMA LeastOf ==
  ASSUME NEW T \in SUBSET Nat, T # {}
  PROVE  \E x \in T : \A y \in T : ~(y < x)
<1> DEFINE R == OpToRel(<, Nat)
<1>1. \E x \in T : \A y \in T : ~(<<y, x>> \in R)
  <2>1. IsWellFoundedOn(R, Nat)
    BY NatLessThanWellFounded
  <2> HIDE DEF R
  <2> QED
    BY <2>1, WFMin
<1>2. \A x, y \in Nat : y < x => <<y, x>> \in R
  BY DEF OpToRel
<1> HIDE DEF R
<1> QED
  BY <1>1, <1>2

(* A set without one of its elements is smaller.                           *)
LEMMA SmallerSet ==
  ASSUME NEW S, IsFiniteSet(S), NEW s \in SUBSET S, s # {}
  PROVE  /\ Least(s) \in s /\ s \ {Least(s)} \in SUBSET S
         /\ Cardinality(s) \in Nat /\ Cardinality(s \ {Least(s)}) \in Nat
         /\ Cardinality(s \ {Least(s)}) = Cardinality(s) - 1
<1>1. IsFiniteSet(s) /\ Least(s) \in s
  BY FS_Subset DEF Least
<1>2. IsFiniteSet(s \ {Least(s)}) /\ Cardinality(s \ {Least(s)}) = Cardinality(s) - 1
  BY <1>1, FS_RemoveElement
<1> QED
  BY <1>1, <1>2, FS_CardinalityType

LEMMA Unfolds ==
  ASSUME NEW S, IsFiniteSet(S)
  PROVE  \E it : Unfolded(SUBSET S, it)
<1>1. ASSUME NEW n \in Nat, ~\E f : Unfolded(Small(S, n), f) PROVE FALSE
  <2> DEFINE Bad == {m \in Nat : ~\E f : Unfolded(Small(S, m), f)}
  <2>1. PICK m \in Bad : \A k \in Bad : ~(k < m)
    BY <1>1, LeastOf
  <2>2. m \in Nat /\ ~\E f : Unfolded(Small(S, m), f)
    OBVIOUS
  <2>3. CASE m = 0
    <3>1. ASSUME NEW s \in Small(S, 0), s # {} PROVE FALSE
      <4>1. s \in SUBSET S /\ Cardinality(s) <= 0
        BY DEF Small
      <4>2. Cardinality(s) \in Nat /\ Cardinality(s) - 1 \in Nat
        BY <3>1, <4>1, SmallerSet
      <4> QED
        BY <4>1, <4>2
    <3>2. PICK f : f = [s \in Small(S, 0) |-> 0]
      OBVIOUS
    <3>3. \A s \in Small(S, 0) : Added(f, s) = 0
      BY <3>1 DEF Added
    <3> QED
      BY <2>2, <2>3, <3>2, <3>3 DEF Unfolded
  <2>4. CASE m # 0
    <3>1. m - 1 \in Nat /\ m - 1 < m /\ m - 1 \notin Bad
      BY <2>1, <2>2, <2>4
    <3>2. PICK f : Unfolded(Small(S, m - 1), f)
      BY <3>1
    <3>3. PICK g : g = [s \in Small(S, m) |-> Added(f, s)]
      OBVIOUS
    <3>4. ASSUME NEW s \in Small(S, m), s # {}
          PROVE  g[s \ {Least(s)}] = f[s \ {Least(s)}]
      <4>1. s \ {Least(s)} \in Small(S, m - 1) /\ s \ {Least(s)} \in Small(S, m)
        BY <2>2, <3>1, <3>4, SmallerSet DEF Small
      <4> QED
        BY <3>2, <3>3, <4>1 DEF Unfolded
    <3>5. \A s \in Small(S, m) : Added(g, s) = Added(f, s)
      BY <3>4 DEF Added
    <3> QED
      BY <2>2, <3>3, <3>5 DEF Unfolded
  <2> QED
    BY <2>3, <2>4
<1>2. PICK n \in Nat : n = Cardinality(S)
  BY FS_CardinalityType
<1>3. Small(S, n) = SUBSET S
  BY <1>2, FS_Subset, FS_CardinalityType DEF Small
<1> QED
  BY <1>1, <1>2, <1>3

LEMMA TotalUnfolds ==
  ASSUME NEW S, IsFiniteSet(S)
  PROVE  \E it : Unfolded(SUBSET S, it) /\ Total(S) = it[S]
<1>1. Total(S) = (CHOOSE it : Unfolded(SUBSET S, it))[S]
  BY DEF Total, MapThenSumSet, MapThenFoldSet, Unfolded, Added, Least
<1> QED
  BY <1>1, Unfolds

LEMMA TotalOfNothing == Total({}) = 0
<1>1. PICK it : Unfolded(SUBSET {}, it) /\ Total({}) = it[{}]
  BY TotalUnfolds, FS_EmptySet
<1>2. it[{}] = Added(it, {})
  BY <1>1 DEF Unfolded
<1> QED
  BY <1>1, <1>2 DEF Added

(* The hours of finitely many rows are a number.                           *)
LEMMA TotalIsNumber ==
  ASSUME NEW S, IsFiniteSet(S), \A x \in S : x.hours \in Nat
  PROVE  Total(S) \in Nat
<1>1. PICK it : Unfolded(SUBSET S, it) /\ Total(S) = it[S]
  BY TotalUnfolds
<1>2. \A s \in SUBSET S : it[s] = Added(it, s) /\ Cardinality(s) \in Nat
  BY <1>1, FS_Subset, FS_CardinalityType DEF Unfolded
<1>3. ASSUME NEW t \in SUBSET S, it[t] \notin Nat PROVE FALSE
  <2> DEFINE Sizes == {Cardinality(s) : s \in {u \in SUBSET S : it[u] \notin Nat}}
  <2>1. Sizes \in SUBSET Nat /\ Sizes # {}
    BY <1>2, <1>3
  <2>2. PICK n \in Sizes : \A k \in Sizes : ~(k < n)
    BY <2>1, LeastOf
  <2>3. PICK s \in SUBSET S : it[s] \notin Nat /\ Cardinality(s) = n
    BY <2>2
  <2>4. s # {}
    <3>1. it[s] = Added(it, s)
      BY <1>2
    <3> QED
      BY <2>3, <3>1 DEF Added
  <2>5. it[s \ {Least(s)}] \in Nat
    <3>1. /\ s \ {Least(s)} \in SUBSET S /\ Cardinality(s) \in Nat
          /\ Cardinality(s \ {Least(s)}) \in Nat
          /\ Cardinality(s \ {Least(s)}) = Cardinality(s) - 1
      BY <2>4, SmallerSet
    <3>2. Cardinality(s \ {Least(s)}) \notin Sizes
      BY <2>2, <2>3, <3>1
    <3> QED
      BY <3>1, <3>2
  <2>6. Least(s).hours \in Nat
    BY <2>4, SmallerSet
  <2> QED
    <3>1. it[s] = Least(s).hours + it[s \ {Least(s)}]
      BY <1>2, <2>4 DEF Added
    <3> QED
      BY <2>3, <2>5, <2>6, <3>1
<1> QED
  BY <1>1, <1>3

-----------------------------------------------------------------------------
(* Learning paths and their hours.                                         *)

Builds(r) == kind[r] \in {"createPath", "updatePath"}

(* All modules a build has found are its own.                              *)
Own(r) == \A i \in Indexes : build[r].found[i] \in {None, r}

(* Somebody edited or deleted the component.                               *)
Touched(c) == \E q \in Requests : /\ kind[q] \in {"editSubject", "deleteComponent"}
                                  /\ pc[q] = "done" /\ study[q].component = c

(* What a build has read is still so, or was touched.                      *)
ReadOK(r, x) ==
  /\ x.child.by = r /\ x.child.path = build[r].path /\ build[r].found[x.child.index] # None
  /\ x.child.index \in Planned(build[r].outline)
  /\ Settled(x.child.component[2])
  /\ components[x.child.component] = x.hours \/ Touched(x.child.component)

(* An update that goes on has deleted the modules of before.               *)
StageOfBuild(r) ==
  /\ Builds(r) /\ pc[r] # "idle" => pc[r] \in (PathLabels \ {"deletePath"}) \cup Over
  /\ pc[r] \in {"checkTemplate", "writePath", "findModules"} =>
       Builds(r) /\ (kind[r] = "updatePath" => Former \notin Writers(build[r].path))
  /\ pc[r] \in PathLabels /\ kind[r] = "createPath" => build[r].path = r
  /\ paths[r] # None => pc[r] \in {"findModules"} \cup Over
  /\ pc[r] = "editRow" => kind[r] = "editSubject"
  /\ pc[r] = "removeComponent" => kind[r] = "deleteComponent"

(* What a build is to attach was found behind modules it has looked up.    *)
MaterialOK(r) ==
  /\ IsFiniteSet(build[r].read)
  /\ \A x \in build[r].left : x[1] \in Planned(build[r].outline) /\ build[r].found[x[1]] # None
  /\ \A x \in build[r].read : ReadOK(r, x)

BuilderOK(r) == StageOfBuild(r) /\ MaterialOK(r)

(* Modules are written by builds of the path that came to looking them up. *)
WritersOK(p) ==
  \A w \in Writers(p) :
    /\ w \in Requests => Builds(w) /\ build[w].path = p /\ pc[w] \in {"findModules"} \cup Over
    /\ w = Former => p = Former /\ paths[p].hours = 0 /\ Behind(p) = {}

(* A child was attached by a build to the module it had found.             *)
ChildOK(c) ==
  /\ c.by \in Requests /\ pc[c.by] = "done" /\ Builds(c.by) /\ build[c.by].path = c.path
  /\ \E x \in build[c.by].read : x.child = c
  /\ modules[c.path][c.index] = build[c.by].found[c.index]

(* What a build attached to its own modules is there, or was touched.      *)
AttachedOK(w) ==
  pc[w] = "done" /\ Builds(w) /\ Own(w) /\ w \in Writers(build[w].path) =>
    \A x \in build[w].read : x.child \in children \/ Touched(x.child.component)

(* The hours are those of the build whose modules the path has, if every   *)
(* build of it attached something to modules of its own.                   *)
HoursOK(p) ==
  \A w \in Requests :
    /\ Writers(p) = {w} /\ pc[w] = "done" /\ paths[p] # None
    /\ \A q \in Requests : build[q].path = p /\ Builds(q) /\ pc[q] = "done" =>
         Own(q) /\ build[q].read # {}
    => paths[p].hours = ReadHours(w)

PathOK(p) ==
  /\ WritersOK(p) /\ HoursOK(p)
  /\ \A c \in children : c.path = p => ChildOK(c)
  /\ \A w \in Requests : build[w].path = p => AttachedOK(w)

(* An emission has found the path it is to complete.                       *)
FoundOK(a) == a \in Emissions /\ pc[a] = "completePath" => build[a].path \in Makers

HoursInv ==
  /\ PathsTypeOK
  /\ \A a \in Handlers : FoundOK(a)
  /\ \A r \in Requests : BuilderOK(r)
  /\ \A p \in Makers : PathOK(p)

(* Two sets of rows with the same elements have the same hours.            *)
LEMMA SameTotal ==
  ASSUME NEW S, NEW T, \A x \in S : x \in T, \A x \in T : x \in S
  PROVE  Total(S) = Total(T)
<1>1. S = T
  OBVIOUS
<1> QED
  BY <1>1

LEMMA HoursProperty ==
  ASSUME EmptyInv, HoursInv
  PROVE  HoursMatchHasCause
<1> DEFINE Cause(p) ==
      \/ \E v, w \in Writers(p) : v # w
      \/ \E r \in Requests :
           /\ build[r].path = p /\ kind[r] \in {"createPath", "updatePath"}
           /\ \/ pc[r] \notin {"idle", "deleteModules", "done"}
              \/ \E i \in Indexes : build[r].found[i] \notin {None, r}
              \/ build[r].read = {}
              \/ \E q \in Requests, x \in build[r].read :
                   /\ kind[q] \in {"editSubject", "deleteComponent"} /\ pc[q] = "done"
                   /\ study[q].component = x.child.component
<1> SUFFICES ASSUME NEW p \in Makers, paths[p] # None, ~Cause(p)
             PROVE  paths[p].hours = HoursOf(p)
  BY DEF HoursMatchHasCause
<1>0. \A r \in Requests : build[r].path = p /\ Builds(r) =>
        /\ pc[r] \in {"idle", "deleteModules", "done"} /\ Own(r) /\ build[r].read # {}
        /\ \A x \in build[r].read : ~Touched(x.child.component)
  BY DEF Builds, Own, Touched
<1>1. \A v, w \in Writers(p) : v = w
  OBVIOUS
<1> HIDE DEF Cause
<1>2. PICK w : w \in Writers(p)
  <2>1. CASE modules[p] = NoModules
    <3>1. PICK r \in Requests :
            /\ build[r].path = p
            /\ \/ /\ kind[r] = "updatePath"
                  /\ pc[r] \in {"checkTemplate", "writePath", "refused", "failed"}
               \/ /\ kind[r] \in {"createPath", "updatePath"} /\ Planned(build[r].outline) = {}
                  /\ pc[r] \in {"findModules", "done", "refused", "failed"}
      BY <2>1 DEF EmptyInv, EmptyPathHasCause
    <3>2. Builds(r) /\ (Planned(build[r].outline) = {} => build[r].read = {})
      BY <3>1 DEF Builds, HoursInv, BuilderOK, MaterialOK, ReadOK
    <3> QED
      BY <1>0, <3>1, <3>2
  <2>2. CASE modules[p] # NoModules
    <3>1. modules[p] \in [Indexes -> Makers \cup {None}]
      BY DEF HoursInv, PathsTypeOK
    <3>2. PICK i \in Indexes : modules[p][i] # None
      BY <2>2, <3>1 DEF NoModules
    <3> QED
      BY <3>2 DEF Writers
  <2> QED
    BY <2>1, <2>2
<1>3. w \in Makers /\ WritersOK(p) /\ HoursOK(p)
  BY <1>2 DEF HoursInv, PathsTypeOK, Writers, PathOK
<1>4. CASE w = Former
  <2>1. paths[p].hours = 0 /\ Behind(p) = {}
    BY <1>2, <1>3, <1>4 DEF WritersOK
  <2>2. HoursOf(p) = Total({})
    <3>1. {[child |-> c, hours |-> components[c.component]] : c \in Behind(p)} = {}
      BY <2>1
    <3> QED
      BY <3>1 DEF HoursOf
  <2> QED
    BY <2>1, <2>2, TotalOfNothing
<1>5. CASE w # Former
  <2>1. w \in Requests /\ Builds(w) /\ build[w].path = p /\ pc[w] \in {"findModules"} \cup Over
    BY <1>2, <1>3, <1>5 DEF WritersOK, Makers
  <2>2. pc[w] = "done" /\ Own(w) /\ build[w].read # {}
        /\ \A x \in build[w].read : ~Touched(x.child.component)
    BY <1>0, <2>1 DEF Over
  <2>3. paths[p].hours = ReadHours(w)
    <3>1. Writers(p) = {w}
      BY <1>1, <1>2
    <3> QED
      BY <1>0, <1>3, <2>1, <2>2, <3>1 DEF HoursOK
  <2> DEFINE rows == {[child |-> c, hours |-> components[c.component]] : c \in Behind(p)}
  <2>4. build[w] \in Build
    BY <2>1, RequestFacts DEF HoursInv, PathsTypeOK
  <2>5. ASSUME NEW x \in build[w].read PROVE x \in rows
    <3>1. x \in [child : Child, hours : Hours]
      BY <2>4 DEF Build
    <3>2. ReadOK(w, x) /\ AttachedOK(w)
      BY <2>1 DEF HoursInv, BuilderOK, MaterialOK, PathOK
    <3>3. components[x.child.component] = x.hours /\ x.child.path = p
      BY <2>1, <2>2, <3>2 DEF ReadOK
    <3>4. x.child \in Behind(p)
      BY <1>2, <2>1, <2>2, <3>2, <3>3 DEF AttachedOK, Behind
    <3>5. x = [child |-> x.child, hours |-> components[x.child.component]]
      BY <3>1, <3>3
    <3> QED
      BY <3>4, <3>5
  <2>6. ASSUME NEW y \in rows PROVE y \in build[w].read
    <3>1. PICK c \in Behind(p) : y = [child |-> c, hours |-> components[c.component]]
      OBVIOUS
    <3>2. c \in children /\ c.path = p /\ c \in Child /\ ChildOK(c) /\ modules[p][c.index] # None
      BY <3>1 DEF Behind, HoursInv, PathsTypeOK, PathOK
    <3>3. c.by \in Requests /\ Own(c.by) /\ modules[p][c.index] = build[c.by].found[c.index]
      BY <1>0, <3>2 DEF ChildOK
    <3>4. c.by = w
      <4>1. c.index \in Indexes
        BY <3>2 DEF Child
      <4>2. c.by \in Writers(p)
        BY <3>2, <3>3, <4>1 DEF Own, Writers
      <4> QED
        BY <1>1, <1>2, <4>2
    <3>5. PICK x \in build[w].read : x.child = c
      BY <3>2, <3>4 DEF ChildOK
    <3>6. x \in [child : Child, hours : Hours] /\ ReadOK(w, x)
      BY <2>1, <2>4 DEF Build, HoursInv, BuilderOK, MaterialOK
    <3>7. components[c.component] = x.hours
      BY <2>2, <3>5, <3>6 DEF ReadOK
    <3>8. x = y
      BY <3>1, <3>5, <3>6, <3>7
    <3> QED
      BY <3>8
  <2> HIDE DEF rows
  <2>7. Total(build[w].read) = Total(rows)
    BY <2>5, <2>6, SameTotal
  <2> QED
    BY <2>3, <2>7 DEF ReadHours, HoursOf, rows
<1> QED
  BY <1>4, <1>5

LEMMA HoursInit == Init => HoursInv
<1> SUFFICES ASSUME Init PROVE HoursInv
  OBVIOUS
<1>1. /\ paths = [p \in Makers |-> IF p = Former THEN [template |-> TRUE, hours |-> 0] ELSE None]
      /\ modules = [p \in Makers |-> IF p = Former THEN [i \in Indexes |-> Former] ELSE NoModules]
      /\ children = {} /\ participants = {}
      /\ build = [a \in Handlers |-> NoBuild]
      /\ pc = [a \in Handlers |-> "idle"]
  BY DEF Init, PathsInit, ControlInit
<1>2. Former \in Makers /\ Former # None /\ Former \notin Requests
  BY HandlersAssumption DEF Makers, Handlers
<1>3. PathsTypeOK
  <2>1. [template |-> TRUE, hours |-> 0] \in Path
    BY DEF Path
  <2>2. paths \in [Makers -> Path \cup {None}]
    BY <1>1, <2>1
  <2>3. modules \in [Makers -> [Indexes -> Makers \cup {None}]]
    BY <1>1, <1>2 DEF NoModules
  <2>4. build \in [Handlers -> Build]
    BY <1>1 DEF NoBuild, Build
  <2>5. \A p \in Makers : paths[p] = None => \A i \in Indexes : modules[p][i] = None
    <3>1. [template |-> TRUE, hours |-> 0] # None
      BY <2>1, PathsAssumption
    <3> QED
      BY <1>1, <3>1 DEF NoModules
  <2>6. \A p, q \in {x \in Makers : paths[x] # None} : p = q
    BY <1>1
  <2> QED
    BY <1>1, <2>2, <2>3, <2>4, <2>5, <2>6 DEF PathsTypeOK
<1>4. ASSUME NEW r \in Requests PROVE BuilderOK(r)
  <2>1. /\ pc[r] = "idle" /\ paths[r] = None
        /\ build[r].read = {} /\ build[r].left = {}
    BY <1>1, <1>2, RequestFacts DEF NoBuild
  <2>2. StageOfBuild(r)
    BY <2>1 DEF StageOfBuild, PathLabels
  <2> QED
    BY <2>1, <2>2, FS_EmptySet DEF BuilderOK, MaterialOK
<1>5. ASSUME NEW p \in Makers PROVE PathOK(p)
  <2>1. WritersOK(p)
    <3>1. ASSUME NEW w \in Writers(p) PROVE w = Former /\ p = Former
      BY <1>1 DEF Writers, NoModules
    <3>2. paths[Former].hours = 0 /\ Behind(Former) = {}
      BY <1>1, <1>2 DEF Behind
    <3> QED
      BY <1>2, <3>1, <3>2 DEF WritersOK
  <2>2. \A w \in Requests : pc[w] # "done"
    BY <1>1, RequestFacts
  <2> QED
    BY <1>1, <2>1, <2>2 DEF PathOK, HoursOK, AttachedOK
<1>6. \A a \in Handlers : FoundOK(a)
  BY <1>1 DEF FoundOK
<1> QED
  BY <1>3, <1>4, <1>5, <1>6 DEF HoursInv

(* A step of one handler: others keep what they know, and a component that *)
(* somebody may have found changes only by an edit or a deletion.          *)
Carries(a) ==
  /\ Moves(a) /\ pc[a] # "done"
  /\ \A c : Touched(c) => Touched(c)'
  /\ \A c \in Component : Settled(c[2]) => components'[c] = components[c] \/ Touched(c)'
  /\ \A p \in Makers : Former \in Writers(p)' => Former \in Writers(p)
  /\ \A q \in Handlers \ {a} : build'[q] = build[q]
  /\ \A q \in Requests \ {a} : paths'[q] # None => paths[q] # None

(* It leaves a path as it is, but for children whose component was         *)
(* touched, and finishes no build of it.                                   *)
Leaves(a, p) ==
  /\ modules'[p] = modules[p]
  /\ paths'[p] # None => paths[p] # None
  /\ paths[p] # None => paths'[p] # None /\ paths'[p].hours = paths[p].hours
  /\ \A c \in children' : c.path = p => c \in children
  /\ \A c \in children : c.path = p => c \in children' \/ Touched(c.component)'
  /\ a \in Writers(p) => build'[a].path = build[a].path /\ pc'[a] \in {"findModules"} \cup Over
  /\ a \in Requests /\ pc'[a] = "done" /\ Builds(a)' => build'[a].path # p

LEMMA MaterialStays ==
  ASSUME HoursInv, NEW a \in Handlers, Carries(a), NEW q \in Requests, build'[q] = build[q]
  PROVE  MaterialOK(q)'
<1>1. MaterialOK(q) /\ build[q] \in Build /\ Moves(a) /\ pc[a] # "done"
  BY RequestFacts DEF HoursInv, BuilderOK, PathsTypeOK, Carries
<1>2. ASSUME NEW x \in build[q].read PROVE ReadOK(q, x)'
  <2>1. x.child.component \in Component
    BY <1>1 DEF Build, Child
  <2>2. ReadOK(q, x)
    BY <1>1 DEF MaterialOK
  <2>3. Settled(x.child.component[2])'
    BY <1>1, <2>2, SettledStays DEF ReadOK
  <2>4. components'[x.child.component] = x.hours \/ Touched(x.child.component)'
    BY <2>1, <2>2 DEF ReadOK, Carries
  <2> QED
    BY <2>2, <2>3, <2>4 DEF ReadOK
<1> QED
  BY <1>1, <1>2 DEF MaterialOK

LEMMA StageStays ==
  ASSUME EmptyInv, HoursInv, NEW a \in Handlers, Carries(a), NEW q \in Requests, q # a
  PROVE  StageOfBuild(q)'
<1>1. StageOfBuild(q) /\ q \in Handlers
  BY RequestFacts DEF HoursInv, BuilderOK
<1>2. pc'[q] = pc[q] /\ kind'[q] = kind[q] /\ build'[q] = build[q] /\ (paths'[q] # None => paths[q] # None)
  BY <1>1 DEF Carries, Moves
<1>3. pc[q] \in PathLabels => build[q].path \in Makers
  BY DEF EmptyInv, PathInv
<1>4. (pc[q] \in {"checkTemplate", "writePath", "findModules"} =>
         Builds(q) /\ (kind[q] = "updatePath" => Former \notin Writers(build[q].path)))'
  <2> SUFFICES ASSUME pc'[q] \in {"checkTemplate", "writePath", "findModules"}
               PROVE  (Builds(q) /\ (kind[q] = "updatePath" => Former \notin Writers(build[q].path)))'
    OBVIOUS
  <2>1. PICK p \in Makers : build[q].path = p
    BY <1>2, <1>3 DEF PathLabels
  <2>2. Builds(q) /\ (kind[q] = "updatePath" => Former \notin Writers(p))
    BY <1>1, <1>2, <2>1 DEF StageOfBuild
  <2>3. Former \notin Writers(p) => Former \notin Writers(p)'
    BY DEF Carries
  <2>4. build'[q].path = p
    BY <1>2, <2>1
  <2> QED
    BY <1>2, <2>2, <2>3, <2>4 DEF Builds, Writers
<1> QED
  BY <1>1, <1>2, <1>4 DEF StageOfBuild, Builds

LEMMA PathStays ==
  ASSUME HoursInv, NEW a \in Handlers, Carries(a), NEW p \in Makers, Leaves(a, p)
  PROVE  PathOK(p)'
<1>1. /\ PathOK(p) /\ Moves(a) /\ pc[a] # "done"
      /\ paths[p] = None => \A i \in Indexes : modules[p][i] = None
  BY DEF HoursInv, PathsTypeOK, Carries
<1>2. \A w \in Requests \ {a} : pc'[w] = pc[w] /\ kind'[w] = kind[w] /\ build'[w] = build[w]
  BY RequestFacts DEF Carries, Moves
<1>3. Writers(p)' = Writers(p)
  BY DEF Leaves, Writers
<1>4. WritersOK(p)'
  <2> SUFFICES ASSUME NEW w \in Writers(p)
               PROVE  /\ w \in Requests => Builds(w)' /\ build'[w].path = p
                                           /\ pc'[w] \in {"findModules"} \cup Over
                      /\ w = Former => p = Former /\ paths'[p].hours = 0 /\ Behind(p)' = {}
    BY <1>3 DEF WritersOK
  <2>1. /\ w \in Requests => Builds(w) /\ build[w].path = p /\ pc[w] \in {"findModules"} \cup Over
        /\ w = Former => p = Former /\ paths[p].hours = 0 /\ Behind(p) = {}
    BY <1>1 DEF PathOK, WritersOK
  <2>2. CASE w = a
    <3>1. a \in Requests /\ a # Former
      BY <2>2, HandlersAssumption DEF HoursInv, PathsTypeOK, Writers, Makers
    <3>2. kind'[a] = kind[a]
      BY <1>1, <2>1, <2>2, <3>1 DEF Moves, Over
    <3> QED
      BY <2>1, <2>2, <3>1, <3>2 DEF Leaves, Builds
  <2>3. CASE w # a
    <3>1. w = Former => paths[p] # None
      BY <1>1, HandlersAssumption DEF Writers
    <3>2. w = Former => Behind(p)' = {}
      BY <2>1 DEF Leaves, Behind
    <3> QED
      BY <1>2, <2>1, <2>3, <3>1, <3>2 DEF Leaves, Builds
  <2> QED
    BY <2>2, <2>3
<1>5. ASSUME NEW w \in Requests, pc'[w] = "done", Builds(w)', build'[w].path = p
      PROVE  w # a
  BY <1>5 DEF Leaves
<1>6. HoursOK(p)'
  <2> SUFFICES ASSUME NEW w \in Requests, Writers(p) = {w}, pc'[w] = "done", paths'[p] # None,
                      \A q \in Requests : build'[q].path = p /\ Builds(q)' /\ pc'[q] = "done" =>
                        Own(q)' /\ build'[q].read # {}
               PROVE  paths'[p].hours = ReadHours(w)'
    BY <1>3 DEF HoursOK
  <2>1. w # a /\ build'[w] = build[w] /\ pc[w] = "done"
    <3>1. CASE w = a
      <4>1. Builds(w)' /\ build'[w].path = p
        BY <1>4, <1>3 DEF WritersOK
      <4> QED
        BY <1>5, <3>1, <4>1
    <3> QED
      BY <1>2, <3>1
  <2>2. ASSUME NEW q \in Requests, build[q].path = p, Builds(q), pc[q] = "done"
        PROVE  Own(q) /\ build[q].read # {}
    <3>1. q # a
      BY <1>1, <2>2
    <3> QED
      BY <1>2, <2>2, <3>1 DEF Builds, Own
  <2>3. paths[p].hours = ReadHours(w)
    BY <1>1, <2>1, <2>2 DEF PathOK, HoursOK, Leaves
  <2> QED
    BY <2>1, <2>3 DEF Leaves, ReadHours
<1>7. ASSUME NEW c \in children', c.path = p PROVE ChildOK(c)'
  <2>1. ChildOK(c)
    BY <1>1, <1>7 DEF Leaves, PathOK
  <2>2. c.by # a
    BY <1>1, <2>1 DEF ChildOK
  <2> QED
    BY <1>2, <1>7, <2>1, <2>2 DEF ChildOK, Builds, Leaves
<1>8. ASSUME NEW w \in Requests, build'[w].path = p PROVE AttachedOK(w)'
  <2> SUFFICES ASSUME pc'[w] = "done", Builds(w)', Own(w)', w \in Writers(p)
               PROVE  \A x \in build'[w].read : x.child \in children' \/ Touched(x.child.component)'
    BY <1>3, <1>8 DEF AttachedOK, Writers
  <2>1. w # a
    BY <1>5, <1>8
  <2>2. AttachedOK(w) /\ pc[w] = "done" /\ Builds(w) /\ Own(w) /\ build'[w] = build[w] /\ build[w].path = p
    BY <1>1, <1>2, <1>8, <2>1 DEF PathOK, Builds, Own
  <2>3. ASSUME NEW x \in build[w].read
        PROVE  x.child \in children' \/ Touched(x.child.component)'
    <3>1. x.child \in children \/ Touched(x.child.component)
      BY <2>2 DEF AttachedOK
    <3>2. x.child.path = p
      BY <2>2 DEF HoursInv, BuilderOK, MaterialOK, ReadOK
    <3> QED
      BY <3>1, <3>2 DEF Carries, Leaves
  <2> QED
    BY <2>2, <2>3
<1> QED
  BY <1>4, <1>6, <1>7, <1>8 DEF PathOK

LEMMA HoursStepOf ==
  ASSUME EmptyInv, HoursInv, NEW a \in Handlers, Carries(a), PathsTypeOK',
         a \in Requests => BuilderOK(a)', FoundOK(a)',
         \A p \in Makers : Leaves(a, p) \/ PathOK(p)'
  PROVE  HoursInv'
<1>1. ASSUME NEW q \in Requests PROVE BuilderOK(q)'
  <2>1. CASE q # a
    <3>1. build'[q] = build[q]
      BY <2>1, RequestFacts DEF Carries
    <3> QED
      BY <2>1, <3>1, StageStays, MaterialStays DEF BuilderOK
  <2> QED
    BY <2>1
<1>2. ASSUME NEW p \in Makers PROVE PathOK(p)'
  BY PathStays
<1>3. ASSUME NEW b \in Handlers PROVE FoundOK(b)'
  <2>1. CASE b # a
    BY <2>1 DEF HoursInv, FoundOK, Carries, Moves
  <2> QED
    BY <2>1
<1> QED
  BY <1>1, <1>2, <1>3 DEF HoursInv

(* A step that touches no path and no build of one.                        *)
LEMMA ForeignHours ==
  ASSUME EmptyInv, HoursInv, NEW a \in Handlers, Carries(a), PathsTypeOK',
         UNCHANGED <<paths, modules>>, \A q \in Requests : build'[q] = build[q], FoundOK(a)',
         \A c \in children' : c \in children,
         \A c \in children : c \in children' \/ Touched(c.component)',
         a \in Requests =>
           /\ pc[a] \notin Over /\ pc'[a] \notin PathLabels
           /\ Builds(a)' \/ pc[a] = "findModules" => pc'[a] \in {"failed", "refused"}
           /\ pc'[a] = "editRow" => kind'[a] = "editSubject"
           /\ pc'[a] = "removeComponent" => kind'[a] = "deleteComponent"
  PROVE  HoursInv'
<1>1. ASSUME a \in Requests PROVE BuilderOK(a)'
  <2>1. StageOfBuild(a) /\ build'[a] = build[a]
    BY <1>1 DEF HoursInv, BuilderOK
  <2>2. MaterialOK(a)'
    BY <1>1, <2>1, MaterialStays
  <2>3. StageOfBuild(a)'
    BY <1>1, <2>1 DEF StageOfBuild, PathLabels, Over
  <2> QED
    BY <2>2, <2>3 DEF BuilderOK
<1>2. ASSUME NEW p \in Makers PROVE Leaves(a, p)
  <2>1. a \in Writers(p) => a \in Requests /\ pc'[a] \in Over /\ build'[a].path = build[a].path
    <3> SUFFICES ASSUME a \in Writers(p)
                 PROVE  a \in Requests /\ pc'[a] \in Over /\ build'[a].path = build[a].path
      OBVIOUS
    <3>1. a \in Requests
      BY HandlersAssumption DEF HoursInv, PathsTypeOK, Writers, Makers
    <3>2. pc[a] \in {"findModules"} \cup Over
      BY <3>1 DEF HoursInv, PathOK, WritersOK
    <3> QED
      BY <3>1, <3>2 DEF Over
  <2>2. a \in Requests /\ pc'[a] = "done" => ~Builds(a)'
    OBVIOUS
  <2> QED
    BY <2>1, <2>2 DEF Leaves
<1> QED
  BY <1>1, <1>2, HoursStepOf

-----------------------------------------------------------------------------
(* Steps of others.                                                        *)

LEMMA SameAcademics ==
  ASSUME NEW a \in Handlers, Moves(a), pc[a] # "done", UNCHANGED academicVars
  PROVE  /\ \A c : Touched(c) => Touched(c)'
         /\ components' = components
<1>1. study' = study /\ components' = components
  BY DEF academicVars, academicTables
<1>2. \A q \in Requests : pc[q] = "done" => pc'[q] = "done" /\ kind'[q] = kind[q]
  BY RequestFacts DEF Moves
<1> QED
  BY <1>1, <1>2 DEF Touched

LEMMA QuietHours ==
  ASSUME EmptyInv, HoursInv, NEW a \in Handlers, Moves(a),
         UNCHANGED <<academicVars, pathVars>>, pc[a] \notin Over,
         a \in Emissions => pc'[a] # "completePath",
         a \in Requests =>
           /\ pc'[a] \notin PathLabels /\ pc'[a] \notin {"editRow", "removeComponent"}
           /\ Builds(a)' \/ pc[a] = "findModules" => pc'[a] \in {"failed", "refused"}
  PROVE  HoursInv'
<1>1. UNCHANGED <<paths, modules, children, participants, build>> /\ pc[a] # "done"
  BY DEF pathVars, pathTables, Over
<1>2. components' = components /\ \A c : Touched(c) => Touched(c)'
  BY <1>1, SameAcademics
<1>3. Carries(a)
  BY <1>1, <1>2 DEF Carries, Writers
<1>4. PathsTypeOK'
  BY <1>1, <1>2 DEF HoursInv, PathsTypeOK
<1>5. FoundOK(a)'
  BY DEF FoundOK
<1> QED
  BY <1>1, <1>3, <1>4, <1>5, ForeignHours

LEMMA EmissionHours ==
  ASSUME ControlOK, EmptyInv, HoursInv, NEW e \in Emissions, EmissionStep(e), UNCHANGED academicVars
  PROVE  HoursInv'
<1>1. e \in Handlers /\ e \notin Requests /\ Moves(e) /\ pc[e] # "done"
  BY EmissionsMove, HandlersAssumption DEF Handlers, Elsewhere, Over
<1>2. UNCHANGED <<paths, modules, children>>
  BY DEF EmissionStep, FindPaths, AssociatePfOnEmission, Refuse, pathVars, pathTables
<1>3. /\ participants' = participants
         \/ \E p \in Makers : paths[p] # None /\ participants' = participants \cup {[path |-> p, by |-> e]}
      /\ build' = build \/ \E p \in Makers : build' = [build EXCEPT ![e].path = p]
  <2>1. CASE FindPaths(e)
    BY <2>1 DEF FindPaths, pathTables
  <2>2. CASE AssociatePfOnEmission(e)
    <3>1. build[e].path \in Makers
      BY <1>1, <2>2 DEF HoursInv, FoundOK, AssociatePfOnEmission
    <3> QED
      BY <2>2, <3>1 DEF AssociatePfOnEmission, Refuse, pathVars, pathTables
  <2> QED
    BY <2>1, <2>2 DEF EmissionStep
<1>4. build' \in [Handlers -> Build] /\ \A q \in Handlers \ {e} : build'[q] = build[q]
  <2>1. build \in [Handlers -> Build]
    BY DEF HoursInv, PathsTypeOK
  <2>2. CASE build' = build
    BY <2>1, <2>2
  <2>3. ASSUME NEW p \in Makers, build' = [build EXCEPT ![e].path = p]
        PROVE  build' \in [Handlers -> Build] /\ \A q \in Handlers \ {e} : build'[q] = build[q]
    <3>1. build[e] \in Build
      BY <1>1, <2>1
    <3>2. [build[e] EXCEPT !.path = p] \in Build
      BY <3>1 DEF Build
    <3> DEFINE row == [build[e] EXCEPT !.path = p]
    <3>3. build' = [build EXCEPT ![e] = row]
      BY <2>3
    <3> HIDE DEF row
    <3> QED
      BY <1>1, <2>1, <3>2, <3>3 DEF row
  <2> QED
    BY <1>3, <2>2, <2>3
<1>5. components' = components /\ \A c : Touched(c) => Touched(c)'
  BY <1>1, SameAcademics
<1>6. PathsTypeOK'
  <2>1. participants' \subseteq Participant /\ \A s \in participants' : paths[s.path] # None
    BY <1>3 DEF HoursInv, PathsTypeOK, Participant
  <2> QED
    BY <1>2, <1>4, <1>5, <2>1 DEF HoursInv, PathsTypeOK
<1>7. Carries(e)
  BY <1>1, <1>2, <1>4, <1>5 DEF Carries, Writers
<1>8. FoundOK(e)'
  <2>1. CASE FindPaths(e)
    <3>1. CASE \E p \in Makers : build' = [build EXCEPT ![e].path = p]
      <4>1. PICK p \in Makers : build' = [build EXCEPT ![e].path = p]
        BY <3>1
      <4>2. build'[e].path = p
        BY <1>1, <4>1 DEF HoursInv, PathsTypeOK, Build
      <4> QED
        BY <4>2 DEF FoundOK
    <3>2. CASE Goto(e, "insert")
      BY <1>1, <3>2 DEF FoundOK, Goto, Moves, ControlOK
    <3> QED
      BY <2>1, <3>1, <3>2 DEF FindPaths
  <2>2. CASE AssociatePfOnEmission(e)
    <3>1. Goto(e, "refused") \/ Goto(e, "insert")
      BY <2>2 DEF AssociatePfOnEmission, Refuse
    <3> QED
      BY <1>1, <3>1 DEF FoundOK, Goto, ControlOK
  <2> QED
    BY <2>1, <2>2 DEF EmissionStep
<1> QED
  BY <1>1, <1>2, <1>4, <1>6, <1>7, <1>8, RequestFacts, ForeignHours

(* Only the row a request names changes, or one of its own.                *)
LEMMA StudiesEffect ==
  ASSUME ControlOK, StudyInv, NEW r \in Requests, StudiesStep(r)
  PROVE  /\ \A q \in Requests \ {r} : study'[q] = study[q]
         /\ pc'[r] = "editRow" => kind'[r] = "editSubject"
         /\ pc'[r] = "removeComponent" => kind'[r] = "deleteComponent"
         /\ \/ components' = components
            \/ pc[r] = "insertRows" /\ \A c \in Component : c[2] # r => components'[c] = components[c]
            \/ /\ pc[r] \in {"editRow", "removeComponent"} /\ pc'[r] = "done"
               /\ study' = study
               /\ \A c \in Component : c # study[r].component => components'[c] = components[c]
<1>0. r \in Handlers /\ DOMAIN study = Handlers /\ components \in [Component -> Hours \cup {None}]
  BY RequestFacts DEF StudyInv, AcademicsTypeOK
<1>a. kind \in [Handlers -> Kinds \cup {None}] /\ pc \in [Handlers -> Labels]
  BY DEF ControlOK
<1>b. ASSUME NEW k, NEW l, NEW S, Ask(r, k, l, S), l \notin {"editRow", "removeComponent"}
      PROVE  /\ \A q \in Requests \ {r} : study'[q] = study[q]
             /\ components' = components /\ pc'[r] = l
  <2>1. PICK s \in S : study' = [study EXCEPT ![r] = s]
    BY <1>b DEF Ask
  <2> QED
    BY <1>0, <1>a, <1>b, <2>1 DEF Ask, Start, academicTables
<1>1. CASE \/ CreateSubject(r) \/ CreateInternship(r) \/ CreateCurriculum(r) \/ CreateSemester(r)
           \/ EditSubject(r) \/ DeleteSubject(r) \/ DeleteInternship(r)
  BY <1>1, <1>b DEF CreateSubject, CreateInternship, CreateCurriculum, CreateSemester, EditSubject,
                    DeleteSubject, DeleteInternship
<1>2. CASE \/ AddSubjectToSemester(r) \/ RemoveSubjectFromSemester(r)
           \/ AddSubjectsToSemester(r) \/ AddInternshipsToCurriculum(r)
           \/ RemoveInternshipsFromCurriculum(r) \/ DeleteCurriculum(r) \/ DeleteSemester(r)
  BY <1>2, <1>b DEF AddSubjectToSemester, RemoveSubjectFromSemester, AddSubjectsToSemester,
                    AddInternshipsToCurriculum, RemoveInternshipsFromCurriculum, DeleteCurriculum,
                    DeleteSemester
<1>c. ASSUME NEW l \in {"refused", "done"}, Goto(r, l), UNCHANGED <<components, study>>
      PROVE  /\ study' = study /\ components' = components /\ pc'[r] = l
  BY <1>0, <1>a, <1>c DEF Goto
<1>3. CASE CheckSubject(r) \/ CheckInternship(r)
  <2>1. PICK s \in Sorts : FindEqual(r, s) /\ s \in {"subject", "internship"}
    BY <1>3 DEF CheckSubject, CheckInternship, Sorts
  <2>2. /\ components' = components
        /\ \E l \in {"done", "findInternship", "insertRows"} : Goto(r, l)
        /\ study' = study \/ \E b, d : study' = [study EXCEPT ![r].body = b, ![r].compared = d]
    BY <2>1 DEF FindEqual, academicVars, academicTables
  <2>a. ASSUME NEW b, NEW d, study' = [study EXCEPT ![r].body = b, ![r].compared = d]
        PROVE  \A q \in Requests \ {r} : study'[q] = study[q]
    BY <1>0, <2>a, RequestFacts
  <2>3. \A q \in Requests \ {r} : study'[q] = study[q]
    BY <2>2, <2>a
  <2>4. pc'[r] \in {"done", "findInternship", "insertRows"}
    BY <1>0, <1>a, <2>2 DEF Goto
  <2> QED
    BY <2>2, <2>3, <2>4
<1>4. CASE InsertRows(r)
  <2>1. CASE RefuseStudy(r)
    BY <1>c, <2>1 DEF RefuseStudy, academicVars, academicTables
  <2>2. CASE ~RefuseStudy(r)
    <3> DEFINE saying(c) == study[r].body[<<c[1], c[3]>>]
               made == {c \in Component : c[2] = r /\ saying(c) # None}
    <3>1. /\ components' = [c \in Component |-> IF c \in made THEN saying(c) ELSE components[c]]
          /\ pc[r] = "insertRows" /\ Goto(r, "done") /\ study' = study
      BY <1>4, <2>2 DEF InsertRows
    <3> QED
      BY <1>0, <1>a, <3>1 DEF Goto
  <2> QED
    BY <2>1, <2>2
<1>5. CASE GetCurriculumSemesters(r) \/ InsertSemester(r) \/ GetHolder(r) \/ GetValidSemestersIds(r)
  <2>1. /\ components' = components
        /\ \E l \in {"refused", "insertSemester", "done", "writeLinks"} : Goto(r, l)
        /\ \/ study' = study
           \/ \E d : study' = [study EXCEPT ![r].seen = d]
           \/ \E d : study' = [study EXCEPT ![r].holders = d]
    BY <1>5 DEF GetCurriculumSemesters, InsertSemester, GetHolder, GetValidSemestersIds, RefuseStudy,
                academicVars, academicTables
  <2>a. ASSUME NEW d, \/ study' = [study EXCEPT ![r].seen = d]
                      \/ study' = [study EXCEPT ![r].holders = d]
        PROVE  \A q \in Requests \ {r} : study'[q] = study[q]
    BY <1>0, <2>a, RequestFacts
  <2>2. \A q \in Requests \ {r} : study'[q] = study[q]
    BY <2>1, <2>a
  <2>3. pc'[r] \in {"refused", "insertSemester", "done", "writeLinks"}
    BY <1>0, <1>a, <2>1 DEF Goto
  <2> QED
    BY <2>1, <2>2, <2>3
<1>6. CASE GetSubjectById(r)
  <2>1. CASE RefuseStudy(r)
    BY <1>c, <2>1 DEF RefuseStudy, academicVars, academicTables
  <2>2. CASE ~RefuseStudy(r)
    <3>1. /\ components' = components /\ Goto(r, AfterComponent(r))
          /\ \E d : study' = [study EXCEPT ![r].seen = d]
      BY <1>6, <2>2 DEF GetSubjectById, academicTables
    <3>2. pc'[r] = AfterComponent(r) /\ kind' = kind
      BY <1>0, <1>a, <3>1 DEF Goto
    <3> QED
      BY <1>0, <3>1, <3>2 DEF AfterComponent
  <2> QED
    BY <2>1, <2>2
<1>7. CASE WriteLinks(r)
  BY <1>7, <1>c DEF WriteLinks, RefuseStudy, academicVars, academicTables
<1>8. CASE EditRow(r) \/ RemoveComponent(r)
  <2>1. CASE RefuseStudy(r)
    BY <1>c, <2>1 DEF RefuseStudy, academicVars, academicTables
  <2>2. CASE ~RefuseStudy(r)
    <3>1. /\ \E h : components' = [components EXCEPT ![study[r].component] = h]
          /\ pc[r] \in {"editRow", "removeComponent"} /\ Goto(r, "done") /\ study' = study
      BY <1>8, <2>2 DEF EditRow, RemoveComponent
    <3> QED
      BY <1>0, <1>a, <3>1 DEF Goto
  <2> QED
    BY <2>1, <2>2
<1>9. CASE RemoveHolder(r)
  <2>1. components' = components /\ study' = study /\ \E l \in {"refused", "done"} : Goto(r, l)
    BY <1>9 DEF RemoveHolder, RefuseStudy, academicVars, academicTables
  <2> QED
    BY <1>c, <2>1
<1> QED
  BY <1>1, <1>2, <1>3, <1>4, <1>5, <1>6, <1>7, <1>8, <1>9 DEF StudiesStep, AcademicsStep

LEMMA StudiesHours ==
  ASSUME ControlOK, EmptyInv, StudyInv, HoursInv, NEW r \in Requests, StudiesStep(r), StudyInv'
  PROVE  HoursInv'
<1>1. /\ r \in Handlers /\ Moves(r) /\ pc[r] \in StudyLabels \cup {"idle"} /\ pc'[r] \in StudyLabels \cup Over
      /\ pc[r] = "idle" => kind'[r] \in StudyKinds
  BY StudiesMove, RequestFacts DEF Stays
<1>2. /\ UNCHANGED <<paths, modules, participants, build>>
      /\ children' = {c \in children : components'[c.component] # None}
  BY DEF StudiesStep
<1>3. pc[r] \notin Over /\ pc[r] # "findModules" /\ pc'[r] \notin PathLabels
  BY <1>1, Sides DEF PathLabels
<1>4. \A q \in Requests : pc[q] = "done" => q # r /\ pc'[q] = "done" /\ kind'[q] = kind[q] /\ study'[q] = study[q]
  BY <1>1, <1>3, StudiesEffect, RequestFacts DEF Moves, Over
<1>5. \A c : Touched(c) => Touched(c)'
  BY <1>4 DEF Touched
<1>6. StageOfBuild(r)
  BY DEF HoursInv, BuilderOK
<1>7. ASSUME NEW c \in Component, Settled(c[2]) PROVE components'[c] = components[c] \/ Touched(c)'
  <2>1. CASE components' = components
    BY <2>1
  <2>2. CASE pc[r] = "insertRows" /\ \A d \in Component : d[2] # r => components'[d] = components[d]
    <3>1. c[2] # r
      BY <1>7, <2>2 DEF Settled
    <3> QED
      BY <2>2, <3>1
  <2>3. CASE /\ pc[r] \in {"editRow", "removeComponent"} /\ pc'[r] = "done" /\ study' = study
             /\ \A d \in Component : d # study[r].component => components'[d] = components[d]
    <3>1. kind'[r] \in {"editSubject", "deleteComponent"}
      BY <1>1, <1>6, <2>3 DEF StageOfBuild, Moves
    <3> QED
      BY <2>3, <3>1 DEF Touched
  <2> QED
    BY <2>1, <2>2, <2>3, StudiesEffect
<1>8. Carries(r)
  BY <1>1, <1>2, <1>3, <1>5, <1>7 DEF Carries, Over, Writers
<1>9. PathsTypeOK'
  BY <1>2 DEF HoursInv, PathsTypeOK
<1>10. ASSUME NEW c \in children PROVE c \in children' \/ Touched(c.component)'
  <2>1. c.component \in Component /\ components[c.component] # None
    BY DEF HoursInv, PathsTypeOK, Child
  <2>2. Settled(c.component[2])
    BY <2>1 DEF StudyInv
  <2> QED
    BY <1>2, <1>7, <2>1, <2>2
<1>11. ~Builds(r)'
  <2>1. CASE pc[r] = "idle"
    BY <1>1, <2>1 DEF StudyKinds, Builds
  <2>2. CASE pc[r] # "idle"
    <3>1. pc[r] \notin PathLabels \cup Over
      BY <1>1, <2>2, Sides
    <3> QED
      BY <1>1, <1>6, <2>2, <3>1 DEF StageOfBuild, Builds, Moves
  <2> QED
    BY <2>1, <2>2
<1>12. FoundOK(r)'
  BY HandlersAssumption DEF FoundOK
<1> QED
  BY <1>1, <1>2, <1>3, <1>8, <1>9, <1>10, <1>11, <1>12, ForeignHours, StudiesEffect

-----------------------------------------------------------------------------
(* Steps of requests for paths.                                            *)

LEMMA RefuseHours ==
  ASSUME ControlOK, EmptyInv, HoursInv, NEW r \in Requests, pc[r] \in PathLabels, Refuse(r),
         UNCHANGED academicVars
  PROVE  HoursInv'
<1>1. r \in Handlers /\ Moves(r) /\ pc'[r] = "refused" /\ UNCHANGED pathVars
  BY GotoMoves, RequestFacts DEF Refuse, Labels, Over
<1>2. pc[r] \notin Over /\ "refused" \notin PathLabels
  BY Sides
<1> QED
  BY <1>1, <1>2, QuietHours

(* A step of a request for paths carries the rest along.                   *)
LEMMA PathCarries ==
  ASSUME NEW r \in Requests, Moves(r), pc[r] # "done", UNCHANGED academicVars,
         \A q \in Handlers \ {r} : build'[q] = build[q],
         \A q \in Requests \ {r} : paths'[q] # None => paths[q] # None,
         \A p \in Makers : Former \in Writers(p)' => Former \in Writers(p)
  PROVE  Carries(r)
BY SameAcademics, RequestFacts DEF Carries

LEMMA BeginHours ==
  ASSUME ControlOK, EmptyInv, HoursInv, NEW r \in Requests, NEW k \in PathKinds, NEW l \in PathLabels,
         NEW B, Begin(r, k, l, B), UNCHANGED academicVars,
         \A x \in B : /\ x \in Build /\ x.left = {} /\ x.read = {}
                      /\ k = "createPath" => x.path = r,
         l \in {"checkTemplate", "writePath"} => k = "createPath",
         l # "findModules", l = "deletePath" => k = "deletePath"
  PROVE  HoursInv'
<1>1. r \in Handlers /\ Moves(r) /\ pc[r] = "idle" /\ pc'[r] = l /\ kind'[r] = k
  BY RequestFacts, StartMoves DEF Begin, Labels, Kinds
<1>2. PICK b \in B : build' = [build EXCEPT ![r] = b]
  BY DEF Begin
<1>a. /\ UNCHANGED <<paths, modules, children, participants>>
      /\ build \in [Handlers -> Build]
  BY DEF Begin, pathTables, HoursInv, PathsTypeOK
<1>b. b \in Build /\ b.left = {} /\ b.read = {} /\ (k = "createPath" => b.path = r)
  BY <1>2
<1>3. /\ build'[r] = b /\ (\A q \in Handlers \ {r} : build'[q] = build[q])
      /\ build' \in [Handlers -> Build]
  BY <1>1, <1>2, <1>a, <1>b
<1>4. components' = components
  BY DEF academicVars, academicTables
<1>5. PathsTypeOK'
  BY <1>3, <1>4, <1>a DEF HoursInv, PathsTypeOK
<1>6. Carries(r)
  BY <1>1, <1>3, <1>a, PathCarries DEF Writers
<1>7. BuilderOK(r)'
  <2>1. paths[r] = None
    BY <1>1 DEF HoursInv, BuilderOK, StageOfBuild, Over
  <2>2. StageOfBuild(r)'
    BY <1>1, <1>3, <1>a, <1>b, <2>1 DEF StageOfBuild, Builds, PathLabels, PathKinds
  <2>3. build'[r].left = {} /\ build'[r].read = {}
    BY <1>3, <1>b
  <2> QED
    BY <2>2, <2>3, FS_EmptySet DEF BuilderOK, MaterialOK
<1>8. ASSUME NEW p \in Makers PROVE Leaves(r, p)
  <2>1. r \notin Writers(p)
    BY <1>1 DEF HoursInv, PathOK, WritersOK, Over
  <2>2. pc'[r] # "done"
    BY <1>1, Sides
  <2> QED
    BY <1>a, <2>1, <2>2 DEF Leaves
<1>9. FoundOK(r)'
  BY HandlersAssumption DEF FoundOK
<1> QED
  BY <1>1, <1>5, <1>6, <1>7, <1>8, <1>9, HoursStepOf

LEMMA BodyFacts ==
  ASSUME NEW P \in SUBSET Makers, NEW T \in SUBSET {"none", "valid", "invalid"}, NEW b \in Bodies(P, T)
  PROVE  b \in Build /\ b.left = {} /\ b.read = {} /\ b.path \in P
<1>1. PICK p \in P, o \in Outlines, t \in T : b = Body(p, o, t)
  BY DEF Bodies
<1>2. b = [path |-> p, outline |-> o, template |-> t, found |-> [i \in Indexes |-> None],
           left |-> {}, read |-> {}]
  BY <1>1 DEF Body, NoBuild
<1> QED
  BY <1>2 DEF Build

LEMMA BeginsHours ==
  ASSUME ControlOK, EmptyInv, HoursInv, NEW r \in Requests, UNCHANGED academicVars,
         CreateLearningPath(r) \/ UpdateLearningPath(r) \/ DeleteLearningPath(r)
  PROVE  HoursInv'
<1>0. /\ {"createPath", "updatePath", "deletePath"} \subseteq PathKinds
      /\ {"writePath", "checkTemplate", "deleteModules", "deletePath"} \subseteq PathLabels
      /\ {r} \in SUBSET Makers /\ Existing \in SUBSET Makers
  BY RequestFacts DEF PathKinds, PathLabels, Existing
<1>1. CASE CreateLearningPath(r)
  <2>1. PICK l \in {"writePath", "checkTemplate"}, T \in SUBSET {"none", "valid", "invalid"} :
          Begin(r, "createPath", l, Bodies({r}, T))
    BY <1>1 DEF CreateLearningPath
  <2> DEFINE B == Bodies({r}, T)
  <2>2. \A b \in B : b \in Build /\ b.left = {} /\ b.read = {} /\ b.path = r
    <3> SUFFICES ASSUME NEW b \in B PROVE b \in Build /\ b.left = {} /\ b.read = {} /\ b.path \in {r}
      OBVIOUS
    <3> QED
      BY <1>0, <2>1, BodyFacts
  <2>3. Begin(r, "createPath", l, B) /\ l # "findModules"
    BY <2>1
  <2> HIDE DEF B
  <2> QED
    BY <1>0, <2>2, <2>3, BeginHours
<1>2. CASE UpdateLearningPath(r)
  <2> DEFINE B == Bodies(Existing, {"none", "valid", "invalid"})
  <2>1. \A b \in B : b \in Build /\ b.left = {} /\ b.read = {}
    BY <1>0, BodyFacts
  <2>2. Begin(r, "updatePath", "deleteModules", B)
    BY <1>2 DEF UpdateLearningPath
  <2> HIDE DEF B
  <2> QED
    BY <1>0, <2>1, <2>2, BeginHours
<1>3. CASE DeleteLearningPath(r)
  <2> DEFINE B == {[NoBuild EXCEPT !.path = p] : p \in Existing}
  <2>1. \A b \in B : b \in Build /\ b.left = {} /\ b.read = {}
    BY <1>0 DEF NoBuild, Build
  <2>2. Begin(r, "deletePath", "deletePath", B)
    BY <1>3 DEF DeleteLearningPath
  <2> HIDE DEF B
  <2> QED
    BY <1>0, <2>1, <2>2, BeginHours
<1> QED
  BY <1>1, <1>2, <1>3

(* A path that has lost its modules with their children.                   *)
LEMMA EmptiedPath ==
  ASSUME NEW p \in Makers, modules'[p] = NoModules, \A c \in children' : c.path # p
  PROVE  PathOK(p)'
<1>1. Writers(p)' = {}
  BY DEF Writers, NoModules
<1>2. WritersOK(p)' /\ HoursOK(p)'
  BY <1>1 DEF WritersOK, HoursOK
<1>3. \A w \in Requests : build'[w].path = p => AttachedOK(w)'
  BY <1>1 DEF AttachedOK, Writers
<1> QED
  BY <1>2, <1>3 DEF PathOK

LEMMA DeleteModulesHours ==
  ASSUME ControlOK, EmptyInv, HoursInv, NEW r \in Requests, DeleteLearningPathModules(r),
         UNCHANGED academicVars
  PROVE  HoursInv'
<1>1. PICK o \in Makers : build[r].path = o
  BY DEF EmptyInv, PathInv, PathLabels, DeleteLearningPathModules
<1>2. /\ pc[r] = "deleteModules" /\ modules' = [modules EXCEPT ![o] = NoModules]
      /\ children' = {c \in children : c.path # o}
      /\ UNCHANGED <<paths, participants, build>>
      /\ \E l \in {"writePath", "checkTemplate"} : Goto(r, l)
  BY <1>1 DEF DeleteLearningPathModules
<1>3. r \in Handlers /\ Moves(r) /\ kind' = kind /\ pc'[r] \in {"writePath", "checkTemplate"}
  BY <1>2, GotoMoves, RequestFacts DEF Labels, PathLabels
<1>4. modules \in [Makers -> [Indexes -> Makers \cup {None}]] /\ kind[r] = "updatePath"
  BY <1>2 DEF EmptyInv, PathInv
<1>5. modules'[o] = NoModules /\ \A p \in Makers \ {o} : modules'[p] = modules[p]
  BY <1>2, <1>4
<1>6. Writers(o)' = {}
  BY <1>5 DEF Writers, NoModules
<1>7. Carries(r)
  BY <1>2, <1>3, <1>5, <1>6, PathCarries DEF Writers
<1>8. PathsTypeOK'
  <2>1. components' = components
    BY DEF academicVars, academicTables
  <2>2. modules' \in [Makers -> [Indexes -> Makers \cup {None}]]
    BY <1>2, <1>4 DEF NoModules
  <2>3. \A p \in Makers : paths'[p] = None => \A i \in Indexes : modules'[p][i] = None
    BY <1>2, <1>5 DEF NoModules, HoursInv, PathsTypeOK
  <2>4. \A c \in children' : modules'[c.path][c.index] # None /\ components'[c.component] # None
    BY <1>2, <1>5, <2>1 DEF HoursInv, PathsTypeOK, Child
  <2> QED
    BY <1>2, <2>2, <2>3, <2>4 DEF HoursInv, PathsTypeOK
<1>9. BuilderOK(r)'
  <2>1. StageOfBuild(r)
    BY DEF HoursInv, BuilderOK
  <2>2. StageOfBuild(r)'
    BY <1>1, <1>2, <1>3, <1>4, <1>6, <2>1 DEF StageOfBuild, Builds, PathLabels, Over
  <2> QED
    BY <1>2, <1>3, <1>7, <2>2, MaterialStays DEF BuilderOK
<1>10. ASSUME NEW p \in Makers PROVE Leaves(r, p) \/ PathOK(p)'
  <2>1. CASE p = o
    BY <1>2, <1>5, <2>1, EmptiedPath
  <2>2. CASE p # o
    <3>1. r \notin Writers(p)
      BY <1>2 DEF HoursInv, PathOK, WritersOK, Over
    <3>2. pc'[r] # "done"
      BY <1>3
    <3> QED
      BY <1>2, <1>5, <2>2, <3>1, <3>2 DEF Leaves
  <2> QED
    BY <2>1, <2>2
<1>11. FoundOK(r)'
  BY HandlersAssumption DEF FoundOK
<1> QED
  BY <1>3, <1>7, <1>8, <1>9, <1>10, <1>11, HoursStepOf

LEMMA CheckTemplateHours ==
  ASSUME ControlOK, EmptyInv, HoursInv, NEW r \in Requests, CheckTemplateById(r), UNCHANGED academicVars
  PROVE  HoursInv'
<1>1. CASE Refuse(r)
  BY <1>1, RefuseHours DEF CheckTemplateById, PathLabels
<1>2. CASE Goto(r, "writePath") /\ UNCHANGED pathVars
  <2>1. /\ r \in Handlers /\ Moves(r) /\ kind' = kind /\ pc'[r] = "writePath"
        /\ pc[r] = "checkTemplate"
    BY <1>2, GotoMoves, RequestFacts DEF Labels, PathLabels, CheckTemplateById
  <2>2. UNCHANGED <<paths, modules, children, participants, build>>
    BY <1>2 DEF pathVars, pathTables
  <2>3. Carries(r)
    BY <2>1, <2>2, PathCarries DEF Writers
  <2>4. PathsTypeOK'
    <3>1. components' = components
      BY DEF academicVars, academicTables
    <3> QED
      BY <2>2, <3>1 DEF HoursInv, PathsTypeOK
  <2>5. BuilderOK(r)'
    <3>1. StageOfBuild(r)
      BY DEF HoursInv, BuilderOK
    <3>2. StageOfBuild(r)'
      BY <2>1, <2>2, <3>1 DEF StageOfBuild, Builds, PathLabels, Over, Writers
    <3> QED
      BY <2>1, <2>2, <2>3, <3>2, MaterialStays DEF BuilderOK
  <2>6. ASSUME NEW p \in Makers PROVE Leaves(r, p)
    <3>1. r \notin Writers(p)
      BY <2>1 DEF HoursInv, PathOK, WritersOK, Over
    <3> QED
      BY <2>1, <2>2, <3>1 DEF Leaves
  <2>7. FoundOK(r)'
    BY HandlersAssumption DEF FoundOK
  <2> QED
    BY <2>1, <2>3, <2>4, <2>5, <2>6, <2>7, HoursStepOf
<1> QED
  BY <1>1, <1>2 DEF CheckTemplateById

(* Connecting a template moves it and changes nothing else.                *)
OneTemplate(f) == \A p, q \in {x \in Makers : f[x] # None} :
                    f[p].template /\ f[q].template => p = q

LEMMA ConnectedFacts ==
  ASSUME NEW f \in [Makers -> Path \cup {None}], OneTemplate(f), NEW o \in Makers, NEW valid \in BOOLEAN
  PROVE  /\ Connected(f, o, valid) \in [Makers -> Path \cup {None}]
         /\ OneTemplate(Connected(f, o, valid))
         /\ \A p \in Makers : /\ Connected(f, o, valid)[p] = None <=> f[p] = None
                              /\ f[p] # None => Connected(f, o, valid)[p].hours = f[p].hours
<1> DEFINE g == Connected(f, o, valid)
<1>1. CASE ~valid
  <2>1. g = f
    BY <1>1 DEF Connected
  <2> QED
    BY <2>1
<1>2. CASE valid
  <2>1. ASSUME NEW p \in Makers, f[p] = None PROVE g[p] = None
    BY <2>1 DEF Connected
  <2>2. ASSUME NEW p \in Makers, f[p] # None
        PROVE  /\ g[p] \in Path /\ g[p] # None
               /\ g[p].hours = f[p].hours /\ g[p].template = (p = o)
    <3>1. g[p] = [f[p] EXCEPT !.template = (p = o)] /\ f[p] \in Path
      BY <1>2, <2>2 DEF Connected
    <3>2. PICK t \in BOOLEAN : t = (p = o)
      OBVIOUS
    <3>3. g[p] = [template |-> t, hours |-> f[p].hours] /\ f[p].hours \in Nat
      BY <3>1, <3>2 DEF Path
    <3>4. g[p] \in Path
      BY <3>3 DEF Path
    <3> QED
      BY <3>2, <3>3, <3>4, PathsAssumption
  <2>3. DOMAIN g = Makers /\ g = [p \in Makers |-> g[p]]
    BY DEF Connected
  <2> HIDE DEF g
  <2>4. g \in [Makers -> Path \cup {None}]
    BY <2>1, <2>2, <2>3
  <2>5. OneTemplate(g)
    BY <2>1, <2>2 DEF OneTemplate
  <2> QED
    BY <2>1, <2>2, <2>4, <2>5 DEF g
<1> QED
  BY <1>1, <1>2

(* The rows a build writes where there is none, which have no children     *)
(* yet.                                                                    *)
LEMMA WrittenPath ==
  ASSUME ControlOK, EmptyInv, HoursInv, NEW r \in Requests, pc[r] = "writePath",
         NEW p \in Makers, build[r].path = p,
         Former \notin Writers(p),
         Goto(r, "findModules"), UNCHANGED <<children, build, academicVars>>,
         \A i \in Indexes : modules'[p][i] = modules[p][i]
                            \/ (modules[p][i] = None /\ modules'[p][i] = r),
         paths[p] # None => paths'[p].hours = paths[p].hours
  PROVE  PathOK(p)'
<1>1. /\ r \in Handlers /\ Moves(r) /\ kind' = kind /\ pc'[r] = "findModules" /\ Builds(r)
      /\ \A w \in Requests \ {r} : pc'[w] = pc[w]
  BY GotoMoves, RequestFacts DEF Labels, PathLabels, Moves, HoursInv, BuilderOK, StageOfBuild
<1>2. PathOK(p) /\ modules[p] \in [Indexes -> Makers \cup {None}]
  BY DEF HoursInv, PathsTypeOK
<1>3. /\ \A w \in Writers(p)' : w \in Writers(p) \/ w = r
      /\ r \notin Writers(p)' => Writers(p)' = Writers(p)
  BY RequestFacts DEF Writers
<1>4. WritersOK(p)'
  BY <1>1, <1>2, <1>3, RequestFacts DEF PathOK, WritersOK, Builds
<1>5. HoursOK(p)'
  <2> SUFFICES ASSUME NEW w \in Requests, Writers(p)' = {w}, pc'[w] = "done",
                      \A q \in Requests : build[q].path = p /\ Builds(q)' /\ pc'[q] = "done" =>
                        Own(q)' /\ build[q].read # {}
               PROVE  paths'[p].hours = ReadHours(w)
    BY DEF HoursOK, ReadHours
  <2>1. w # r /\ Writers(p) = {w} /\ pc[w] = "done"
    BY <1>1, <1>3
  <2>2. paths[p] # None
    <3>1. PICK i \in Indexes : modules[p][i] = w /\ modules[p][i] # None
      BY <2>1 DEF Writers
    <3> QED
      BY <3>1 DEF HoursInv, PathsTypeOK
  <2>3. \A q \in Requests : build[q].path = p /\ Builds(q) /\ pc[q] = "done" =>
          Own(q) /\ build[q].read # {}
    BY <1>1 DEF Builds, Own, PathLabels
  <2> QED
    BY <1>2, <2>1, <2>2, <2>3 DEF PathOK, HoursOK
<1>6. ASSUME NEW c \in children, c.path = p PROVE ChildOK(c)'
  <2>1. ChildOK(c) /\ c.index \in Indexes /\ modules[p][c.index] # None
    BY <1>2, <1>6 DEF PathOK, HoursInv, PathsTypeOK, Child
  <2>2. modules'[p][c.index] = modules[p][c.index]
    BY <2>1
  <2> QED
    BY <1>1, <1>6, <2>1, <2>2 DEF ChildOK, Builds
<1>7. ASSUME NEW w \in Requests, build[w].path = p PROVE AttachedOK(w)'
  <2> SUFFICES ASSUME pc'[w] = "done", Builds(w), Own(w), w \in Writers(p)'
               PROVE  \A x \in build[w].read : x.child \in children \/ Touched(x.child.component)'
    BY <1>1, <1>7 DEF AttachedOK, Builds, Own, Writers
  <2>1. w # r /\ pc[w] = "done" /\ w \in Writers(p)
    BY <1>1, <1>3
  <2>2. AttachedOK(w)
    BY <1>2, <1>7 DEF PathOK
  <2>3. \A c : Touched(c) => Touched(c)'
    BY <1>1, SameAcademics
  <2> QED
    BY <1>7, <2>1, <2>2, <2>3 DEF AttachedOK
<1> QED
  BY <1>4, <1>5, <1>6, <1>7 DEF PathOK

LEMMA WriteHours ==
  ASSUME ControlOK, EmptyInv, HoursInv, NEW r \in Requests, pc[r] = "writePath",
         NEW o \in Makers, build[r].path = o,
         Former \notin Writers(o),
         Goto(r, "findModules"), UNCHANGED <<children, participants, build, academicVars>>,
         modules' \in [Makers -> [Indexes -> Makers \cup {None}]],
         \A i \in Indexes : modules'[o][i] = modules[o][i]
                            \/ (modules[o][i] = None /\ modules'[o][i] = r),
         \A p \in Makers \ {o} : modules'[p] = modules[p],
         paths' \in [Makers -> Path \cup {None}], OneTemplate(paths'),
         paths'[o] # None, o # r => paths[o] # None,
         paths[o] # None => paths'[o].hours = paths[o].hours,
         \A p \in Makers \ {o} : /\ paths'[p] = None <=> paths[p] = None
                                 /\ paths[p] # None => paths'[p].hours = paths[p].hours
  PROVE  HoursInv'
<1>1. r \in Handlers /\ Moves(r) /\ kind' = kind /\ pc'[r] = "findModules"
  BY GotoMoves, RequestFacts DEF Labels, PathLabels
<1>2. StageOfBuild(r)
  BY DEF HoursInv, BuilderOK
<1>3. PathOK(o)'
  BY WrittenPath
<1>4. Former \notin Writers(o)'
  BY RequestFacts DEF Writers
<1>5. Carries(r)
  <2>1. \A q \in Requests \ {r} : paths'[q] # None => paths[q] # None
    BY RequestFacts
  <2>2. \A p \in Makers : Former \in Writers(p)' => Former \in Writers(p)
    BY <1>4 DEF Writers
  <2> QED
    BY <1>1, <2>1, <2>2, PathCarries
<1>6. PathsTypeOK'
  <2>1. components' = components
    BY DEF academicVars, academicTables
  <2>2. \A p \in Makers : paths'[p] = None => \A i \in Indexes : modules'[p][i] = None
    BY DEF HoursInv, PathsTypeOK
  <2>3. ASSUME NEW c \in children PROVE modules'[c.path][c.index] # None
    <3>1. c.path \in Makers /\ c.index \in Indexes /\ modules[c.path][c.index] # None
      BY DEF HoursInv, PathsTypeOK, Child
    <3> QED
      BY <3>1
  <2>4. \A s \in participants : paths'[s.path] # None
    BY DEF HoursInv, PathsTypeOK, Participant
  <2> QED
    BY <2>1, <2>2, <2>3, <2>4 DEF HoursInv, PathsTypeOK, OneTemplate
<1>7. BuilderOK(r)'
  <2>1. StageOfBuild(r)'
    BY <1>1, <1>2, <1>4 DEF StageOfBuild, Builds, PathLabels, Writers
  <2> QED
    BY <1>1, <1>5, <2>1, MaterialStays DEF BuilderOK
<1>8. ASSUME NEW p \in Makers, p # o PROVE Leaves(r, p)
  <2>1. r \notin Writers(p)
    BY DEF HoursInv, PathOK, WritersOK, Over
  <2> QED
    BY <1>1, <1>8, <2>1 DEF Leaves
<1>9. FoundOK(r)'
  BY HandlersAssumption DEF FoundOK
<1> QED
  BY <1>1, <1>3, <1>5, <1>6, <1>7, <1>8, <1>9, HoursStepOf

LEMMA CreateRowHours ==
  ASSUME ControlOK, EmptyInv, HoursInv, NEW r \in Requests, CreateRow(r), UNCHANGED academicVars
  PROVE  HoursInv'
<1>1. /\ pc[r] = "writePath" /\ kind[r] = "createPath" /\ Goto(r, "findModules")
      /\ modules' = [modules EXCEPT ![r] = Blank(r)]
      /\ UNCHANGED <<children, participants, build, academicVars>>
  BY DEF CreateRow
<1>2. build[r].path = r /\ paths[r] = None /\ build[r].outline \in Outlines
  <2>1. StageOfBuild(r)
    BY DEF HoursInv, BuilderOK
  <2> QED
    BY <1>1, <2>1 DEF StageOfBuild, PathLabels, Over, EmptyInv, PathInv
<1>3. /\ r \in Makers /\ r # None /\ r # Former
      /\ paths \in [Makers -> Path \cup {None}] /\ OneTemplate(paths)
      /\ modules \in [Makers -> [Indexes -> Makers \cup {None}]]
      /\ \A i \in Indexes : modules[r][i] = None
  BY <1>2, RequestFacts DEF HoursInv, PathsTypeOK, OneTemplate
<1>4. /\ Blank(r) \in [Indexes -> Makers \cup {None}]
      /\ \A i \in Indexes : Blank(r)[i] \in {None, r}
  BY <1>2, BlankRows DEF Blank
<1>5. /\ modules' \in [Makers -> [Indexes -> Makers \cup {None}]]
      /\ modules'[r] = Blank(r) /\ \A p \in Makers \ {r} : modules'[p] = modules[p]
  BY <1>1, <1>3, <1>4
<1>6. Former \notin Writers(r)
  BY <1>3, HandlersAssumption DEF Writers
<1> DEFINE row == [template |-> FALSE, hours |-> 0]
           f == [paths EXCEPT ![r] = row]
           valid == build[r].template = "valid"
<1>a. row \in Path
  BY DEF Path
<1>7. row \in Path /\ row # None /\ row.template = FALSE
  BY <1>a, PathsAssumption
<1>v. valid \in BOOLEAN
  OBVIOUS
<1>8. paths' = Connected(f, r, valid)
  BY DEF CreateRow
<1> HIDE DEF row, valid
<1>9. /\ f \in [Makers -> Path \cup {None}] /\ f[r] # None
      /\ \A p \in Makers \ {r} : f[p] = paths[p]
  BY <1>3, <1>7
<1>10. OneTemplate(f)
  BY <1>3, <1>7, <1>9 DEF OneTemplate
<1> HIDE DEF f
<1>11. /\ paths' \in [Makers -> Path \cup {None}] /\ OneTemplate(paths')
       /\ \A p \in Makers : /\ paths'[p] = None <=> f[p] = None
                            /\ f[p] # None => paths'[p].hours = f[p].hours
  BY <1>3, <1>8, <1>9, <1>10, <1>v, ConnectedFacts
<1> QED
  BY <1>1, <1>2, <1>3, <1>4, <1>5, <1>6, <1>9, <1>11, WriteHours

LEMMA UpdateRowHours ==
  ASSUME ControlOK, EmptyInv, HoursInv, NEW r \in Requests, UpdateRow(r), UNCHANGED academicVars
  PROVE  HoursInv'
<1>1. CASE Refuse(r)
  BY <1>1, RefuseHours DEF UpdateRow, PathLabels
<1>2. CASE ~Refuse(r)
  <2>1. PICK o \in Makers : build[r].path = o
    BY DEF EmptyInv, PathInv, PathLabels, UpdateRow
  <2>2. build[r].outline \in Outlines
    BY DEF EmptyInv, PathInv, PathLabels, UpdateRow
  <2>3. /\ pc[r] = "writePath" /\ kind[r] = "updatePath" /\ Goto(r, "findModules")
        /\ paths[o] # None /\ \A i \in Planned(build[r].outline) : modules[o][i] = None
        /\ paths' = Connected(paths, o, build[r].template = "valid")
        /\ modules' = [modules EXCEPT ![o] =
                         [i \in Indexes |-> IF Blank(r)[i] = None THEN modules[o][i] ELSE Blank(r)[i]]]
        /\ UNCHANGED <<children, participants, build, academicVars>>
    BY <1>2, <2>1 DEF UpdateRow
  <2>4. /\ paths \in [Makers -> Path \cup {None}] /\ OneTemplate(paths)
        /\ modules \in [Makers -> [Indexes -> Makers \cup {None}]]
    BY DEF HoursInv, PathsTypeOK, OneTemplate
  <2>5. /\ Blank(r) \in [Indexes -> Makers \cup {None}]
        /\ \A i \in Indexes : IF i \in Planned(build[r].outline) THEN Blank(r)[i] = r ELSE Blank(r)[i] = None
    BY <2>2, BlankRows DEF Blank, Planned
  <2>6. /\ modules' \in [Makers -> [Indexes -> Makers \cup {None}]]
        /\ \A i \in Indexes : modules'[o][i] = IF Blank(r)[i] = None THEN modules[o][i] ELSE Blank(r)[i]
        /\ \A p \in Makers \ {o} : modules'[p] = modules[p]
    BY <2>3, <2>4, <2>5
  <2>7. \A i \in Indexes : modules'[o][i] = modules[o][i]
                           \/ (modules[o][i] = None /\ modules'[o][i] = r)
    BY <2>3, <2>5, <2>6
  <2>8. Former \notin Writers(o)
    BY <2>1, <2>3 DEF HoursInv, BuilderOK, StageOfBuild
  <2>9. /\ paths' \in [Makers -> Path \cup {None}] /\ OneTemplate(paths')
        /\ \A p \in Makers : /\ paths'[p] = None <=> paths[p] = None
                             /\ paths[p] # None => paths'[p].hours = paths[p].hours
    <3> DEFINE valid == build[r].template = "valid"
    <3>1. valid \in BOOLEAN /\ paths' = Connected(paths, o, valid)
      BY <2>3
    <3> HIDE DEF valid
    <3> QED
      BY <2>4, <3>1, ConnectedFacts
  <2> QED
    BY <2>1, <2>3, <2>6, <2>7, <2>8, <2>9, WriteHours
<1> QED
  BY <1>1, <1>2

LEMMA LookupHours ==
  ASSUME ControlOK, EmptyInv, HoursInv, NEW r \in Requests, pc[r] = "findModules",
         UNCHANGED <<control, pathTables, academicVars>>,
         NEW b \in Build, build' = [build EXCEPT ![r] = b], b.path = build[r].path,
         MaterialOK(r)'
  PROVE  HoursInv'
<1>1. r \in Handlers /\ Moves(r) /\ UNCHANGED <<pc, kind>>
  BY RequestFacts DEF control, Moves, ControlOK
<1>2. UNCHANGED <<paths, modules, children, participants>>
  BY DEF pathTables
<1>3. build'[r] = b /\ build' \in [Handlers -> Build] /\ \A q \in Handlers \ {r} : build'[q] = build[q]
  BY <1>1 DEF HoursInv, PathsTypeOK
<1>4. Carries(r)
  BY <1>1, <1>2, <1>3, PathCarries DEF Writers
<1>5. PathsTypeOK'
  <2>1. components' = components
    BY DEF academicVars, academicTables
  <2> QED
    BY <1>2, <1>3, <2>1 DEF HoursInv, PathsTypeOK
<1>6. BuilderOK(r)'
  <2>1. StageOfBuild(r)
    BY DEF HoursInv, BuilderOK
  <2>2. StageOfBuild(r)'
    BY <1>1, <1>2, <1>3, <2>1 DEF StageOfBuild, Builds, Writers
  <2> QED
    BY <2>2 DEF BuilderOK
<1>7. ASSUME NEW p \in Makers PROVE Leaves(r, p)
  BY <1>1, <1>2, <1>3 DEF Leaves
<1>8. FoundOK(r)'
  BY HandlersAssumption DEF FoundOK
<1> QED
  BY <1>1, <1>4, <1>5, <1>6, <1>7, <1>8, HoursStepOf

LEMMA FindModuleHours ==
  ASSUME ControlOK, EmptyInv, HoursInv, NEW r \in Requests, FindModule(r), UNCHANGED academicVars
  PROVE  HoursInv'
<1>1. CASE Refuse(r)
  BY <1>1, RefuseHours DEF FindModule, PathLabels
<1>2. CASE ~Refuse(r)
  <2>1. PICK o \in Makers : build[r].path = o
    BY DEF EmptyInv, PathInv, PathLabels, FindModule
  <2>2. build[r].outline \in Outlines
    BY DEF EmptyInv, PathInv, PathLabels, FindModule
  <2>3. PICK i \in Planned(build[r].outline) :
          /\ build[r].found[i] = None /\ modules[o][i] # None
          /\ build' = [build EXCEPT ![r].found[i] = modules[o][i],
                                    ![r].left = @ \cup ({i} \X {Sort(c) : c \in build[r].outline[i]})]
          /\ UNCHANGED <<control, pathTables>>
    BY <1>2, <2>1 DEF FindModule
  <2>4. /\ build \in [Handlers -> Build] /\ build[r] \in Build /\ r \in Handlers /\ MaterialOK(r)
        /\ i \in Indexes /\ modules[o][i] \in Makers
    BY <2>3, RequestFacts DEF HoursInv, PathsTypeOK, Planned, BuilderOK
  <2>5. \A c \in build[r].outline[i] : Sort(c) \in Sorts
    BY <2>2, <2>3, <2>4, PathsAssumption, ComponentParts DEF Planned
  <2> DEFINE more == {i} \X {Sort(c) : c \in build[r].outline[i]}
             b == [build[r] EXCEPT !.found = [@ EXCEPT ![i] = modules[o][i]],
                                   !.left = @ \cup more]
  <2>6. \A x \in more : x \in Indexes \X Sorts /\ x[1] = i
    BY <2>4, <2>5
  <2>7. build' = [build EXCEPT ![r] = b]
    BY <2>3, <2>4 DEF Build
  <2> HIDE DEF more
  <2>8. /\ b \in Build /\ b.path = build[r].path /\ b.outline = build[r].outline
        /\ b.read = build[r].read /\ b.left = build[r].left \cup more
        /\ b.found = [build[r].found EXCEPT ![i] = modules[o][i]]
    BY <2>4, <2>6 DEF Build
  <2> HIDE DEF b
  <2>9. build'[r] = b
    BY <2>4, <2>7
  <2>a. build[r].found \in [Indexes -> Makers \cup {None}] /\ modules[o][i] # None
    BY <2>3, <2>4 DEF Build
  <2>10. \A j \in Indexes : build[r].found[j] # None => b.found[j] # None
    BY <2>4, <2>8, <2>a
  <2>11. b.found[i] # None
    BY <2>4, <2>8, <2>a
  <2>12. MaterialOK(r)'
    <3>1. \A x \in build[r].left : x[1] \in Planned(build[r].outline) /\ b.found[x[1]] # None
      BY <2>4, <2>10 DEF MaterialOK, Planned
    <3>2. \A x \in more : x[1] \in Planned(build[r].outline) /\ b.found[x[1]] # None
      BY <2>3, <2>6, <2>11
    <3>3. UNCHANGED <<pc, kind, study, components>>
      BY <2>3 DEF control, academicVars, academicTables
    <3>4. ASSUME NEW x \in build[r].read PROVE ReadOK(r, x)'
      <4>1. ReadOK(r, x) /\ x.child.index \in Indexes
        BY <2>4 DEF MaterialOK, Build, Child
      <4> QED
        BY <2>8, <2>9, <2>10, <3>3, <4>1 DEF ReadOK, Touched, Settled
    <3> QED
      BY <2>4, <2>8, <2>9, <3>1, <3>2, <3>4 DEF MaterialOK
  <2>13. pc[r] = "findModules"
    BY DEF FindModule
  <2> QED
    BY <2>3, <2>7, <2>8, <2>12, <2>13, LookupHours
<1> QED
  BY <1>1, <1>2

LEMMA CheckChildrenHours ==
  ASSUME ControlOK, EmptyInv, StudyInv, HoursInv, NEW r \in Requests, CheckChildren(r),
         UNCHANGED academicVars
  PROVE  HoursInv'
<1>1. PICK o \in Makers : build[r].path = o
  BY DEF EmptyInv, PathInv, PathLabels, CheckChildren
<1>2. build[r].outline \in Outlines /\ pc[r] = "findModules"
  BY DEF EmptyInv, PathInv, PathLabels, CheckChildren
<1> DEFINE known(x) == {c \in build[r].outline[x[1]] : Sort(c) = x[2] /\ components[c] # None}
           rows(x) == {[child |-> NewChild(r, x[1], c), hours |-> components[c]] : c \in known(x)}
<1>3. PICK x \in build[r].left :
        /\ build' = [build EXCEPT ![r].left = @ \ {x}, ![r].read = @ \cup rows(x)]
        /\ UNCHANGED <<control, pathTables>>
  BY DEF CheckChildren
<1>4. /\ build \in [Handlers -> Build] /\ build[r] \in Build /\ r \in Handlers /\ MaterialOK(r)
      /\ components \in [Component -> Hours \cup {None}]
  BY RequestFacts DEF HoursInv, PathsTypeOK, BuilderOK, StudyInv, AcademicsTypeOK
<1>5. /\ x[1] \in Indexes /\ build[r].outline[x[1]] # None /\ build[r].found[x[1]] # None
      /\ x[1] \in Planned(build[r].outline)
  BY <1>3, <1>4 DEF MaterialOK, Planned
<1>6. build[r].outline[x[1]] \in SUBSET Component /\ IsFiniteSet(build[r].outline[x[1]])
  BY <1>2, <1>5, PathsAssumption
<1>7. IsFiniteSet(rows(x))
  <2>1. IsFiniteSet(known(x))
    BY <1>6, FS_Subset
  <2> DEFINE K == known(x)
             T == rows(x)
             F == [c \in K |-> [child |-> NewChild(r, x[1], c), hours |-> components[c]]]
  <2>2. F \in Surjection(K, T)
    BY DEF Surjection
  <2> HIDE DEF known, rows, K, T, F
  <2>3. IsFiniteSet(K)
    BY <2>1 DEF K
  <2>4. IsFiniteSet(T)
    BY <2>2, <2>3, FS_Surjection
  <2> QED
    BY <2>4 DEF T
<1>8. ASSUME NEW y \in rows(x)
      PROVE  /\ y \in [child : Child, hours : Hours]
             /\ y.child.by = r /\ y.child.path = o /\ y.child.index = x[1]
             /\ components[y.child.component] = y.hours /\ Settled(y.child.component[2])
  <2>1. PICK c \in known(x) : y = [child |-> NewChild(r, x[1], c), hours |-> components[c]]
    OBVIOUS
  <2>2. c \in Component /\ components[c] \in Hours
    BY <1>4, <1>6, <2>1
  <2>3. Settled(c[2])
    BY <2>1, <2>2 DEF StudyInv
  <2>4. NewChild(r, x[1], c) = [path |-> o, index |-> x[1], component |-> c, by |-> r]
    BY <1>1 DEF NewChild
  <2>5. NewChild(r, x[1], c) \in Child
    BY <1>5, <2>2, <2>4 DEF Child
  <2> QED
    BY <2>1, <2>2, <2>3, <2>4, <2>5
<1> DEFINE new == rows(x)
           b == [build[r] EXCEPT !.left = @ \ {x}, !.read = @ \cup new]
<1>9. build' = [build EXCEPT ![r] = b]
  BY <1>3, <1>4 DEF Build
<1>10. IsFiniteSet(new) /\ \A y \in new : y \in [child : Child, hours : Hours]
  BY <1>7, <1>8
<1> HIDE DEF new
<1>11. /\ b \in Build /\ b.path = build[r].path /\ b.outline = build[r].outline
       /\ b.found = build[r].found
       /\ b.left = build[r].left \ {x} /\ b.read = build[r].read \cup new
  BY <1>4, <1>10 DEF Build
<1> HIDE DEF b
<1>12. build'[r] = b
  BY <1>4, <1>9
<1>13. UNCHANGED <<pc, kind, study, components>>
  BY <1>3 DEF control, academicVars, academicTables
<1>14. MaterialOK(r)'
  <2>1. IsFiniteSet(b.read)
    <3>1. IsFiniteSet(build[r].read)
      BY <1>4 DEF MaterialOK
    <3>2. IsFiniteSet(build[r].read \cup new)
      BY <1>10, <3>1, FS_Union
    <3> QED
      BY <1>11, <3>2
  <2>2. ASSUME NEW y \in build[r].read PROVE ReadOK(r, y)'
    BY <1>4, <1>11, <1>12, <1>13, <2>2 DEF MaterialOK, ReadOK, Touched, Settled
  <2>3. ASSUME NEW y \in new PROVE ReadOK(r, y)'
    <3>1. /\ y.child.by = r /\ y.child.path = o /\ y.child.index = x[1]
          /\ components[y.child.component] = y.hours /\ Settled(y.child.component[2])
      BY <1>8, <2>3 DEF new
    <3> QED
      BY <1>1, <1>5, <1>11, <1>12, <1>13, <3>1 DEF ReadOK, Settled, Planned
  <2>4. \A y \in b.left : y[1] \in Planned(b.outline) /\ b.found[y[1]] # None
    BY <1>4, <1>11 DEF MaterialOK
  <2> QED
    BY <1>11, <1>12, <2>1, <2>2, <2>3, <2>4 DEF MaterialOK
<1> HIDE DEF known, rows
<1> QED
  BY <1>2, <1>3, <1>9, <1>11, <1>14, LookupHours

LEMMA AssociateHours ==
  ASSUME ControlOK, EmptyInv, HoursInv, NEW r \in Requests, AssociateModuleChildren(r),
         UNCHANGED academicVars
  PROVE  HoursInv'
<1>1. CASE Refuse(r)
  BY <1>1, RefuseHours DEF AssociateModuleChildren, PathLabels
<1>2. CASE ~Refuse(r)
  <2>1. PICK o \in Makers : build[r].path = o
    BY DEF EmptyInv, PathInv, PathLabels, AssociateModuleChildren
  <2> DEFINE new == {x.child : x \in build[r].read}
             hours == ReadHours(r)
  <2>2. /\ pc[r] = "findModules" /\ paths[o] # None
        /\ \A c \in new : modules[o][c.index] = build[r].found[c.index] /\ components[c.component] # None
        /\ children' = children \cup new
        /\ paths' = [paths EXCEPT ![o].hours = hours]
        /\ Goto(r, "done")
        /\ UNCHANGED <<modules, participants, build>>
    BY <1>2, <2>1 DEF AssociateModuleChildren, NewHours
  <2>3. /\ r \in Handlers /\ Moves(r) /\ kind' = kind /\ pc'[r] = "done"
        /\ \A w \in Requests \ {r} : pc'[w] = pc[w]
    BY <2>2, GotoMoves, RequestFacts DEF Labels, Over, Moves
  <2>4. /\ build \in [Handlers -> Build] /\ build[r] \in Build /\ r # Former
        /\ paths \in [Makers -> Path \cup {None}]
        /\ modules \in [Makers -> [Indexes -> Makers \cup {None}]]
        /\ StageOfBuild(r) /\ MaterialOK(r) /\ PathOK(o)
    BY RequestFacts DEF HoursInv, PathsTypeOK, BuilderOK
  <2>5. Builds(r) /\ Former \notin Writers(o)
    <3>1. CASE kind[r] = "updatePath"
      BY <2>1, <2>2, <2>4, <3>1 DEF StageOfBuild
    <3>2. CASE kind[r] = "createPath"
      <4>1. o = r
        BY <2>1, <2>2, <2>4, <3>2 DEF StageOfBuild, PathLabels
      <4> QED
        BY <2>4, <3>2, <4>1 DEF PathOK, WritersOK, Builds
    <3> QED
      BY <2>2, <2>4, <3>1, <3>2 DEF StageOfBuild, Builds
  <2>6. ASSUME NEW x \in build[r].read
        PROVE  /\ x.child \in new /\ x.child \in Child /\ x.hours \in Nat
               /\ x.child.by = r /\ x.child.path = o
               /\ build[r].found[x.child.index] # None
    <3>1. x \in [child : Child, hours : Hours]
      BY <2>4 DEF Build
    <3> QED
      BY <2>1, <2>4, <3>1, AcademicsAssumption DEF MaterialOK, ReadOK
  <2>7. hours \in Nat
    BY <2>4, <2>6, TotalIsNumber DEF ReadHours, MaterialOK
  <2> HIDE DEF hours
  <2>8. /\ paths' \in [Makers -> Path \cup {None}]
        /\ \A p \in Makers : /\ paths'[p] = None <=> paths[p] = None
                             /\ paths[p] # None => paths'[p].template = paths[p].template
        /\ \A p \in Makers \ {o} : paths'[p] = paths[p]
        /\ paths'[o].hours = hours
    <3>1. PICK row \in Path : paths[o] = row
      BY <2>2, <2>4
    <3>2. [row EXCEPT !.hours = hours] \in Path /\ [row EXCEPT !.hours = hours].template = row.template
          /\ [row EXCEPT !.hours = hours].hours = hours
      BY <2>7 DEF Path
    <3>3. paths' = [paths EXCEPT ![o] = [row EXCEPT !.hours = hours]]
      BY <2>2, <2>4, <3>1
    <3> DEFINE then == [row EXCEPT !.hours = hours]
    <3> HIDE DEF then
    <3>4. then \in Path /\ then # None /\ then.template = row.template /\ then.hours = hours
          /\ paths' = [paths EXCEPT ![o] = then]
      BY <3>2, <3>3, PathsAssumption DEF then
    <3>5. paths'[o] = then /\ \A p \in Makers \ {o} : paths'[p] = paths[p]
      BY <2>4, <3>4
    <3>6. paths' \in [Makers -> Path \cup {None}]
      BY <2>4, <3>4
    <3>7. \A p \in Makers : paths'[p] = None <=> paths[p] = None
      BY <2>2, <3>4, <3>5
    <3>8. ASSUME NEW p \in Makers PROVE paths'[p].template = paths[p].template
      <4>1. CASE p = o
        BY <3>1, <3>4, <3>5, <4>1, Zenon
      <4>2. CASE p # o
        BY <3>5, <4>2
      <4> QED
        BY <4>1, <4>2
    <3> QED
      BY <3>4, <3>5, <3>6, <3>7, <3>8
  <2>9. ASSUME NEW c \in new
        PROVE  /\ c \in Child /\ c.path = o /\ c.by = r /\ build[r].found[c.index] # None
               /\ \E x \in build[r].read : x.child = c
    BY <2>6
  <2>10. components' = components /\ \A c : Touched(c) => Touched(c)'
    BY <2>2, <2>3, SameAcademics
  <2>11. Carries(r)
    <3>1. \A q \in Requests \ {r} : paths'[q] # None => paths[q] # None
      BY <2>8, RequestFacts
    <3> QED
      BY <2>2, <2>3, <3>1, PathCarries DEF Writers
  <2>12. PathsTypeOK'
    <3>1. children' \subseteq Child
      BY <2>2, <2>9 DEF HoursInv, PathsTypeOK
    <3>2. \A c \in children' : modules'[c.path][c.index] # None /\ components'[c.component] # None
      BY <2>2, <2>9, <2>10 DEF HoursInv, PathsTypeOK
    <3>3. \A s \in participants : paths'[s.path] # None
      BY <2>8 DEF HoursInv, PathsTypeOK, Participant
    <3>4. \A p, q \in {x \in Makers : paths'[x] # None} :
            paths'[p].template /\ paths'[q].template => p = q
      BY <2>8 DEF HoursInv, PathsTypeOK
    <3>5. \A p \in Makers : paths'[p] = None => \A i \in Indexes : modules'[p][i] = None
      BY <2>2, <2>8 DEF HoursInv, PathsTypeOK
    <3> QED
      BY <2>2, <2>4, <2>8, <3>1, <3>2, <3>3, <3>4, <3>5 DEF HoursInv, PathsTypeOK
  <2>13. BuilderOK(r)'
    <3>1. StageOfBuild(r)'
      BY <2>2, <2>3, <2>4, <2>5 DEF StageOfBuild, PathLabels, Over
    <3> QED
      BY <2>2, <2>3, <2>11, <3>1, MaterialStays DEF BuilderOK
  <2>14. ASSUME NEW p \in Makers, p # o PROVE Leaves(r, p)
    <3>1. r \notin Writers(p)
      BY <2>1, <2>14 DEF HoursInv, PathOK, WritersOK
    <3>2. \A c \in children' : c.path = p => c \in children
      BY <2>2, <2>9, <2>14
    <3> QED
      BY <2>1, <2>2, <2>8, <2>14, <3>1, <3>2 DEF Leaves
  <2>15. PathOK(o)'
    <3>1. Writers(o)' = Writers(o)
      BY <2>2 DEF Writers
    <3>2. WritersOK(o)'
      BY <2>1, <2>2, <2>3, <2>4, <2>5, <3>1 DEF PathOK, WritersOK, Builds, Over
    <3>3. HoursOK(o)'
      <4> SUFFICES ASSUME NEW w \in Requests, Writers(o) = {w}, pc'[w] = "done",
                          \A q \in Requests : build'[q].path = o /\ Builds(q)' /\ pc'[q] = "done" =>
                            Own(q)' /\ build'[q].read # {}
                   PROVE  paths'[o].hours = ReadHours(w)'
        BY <3>1 DEF HoursOK
      <4>1. Own(r) /\ build[r].read # {}
        BY <2>1, <2>2, <2>3, <2>5 DEF Own, Builds
      <4>2. PICK x \in build[r].read : TRUE
        BY <4>1
      <4>3. /\ x.child \in new /\ x.child.index \in Indexes /\ build[r].found[x.child.index] # None
            /\ modules[o][x.child.index] = build[r].found[x.child.index]
        BY <2>2, <2>6 DEF Child
      <4>4. r \in Writers(o)
        BY <4>1, <4>3 DEF Own, Writers
      <4>5. w = r
        BY <4>4
      <4> QED
        BY <2>2, <2>8, <4>5 DEF ReadHours, hours
    <3>4. ASSUME NEW c \in children', c.path = o PROVE ChildOK(c)'
      <4>1. CASE c \in children
        <5>1. ChildOK(c) /\ c.by # r
          BY <2>2, <2>4, <3>4, <4>1 DEF PathOK, ChildOK
        <5> QED
          BY <2>2, <2>3, <5>1 DEF ChildOK, Builds
      <4>2. CASE c \in new
        BY <2>1, <2>2, <2>3, <2>5, <2>9, <4>2 DEF ChildOK, Builds
      <4> QED
        BY <2>2, <3>4, <4>1, <4>2
    <3>5. ASSUME NEW w \in Requests, build[w].path = o PROVE AttachedOK(w)'
      <4>1. CASE w = r
        BY <2>2, <2>6, <4>1 DEF AttachedOK
      <4>2. CASE w # r
        <5>1. AttachedOK(w) /\ pc'[w] = pc[w]
          BY <2>3, <2>4, <3>5, <4>2 DEF PathOK
        <5> QED
          BY <2>2, <2>3, <2>10, <5>1 DEF AttachedOK, Builds, Own, Writers
      <4> QED
        BY <4>1, <4>2
    <3> QED
      BY <2>2, <3>2, <3>3, <3>4, <3>5 DEF PathOK
  <2>16. FoundOK(r)'
    BY HandlersAssumption DEF FoundOK
  <2> QED
    BY <2>3, <2>11, <2>12, <2>13, <2>14, <2>15, <2>16, HoursStepOf
<1> QED
  BY <1>1, <1>2

LEMMA DeleteRowHours ==
  ASSUME ControlOK, EmptyInv, HoursInv, NEW r \in Requests, DeleteRow(r), UNCHANGED academicVars
  PROVE  HoursInv'
<1>1. CASE Refuse(r)
  BY <1>1, RefuseHours DEF DeleteRow, PathLabels
<1>2. CASE ~Refuse(r)
  <2>1. PICK o \in Makers : build[r].path = o
    BY DEF EmptyInv, PathInv, PathLabels, DeleteRow
  <2>2. /\ pc[r] = "deletePath" /\ paths' = [paths EXCEPT ![o] = None]
        /\ modules' = [modules EXCEPT ![o] = NoModules]
        /\ children' = {c \in children : c.path # o}
        /\ participants' = {s \in participants : s.path # o}
        /\ Goto(r, "done") /\ build' = build
    BY <1>2, <2>1 DEF DeleteRow, Remaining
  <2>3. r \in Handlers /\ Moves(r) /\ kind' = kind /\ pc'[r] = "done"
    BY <2>2, GotoMoves, RequestFacts DEF Labels, Over
  <2>4. /\ paths \in [Makers -> Path \cup {None}]
        /\ modules \in [Makers -> [Indexes -> Makers \cup {None}]]
        /\ StageOfBuild(r)
    BY DEF HoursInv, PathsTypeOK, BuilderOK
  <2>5. /\ paths' \in [Makers -> Path \cup {None}]
        /\ paths'[o] = None /\ \A p \in Makers \ {o} : paths'[p] = paths[p]
        /\ modules' \in [Makers -> [Indexes -> Makers \cup {None}]]
        /\ modules'[o] = NoModules /\ \A p \in Makers \ {o} : modules'[p] = modules[p]
    BY <2>2, <2>4 DEF NoModules
  <2>6. ~Builds(r)
    BY <2>2, <2>4 DEF StageOfBuild, Over
  <2>7. Carries(r)
    <3>1. \A q \in Requests \ {r} : paths'[q] # None => paths[q] # None
      BY <2>5, RequestFacts
    <3>2. \A p \in Makers : Former \in Writers(p)' => Former \in Writers(p)
      BY <2>5, HandlersAssumption DEF Writers, NoModules
    <3> QED
      BY <2>2, <2>3, <3>1, <3>2, PathCarries
  <2>8. PathsTypeOK'
    <3>1. components' = components
      BY DEF academicVars, academicTables
    <3>2. \A p \in Makers : paths'[p] = None => \A i \in Indexes : modules'[p][i] = None
      BY <2>5 DEF HoursInv, PathsTypeOK, NoModules
    <3>3. \A c \in children' : modules'[c.path][c.index] # None /\ components'[c.component] # None
      BY <2>2, <2>5, <3>1 DEF HoursInv, PathsTypeOK, Child
    <3>4. \A s \in participants' : paths'[s.path] # None
      BY <2>2, <2>5 DEF HoursInv, PathsTypeOK, Participant
    <3>5. \A p, q \in {x \in Makers : paths'[x] # None} :
            paths'[p].template /\ paths'[q].template => p = q
      BY <2>5 DEF HoursInv, PathsTypeOK
    <3> QED
      BY <2>2, <2>5, <3>1, <3>2, <3>3, <3>4, <3>5 DEF HoursInv, PathsTypeOK
  <2>9. BuilderOK(r)'
    <3>1. StageOfBuild(r)'
      BY <2>2, <2>3, <2>4, <2>6 DEF StageOfBuild, Builds, PathLabels, Over
    <3> QED
      BY <2>2, <2>3, <2>7, <3>1, MaterialStays DEF BuilderOK
  <2>10. ASSUME NEW p \in Makers PROVE Leaves(r, p) \/ PathOK(p)'
    <3>1. CASE p = o
      BY <2>2, <2>5, <3>1, EmptiedPath
    <3>2. CASE p # o
      <4>1. r \notin Writers(p)
        BY <2>6 DEF HoursInv, PathOK, WritersOK
      <4> QED
        BY <2>2, <2>3, <2>5, <2>6, <3>2, <4>1 DEF Leaves, Builds
    <3> QED
      BY <3>1, <3>2
  <2>11. FoundOK(r)'
    BY HandlersAssumption DEF FoundOK
  <2> QED
    BY <2>3, <2>7, <2>8, <2>9, <2>10, <2>11, HoursStepOf
<1> QED
  BY <1>1, <1>2

LEMMA PathsHours ==
  ASSUME ControlOK, EmptyInv, StudyInv, HoursInv, NEW r \in Requests, PathsStep(r),
         UNCHANGED academicVars
  PROVE  HoursInv'
BY BeginsHours, DeleteModulesHours, CheckTemplateHours, CreateRowHours, UpdateRowHours,
   FindModuleHours, CheckChildrenHours, AssociateHours, DeleteRowHours
   DEF PathsStep

(* An emission that writes abilities has no learning path in hand.         *)
LEMMA AbilitiesLabels ==
  ASSUME ControlOK, NEW e \in Emissions, AbilitiesStep(e)
  PROVE  pc'[e] # "completePath"
<1>1. \A l : pc' = [pc EXCEPT ![e] = l] => pc'[e] = l
  BY DEF ControlOK, Handlers
<1>2. CASE GetReceptor(e)
  BY <1>1, <1>2 DEF GetReceptor, Start
<1>3. CASE InsertCertificate(e)
  BY <1>1, <1>3 DEF InsertCertificate, Goto
<1>4. CASE ReadUserAbilities(e)
  BY <1>1, <1>4 DEF ReadUserAbilities, Goto, After
<1>5. CASE UpdateAbilitiesOnProfile(e)
  BY <1>1, <1>5 DEF UpdateAbilitiesOnProfile, Abandon, Goto, After
<1> QED
  BY <1>2, <1>3, <1>4, <1>5 DEF AbilitiesStep

LEMMA HoursStep ==
  ASSUME ControlOK, EmptyInv, StudyInv, HoursInv, StudyInv', [Next]_vars
  PROVE  HoursInv'
<1>1. CASE UNCHANGED vars
  <2>1. UNCHANGED <<pc, kind, components, study, paths, modules, children, participants, build>>
    BY <1>1 DEF vars, control, academicVars, academicTables, pathVars, pathTables
  <2>2. PathsTypeOK'
    BY <2>1 DEF HoursInv, PathsTypeOK
  <2>3. \A a \in Handlers : FoundOK(a)'
    BY <2>1 DEF HoursInv, FoundOK
  <2>4. ASSUME NEW r \in Requests PROVE BuilderOK(r)'
    <3>1. StageOfBuild(r) /\ MaterialOK(r)
      BY DEF HoursInv, BuilderOK
    <3>2. StageOfBuild(r)'
      BY <2>1, <3>1 DEF StageOfBuild, Builds, Writers
    <3>3. MaterialOK(r)'
      BY <2>1, <3>1 DEF MaterialOK, ReadOK, Settled, Touched
    <3> QED
      BY <3>2, <3>3 DEF BuilderOK
  <2>5. ASSUME NEW p \in Makers PROVE PathOK(p)'
    <3>1. PathOK(p)
      BY DEF HoursInv
    <3>2. WritersOK(p)'
      BY <2>1, <3>1 DEF PathOK, WritersOK, Writers, Behind, Builds
    <3>3. HoursOK(p)'
      BY <2>1, <3>1 DEF PathOK, HoursOK, Writers, Builds, Own, ReadHours
    <3>4. \A c \in children' : c.path = p => ChildOK(c)'
      BY <2>1, <3>1 DEF PathOK, ChildOK, Builds
    <3>5. \A w \in Requests : build'[w].path = p => AttachedOK(w)'
      BY <2>1, <3>1 DEF PathOK, AttachedOK, Builds, Own, Writers, Touched
    <3> QED
      BY <3>2, <3>3, <3>4, <3>5 DEF PathOK
  <2> QED
    BY <2>2, <2>3, <2>4, <2>5 DEF HoursInv
<1>2. ASSUME NEW a \in Handlers, NEW L, NEW K, Stays(a, L, K), UNCHANGED <<academicVars, pathVars>>,
             L \cap (PathLabels \cup Over \cup {"idle", "editRow", "removeComponent"}) = {},
             a \in Emissions => pc'[a] # "completePath",
             K \cap {"createPath", "updatePath"} = {}
      PROVE  HoursInv'
  <2>1. /\ Moves(a) /\ pc[a] \notin Over /\ pc[a] # "findModules" /\ pc'[a] \notin PathLabels
        /\ pc'[a] \notin {"editRow", "removeComponent"}
    BY <1>2, Sides DEF Stays, Over, PathLabels
  <2>2. a \in Requests => ~Builds(a)'
    <3> SUFFICES ASSUME a \in Requests PROVE ~Builds(a)'
      OBVIOUS
    <3>1. CASE pc[a] = "idle"
      BY <1>2, <3>1 DEF Stays, Builds
    <3>2. CASE pc[a] # "idle"
      <4>1. pc[a] \notin PathLabels \cup Over /\ kind'[a] = kind[a]
        BY <1>2, <3>2 DEF Stays, Moves
      <4> QED
        BY <3>2, <4>1 DEF HoursInv, BuilderOK, StageOfBuild, Builds
    <3> QED
      BY <3>1, <3>2
  <2> QED
    BY <1>2, <2>1, <2>2, QuietHours
<1>3. ASSUME NEW r \in Requests, OtherStep(r), UNCHANGED <<academicVars, pathVars>> PROVE HoursInv'
  <2>1. PICK L \in {ResumeLabels, PlanLabels}, K \in {ResumeKinds, PlanKinds} : Stays(r, L, K)
    BY <1>3, ResumesMove, PlansMove DEF OtherStep
  <2>2. /\ L \cap (PathLabels \cup Over \cup {"idle", "editRow", "removeComponent"}) = {}
        /\ K \cap {"createPath", "updatePath"} = {}
    BY Sides DEF ResumeLabels, PlanLabels, ResumeKinds, PlanKinds
  <2> QED
    BY <1>2, <1>3, <2>1, <2>2, RequestFacts, HandlersAssumption
<1>c. /\ CareerLabels \cap (PathLabels \cup Over \cup {"idle", "editRow", "removeComponent"}) = {}
      /\ CareerKinds \cap {"createPath", "updatePath"} = {}
  BY Sides DEF CareerLabels, CareerKinds
<1>4. ASSUME NEW r \in Requests, CareersStep(r), UNCHANGED <<academicVars, pathVars>> PROVE HoursInv'
  <2>1. r \in Handlers /\ Stays(r, CareerLabels, CareerKinds)
    BY <1>4, CareersMove, RequestFacts
  <2> QED
    BY <1>2, <1>4, <1>c, <2>1, RequestFacts, HandlersAssumption
<1>5. ASSUME NEW e \in Emissions, AbilitiesStep(e), UNCHANGED <<academicVars, pathVars>> PROVE HoursInv'
  <2>1. e \in Handlers /\ Stays(e, CareerLabels, CareerKinds)
    BY <1>5, EmissionsMove DEF Handlers
  <2>2. pc'[e] # "completePath"
    BY <1>5, AbilitiesLabels
  <2> QED
    BY <1>2, <1>5, <1>c, <2>1, <2>2
<1>6. ASSUME NEW a \in Handlers, Fail(a) PROVE HoursInv'
  <2>1. Moves(a) /\ pc'[a] = "failed" /\ pc[a] \notin Over \cup {"idle"}
    BY <1>6, FailMoves
  <2>2. "failed" \notin PathLabels
    BY Sides
  <2> QED
    BY <1>6, <2>1, <2>2, QuietHours DEF Fail
<1>7. CASE Next
  BY <1>3, <1>4, <1>5, <1>6, <1>7, StudiesHours, PathsHours, EmissionHours DEF Next
<1> QED
  BY <1>1, <1>7

(* Every run of any number of requests and emissions keeps                 *)
(* HoursMatchHasCause: a learning path has the hours of what is behind its *)
(* modules, unless a build of it was cut off or refused, attached nothing  *)
(* or met modules of another, something behind them was edited or deleted, *)
(* or two builds that overtook each other left modules of both             *)
(* (path.service.ts associateModuleChildren, paths.controller.ts:98,153).  *)
THEOREM HoursExplained == Spec => []HoursMatchHasCause
<1>1. Init => ControlOK /\ EmptyInv /\ StudyInv /\ HoursInv
  BY EmptyInit, StudyInit, HoursInit
<1>2. /\ ControlOK /\ EmptyInv /\ StudyInv /\ HoursInv
      /\ [Next]_vars
      => (ControlOK /\ EmptyInv /\ StudyInv /\ HoursInv)'
  BY ControlStep, EmptyStep, StudyStep, HoursStep
<1>3. EmptyInv /\ HoursInv => HoursMatchHasCause
  BY HoursProperty
<1> QED
  BY <1>1, <1>2, <1>3, PTL DEF Spec

-----------------------------------------------------------------------------
(* The types of all tables.                                                *)

(* A student is on a path by an emission that came in.                     *)
SeatsInv == \A s \in participants : pc[s.by] # "idle"

(* A handler that has started does not become idle.                        *)
LEMMA NeverIdle ==
  ASSUME ControlOK, NEW a \in Handlers, Moves(a), pc'[a] # "idle"
  PROVE  \A b \in Handlers : pc[b] # "idle" => pc'[b] # "idle"
BY DEF Moves

LEMMA SeatsStep ==
  ASSUME ControlOK, EmptyInv, HoursInv, SeatsInv, [Next]_vars
  PROVE  SeatsInv'
<1>0. /\ "idle" \notin PathLabels \cup StudyLabels \cup ResumeLabels \cup PlanLabels \cup CareerLabels \cup Over
      /\ \A s \in participants : s.by \in Handlers
  BY DEF PathLabels, StudyLabels, ResumeLabels, PlanLabels, CareerLabels, Over,
         HoursInv, PathsTypeOK, Participant, Handlers
<1>a. ASSUME NEW a \in Handlers, Moves(a), pc'[a] # "idle", participants' \subseteq participants
      PROVE  SeatsInv'
  BY <1>0, <1>a, NeverIdle DEF SeatsInv
<1>1. CASE UNCHANGED vars
  BY <1>1 DEF vars, control, pathVars, pathTables, SeatsInv
<1>2. ASSUME NEW r \in Requests, StudiesStep(r) PROVE SeatsInv'
  BY <1>0, <1>2, <1>a, StudiesMove, RequestFacts DEF Stays, StudiesStep
<1>3. ASSUME NEW r \in Requests, PathsStep(r) PROVE SeatsInv'
  <2>1. participants' \subseteq participants
    BY <1>3 DEF PathsStep, CreateLearningPath, UpdateLearningPath, DeleteLearningPath, Begin,
                DeleteLearningPathModules, CheckTemplateById, CreateRow, UpdateRow, FindModule,
                CheckChildren, AssociateModuleChildren, DeleteRow, Remaining, Refuse,
                pathVars, pathTables
  <2> QED
    BY <1>0, <1>3, <1>a, <2>1, PathsMove, RequestFacts DEF Stays
<1>4. ASSUME NEW r \in Requests, CareersStep(r) \/ OtherStep(r), UNCHANGED pathVars PROVE SeatsInv'
  <2>1. participants' = participants
    BY <1>4 DEF pathVars, pathTables
  <2>2. Moves(r) /\ pc'[r] # "idle"
    BY <1>0, <1>4, CareersMove, ResumesMove, PlansMove DEF Stays, OtherStep
  <2> QED
    BY <1>a, <2>1, <2>2, RequestFacts
<1>5. ASSUME NEW e \in Emissions, EmissionStep(e) \/ (AbilitiesStep(e) /\ UNCHANGED pathVars)
      PROVE  SeatsInv'
  <2>1. e \in Handlers /\ Moves(e) /\ pc'[e] # "idle"
    BY <1>0, <1>5, EmissionsMove DEF Stays, Handlers
  <2>2. participants' = participants
          \/ \E p : participants' = participants \cup {[path |-> p, by |-> e]}
    BY <1>5 DEF EmissionStep, FindPaths, AssociatePfOnEmission, Refuse, pathVars, pathTables
  <2> QED
    BY <1>0, <2>1, <2>2, NeverIdle DEF SeatsInv
<1>6. ASSUME NEW a \in Handlers, Fail(a) PROVE SeatsInv'
  <2>1. participants' = participants
    BY <1>6 DEF Fail, pathVars, pathTables
  <2> QED
    BY <1>6, <1>a, <2>1, FailMoves
<1>7. CASE Next
  BY <1>2, <1>3, <1>4, <1>5, <1>6, <1>7 DEF Next
<1> QED
  BY <1>1, <1>7

(* Every run keeps TypeOK: rows have their fields and refer to rows that   *)
(* are there (a module and what is attached to it, a path and who takes    *)
(* part, a resume and the PDF it names, a plan and its abilities), and     *)
(* only an emission that came in puts a student on a path, only one past   *)
(* its insert gives abilities.                                             *)
THEOREM GrowthTypes == Spec => []TypeOK
<1> DEFINE Whole == /\ ControlOK /\ EmptyInv /\ StudyInv /\ HoursInv
                    /\ CareersInv /\ ResumeInv /\ PlanInv /\ SeatsInv
<1>1. Init => Whole
  <2>1. Init => SeatsInv
    BY DEF Init, PathsInit, SeatsInv
  <2> QED
    BY <2>1, EmptyInit, StudyInit, HoursInit, CareersInitInv, ResumeInit, PlanInit
<1>2. Whole /\ [Next]_vars => Whole'
  BY ControlStep, EmptyStep, StudyStep, HoursStep, CareersInvStep, ResumeStep, PlanStep, SeatsStep
<1>3. Whole => TypeOK
  <2> SUFFICES ASSUME Whole PROVE TypeOK
    OBVIOUS
  <2>1. AcademicsTypeOK /\ PathsTypeOK /\ CareersTypeOK /\ ResumesTypeOK
    BY DEF StudyInv, HoursInv, CareersInv, ReadInv, ResumeInv
  <2>2. PlansTypeOK
    BY DEF PlanInv, RowsOK
  <2>3. granted \subseteq {e \in Emissions : pc[e] \notin {"idle", "insert"}}
    BY <2>1 DEF CareersTypeOK, CareersInv, GrantInv
  <2> QED
    BY <2>1, <2>2, <2>3 DEF TypeOK, SeatsInv
<1> HIDE DEF Whole
<1> QED
  BY <1>1, <1>2, <1>3, PTL DEF Spec
=============================================================================
