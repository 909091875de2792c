------------------------------ MODULE MCGrowth ------------------------------
(* A small instance of Growth for TLC: three requests and two emissions, in *)
(* mixes of one or two of the parts.                                       *)
EXTENDS Growth, TLC

CONSTANTS r1, r2, r3, e1, e2

Mix(a, b, c, emitting) == r1 :> a @@ r2 :> b @@ r3 :> c
                          @@ [e \in Emissions |-> IF e \in emitting THEN {"emission"} ELSE {}]

MCMixes == {
  Mix({"createPath", "updatePath"}, {"updatePath", "deletePath"}, {}, {}),
  Mix({"createPath", "updatePath"}, {"deletePath"}, {}, {e1}),
  Mix({"createPath", "updatePath"}, {"editSubject", "deleteComponent"}, {"deleteComponent"}, {}),
  Mix({"updatePath"}, {"updatePath"}, {"deleteComponent"}, {}),
  Mix({"addSubject", "addToHolder"}, {"addSubject", "createSemester", "removeSubject"},
      {"removeInternship", "deleteComponent"}, {}),
  Mix({"createInternship", "createCurriculum"}, {"createInternship", "createSubject"}, {"deleteComponent"}, {}),
  Mix({"createCurriculum", "createInternship"}, {"deleteCurriculum", "createSemester"}, {"deleteSemester"}, {}),
  Mix({"createProfile"}, {}, {}, {e1, e2}),
  Mix({"createProfile", "updateProfile"}, {"deleteProfile"}, {}, {e1}),
  Mix({"createProfile"}, {"createProfile"}, {}, {e1}),
  Mix({"createProfile"}, {"createProfile"}, {"deleteProfile"}, {}),
  Mix({"createResume"}, {"updateResume", "deleteResume"}, {"createPdf"}, {}),
  Mix({"updateResume"}, {"createPdf"}, {"createPdf", "deleteResume"}, {}),
  Mix({"createPDI"}, {"createPDI"}, {"approve"}, {}),
  Mix({"createPDI"}, {"suggest", "createAbility"}, {"approve", "reject", "deleteAbility", "deletePDI"}, {}),
  Mix({"createProfile"}, {"createJob", "editJob"}, {}, {}),
  Mix({"createJob", "updateProfile"}, {"editJob", "deleteJob"}, {"updateProfile", "deleteProfile"}, {})}

MCOutlines == {1 :> {<<"subject", Former, 1>>} @@ 2 :> None,
               1 :> None @@ 2 :> {<<"internship", Former, 1>>},
               1 :> Sorts \X {Former} \X {1} @@ 2 :> {},
               1 :> None @@ 2 :> None}

(* One subject at most, and two internships at most, equal or not.         *)
Syllabus(s, i, j) == [x \in Sorts \X Places |-> IF x = <<"subject", 1>> THEN s
                                                ELSE IF x = <<"internship", 1>> THEN i
                                                ELSE IF x = <<"internship", 2>> THEN j ELSE None]

MCSyllabi == {Syllabus(s, i, None) : s, i \in Hours \cup {None}}
             \cup {Syllabus(1, 1, 1), Syllabus(None, 2, 2), Syllabus(2, 1, 2)}

MCRoadmaps == {<<[skills |-> {"s"}, book |-> "b"]>>,
               <<[skills |-> {"s"}, book |-> "b"], [skills |-> {"s", "t"}, book |-> "c"]>>}
=============================================================================
