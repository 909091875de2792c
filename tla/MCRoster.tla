------------------------------ MODULE MCRoster ------------------------------
(* A small instance of Roster for TLC: three requests, a student with a     *)
(* profile and one without.                                                *)
EXTENDS Roster

CONSTANTS r1, r2, r3, pupil, raw

MCKindsOf == [r \in Requests |->
  CASE r = r1 -> {"associateAdmin", "createSchool", "createCourse", "deleteSchool"}
    [] r = r2 -> {"deleteAdmin", "enableAdmin", "createCourseAPI", "createSchoolAPI",
                  "associate", "enrol", "editCourse"}
    [] r = r3 -> {"deleteAdmin", "deleteCourse", "deleteCourseAPI", "createSchool",
                  "associate", "disassociate", "unenrol"}]
=============================================================================
