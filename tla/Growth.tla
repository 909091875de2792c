------------------------------- MODULE Growth -------------------------------
(***************************************************************************)
(* Learning paths and professional profiles, and the emissions that write   *)
(* to both: an emission looks the student up, completes the path of its     *)
(* template, inserts the certificate and rewrites the abilities of the      *)
(* profile, while an institution rebuilds its paths and edits what is       *)
(* behind their modules, a company searches candidates and the candidate    *)
(* edits his profile, his resumes and his development plans.               *)
(***************************************************************************)
EXTENDS LearningPaths, Careers, Resumes, DevelopmentPlans

vars == <<control, academicVars, pathVars, careerVars, resumeVars, planVars>>

TypeOK == /\ AcademicsTypeOK /\ PathsTypeOK /\ CareersTypeOK /\ ResumesTypeOK /\ PlansTypeOK
          /\ \A s \in participants : pc[s.by] # "idle"
          /\ granted \subseteq {e \in Emissions : pc[e] \notin {"idle", "insert"}}

Init == ControlInit /\ AcademicsInit /\ PathsInit /\ CareersInit /\ ResumesInit /\ PlansInit

(* Database, service or server fail between any two steps of a handler; a   *)
(* profile or a job whose service fails is taken back (Abandon, Search).   *)
Fail(a) == /\ pc[a] \notin {"idle"} \cup Over
           /\ Goto(a, "failed")
           /\ UNCHANGED <<academicVars, pathVars, careerVars, resumeVars, planVars>>

(* What paths and profiles, and the emissions that write to them, are apart *)
(* from.                                                                   *)
otherVars == <<resumeVars, planVars>>

OtherStep(r) == \/ ResumesStep(r) /\ UNCHANGED planVars
                \/ PlansStep(r) /\ UNCHANGED resumeVars

(* What is deleted goes from behind the modules too.                       *)
StudiesStep(r) ==
  /\ AcademicsStep(r)
  /\ children' = {c \in children : components'[c.component] # None}
  /\ UNCHANGED <<paths, modules, participants, build>>

Next == \/ \E r \in Requests : StudiesStep(r) /\ UNCHANGED <<careerVars, otherVars>>
        \/ \E r \in Requests : PathsStep(r) /\ UNCHANGED <<academicVars, careerVars, otherVars>>
        \/ \E r \in Requests : CareersStep(r) /\ UNCHANGED <<academicVars, pathVars, otherVars>>
        \/ \E r \in Requests : OtherStep(r) /\ UNCHANGED <<academicVars, pathVars, careerVars>>
        \/ \E e \in Emissions : EmissionStep(e) /\ UNCHANGED <<academicVars, careerVars, otherVars>>
        \/ \E e \in Emissions : AbilitiesStep(e) /\ UNCHANGED <<academicVars, pathVars, otherVars>>
        \/ \E a \in Handlers : Fail(a)

Spec == Init /\ [][Next]_vars
=============================================================================
