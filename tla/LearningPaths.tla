---------------------------- MODULE LearningPaths ----------------------------
(***************************************************************************)
(* Learning paths of an institution: rows, their numbered modules with the *)
(* subjects and internships behind them, and the students an emission of   *)
(* their template completes.  A path is built in several statements: an    *)
(* update deletes the modules first, validates the template, writes the    *)
(* new modules, looks each of them up by its number and its children by    *)
(* their ids, and attaches children and total hours in one transaction.    *)
(***************************************************************************)
EXTENDS AcademicStructure, FiniteSetsExt

CONSTANTS Indexes,      \* numbers of modules
          Outlines      \* bodies: what is asked behind a module, or None

VARIABLES paths,        \* LearningPaths rows
          modules,      \* LearningPathsModules rows: by path and number, who wrote them
          children,     \* LearningPathsSubject and LearningPathsInternships rows
          participants, \* LearningPathsStudents rows
          build         \* what a handler has read of them

pathTables == <<paths, modules, children, participants>>
pathVars == <<pathTables, build>>

Path == [template : BOOLEAN,    \* it has the template's id, which is unique
         hours : Nat]           \* totalHoursWorkload

Child == [path : Makers, index : Indexes, component : Component, by : Requests]

ASSUME PathsAssumption ==
         /\ Outlines \subseteq [Indexes -> (SUBSET Component) \cup {None}]
         /\ Indexes # {}
         /\ \A o \in Outlines, i \in Indexes : o[i] # None => IsFiniteSet(o[i])
         /\ None \notin Outlines \cup Path

Participant == [path : Makers, by : Emissions]

Build == [path : Makers \cup {None},
          outline : Outlines \cup {None},
          template : {"none", "valid", "invalid"},
          found : [Indexes -> Makers \cup {None}],
          left : SUBSET (Indexes \X Sorts),     \* children to look up, of modules found
          read : SUBSET [child : Child, hours : Hours]]     \* what it is to attach

PathsTypeOK ==
  /\ paths \in [Makers -> Path \cup {None}]
  /\ modules \in [Makers -> [Indexes -> Makers \cup {None}]]
  /\ children \subseteq Child
  /\ participants \subseteq Participant
  /\ build \in [Handlers -> Build]
  /\ \A p \in Makers : paths[p] = None => \A i \in Indexes : modules[p][i] = None
  /\ \A c \in children : modules[c.path][c.index] # None /\ components[c.component] # None
  /\ \A s \in participants : paths[s.path] # None
  /\ \A p, q \in {x \in Makers : paths[x] # None} :
       paths[p].template /\ paths[q].template => p = q

-----------------------------------------------------------------------------
Refuse(r) == Goto(r, "refused") /\ UNCHANGED pathVars

NoBuild == [path |-> None, outline |-> None, template |-> "none",
            found |-> [i \in Indexes |-> None], left |-> {}, read |-> {}]

NoModules == [i \in Indexes |-> None]

Planned(o) == {i \in Indexes : o[i] # None}

Total(S) == MapThenSumSet(LAMBDA x : x.hours, S)

Behind(p) == {c \in children : c.path = p}

HoursOf(p) == Total({[child |-> c, hours |-> components[c.component]] : c \in Behind(p)})

(* Connecting the template takes it from the path it belongs to.           *)
Connected(f, p, valid) ==
  [q \in Makers |-> IF f[q] = None \/ ~valid THEN f[q] ELSE [f[q] EXCEPT !.template = (q = p)]]

Existing == {p \in Makers : paths[p] # None}

Body(p, o, t) == [NoBuild EXCEPT !.path = p, !.outline = o, !.template = t]

Bodies(P, T) == {Body(p, o, t) : p \in P, o \in Outlines, t \in T}

Begin(r, k, l, bodies) ==
  /\ Start(r, k, l)
  /\ \E b \in bodies : build' = [build EXCEPT ![r] = b]
  /\ UNCHANGED pathTables

CreateLearningPath(r) ==
  \/ Begin(r, "createPath", "writePath", Bodies({r}, {"none"}))
  \/ Begin(r, "createPath", "checkTemplate", Bodies({r}, {"valid", "invalid"}))

UpdateLearningPath(r) ==
  Begin(r, "updatePath", "deleteModules", Bodies(Existing, {"none", "valid", "invalid"}))

DeleteLearningPath(r) ==
  Begin(r, "deletePath", "deletePath", {[NoBuild EXCEPT !.path = p] : p \in Existing})

(* Children go with their modules.                                         *)
DeleteLearningPathModules(r) ==
  /\ pc[r] = "deleteModules"
  /\ modules' = [modules EXCEPT ![build[r].path] = NoModules]
  /\ children' = {c \in children : c.path # build[r].path}
  /\ Goto(r, IF build[r].template = "none" THEN "writePath" ELSE "checkTemplate")
  /\ UNCHANGED <<paths, participants, build>>

CheckTemplateById(r) ==
  /\ pc[r] = "checkTemplate"
  /\ IF build[r].template = "invalid" THEN Refuse(r)
     ELSE Goto(r, "writePath") /\ UNCHANGED pathVars

(* One transaction with the rows of the modules, which are still empty.    *)
Blank(r) == [i \in Indexes |-> IF build[r].outline[i] = None THEN None ELSE r]

CreateRow(r) ==
  /\ pc[r] = "writePath" /\ kind[r] = "createPath"
  /\ LET row == [template |-> FALSE, hours |-> 0]
     IN  paths' = Connected([paths EXCEPT ![r] = row], r, build[r].template = "valid")
  /\ modules' = [modules EXCEPT ![r] = Blank(r)]
  /\ Goto(r, "findModules")
  /\ UNCHANGED <<children, participants, build>>

(* Mutant: the new modules are left out of the update.                     *)
UpdateRowOnly(r) ==
  /\ pc[r] = "writePath" /\ kind[r] = "updatePath"
  /\ LET p == build[r].path
     IN  IF paths[p] = None THEN Refuse(r)
         ELSE Goto(r, "findModules") /\ UNCHANGED pathVars

(* A path has one module of a number.                                      *)
UpdateRow(r) ==
  /\ pc[r] = "writePath" /\ kind[r] = "updatePath"
  /\ LET p == build[r].path
     IN  IF \/ paths[p] = None
            \/ \E i \in Planned(build[r].outline) : modules[p][i] # None
         THEN Refuse(r)
         ELSE /\ paths' = Connected(paths, p, build[r].template = "valid")
              /\ modules' = [modules EXCEPT ![p] =
                               [i \in Indexes |-> IF Blank(r)[i] = None THEN modules[p][i]
                                                  ELSE Blank(r)[i]]]
              /\ Goto(r, "findModules")
              /\ UNCHANGED <<children, participants, build>>

(* The lookups of the modules run side by side; any row of the number will *)
(* do.  Those of the children of one run one after the other.              *)
FindModule(r) ==
  /\ pc[r] = "findModules"
  /\ \E i \in {j \in Planned(build[r].outline) : build[r].found[j] = None} :
       LET row == modules[build[r].path][i]
       IN  IF row = None THEN Refuse(r)
           ELSE /\ build' = [build EXCEPT ![r].found[i] = row,
                                          ![r].left = @ \cup ({i} \X {Sort(c) : c \in build[r].outline[i]})]
                /\ UNCHANGED <<control, pathTables>>

NewChild(r, i, c) == [path |-> build[r].path, index |-> i, component |-> c, by |-> r]

(* Ids of nothing are passed over.                                         *)
CheckChildren(r) ==
  /\ pc[r] = "findModules"
  /\ \E x \in build[r].left :
       LET known == {c \in build[r].outline[x[1]] : Sort(c) = x[2] /\ components[c] # None}
           rows == {[child |-> NewChild(r, x[1], c), hours |-> components[c]] : c \in known}
       IN  /\ x[2] = "subject" => <<x[1], "internship">> \notin build[r].left
           /\ build' = [build EXCEPT ![r].left = @ \ {x}, ![r].read = @ \cup rows]
  /\ UNCHANGED <<control, pathTables>>

ReadHours(r) == Total(build[r].read)

(* Mutant: the new hours are added to those of the old modules.            *)
AddedHours(r) == paths[build[r].path].hours + ReadHours(r)

(* What the path is said to take: the hours of what was found.             *)
NewHours(r) == ReadHours(r)

(* One transaction: children of the modules that have any, and the hours.  *)
(* A row that was deleted since refuses all.                               *)
AssociateModuleChildren(r) ==
  /\ pc[r] = "findModules" /\ build[r].left = {}
  /\ \A i \in Planned(build[r].outline) : build[r].found[i] # None
  /\ LET p == build[r].path
         new == {x.child : x \in build[r].read}
     IN  IF \/ paths[p] = None
            \/ \E c \in new : \/ modules[p][c.index] # build[r].found[c.index]
                             \/ components[c.component] = None
         THEN Refuse(r)
         ELSE /\ children' = children \cup new
              /\ paths' = [paths EXCEPT ![p].hours = NewHours(r)]
              /\ Goto(r, "done")
              /\ UNCHANGED <<modules, participants, build>>

(* Mutant: a path is deleted without its students.                         *)
Everyone(p) == participants

(* Those who are left when a path goes, with its modules and students.     *)
Remaining(p) == {s \in participants : s.path # p}

DeleteRow(r) ==
  /\ pc[r] = "deletePath"
  /\ LET p == build[r].path
     IN  IF paths[p] = None THEN Refuse(r)
         ELSE /\ paths' = [paths EXCEPT ![p] = None]
              /\ modules' = [modules EXCEPT ![p] = NoModules]
              /\ children' = {c \in children : c.path # p}
              /\ participants' = Remaining(p)
              /\ Goto(r, "done")
              /\ UNCHANGED build

-----------------------------------------------------------------------------
(* An emission completes the path its template belongs to.                 *)
FindPaths(e) ==
  /\ pc[e] = "findPaths"
  /\ LET led == {p \in Makers : paths[p] # None /\ paths[p].template}
     IN  \/ led = {} /\ Goto(e, "insert") /\ UNCHANGED build
         \/ \E p \in led : /\ build' = [build EXCEPT ![e].path = p]
                           /\ Goto(e, "completePath")
  /\ UNCHANGED pathTables

AssociatePfOnEmission(e) ==
  /\ pc[e] = "completePath"
  /\ IF paths[build[e].path] = None THEN Refuse(e)
     ELSE /\ participants' = participants \cup {[path |-> build[e].path, by |-> e]}
          /\ Goto(e, "insert")
          /\ UNCHANGED <<paths, modules, children, build>>

(* A path with an empty module of every number.                            *)
PathsInit ==
  /\ paths = [p \in Makers |-> IF p = Former THEN [template |-> TRUE, hours |-> 0] ELSE None]
  /\ modules = [p \in Makers |-> IF p = Former THEN [i \in Indexes |-> Former] ELSE NoModules]
  /\ children = {}
  /\ participants = {}
  /\ build = [a \in Handlers |-> NoBuild]

PathsStep(r) == \/ CreateLearningPath(r) \/ UpdateLearningPath(r) \/ DeleteLearningPath(r)
                \/ DeleteLearningPathModules(r) \/ CheckTemplateById(r)
                \/ CreateRow(r) \/ UpdateRow(r)
                \/ FindModule(r) \/ CheckChildren(r)
                \/ AssociateModuleChildren(r) \/ DeleteRow(r)

EmissionStep(e) == FindPaths(e) \/ AssociatePfOnEmission(e)

-----------------------------------------------------------------------------
(* Properties.                                                             *)

(* A path is without modules only by an update that has deleted them and   *)
(* has yet to write its own, or never will: its template was refused, its  *)
(* write collided with another, or it failed; or by a build that has       *)
(* written what it was asked for, a path without any.                      *)
EmptyPathHasCause ==
  \A p \in Makers :
    paths[p] # None /\ modules[p] = NoModules =>
      \E r \in Requests :
        /\ build[r].path = p
        /\ \/ /\ kind[r] = "updatePath"
              /\ pc[r] \in {"checkTemplate", "writePath", "refused", "failed"}
           \/ /\ kind[r] \in {"createPath", "updatePath"} /\ Planned(build[r].outline) = {}
              /\ pc[r] \in {"findModules", "done", "refused", "failed"}

Writers(p) == {modules[p][i] : i \in Indexes} \ {None}

(* The total hours of a path are those of what is behind its modules,      *)
(* unless a build of it is under way or came to nothing, attached to the   *)
(* module of another build or found nothing to attach, its modules are of  *)
(* two builds that number them differently, or somebody changed or deleted *)
(* what one had found.                                                     *)
HoursMatchHasCause ==
  \A p \in Makers :
    paths[p] # None /\ paths[p].hours # HoursOf(p) =>
      \/ \E v, w \in Writers(p) : v # w
      \/ \E r \in Requests :
           /\ build[r].path = p /\ kind[r] \in {"createPath", "updatePath"}
           /\ \/ pc[r] \notin {"idle", "deleteModules", "done"}
              \/ \E i \in Indexes : build[r].found[i] \notin {None, r}
              \/ build[r].read = {}
              \/ \E q \in Requests, x \in build[r].read :
                   /\ kind[q] \in {"editSubject", "deleteComponent"} /\ pc[q] = "done"
                   /\ study[q].component = x.child.component
=============================================================================
