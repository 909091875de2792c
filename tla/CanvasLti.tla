----------------------------- MODULE CanvasLti -----------------------------
(***************************************************************************)
(* Teachers who come from a course of their Canvas.  A login by LTI is      *)
(* launched; without a token for the teacher it goes through OAuth2 and     *)
(* comes back as a callback.  Either way the users of the course are        *)
(* listed, the course is found or made, its users sign up, and the login    *)
(* is bound to the course, to be exchanged for a session within two         *)
(* minutes.  One client of the Canvas API serves all requests and keeps     *)
(* the token it got last.                                                  *)
(***************************************************************************)
EXTENDS Accounts

CONSTANTS Institutions,
          Domains, Numbers,     \* of a Canvas, and of a course there
          States,       \* logins by LTI that may begin
          VisitOf,      \* VisitOf[x]: the teacher and the course of a login
          Launches, Callbacks, Exchanges, Configurations,       \* requests
          Members,      \* Members[h]: the sign-ups h makes of the users Canvas lists to it
          Asks          \* Asks[g]: the institutions and domains g may be about

Handshakes == Launches \cup Callbacks

Visitors == Handshakes \cup Exchanges \cup Configurations

LoginIds == States \cup Launches        \* a launch may make a login of its own

Tokens == {<<VisitOf[x].teacher, d>> : x \in States, d \in Domains}

ASSUME CanvasAssumption ==
         /\ Members \in [Handshakes -> SUBSET SignUps]
         /\ Asks \in [Configurations -> SUBSET (Institutions \X Domains)]
         /\ \A h, k \in Handshakes : h # k => Members[h] \cap Members[k] = {}
         /\ \A x \in States : VisitOf[x].domain \in Domains /\ VisitOf[x].number \in Numbers
         /\ States \cap Launches = {} /\ Exchanges \cap Handshakes = {}
         /\ Configurations \cap (Handshakes \cup Exchanges) = {}
         /\ None \notin Institutions \cup Domains \cup LoginIds \cup Visitors \cup Tokens

VARIABLES configs,      \* CanvasLTIConfiguration rows: the domain of each institution
          canvasSchools, \* institutions whose Canvas school is there
          logins,       \* CanvasEphemeralLogin rows
          intents,      \* CanvasLoginIntents rows
          tokens,       \* CanvasToken rows
          token,        \* the one the client of the API holds
          courses,      \* Course rows, by the handshake that made them
          canvasCourses, \* CanvasCourse rows: the course of each Canvas course
          assigned,     \* the course and school a sign-up is given
          stage, work

canvasVars == <<configs, canvasSchools, logins, intents, tokens, token, courses, canvasCourses,
                assigned, stage, work>>

-----------------------------------------------------------------------------
Binding == [owner : Institutions, course : Handshakes, by : Handshakes]

Login == [valid : BOOLEAN, deleted : BOOLEAN,
          live : BOOLEAN,       \* not expired
          bound : Binding \cup {None}]

Intent == [visit : States, owner : Institutions]

CanvasCourse == [owner : Institutions, number : Numbers,
                 domain : Domains]      \* history: the one it was made under

ASSUME CanvasRowsAssumption == None \notin Binding \cup Login \cup Intent \cup CanvasCourse

Work == [visit : States \cup {None},
         login : LoginIds \cup {None},  \* what the referer says of it
         owner : Institutions \cup {None}, domain : Domains \cup {None},
         course : Handshakes \cup {None},
         used : SUBSET Tokens,          \* history: tokens it listed users with
         since : SUBSET Tokens,         \* history: those the client got after its own
         seen : SUBSET Exchanges]       \* history: exchanges of its login before

Stages == {"idle", "findConfig", "discard", "findToken", "refresh", "createIntent", "saveToken",
           "listUsers", "findCourse", "insertCourse", "linkCourse", "addUsers", "await", "bind",
           "mark", "findSchool", "insertSchool", "insertConfig", "updateConfig", "done", "failed"}

OneToOne(f) == \A i, j \in DOMAIN f : f[i] = f[j] => i = j \/ f[i] = None

(* Every variable holds values of the rows and requests it stands for; the  *)
(* domain of a configuration is unique.                                    *)
CanvasTypeOK ==
  /\ configs \in [Institutions -> Domains \cup {None}]
  /\ OneToOne(configs)
  /\ canvasSchools \subseteq Institutions
  /\ logins \in [LoginIds -> Login \cup {None}]
  /\ intents \in [LoginIds -> Intent \cup {None}]
  /\ tokens \subseteq Tokens /\ token \in Tokens \cup {None}
  /\ courses \in [Handshakes -> CanvasCourse \cup {None}]
  /\ canvasCourses \in [Domains \X Numbers -> Handshakes \cup {None}]
  /\ assigned \in [SignUps -> Binding \cup {None}]
  /\ stage \in [Visitors -> Stages]
  /\ work \in [Visitors -> Work]
  /\ \A i \in Institutions : configs[i] # None => i \in canvasSchools

Onto(r, l) == stage' = [stage EXCEPT ![r] = l]

Visit(r) == VisitOf[work[r].visit]

Own(r) == <<Visit(r).teacher, work[r].domain>>

-----------------------------------------------------------------------------
(* POST lti/login: the state is sent along to Canvas.                      *)
GetLTIAuthRedirectUrl(x) ==
  /\ logins[x] = None
  /\ logins' = [logins EXCEPT ![x] = [valid |-> FALSE, deleted |-> FALSE, live |-> TRUE, bound |-> None]]
  /\ UNCHANGED <<configs, canvasSchools, intents, tokens, token, courses, canvasCourses, assigned,
                 stage, work>>

(* POST lti/launch: the referer may say the state, or another login is      *)
(* made, which has expired as it is made; without a referer there is none.  *)
Launch(l) ==
  /\ l \in Launches /\ stage[l] = "idle"
  /\ \E x \in States : \E s \in {x, l, None} :
       /\ logins[x] # None
       /\ logins' = IF s = x THEN [logins EXCEPT ![x].valid = TRUE]
                    ELSE IF s = l THEN [logins EXCEPT ![l] = [valid |-> TRUE, deleted |-> FALSE,
                                                             live |-> FALSE, bound |-> None]]
                    ELSE logins
       /\ work' = [work EXCEPT ![l].visit = x, ![l].login = s]
  /\ Onto(l, "findConfig")
  /\ UNCHANGED <<configs, canvasSchools, intents, tokens, token, courses, canvasCourses, assigned>>

(* Who does not teach the course, or comes from elsewhere, is let go.      *)
GetLTIConfigurationByDomain(l) ==
  /\ stage[l] = "findConfig"
  /\ \/ Onto(l, "discard") /\ UNCHANGED work
     \/ \E i \in Institutions :
          /\ configs[i] = Visit(l).domain
          /\ work' = [work EXCEPT ![l].owner = i, ![l].domain = configs[i]]
          /\ Onto(l, "findToken")
  /\ UNCHANGED <<configs, canvasSchools, logins, intents, tokens, token, courses, canvasCourses, assigned>>

Discard(l) ==
  /\ stage[l] = "discard"
  /\ LET s == work[l].login
     IN  IF s = None THEN Onto(l, "failed") /\ UNCHANGED logins
         ELSE /\ logins' = [logins EXCEPT ![s].valid = FALSE, ![s].deleted = TRUE]
              /\ Onto(l, "done")
  /\ UNCHANGED <<configs, canvasSchools, intents, tokens, token, courses, canvasCourses, assigned, work>>

GetToken(r) ==
  /\ stage[r] = "findToken"
  /\ Onto(r, IF Own(r) \in tokens THEN "refresh"
             ELSE IF r \in Launches THEN "createIntent" ELSE "saveToken")
  /\ UNCHANGED <<configs, canvasSchools, logins, intents, tokens, token, courses, canvasCourses,
                 assigned, work>>

(* The client holds the token of r from here, until another request of      *)
(* any institution gets its own.                                           *)
Hold(r) ==
  /\ token' = Own(r)
  /\ work' = [v \in Visitors |-> IF v # r /\ stage[v] = "listUsers"
                                 THEN [work[v] EXCEPT !.since = @ \cup {Own(r)}] ELSE work[v]]
  /\ Onto(r, "listUsers")

(* Mutant: a token that is still good is returned, and the client keeps     *)
(* the one it holds.                                                       *)
ReturnToken(r) ==
  /\ stage[r] = "refresh"
  /\ \/ Hold(r)
     \/ token # None /\ Onto(r, "listUsers") /\ UNCHANGED <<token, work>>
  /\ UNCHANGED <<configs, canvasSchools, logins, intents, tokens, courses, canvasCourses, assigned>>

RefreshToken(r) ==
  /\ stage[r] = "refresh" /\ Hold(r)
  /\ UNCHANGED <<configs, canvasSchools, logins, intents, tokens, courses, canvasCourses, assigned>>

(* A login goes to Canvas once: its state is unique, and there must be one. *)
CreateLoginIntent(l) ==
  /\ stage[l] = "createIntent"
  /\ LET s == work[l].login
         known == s = None \/ (s \in LoginIds /\ intents[s] # None)
     IN  IF known THEN Onto(l, "failed") /\ UNCHANGED intents
         ELSE /\ intents' = [intents EXCEPT ![s] = [visit |-> work[l].visit, owner |-> work[l].owner]]
              /\ Onto(l, "done")
  /\ UNCHANGED <<configs, canvasSchools, logins, tokens, token, courses, canvasCourses, assigned, work>>

(* GET canvas/oauth2/callback, with the domain the institution has by now.  *)
HandleOauth2Callback(c) ==
  /\ c \in Callbacks /\ stage[c] = "idle"
  /\ \E s \in LoginIds :
       /\ intents[s] # None
       /\ work' = [work EXCEPT ![c] = [@ EXCEPT !.login = s, !.visit = intents[s].visit,
                     !.owner = intents[s].owner, !.domain = configs[intents[s].owner]]]
  /\ Onto(c, "findToken")
  /\ UNCHANGED <<configs, canvasSchools, logins, intents, tokens, token, courses, canvasCourses, assigned>>

GenerateNewUserToken(c) ==
  /\ stage[c] = "saveToken"
  /\ IF Own(c) \in tokens THEN Onto(c, "failed") /\ UNCHANGED <<tokens, token, work>>
     ELSE tokens' = tokens \cup {Own(c)} /\ Hold(c)
  /\ UNCHANGED <<configs, canvasSchools, logins, intents, courses, canvasCourses, assigned>>

(* Page by page, with what the client holds.  Another Canvas does not know  *)
(* it; the same may answer to another teacher.                             *)
GetAllCourseUsers(r) ==
  /\ stage[r] = "listUsers"
  /\ IF token[2] # work[r].domain THEN Onto(r, "failed") /\ UNCHANGED work
     ELSE /\ work' = [work EXCEPT ![r].used = @ \cup {token}]
          /\ \E l \in {"listUsers", "findCourse"} : Onto(r, l)
  /\ UNCHANGED <<configs, canvasSchools, logins, intents, tokens, token, courses, canvasCourses, assigned>>

-----------------------------------------------------------------------------
(* Mutant: a launch looks for any course of the number, like a callback.    *)
KnownByNumber(r) == {c \in Handshakes : courses[c] # None /\ courses[c].number = Visit(r).number}

(* The course: a launch looks for the Canvas course of its domain, a        *)
(* callback for any course of that number.                                 *)
Known(r) ==
  IF r \in Launches THEN {canvasCourses[<<work[r].domain, Visit(r).number>>]} \ {None}
  ELSE {c \in Handshakes : courses[c] # None /\ courses[c].number = Visit(r).number}

FindCourse(r) ==
  /\ stage[r] = "findCourse"
  /\ IF Known(r) = {} THEN Onto(r, "insertCourse") /\ UNCHANGED work
     ELSE /\ \E c \in Known(r) : work' = [work EXCEPT ![r].course = c]
          /\ Onto(r, "addUsers")
  /\ UNCHANGED <<configs, canvasSchools, logins, intents, tokens, token, courses, canvasCourses, assigned>>

InsertCourse(r) ==
  /\ stage[r] = "insertCourse"
  /\ courses' = [courses EXCEPT ![r] = [owner |-> work[r].owner, number |-> Visit(r).number,
                                        domain |-> work[r].domain]]
  /\ work' = [work EXCEPT ![r].course = r]
  /\ Onto(r, "linkCourse")
  /\ UNCHANGED <<configs, canvasSchools, logins, intents, tokens, token, canvasCourses, assigned>>

LinkCourse(r) ==
  /\ stage[r] = "linkCourse"
  /\ LET k == <<work[r].domain, Visit(r).number>>
     IN  IF canvasCourses[k] # None THEN Onto(r, "failed") /\ UNCHANGED canvasCourses
         ELSE canvasCourses' = [canvasCourses EXCEPT ![k] = r] /\ Onto(r, "addUsers")
  /\ UNCHANGED <<configs, canvasSchools, logins, intents, tokens, token, courses, assigned, work>>

-----------------------------------------------------------------------------
(* The users of the course: the rows of Canvas users want a configuration   *)
(* of the domain; then all sign up at once, as raw users, with the course   *)
(* for later.  Who has an account is left as he is.                        *)
CreateUsers(r) ==
  /\ stage[r] = "addUsers"
  /\ IF \A i \in Institutions : configs[i] # work[r].domain
     THEN Onto(r, "failed") /\ UNCHANGED assigned
     ELSE /\ assigned' = [s \in SignUps |->
                            IF s \in Members[r]
                            THEN [owner |-> work[r].owner, course |-> work[r].course, by |-> r]
                            ELSE assigned[s]]
          /\ Onto(r, "await")
  /\ UNCHANGED <<configs, canvasSchools, logins, intents, tokens, token, courses, canvasCourses, work>>

AwaitUsers(r) ==
  /\ stage[r] = "await"
  /\ \/ \E s \in Members[r] : pc[s] = "failed" /\ Onto(r, "failed")
     \/ (\A s \in Members[r] : pc[s] \in {"done", "refused"}) /\ Onto(r, "bind")
  /\ UNCHANGED <<configs, canvasSchools, logins, intents, tokens, token, courses, canvasCourses,
                 assigned, work>>

(* The login is bound whatever has become of it meanwhile.                 *)
BindLogin(r) ==
  /\ stage[r] = "bind"
  /\ LET s == work[r].login
     IN  IF s = None THEN Onto(r, "failed") /\ UNCHANGED logins
         ELSE /\ logins' = [logins EXCEPT ![s].bound = [owner |-> work[r].owner,
                                                       course |-> work[r].course, by |-> r]]
              /\ Onto(r, "done")
  /\ UNCHANGED <<configs, canvasSchools, intents, tokens, token, courses, canvasCourses, assigned, work>>

-----------------------------------------------------------------------------
(* GET canvas-platform/get-token/:state reads the login and then marks it.  *)
CreateJwtTokenFromState(e) ==
  /\ e \in Exchanges /\ stage[e] = "idle"
  /\ \E s \in LoginIds :
       /\ logins[s] # None /\ logins[s].valid /\ ~logins[s].deleted /\ logins[s].live
       /\ logins[s].bound # None
       /\ work' = [work EXCEPT ![e] = [@ EXCEPT !.login = s,
                     !.seen = {f \in Exchanges : stage[f] = "done" /\ work[f].login = s}]]
  /\ Onto(e, "mark")
  /\ UNCHANGED <<configs, canvasSchools, logins, intents, tokens, token, courses, canvasCourses, assigned>>

(* Mutant: the login is not taken out of use.                              *)
MarkNothing(e) ==
  /\ stage[e] = "mark" /\ Onto(e, "done")
  /\ UNCHANGED <<configs, canvasSchools, logins, intents, tokens, token, courses, canvasCourses,
                 assigned, work>>

MarkUsed(e) ==
  /\ stage[e] = "mark"
  /\ logins' = [logins EXCEPT ![work[e].login].valid = FALSE, ![work[e].login].deleted = TRUE]
  /\ Onto(e, "done")
  /\ UNCHANGED <<configs, canvasSchools, intents, tokens, token, courses, canvasCourses, assigned, work>>

Expire(s) ==
  /\ logins[s] # None /\ logins[s].live
  /\ logins' = [logins EXCEPT ![s].live = FALSE]
  /\ UNCHANGED <<configs, canvasSchools, intents, tokens, token, courses, canvasCourses, assigned,
                 stage, work>>

-----------------------------------------------------------------------------
(* The configuration of an institution: its domain stands for the rest.     *)
BeginConfiguration(g, l, there) ==
  /\ g \in Configurations /\ stage[g] = "idle"
  /\ \E ask \in Asks[g] :
       /\ (configs[ask[1]] # None) = there
       /\ work' = [work EXCEPT ![g].owner = ask[1], ![g].domain = ask[2]]
  /\ Onto(g, l)
  /\ UNCHANGED <<configs, canvasSchools, logins, intents, tokens, token, courses, canvasCourses, assigned>>

CreateLTIConfiguration(g) == BeginConfiguration(g, "findSchool", FALSE)

UpdateLTIConfiguration(g) == BeginConfiguration(g, "updateConfig", TRUE)

FindCanvasSchool(g) ==
  /\ stage[g] = "findSchool"
  /\ Onto(g, IF work[g].owner \in canvasSchools THEN "insertConfig" ELSE "insertSchool")
  /\ UNCHANGED <<configs, canvasSchools, logins, intents, tokens, token, courses, canvasCourses,
                 assigned, work>>

(* The CNPJ of a school is unique.                                         *)
InsertCanvasSchool(g) ==
  /\ stage[g] = "insertSchool"
  /\ IF work[g].owner \in canvasSchools THEN Onto(g, "failed") /\ UNCHANGED canvasSchools
     ELSE canvasSchools' = canvasSchools \cup {work[g].owner} /\ Onto(g, "insertConfig")
  /\ UNCHANGED <<configs, logins, intents, tokens, token, courses, canvasCourses, assigned, work>>

(* One configuration an institution, one institution a domain.             *)
WriteConfiguration(g) ==
  LET i == work[g].owner
      d == work[g].domain
  IN  /\ \/ stage[g] = "insertConfig" /\ configs[i] = None
         \/ stage[g] = "updateConfig"
      /\ \A j \in Institutions \ {i} : configs[j] # d
      /\ configs' = [configs EXCEPT ![i] = d]
      /\ Onto(g, "done")
      /\ UNCHANGED <<canvasSchools, logins, intents, tokens, token, courses, canvasCourses, assigned, work>>

(* Canvas, the database or the server fails, or an index refuses a row.    *)
FailVisitor(r) ==
  /\ stage[r] \notin {"idle", "done", "failed"}
  /\ Onto(r, "failed")
  /\ UNCHANGED <<configs, canvasSchools, logins, intents, tokens, token, courses, canvasCourses,
                 assigned, work>>

NoWork == [visit |-> None, login |-> None, owner |-> None, domain |-> None, course |-> None,
           used |-> {}, since |-> {}, seen |-> {}]

(* Tokens may be there, of earlier handshakes that failed once Canvas had   *)
(* answered.                                                               *)
CanvasInit ==
  /\ configs \in [Institutions -> Domains \cup {None}] /\ OneToOne(configs)
  /\ canvasSchools = {i \in Institutions : configs[i] # None}
  /\ logins = [s \in LoginIds |-> None]
  /\ intents = [s \in LoginIds |-> None]
  /\ tokens \in SUBSET {k \in Tokens : \E i \in Institutions : configs[i] = k[2]}
  /\ token = None
  /\ courses = [h \in Handshakes |-> None]
  /\ canvasCourses = [k \in Domains \X Numbers |-> None]
  /\ assigned = [s \in SignUps |-> None]
  /\ stage = [r \in Visitors |-> "idle"]
  /\ work = [r \in Visitors |-> NoWork]

HandshakeStep(r) ==
  \/ Launch(r) \/ GetLTIConfigurationByDomain(r) \/ Discard(r)
  \/ GetToken(r) \/ RefreshToken(r) \/ CreateLoginIntent(r)
  \/ HandleOauth2Callback(r) \/ GenerateNewUserToken(r) \/ GetAllCourseUsers(r)
  \/ FindCourse(r) \/ InsertCourse(r) \/ LinkCourse(r)
  \/ CreateUsers(r) \/ AwaitUsers(r) \/ BindLogin(r)

ExchangeStep(e) == CreateJwtTokenFromState(e) \/ MarkUsed(e)

ConfigurationStep(g) == \/ CreateLTIConfiguration(g) \/ UpdateLTIConfiguration(g)
                        \/ FindCanvasSchool(g) \/ InsertCanvasSchool(g) \/ WriteConfiguration(g)

-----------------------------------------------------------------------------
(* Properties.                                                             *)

Foreign(b) == courses[b.course].owner # b.owner

Unlinked(c) == \A k \in Domains \X Numbers : canvasCourses[k] # c

(* A login, or a student, is given a course of another institution only by  *)
(* a callback, which finds courses by their number, or after the domain     *)
(* changed hands.  A Canvas course has two courses only if a handshake      *)
(* that made one of them has not linked it: it is about to, or failed.      *)
CanvasCoursesHaveCause ==
  /\ \A b \in {logins[s].bound : s \in {t \in LoginIds : logins[t] # None}}
              \cup {assigned[s] : s \in {t \in SignUps : Exists(t)}} :
       b # None /\ Foreign(b) => b.by \in Callbacks \/ courses[b.course].domain = work[b.by].domain
  /\ \A c, d \in Handshakes :
       /\ c # d /\ None \notin {courses[c], courses[d]}
       /\ courses[c].number = courses[d].number /\ courses[c].domain = courses[d].domain
       => \E h \in {c, d} : Unlinked(h) /\ stage[h] \in {"linkCourse", "failed"}

(* A handshake lists users with the token of another teacher only if the    *)
(* client got it after the handshake's own.  A login lets two sessions in   *)
(* only if neither exchange came after the other.                          *)
HandshakesHaveCause ==
  /\ \A r \in Handshakes : \A k \in work[r].used \ work[r].since : k = Own(r)
  /\ \A e, f \in Exchanges :
       e # f /\ stage[e] = "done" /\ stage[f] = "done" /\ work[e].login = work[f].login =>
         e \notin work[f].seen /\ f \notin work[e].seen
=============================================================================
