------------------------------ MODULE Accounts ------------------------------
(***************************************************************************)
(* User rows and the credentials beside them.  AuthCredentials is a table  *)
(* of its own, keyed by email, with no foreign key to User: sign-up, email *)
(* change, password reset and deletion each keep the two in step by hand,  *)
(* in several statements, and only the email change has a transaction.     *)
(*                                                                         *)
(* An account is named by the sign-up that created it; a password by the   *)
(* account it was made for and the handler that wrote it.                  *)
(***************************************************************************)
EXTENDS Naturals, FiniteSets

CONSTANTS Emails,
          SignUps,      \* requests that create an account
          Entries,      \* Entries[s]: the entry points sign-up s may take
          EmailOf,      \* EmailOf[s]: the email it asks for
          DocOf,        \* DocOf[s]: its document number
          Changes,      \* POST users/change-email/request
          Verifications, \* POST auth/change-email/verify
          Resets,       \* the three ways to set a password
          Deletions,    \* DELETE admin/users/:userId
          None          \* no row

Kinds == {"pf", "pj", "raw", "admin", "api", "student"}

ASSUME AccountsAssumption ==
         /\ Entries \in [SignUps -> SUBSET Kinds] /\ EmailOf \in [SignUps -> Emails]
         /\ None \notin Emails /\ None \notin SignUps

Actors == SignUps \cup Changes \cup Verifications \cup Resets \cup Deletions

VARIABLES users,        \* User rows, by the sign-up that created them
          credentials,  \* AuthCredentials rows, by email
          codes,        \* EmailChangeVerification rows, by change
          background,   \* student sign-ups whose credentials nobody awaits
          vacated,      \* history: emails a handler left without credentials
          pc, local

accountVars == <<users, credentials, codes, background, vacated, pc, local>>

-----------------------------------------------------------------------------
User == [email : Emails,
         complete : BOOLEAN]    \* it has a PF or PJ row

Credentials == [of : SignUps,   \* the account the password was made for
                by : SignUps \cup Resets,
                confirmed : BOOLEAN]    \* status CONFIRMED

Code == [old : Emails, new : Emails]

ASSUME RowsAssumption == None \notin User \cup Credentials \cup Code

(* How a sign-up writes the credentials: status CONFIRMED, keeping the      *)
(* status of a row it finds, or likewise without being awaited.            *)
Logins == {"confirmed", "kept", "background"}

PCs == {"idle", "checkEmail", "credentials", "insert", "create", "move", "forget",
        "write", "removeLogin", "removeUser", "done", "refused", "failed"}

Over == {"idle", "done",
         "refused",     \* the lookups found the document or the email
         "failed"}      \* threw, or was lost

Goto(a, l) == pc' = [pc EXCEPT ![a] = l]

Exists(s) == users[s] # None

Taken(e) == \E s \in SignUps : Exists(s) /\ users[s].email = e

(* Mutant: the email is not unique.                                        *)
FreeDocument(s) == \A t \in SignUps : Exists(t) => DocOf[t] # DocOf[s]

(* The unique indexes of User on email and numeroDocumento.                *)
Free(s) == \A t \in SignUps : Exists(t) => /\ users[t].email # EmailOf[s]
                                           /\ DocOf[t] # DocOf[s]

-----------------------------------------------------------------------------
(* Sign-up.  Each entry point looks the document up, then the email.       *)

Arrive(s, kind, login, complete) ==
  /\ pc[s] = "idle" /\ kind \in Entries[s]
  /\ local' = [local EXCEPT ![s].login = login, ![s].complete = complete]
  /\ Goto(s, IF \E t \in SignUps : Exists(t) /\ DocOf[t] = DocOf[s]
             THEN "refused" ELSE "checkEmail")
  /\ UNCHANGED <<users, credentials, codes, background, vacated>>

SignUpPf(s) == s \in SignUps /\ Arrive(s, "pf", "confirmed", TRUE)
SignUpPj(s) == s \in SignUps /\ Arrive(s, "pj", "confirmed", TRUE)

(* Raw users: alone, or one of a list a school sends, all at once.         *)
SignUpRaw(s) == s \in SignUps /\ Arrive(s, "raw", "confirmed", FALSE)

AdminCreateUser(s) == s \in SignUps /\ Arrive(s, "admin", "confirmed", TRUE)
CreateNewUserAPI(s) == s \in SignUps /\ Arrive(s, "api", "kept", TRUE)
CreateStudent(s) == s \in SignUps /\ Arrive(s, "student", "background", TRUE)

CheckEmail(s) ==
  /\ pc[s] = "checkEmail"
  /\ IF Taken(EmailOf[s])
     THEN Goto(s, "refused") /\ UNCHANGED background
     ELSE IF local[s].login = "background"
     THEN Goto(s, "insert") /\ background' = background \cup {s}
     ELSE Goto(s, "credentials") /\ UNCHANGED background
  /\ UNCHANGED <<users, credentials, codes, vacated, local>>

(* Upsert; adminCreateNewUserCognito keeps the status of a row it finds.   *)
PasswordOf(s) ==
  [of |-> s, by |-> s,
   confirmed |-> \/ local[s].login = "confirmed"
                 \/ /\ credentials[EmailOf[s]] # None
                    /\ credentials[EmailOf[s]].confirmed]

(* Mutant: only a row that is there is updated.                            *)
UpdateCredentials(s) ==
  /\ pc[s] = "credentials"
  /\ credentials' = IF credentials[EmailOf[s]] = None THEN credentials
                    ELSE [credentials EXCEPT ![EmailOf[s]] = PasswordOf(s)]
  /\ Goto(s, "insert")
  /\ UNCHANGED <<users, codes, background, vacated, local>>

CreateAuthCredentials(s) ==
  /\ pc[s] = "credentials"
  /\ credentials' = [credentials EXCEPT ![EmailOf[s]] = PasswordOf(s)]
  /\ Goto(s, "insert")
  /\ UNCHANGED <<users, codes, background, vacated, local>>

CreateInBackground(s) ==
  /\ s \in background
  /\ background' = background \ {s}
  /\ \/ credentials' = [credentials EXCEPT ![EmailOf[s]] = PasswordOf(s)]
     \/ UNCHANGED credentials      \* it fails, or the server dies
  /\ UNCHANGED <<users, codes, vacated, pc, local>>

InsertUser(s) ==
  /\ pc[s] = "insert"
  /\ IF Free(s)
     THEN /\ users' = [users EXCEPT ![s] = [email |-> EmailOf[s],
                                            complete |-> local[s].complete]]
          /\ Goto(s, "done")
     ELSE /\ UNCHANGED users
          /\ Goto(s, "failed")
  /\ UNCHANGED <<credentials, codes, background, vacated, local>>

(* A raw user gives the rest of his data.                                  *)
UpdateRawUserInfo(s) ==
  /\ Exists(s) /\ ~users[s].complete
  /\ users' = [users EXCEPT ![s].complete = TRUE]
  /\ UNCHANGED <<credentials, codes, background, vacated, pc, local>>

-----------------------------------------------------------------------------
(* Change of email by a code that is sent to the new address.              *)

(* Mutant: the email of the session is not read.                           *)
RequestWithoutEmail(c) ==
  /\ c \in Changes /\ pc[c] = "idle"
  /\ \E new \in Emails :
       /\ local' = [local EXCEPT ![c].new = new]
       /\ Goto(c, IF Taken(new) THEN "failed" ELSE "create")
  /\ UNCHANGED <<users, credentials, codes, background, vacated>>

(* The request of user s; the guard of the session read his email.         *)
RequestEmailChange(c) ==
  /\ c \in Changes /\ pc[c] = "idle"
  /\ \E s \in SignUps, new \in Emails :
       /\ Exists(s)
       /\ local' = [local EXCEPT ![c].old = users[s].email, ![c].new = new]
       /\ Goto(c, IF Taken(new) THEN "failed" ELSE "create")
  /\ UNCHANGED <<users, credentials, codes, background, vacated>>

CreateVerification(c) ==
  /\ pc[c] = "create"
  /\ codes' = [codes EXCEPT ![c] = [old |-> local[c].old, new |-> local[c].new]]
  /\ Goto(c, "done")
  /\ UNCHANGED <<users, credentials, background, vacated, local>>

(* A code that is found and has not expired, for an email still unused.    *)
VerifyEmailChange(v) ==
  /\ v \in Verifications /\ pc[v] = "idle"
  /\ \E c \in Changes :
       /\ codes[c] # None
       /\ local' = [local EXCEPT ![v].old = codes[c].old, ![v].new = codes[c].new]
       /\ Goto(v, IF Taken(codes[c].new) THEN "failed" ELSE "move")
  /\ UNCHANGED <<users, credentials, codes, background, vacated>>

Movable(old, new) == /\ Taken(old) /\ ~Taken(new)
                     /\ credentials[old] # None => credentials[new] = None

MoveLogin(old, new) ==
  IF credentials[old] = None THEN credentials
  ELSE [credentials EXCEPT ![new] = credentials[old], ![old] = None]

(* The transaction: the user, with his PF or PJ row by cascade, and the    *)
(* credentials, or nothing when a row is missing or an index refuses.      *)
MoveEmail(v) ==
  /\ pc[v] = "move"
  /\ LET old == local[v].old
         new == local[v].new
     IN  IF Movable(old, new)
         THEN /\ users' = [s \in SignUps |->
                             IF Exists(s) /\ users[s].email = old
                             THEN [users[s] EXCEPT !.email = new] ELSE users[s]]
              /\ credentials' = MoveLogin(old, new)
              /\ vacated' = vacated \cup {old}
                              \cup {e \in {new} : credentials[old] = None}
              /\ Goto(v, "forget")
         ELSE /\ UNCHANGED <<users, credentials, vacated>>
              /\ Goto(v, "failed")
  /\ UNCHANGED <<codes, background, local>>

ForgetCodes(v) ==
  /\ pc[v] = "forget"
  /\ codes' = [c \in Changes |->
                 IF codes[c] # None /\ codes[c].old = local[v].old
                                    /\ codes[c].new = local[v].new
                 THEN None ELSE codes[c]]
  /\ Goto(v, "done")
  /\ UNCHANGED <<users, credentials, background, vacated, local>>

-----------------------------------------------------------------------------
(* Setting a password: the email is read first, then the row is upserted.  *)

BeginReset(r, s) ==
  /\ r \in Resets /\ pc[r] = "idle" /\ Exists(s)
  /\ local' = [local EXCEPT ![r].old = users[s].email, ![r].of = s]
  /\ Goto(r, "write")
  /\ UNCHANGED <<users, credentials, codes, background, vacated>>

ResetUserPassword(r) == \E s \in SignUps : BeginReset(r, s)

(* By the user himself, who is logged in.                                  *)
UpdateUserPassword(r) ==
  \E s \in SignUps : BeginReset(r, s) /\ credentials[users[s].email] # None

(* By anyone, for raw users and passwords never confirmed.                 *)
ResetRawUserPassword(r) ==
  \E s \in SignUps :
    /\ BeginReset(r, s)
    /\ credentials[users[s].email] # None
    /\ ~(users[s].complete /\ credentials[users[s].email].confirmed)

WritePassword(r) ==
  /\ pc[r] = "write"
  /\ credentials' = [credentials EXCEPT ![local[r].old] =
                       [of |-> local[r].of, by |-> r, confirmed |-> TRUE]]
  /\ Goto(r, "done")
  /\ UNCHANGED <<users, codes, background, vacated, local>>

-----------------------------------------------------------------------------
(* Deletion by an administrator: first the credentials, then the user.     *)

DeleteUser(d) ==
  /\ d \in Deletions /\ pc[d] = "idle"
  /\ \E s \in SignUps :
       /\ Exists(s)
       /\ local' = [local EXCEPT ![d].old = users[s].email, ![d].of = s]
  /\ Goto(d, "removeLogin")
  /\ UNCHANGED <<users, credentials, codes, background, vacated>>

RemoveLogin(d) ==
  /\ pc[d] = "removeLogin"
  /\ credentials' = [credentials EXCEPT ![local[d].old] = None]
  /\ vacated' = vacated \cup {local[d].old}
  /\ Goto(d, "removeUser")
  /\ UNCHANGED <<users, codes, background, local>>

(* Roles in an institution hold the row back.                              *)
RemoveUser(d) ==
  /\ pc[d] = "removeUser"
  /\ \/ /\ users' = [users EXCEPT ![local[d].of] = None]
        /\ Goto(d, IF Exists(local[d].of) THEN "done" ELSE "failed")
     \/ UNCHANGED users /\ Goto(d, "failed")
  /\ UNCHANGED <<credentials, codes, background, vacated, local>>

-----------------------------------------------------------------------------
(* A statement of a request under way fails, or the server dies.           *)
FailAccount(a) ==
  /\ pc[a] \notin Over
  /\ Goto(a, "failed")
  /\ UNCHANGED <<users, credentials, codes, background, vacated, local>>

AccountsInit ==
  /\ users = [s \in SignUps |-> None]
  /\ credentials = [e \in Emails |-> None]
  /\ codes = [c \in Changes |-> None]
  /\ background = {} /\ vacated = {}
  /\ pc = [a \in Actors |-> "idle"]
  /\ local = [a \in Actors |-> [old |-> None, new |-> None, of |-> None,
                              login |-> "confirmed", complete |-> FALSE]]

SignUpStep(s) == \/ SignUpPf(s) \/ SignUpPj(s) \/ SignUpRaw(s)
                 \/ AdminCreateUser(s) \/ CreateNewUserAPI(s) \/ CreateStudent(s)
                 \/ CheckEmail(s) \/ CreateAuthCredentials(s)
                 \/ CreateInBackground(s) \/ InsertUser(s) \/ UpdateRawUserInfo(s)

ChangeStep(a) == \/ RequestEmailChange(a) \/ CreateVerification(a)
                 \/ VerifyEmailChange(a) \/ MoveEmail(a) \/ ForgetCodes(a)

ResetStep(r) == \/ ResetUserPassword(r) \/ UpdateUserPassword(r)
                \/ ResetRawUserPassword(r) \/ WritePassword(r)

DeletionStep(d) == DeleteUser(d) \/ RemoveLogin(d) \/ RemoveUser(d)

-----------------------------------------------------------------------------
(* Properties.                                                             *)

(* Every variable holds values of the rows and locals it stands for.       *)
AccountsTypeOK ==
  /\ users \in [SignUps -> User \cup {None}]
  /\ credentials \in [Emails -> Credentials \cup {None}]
  /\ codes \in [Changes -> Code \cup {None}]
  /\ background \subseteq SignUps /\ vacated \subseteq Emails
  /\ pc \in [Actors -> PCs]
  /\ local \in [Actors -> [old : Emails \cup {None}, new : Emails \cup {None},
                           of : SignUps \cup {None},
                           login : Logins, complete : BOOLEAN]]

(* Whatever sign-ups, changes, resets and failures interleave, an account  *)
(* is left without credentials in two ways only: a student's are written   *)
(* in the background, and a change of email or a deletion took the row at  *)
(* his email away.                                                         *)
MissingLoginHasCause ==
  \A s \in SignUps :
    Exists(s) /\ credentials[users[s].email] = None =>
      local[s].login = "background" \/ users[s].email \in vacated

(* An account answers to the password of another one only if the other     *)
(* does not exist (its sign-up was refused by an index after it had        *)
(* written the password, or it was deleted) or has lost its first email.   *)
ForeignLoginHasCause ==
  \A s \in SignUps :
    LET row == credentials[users[s].email]
    IN  Exists(s) /\ row # None /\ row.of # s =>
          ~Exists(row.of) \/ EmailOf[row.of] \in vacated
=============================================================================
