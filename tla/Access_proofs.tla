---------------------------- MODULE Access_proofs ----------------------------
(***************************************************************************)
(* Proofs about Access, for any number of accounts, institutions and       *)
(* requests in any mix: why an account may lack credentials or answer to   *)
(* those of another, what a login from Canvas is bound to, which courses   *)
(* are twice, and whose tokens a handshake uses.                           *)
(***************************************************************************)
EXTENDS Access, TLAPS

-----------------------------------------------------------------------------
(* Accounts.                                                               *)

Local == [old : Emails \cup {None}, new : Emails \cup {None}, of : SignUps \cup {None},
          login : Logins, complete : BOOLEAN]

(* What a handler holds when it is about to use it.                        *)
LocalsOK ==
  \A a \in Actors :
    /\ pc[a] \in {"create", "move"} => local[a].old \in Emails /\ local[a].new \in Emails
    /\ pc[a] \in {"write", "removeLogin", "removeUser"} =>
         local[a].old \in Emails /\ local[a].of \in SignUps

SignedUp == \A s \in SignUps : Exists(s) => pc[s] # "idle"

(* A sign-up that has awaited its credentials finds them there, or         *)
(* somebody took them.                                                     *)
LoginsThere ==
  \A s \in SignUps :
    pc[s] = "insert" /\ local[s].login # "background" =>
      credentials[EmailOf[s]] # None \/ EmailOf[s] \in vacated

EmailsUnique ==
  \A s, t \in SignUps :
    Exists(s) /\ Exists(t) /\ users[s].email = users[t].email => s = t

First(s, e) == e = EmailOf[s] \/ EmailOf[s] \in vacated

(* An account, a reset of its password and the password itself are at its  *)
(* first email, unless a change or a deletion has vacated that.            *)
FirstEmails ==
  /\ \A s \in SignUps : Exists(s) => First(s, users[s].email)
  /\ \A a \in Actors : pc[a] = "write" => First(local[a].of, local[a].old)
  /\ \A e \in Emails : credentials[e] # None => First(credentials[e].of, e)

AccountsInv == /\ AccountsTypeOK /\ LocalsOK
               /\ SignedUp /\ LoginsThere /\ EmailsUnique /\ FirstEmails
               /\ MissingLoginHasCause

LEMMA AccountsInitInv == AccountsInit => AccountsInv
<1> SUFFICES ASSUME AccountsInit PROVE AccountsInv
  OBVIOUS
<1>1. AccountsTypeOK
  BY DEF AccountsInit, AccountsTypeOK, PCs, Logins
<1> QED
  BY <1>1 DEF AccountsInv, AccountsInit, LocalsOK, SignedUp, LoginsThere, EmailsUnique, First,
              FirstEmails, MissingLoginHasCause, Exists, Actors

(* A step of a that leaves rows alone, and does not forget what it needs.  *)
LEMMA AccountsQuiet ==
  ASSUME AccountsInv, NEW a \in Actors, NEW l \in PCs \ {"idle"},
         UNCHANGED <<users, credentials, vacated>>,
         codes' \in [Changes -> Code \cup {None}], background' \subseteq SignUps,
         pc' = [pc EXCEPT ![a] = l],
         local' \in [Actors -> Local], \A b \in Actors \ {a} : local'[b] = local[b],
         local'[a].login = local[a].login \/ pc[a] = "idle",
         l \in {"create", "move"} => local'[a].old \in Emails /\ local'[a].new \in Emails,
         l \in {"write", "removeLogin", "removeUser"} =>
           local'[a].old \in Emails /\ local'[a].of \in SignUps,
         l = "write" => First(local'[a].of, local'[a].old),
         l = "insert" => local'[a].login = "background"
  PROVE  AccountsInv'
<1>1. AccountsTypeOK'
  BY DEF AccountsInv, AccountsTypeOK, Local
<1>2. LocalsOK'
  BY DEF AccountsInv, AccountsTypeOK, LocalsOK
<1>3. SignedUp'
  BY DEF AccountsInv, AccountsTypeOK, SignedUp, Exists
<1>4. LoginsThere'
  BY DEF AccountsInv, AccountsTypeOK, LoginsThere, Actors
<1>5. EmailsUnique'
  BY DEF AccountsInv, EmailsUnique, Exists
<1>6. FirstEmails'
  BY DEF AccountsInv, AccountsTypeOK, FirstEmails, First, Exists
<1>7. MissingLoginHasCause'
  <2> SUFFICES ASSUME NEW s \in SignUps, Exists(s), credentials[users[s].email] = None,
                      users[s].email \notin vacated
               PROVE  local'[s].login = "background"
    BY DEF MissingLoginHasCause, Exists
  <2>1. local[s].login = "background" /\ pc[s] # "idle" /\ s \in Actors
    BY DEF AccountsInv, MissingLoginHasCause, SignedUp, Actors
  <2> QED
    BY <2>1 DEF AccountsInv, AccountsTypeOK
<1> QED
  BY <1>1, <1>2, <1>3, <1>4, <1>5, <1>6, <1>7 DEF AccountsInv

(* Credentials are written at the first email of the account they are of.  *)
LEMMA LoginsWritten ==
  ASSUME AccountsInv, NEW e \in Emails, NEW p \in Credentials, First(p.of, e),
         UNCHANGED <<users, codes, vacated, local>>, background' \subseteq SignUps,
         credentials' = [credentials EXCEPT ![e] = p],
         NEW a \in Actors, NEW l \in {"insert", "done"},
         pc' \in {pc, [pc EXCEPT ![a] = l]},
         l = "insert" => EmailOf[a] = e
  PROVE  AccountsInv'
<1>0. p # None
  BY RowsAssumption
<1>1. AccountsTypeOK'
  BY DEF AccountsInv, AccountsTypeOK, PCs
<1>2. LocalsOK' /\ SignedUp' /\ EmailsUnique'
  <2>1. LocalsOK'
    BY DEF AccountsInv, AccountsTypeOK, LocalsOK
  <2>2. SignedUp'
    BY DEF AccountsInv, AccountsTypeOK, SignedUp, Exists, Actors
  <2> QED
    BY <2>1, <2>2 DEF AccountsInv, EmailsUnique, Exists
<1>3. LoginsThere'
  BY <1>0 DEF AccountsInv, AccountsTypeOK, LoginsThere, Actors
<1>4. FirstEmails'
  BY DEF AccountsInv, AccountsTypeOK, FirstEmails, First, Exists
<1>5. MissingLoginHasCause'
  BY <1>0 DEF AccountsInv, AccountsTypeOK, MissingLoginHasCause, Exists
<1> QED
  BY <1>1, <1>2, <1>3, <1>4, <1>5 DEF AccountsInv

LEMMA SignUpsKeep ==
  ASSUME AccountsInv, NEW s \in SignUps, SignUpStep(s)
  PROVE  AccountsInv'
<1>0. s \in Actors /\ local \in [Actors -> Local]
  BY DEF Actors, AccountsInv, AccountsTypeOK, Local
<1>1. ASSUME NEW k, NEW l \in Logins, NEW c \in BOOLEAN, Arrive(s, k, l, c)
      PROVE  AccountsInv'
  <2>1. /\ local' \in [Actors -> Local]
        /\ \A b \in Actors \ {s} : local'[b] = local[b]
    BY <1>0, <1>1 DEF Arrive, Local
  <2>2. PICK m \in {"refused", "checkEmail"} : pc' = [pc EXCEPT ![s] = m]
    BY <1>1 DEF Arrive, Goto
  <2> QED
    BY <1>0, <1>1, <2>1, <2>2, AccountsQuiet DEF Arrive, AccountsInv, AccountsTypeOK, PCs
<1>2. CASE \/ SignUpPf(s) \/ SignUpPj(s) \/ SignUpRaw(s)
           \/ AdminCreateUser(s) \/ CreateNewUserAPI(s) \/ CreateStudent(s)
  BY <1>1, <1>2 DEF SignUpPf, SignUpPj, SignUpRaw, AdminCreateUser, CreateNewUserAPI, CreateStudent,
                    Logins
<1>3. CASE CheckEmail(s)
  <2>1. CASE Taken(EmailOf[s])
    BY <1>0, <1>3, <2>1, AccountsQuiet DEF CheckEmail, Goto, AccountsInv, AccountsTypeOK, PCs
  <2>2. CASE ~Taken(EmailOf[s]) /\ local[s].login = "background"
    BY <1>0, <1>3, <2>2, AccountsQuiet DEF CheckEmail, Goto, AccountsInv, AccountsTypeOK, PCs
  <2>3. CASE ~Taken(EmailOf[s]) /\ local[s].login # "background"
    BY <1>0, <1>3, <2>3, AccountsQuiet DEF CheckEmail, Goto, AccountsInv, AccountsTypeOK, PCs
  <2> QED
    BY <2>1, <2>2, <2>3
<1>4. CASE CreateAuthCredentials(s)
  <2>1. PasswordOf(s) \in Credentials /\ First(PasswordOf(s).of, EmailOf[s])
    <3>1. credentials[EmailOf[s]] \in Credentials \cup {None}
      BY AccountsAssumption DEF AccountsInv, AccountsTypeOK
    <3> QED
      BY <3>1 DEF PasswordOf, Credentials, First
  <2> QED
    BY <1>0, <1>4, <2>1, LoginsWritten, AccountsAssumption
    DEF CreateAuthCredentials, Goto, AccountsInv, AccountsTypeOK
<1>5. CASE CreateInBackground(s)
  <2>1. PasswordOf(s) \in Credentials /\ First(PasswordOf(s).of, EmailOf[s])
    <3>1. credentials[EmailOf[s]] \in Credentials \cup {None}
      BY AccountsAssumption DEF AccountsInv, AccountsTypeOK
    <3> QED
      BY <3>1 DEF PasswordOf, Credentials, First
  <2>2. CASE credentials' = [credentials EXCEPT ![EmailOf[s]] = PasswordOf(s)]
    BY <1>0, <1>5, <2>1, <2>2, LoginsWritten, AccountsAssumption
    DEF CreateInBackground, AccountsInv, AccountsTypeOK
  <2>3. CASE UNCHANGED credentials
    BY <1>5, <2>3
    DEF CreateInBackground, AccountsInv, AccountsTypeOK, LocalsOK, SignedUp, LoginsThere,
        EmailsUnique, FirstEmails, First, MissingLoginHasCause, Exists
  <2> QED
    BY <1>5, <2>2, <2>3 DEF CreateInBackground
<1>6. CASE InsertUser(s)
  <2>1. CASE ~Free(s)
    BY <1>0, <1>6, <2>1, AccountsQuiet DEF InsertUser, Goto, AccountsInv, AccountsTypeOK, PCs
  <2>2. CASE Free(s)
    <3> DEFINE row == [email |-> EmailOf[s], complete |-> local[s].complete]
    <3>0. row \in User /\ row # None /\ row.email = EmailOf[s]
      BY <1>0, AccountsAssumption, RowsAssumption DEF User, Local
    <3>1. /\ pc[s] = "insert" /\ pc' = [pc EXCEPT ![s] = "done"]
          /\ users' = [users EXCEPT ![s] = row]
          /\ UNCHANGED <<credentials, codes, background, vacated, local>>
      BY <1>6, <2>2 DEF InsertUser, Goto
    <3> HIDE DEF row
    <3>2. AccountsTypeOK'
      BY <3>0, <3>1 DEF AccountsInv, AccountsTypeOK, PCs
    <3>3. LocalsOK' /\ SignedUp'
      BY <1>0, <3>1 DEF AccountsInv, AccountsTypeOK, LocalsOK, SignedUp, Exists, Actors
    <3>4. LoginsThere'
      BY <1>0, <3>1 DEF AccountsInv, AccountsTypeOK, LoginsThere, Actors
    <3>5. EmailsUnique'
      BY <2>2, <3>0, <3>1 DEF AccountsInv, AccountsTypeOK, EmailsUnique, Exists, Free
    <3>6. FirstEmails'
      BY <1>0, <3>0, <3>1 DEF AccountsInv, AccountsTypeOK, FirstEmails, First, Exists, Actors
    <3>7. MissingLoginHasCause'
      BY <3>0, <3>1 DEF AccountsInv, AccountsTypeOK, MissingLoginHasCause, LoginsThere, Exists
    <3> QED
      BY <3>2, <3>3, <3>4, <3>5, <3>6, <3>7 DEF AccountsInv
  <2> QED
    BY <2>1, <2>2
<1>7. CASE UpdateRawUserInfo(s)
  <2>1. users[s] \in User /\ users[s] # None
    BY <1>7 DEF UpdateRawUserInfo, Exists, AccountsInv, AccountsTypeOK
  <2>2. /\ users' \in [SignUps -> User \cup {None}]
        /\ users'[s] \in User /\ users'[s].email = users[s].email
        /\ \A t \in SignUps \ {s} : users'[t] = users[t]
    BY <1>7, <2>1 DEF UpdateRawUserInfo, User, AccountsInv, AccountsTypeOK
  <2>3. /\ \A t \in SignUps : Exists(t)' <=> Exists(t)
        /\ \A t \in SignUps : Exists(t) => users'[t].email = users[t].email
    BY <2>1, <2>2, RowsAssumption DEF Exists
  <2>4. UNCHANGED <<credentials, codes, background, vacated, pc, local>>
    BY <1>7 DEF UpdateRawUserInfo
  <2>5. AccountsTypeOK' /\ LocalsOK' /\ LoginsThere'
    BY <2>2, <2>4 DEF AccountsInv, AccountsTypeOK, LocalsOK, LoginsThere
  <2>6. SignedUp' /\ EmailsUnique' /\ MissingLoginHasCause'
    BY <2>3, <2>4 DEF AccountsInv, SignedUp, EmailsUnique, MissingLoginHasCause
  <2>7. FirstEmails'
    BY <2>3, <2>4 DEF AccountsInv, FirstEmails, First
  <2> QED
    BY <2>5, <2>6, <2>7 DEF AccountsInv
<1> QED
  BY <1>2, <1>3, <1>4, <1>5, <1>6, <1>7 DEF SignUpStep

LEMMA ChangesKeep ==
  ASSUME AccountsInv, NEW a \in Changes \cup Verifications, ChangeStep(a)
  PROVE  AccountsInv'
<1>0. a \in Actors /\ local \in [Actors -> Local]
  BY DEF Actors, AccountsInv, AccountsTypeOK, Local
<1>1. CASE RequestEmailChange(a)
  <2>1. PICK s \in SignUps, new \in Emails :
          /\ Exists(s)
          /\ local' = [local EXCEPT ![a].old = users[s].email, ![a].new = new]
          /\ Goto(a, IF Taken(new) THEN "failed" ELSE "create")
    BY <1>1 DEF RequestEmailChange
  <2>2. users[s].email \in Emails
    BY <2>1 DEF AccountsInv, AccountsTypeOK, Exists, User
  <2>3. /\ local' \in [Actors -> Local] /\ local'[a].old \in Emails /\ local'[a].new \in Emails
        /\ \A b \in Actors \ {a} : local'[b] = local[b]
    BY <1>0, <2>1, <2>2 DEF Local
  <2>4. PICK m \in {"failed", "create"} : pc' = [pc EXCEPT ![a] = m]
    BY <2>1 DEF Goto
  <2> QED
    BY <1>0, <1>1, <2>3, <2>4, AccountsQuiet DEF RequestEmailChange, AccountsInv, AccountsTypeOK, PCs
<1>2. CASE CreateVerification(a)
  <2>1. codes' \in [Changes -> Code \cup {None}]
    BY <1>0, <1>2 DEF CreateVerification, AccountsInv, AccountsTypeOK, LocalsOK, Code
  <2> QED
    BY <1>0, <1>2, <2>1, AccountsQuiet DEF CreateVerification, Goto, AccountsInv, AccountsTypeOK, PCs
<1>3. CASE VerifyEmailChange(a)
  <2>1. PICK c \in Changes :
          /\ codes[c] # None
          /\ local' = [local EXCEPT ![a].old = codes[c].old, ![a].new = codes[c].new]
          /\ Goto(a, IF Taken(codes[c].new) THEN "failed" ELSE "move")
    BY <1>3 DEF VerifyEmailChange
  <2>2. codes[c].old \in Emails /\ codes[c].new \in Emails
    BY <2>1 DEF AccountsInv, AccountsTypeOK, Code
  <2>3. /\ local' \in [Actors -> Local] /\ local'[a].old \in Emails /\ local'[a].new \in Emails
        /\ \A b \in Actors \ {a} : local'[b] = local[b]
    BY <1>0, <2>1, <2>2 DEF Local
  <2>4. PICK m \in {"failed", "move"} : pc' = [pc EXCEPT ![a] = m]
    BY <2>1 DEF Goto
  <2> QED
    BY <1>0, <1>3, <2>3, <2>4, AccountsQuiet DEF VerifyEmailChange, AccountsInv, AccountsTypeOK, PCs
<1>4. CASE MoveEmail(a)
  <2> DEFINE old == local[a].old
             new == local[a].new
  <2>0. old \in Emails /\ new \in Emails /\ pc[a] = "move" /\ UNCHANGED <<codes, background, local>>
    BY <1>0, <1>4 DEF MoveEmail, AccountsInv, LocalsOK
  <2>1. CASE ~Movable(old, new)
    BY <1>0, <1>4, <2>1, AccountsQuiet DEF MoveEmail, Goto, AccountsInv, AccountsTypeOK, PCs
  <2>2. CASE Movable(old, new)
    <3>1. /\ users' = [s \in SignUps |-> IF Exists(s) /\ users[s].email = old
                                         THEN [users[s] EXCEPT !.email = new] ELSE users[s]]
          /\ credentials' = MoveLogin(old, new)
          /\ vacated' = vacated \cup {old} \cup {e \in {new} : credentials[old] = None}
          /\ pc' = [pc EXCEPT ![a] = "forget"]
      BY <1>4, <2>2 DEF MoveEmail, Goto
    <3>2. /\ Taken(old) /\ \A s \in SignUps : Exists(s) => users[s].email # new
          /\ credentials[old] # None => credentials[new] = None
      BY <2>2 DEF Movable, Taken
    <3>3. \A s \in SignUps : /\ Exists(s)' <=> Exists(s)
                             /\ users'[s] \in User \cup {None}
                             /\ Exists(s) => users'[s].email =
                                               IF users[s].email = old THEN new ELSE users[s].email
      <4> SUFFICES ASSUME NEW s \in SignUps
                   PROVE  /\ Exists(s)' <=> Exists(s)
                          /\ users'[s] \in User \cup {None}
                          /\ Exists(s) => users'[s].email =
                                            IF users[s].email = old THEN new ELSE users[s].email
        OBVIOUS
      <4>1. CASE Exists(s) /\ users[s].email = old
        <5>1. users[s] \in User /\ users'[s] = [users[s] EXCEPT !.email = new]
          BY <3>1, <4>1 DEF Exists, AccountsInv, AccountsTypeOK
        <5>2. users'[s] \in User /\ users'[s].email = new
          BY <2>0, <5>1 DEF User
        <5> QED
          BY <4>1, <5>2, RowsAssumption DEF Exists
      <4>2. CASE ~(Exists(s) /\ users[s].email = old)
        BY <3>1, <4>2 DEF Exists, AccountsInv, AccountsTypeOK
      <4> QED
        BY <4>1, <4>2
    <3>4. /\ credentials' \in [Emails -> Credentials \cup {None}]
          /\ \A e \in Emails \ {old, new} : credentials'[e] = credentials[e]
          /\ old # new
          /\ credentials[old] = None => credentials' = credentials
          /\ credentials[old] # None => credentials'[old] = None /\ credentials'[new] = credentials[old]
      BY <2>0, <3>1, <3>2 DEF MoveLogin, Taken, AccountsInv, AccountsTypeOK
    <3>5. /\ vacated \subseteq vacated' /\ vacated' \subseteq Emails /\ old \in vacated'
          /\ credentials[old] = None => new \in vacated'
      BY <2>0, <3>1 DEF AccountsInv, AccountsTypeOK
    <3> HIDE DEF old, new
    <3>6. AccountsTypeOK'
      <4>1. users' \in [SignUps -> User \cup {None}]
        BY <3>1, <3>3
      <4> QED
        BY <2>0, <3>1, <3>4, <3>5, <4>1 DEF AccountsInv, AccountsTypeOK, PCs
    <3>7. LocalsOK' /\ SignedUp'
      <4>1. LocalsOK'
        BY <2>0, <3>1 DEF AccountsInv, AccountsTypeOK, LocalsOK
      <4>2. SignedUp'
        BY <3>1, <3>3 DEF AccountsInv, AccountsTypeOK, SignedUp, Actors
      <4> QED
        BY <4>1, <4>2
    <3>8. LoginsThere'
      BY <1>0, <2>0, <3>1, <3>4, <3>5, AccountsAssumption DEF AccountsInv, AccountsTypeOK, LoginsThere
    <3>9. EmailsUnique'
      BY <3>2, <3>3 DEF AccountsInv, EmailsUnique
    <3>10. FirstEmails'
      <4>1. \A s \in SignUps : Exists(s)' => First(s, users[s].email)'
        BY <3>3, <3>5 DEF AccountsInv, FirstEmails, First
      <4>2. \A r \in Actors : pc'[r] = "write" => First(local[r].of, local[r].old)'
        BY <1>0, <2>0, <3>1, <3>5 DEF AccountsInv, AccountsTypeOK, FirstEmails, First
      <4>3. ASSUME NEW e \in Emails, credentials'[e] # None
            PROVE  First(credentials[e].of, e)'
        BY <2>0, <3>4, <3>5, <4>3 DEF AccountsInv, FirstEmails, First
      <4> QED
        BY <4>1, <4>2, <4>3 DEF FirstEmails
    <3>11. MissingLoginHasCause'
      <4> SUFFICES ASSUME NEW s \in SignUps, Exists(s), credentials'[users'[s].email] = None
                   PROVE  local[s].login = "background" \/ users'[s].email \in vacated'
        BY <2>0, <3>3 DEF MissingLoginHasCause
      <4>1. users[s].email \in Emails
        BY DEF Exists, AccountsInv, AccountsTypeOK, User
      <4> QED
        BY <2>0, <3>2, <3>3, <3>4, <3>5, <4>1 DEF AccountsInv, MissingLoginHasCause
    <3> QED
      BY <3>6, <3>7, <3>8, <3>9, <3>10, <3>11 DEF AccountsInv
  <2> QED
    BY <2>1, <2>2
<1>5. CASE ForgetCodes(a)
  <2>1. codes' \in [Changes -> Code \cup {None}]
    BY <1>5 DEF ForgetCodes, AccountsInv, AccountsTypeOK
  <2> QED
    BY <1>0, <1>5, <2>1, AccountsQuiet DEF ForgetCodes, Goto, AccountsInv, AccountsTypeOK, PCs
<1> QED
  BY <1>1, <1>2, <1>3, <1>4, <1>5 DEF ChangeStep

LEMMA ResetsKeep ==
  ASSUME AccountsInv, NEW r \in Resets, ResetStep(r)
  PROVE  AccountsInv'
<1>0. r \in Actors /\ local \in [Actors -> Local]
  BY DEF Actors, AccountsInv, AccountsTypeOK, Local
<1>1. ASSUME NEW s \in SignUps, BeginReset(r, s)
      PROVE  AccountsInv'
  <2>1. users[s].email \in Emails /\ First(s, users[s].email)
    BY <1>1 DEF BeginReset, AccountsInv, AccountsTypeOK, FirstEmails, Exists, User
  <2>2. /\ local' \in [Actors -> Local] /\ local'[r].old = users[s].email /\ local'[r].of = s
        /\ \A b \in Actors \ {r} : local'[b] = local[b]
    BY <1>0, <1>1, <2>1 DEF BeginReset, Local
  <2> QED
    BY <1>0, <1>1, <2>1, <2>2, AccountsQuiet DEF BeginReset, Goto, AccountsInv, AccountsTypeOK, PCs
<1>2. CASE ResetUserPassword(r) \/ UpdateUserPassword(r) \/ ResetRawUserPassword(r)
  BY <1>1, <1>2 DEF ResetUserPassword, UpdateUserPassword, ResetRawUserPassword
<1>3. CASE WritePassword(r)
  <2> DEFINE p == [of |-> local[r].of, by |-> r, confirmed |-> TRUE]
  <2>1. /\ local[r].old \in Emails /\ local[r].of \in SignUps
        /\ First(local[r].of, local[r].old)
    BY <1>0, <1>3 DEF WritePassword, AccountsInv, LocalsOK, FirstEmails
  <2>2. p \in Credentials /\ p.of = local[r].of
    BY <2>1 DEF Credentials
  <2>3. credentials' = [credentials EXCEPT ![local[r].old] = p]
    BY <1>3 DEF WritePassword
  <2> HIDE DEF p
  <2> QED
    BY <1>0, <1>3, <2>1, <2>2, <2>3, LoginsWritten
    DEF WritePassword, Goto, AccountsInv, AccountsTypeOK
<1> QED
  BY <1>2, <1>3 DEF ResetStep

LEMMA DeletionsKeep ==
  ASSUME AccountsInv, NEW d \in Deletions, DeletionStep(d)
  PROVE  AccountsInv'
<1>0. d \in Actors /\ local \in [Actors -> Local]
  BY DEF Actors, AccountsInv, AccountsTypeOK, Local
<1>1. CASE DeleteUser(d)
  <2>1. PICK s \in SignUps :
          /\ Exists(s)
          /\ local' = [local EXCEPT ![d].old = users[s].email, ![d].of = s]
    BY <1>1 DEF DeleteUser
  <2>2. users[s].email \in Emails
    BY <2>1 DEF AccountsInv, AccountsTypeOK, Exists, User
  <2>3. /\ local' \in [Actors -> Local] /\ local'[d].old = users[s].email /\ local'[d].of = s
        /\ \A b \in Actors \ {d} : local'[b] = local[b]
    BY <1>0, <2>1, <2>2 DEF Local
  <2> QED
    BY <1>0, <1>1, <2>2, <2>3, AccountsQuiet DEF DeleteUser, Goto, AccountsInv, AccountsTypeOK, PCs
<1>2. CASE RemoveLogin(d)
  <2>1. /\ local[d].old \in Emails /\ local[d].of \in SignUps
        /\ credentials' = [credentials EXCEPT ![local[d].old] = None]
        /\ vacated' = vacated \cup {local[d].old}
        /\ pc[d] = "removeLogin" /\ pc' = [pc EXCEPT ![d] = "removeUser"]
        /\ UNCHANGED <<users, codes, background, local>>
    BY <1>0, <1>2 DEF RemoveLogin, Goto, AccountsInv, LocalsOK
  <2>2. AccountsTypeOK'
    BY <2>1 DEF AccountsInv, AccountsTypeOK, PCs
  <2>3. LocalsOK'
    BY <2>1 DEF AccountsInv, AccountsTypeOK, LocalsOK
  <2>4. SignedUp' /\ EmailsUnique'
    BY <2>1 DEF AccountsInv, AccountsTypeOK, SignedUp, EmailsUnique, Exists, Actors
  <2>5. LoginsThere'
    BY <2>1, AccountsAssumption DEF AccountsInv, AccountsTypeOK, LoginsThere, Actors
  <2>6. FirstEmails'
    BY <2>1 DEF AccountsInv, AccountsTypeOK, FirstEmails, First, Exists
  <2>7. MissingLoginHasCause'
    BY <2>1 DEF AccountsInv, AccountsTypeOK, MissingLoginHasCause, Exists, User
  <2> QED
    BY <2>2, <2>3, <2>4, <2>5, <2>6, <2>7 DEF AccountsInv
<1>3. CASE RemoveUser(d)
  <2>1. PICK l \in {"done", "failed"} :
          /\ pc' = [pc EXCEPT ![d] = l]
          /\ users' \in {users, [users EXCEPT ![local[d].of] = None]}
          /\ local[d].of \in SignUps
          /\ UNCHANGED <<credentials, codes, background, vacated, local>>
    BY <1>0, <1>3 DEF RemoveUser, Goto, AccountsInv, LocalsOK
  <2>2. \A s \in SignUps : users'[s] \in {users[s], None}
    BY <2>1 DEF AccountsInv, AccountsTypeOK
  <2>3. AccountsTypeOK'
    BY <2>1 DEF AccountsInv, AccountsTypeOK, PCs
  <2>4. LocalsOK'
    BY <2>1 DEF AccountsInv, AccountsTypeOK, LocalsOK
  <2>5. SignedUp'
    BY <2>1, <2>2 DEF AccountsInv, AccountsTypeOK, SignedUp, Exists, Actors
  <2>6. LoginsThere'
    BY <2>1 DEF AccountsInv, AccountsTypeOK, LoginsThere, Actors
  <2>7. EmailsUnique' /\ MissingLoginHasCause'
    BY <2>1, <2>2 DEF AccountsInv, EmailsUnique, MissingLoginHasCause, Exists
  <2>8. FirstEmails'
    BY <2>1, <2>2 DEF AccountsInv, AccountsTypeOK, FirstEmails, First, Exists
  <2> QED
    BY <2>3, <2>4, <2>5, <2>6, <2>7, <2>8 DEF AccountsInv
<1> QED
  BY <1>1, <1>2, <1>3 DEF DeletionStep

LEMMA AccountsKeep == AccountsInv /\ AccountsNext => AccountsInv'
<1> SUFFICES ASSUME AccountsInv, AccountsNext
             PROVE  AccountsInv'
  OBVIOUS
<1>1. ASSUME NEW a \in Actors, FailAccount(a)
      PROVE  AccountsInv'
  BY <1>1, AccountsQuiet DEF FailAccount, Goto, AccountsInv, AccountsTypeOK, PCs, Local
<1> QED
  BY <1>1, SignUpsKeep, ChangesKeep, ResetsKeep, DeletionsKeep DEF AccountsNext

LEMMA ForeignLoginsKnown == AccountsInv => ForeignLoginHasCause
<1> SUFFICES ASSUME AccountsInv, NEW s \in SignUps, Exists(s),
                    credentials[users[s].email] # None, credentials[users[s].email].of # s,
                    Exists(credentials[users[s].email].of)
             PROVE  EmailOf[credentials[users[s].email].of] \in vacated
  BY DEF ForeignLoginHasCause
<1> DEFINE e == users[s].email
           t == credentials[e].of
<1>1. e \in Emails /\ t \in SignUps
  BY DEF AccountsInv, AccountsTypeOK, Exists, User, Credentials
<1>2. First(t, e)
  BY <1>1 DEF AccountsInv, FirstEmails
<1>3. First(t, users[t].email)
  BY <1>1 DEF AccountsInv, FirstEmails
<1> QED
  BY <1>1, <1>2, <1>3 DEF AccountsInv, EmailsUnique, First

-----------------------------------------------------------------------------
(* Canvas.                                                                 *)

(* Where a handshake knows its institution, and where its course.          *)
WithCourse == {"linkCourse", "addUsers", "await", "bind"}

Placed == WithCourse \cup {"findToken", "refresh", "createIntent", "saveToken", "listUsers",
                         "findCourse", "insertCourse"}

(* What a visitor has found is there, and a configuration stays once made. *)
VisitorsOK ==
  /\ \A r \in Handshakes :
       /\ stage[r] # "idle" => work[r].visit \in States
       /\ stage[r] \in Placed => /\ work[r].owner \in Institutions /\ work[r].domain \in Domains
                                 /\ configs[work[r].owner] # None
  /\ \A s \in LoginIds : intents[s] # None => configs[intents[s].owner] # None
  /\ \A g \in Configurations :
       /\ stage[g] \in {"findSchool", "insertSchool", "insertConfig", "updateConfig"} =>
            work[g].owner \in Institutions /\ work[g].domain \in Domains
       /\ stage[g] = "insertConfig" => work[g].owner \in canvasSchools
       /\ stage[g] = "updateConfig" => configs[work[g].owner] # None

(* Logins stay once made, and stay deleted, so that nobody exchanges one   *)
(* after an exchange of it is done.                                        *)
LoginsOK ==
  /\ \A s \in LoginIds : intents[s] # None => logins[s] # None
  /\ \A r \in Visitors : work[r].login # None => logins[work[r].login] # None
  /\ \A l \in Launches : stage[l] = "idle" => logins[l] = None
  /\ \A e \in Exchanges :
       /\ stage[e] \in {"mark", "done"} => work[e].login # None
       /\ stage[e] = "done" => logins[work[e].login].deleted
  /\ \A r \in Visitors : work[r].seen = {}

(* The token a handshake may list users with.                              *)
TokensOK ==
  \A r \in Handshakes :
    /\ stage[r] = "listUsers" => token # None /\ (token = Own(r) \/ token \in work[r].since)
    /\ stage[r] \in {"idle", "findConfig"} => work[r].used = {}
    /\ \A k \in work[r].used \ work[r].since : k = Own(r)

(* A linked course is where its link says, and only its own handshake      *)
(* makes and links it.                                                     *)
LinksOK ==
  /\ \A d \in Domains, n \in Numbers :
       LET c == canvasCourses[<<d, n>>]
       IN  c # None => courses[c] # None /\ courses[c].domain = d /\ courses[c].number = n
  /\ \A r \in Handshakes :
       courses[r] # None =>
         /\ stage[r] \in WithCourse \cup {"done", "failed"}
         /\ stage[r] \notin {"linkCourse", "failed"} =>
              canvasCourses[<<courses[r].domain, courses[r].number>>] = r

(* The course c may be given out by r.                                     *)
Fits(c, r) == /\ c \in Handshakes /\ courses[c] # None
              /\ r \in Callbacks \/ courses[c].domain = work[r].domain

BoundOK(b) == b # None => /\ stage[b.by] \in {"await", "bind", "done", "failed"}
                          /\ Fits(b.course, b.by)

BindingsOK ==
  /\ \A r \in Handshakes : stage[r] \in WithCourse => Fits(work[r].course, r)
  /\ \A r \in Handshakes :
       stage[r] = "linkCourse" => /\ work[r].course = r /\ courses[r].domain = work[r].domain
                                  /\ courses[r].number = Visit(r).number
  /\ \A s \in LoginIds : logins[s] # None => BoundOK(logins[s].bound)
  /\ \A s \in SignUps : BoundOK(assigned[s])

CanvasInv == CanvasTypeOK /\ VisitorsOK /\ LoginsOK /\ TokensOK /\ LinksOK /\ BindingsOK

LEMMA VisitorKinds ==
  /\ \A l \in Launches : l \in Visitors /\ l \in LoginIds
  /\ \A r \in Handshakes : r \in Visitors
  /\ \A e \in Exchanges : e \in Visitors /\ e \notin Handshakes
  /\ \A g \in Configurations : g \in Visitors /\ g \notin Handshakes /\ g \notin Exchanges
BY CanvasAssumption DEF Visitors, Handshakes, LoginIds

LEMMA CanvasInitInv == CanvasInit => CanvasInv
<1> SUFFICES ASSUME CanvasInit PROVE CanvasInv
  OBVIOUS
<1>1. CanvasTypeOK
  BY DEF CanvasInit, CanvasTypeOK, NoWork, Work, Stages
<1>2. VisitorsOK /\ LoginsOK
  BY VisitorKinds, CanvasAssumption DEF CanvasInit, VisitorsOK, LoginsOK, NoWork, Placed, WithCourse, LoginIds
<1>3. TokensOK /\ LinksOK /\ BindingsOK
  BY VisitorKinds DEF CanvasInit, TokensOK, LinksOK, BindingsOK, BoundOK, NoWork, WithCourse
<1> QED
  BY <1>1, <1>2, <1>3 DEF CanvasInv

(* Logins that are there stay, bound and deleted as they were.             *)
LoginsStay ==
  /\ logins' \in [LoginIds -> Login \cup {None}]
  /\ \A s \in LoginIds : /\ logins[s] = None => logins'[s] = None
                         /\ logins[s] # None => /\ logins'[s] # None
                                                /\ logins'[s].bound = logins[s].bound
                                                /\ logins[s].deleted => logins'[s].deleted

LEMMA LoginsTouched ==
  ASSUME CanvasTypeOK, NEW s \in LoginIds, logins[s] # None,
         \/ logins' = [logins EXCEPT ![s].valid = TRUE]
         \/ logins' = [logins EXCEPT ![s].valid = FALSE, ![s].deleted = TRUE]
         \/ logins' = [logins EXCEPT ![s].live = FALSE]
  PROVE  LoginsStay
<1>1. logins \in [LoginIds -> Login \cup {None}] /\ logins[s] \in Login
  BY DEF CanvasTypeOK
<1>2. /\ logins' \in [LoginIds -> Login \cup {None}] /\ logins'[s] \in Login
      /\ \A t \in LoginIds \ {s} : logins'[t] = logins[t]
      /\ logins'[s].bound = logins[s].bound
      /\ logins[s].deleted => logins'[s].deleted
  <2>1. CASE logins' = [logins EXCEPT ![s].valid = TRUE]
    BY <1>1, <2>1 DEF Login
  <2>2. CASE logins' = [logins EXCEPT ![s].valid = FALSE, ![s].deleted = TRUE]
    BY <1>1, <2>2 DEF Login
  <2>3. CASE logins' = [logins EXCEPT ![s].live = FALSE]
    BY <1>1, <2>3 DEF Login
  <2> QED
    BY <2>1, <2>2, <2>3
<1> QED
  BY <1>1, <1>2, CanvasRowsAssumption DEF LoginsStay

(* A visitor fails, or goes on with what it has.                           *)
Goes(r, l) ==
  \/ l = "failed"
  \/ stage[r] = "findConfig" /\ l = "discard"
  \/ stage[r] = "discard" /\ l = "done" /\ r \in Handshakes
  \/ stage[r] = "findToken" /\ l \in {"refresh", "createIntent", "saveToken"}
  \/ stage[r] = "await" /\ l = "bind"
  \/ stage[r] = "mark" /\ l = "done" /\ r \in Exchanges /\ logins'[work[r].login].deleted
  \/ stage[r] = "findSchool" /\ l = "insertSchool"
  \/ stage[r] = "findSchool" /\ l = "insertConfig" /\ work[r].owner \in canvasSchools

LEMMA CanvasQuiet ==
  ASSUME CanvasInv, NEW r \in Visitors, NEW l, stage[r] # "idle", Goes(r, l), Onto(r, l),
         LoginsStay,
         UNCHANGED <<configs, canvasSchools, intents, tokens, token, courses, canvasCourses,
                     assigned, work>>
  PROVE  CanvasInv'
<1>0. stage' = [stage EXCEPT ![r] = l] /\ stage \in [Visitors -> Stages] /\ l \in Stages
  BY DEF Onto, Goes, CanvasInv, CanvasTypeOK, Stages
<1>1. CanvasTypeOK'
  BY <1>0 DEF CanvasInv, CanvasTypeOK, OneToOne, LoginsStay
<1>2. VisitorsOK'
  BY <1>0, VisitorKinds DEF CanvasInv, VisitorsOK, Goes, Placed, WithCourse
<1>3. LoginsOK'
  <2>1. \A v \in Visitors : work[v].login # None => work[v].login \in LoginIds
    BY DEF CanvasInv, CanvasTypeOK, Work
  <2> QED
    BY <1>0, <2>1, VisitorKinds DEF CanvasInv, LoginsOK, LoginsStay, Goes, Handshakes, LoginIds
<1>4. TokensOK'
  BY <1>0, VisitorKinds DEF CanvasInv, TokensOK, Goes, Own, Visit
<1>5. LinksOK'
  BY <1>0, VisitorKinds DEF CanvasInv, LinksOK, Goes, WithCourse
<1>6. BindingsOK'
  <2>1. /\ \A h \in Handshakes : stage'[h] \in WithCourse => Fits(work[h].course, h)'
        /\ \A h \in Handshakes :
             stage'[h] = "linkCourse" => /\ work[h].course = h /\ courses[h].domain = work[h].domain
                                         /\ courses[h].number = Visit(h).number
    BY <1>0, VisitorKinds DEF CanvasInv, BindingsOK, Fits, Goes, WithCourse
  <2>2. \A b \in Binding \cup {None} : BoundOK(b) => BoundOK(b)'
    BY <1>0, VisitorKinds DEF BoundOK, Fits, Goes, Binding
  <2>3. /\ \A s \in LoginIds : logins'[s] # None => logins'[s].bound = logins[s].bound /\ logins[s] # None
        /\ \A s \in LoginIds : logins[s] # None => logins[s].bound \in Binding \cup {None}
        /\ \A s \in SignUps : assigned[s] \in Binding \cup {None}
    BY DEF LoginsStay, CanvasInv, CanvasTypeOK, Login
  <2> QED
    BY <2>1, <2>2, <2>3 DEF CanvasInv, BindingsOK, Visit
<1> QED
  BY <1>1, <1>2, <1>3, <1>4, <1>5, <1>6 DEF CanvasInv

LEMMA NothingLoggedIn ==
  ASSUME CanvasTypeOK, UNCHANGED logins PROVE LoginsStay
BY DEF CanvasTypeOK, LoginsStay

(* Steps that find what they look for, or fail.                            *)
LEMMA QuietSteps ==
  ASSUME CanvasInv, NEW r \in Visitors,
         \/ r \in Handshakes /\ (Discard(r) \/ GetToken(r) \/ AwaitUsers(r))
         \/ r \in Exchanges /\ MarkUsed(r)
         \/ FindCanvasSchool(r) \/ FailVisitor(r)
  PROVE  CanvasInv'
<1>0. CanvasTypeOK /\ LoginsOK
  BY DEF CanvasInv
<1>1. CASE r \in Handshakes /\ Discard(r)
  <2>1. CASE work[r].login = None
    BY <1>0, <1>1, <2>1, CanvasQuiet, NothingLoggedIn DEF Discard, Goes
  <2>2. CASE work[r].login # None
    <3>1. work[r].login \in LoginIds /\ logins[work[r].login] # None
      BY <1>0, <2>2 DEF LoginsOK, CanvasTypeOK, Work
    <3>2. LoginsStay
      BY <1>0, <1>1, <2>2, <3>1, LoginsTouched DEF Discard
    <3> QED
      BY <1>1, <2>2, <3>2, CanvasQuiet DEF Discard, Goes
  <2> QED
    BY <2>1, <2>2
<1>2. CASE r \in Handshakes /\ GetToken(r)
  BY <1>0, <1>2, CanvasQuiet, NothingLoggedIn DEF GetToken, Goes
<1>3. CASE r \in Handshakes /\ AwaitUsers(r)
  BY <1>0, <1>3, CanvasQuiet, NothingLoggedIn DEF AwaitUsers, Goes
<1>4. CASE r \in Exchanges /\ MarkUsed(r)
  <2>1. work[r].login \in LoginIds /\ logins[work[r].login] # None
    BY <1>0, <1>4 DEF MarkUsed, LoginsOK, CanvasTypeOK, Work
  <2>2. logins' = [logins EXCEPT ![work[r].login].valid = FALSE, ![work[r].login].deleted = TRUE]
    BY <1>4 DEF MarkUsed
  <2>3. LoginsStay
    BY <1>0, <2>1, <2>2, LoginsTouched
  <2>4. logins'[work[r].login].deleted
    BY <1>0, <2>1, <2>2 DEF CanvasTypeOK, Login
  <2> QED
    BY <1>4, <2>3, <2>4, CanvasQuiet DEF MarkUsed, Goes
<1>5. CASE FindCanvasSchool(r) /\ work[r].owner \in canvasSchools
  BY <1>0, <1>5, CanvasQuiet, NothingLoggedIn DEF FindCanvasSchool, Goes
<1>6. CASE FindCanvasSchool(r) /\ work[r].owner \notin canvasSchools
  BY <1>0, <1>6, CanvasQuiet, NothingLoggedIn DEF FindCanvasSchool, Goes
<1>7. CASE FailVisitor(r)
  BY <1>0, <1>7, CanvasQuiet, NothingLoggedIn DEF FailVisitor, Goes
<1> QED
  BY <1>1, <1>2, <1>3, <1>4, <1>5, <1>6, <1>7

LEMMA RedirectKeeps ==
  ASSUME CanvasInv, NEW x \in States, GetLTIAuthRedirectUrl(x)
  PROVE  CanvasInv'
<1> DEFINE row == [valid |-> FALSE, deleted |-> FALSE, live |-> TRUE, bound |-> None]
<1>1. row \in Login /\ row # None /\ row.bound = None
  <2>1. row \in Login
    BY DEF Login
  <2> QED
    BY <2>1, CanvasRowsAssumption
<1>2. logins' = [logins EXCEPT ![x] = row] /\ logins[x] = None /\ x \in LoginIds /\ x \notin Launches
  BY CanvasAssumption DEF GetLTIAuthRedirectUrl, LoginIds
<1>3. UNCHANGED <<configs, canvasSchools, intents, tokens, token, courses, canvasCourses, assigned,
                  stage, work>>
  BY DEF GetLTIAuthRedirectUrl
<1> HIDE DEF row
<1>4. CanvasTypeOK'
  BY <1>1, <1>2, <1>3 DEF CanvasInv, CanvasTypeOK, OneToOne
<1>5. VisitorsOK' /\ TokensOK' /\ LinksOK'
  BY <1>3 DEF CanvasInv, VisitorsOK, TokensOK, Own, Visit, LinksOK
<1>6. LoginsOK'
  BY <1>1, <1>2, <1>3, VisitorKinds DEF CanvasInv, CanvasTypeOK, LoginsOK, Work, LoginIds
<1>7. BindingsOK'
  BY <1>1, <1>2, <1>3 DEF CanvasInv, CanvasTypeOK, BindingsOK, BoundOK, Fits, Visit
<1> QED
  BY <1>4, <1>5, <1>6, <1>7 DEF CanvasInv

LEMMA ExpireKeeps ==
  ASSUME CanvasInv, NEW s \in LoginIds, Expire(s)
  PROVE  CanvasInv'
<1>1. LoginsStay
  BY LoginsTouched DEF Expire, CanvasInv
<1>2. UNCHANGED <<configs, canvasSchools, intents, tokens, token, courses, canvasCourses, assigned,
                  stage, work>>
  BY DEF Expire
<1>3. CanvasTypeOK'
  BY <1>1, <1>2 DEF CanvasInv, CanvasTypeOK, OneToOne, LoginsStay
<1>4. VisitorsOK' /\ TokensOK' /\ LinksOK'
  BY <1>2 DEF CanvasInv, VisitorsOK, TokensOK, Own, Visit, LinksOK
<1>5. LoginsOK'
  BY <1>1, <1>2, VisitorKinds DEF CanvasInv, CanvasTypeOK, LoginsOK, Work, LoginIds, LoginsStay
<1>6. BindingsOK'
  BY <1>1, <1>2 DEF CanvasInv, CanvasTypeOK, BindingsOK, BoundOK, Fits, Visit, LoginsStay
<1> QED
  BY <1>3, <1>4, <1>5, <1>6 DEF CanvasInv

LEMMA LaunchKeeps ==
  ASSUME CanvasInv, NEW l \in Handshakes, Launch(l)
  PROVE  CanvasInv'
<1>0. l \in Visitors /\ l \in Launches /\ l \in LoginIds /\ stage[l] = "idle" /\ work \in [Visitors -> Work]
  BY VisitorKinds DEF Launch, LoginIds, CanvasInv, CanvasTypeOK
<1> DEFINE Sends(x, s) ==
             /\ logins[x] # None
             /\ logins' = IF s = x THEN [logins EXCEPT ![x].valid = TRUE]
                          ELSE IF s = l THEN [logins EXCEPT ![l] = [valid |-> TRUE, deleted |-> FALSE,
                                                                   live |-> FALSE, bound |-> None]]
                          ELSE logins
             /\ work' = [work EXCEPT ![l].visit = x, ![l].login = s]
<1>a. PICK x \in States : \E s \in {x, l, None} : Sends(x, s)
  BY DEF Launch
<1>1. PICK s \in {x, l, None} : Sends(x, s)
  BY <1>a
<1>2. /\ stage' = [stage EXCEPT ![l] = "findConfig"]
      /\ UNCHANGED <<configs, canvasSchools, intents, tokens, token, courses, canvasCourses, assigned>>
  BY DEF Launch, Onto
<1>3. x \in LoginIds /\ x # l /\ None \notin LoginIds
  BY <1>0, <1>1, CanvasAssumption DEF LoginIds
<1>4. /\ work' \in [Visitors -> Work] /\ work'[l].visit = x /\ work'[l].login = s
      /\ work'[l].used = work[l].used /\ work'[l].since = work[l].since /\ work'[l].seen = work[l].seen
      /\ \A v \in Visitors \ {l} : work'[v] = work[v]
  BY <1>0, <1>1, <1>3 DEF Work
<1>5. /\ logins' \in [LoginIds -> Login \cup {None}]
      /\ s # None => logins'[s] # None
      /\ logins[l] = None
      /\ \A t \in LoginIds \ {l} : /\ logins[t] = None => logins'[t] = None
                                   /\ logins[t] # None => /\ logins'[t] # None
                                                          /\ logins'[t].bound = logins[t].bound
                                                          /\ logins[t].deleted => logins'[t].deleted
      /\ logins'[l] # None => logins'[l].bound = None
  <2>1. logins[l] = None /\ logins \in [LoginIds -> Login \cup {None}]
    BY <1>0 DEF CanvasInv, LoginsOK, CanvasTypeOK
  <2>2. CASE s = x
    <3>1. LoginsStay
      BY <1>1, <1>3, <2>2, LoginsTouched DEF CanvasInv
    <3> QED
      BY <1>0, <1>1, <1>3, <2>1, <2>2, <3>1 DEF LoginsStay
  <2>3. CASE s = l
    <3> DEFINE row == [valid |-> TRUE, deleted |-> FALSE, live |-> FALSE, bound |-> None]
    <3>1. row \in Login /\ row # None /\ row.bound = None
      <4>1. row \in Login
        BY DEF Login
      <4> QED
        BY <4>1, CanvasRowsAssumption
    <3>2. logins' = [logins EXCEPT ![l] = row]
      BY <1>1, <1>3, <2>3
    <3> HIDE DEF row
    <3> QED
      BY <1>0, <2>1, <2>3, <3>1, <3>2
  <2>4. CASE s = None
    BY <1>0, <1>1, <1>3, <2>1, <2>4
  <2> QED
    BY <2>2, <2>3, <2>4
<1>6. CanvasTypeOK'
  BY <1>0, <1>2, <1>4, <1>5 DEF CanvasInv, CanvasTypeOK, OneToOne, Stages
<1>7. VisitorsOK'
  BY <1>0, <1>2, <1>4, VisitorKinds DEF CanvasInv, CanvasTypeOK, VisitorsOK, Placed, WithCourse
<1>8. LoginsOK'
  <2>1. \A v \in Visitors : work[v].login # None => work[v].login \in LoginIds
    BY <1>0 DEF Work
  <2>2. \A t \in LoginIds : logins[t] # None => logins'[t] # None /\ (logins[t].deleted => logins'[t].deleted)
    BY <1>5
  <2>3. \A t \in LoginIds : intents'[t] # None => logins'[t] # None
    BY <1>2, <2>2 DEF CanvasInv, LoginsOK
  <2>4. /\ \A v \in Visitors : work'[v].login # None => logins'[work'[v].login] # None
        /\ \A v \in Visitors : work'[v].seen = {}
    BY <1>0, <1>4, <1>5, <2>1, <2>2 DEF CanvasInv, LoginsOK
  <2>5. ASSUME NEW k \in Launches, stage'[k] = "idle" PROVE logins'[k] = None
    <3>1. k # l /\ stage[k] = "idle" /\ k \in LoginIds
      BY <1>0, <1>2, <2>5, VisitorKinds DEF CanvasInv, CanvasTypeOK
    <3> QED
      BY <1>5, <3>1 DEF CanvasInv, LoginsOK
  <2>6. \A e \in Exchanges : /\ stage'[e] \in {"mark", "done"} => work'[e].login # None
                             /\ stage'[e] = "done" => logins'[work'[e].login].deleted
    BY <1>0, <1>2, <1>4, <2>1, <2>2, VisitorKinds DEF CanvasInv, CanvasTypeOK, LoginsOK
  <2> QED
    BY <2>3, <2>4, <2>5, <2>6 DEF LoginsOK
<1>9. TokensOK'
  BY <1>0, <1>2, <1>4, VisitorKinds DEF CanvasInv, CanvasTypeOK, TokensOK, Own, Visit
<1>10. LinksOK'
  BY <1>0, <1>2, VisitorKinds DEF CanvasInv, CanvasTypeOK, LinksOK, WithCourse
<1>11. BindingsOK'
  <2>1. /\ \A h \in Handshakes : stage'[h] \in WithCourse => Fits(work[h].course, h)'
        /\ \A h \in Handshakes :
             stage'[h] = "linkCourse" => /\ work'[h].course = h /\ courses'[h].domain = work'[h].domain
                                         /\ courses'[h].number = VisitOf[work'[h].visit].number
    BY <1>0, <1>2, <1>4, VisitorKinds DEF CanvasInv, CanvasTypeOK, BindingsOK, Fits, WithCourse, Visit
  <2>2. \A b \in Binding \cup {None} : BoundOK(b) => BoundOK(b)'
    BY <1>0, <1>2, <1>4, VisitorKinds DEF BoundOK, Fits, Binding, CanvasInv, CanvasTypeOK
  <2>3. /\ \A t \in LoginIds : logins[t] # None => BoundOK(logins[t].bound) /\ logins[t].bound \in Binding \cup {None}
        /\ \A t \in SignUps : BoundOK(assigned[t]) /\ assigned[t] \in Binding \cup {None}
    BY DEF CanvasInv, CanvasTypeOK, Login, BindingsOK
  <2>4. BoundOK(None)'
    BY DEF BoundOK
  <2>5. ASSUME NEW t \in LoginIds, logins'[t] # None PROVE BoundOK(logins[t].bound)'
    <3>1. CASE logins'[t].bound = None
      BY <2>4, <3>1 DEF BoundOK
    <3>2. CASE logins'[t].bound # None
      <4>1. logins[t] # None /\ logins'[t].bound = logins[t].bound
        BY <1>5, <2>5, <3>2
      <4> QED
        BY <2>2, <2>3, <4>1 DEF BoundOK
    <3> QED
      BY <3>1, <3>2
  <2> QED
    BY <1>2, <2>1, <2>2, <2>3, <2>5 DEF BindingsOK, Visit
<1> QED
  BY <1>6, <1>7, <1>8, <1>9, <1>10, <1>11 DEF CanvasInv

(* The work of others is as it was, but for the tokens the client got.     *)
Elsewhere(v) ==
  /\ work'[v].visit = work[v].visit /\ work'[v].login = work[v].login
  /\ work'[v].owner = work[v].owner /\ work'[v].domain = work[v].domain
  /\ work'[v].course = work[v].course /\ work'[v].used = work[v].used
  /\ work'[v].seen = work[v].seen /\ work[v].since \subseteq work'[v].since
  /\ stage[v] = "listUsers" => token' = token \/ (token' # None /\ token' \in work'[v].since)

Onwards == {"findToken", "createIntent", "listUsers", "findCourse", "insertCourse", "addUsers", "mark",
            "findSchool", "updateConfig"}

(* A visitor that has not given a course out yet finds more.               *)
LEMMA WorkChanged ==
  ASSUME CanvasInv, NEW r \in Visitors,
         NEW l \in Onwards,
         stage[r] \in {"idle", "findConfig", "refresh", "saveToken", "listUsers", "findCourse"},
         Onto(r, l),
         UNCHANGED <<configs, canvasSchools, logins, intents, courses, canvasCourses, assigned>>,
         tokens' \subseteq Tokens, token' \in Tokens \cup {None},
         work' \in [Visitors -> Work], \A v \in Visitors \ {r} : Elsewhere(v),
         work'[r].seen = {},
         work'[r].login # None => logins[work'[r].login] # None,
         r \in Exchanges => l = "mark" /\ work'[r].login # None,
         r \in Configurations =>
           /\ work'[r].owner \in Institutions /\ work'[r].domain \in Domains
           /\ l = "updateConfig" => configs[work'[r].owner] # None,
         r \in Handshakes =>
           /\ work'[r].visit \in States
           /\ l \in Placed => /\ work'[r].owner \in Institutions /\ work'[r].domain \in Domains
                              /\ configs[work'[r].owner] # None
           /\ l = "listUsers" => token' # None /\ (token' = Own(r)' \/ token' \in work'[r].since)
           /\ \A k \in work'[r].used \ work'[r].since : k = Own(r)'
           /\ l = "addUsers" => Fits(work[r].course, r)'
  PROVE  CanvasInv'
<1>0. /\ stage' = [stage EXCEPT ![r] = l] /\ stage \in [Visitors -> Stages] /\ l \in Stages
      /\ l \notin {"idle", "findConfig", "linkCourse", "await", "bind", "insertConfig", "done"}
  BY DEF Onto, CanvasInv, CanvasTypeOK, Stages, Onwards
<1>1. CanvasTypeOK'
  BY <1>0 DEF CanvasInv, CanvasTypeOK, OneToOne
<1>2. VisitorsOK'
  <2>1. ASSUME NEW h \in Handshakes
        PROVE  /\ stage'[h] # "idle" => work'[h].visit \in States
               /\ stage'[h] \in Placed => /\ work'[h].owner \in Institutions
                                          /\ work'[h].domain \in Domains
                                          /\ configs[work'[h].owner] # None
    BY <1>0, VisitorKinds DEF CanvasInv, VisitorsOK, Elsewhere
  <2>2. ASSUME NEW g \in Configurations
        PROVE  /\ stage'[g] \in {"findSchool", "insertSchool", "insertConfig", "updateConfig"} =>
                    work'[g].owner \in Institutions /\ work'[g].domain \in Domains
               /\ stage'[g] = "insertConfig" => work'[g].owner \in canvasSchools
               /\ stage'[g] = "updateConfig" => configs[work'[g].owner] # None
    BY <1>0, VisitorKinds DEF CanvasInv, VisitorsOK, Elsewhere
  <2> QED
    BY <2>1, <2>2 DEF CanvasInv, VisitorsOK
<1>3. LoginsOK'
  BY <1>0, VisitorKinds DEF CanvasInv, LoginsOK, Elsewhere
<1>4. TokensOK'
  <2> SUFFICES ASSUME NEW h \in Handshakes
               PROVE  /\ stage'[h] = "listUsers" => token' # None /\ (token' = Own(h)' \/ token' \in work'[h].since)
                      /\ stage'[h] \in {"idle", "findConfig"} => work'[h].used = {}
                      /\ \A k \in work'[h].used \ work'[h].since : k = Own(h)'
    BY DEF TokensOK
  <2>1. CASE h = r
    BY <1>0, <2>1
  <2>2. CASE h # r
    BY <1>0, <2>2, VisitorKinds DEF CanvasInv, TokensOK, Elsewhere, Own, Visit
  <2> QED
    BY <2>1, <2>2
<1>5. LinksOK'
  <2>1. r \in Handshakes => courses[r] = None
    BY DEF CanvasInv, LinksOK, WithCourse
  <2> QED
    BY <1>0, <2>1, VisitorKinds DEF CanvasInv, LinksOK
<1>6. BindingsOK'
  <2>1. /\ \A h \in Handshakes : stage'[h] \in WithCourse => Fits(work[h].course, h)'
        /\ \A h \in Handshakes :
             stage'[h] = "linkCourse" => /\ work'[h].course = h /\ courses'[h].domain = work'[h].domain
                                         /\ courses'[h].number = VisitOf[work'[h].visit].number
    BY <1>0, VisitorKinds DEF CanvasInv, BindingsOK, Fits, WithCourse, Visit, Elsewhere
  <2>2. \A b \in Binding \cup {None} : BoundOK(b) => BoundOK(b)'
    BY <1>0, VisitorKinds DEF BoundOK, Fits, Binding, Elsewhere
  <2>3. /\ \A t \in LoginIds : logins[t] # None => logins[t].bound \in Binding \cup {None}
        /\ \A t \in SignUps : assigned[t] \in Binding \cup {None}
    BY DEF CanvasInv, CanvasTypeOK, Login
  <2> QED
    BY <2>1, <2>2, <2>3 DEF CanvasInv, BindingsOK, Visit
<1> QED
  BY <1>1, <1>2, <1>3, <1>4, <1>5, <1>6 DEF CanvasInv

LEMMA FindConfigKeeps ==
  ASSUME CanvasInv, NEW r \in Handshakes, GetLTIConfigurationByDomain(r)
  PROVE  CanvasInv'
<1>0. /\ CanvasTypeOK /\ work \in [Visitors -> Work] /\ r \in Visitors /\ r \notin Exchanges
      /\ r \notin Configurations /\ work[r].visit \in States /\ stage[r] = "findConfig"
      /\ work[r].seen = {} /\ work[r].used = {}
      /\ work[r].login # None => logins[work[r].login] # None
  BY VisitorKinds DEF GetLTIConfigurationByDomain, CanvasInv, CanvasTypeOK, VisitorsOK, LoginsOK, TokensOK
<1>1. CASE Onto(r, "discard") /\ UNCHANGED work
  BY <1>0, <1>1, CanvasQuiet, NothingLoggedIn DEF GetLTIConfigurationByDomain, Goes
<1>2. ASSUME NEW i \in Institutions, configs[i] = Visit(r).domain, Onto(r, "findToken"),
             work' = [work EXCEPT ![r].owner = i, ![r].domain = configs[i]]
      PROVE  CanvasInv'
  <2>1. configs[i] \in Domains /\ configs[i] # None
    BY <1>0, <1>2, CanvasAssumption DEF Visit
  <2>2. /\ work' \in [Visitors -> Work] /\ work'[r].owner = i /\ work'[r].domain = configs[i]
        /\ work'[r].visit = work[r].visit /\ work'[r].login = work[r].login
        /\ work'[r].used = {} /\ work'[r].seen = {}
        /\ \A v \in Visitors \ {r} : work'[v] = work[v]
    BY <1>0, <1>2, <2>1 DEF Work
  <2>3. UNCHANGED <<configs, canvasSchools, logins, intents, tokens, token, courses, canvasCourses,
                    assigned>>
    BY DEF GetLTIConfigurationByDomain
  <2>4. \A v \in Visitors \ {r} : Elsewhere(v)
    BY <2>2, <2>3 DEF Elsewhere
  <2>5. "findToken" \in Onwards
    BY DEF Onwards
  <2> QED
    BY <1>0, <1>2, <2>1, <2>2, <2>3, <2>4, <2>5, WorkChanged DEF CanvasTypeOK
<1> QED
  BY <1>1, <1>2 DEF GetLTIConfigurationByDomain

LEMMA OwnToken ==
  ASSUME CanvasInv, NEW r \in Handshakes, stage[r] \in Placed
  PROVE  Own(r) \in Tokens /\ Own(r) # None
<1>1. work[r].visit \in States /\ work[r].domain \in Domains
  BY DEF CanvasInv, VisitorsOK, Placed, WithCourse
<1>2. Own(r) \in Tokens
  BY <1>1 DEF Own, Visit, Tokens
<1> QED
  BY <1>2, CanvasAssumption

LEMMA HoldKeeps ==
  ASSUME CanvasInv, NEW r \in Handshakes, stage[r] \in {"refresh", "saveToken"}, Hold(r),
         UNCHANGED <<configs, canvasSchools, logins, intents, courses, canvasCourses, assigned>>,
         tokens' \in {tokens, tokens \cup {Own(r)}}
  PROVE  CanvasInv'
<1>0. /\ CanvasTypeOK /\ work \in [Visitors -> Work] /\ r \in Visitors /\ r \notin Exchanges
      /\ r \notin Configurations /\ stage[r] \in Placed
      /\ work[r].seen = {}
      /\ work[r].login # None => logins[work[r].login] # None
      /\ work[r].visit \in States /\ work[r].owner \in Institutions /\ work[r].domain \in Domains
      /\ configs[work[r].owner] # None
      /\ \A k \in work[r].used \ work[r].since : k = Own(r)
  BY VisitorKinds DEF CanvasInv, CanvasTypeOK, VisitorsOK, LoginsOK, TokensOK, Placed
<1>1. Own(r) \in Tokens /\ Own(r) # None
  BY <1>0, OwnToken
<1>2. token' = Own(r) /\ Onto(r, "listUsers")
  BY DEF Hold
<1> DEFINE w(v) == [work[v] EXCEPT !.since = @ \cup {Own(r)}]
<1>3. \A v \in Visitors : work'[v] = IF v # r /\ stage[v] = "listUsers" THEN w(v) ELSE work[v]
  BY DEF Hold
<1>4. \A v \in Visitors : /\ w(v) \in Work /\ w(v).visit = work[v].visit /\ w(v).login = work[v].login
                          /\ w(v).owner = work[v].owner /\ w(v).domain = work[v].domain
                          /\ w(v).course = work[v].course /\ w(v).used = work[v].used
                          /\ w(v).seen = work[v].seen
                          /\ w(v).since = work[v].since \cup {Own(r)}
  <2> SUFFICES ASSUME NEW v \in Visitors
               PROVE  /\ w(v) \in Work /\ w(v).visit = work[v].visit /\ w(v).login = work[v].login
                      /\ w(v).owner = work[v].owner /\ w(v).domain = work[v].domain
                      /\ w(v).course = work[v].course /\ w(v).used = work[v].used
                      /\ w(v).seen = work[v].seen
                      /\ w(v).since = work[v].since \cup {Own(r)}
    OBVIOUS
  <2> DEFINE o == work[v]
             n == [o EXCEPT !.since = o.since \cup {Own(r)}]
  <2>1. o \in Work /\ w(v) = n
    BY <1>0
  <2> HIDE DEF o
  <2>2. n \in Work /\ n.visit = o.visit /\ n.login = o.login /\ n.owner = o.owner
        /\ n.domain = o.domain /\ n.course = o.course /\ n.used = o.used /\ n.seen = o.seen
        /\ n.since = o.since \cup {Own(r)}
    BY <1>1, <2>1 DEF Work
  <2> QED
    BY <2>1, <2>2 DEF o
<1> HIDE DEF w
<1>5. work' \in [Visitors -> Work] /\ work'[r] = work[r]
  <2>1. \A v \in Visitors : work'[v] \in Work
    BY <1>0, <1>3, <1>4
  <2> QED
    BY <1>0, <1>3, <2>1 DEF Hold
<1>6. \A v \in Visitors \ {r} : Elsewhere(v)
  BY <1>1, <1>2, <1>3, <1>4 DEF Elsewhere
<1>7. "listUsers" \in Onwards
  BY DEF Onwards
<1>8. Own(r)' = Own(r)
  BY <1>5 DEF Own, Visit
<1>9. tokens' \subseteq Tokens
  BY <1>0, <1>1 DEF CanvasTypeOK
<1> QED
  BY <1>0, <1>1, <1>2, <1>5, <1>6, <1>7, <1>8, <1>9, WorkChanged

LEMMA TokenSteps ==
  ASSUME CanvasInv, NEW r \in Handshakes, RefreshToken(r) \/ GenerateNewUserToken(r)
  PROVE  CanvasInv'
<1>1. CASE RefreshToken(r)
  BY <1>1, HoldKeeps DEF RefreshToken
<1>2. CASE GenerateNewUserToken(r) /\ Own(r) \in tokens
  BY <1>2, CanvasQuiet, NothingLoggedIn, VisitorKinds DEF GenerateNewUserToken, Goes, CanvasInv
<1>3. CASE GenerateNewUserToken(r) /\ Own(r) \notin tokens
  BY <1>3, HoldKeeps DEF GenerateNewUserToken
<1> QED
  BY <1>1, <1>2, <1>3

LEMMA IntentKeeps ==
  ASSUME CanvasInv, NEW r \in Handshakes, CreateLoginIntent(r)
  PROVE  CanvasInv'
<1> DEFINE s == work[r].login
           row == [visit |-> work[r].visit, owner |-> work[r].owner]
<1>0. /\ r \in Visitors /\ s \in LoginIds \cup {None} /\ stage[r] = "createIntent"
      /\ work[r].visit \in States /\ work[r].owner \in Institutions /\ configs[work[r].owner] # None
      /\ s # None => logins[s] # None
      /\ courses[r] = None /\ r \notin Exchanges /\ r \notin Configurations
  BY VisitorKinds
  DEF CreateLoginIntent, CanvasInv, CanvasTypeOK, Work, VisitorsOK, LoginsOK, LinksOK, Placed, WithCourse
<1>1. CASE s = None \/ (s \in LoginIds /\ intents[s] # None)
  BY <1>0, <1>1, CanvasQuiet, NothingLoggedIn DEF CreateLoginIntent, Goes, CanvasInv
<1>2. CASE s \in LoginIds /\ intents[s] = None
  <2>1. row \in Intent /\ row.owner = work[r].owner
    BY <1>0 DEF Intent
  <2>2. /\ intents' = [intents EXCEPT ![s] = row] /\ stage' = [stage EXCEPT ![r] = "done"]
        /\ UNCHANGED <<configs, canvasSchools, logins, tokens, token, courses, canvasCourses,
                       assigned, work>>
    BY <1>2, CanvasAssumption DEF CreateLoginIntent, Onto
  <2> HIDE DEF row
  <2>3. CanvasTypeOK'
    BY <1>0, <1>2, <2>1, <2>2 DEF CanvasInv, CanvasTypeOK, OneToOne, Stages
  <2>4. VisitorsOK'
    BY <1>0, <1>2, <2>1, <2>2, VisitorKinds
    DEF CanvasInv, CanvasTypeOK, VisitorsOK, Placed, WithCourse
  <2>5. LoginsOK'
    <3>1. \A t \in LoginIds : intents'[t] # None => logins[t] # None
      BY <1>0, <1>2, <2>2, CanvasAssumption DEF CanvasInv, CanvasTypeOK, LoginsOK
    <3>2. /\ \A l \in Launches : stage'[l] = "idle" => stage[l] = "idle"
          /\ \A e \in Exchanges : stage'[e] = stage[e]
      BY <1>0, <2>2, VisitorKinds DEF CanvasInv, CanvasTypeOK
    <3> QED
      BY <2>2, <3>1, <3>2 DEF CanvasInv, LoginsOK
  <2>6. TokensOK'
    BY <1>0, <2>2, VisitorKinds DEF CanvasInv, CanvasTypeOK, TokensOK, Own, Visit
  <2>7. LinksOK'
    BY <1>0, <2>2, VisitorKinds DEF CanvasInv, CanvasTypeOK, LinksOK
  <2>8. BindingsOK'
    BY <1>0, <2>2, VisitorKinds DEF CanvasInv, CanvasTypeOK, BindingsOK, BoundOK, Fits, WithCourse, Visit
  <2> QED
    BY <2>3, <2>4, <2>5, <2>6, <2>7, <2>8 DEF CanvasInv
<1> QED
  BY <1>0, <1>1, <1>2

LEMMA CallbackKeeps ==
  ASSUME CanvasInv, NEW r \in Handshakes, HandleOauth2Callback(r)
  PROVE  CanvasInv'
<1>1. PICK s \in LoginIds :
        /\ intents[s] # None
        /\ work' = [work EXCEPT ![r] = [@ EXCEPT !.login = s, !.visit = intents[s].visit,
                      !.owner = intents[s].owner, !.domain = configs[intents[s].owner]]]
  BY DEF HandleOauth2Callback
<1>2. /\ intents[s].visit \in States /\ intents[s].owner \in Institutions
      /\ configs[intents[s].owner] \in Domains /\ configs[intents[s].owner] # None
      /\ logins[s] # None
  BY <1>1 DEF CanvasInv, CanvasTypeOK, Intent, VisitorsOK, LoginsOK
<1>3. /\ r \in Visitors /\ r \notin Exchanges /\ r \notin Configurations
      /\ work \in [Visitors -> Work] /\ stage[r] = "idle" /\ work[r].seen = {} /\ work[r].used = {}
  BY VisitorKinds DEF HandleOauth2Callback, CanvasInv, CanvasTypeOK, LoginsOK, TokensOK
<1>4. /\ work' \in [Visitors -> Work] /\ work'[r].login = s /\ work'[r].visit = intents[s].visit
      /\ work'[r].owner = intents[s].owner /\ work'[r].domain = configs[intents[s].owner]
      /\ work'[r].used = {} /\ work'[r].seen = {}
      /\ \A v \in Visitors \ {r} : work'[v] = work[v]
  <2> DEFINE o == work[r]
             n == [o EXCEPT !.login = s, !.visit = intents[s].visit,
                            !.owner = intents[s].owner, !.domain = configs[intents[s].owner]]
  <2>1. o \in Work /\ o.used = {} /\ o.seen = {} /\ work' = [work EXCEPT ![r] = n]
    BY <1>1, <1>3
  <2> HIDE DEF o
  <2>2. n \in Work /\ n.login = s /\ n.visit = intents[s].visit /\ n.owner = intents[s].owner
        /\ n.domain = configs[intents[s].owner] /\ n.used = {} /\ n.seen = {}
    BY <1>1, <1>2, <2>1 DEF Work
  <2> QED
    BY <1>3, <2>1, <2>2
<1>5. /\ UNCHANGED <<configs, canvasSchools, logins, intents, tokens, token, courses, canvasCourses,
                     assigned>>
      /\ Onto(r, "findToken")
  BY DEF HandleOauth2Callback
<1>6. \A v \in Visitors \ {r} : Elsewhere(v)
  BY <1>4, <1>5 DEF Elsewhere
<1>7. "findToken" \in Onwards
  BY DEF Onwards
<1> QED
  BY <1>2, <1>3, <1>4, <1>5, <1>6, <1>7, WorkChanged DEF CanvasInv, CanvasTypeOK

(* What a handshake that has its institution knows.                        *)
LEMMA PlacedFacts ==
  ASSUME CanvasInv, NEW r \in Handshakes, stage[r] \in Placed
  PROVE  /\ work \in [Visitors -> Work] /\ stage \in [Visitors -> Stages]
         /\ r \in Visitors /\ r \notin Exchanges /\ r \notin Configurations
         /\ work[r].visit \in States /\ work[r].owner \in Institutions /\ work[r].domain \in Domains
         /\ configs[work[r].owner] # None /\ Visit(r).number \in Numbers
         /\ work[r].seen = {} /\ work[r].login \in LoginIds \cup {None}
         /\ work[r].login # None => logins[work[r].login] # None
         /\ \A k \in work[r].used \ work[r].since : k = Own(r)
         /\ stage[r] = "listUsers" => token \in Tokens /\ (token = Own(r) \/ token \in work[r].since)
<1>1. work \in [Visitors -> Work] /\ stage \in [Visitors -> Stages] /\ token \in Tokens \cup {None}
  BY DEF CanvasInv, CanvasTypeOK
<1>2. r \in Visitors /\ r \notin Exchanges /\ r \notin Configurations
  BY VisitorKinds
<1>3. /\ work[r].visit \in States /\ work[r].owner \in Institutions /\ work[r].domain \in Domains
      /\ configs[work[r].owner] # None
  BY DEF CanvasInv, VisitorsOK, Placed, WithCourse
<1>4. Visit(r).number \in Numbers
  BY <1>3, CanvasAssumption DEF Visit
<1>5. /\ work[r].seen = {} /\ work[r].login \in LoginIds \cup {None}
      /\ work[r].login # None => logins[work[r].login] # None
  BY <1>1, <1>2 DEF CanvasInv, LoginsOK, Work
<1>6. /\ \A k \in work[r].used \ work[r].since : k = Own(r)
      /\ stage[r] = "listUsers" => token \in Tokens /\ (token = Own(r) \/ token \in work[r].since)
  BY <1>1 DEF CanvasInv, TokensOK
<1> QED
  BY <1>1, <1>2, <1>3, <1>4, <1>5, <1>6

LEMMA ListKeeps ==
  ASSUME CanvasInv, NEW r \in Handshakes, GetAllCourseUsers(r)
  PROVE  CanvasInv'
<1>0. stage[r] = "listUsers" /\ stage[r] \in Placed
  BY DEF GetAllCourseUsers, Placed
<1>1. CASE token[2] # work[r].domain
  BY <1>0, <1>1, PlacedFacts, CanvasQuiet, NothingLoggedIn DEF GetAllCourseUsers, Goes, CanvasInv
<1>2. CASE token[2] = work[r].domain
  <2>1. PICK l \in {"listUsers", "findCourse"} : Onto(r, l)
    BY <1>2 DEF GetAllCourseUsers
  <2>2. /\ work' = [work EXCEPT ![r].used = @ \cup {token}]
        /\ UNCHANGED <<configs, canvasSchools, logins, intents, tokens, token, courses, canvasCourses,
                       assigned>>
    BY <1>2 DEF GetAllCourseUsers
  <2> DEFINE o == work[r]
             n == [o EXCEPT !.used = o.used \cup {token}]
  <2>3. o \in Work /\ work' = [work EXCEPT ![r] = n]
    BY <1>0, <2>2, PlacedFacts
  <2>4. n \in Work /\ n.visit = o.visit /\ n.login = o.login /\ n.owner = o.owner
        /\ n.domain = o.domain /\ n.seen = o.seen /\ n.since = o.since
        /\ n.used = o.used \cup {token}
    <3>1. token \in Tokens
      BY <1>0, PlacedFacts
    <3> HIDE DEF o
    <3> QED
      BY <2>3, <3>1 DEF Work
  <2> HIDE DEF n
  <2>5. work' \in [Visitors -> Work] /\ work'[r] = n /\ \A v \in Visitors \ {r} : work'[v] = work[v]
    BY <1>0, <2>3, <2>4, PlacedFacts
  <2>6. Own(r)' = Own(r)
    BY <2>4, <2>5 DEF Own, Visit
  <2>7. \A v \in Visitors \ {r} : Elsewhere(v)
    BY <2>2, <2>5 DEF Elsewhere
  <2>8. l \in Onwards /\ l # "addUsers"
    BY DEF Onwards
  <2>9. tokens \subseteq Tokens /\ \A k \in n.used \ n.since : k = Own(r)
    BY <1>0, <2>4, PlacedFacts DEF CanvasInv, CanvasTypeOK
  <2>10. token \in Tokens /\ token # None
    BY <1>0, PlacedFacts, CanvasAssumption
  <2> QED
    BY <1>0, <2>1, <2>2, <2>4, <2>5, <2>6, <2>7, <2>8, <2>9, <2>10, PlacedFacts, WorkChanged
<1> QED
  BY <1>1, <1>2

LEMMA FindCourseKeeps ==
  ASSUME CanvasInv, NEW r \in Handshakes, FindCourse(r)
  PROVE  CanvasInv'
<1>0. stage[r] = "findCourse" /\ stage[r] \in Placed
  BY DEF FindCourse, Placed
<1>a. UNCHANGED <<configs, canvasSchools, logins, intents, tokens, token, courses, canvasCourses,
                  assigned>>
  BY DEF FindCourse
<1>b. tokens \subseteq Tokens /\ token \in Tokens \cup {None}
  BY DEF CanvasInv, CanvasTypeOK
<1>1. CASE Known(r) = {}
  <2>1. Onto(r, "insertCourse") /\ UNCHANGED work
    BY <1>1 DEF FindCourse
  <2>2. Own(r)' = Own(r) /\ \A v \in Visitors \ {r} : Elsewhere(v)
    BY <1>a, <2>1 DEF Own, Visit, Elsewhere
  <2>3. "insertCourse" \in Onwards
    BY DEF Onwards
  <2> QED
    BY <1>0, <1>a, <1>b, <2>1, <2>2, <2>3, PlacedFacts, WorkChanged
<1>2. ASSUME NEW c \in Known(r), work' = [work EXCEPT ![r].course = c], Onto(r, "addUsers")
      PROVE  CanvasInv'
  <2>1. c \in Handshakes /\ Fits(c, r)
    <3>1. CASE r \in Launches
      BY <1>0, <1>2, <3>1, PlacedFacts DEF Known, Fits, CanvasInv, CanvasTypeOK, LinksOK
    <3>2. CASE r \notin Launches
      BY <1>0, <1>2, <3>2 DEF Known, Fits, Handshakes
    <3> QED
      BY <3>1, <3>2
  <2>2. /\ work' \in [Visitors -> Work] /\ work'[r].course = c
        /\ work'[r].visit = work[r].visit /\ work'[r].login = work[r].login
        /\ work'[r].owner = work[r].owner /\ work'[r].domain = work[r].domain
        /\ work'[r].used = work[r].used /\ work'[r].seen = work[r].seen
        /\ work'[r].since = work[r].since
        /\ \A v \in Visitors \ {r} : work'[v] = work[v]
    BY <1>0, <1>2, <2>1, PlacedFacts DEF Work
  <2>3. Own(r)' = Own(r) /\ (\A v \in Visitors \ {r} : Elsewhere(v)) /\ Fits(work[r].course, r)'
    BY <1>a, <2>1, <2>2 DEF Own, Visit, Elsewhere, Fits
  <2>4. "addUsers" \in Onwards
    BY DEF Onwards
  <2> QED
    BY <1>0, <1>2, <1>a, <1>b, <2>2, <2>3, <2>4, PlacedFacts, WorkChanged
<1> QED
  BY <1>1, <1>2 DEF FindCourse

LEMMA InsertCourseKeeps ==
  ASSUME CanvasInv, NEW r \in Handshakes, InsertCourse(r)
  PROVE  CanvasInv'
<1>0. stage[r] = "insertCourse" /\ stage[r] \in Placed /\ courses[r] = None
  BY DEF InsertCourse, Placed, WithCourse, CanvasInv, LinksOK
<1> DEFINE row == [owner |-> work[r].owner, number |-> Visit(r).number, domain |-> work[r].domain]
<1>1. row \in CanvasCourse /\ row # None /\ row.domain = work[r].domain /\ row.number = Visit(r).number
  <2>1. row \in CanvasCourse
    BY <1>0, PlacedFacts DEF CanvasCourse
  <2> QED
    BY <2>1, CanvasRowsAssumption
<1>2. /\ courses' = [courses EXCEPT ![r] = row] /\ work' = [work EXCEPT ![r].course = r]
      /\ stage' = [stage EXCEPT ![r] = "linkCourse"]
      /\ UNCHANGED <<configs, canvasSchools, logins, intents, tokens, token, canvasCourses, assigned>>
  BY DEF InsertCourse, Onto
<1> HIDE DEF row
<1>3. /\ work' \in [Visitors -> Work] /\ work'[r].course = r
      /\ work'[r].visit = work[r].visit /\ work'[r].login = work[r].login
      /\ work'[r].owner = work[r].owner /\ work'[r].domain = work[r].domain
      /\ work'[r].used = work[r].used /\ work'[r].seen = work[r].seen
      /\ work'[r].since = work[r].since
      /\ \A v \in Visitors \ {r} : work'[v] = work[v]
  BY <1>0, <1>2, PlacedFacts DEF Work
<1>4. courses \in [Handshakes -> CanvasCourse \cup {None}] /\ stage \in [Visitors -> Stages]
  BY DEF CanvasInv, CanvasTypeOK
<1>5. CanvasTypeOK'
  BY <1>1, <1>2, <1>3 DEF CanvasInv, CanvasTypeOK, OneToOne, Stages
<1>6. VisitorsOK'
  BY <1>0, <1>2, <1>3, <1>4, PlacedFacts, VisitorKinds DEF CanvasInv, VisitorsOK, Placed, WithCourse
<1>7. LoginsOK'
  BY <1>0, <1>2, <1>3, <1>4, PlacedFacts, VisitorKinds DEF CanvasInv, LoginsOK
<1>8. TokensOK'
  BY <1>0, <1>2, <1>3, <1>4, PlacedFacts, VisitorKinds DEF CanvasInv, TokensOK, Own, Visit
<1>9. LinksOK'
  BY <1>0, <1>1, <1>2, <1>4, PlacedFacts, VisitorKinds DEF CanvasInv, CanvasTypeOK, LinksOK, WithCourse
<1>10. BindingsOK'
  <2>0. /\ \A c \in Handshakes : courses[c] # None => courses'[c] = courses[c]
        /\ courses'[r] = row
    BY <1>0, <1>2, <1>4
  <2>1. \A h \in Handshakes : stage'[h] \in WithCourse => Fits(work[h].course, h)'
    BY <1>0, <1>1, <1>2, <1>3, <1>4, <2>0, PlacedFacts, VisitorKinds DEF CanvasInv, BindingsOK, Fits
  <2>2. \A h \in Handshakes :
          stage'[h] = "linkCourse" => /\ work'[h].course = h /\ courses'[h].domain = work'[h].domain
                                      /\ courses'[h].number = VisitOf[work'[h].visit].number
    BY <1>0, <1>1, <1>2, <1>3, <1>4, <2>0, PlacedFacts, VisitorKinds
    DEF CanvasInv, BindingsOK, Visit, Fits, WithCourse
  <2>3. \A b \in Binding \cup {None} : BoundOK(b) => BoundOK(b)'
    BY <1>0, <1>2, <1>3, <1>4, <2>0, VisitorKinds DEF BoundOK, Fits, Binding
  <2>4. /\ \A t \in LoginIds : logins[t] # None => logins[t].bound \in Binding \cup {None}
        /\ \A t \in SignUps : assigned[t] \in Binding \cup {None}
    BY DEF CanvasInv, CanvasTypeOK, Login
  <2> QED
    BY <1>2, <2>1, <2>2, <2>3, <2>4 DEF CanvasInv, BindingsOK, Visit
<1> QED
  BY <1>5, <1>6, <1>7, <1>8, <1>9, <1>10 DEF CanvasInv

LEMMA LinkCourseKeeps ==
  ASSUME CanvasInv, NEW r \in Handshakes, LinkCourse(r)
  PROVE  CanvasInv'
<1> DEFINE d == work[r].domain
           n == Visit(r).number
<1>0. stage[r] = "linkCourse" /\ stage[r] \in Placed
  BY DEF LinkCourse, Placed, WithCourse
<1>1. CASE canvasCourses[<<d, n>>] # None
  BY <1>0, <1>1, PlacedFacts, CanvasQuiet, NothingLoggedIn DEF LinkCourse, Goes, CanvasInv
<1>2. CASE canvasCourses[<<d, n>>] = None
  <2>1. /\ canvasCourses' = [canvasCourses EXCEPT ![<<d, n>>] = r]
        /\ stage' = [stage EXCEPT ![r] = "addUsers"]
        /\ UNCHANGED <<configs, canvasSchools, logins, intents, tokens, token, courses, assigned, work>>
    BY <1>2 DEF LinkCourse, Onto
  <2>2. d \in Domains /\ n \in Numbers /\ r \in Visitors /\ stage \in [Visitors -> Stages]
        /\ courses[r] # None /\ courses[r].domain = d /\ courses[r].number = n
    BY <1>0, PlacedFacts DEF CanvasInv, BindingsOK, WithCourse, Fits
  <2> HIDE DEF d, n
  <2>3. CanvasTypeOK'
    BY <2>1, <2>2 DEF CanvasInv, CanvasTypeOK, OneToOne, Stages
  <2>4. VisitorsOK'
    BY <1>0, <2>1, <2>2, VisitorKinds DEF CanvasInv, VisitorsOK, Placed, WithCourse
  <2>5. LoginsOK'
    BY <1>0, <2>1, <2>2, VisitorKinds DEF CanvasInv, LoginsOK
  <2>6. TokensOK'
    BY <1>0, <2>1, <2>2, VisitorKinds DEF CanvasInv, TokensOK, Own, Visit
  <2>7. LinksOK'
    <3>1. \A e \in Domains, m \in Numbers :
            canvasCourses'[<<e, m>>] = IF <<e, m>> = <<d, n>> THEN r ELSE canvasCourses[<<e, m>>]
      BY <2>1, <2>2 DEF CanvasInv, CanvasTypeOK
    <3>2. ASSUME NEW e \in Domains, NEW m \in Numbers, canvasCourses'[<<e, m>>] # None
          PROVE  LET c == canvasCourses'[<<e, m>>]
                 IN  courses[c] # None /\ courses[c].domain = e /\ courses[c].number = m
      BY <2>2, <3>1, <3>2 DEF CanvasInv, LinksOK
    <3>3. ASSUME NEW h \in Handshakes, courses[h] # None
          PROVE  /\ stage'[h] \in WithCourse \cup {"done", "failed"}
                 /\ stage'[h] \notin {"linkCourse", "failed"} =>
                      canvasCourses'[<<courses[h].domain, courses[h].number>>] = h
      <4>1. courses[h].domain \in Domains /\ courses[h].number \in Numbers
        BY <3>3 DEF CanvasInv, CanvasTypeOK, CanvasCourse
      <4>2. CASE h = r
        BY <2>1, <2>2, <3>1, <4>2 DEF WithCourse
      <4>3. CASE h # r
        <5>1. stage'[h] = stage[h]
          BY <2>1, <2>2, <4>3, VisitorKinds
        <5> QED
          BY <1>2, <3>1, <3>3, <4>1, <5>1, CanvasAssumption, VisitorKinds DEF CanvasInv, LinksOK, d, n
      <4> QED
        BY <4>2, <4>3
    <3> QED
      BY <2>1, <3>2, <3>3 DEF LinksOK
  <2>8. BindingsOK'
    BY <1>0, <2>1, <2>2, VisitorKinds DEF CanvasInv, CanvasTypeOK, BindingsOK, BoundOK, Fits, WithCourse, Visit
  <2> QED
    BY <2>3, <2>4, <2>5, <2>6, <2>7, <2>8 DEF CanvasInv
<1> QED
  BY <1>1, <1>2

(* The course of a handshake that gives it out.                            *)
LEMMA CourseThere ==
  ASSUME CanvasInv, NEW r \in Handshakes, stage[r] \in WithCourse \ {"linkCourse"}
  PROVE  /\ [owner |-> work[r].owner, course |-> work[r].course, by |-> r] \in Binding
         /\ courses[r] # None => canvasCourses[<<courses[r].domain, courses[r].number>>] = r
         /\ Fits(work[r].course, r)
<1>1. stage[r] \in Placed /\ Fits(work[r].course, r)
  BY DEF Placed, CanvasInv, BindingsOK
<1>2. [owner |-> work[r].owner, course |-> work[r].course, by |-> r] \in Binding
  BY <1>1, PlacedFacts DEF Binding, Fits
<1> QED
  BY <1>1, <1>2 DEF CanvasInv, LinksOK, WithCourse

LEMMA CreateUsersKeeps ==
  ASSUME CanvasInv, NEW r \in Handshakes, CreateUsers(r)
  PROVE  CanvasInv'
<1>0. stage[r] = "addUsers" /\ stage[r] \in Placed /\ stage[r] \in WithCourse \ {"linkCourse"}
  BY DEF CreateUsers, Placed, WithCourse
<1>1. CASE \A i \in Institutions : configs[i] # work[r].domain
  BY <1>0, <1>1, PlacedFacts, CanvasQuiet, NothingLoggedIn DEF CreateUsers, Goes, CanvasInv
<1>2. CASE ~\A i \in Institutions : configs[i] # work[r].domain
  <2> DEFINE b0 == [owner |-> work[r].owner, course |-> work[r].course, by |-> r]
  <2>1. b0 \in Binding /\ b0.by = r /\ Fits(b0.course, r)
    BY <1>0, CourseThere
  <2>2. /\ assigned' = [s \in SignUps |-> IF s \in Members[r] THEN b0 ELSE assigned[s]]
        /\ stage' = [stage EXCEPT ![r] = "await"]
        /\ UNCHANGED <<configs, canvasSchools, logins, intents, tokens, token, courses, canvasCourses, work>>
    BY <1>2 DEF CreateUsers, Onto
  <2> HIDE DEF b0
  <2>3. r \in Visitors /\ stage \in [Visitors -> Stages]
    BY <1>0, PlacedFacts
  <2>4. CanvasTypeOK'
    BY <2>1, <2>2 DEF CanvasInv, CanvasTypeOK, OneToOne, Stages
  <2>5. VisitorsOK'
    BY <1>0, <2>2, <2>3, VisitorKinds DEF CanvasInv, VisitorsOK, Placed, WithCourse
  <2>6. LoginsOK'
    BY <1>0, <2>2, <2>3, VisitorKinds DEF CanvasInv, LoginsOK
  <2>7. TokensOK'
    BY <1>0, <2>2, <2>3, VisitorKinds DEF CanvasInv, TokensOK, Own, Visit
  <2>8. LinksOK'
    BY <1>0, <2>2, <2>3, VisitorKinds DEF CanvasInv, LinksOK, WithCourse
  <2>9. BindingsOK'
    <3>1. /\ \A h \in Handshakes : stage'[h] \in WithCourse => Fits(work[h].course, h)'
          /\ \A h \in Handshakes :
               stage'[h] = "linkCourse" => /\ work[h].course = h /\ courses[h].domain = work[h].domain
                                           /\ courses[h].number = Visit(h).number
      BY <1>0, <2>2, <2>3, VisitorKinds DEF CanvasInv, BindingsOK, Fits, WithCourse
    <3>2. \A b \in Binding \cup {None} : BoundOK(b) => BoundOK(b)'
      BY <1>0, <2>2, <2>3, VisitorKinds DEF BoundOK, Fits, Binding
    <3>3. BoundOK(b0)'
      <4> SUFFICES b0 \in Binding /\ b0' = b0 => BoundOK(b0)'
        BY <2>1, <2>2 DEF b0
      <4> QED
        BY <2>1, <2>2, <2>3 DEF BoundOK, Fits
    <3>4. /\ \A t \in LoginIds : logins[t] # None => logins[t].bound \in Binding \cup {None}
          /\ \A t \in SignUps : assigned[t] \in Binding \cup {None}
      BY DEF CanvasInv, CanvasTypeOK, Login
    <3>5. ASSUME NEW t \in SignUps PROVE BoundOK(assigned[t])'
      <4>1. CASE t \in Members[r]
        BY <2>2, <3>3, <4>1 DEF BoundOK, Fits, b0
      <4>2. CASE t \notin Members[r]
        BY <2>2, <3>2, <3>4, <4>2 DEF CanvasInv, BindingsOK, BoundOK
      <4> QED
        BY <4>1, <4>2
    <3>6. ASSUME NEW t \in LoginIds, logins'[t] # None PROVE BoundOK(logins[t].bound)'
      BY <2>2, <3>2, <3>4, <3>6 DEF CanvasInv, BindingsOK, BoundOK
    <3> QED
      BY <2>2, <3>1, <3>5, <3>6 DEF BindingsOK, Visit
  <2> QED
    BY <2>4, <2>5, <2>6, <2>7, <2>8, <2>9 DEF CanvasInv
<1> QED
  BY <1>1, <1>2

LEMMA BindKeeps ==
  ASSUME CanvasInv, NEW r \in Handshakes, BindLogin(r)
  PROVE  CanvasInv'
<1> DEFINE s == work[r].login
<1>0. stage[r] = "bind" /\ stage[r] \in Placed /\ stage[r] \in WithCourse \ {"linkCourse"}
  BY DEF BindLogin, Placed, WithCourse
<1>1. CASE s = None
  BY <1>0, <1>1, PlacedFacts, CanvasQuiet, NothingLoggedIn DEF BindLogin, Goes, CanvasInv
<1>2. CASE s # None
  <2> DEFINE b0 == [owner |-> work[r].owner, course |-> work[r].course, by |-> r]
  <2>1. b0 \in Binding /\ b0.by = r /\ Fits(b0.course, r)
        /\ (courses[r] # None => canvasCourses[<<courses[r].domain, courses[r].number>>] = r)
    BY <1>0, CourseThere
  <2>2. /\ logins' = [logins EXCEPT ![s].bound = b0]
        /\ stage' = [stage EXCEPT ![r] = "done"]
        /\ UNCHANGED <<configs, canvasSchools, intents, tokens, token, courses, canvasCourses, assigned, work>>
    BY <1>2 DEF BindLogin, Onto
  <2> HIDE DEF b0
  <2>3. /\ r \in Visitors /\ stage \in [Visitors -> Stages] /\ r \notin Exchanges /\ r \notin Configurations
        /\ s \in LoginIds /\ logins[s] # None
    BY <1>0, <1>2, PlacedFacts
  <2> HIDE DEF s
  <2>4. logins \in [LoginIds -> Login \cup {None}] /\ logins[s] \in Login
    BY <2>3 DEF CanvasInv, CanvasTypeOK
  <2>5. logins' \in [LoginIds -> Login \cup {None}]
    BY <2>1, <2>2, <2>4 DEF Login
  <2>6. logins'[s] \in Login /\ logins'[s].bound = b0 /\ logins'[s].deleted = logins[s].deleted
    BY <2>1, <2>2, <2>3, <2>4 DEF Login
  <2>7. (\A t \in LoginIds \ {s} : logins'[t] = logins[t]) /\ logins'[s] # None
    BY <2>2, <2>4, <2>6, CanvasRowsAssumption
  <2>8. CanvasTypeOK'
    BY <2>2, <2>5 DEF CanvasInv, CanvasTypeOK, OneToOne, Stages
  <2>9. VisitorsOK'
    BY <1>0, <2>2, <2>3, VisitorKinds DEF CanvasInv, VisitorsOK, Placed, WithCourse
  <2>10. LoginsOK'
    <3>1. \A t \in LoginIds : logins[t] # None => logins'[t] # None /\ logins'[t].deleted = logins[t].deleted
      BY <2>6, <2>7
    <3>2. /\ \A l \in Launches : stage'[l] = "idle" => stage[l] = "idle"
          /\ \A e \in Exchanges : stage'[e] = stage[e]
      BY <1>0, <2>2, <2>3, VisitorKinds
    <3>3. \A v \in Visitors : work[v].login # None => work[v].login \in LoginIds
      BY DEF CanvasInv, CanvasTypeOK, Work
    <3>4. \A l \in Launches : stage[l] = "idle" => logins'[l] = None
      BY <2>3, <2>7, VisitorKinds DEF CanvasInv, LoginsOK
    <3>5. \A e \in Exchanges : /\ stage[e] \in {"mark", "done"} => work[e].login # None
                               /\ stage[e] = "done" => logins'[work[e].login].deleted
      BY <3>1, <3>3, VisitorKinds DEF CanvasInv, LoginsOK
    <3>6. /\ \A t \in LoginIds : intents[t] # None => logins'[t] # None
          /\ \A v \in Visitors : work[v].login # None => logins'[work[v].login] # None
          /\ \A v \in Visitors : work[v].seen = {}
      BY <3>1, <3>3 DEF CanvasInv, LoginsOK
    <3> QED
      BY <2>2, <3>2, <3>4, <3>5, <3>6 DEF LoginsOK
  <2>11. TokensOK'
    BY <1>0, <2>2, <2>3, VisitorKinds DEF CanvasInv, TokensOK, Own, Visit
  <2>12. LinksOK'
    BY <1>0, <2>2, <2>3, VisitorKinds DEF CanvasInv, LinksOK, WithCourse
  <2>13. BindingsOK'
    <3>1. /\ \A h \in Handshakes : stage'[h] \in WithCourse => Fits(work[h].course, h)'
          /\ \A h \in Handshakes :
               stage'[h] = "linkCourse" => /\ work[h].course = h /\ courses[h].domain = work[h].domain
                                           /\ courses[h].number = Visit(h).number
      BY <1>0, <2>2, <2>3, VisitorKinds DEF CanvasInv, BindingsOK, Fits, WithCourse
    <3>2. \A b \in Binding \cup {None} : BoundOK(b) => BoundOK(b)'
      BY <1>0, <2>2, <2>3, VisitorKinds DEF BoundOK, Fits, Binding
    <3>3. /\ \A t \in LoginIds : logins[t] # None => logins[t].bound \in Binding \cup {None}
          /\ \A t \in SignUps : assigned[t] \in Binding \cup {None}
      BY DEF CanvasInv, CanvasTypeOK, Login
    <3>4. ASSUME NEW t \in SignUps PROVE BoundOK(assigned[t])'
      BY <2>2, <3>2, <3>3 DEF CanvasInv, BindingsOK, BoundOK
    <3>5. ASSUME NEW t \in LoginIds, logins'[t] # None PROVE BoundOK(logins[t].bound)'
      <4>1. CASE t = s
        BY <2>1, <2>2, <2>3, <2>6, <4>1 DEF BoundOK, Fits
      <4>2. CASE t # s
        BY <2>2, <2>7, <3>2, <3>3, <3>5, <4>2 DEF CanvasInv, BindingsOK, BoundOK
      <4> QED
        BY <4>1, <4>2
    <3> QED
      BY <2>2, <3>1, <3>4, <3>5 DEF BindingsOK, Visit
  <2> QED
    BY <2>8, <2>9, <2>10, <2>11, <2>12, <2>13 DEF CanvasInv
<1> QED
  BY <1>1, <1>2

LEMMA ExchangeKeeps ==
  ASSUME CanvasInv, NEW e \in Exchanges, CreateJwtTokenFromState(e)
  PROVE  CanvasInv'
<1>1. PICK s \in LoginIds :
        /\ logins[s] # None /\ ~logins[s].deleted
        /\ work' = [work EXCEPT ![e] = [@ EXCEPT !.login = s,
                      !.seen = {f \in Exchanges : stage[f] = "done" /\ work[f].login = s}]]
  BY DEF CreateJwtTokenFromState
<1>2. /\ UNCHANGED <<configs, canvasSchools, logins, intents, tokens, token, courses, canvasCourses,
                     assigned>>
      /\ Onto(e, "mark") /\ stage[e] = "idle"
  BY DEF CreateJwtTokenFromState
<1>3. {f \in Exchanges : stage[f] = "done" /\ work[f].login = s} = {}
  BY <1>1 DEF CanvasInv, LoginsOK
<1>4. /\ work \in [Visitors -> Work] /\ e \in Visitors /\ e \notin Handshakes /\ e \notin Configurations
      /\ tokens \subseteq Tokens /\ token \in Tokens \cup {None}
  BY VisitorKinds DEF CanvasInv, CanvasTypeOK
<1>5. /\ work' \in [Visitors -> Work] /\ work'[e].login = s /\ work'[e].seen = {}
      /\ \A v \in Visitors \ {e} : work'[v] = work[v]
  <2> DEFINE o == work[e]
             n == [o EXCEPT !.login = s, !.seen = {}]
  <2>1. o \in Work /\ work' = [work EXCEPT ![e] = n]
    BY <1>1, <1>3, <1>4
  <2> HIDE DEF o
  <2>2. n \in Work /\ n.login = s /\ n.seen = {}
    BY <2>1 DEF Work
  <2> QED
    BY <1>4, <2>1, <2>2
<1>6. \A v \in Visitors \ {e} : Elsewhere(v)
  BY <1>2, <1>5 DEF Elsewhere
<1>7. "mark" \in Onwards
  BY DEF Onwards
<1>8. s # None
  BY CanvasAssumption
<1> QED
  BY <1>1, <1>2, <1>4, <1>5, <1>6, <1>7, <1>8, WorkChanged

LEMMA BeginConfigurationKeeps ==
  ASSUME CanvasInv, NEW g \in Configurations, CreateLTIConfiguration(g) \/ UpdateLTIConfiguration(g)
  PROVE  CanvasInv'
<1>1. PICK l \in {"findSchool", "updateConfig"} :
        /\ Onto(g, l) /\ stage[g] = "idle"
        /\ \E ask \in Asks[g] :
             /\ l = "updateConfig" => configs[ask[1]] # None
             /\ work' = [work EXCEPT ![g].owner = ask[1], ![g].domain = ask[2]]
        /\ UNCHANGED <<configs, canvasSchools, logins, intents, tokens, token, courses, canvasCourses,
                       assigned>>
  BY DEF CreateLTIConfiguration, UpdateLTIConfiguration, BeginConfiguration
<1>2. PICK ask \in Asks[g] :
        /\ l = "updateConfig" => configs[ask[1]] # None
        /\ work' = [work EXCEPT ![g].owner = ask[1], ![g].domain = ask[2]]
  BY <1>1
<1>3. ask[1] \in Institutions /\ ask[2] \in Domains
  BY CanvasAssumption
<1>4. /\ work \in [Visitors -> Work] /\ g \in Visitors /\ g \notin Handshakes /\ g \notin Exchanges
      /\ tokens \subseteq Tokens /\ token \in Tokens \cup {None}
      /\ work[g].seen = {} /\ (work[g].login # None => logins[work[g].login] # None)
  BY VisitorKinds DEF CanvasInv, CanvasTypeOK, LoginsOK
<1>5. /\ work' \in [Visitors -> Work] /\ work'[g].owner = ask[1] /\ work'[g].domain = ask[2]
      /\ work'[g].seen = work[g].seen /\ work'[g].login = work[g].login
      /\ \A v \in Visitors \ {g} : work'[v] = work[v]
  <2>1. ASSUME NEW i \in Institutions, NEW d \in Domains,
               work' = [work EXCEPT ![g].owner = i, ![g].domain = d]
        PROVE  /\ work' \in [Visitors -> Work] /\ work'[g].owner = i /\ work'[g].domain = d
               /\ work'[g].seen = work[g].seen /\ work'[g].login = work[g].login
               /\ \A v \in Visitors \ {g} : work'[v] = work[v]
    <3>1. work \in [Visitors -> Work] /\ g \in Visitors
      BY <1>4
    <3> QED
      BY <2>1, <3>1 DEF Work
  <2> QED
    BY <1>2, <1>3, <2>1
<1>6. \A v \in Visitors \ {g} : Elsewhere(v)
  BY <1>1, <1>5 DEF Elsewhere
<1>7. l \in Onwards
  BY DEF Onwards
<1> QED
  BY <1>1, <1>2, <1>3, <1>4, <1>5, <1>6, <1>7, WorkChanged

LEMMA InsertSchoolKeeps ==
  ASSUME CanvasInv, NEW g \in Configurations, InsertCanvasSchool(g)
  PROVE  CanvasInv'
<1>0. /\ g \in Visitors /\ g \notin Handshakes /\ g \notin Exchanges /\ stage[g] = "insertSchool"
      /\ work[g].owner \in Institutions /\ stage \in [Visitors -> Stages]
  BY VisitorKinds DEF InsertCanvasSchool, CanvasInv, CanvasTypeOK, VisitorsOK
<1>1. CASE work[g].owner \in canvasSchools
  BY <1>0, <1>1, CanvasQuiet, NothingLoggedIn DEF InsertCanvasSchool, Goes, CanvasInv
<1>2. CASE work[g].owner \notin canvasSchools
  <2>1. /\ canvasSchools' = canvasSchools \cup {work[g].owner}
        /\ stage' = [stage EXCEPT ![g] = "insertConfig"]
        /\ UNCHANGED <<configs, logins, intents, tokens, token, courses, canvasCourses, assigned, work>>
    BY <1>2 DEF InsertCanvasSchool, Onto
  <2>2. CanvasTypeOK'
    BY <1>0, <2>1 DEF CanvasInv, CanvasTypeOK, OneToOne, Stages
  <2>3. VisitorsOK'
    BY <1>0, <2>1, VisitorKinds DEF CanvasInv, VisitorsOK
  <2>4. LoginsOK'
    BY <1>0, <2>1, VisitorKinds DEF CanvasInv, LoginsOK
  <2>5. TokensOK'
    BY <1>0, <2>1, VisitorKinds DEF CanvasInv, TokensOK, Own, Visit
  <2>6. LinksOK'
    BY <1>0, <2>1, VisitorKinds DEF CanvasInv, LinksOK
  <2>7. BindingsOK'
    BY <1>0, <2>1, VisitorKinds DEF CanvasInv, CanvasTypeOK, BindingsOK, BoundOK, Fits, Visit
  <2> QED
    BY <2>2, <2>3, <2>4, <2>5, <2>6, <2>7 DEF CanvasInv
<1> QED
  BY <1>1, <1>2

LEMMA WriteConfigurationKeeps ==
  ASSUME CanvasInv, NEW g \in Configurations, WriteConfiguration(g)
  PROVE  CanvasInv'
<1> DEFINE i == work[g].owner
           d == work[g].domain
<1>0. /\ g \in Visitors /\ g \notin Handshakes /\ g \notin Exchanges
      /\ stage[g] \in {"insertConfig", "updateConfig"} /\ stage \in [Visitors -> Stages]
      /\ i \in Institutions /\ d \in Domains /\ d # None /\ i \in canvasSchools
  BY VisitorKinds, CanvasAssumption DEF WriteConfiguration, CanvasInv, CanvasTypeOK, VisitorsOK
<1>1. /\ \A j \in Institutions \ {i} : configs[j] # d
      /\ configs' = [configs EXCEPT ![i] = d] /\ stage' = [stage EXCEPT ![g] = "done"]
      /\ UNCHANGED <<canvasSchools, logins, intents, tokens, token, courses, canvasCourses, assigned, work>>
  BY DEF WriteConfiguration, Onto
<1> HIDE DEF i, d
<1>2. /\ configs' \in [Institutions -> Domains \cup {None}]
      /\ \A j \in Institutions : configs'[j] = IF j = i THEN d ELSE configs[j]
  BY <1>0, <1>1 DEF CanvasInv, CanvasTypeOK
<1>3. CanvasTypeOK'
  <2>1. OneToOne(configs')
    BY <1>1, <1>2 DEF CanvasInv, CanvasTypeOK, OneToOne
  <2> QED
    BY <1>0, <1>1, <1>2, <2>1 DEF CanvasInv, CanvasTypeOK, Stages
<1>4. VisitorsOK'
  BY <1>0, <1>1, <1>2, VisitorKinds DEF CanvasInv, VisitorsOK, CanvasTypeOK, Intent
<1>5. LoginsOK'
  BY <1>0, <1>1, VisitorKinds DEF CanvasInv, LoginsOK
<1>6. TokensOK'
  BY <1>0, <1>1, VisitorKinds DEF CanvasInv, TokensOK, Own, Visit
<1>7. LinksOK'
  BY <1>0, <1>1, VisitorKinds DEF CanvasInv, LinksOK
<1>8. BindingsOK'
  BY <1>0, <1>1, VisitorKinds DEF CanvasInv, CanvasTypeOK, BindingsOK, BoundOK, Fits, Visit
<1> QED
  BY <1>3, <1>4, <1>5, <1>6, <1>7, <1>8 DEF CanvasInv

LEMMA CanvasStill == CanvasInv /\ UNCHANGED canvasVars => CanvasInv'
BY DEF CanvasInv, canvasVars, CanvasTypeOK, OneToOne, VisitorsOK, LoginsOK, TokensOK, Own, Visit,
       LinksOK, BindingsOK, BoundOK, Fits

LEMMA AccountsStill == AccountsInv /\ UNCHANGED accountVars => AccountsInv'
BY DEF AccountsInv, accountVars, AccountsTypeOK, LocalsOK, SignedUp, LoginsThere, EmailsUnique,
       FirstEmails, First, MissingLoginHasCause, Exists

-----------------------------------------------------------------------------
(* Both together.                                                          *)

Inv == AccountsInv /\ CanvasInv /\ mix \in Mixes

LEMMA InvHolds == Spec => []Inv
<1>1. Init => Inv
  BY AccountsInitInv, CanvasInitInv DEF Init, Inv
<1>2. Inv /\ [Next]_vars => Inv'
  <2> SUFFICES ASSUME Inv, [Next]_vars PROVE Inv'
    OBVIOUS
  <2>1. CASE UNCHANGED vars
    BY <2>1, CanvasStill, AccountsStill DEF Inv, vars
  <2>2. CASE AccountsNext /\ UNCHANGED <<canvasVars, mix>>
    BY <2>2, AccountsKeep, CanvasStill DEF Inv
  <2>3. ASSUME UNCHANGED <<accountVars, mix>>, CanvasInv' PROVE Inv'
    BY <2>3, AccountsStill DEF Inv
  <2>4. ASSUME NEW r \in Handshakes, HandshakeStep(r) PROVE CanvasInv'
    BY <2>4, VisitorKinds, QuietSteps, LaunchKeeps, FindConfigKeeps, TokenSteps, IntentKeeps, CallbackKeeps,
       ListKeeps, FindCourseKeeps, InsertCourseKeeps, LinkCourseKeeps, CreateUsersKeeps, BindKeeps
    DEF HandshakeStep, Inv
  <2>5. ASSUME NEW e \in Exchanges, ExchangeStep(e) PROVE CanvasInv'
    BY <2>5, VisitorKinds, QuietSteps, ExchangeKeeps DEF ExchangeStep, Inv
  <2>6. ASSUME NEW g \in Configurations, ConfigurationStep(g) PROVE CanvasInv'
    BY <2>6, VisitorKinds, QuietSteps, BeginConfigurationKeeps, InsertSchoolKeeps, WriteConfigurationKeeps
    DEF ConfigurationStep, Inv
  <2>7. ASSUME NEW r \in Visitors, FailVisitor(r) PROVE CanvasInv'
    BY <2>7, QuietSteps DEF Inv
  <2> QED
    BY <2>1, <2>2, <2>3, <2>4, <2>5, <2>6, <2>7, RedirectKeeps, ExpireKeeps DEF Next, Inv
<1> QED
  BY <1>1, <1>2, PTL DEF Spec

(* Every variable holds values of the rows and requests it stands for.     *)
THEOREM AccessTypes == Spec => []TypeOK
<1>1. Inv => TypeOK
  BY DEF Inv, TypeOK, AccountsInv, CanvasInv
<1> QED
  BY <1>1, InvHolds, PTL

(* An account is without credentials only if they are written in the       *)
(* background, or a change of email or a deletion took those at its email. *)
THEOREM MissingLogins == Spec => []MissingLoginHasCause
<1>1. Inv => MissingLoginHasCause
  BY DEF Inv, AccountsInv
<1> QED
  BY <1>1, InvHolds, PTL

(* An account answers to the password of another only if that one is gone, *)
(* never came to be, or has lost the email it signed up with.              *)
THEOREM ForeignLogins == Spec => []ForeignLoginHasCause
<1>1. Inv => ForeignLoginHasCause
  BY ForeignLoginsKnown DEF Inv
<1> QED
  BY <1>1, InvHolds, PTL

(* A launch is bound to a course of its own domain, and a Canvas course    *)
(* has two courses only if the handshake of one has not linked it.         *)
THEOREM CanvasCourses == Spec => []CanvasCoursesHaveCause
<1>1. Inv => CanvasCoursesHaveCause
  <2> SUFFICES ASSUME CanvasInv PROVE CanvasCoursesHaveCause
    BY DEF Inv
  <2>1. ASSUME NEW b, BoundOK(b), b # None
        PROVE  b.by \in Callbacks \/ courses[b.course].domain = work[b.by].domain
    BY <2>1 DEF BoundOK, Fits
  <2>2. ASSUME NEW c \in Handshakes, NEW d \in Handshakes, c # d, courses[c] # None, courses[d] # None,
               courses[c].number = courses[d].number, courses[c].domain = courses[d].domain,
               \A h \in {c, d} : stage[h] \in {"linkCourse", "failed"} => ~Unlinked(h)
        PROVE  FALSE
    <3> DEFINE key(h) == <<courses[h].domain, courses[h].number>>
    <3>1. \A h \in {c, d} : canvasCourses[key(h)] = h
      <4> SUFFICES ASSUME NEW h \in {c, d} PROVE canvasCourses[key(h)] = h
        OBVIOUS
      <4>1. CASE stage[h] \notin {"linkCourse", "failed"}
        BY <2>2, <4>1 DEF CanvasInv, LinksOK
      <4>2. CASE ~Unlinked(h)
        <5>1. PICK k \in Domains \X Numbers : canvasCourses[k] = h
          BY <4>2 DEF Unlinked
        <5>2. k = <<k[1], k[2]>> /\ k[1] \in Domains /\ k[2] \in Numbers
          OBVIOUS
        <5>3. courses[h].domain = k[1] /\ courses[h].number = k[2]
          BY <2>2, <5>1, <5>2, CanvasAssumption, VisitorKinds DEF CanvasInv, LinksOK
        <5> QED
          BY <5>1, <5>2, <5>3
      <4> QED
        BY <2>2, <4>1, <4>2
    <3> QED
      BY <2>2, <3>1
  <2> QED
    BY <2>1, <2>2 DEF CanvasCoursesHaveCause, CanvasInv, BindingsOK, Foreign
<1> QED
  BY <1>1, InvHolds, PTL

(* A handshake uses the token of another only if the client got it since,  *)
(* and no login is exchanged again after an exchange of it is done.        *)
THEOREM Handshaking == Spec => []HandshakesHaveCause
<1>1. Inv => HandshakesHaveCause
  BY VisitorKinds DEF Inv, CanvasInv, TokensOK, LoginsOK, HandshakesHaveCause
<1> QED
  BY <1>1, InvHolds, PTL
=============================================================================
