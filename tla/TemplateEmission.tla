-------------------------- MODULE TemplateEmission --------------------------
(***************************************************************************)
(* An institution (PJ) issues the certificates of one template, and what   *)
(* may happen to template and certificates meanwhile: edit and deletion of *)
(* the template, the sign-up of a student who owns certificates already,   *)
(* the queue and the image service (the AI gateway, external) that reports *)
(* back through POST /certificates/sqsLambda, the owner who withdraws his  *)
(* public hash and the administrator who enables a certificate again.      *)
(*                                                                         *)
(* Each handler is a sequence of statements with no transaction around it. *)
(***************************************************************************)
EXTENDS Naturals, FiniteSets

CONSTANTS Issues,        \* calls of issueCertificateFromTemplate
          Docs,          \* document numbers of the students
          DocOf,         \* DocOf[i]: the student issue i is for
          Edits,         \* PATCH templates/info/:templateId requests
          Deletions,     \* DELETE /template/:templateId requests
          Claims,        \* sign-ups and approvals, which run addUserCertificates
          ClaimDoc,      \* ClaimDoc[c]: the student claim c is for
          LambdaModes,   \* values LOCAL_LAMBDA may have
          MaxInFlight,   \* bound: issues handled at the same time
          MaxAnswers,    \* bound: callbacks of the image service per certificate
          MayCrash,      \* whether the server may die
          NoCert         \* no certificate row

ASSUME TemplateAssumption ==
         /\ DocOf \in [Issues -> Docs] /\ ClaimDoc \in [Claims -> Docs]
         /\ LambdaModes \subseteq BOOLEAN /\ MayCrash \in BOOLEAN
         /\ MaxInFlight \in Nat \ {0} /\ MaxAnswers \in Nat \ {0}

Changes == Edits \cup Deletions
Actors  == Issues \cup Changes \cup Claims

ASSUME ActorsAssumption ==
         Issues \cap (Changes \cup Claims) = {} /\ Changes \cap Claims = {}

VARIABLES localLambda,   \* auxService.localLambda
          template,      \* the Templates row: exists, version
          certs,         \* Certificates rows, by issue
          shared,        \* CertificatesSharing rows of a certificate, by hash
          accounts,      \* user rows of the students, with or without a PF row
          completed,     \* issues that completed a learning path for the student
          jobs,          \* jobs waiting in certificates-queue
          posted,        \* events POSTed to the image service
          answers,       \* callbacks the image service made, per certificate
          accepted,      \* callbacks past the check of the hash
          pc,            \* where the handler of an actor is
          local          \* what it read: version, user, ids

rows == <<template, certs, shared, accounts, completed>>
outside == <<jobs, posted, answers, accepted>>
vars == <<localLambda, rows, outside, pc, local>>

-----------------------------------------------------------------------------
Cert == [linked : BOOLEAN,      \* templateId is not null
         version : Nat,         \* the template version its data come from
         receptor : BOOLEAN,    \* receptorId is the student's user
         abilities : BOOLEAN,   \* its abilities carry that userId
         success : BOOLEAN]     \* successStatus SUCCESS, not PENDING

ASSUME RowsAssumption == NoCert \notin Cert

PCs == {"idle", "check", "lookup", "associate", "create", "hash", "dispatch",
        "count", "write", "readIds", "update", "done", "failed"}

(* The hash of the issue is made of the issuer's email, the one an          *)
(* administrator publishes of the issuer's name.                           *)
Hashes == {"ofIssue", "ofAdmin"}

Sharing == [made : BOOLEAN,            \* some row was created
            valid : SUBSET Hashes]     \* hashes with a row that is valid

NoHash == [made |-> FALSE, valid |-> {}]

(* No user row; a raw user, whose PF row is still missing; a complete user. *)
Account == {"none", "raw", "pf"}

Over == {"idle", "done", "failed"}

InFlight == {i \in Issues : pc[i] \notin Over}

Issued == {i \in Issues : certs[i] # NoCert}

(* The certificates of the template, as the counts by templateId see them. *)
OfTemplate == {i \in Issued : certs[i].linked}

Goto(a, l) == pc' = [pc EXCEPT ![a] = l]

-----------------------------------------------------------------------------
(* Issuing (issueCertificateFromTemplate and the handlers that call it).   *)

Load(i) ==
  /\ pc[i] = "idle" /\ Cardinality(InFlight) < MaxInFlight
  /\ local' = [local EXCEPT ![i].version = template.version]
  /\ Goto(i, IF template.exists THEN "check" ELSE "failed")
  /\ UNCHANGED <<localLambda, rows, outside>>

(* Mutant: only certificates of registered students are looked for.        *)
AlreadyOwned(i) == \E j \in OfTemplate : DocOf[j] = DocOf[i] /\ certs[j].receptor

AlreadyIssued(i) == \E j \in OfTemplate : DocOf[j] = DocOf[i]

Check(i) ==
  /\ pc[i] = "check"
  /\ Goto(i, IF AlreadyIssued(i) THEN "done" ELSE "lookup")
  /\ UNCHANGED <<localLambda, rows, outside, local>>

Lookup(i) ==
  /\ pc[i] = "lookup"
  /\ local' = [local EXCEPT ![i].user = accounts[DocOf[i]] = "pf"]
  /\ Goto(i, IF accounts[DocOf[i]] = "pf" THEN "associate" ELSE "create")
  /\ UNCHANGED <<localLambda, rows, outside>>

(* associatePfOnEmission: the learning path of the template is completed   *)
(* before there is a certificate.                                          *)
Associate(i) ==
  /\ pc[i] = "associate"
  /\ completed' = completed \cup {i}
  /\ Goto(i, "create")
  /\ UNCHANGED <<localLambda, template, certs, shared, accounts, outside, local>>

NewCert(i) == [linked |-> TRUE, version |-> local[i].version,
               receptor |-> local[i].user, abilities |-> local[i].user,
               success |-> FALSE]

(* Mutant: a failed insertion goes unnoticed.                              *)
CreateQuietly(i) ==
  /\ pc[i] = "create"
  /\ certs' = IF template.exists THEN [certs EXCEPT ![i] = NewCert(i)] ELSE certs
  /\ Goto(i, IF template.exists THEN "hash" ELSE "done")
  /\ UNCHANGED <<localLambda, template, shared, accounts, completed, outside, local>>

Create(i) ==
  /\ pc[i] = "create"
  /\ IF template.exists
     THEN /\ certs' = [certs EXCEPT ![i] = NewCert(i)]
          /\ Goto(i, "hash")
     ELSE /\ UNCHANGED certs
          /\ Goto(i, "failed")
  /\ UNCHANGED <<localLambda, template, shared, accounts, completed, outside, local>>

Published(i, h) == [made |-> TRUE, valid |-> shared[i].valid \cup {h}]

Hash(i) ==
  /\ pc[i] = "hash"
  /\ shared' = [shared EXCEPT ![i] = Published(i, "ofIssue")]
  /\ Goto(i, "dispatch")
  /\ UNCHANGED <<localLambda, template, certs, accounts, completed, outside, local>>

(* Queue the event, or send it at once to the image service, depending on  *)
(* LOCAL_LAMBDA.                                                           *)
Dispatch(i) ==
  /\ pc[i] = "dispatch"
  /\ IF localLambda
     THEN posted' = posted \cup {i} /\ UNCHANGED jobs
     ELSE jobs' = jobs \cup {i} /\ UNCHANGED posted
  /\ \E l \in {"done", "failed"} : Goto(i, l)   \* the blockchain flag comes last
  /\ UNCHANGED <<localLambda, rows, answers, accepted, local>>

(* The badge files, the queue or the image service are out of reach.       *)
DispatchFails(i) ==
  /\ pc[i] = "dispatch"
  /\ Goto(i, "failed")
  /\ UNCHANGED <<localLambda, rows, outside, local>>

-----------------------------------------------------------------------------
(* The queue and the image service.                                        *)

(* The worker: sendLocalSqsRequest returns null without LOCAL_LAMBDA, and  *)
(* the job completes and is removed.                                       *)
ProcessJob(i) ==
  /\ i \in jobs
  /\ jobs' = jobs \ {i}
  /\ posted' = IF localLambda THEN posted \cup {i} ELSE posted
  /\ UNCHANGED <<localLambda, rows, answers, accepted, pc, local>>

(* A callback, the first or a repeated one, with the hash of the issue:    *)
(* 404 unless that one is valid, whatever else is public.                  *)
Answer(i) ==
  /\ i \in posted /\ answers[i] < MaxAnswers
  /\ answers' = [answers EXCEPT ![i] = @ + 1]
  /\ accepted' = IF "ofIssue" \in shared[i].valid THEN accepted \cup {i} ELSE accepted
  /\ UNCHANGED <<localLambda, rows, jobs, posted, pc, local>>

(* Mutant: the report is written with its status lost.                     *)
CompleteLost(i) ==
  /\ i \in accepted
  /\ accepted' = accepted \ {i}
  /\ UNCHANGED <<localLambda, rows, jobs, posted, answers, pc, local>>

Complete(i) ==
  /\ i \in accepted
  /\ certs' = [certs EXCEPT ![i].success = TRUE]
  /\ accepted' = accepted \ {i}
  /\ UNCHANGED <<localLambda, template, shared, accounts, completed, jobs, posted,
                 answers, pc, local>>

-----------------------------------------------------------------------------
(* Template edit and deletion: load, count the certificates, then write.   *)

LoadTemplate(c) ==
  /\ pc[c] = "idle" /\ c \in Changes
  /\ local' = [local EXCEPT ![c].version = template.version]
  /\ Goto(c, IF template.exists THEN "count" ELSE "failed")
  /\ UNCHANGED <<localLambda, rows, outside>>

CountCertificates(c) ==
  /\ pc[c] = "count"
  /\ Goto(c, IF OfTemplate = {} THEN "write" ELSE "failed")
  /\ UNCHANGED <<localLambda, rows, outside, local>>

(* Between the count and this transaction: inverse image, fonts, logo      *)
(* upload, template image.                                                 *)
UpdateTemplate(e) ==
  /\ pc[e] = "write" /\ e \in Edits
  /\ IF template.exists
     THEN template' = [template EXCEPT !.version = local[e].version + 1]
     ELSE UNCHANGED template
  /\ Goto(e, IF template.exists THEN "done" ELSE "failed")
  /\ UNCHANGED <<localLambda, certs, shared, accounts, completed, outside, local>>

(* The foreign key of the certificates is set to null.                     *)
DeleteTemplate(d) ==
  /\ pc[d] = "write" /\ d \in Deletions
  /\ template' = [template EXCEPT !.exists = FALSE]
  /\ certs' = [i \in Issues |-> IF i \in Issued
                                THEN [certs[i] EXCEPT !.linked = FALSE]
                                ELSE NoCert]
  /\ Goto(d, IF template.exists THEN "done" ELSE "failed")
  /\ UNCHANGED <<localLambda, shared, accounts, completed, outside, local>>

-----------------------------------------------------------------------------
(* Sign-up or approval of a student: addUserCertificates.                  *)

(* Sign-up creates a complete or a raw user, unless the document has one.  *)
SignUp(c) ==
  /\ pc[c] = "idle" /\ c \in Claims
  /\ accounts[ClaimDoc[c]] = "none"
  /\ \E kind \in {"raw", "pf"} : accounts' = [accounts EXCEPT ![ClaimDoc[c]] = kind]
  /\ Goto(c, "readIds")
  /\ UNCHANGED <<localLambda, template, certs, shared, completed, outside, local>>

(* An administrator approves a user who has a PF row.                      *)
Approve(c) ==
  /\ pc[c] = "idle" /\ c \in Claims
  /\ accounts[ClaimDoc[c]] = "pf"
  /\ Goto(c, "readIds")
  /\ UNCHANGED <<localLambda, rows, outside, local>>

(* A raw user gets his PF row; his certificates are not claimed again.     *)
CompleteProfile(d) ==
  /\ accounts[d] = "raw"
  /\ accounts' = [accounts EXCEPT ![d] = "pf"]
  /\ UNCHANGED <<localLambda, template, certs, shared, completed, outside, pc, local>>

Own(c) == {i \in Issued : DocOf[i] = ClaimDoc[c]}

(* Mutant: the documents are read for the ids.                             *)
ReadDocs(c) ==
  /\ pc[c] = "readIds"
  /\ local' = [local EXCEPT ![c].ids = {DocOf[i] : i \in Own(c)}]
  /\ Goto(c, "update")
  /\ UNCHANGED <<localLambda, rows, outside>>

(* The ids for the abilities are read before the transaction.              *)
ReadIds(c) ==
  /\ pc[c] = "readIds"
  /\ local' = [local EXCEPT ![c].ids = Own(c)]
  /\ Goto(c, "update")
  /\ UNCHANGED <<localLambda, rows, outside>>

(* Mutant: the first query of the transaction is dropped.                  *)
ClaimAbilities(c) ==
  /\ pc[c] = "update"
  /\ certs' = [i \in Issues |->
                 IF i \in Own(c) \cap local[c].ids
                 THEN [certs[i] EXCEPT !.abilities = TRUE]
                 ELSE certs[i]]
  /\ Goto(c, "done")
  /\ UNCHANGED <<localLambda, template, shared, accounts, completed, outside, local>>

ClaimCertificates(c) ==
  /\ pc[c] = "update"
  /\ certs' = [i \in Issues |->
                 IF i \in Own(c)
                 THEN [certs[i] EXCEPT !.receptor = TRUE,
                                       !.abilities = @ \/ i \in local[c].ids]
                 ELSE certs[i]]
  /\ Goto(c, "done")
  /\ UNCHANGED <<localLambda, template, shared, accounts, completed, outside, local>>

-----------------------------------------------------------------------------
(* Owner and administrator.                                                *)

(* Mutant: the hash rows are deleted instead of invalidated.               *)
DeleteHashes(i) ==
  /\ i \in Issued /\ certs[i].receptor
  /\ shared' = [shared EXCEPT ![i] = NoHash]
  /\ UNCHANGED <<localLambda, template, certs, accounts, completed, outside, pc, local>>

(* The owner withdraws every hash of the certificate.                      *)
Disable(i) ==
  /\ i \in Issued /\ certs[i].receptor
  /\ shared' = [shared EXCEPT ![i].valid = {}]
  /\ UNCHANGED <<localLambda, template, certs, accounts, completed, outside, pc, local>>

(* ENABLED: a row with the administrator's hash is created, whatever the   *)
(* owner decided; the hash of the issue stays as it is.  The status, which *)
(* no handler here reads, is written last; DISABLED throws before anything *)
(* is written.                                                             *)
AdminEnable(i) ==
  /\ i \in Issued
  /\ shared' = [shared EXCEPT ![i] = Published(i, "ofAdmin")]
  /\ UNCHANGED <<localLambda, template, certs, accounts, completed, outside, pc, local>>

-----------------------------------------------------------------------------
(* The server dies: handlers and callbacks under way are lost; the rows,   *)
(* the queue (Redis) and the image service stay.                           *)
Crash ==
  /\ MayCrash
  /\ accepted # {} \/ \E a \in Actors : pc[a] \notin Over
  /\ pc' = [a \in Actors |-> IF pc[a] \in Over THEN pc[a] ELSE "failed"]
  /\ accepted' = {}
  /\ UNCHANGED <<localLambda, rows, jobs, posted, answers, local>>

Init ==
  /\ localLambda \in LambdaModes
  /\ template = [exists |-> TRUE, version |-> 1]
  /\ certs = [i \in Issues |-> NoCert]
  /\ shared = [i \in Issues |-> NoHash]
  /\ accounts \in [Docs -> Account] /\ completed = {}
  /\ jobs = {} /\ posted = {} /\ accepted = {}
  /\ answers = [i \in Issues |-> 0]
  /\ pc = [a \in Actors |-> "idle"]
  /\ local = [a \in Actors |-> [version |-> 0, user |-> FALSE, ids |-> {}]]

IssueStep(i) == \/ Load(i) \/ Check(i) \/ Lookup(i) \/ Associate(i)
                \/ Create(i) \/ Hash(i) \/ Dispatch(i) \/ DispatchFails(i)

ServiceStep(i) == ProcessJob(i) \/ Answer(i) \/ Complete(i)

ChangeStep(c) == \/ LoadTemplate(c) \/ CountCertificates(c)
                 \/ UpdateTemplate(c) \/ DeleteTemplate(c)

ClaimStep(c) == \/ SignUp(c) \/ Approve(c)
                \/ ReadIds(c) \/ ClaimCertificates(c)

PeopleStep(i) == Disable(i) \/ AdminEnable(i)

Next == \/ \E i \in Issues : IssueStep(i) \/ ServiceStep(i) \/ PeopleStep(i)
        \/ \E c \in Changes : ChangeStep(c)
        \/ \E c \in Claims : ClaimStep(c)
        \/ \E d \in Docs : CompleteProfile(d)
        \/ Crash

Spec == Init /\ [][Next]_vars

(* The worker polls its queue, the image service answers what it was sent  *)
(* and a callback that was accepted is written unless the server dies.     *)
Fairness == \A i \in Issues : /\ WF_vars(ProcessJob(i))
                              /\ WF_vars(Answer(i))
                              /\ WF_vars(Complete(i))

FairSpec == Spec /\ Fairness

-----------------------------------------------------------------------------
(* Properties.                                                             *)

(* Every variable holds values of the rows and locals it stands for.       *)
TypeOK ==
  /\ localLambda \in BOOLEAN
  /\ template \in [exists : BOOLEAN, version : Nat]
  /\ certs \in [Issues -> Cert \cup {NoCert}]
  /\ shared \in [Issues -> Sharing]
  /\ accounts \in [Docs -> Account] /\ completed \subseteq Issues
  /\ jobs \subseteq Issues /\ posted \subseteq Issues /\ accepted \subseteq Issues
  /\ answers \in [Issues -> 0 .. MaxAnswers]
  /\ pc \in [Actors -> PCs]
  /\ local \in [Actors -> [version : Nat, user : BOOLEAN, ids : SUBSET Issues]]

(* No user holds the abilities of a certificate that is not his: whatever  *)
(* is issued between the two reads and the transaction of a sign-up, the   *)
(* abilities of a certificate name a user only if its receptor does, and   *)
(* that user exists.                                                       *)
AbilitiesFollowReceptor ==
  \A i \in Issued :
    certs[i].abilities => certs[i].receptor /\ accounts[DocOf[i]] # "none"

(* A learning path is completed only on the way to a certificate: without  *)
(* one the issue is about to insert it, or has failed or been lost, and    *)
(* then nothing takes the completed path back.                             *)
PathsLeadToCertificates ==
  \A i \in completed \ Issued : pc[i] \in {"create", "failed"}

(* checkUserCertificate and the insertion are two statements: a student    *)
(* gets two certificates of one template only from issues that were in     *)
(* flight together, through crashes, deletions and repeated callbacks.     *)
DuplicatesBounded ==
  \A d \in Docs : Cardinality({i \in OfTemplate : DocOf[i] = d}) <= MaxInFlight

(* What anyone can see of a certificate: public under either hash.         *)
Shown(i) ==
  IF certs[i] = NoCert THEN "none"
  ELSE IF shared[i].valid # {} THEN "public"
  ELSE IF shared[i].made THEN "withdrawn" ELSE "hidden"

(* Seen from outside, every certificate follows the lifecycle: completed   *)
(* only after a hash was public, withdrawn but never unpublished.          *)
Lifecycle == INSTANCE CertificateLifecycle WITH
  Certificates <- Issues,
  visible  <- [i \in Issues |-> Shown(i)],
  complete <- [i \in Issues |-> certs[i] # NoCert /\ certs[i].success]

LifecycleSpec == Lifecycle!Spec

(* "Dispara a requisição para a IA Python gerar a imagem do certificado"   *)
(* (queue.processor.ts:18): while the server stays up, a dispatched event  *)
(* gets its certificate completed if the hash of the issue stays valid     *)
(* until the image service reports.                                        *)
DispatchedIsCompleted ==
  \A i \in Issues :
    (/\ i \in jobs \cup posted /\ answers[i] = 0
     /\ []("ofIssue" \in shared[i].valid)) ~> (i \in Issued /\ certs[i].success)

(* "Template cannot be edited as certificates were already emitted"        *)
(* (templates.controller.ts:339): a certificate of the template carries    *)
(* the data of the template.                                               *)
CertificatesMatchTemplate ==
  \A i \in OfTemplate : certs[i].version = template.version
=============================================================================
