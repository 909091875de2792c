# CertifikEdu backend: TLA+ models and proofs

The backend (NestJS, Prisma on PostgreSQL, BullMQ on Redis) issues educational
certificates: institutions (PJ) issue them from templates, persons (PF) issue
their own against a plan quota or bought credits. This directory keeps TLA+
models of the parts where requests, callbacks, jobs and crashes interleave, the
TLC runs that check them and TLAPS proofs about them. `PROJECT.json` maps every
definition to the lines it models; paths below are relative to `src/src/`.

What makes the code hard is one thing in many places: handlers are sequences of
awaited statements with **no transaction around them**. Two requests may
interleave at every `await`, a process may die at any of them, and what a
handler holds in its variables may be stale when it writes. The models therefore
have one action per statement that reads or writes shared state, a program
counter `pc[a]` per handler and a record (`local[a]`, or one per part in
`Growth`) for its variables.

## Inventory

| Component | State | Operations | Interacts with | Hard behaviour | What makes it correct |
|---|---|---|---|---|---|
| Self emission (`certificates/`, `payments/services`) | Certificates, BasicPlanSubscriptions, CertificatesCredits | `POST /certificates/create` | plans, credits, text approval, hashes | check-then-insert of quota and credit; renewal races; failure after the credit is spent | overshoot bounded; a credit spent once, oldest first, only beyond the quota, one certificate each |
| Credit purchase (`payments/controllers/transactions`) | PagarmeOrders, CertificatesCredits | `POST /payments/order` | gateway, plans | charge, record and grant are three steps | credits only for a recorded order, all or none |
| Template emission (`certificates.service`, `pjinfo/`, `templates/`) | Templates, Certificates, CertificatesSharing | issue one or many, edit, delete | students, learning paths, queue | duplicate check then insert; bulk issue not awaited; count-then-edit | duplicates bounded; certificates match their template |
| Queue and image callback (`aws/sqs`, `requests/`) | BullMQ jobs, successStatus | enqueue, process, callback | image service (external) | jobs, repeated and late callbacks, LOCAL_LAMBDA switch | a dispatched event completes its certificate |
| Public hashes | CertificatesSharing rows | publish, withdraw, admin enable | callback checks the hash it was sent | withdrawal between check and write; the hash an administrator publishes is another | completed only after having been public |
| Claim at sign-up (`auth/`, `addUserCertificates`) | receptorId, abilities' userId | sign-up, approval | concurrent issues | ids read outside the transaction | abilities only of the receptor |
| Leveling (`leveling/`) | GamificationProfile, XpHistory, UserMissionProgress | event, dashboard views | certificates | lost XP updates, stale counts, first-request races, crash before the reward | level fits XP; counts bounded; completions paid |
| Learning paths (`learning-paths/`, `pjinfo/controllers/paths`) | LearningPaths, modules, student rows | create, rebuild, delete, complete on emission | template emission | an update deletes the modules first; lookups by number; completion before the certificate | a path is empty, or its hours wrong, only for a known cause |
| Accounts (`auth/`, `users/`) | User, AuthCredentials, EmailChangeVerification | six sign-ups, change of email, three password resets, deletion | all | credentials tied to users by email only; unawaited writes; stale checks | no account without credentials, or with those of another, but for a known cause |
| Gateway mirror (`payments/`) | customers, cards, addresses, plans, subscriptions | create, default, refresh, edit, withdraw, cancel | Pagarme (external) | gateway first, row later; refreshes write old answers back | one default card but for a known cause; no silent subscription; nothing on sale that is gone, but for a known cause |
| Cycles, invoices, usages (`payments/`) | Pagarme rows | refresh, invoice | gateway | the refresh stops at the first cycle without a record | not modelled |
| Institution (`pjusers/`, `schools/`, `courses/`, `audit/`, `pjinfo/`) | PJAdmins, CorporateAdmins, Schools, Course, InstitutionalEvents, CourseStudents, AuditLog | associate, enable and remove administrators; create, reactivate and delete schools; courses with their events; students of both | accounts | several statements, log last; events found by name; association races with the completion of a profile | the log claims no removal that did not happen; orphans and lost associations only for a known cause |
| Careers (`corporate/`, `candidate/`) | ProfessionalProfile, JobOpportunity, candidates | profile create, edit, delete; job create, edit, delete; abilities rewritten by emissions | search service (external), emission | stale reads written back; service fails after the row | nobody listed, lost or unknown to the search but for a known cause |
| PDI (`pdi/`) | Pdi, PdiNode, abilities, reviews and books of nodes | generate, delete, mark nodes | AI service, abilities | node by node, each from a look at a catalogue that administrators change | a plan lacks a skill only for a known cause |
| Abilities (`abilities/`, `admin/controllers/abilities`) | Abilities, AbilityOnReview | suggest, approve, reject, create, delete | plans, templates, certificates | rows taken from under those who link them | what is deleted goes from the plans |
| Resumes (`resumes/`) | Resume with nested lists, a PDF file | create, update, delete, draw | PDF service | row, drawing and version are three statements | the PDF shows the row, but for a known cause |
| Academic structure (`pjinfo/controllers/academic-structure`, `subjects/`, `semesters/`, `internships/`, `curriculums/`) | Subjects, Internships, Semester, Curriculum and their links | create, edit, delete, list and unlist | learning paths | look for an equal row or link, write in a later statement, no unique index | nothing is twice but for a known cause |
| Canvas (`canvas/`) | CanvasLTIConfiguration, CanvasEphemeralLogin, CanvasLoginIntents, CanvasToken, CanvasCourse, Course; one token in memory | login, launch, OAuth2 callback, exchange, configuration | Canvas (external), raw sign-ups | one API client for all requests; course made in three statements; login read, then marked | tokens, courses and sessions go astray only for a known cause |
| Events, open badges, blockchain, Moodle, API keys, admin, assets | rows of their own | CRUD | - | one statement, or pure I/O | - |

## Modules

| Module | Models |
|---|---|
| `SelfEmission` | one user's emission requests and credit purchases, interleaved |
| `CreditWallet` | abstract: what the credits of a customer promise (Sell, Spend, Attach) |
| `MCSelfEmission` | small instances |
| `SelfEmission_proofs` | types, the inductive invariants of the credits and of the quota, refinement of `CreditWallet` |
| `TemplateEmission` | one template: issues, edit, deletion, sign-up claims, queue, image callback, withdrawal, re-enabling, crash |
| `CertificateLifecycle` | abstract: hidden, public, withdrawn, completed |
| `MCTemplateEmission` | small instances |
| `TemplateEmission_proofs` | its safety properties, refinement of `CertificateLifecycle` |
| `Leveling` | one user's events and views: profile, missions, XP |
| `MCLeveling` | small instances |
| `Leveling_proofs` | types, level, counts, paid completions, rewards and history |
| `Accounts` | user rows and credentials: sign-ups, email change, resets, deletion |
| `CanvasLti` | teachers who come from Canvas: handshakes, courses, sign-ups of their users, sessions, configurations |
| `Access`, `MCAccess` | composes the two, in mixes of requests |
| `Access_proofs` | its five properties, by one invariant for accounts and one for Canvas |
| `Billing`, `MCBilling` | users and the administrators' plans, mirrored from the gateway |
| `Billing_proofs` | its four properties, by one invariant |
| `Roster`, `MCRoster` | one institution: administrators, school, courses, students, audit log |
| `Roster_proofs` | its five properties, by one invariant |
| `Handlers` | what the modules of `Growth` share: requests and emissions, program counters |
| `AcademicStructure` | subjects, internships, and the semesters and curricula that list them |
| `LearningPaths` | paths, their modules with what is behind them, and the students an emission completes |
| `Careers` | one candidate's profile, the search service, job offers |
| `Resumes` | his resumes, the files drawn of them, the versions recorded |
| `DevelopmentPlans` | plans, the catalogue of abilities and reviews, books |
| `Growth`, `MCGrowth` | composes all of these with the emission that writes to paths and profile, and failures |
| `Growth_proofs` | control, empty paths, and the three properties of careers, by two inductive invariants |
| `GrowthTables_proofs` | repeated rows, PDFs, skills, hours and the types of `Growth`, by four more |

### SelfEmission

`plans`, `credits`, `soldAt`, `orders`, `recorded`, `certs` are the rows;
`now` is a logical clock. A write that stamps a time and must be told apart from
its neighbours ticks it (`MakePlan`, `RenewPlan`, `Grant`), certificates get the
time as it is, and `Tick` lets time pass. Ties are thus possible for
certificates, which is the worse case for `createdAt > cycleStart`.

- `Arrive` reads `freeCertificates` (an administrator may toggle it, so both
  outcomes occur). `PlanMissing`/`MakePlan`, `PlanExpired`/`RenewPlan` and
  `PlanCurrent` are `refreshUserBasicSubscription`; the reading and the writing
  of the row are separate steps, `findFirst` picks any row.
- `NewPlan` keeps what the code does with its Date object: `cycleStart` is
  mutated by the `setDate` that computes `cycleEnd`.
- `Count`, `FindCredit`, `Unpaid`, `NoCustomer` are `checkUserPfCertificatePayment`;
  `Invalid`, `Spend`, `Refuse`, `Check`, `Store`, `StoreFails`, `Share` the rest
  of the handler in the order of the code, each failure where it can occur.
- `Disconnected` is external: connecting a one-to-one relation in Prisma takes
  the credit from the certificate that had it; `StoreFails` is the other
  outcome, when the unique index rejects the second connect.
- `Buy`, `Charge`, `RecordOrder`, `Grant` are a purchase; it ends with a plan
  refresh like that of an emission, because the answer reports the balance.
- Left out: Pagarme subscribers (their cycle comes from the gateway), the one
  account with an unlimited quota by its email, evidences, and the approval of
  certificates in REVIEW.

### TemplateEmission

One template with a version, which stands for the data certificates copy from
it. `Load`..`Dispatch` are `issueCertificateFromTemplate` and the load of the
template by its callers; `ProcessJob`, `Answer`, `Complete` the worker and the
callback, whose check of the hash and write of the status are two steps. The
image service is external: it answers what it was sent, up to `MaxAnswers`
times. `LoadTemplate`, `CountCertificates`, then `UpdateTemplate` or
`DeleteTemplate` are the two PJ handlers. `SignUp` or `Approve`, then `ReadIds`
and `ClaimCertificates`, are what gives a student the certificates issued before;
`accounts` tells raw users (no PF row) from complete ones, since an issue only
looks for a PF row, and `CompleteProfile` adds that row and claims nothing.
`shared` keeps the hash rows of a certificate by the hash they carry: the one of
the issue is made of the issuer's email (`certificates/certificates.service.ts:638`),
the one `AdminEnable` publishes of the issuer's name
(`admin/controllers/certificates.controller.ts:40`), and `Answer` looks up the one
of the issue, which is what the image service was sent. `Disable` withdraws all. A
certificate that was withdrawn and enabled again is therefore public (`Shown`),
and its callbacks stay refused. Open badge files, emails, the blockchain flag and
the candidate profile are outcomes (the step may fail), not state.

### Leveling

Events and views both begin with `ensureProfileExists` (`FindProfile` to
`Ensured`); `Log`, `Read`, `Write` are `addXp`, called from two loops and from
the event itself, so `local[a].next` says where it returns; `FindProgress`,
`Update`, `Finish` are `processEvent`. Missions are fixed, active and global.
`certified` is the count of certificates with `successStatus` SUCCESS, which
`TemplateEmission!Complete` sets. The title of a level is a function of the
level and left out. XP amounts and thresholds are scaled down in the runs.

### Accounts

`users` are the User rows, named by the sign-up that made them; `credentials`
are the AuthCredentials rows, a table keyed by email with no key to User. A
password is a record of the account it was made for (`of`) and of the handler
that wrote it (`by`).

- `SignUpPf`, `SignUpPj`, `SignUpRaw`, `AdminCreateUser`, `CreateNewUserAPI` and
  `CreateStudent` are the six entry points; `Arrive` is the document check they
  share, then `CheckEmail`, `CreateAuthCredentials` (upsert, confirmed or keeping
  the status it finds), `InsertUser` with the unique indexes (`Free`).
  `CreateInBackground` is the call `CreateStudent` does not await.
- `RequestEmailChange`/`CreateVerification` write a code; `VerifyEmailChange`,
  `MoveEmail` (the only transaction) and `ForgetCodes` use it.
- `ResetUserPassword`, `UpdateUserPassword`, `ResetRawUserPassword` share
  `WritePassword`; `DeleteUser`, `RemoveLogin`, `RemoveUser` are the deletion.
- `vacated` is a history variable: emails whose credentials a change or a
  deletion took. The two properties are stated with it.
- Left out: tokens, codes of recovery, activity times, profile data. A code's
  expiry is an outcome.

### CanvasLti

A visit (`VisitOf`) is what Canvas says of a teacher and a course; a login is
named by the LTI login that made it, or by the launch that had none; a course by
the handshake that made it. `stage` and `work` are the control and the variables
of a handshake, an exchange or a configuration request.

- `Launch`, `GetLTIConfigurationByDomain` or `Discard`, `GetToken`, then
  `RefreshToken` or `CreateLoginIntent` are the first half of
  `getOauth2RedirectUrl`; `HandleOauth2Callback`, `GetToken`, `RefreshToken` or
  `GenerateNewUserToken` that of `handleOauth2Callback`. Both go on with
  `GetAllCourseUsers` (one step a page), `FindCourse`, `InsertCourse`,
  `LinkCourse`, `CreateUsers`, `AwaitUsers`, `BindLogin`; they differ in `Known`.
- `token` is the field of the one client of the Canvas API; `Hold` writes it.
  Canvas is external: it refuses a token of another domain and answers to any
  teacher of its own.
- `CreateUsers` starts the raw sign-ups of `Members`, which are those of `Accounts`
  (`Called` in `Access`); it waits for all, and one that throws ends it.
- `CreateJwtTokenFromState` and `MarkUsed` are the exchange of a login.
- `by`, `domain` of a course, `used`, `since` and `seen` are history.
- Left out: what the rows of Canvas users hold (nothing reads it), secrets, roles,
  Moodle, and the handlers that emit through `TemplateEmission`.

### Billing

Gateway state and rows are separate variables; the gateway is external and does
what it is asked or refuses (`Fail`). `UserOf` says who sends a request and so
owns the customers and cards it makes. A request is at the gateway first and in
the tables a step later. A plan carries a `version` for its `updated_at`, so that
`RefreshPlan`, `RecordEdit`, `RecordDeletion` and `RefreshPlanInfo` write back
what the handler had been answered, old or not. `GetPlansInfo`, `GetPlansIds`,
then `DeleteUnknown`, `RefreshPlanInfo`, `EndListing` are a listing, whose
promises run side by side.

- Modelled as they are: `SetCardDefault` takes any card, since nobody asks whose
  it is, and clears the cards of a customer of the one who asks
  (`cards.controller.ts:126`, `cards.service.ts:103`); `DeleteUserCard` always
  fails (user id for customer id); cancelling finds no subscription, since no
  code relates a UserPlans row to one, which is also why a subscriber may
  subscribe again; discounts break the recording (`CreateSubscription`);
  `UpdateSubscriptionCycles` throws once the gateway lists a cycle.
- Left out: addresses other than having one, items, increments, invoices, usages.

### Roster

One CNPJ. `Target` is the common start of edits and deletions of courses, which
keeps the name to find the event by (`FindEvent`, `ChangeInstEventByCourse`)
before `CheckOwner`. `CreateOrReactivateSchool` is the API's way to a school that
was deleted, and `InsertSchool` the refusal of the other one. `Log` is
`audit.log`, which swallows its errors. `ReadUser` is the query each association
service begins with; `UpdateRawUserInfo`, `CreatePessoaFisica`, `ClearTemp` the
completion of a raw student, whose guard read the row. Bulk uploads, edits of
plain data and roles are left out.

### Handlers and Growth

Every module of `Growth` EXTENDS `Handlers`, which gives each request and
emission a program counter and a kind. `mix` says what each of them may be for;
it is chosen once, from `Mixes`, and never changes, so a run is over the union
of the mixes. `Growth` joins the modules: requests of each, emissions that go
through paths and profile (`GetReceptor`, `FindPaths`, `AssociatePfOnEmission`,
`InsertCertificate`, `ReadUserAbilities`, `UpdateAbilitiesOnProfile`), what a
deletion in the academic structure takes from the modules of paths
(`StudiesStep`), and `Fail`.

- `AcademicStructure`: a component (subject or internship) is named by the
  request that made it and its place in the list of the body; its hours stand
  for all it says, and equal hours are equal rows. Bodies are lists: what a
  curriculum brings (`body`) and the curricula an internship is created in
  (`curriculums`) may say or name the same twice, of which nobody takes notice,
  since each entry is compared with the tables only. `Ask` is the arrival of a
  request. `CheckSubject` and `CheckInternship` look for an equal row,
  `InsertRows` writes what was not found. `GetSubjectById`,
  `GetValidSemestersIds`, `WriteLinks` are the links from the side of the
  subject; `GetHolder` those from the other side, whose filter of an addition is
  inverted (`semester.controler.ts:226`, `curriculum.controller.ts:381`): it
  keeps only what is listed already, and lists it again. `compared` and `seen`
  are what a handler read. Left out: activities (their creation, edit and
  deletion throw), the edit of an internship (throws: it looks its owner up by a
  field the token lacks), the removal of subjects from a semester's side
  (throws: subject ids are used for link ids), a semester created with subjects
  (throws), study fields, course ownership, edits of plain data. Numbers of
  semesters are a refusal that may happen.
- `LearningPaths`: a body is an outline, the components asked for behind each
  module; `found`, `left` and `read` are the modules a handler has looked up,
  the lookups of children it has yet to do, and what they found. `FindModule`
  and `CheckChildren` take one lookup at a time, in any order between modules
  and in the order of the code within one. `AssociateModuleChildren` is the
  transaction of children and hours. `Connected` is the unique template
  relation, which Prisma moves from one path to another. Institutional events
  and activities behind modules are left out (they are looked up and attached
  like internships). A body without any module is an outline too, for the DTO
  lets it through; one that numbers two modules alike is refused by the unique
  index, as one is whose write collides with another.
- `Resumes`: a resume is what its row says (`text`, `entries`) and the version
  of its drawing; `ResumePdfLambda` writes the file, `RecordPdf` the version.
  `overtaken` is history: somebody wrote or drew in between. Files of deleted
  resumes stay. Left out: the parser of uploads, the local mode of the service.
- `DevelopmentPlans`: a plan is written, with status SUCCESS, before its nodes;
  `GetAbilitiesByName`, `GetAbilitiesOnReviewByName`, `CreateAbilityOnReview`
  and `LinkAbilities` are the abilities of a node, `FindBook` and `WriteBook`
  its book. A node whose book and one of whose skills are known always fails:
  ability ids are given for ids of reviews (`pdi.service.ts:132`). Approving a
  review takes it out of the plans. Left out: the renaming of an ability by an
  administrator (`admin/controllers/abilities.controller.ts:60`), by which a
  plan may lose the skill it asked for while it keeps the row, so that
  `SkillsLostHaveCause` would need it as one more cause; marks on nodes, the
  callback of the AI service, and the ability made of a certificate.
- `Careers`: one candidate; an ability stands for the emission that granted it.
  `ReadUserAbilities` and `UpdateAbilitiesOnProfile` are
  `updateCandidateAbilitiesOnEmission`, called from emissions and
  from the creation of a profile; `NewAbilityIds` keeps that objects in Sets are
  compared by identity. `Post` is two calls side by side. `Abandon` is the
  `catch` that takes a new profile back. `Search` is external: it fails, or
  answers with what it was given before, or with less.
- The refresh after an update of a profile is given the wrong id and does
  nothing; `EditJob` searches and never removes anybody who was listed, except
  that the edit itself empties the list (`WriteJob`).

## Runs

| Run | Instance | Shows |
|---|---|---|
| `SelfEmissionCredits` | 2 requests at a time, 2 purchases of 1 credit, quota 0 | types, and the properties of credits, when two requests find the same credit too; `WalletSpec` says among them that the oldest goes first and backs one certificate |
| `SelfEmissionQuota` | 3 requests, 2 at a time, quota 1, one credit, cycles of 2 ticks | `OvershootBounded`: quota plus one per other request in flight, and no worse, over renewals, double plans and crashes; `CreditOnlyAfterQuota` |
| `SelfEmissionFirstCycle` | 3 requests one at a time | **violation**: the quota does not bind in the first cycle |
| `TemplateEmissionSafety` | 3 issues (2 at a time), a deletion, a sign-up, 1 callback each, both modes, crashes | types, `AbilitiesFollowReceptor`, `PathsLeadToCertificates`, `DuplicatesBounded`, `LifecycleSpec` |
| `TemplateEmissionLive` | 2 issues, sign-up, edit, 2 callbacks each, LOCAL_LAMBDA, no crash | `DispatchedIsCompleted` under fairness: while the hash of its issue stays valid |
| `TemplateEmissionQueue` | 1 issue, no LOCAL_LAMBDA | **violation**: the queued event is never sent |
| `TemplateEmissionEdit` | 1 issue, 1 edit | **violation**: template and certificate diverge |
| `LevelingRaces` | 2 certificate events and a view, all at once, as first requests, 3 missions | types, level, counts, rewards, `CompletionPaid` |
| `Access` | nine mixes: 3 sign-ups over all six entry points (two share an email, two a document) with a change of email, a reset, a deletion; two launches, one or two callbacks, two exchanges, two configurations, with the sign-ups of their courses; failures | which accounts lack credentials or answer to another's; which logins and students get a foreign course, which courses are twice, whose token lists users, when a login is used twice |
| `Billing` | 3 requests of a user or an administrator, 1 of another user, each for some of ten operations, failures anywhere | default cards, unrecorded subscriptions, plans on sale |
| `Roster` | 3 requests over fifteen operations, a PF student and a raw one | audit log, orphan courses, events, associations |
| `Growth` | 3 requests and 2 emissions in seventeen mixes, failures anywhere | paths, hours, repeated rows and links, abilities, search, candidates, PDFs, skills of plans |

Bounds. Two handlers at a time show every pairwise race of read and write, a
third request finds what two left behind; two purchases order credits by age;
quota 1 is the boundary itself (one unit left, none left), and a cycle of two
ticks expires within a run. The credits have a quota of 0 to themselves: with one
unit of it one of two requests would take that, and they would never find the
same credit. `MaxInFlight` bounds requests handled at once and
appears in the bounds that are stated (`OvershootBounded`, `DuplicatesBounded`,
`RewardsBounded`): the code has no such limit, so the properties say how the
damage grows with concurrency. `MaxTick` stops idle time only; writes may still
advance the clock. Deadlock is not checked because every instance has finitely
many requests and rightly stops.

In `Access` (accounts), `Billing` and `Roster` every request is for one of the
operations its `KindsOf` or `Entries` allows; these sets are chosen so that
every operation occurs, each pair that shares a row occurs together, and the
third or fourth request finds what the others left. Three sign-ups suffice to
give the email of one to the document of another. `Access` has a mix for
accounts alone and eight with Canvas: launches of two institutions, of two
teachers of one course, a launch with callbacks, exchanges beside either, two
configurations beside either, and a launch beside a sign-up for the same email;
each fixes the tokens and domains that are there at first. `Growth` uses
seventeen mixes (`MCMixes`), because its parts share only the emission and the
components behind modules: two or three builds of paths, beside an emission,
beside deletions, beside edits of what is behind the modules; links from both
sides beside removals; two creations of internships and curricula beside
deletions; a profile created and edited beside two emissions, a second creation,
a deletion; jobs beside edits of the profile; resumes drawn by two; two plans
beside an approval, or one beside four of the administrator's operations. No
symmetry is used: the mixes are not symmetric. Two module numbers tell a lookup
of the wrong row from the right one. Lists have two places (`Most`), the least
in which something is said or named twice. Hours 1 and 2 tell equal rows from
different ones and old from new after an edit. Of the outlines one has a subject
behind a module numbered 1, one an internship behind a module numbered 2, one
both behind the first module and none behind the second, and one is without
modules. There is a roadmap of one node and one of two. Two skills and two books
make a plan in which a name occurs again in the second node.
`AssociationsHaveCause` needs one raw student; the PF one is for the other
branch of each service.

Many of these properties have the form "this bad state has one of these causes".
The code has no transactions, so the bad states do occur; what the runs show is
that the listed races and failures are the only ways to them, and a mutant shows
that a bug elsewhere would be another.

`OvershootBounded` speaks of the latest cycle any row or handler knows of.
Earlier cycles are not bounded this way: a request that read an old start may
still be in flight. `CreditOnlyAfterQuota` is about the cycle the request read.

Each property also has a mutant, a definition marked "Mutant" in the modules
and named in `PROJECT.json`, that changes the model as a plausible bug would and
that TLC finds to break the property.

Fairness (`TemplateEmission!Fairness`, used by the two liveness runs): the
BullMQ worker polls its queue (weak fairness of `ProcessJob`); the image service
answers requests (`Answer`, an assumption about an external service); a
callback that passed its check is written, since nothing in the handler blocks
(`Complete`). No fairness is assumed of users, and crashes are excluded from
`TemplateEmissionLive` because a callback lost in a crash is repeated by nobody.

## Findings

1. A basic plan's first cycle starts when it ends (`subscriptions.service.ts:117`).
2. Queued events are consumed without being sent (`requests.service.ts:259`).
3. Edits race with emissions although issued templates are not to be edited
   (`pjinfo/controllers/templates.controller.ts:414`).

The models also show behaviour no text of the repository promises against, which
the properties describe rather than refute: a refused payment grants credits, a
failed request loses its credit, a crash loses a mission's reward, a mission of
one event may be paid once per concurrent request, a profile's XP may be lower
than its history, and three events of one course complete the mission the seeder
describes as three different courses. An account whose sign-up lost a race may
leave its password to the winner, a student created by an institution may have
no credentials at all, a subscription may be charged without a row, a removed
school keeps its CNPJ, and a profile may lack the abilities of a certificate.

## Proofs

TLAPS proves the following for every value of the constants under the named
assumptions of the modules: any number of requests, issues, students, plans,
courses, any mixes of them. An assumption says that names of different kinds of
handlers are different, that `None` is no row, and what else is listed below.
Each module has one inductive invariant per group of properties, with the same
three steps: `Init` gives it, every action keeps it (one lemma per action, and
under it one step per conjunct the action can disturb), and it gives the
property. The properties are hardly ever inductive themselves: they speak of
rows, and what makes them true is what handlers hold.

`SelfEmission_proofs`
- `TypesOfRows`: `Spec => []TypeOK`. Not inductive as it stands: a handler that
  publishes must have stored its certificate (`StoredCert`).
- `WalletInvariant`: the inductive invariant `WalletInv` of the credits. None of
  the credit properties is inductive; each depends on what handlers hold. It adds
  that no handler has a payment before it looked for one (`NoChoiceYet`), that
  the credit a handler found still exists and no older one has become valid
  since (`ChosenCredit`), that a credit is spent before a certificate names it
  (`SpentFirst`), and that purchases are dated, recorded and granted in order
  (`SoldInPast`, `NotYetSold`, `Ordered`). The point that carries the proof: new
  credits are always younger than every credit a handler may have found.
- `OldestFirst`, `OneCertificatePerCredit`, `OrdersBehindCredits` and
  `SpentCreditsExplained` follow. The first two are consequences of `WalletSpec`
  too, and are proved rather than run.
- `ImplementsWallet`: `Spec => WalletSpec`. `Spend` is a wallet `Spend`, or a
  stutter when another request spent the same credit first; `Store` is `Attach`
  or a stutter; `Grant` is `Sell`; everything else stutters.
- `CreditAfterQuota` and `OvershootIsBounded` by `QuotaInv`. `OvershootBounded`
  counts certificates, which is not inductive: what has to be bounded is those
  of the latest cycle together with those about to be inserted (`Charged`), by
  quota plus the other requests in flight (`Overshoot`). It needs that rows and
  requests in memory are finitely many (`Counted`), that a request has no cycle
  before it read one and renews only one that began before now (`PlansInv`), and
  that who is past the quota stays so (`QuotaGone`), since certificates are only
  added to a cycle.

`TemplateEmission_proofs` (`ActorsAssumption`, `RowsAssumption`, `TemplateAssumption`)
- `TemplateTypes`, `AbilitiesAreTheReceptors`, `PathsBeforeCertificates` and
  `DuplicatesAreBounded` by `Inv`: types, `IssueOK` (a certificate is inserted
  once, and jobs, posts and hashes exist only after that), `ClaimOK` (who claims
  is a user), and `Bounded`. As with the quota, the bound is on certificates
  and issues past their check together (`Held`): an issue passes its check only
  while its student has no certificate of the template, and then all that are
  held are in flight.
- `ImplementsLifecycle`: `Spec => LifecycleSpec`. Inserting a certificate, its
  hash, a withdrawal or re-enabling, and a completion are one step of
  `CertificateLifecycle` each; everything else, claims, deletions and crashes
  included, stutters.

`Leveling_proofs` (rewards of at most one level, `RewardsAssumption`)
- `TypeCorrect`; `LevelCorrect` by `LevelInv`, which says of every pair of XP and
  level a handler has read that it fits, so that even a lost update writes a pair
  that fits; `CountsCorrect` by `CountInv`, which says that counts an event holds
  are below the requirement, because they were read from open missions;
  `CompletionsPaid` by `PaidInv`: completing and calling `addXp` are one step.
- `RewardsCorrect` by `RewardInv` and `HistoryInv`. The first bounds rewards paid
  together with events that still hold the mission as open. The second says why
  the history covers the XP although updates are lost: the units the history
  logged can be split so that the profile has some of them, who has logged and not
  read yet owns some that nobody else has, and who is about to write holds those
  it read with its own. A lost update drops units, and no step counts one twice.

`Access_proofs` (`AccountsAssumption`, `RowsAssumption`, `CanvasAssumption`,
`CanvasRowsAssumption`)
- `AccessTypes`, `MissingLogins`, `ForeignLogins` by `AccountsInv`: what handlers
  hold when they write or remove (`LocalsOK`), that a sign-up which awaited its
  credentials still finds them or they were vacated (`LoginsThere`), that emails
  of users are unique (`EmailsUnique`), and that a password is for the email its
  account signed up with, unless that was vacated (`FirstEmails`).
- `CanvasCourses`, `Handshaking` by `CanvasInv`: that what a visitor found is
  there (`VisitorsOK`), that logins stay, and stay deleted (`LoginsOK`), which
  token a handshake may list users with (`TokensOK`), that a linked course is
  where its link says (`LinksOK`), and that the course a login is bound to was
  found in its domain or by a callback (`BindingsOK`). Each half of `Access`
  leaves the other's rows alone, but for the sign-ups a handshake calls.

`Billing_proofs` (`BillingAssumption`, `RowsAssumption`)
- `BillingTypes`, `DefaultCards` (a second default card of a user has a second
  customer of his, or another user's request, behind it),
  `UnrecordedSubscriptions`, `StaleSales` by `Inv`, that is `Well` (types, what
  each label and kind of request implies), `CardsOK`, `SubsOK` and `PlansOK`.
  `PlansOK` is where the work is: a plan deleted at the gateway is withdrawn in
  the tables too, or it has a cause; a state of a plan that a request has read
  is never newer than the gateway's (`Older`), which makes its writing a cause
  exactly when the deletion came between.

`Roster_proofs` (`RosterAssumption`, `RowsAssumption`)
- `RosterTypes`, `AuditTrue`, `OrphanCourses`, `MissingEvents`, `Associations` by
  `Inv`: `Well`, `AdminsOK`, `CatalogueOK` (schools, courses, events) and
  `PeopleOK` (students). A row is inserted once, by the request that names it,
  so what was gone when it was logged stays gone; what a student's completion
  read before an association is kept by `PeopleOK` next to what he has now.

`Growth_proofs` (`HandlersAssumption`, `AcademicsAssumption`, `PathsAssumption`,
`CareersAssumption`, `ResumesAssumption`, `PlansAssumption`)
- `EmptyPathsExplained` by `EmptyInv`, that is the property, `PathInv` and
  `ControlOK`. The property is not inductive: it needs that whoever is at
  `deleteModules` is an update, that a handler inside a build has an outline and
  names a path, a creation its own, and that labels and kinds are those of the
  code: a build that has written leaves its path with a module, or was asked for
  none.
- `SilentProfilesExplained`, `ListedCandidatesExplained` and
  `LostAbilitiesExplained` by `CareersInv`. It says that handlers hold only
  abilities that were granted (`ReadInv`), that a profile made by a request is
  known to that request, whose creation has come that far (`CreatorInv`), that
  only creations and emissions rewrite abilities (`LabelInv`), that the search
  knows every profile but one whose creation is under way or was cut off
  (`IndexedInv`), that whoever is listed, or about to be, has an open profile or
  somebody closed it (`ListedInv`), where an emission is when its ability is
  granted (`GrantInv`), and that an ability an ended emission granted is on the
  profile unless a creation has yet to write, or somebody wrote what he had read
  before (`LostInv`). The point that carries the last: an emission reads after
  its own insertion, so what it writes contains its own ability.

`GrowthTables_proofs` (the same assumptions; of `PathsAssumption` that what a body
asks for behind a module is finite)
- `RepeatsExplained` by `StudyInv`: links and rows are of requests that have ended
  with the statement that wrote them (`Settled`), so what a later request did not
  see was written after it read; two links or rows of one request are at two
  places of its body, which says the same there.
- `PdfsExplained` by `ResumeInv`: a handler about to draw or record holds the text
  the row has, unless it was overtaken, and whoever wrote that text is drawing or
  has ended.
- `LostSkillsExplained` by `PlanInv`, which follows a plan node by node and, in a
  node, label by label: what was known, what is on review, what is yet to be.
- `HoursExplained` by `HoursInv`. A path whose modules are of one build has behind
  them exactly what that build attached (`AttachedOK`, `ChildOK`), with the hours
  it had read (`ReadOK`) unless somebody touched the component; and its row has
  the hours of that build (`HoursOK`) if every build of it that ended attached
  something to modules of its own. Sums are a fold over sets; that equal sets
  of rows have equal sums (`SameTotal`) needs well-founded induction over finite
  sets, done with the least counterexample (`LeastOf`), since the induction
  theorems of the library cannot be instantiated.
- `GrowthTypes`: `TypeOK`, from all six invariants of `Growth` and that students are
  on paths only by emissions that came in (`SeatsInv`).

The proof of `HoursExplained` corrected a property. The model checker had accepted
it without its first cause; the step of `AssociateModuleChildren` could not be
proved, and the reason is real: two updates that race and number their modules
differently leave modules of both and the hours of the last
(`pjinfo/controllers/paths.controller.ts:98,153`). `MCOutlines` now has outlines
that show it.

Only model-checked: liveness (`DispatchedIsCompleted`), since fairness and ENABLED
are out of the prover's reach, and the three violations, which are counterexamples.

## Not modelled

- Cycles, invoices, usages: the refresh throws at the first cycle that has no
  record (`cycles.service.ts:51`), so no state of theirs is ever reached from an
  empty database.
- Events, background and font assets: rows written by one statement per request.
- Within modelled parts: Moodle's LTI, the local mode of the services
  (`isLocal`, `localLambda`), the parser of uploaded resumes, marks on the nodes
  of plans and the callback of the AI service, the renaming of abilities,
  activities and study fields, bulk uploads.
- Open badges, blockchain, emails, API keys, gateways: I/O whose failure is
  an outcome of the steps that use it.
- Sessions and tokens: stateless, or a row nothing creates.

## Plan

Every safety property the passing runs check is proved, and so are both
refinements. What is left:

1. Models: the API of institutions (`api/controllers`), creation of templates
   beside schools and courses (`pjinfo/controllers/templates.controller.ts`),
   Pagarme subscribers in `SelfEmission` once cycles can be recorded. Each comes
   with its invariant, found by TLC first and then proved.
2. Abstract specifications for the tables of `Growth` and for the credentials of
   `Accounts`, whose properties are so far stated on the detailed models.
3. Liveness of `TemplateEmission` by hand-made variants: what can be said
   without ENABLED is that each dispatched event stays deliverable until it is
   delivered, a safety property.

Most important behaviour came first: what users pay for and what employers
verify, then who may log in, then what institutions keep. Recursion is avoided in
the modules (sets and counters suffice, and sums are folds), so all of them can
be proved about.
