------------------------------- MODULE Careers -------------------------------
(***************************************************************************)
(* The professional profile of a candidate, the job opportunities he is     *)
(* recommended for, and the external service that searches candidates.  The *)
(* abilities of the profile are rewritten from those of his certificates by *)
(* every emission, in a read and a later write.                            *)
(***************************************************************************)
EXTENDS Handlers

VARIABLES profile,      \* the ProfessionalProfile row of the candidate
          granted,      \* abilities on his certificates: those of these emissions
          indexed,      \* the search service knows the candidate
          jobs,         \* JobOpportunity rows by maker: is the candidate on the list?
          hire          \* what a handler has read of them

careerTables == <<profile, granted, indexed, jobs>>
careerVars == <<careerTables, hire>>

Profile == [by : Makers,                \* stands for its id
            open : BOOLEAN,             \* openToWork
            field : BOOLEAN,            \* WorkFieldOnProfessionalProfile has the field
            abilities : SUBSET Emissions]

ASSUME CareersAssumption == None \notin Profile \cup {"listed", "unlisted"}

Hire == [profile : Makers \cup {None},
         job : Makers \cup {None},
         open : {"yes", "no", "asBefore"},
         field : BOOLEAN,
         abilities : SUBSET Emissions,
         found : BOOLEAN]               \* the profile, or the candidate by the search

CareersTypeOK ==
  /\ profile \in Profile \cup {None}
  /\ granted \subseteq Emissions
  /\ profile # None => profile.abilities \subseteq granted
  /\ indexed \in BOOLEAN
  /\ jobs \in [Makers -> {"listed", "unlisted", None}]
  /\ hire \in [Handlers -> Hire]

-----------------------------------------------------------------------------
RefuseHire(a) == Goto(a, "refused") /\ UNCHANGED careerVars

NoHire == [profile |-> None, job |-> None, open |-> "asBefore", field |-> FALSE,
           abilities |-> {}, found |-> FALSE]

Holds(a) == profile # None /\ profile.by = hire[a].profile

Target(r) == IF kind[r] = "createProfile" THEN r ELSE hire[r].profile

(* The profile of the candidate.                                           *)
CreateProfile(r) ==
  /\ profile = None
  /\ Start(r, "createProfile", "readAbilities")
  /\ \E o \in {"yes", "no"}, f \in BOOLEAN :
       hire' = [hire EXCEPT ![r] = [NoHire EXCEPT !.profile = r, !.open = o, !.field = f]]
  /\ UNCHANGED careerTables

UpdateProfile(r) ==
  /\ profile # None
  /\ Start(r, "updateProfile", "readAbilities")
  /\ \E o \in {"yes", "no", "asBefore"}, f \in BOOLEAN :
       hire' = [hire EXCEPT ![r] = [NoHire EXCEPT !.profile = profile.by, !.open = o, !.field = f]]
  /\ UNCHANGED careerTables

DeleteProfile(r) ==
  /\ profile # None
  /\ Start(r, "deleteProfile", "deleteProfile")
  /\ hire' = [hire EXCEPT ![r] = [NoHire EXCEPT !.profile = profile.by]]
  /\ UNCHANGED careerTables

GetUserAbilities(r) ==
  /\ pc[r] = "readAbilities"
  /\ hire' = [hire EXCEPT ![r].abilities = granted]
  /\ Goto(r, IF hire[r].open = "yes" /\ kind[r] = "updateProfile" THEN "leaveJobs" ELSE "writeProfile")
  /\ UNCHANGED careerTables

RemoveCandidateFromJobs(r) ==
  /\ pc[r] = "leaveJobs"
  /\ jobs' = [j \in Makers |-> IF jobs[j] = "listed" THEN "unlisted" ELSE jobs[j]]
  /\ Goto(r, "writeProfile")
  /\ UNCHANGED <<profile, granted, indexed, hire>>

(* A person has one profile.                                               *)
CreateProfileRecord(r) ==
  /\ pc[r] = "writeProfile" /\ kind[r] = "createProfile"
  /\ IF profile # None THEN RefuseHire(r)
     ELSE /\ profile' = [by |-> r, open |-> hire[r].open = "yes", field |-> hire[r].field,
                         abilities |-> hire[r].abilities]
          /\ Goto(r, "readBoth")
          /\ UNCHANGED <<granted, indexed, jobs, hire>>

(* The work fields of the profile stay, and one that is sent again refuses  *)
(* the update.  The refresh that follows is given the id of the person for  *)
(* that of his user, finds nobody and writes nothing.                      *)
UpdateProfileRecord(r) ==
  /\ pc[r] = "writeProfile" /\ kind[r] = "updateProfile"
  /\ IF ~Holds(r) \/ (profile.field /\ hire[r].field) THEN RefuseHire(r)
     ELSE /\ profile' = [profile EXCEPT !.field = @ \/ hire[r].field,
                                        !.open = IF hire[r].open = "asBefore" THEN @
                                                 ELSE hire[r].open = "yes",
                                        !.abilities = hire[r].abilities]
          /\ Goto(r, "post")
          /\ UNCHANGED <<granted, indexed, jobs, hire>>

DeleteProfileRecord(r) ==
  /\ pc[r] = "deleteProfile"
  /\ IF profile = None \/ profile.by # Target(r) THEN RefuseHire(r)
     ELSE /\ profile' = None
          /\ Goto(r, IF kind[r] = "deleteProfile" THEN "done" ELSE "refused")
          /\ UNCHANGED <<granted, indexed, jobs, hire>>

-----------------------------------------------------------------------------
(* Rewriting the abilities of the profile.                                 *)

After(a) == IF a \in Emissions THEN "done" ELSE "post"

(* What goes wrong between the profile and the answer of the services takes *)
(* the new profile back.                                                   *)
Abandon(a) == Goto(a, IF kind[a] = "createProfile" THEN "deleteProfile" ELSE "refused")

(* The profile and the abilities of the certificates, read one after the    *)
(* other; without any of them nothing is written.                          *)
ReadUserAbilities(a) ==
  /\ pc[a] = "readBoth"
  /\ IF profile = None THEN Goto(a, After(a)) /\ UNCHANGED hire
     ELSE /\ hire' = [hire EXCEPT ![a].profile = profile.by, ![a].abilities = granted]
          /\ Goto(a, IF granted = {} THEN After(a) ELSE "writeAbilities")
  /\ UNCHANGED careerTables

(* Mutant: abilities the profile has are not new, and not written again.   *)
UnknownAbilityIds(a) == hire[a].abilities \ profile.abilities

(* Sets of objects are compared by identity: every ability is a new one.   *)
NewAbilityIds(a) == hire[a].abilities

UpdateAbilitiesOnProfile(a) ==
  /\ pc[a] = "writeAbilities"
  /\ IF ~Holds(a) THEN Abandon(a) /\ UNCHANGED profile
     ELSE profile' = [profile EXCEPT !.abilities = NewAbilityIds(a)] /\ Goto(a, After(a))
  /\ UNCHANGED <<granted, indexed, jobs, hire>>

AbilitiesFail(r) ==
  /\ pc[r] \in {"readBoth", "writeAbilities"} /\ kind[r] = "createProfile"
  /\ Abandon(r)
  /\ UNCHANGED careerVars

(* Mutant: a new profile the services did not take stays.                  *)
PostOnly(r) ==
  /\ pc[r] = "post"
  /\ \/ indexed' = TRUE /\ Goto(r, "done")
     \/ indexed' \in {TRUE, indexed} /\ Goto(r, "refused")
  /\ UNCHANGED <<profile, granted, jobs, hire>>

(* The description and the abilities go to two services side by side: one   *)
(* may take them when the other fails.                                     *)
Post(r) ==
  /\ pc[r] = "post"
  /\ \/ indexed' = TRUE /\ Goto(r, "done")
     \/ indexed' \in {TRUE, indexed} /\ Abandon(r)
  /\ UNCHANGED <<profile, granted, jobs, hire>>

-----------------------------------------------------------------------------
(* Job opportunities.                                                      *)
CreateJob(r) ==
  /\ Start(r, "createJob", "writeJob")
  /\ hire' = [hire EXCEPT ![r] = [NoHire EXCEPT !.job = r]]
  /\ UNCHANGED careerTables

EditOrDeleteJob(r, k, l) ==
  \E j \in Makers : /\ jobs[j] # None
                    /\ Start(r, k, l)
                    /\ hire' = [hire EXCEPT ![r] = [NoHire EXCEPT !.job = j]]
                    /\ UNCHANGED careerTables

EditJob(r) == EditOrDeleteJob(r, "editJob", "writeJob")

DeleteJob(r) == EditOrDeleteJob(r, "deleteJob", "deleteJob")

(* A new row, or an old one without its candidates.                        *)
WriteJob(r) ==
  /\ pc[r] = "writeJob"
  /\ LET j == hire[r].job
     IN  IF kind[r] = "editJob" /\ jobs[j] = None THEN RefuseHire(r)
         ELSE /\ jobs' = [jobs EXCEPT ![j] = "unlisted"]
              /\ Goto(r, "search")
              /\ UNCHANGED <<profile, granted, indexed, hire>>

(* The service fails, or answers with the candidate it knows, or not.      *)
Search(r) ==
  /\ pc[r] = "search"
  /\ \/ /\ Goto(r, IF kind[r] = "createJob" THEN "deleteJob" ELSE "refused")
        /\ UNCHANGED hire
     \/ \E known \in {FALSE, indexed} : /\ hire' = [hire EXCEPT ![r].found = known]
                                        /\ Goto(r, "filter")
  /\ UNCHANGED careerTables

(* Mutant: whoever has a profile is a candidate.                           *)
AnyProfile == profile # None

OpenProfile == profile # None /\ profile.open

FilterCandidates(r) ==
  /\ pc[r] = "filter"
  /\ hire' = [hire EXCEPT ![r].found = @ /\ OpenProfile]
  /\ Goto(r, "recommend")
  /\ UNCHANGED careerTables

(* A candidate is listed once for a job.                                   *)
AssociateCandidates(r) ==
  /\ pc[r] = "recommend"
  /\ LET j == hire[r].job
     IN  IF jobs[j] = None \/ (hire[r].found /\ jobs[j] = "listed") THEN RefuseHire(r)
         ELSE /\ jobs' = [jobs EXCEPT ![j] = IF hire[r].found THEN "listed" ELSE @]
              /\ Goto(r, "done")
              /\ UNCHANGED <<profile, granted, indexed, hire>>

(* A job with a candidate cannot be deleted.                               *)
DeleteJobRecord(r) ==
  /\ pc[r] = "deleteJob"
  /\ LET j == hire[r].job
     IN  IF jobs[j] # "unlisted" THEN RefuseHire(r)
         ELSE /\ jobs' = [jobs EXCEPT ![j] = None]
              /\ Goto(r, IF kind[r] = "deleteJob" THEN "done" ELSE "refused")
              /\ UNCHANGED <<profile, granted, indexed, hire>>

-----------------------------------------------------------------------------
(* An emission: whether the student has a profile is looked up first, his   *)
(* abilities are rewritten after the certificate is inserted.              *)
GetReceptor(e) ==
  /\ Start(e, "emission", "findPaths")
  /\ hire' = [hire EXCEPT ![e].found = profile # None]
  /\ UNCHANGED careerTables

InsertCertificate(e) ==
  /\ pc[e] = "insert"
  /\ granted' = granted \cup {e}
  /\ Goto(e, IF hire[e].found THEN "readBoth" ELSE "done")
  /\ UNCHANGED <<profile, indexed, jobs, hire>>

(* Nothing, or a profile and a job from before that lists the candidate.   *)
CareersInit ==
  /\ profile \in {None, [by |-> Former, open |-> TRUE, field |-> TRUE, abilities |-> {}]}
  /\ granted = {}
  /\ indexed = (profile # None)
  /\ jobs = [j \in Makers |-> IF j = Former /\ profile # None THEN "listed" ELSE None]
  /\ hire = [a \in Handlers |-> NoHire]

CareersStep(r) ==
  \/ CreateProfile(r) \/ UpdateProfile(r) \/ DeleteProfile(r)
  \/ GetUserAbilities(r) \/ RemoveCandidateFromJobs(r)
  \/ CreateProfileRecord(r) \/ UpdateProfileRecord(r) \/ DeleteProfileRecord(r)
  \/ ReadUserAbilities(r) \/ UpdateAbilitiesOnProfile(r) \/ AbilitiesFail(r) \/ Post(r)
  \/ CreateJob(r) \/ EditJob(r) \/ DeleteJob(r)
  \/ WriteJob(r) \/ Search(r) \/ FilterCandidates(r) \/ AssociateCandidates(r)
  \/ DeleteJobRecord(r)

AbilitiesStep(e) == \/ GetReceptor(e) \/ InsertCertificate(e)
                    \/ ReadUserAbilities(e) \/ UpdateAbilitiesOnProfile(e)

-----------------------------------------------------------------------------
(* Properties.                                                             *)

(* A handler that has written what it read, unless it was cut off before.  *)
Wrote(a) == pc[a] \in {"post", "deleteProfile"} \cup Over /\ kind[a] # "deleteProfile"

(* An ability of a certificate is missing from the profile only if its      *)
(* emission, or the creation of the profile, did not come to an end, or if  *)
(* another handler wrote what it had read before.                          *)
AbilitiesLostHaveCause ==
  profile # None =>
    \A e \in granted \ profile.abilities :
      \/ pc[e] # "done"
      \/ profile.by \in Requests /\ pc[profile.by] # "done"
      \/ \E a \in Handlers : /\ hire[a].profile = profile.by /\ e \notin hire[a].abilities
                             /\ Wrote(a)

(* A profile the search does not know is being created, or its creation     *)
(* was cut off: one that is refused is taken back.                         *)
SilentProfileHasCause ==
  profile # None /\ ~indexed =>
    pc[profile.by] \in {"readBoth", "writeAbilities", "post", "deleteProfile", "failed"}

Closed(r) == \/ kind[r] = "updateProfile" /\ hire[r].open = "no" /\ Wrote(r)
             \/ kind[r] = "deleteProfile" /\ pc[r] = "done"
             \/ kind[r] = "createProfile" /\ pc[r] = "refused"

(* Whoever is listed for a job without an open profile had one: a request   *)
(* closed it, deleted it, or took it back because a service failed.        *)
ListedCandidatesHaveCause ==
  (\E j \in Makers : jobs[j] = "listed") /\ (profile = None \/ ~profile.open) =>
    \E r \in Requests : Closed(r)
=============================================================================
