---------------------- MODULE TemplateEmission_proofs ----------------------
(***************************************************************************)
(* Proofs about TemplateEmission, for any number of issues, students,      *)
(* edits, deletions and claims, any bound on the issues in flight and any  *)
(* number of repeated callbacks: whose abilities a certificate carries,    *)
(* what becomes of a completed learning path, how many certificates of one *)
(* template a student gets, and that certificates follow their lifecycle.  *)
(***************************************************************************)
EXTENDS TemplateEmission, FiniteSetTheorems, TLAPS

(* An issue: its certificate is inserted once, is known outside only after *)
(* that, and a report is on its way only if a hash has been public.        *)
IssueOK(i) ==
  /\ pc[i] \in {"idle", "check", "lookup", "associate", "create"} => certs[i] = NoCert
  /\ pc[i] \in {"hash", "dispatch"} => certs[i] # NoCert
  /\ shared[i].made \/ i \in jobs \/ i \in posted \/ i \in accepted => certs[i] # NoCert
  /\ i \in accepted \/ shared[i].valid # {} => shared[i].made
  /\ i \in completed /\ certs[i] = NoCert => pc[i] \in {"create", "failed"}
  /\ local[i].user => accounts[DocOf[i]] # "none"
  /\ certs[i] # NoCert /\ certs[i].abilities =>
       certs[i].receptor /\ accounts[DocOf[i]] # "none"

(* A claim that is under way is of a user.                                 *)
ClaimOK(c) == pc[c] \in {"readIds", "update"} => accounts[ClaimDoc[c]] # "none"

(* The certificates of the template that the student has, or that an issue *)
(* past its check may still insert.                                        *)
Coming == {"lookup", "associate", "create"}

Holds(i) == (certs[i] # NoCert /\ certs[i].linked) \/ pc[i] \in Coming

Held(d) == {i \in Issues : DocOf[i] = d /\ Holds(i)}

Few(S) == IsFiniteSet(S) /\ Cardinality(S) <= MaxInFlight

Bounded == Few(InFlight) /\ \A d \in Docs : Few(Held(d))

Inv == /\ TypeOK
       /\ \A i \in Issues : IssueOK(i)
       /\ \A c \in Claims : ClaimOK(c)
       /\ Bounded

LEMMA FewOf ==
  ASSUME NEW S, Few(S), NEW T \in SUBSET S
  PROVE  Few(T)
<1>1. IsFiniteSet(S) /\ Cardinality(S) <= MaxInFlight
  BY DEF Few
<1>2. IsFiniteSet(T) /\ Cardinality(T) <= Cardinality(S)
  BY <1>1, FS_Subset
<1>3. Cardinality(S) \in Nat /\ Cardinality(T) \in Nat /\ MaxInFlight \in Nat
  BY <1>1, <1>2, FS_CardinalityType, TemplateAssumption
<1> QED
  BY <1>1, <1>2, <1>3 DEF Few

-----------------------------------------------------------------------------
(* What every step has to show.                                            *)

(* An issue comes no nearer to another certificate.                        *)
Shrinks(i) == (pc'[i] \notin Over => pc[i] \notin Over) /\ (Holds(i)' => Holds(i))

LEMMA Keeping ==
  ASSUME Inv, TypeOK', \A i \in Issues : IssueOK(i)', \A c \in Claims : ClaimOK(c)',
         \A i \in Issues : Shrinks(i)
  PROVE  Inv'
<1>1. Few(InFlight')
  <2>1. InFlight' \in SUBSET InFlight
    BY DEF InFlight, Shrinks
  <2> QED
    BY <2>1, FewOf DEF Inv, Bounded
<1>2. \A d \in Docs : Few(Held(d)')
  <2> SUFFICES ASSUME NEW d \in Docs PROVE Few(Held(d)')
    OBVIOUS
  <2>1. Held(d)' \in SUBSET Held(d)
    BY DEF Held, Shrinks
  <2>2. Few(Held(d))
    BY DEF Inv, Bounded
  <2> QED
    BY <2>1, <2>2, FewOf
<1> QED
  BY <1>1, <1>2 DEF Inv, Bounded, Few

(* A step of an issue concerns that issue.                                 *)
Only(i) == /\ \A a \in Actors \ {i} : pc'[a] = pc[a]
           /\ \A j \in Issues \ {i} :
                /\ certs'[j] = certs[j] /\ shared'[j] = shared[j] /\ local'[j] = local[j]
                /\ j \in jobs' <=> j \in jobs
                /\ j \in posted' <=> j \in posted
                /\ j \in accepted' <=> j \in accepted
                /\ j \in completed' <=> j \in completed

LEMMA OthersKeep ==
  ASSUME Inv, NEW i \in Issues, TypeOK', Only(i), UNCHANGED accounts, IssueOK(i)'
  PROVE  /\ \A j \in Issues : IssueOK(j)'
         /\ \A c \in Claims : ClaimOK(c)'
         /\ \A j \in Issues \ {i} : Shrinks(j)
         /\ Shrinks(i) => Inv'
<1>1. ASSUME NEW j \in Issues \ {i} PROVE IssueOK(j)' /\ Shrinks(j)
  <2>1. /\ IssueOK(j) /\ pc'[j] = pc[j]
        /\ certs'[j] = certs[j] /\ shared'[j] = shared[j] /\ local'[j] = local[j]
        /\ j \in jobs' <=> j \in jobs
        /\ j \in posted' <=> j \in posted
        /\ j \in accepted' <=> j \in accepted
        /\ j \in completed' <=> j \in completed
    BY DEF Inv, Only, Actors
  <2> QED
    BY <2>1 DEF IssueOK, Shrinks, Holds
<1>2. ASSUME NEW c \in Claims PROVE ClaimOK(c)'
  <2>1. ClaimOK(c) /\ pc'[c] = pc[c]
    BY ActorsAssumption DEF Inv, Only, Actors
  <2> QED
    BY <2>1 DEF ClaimOK
<1> QED
  BY <1>1, <1>2, Keeping

LEMMA Going ==
  ASSUME TypeOK, NEW a \in Actors, NEW l \in PCs, Goto(a, l)
  PROVE  /\ pc' \in [Actors -> PCs] /\ pc'[a] = l
         /\ \A b \in Actors \ {a} : pc'[b] = pc[b]
  BY DEF TypeOK, Goto

(* What an issue has read.                                                 *)
LEMMA Learning ==
  ASSUME TypeOK, NEW a \in Actors,
         \/ UNCHANGED local
         \/ \E v \in Nat : local' = [local EXCEPT ![a].version = v]
         \/ \E u \in BOOLEAN : local' = [local EXCEPT ![a].user = u]
         \/ \E s \in SUBSET Issues : local' = [local EXCEPT ![a].ids = s]
  PROVE  /\ local' \in [Actors -> [version : Nat, user : BOOLEAN, ids : SUBSET Issues]]
         /\ \A b \in Actors \ {a} : local'[b] = local[b]
  BY DEF TypeOK

-----------------------------------------------------------------------------
(* Issuing.                                                                *)

(* The guard on the issues in flight is the only thing that bounds them.   *)
LEMMA LoadKeeps ==
  ASSUME Inv, NEW i \in Issues, Load(i)
  PROVE  Inv'
<1>. i \in Actors
  BY DEF Actors
<1>1. PICK l \in {"check", "failed"} : Goto(i, l)
  BY DEF Load
<1>. l \in PCs
  BY DEF PCs
<1>2. /\ pc[i] = "idle" /\ Cardinality(InFlight) < MaxInFlight
      /\ local' = [local EXCEPT ![i].version = template.version]
      /\ UNCHANGED <<localLambda, template, certs, shared, accounts, completed>>
      /\ UNCHANGED <<jobs, posted, answers, accepted>>
      /\ TypeOK /\ template.version \in Nat
  BY DEF Load, rows, outside, Inv, TypeOK
<1>3. /\ pc' \in [Actors -> PCs] /\ pc'[i] = l
      /\ \A b \in Actors \ {i} : pc'[b] = pc[b]
  BY <1>1, <1>2, Going
<1>4. /\ local' \in [Actors -> [version : Nat, user : BOOLEAN, ids : SUBSET Issues]]
      /\ \A b \in Actors \ {i} : local'[b] = local[b]
  BY <1>2, Learning
<1>5. local'[i].user = local[i].user
  BY <1>2 DEF TypeOK
<1>6. TypeOK'
  BY <1>2, <1>3, <1>4 DEF TypeOK
<1>7. Only(i)
  BY <1>2, <1>3, <1>4 DEF Only, Actors
<1>8. IssueOK(i)'
  BY <1>2, <1>3, <1>5 DEF Inv, IssueOK
<1>9. /\ \A j \in Issues : IssueOK(j)'
      /\ \A c \in Claims : ClaimOK(c)'
      /\ \A j \in Issues \ {i} : Shrinks(j)
  BY <1>2, <1>6, <1>7, <1>8, OthersKeep
<1>10. Few(InFlight')
  <2>1. IsFiniteSet(InFlight) /\ Cardinality(InFlight) \in Nat
    BY FS_CardinalityType DEF Inv, Bounded, Few
  <2>2. i \notin InFlight
    BY <1>2 DEF InFlight, Over
  <2>3. IsFiniteSet(InFlight \cup {i}) /\ Cardinality(InFlight \cup {i}) = Cardinality(InFlight) + 1
    BY <2>1, <2>2, FS_AddElement
  <2>4. Few(InFlight \cup {i})
    BY <1>2, <2>1, <2>3, TemplateAssumption DEF Few
  <2>5. InFlight' \in SUBSET (InFlight \cup {i})
    BY <1>9 DEF InFlight, Shrinks
  <2> QED
    BY <2>4, <2>5, FewOf
<1>11. \A d \in Docs : Few(Held(d)')
  <2> SUFFICES ASSUME NEW d \in Docs PROVE Few(Held(d)')
    OBVIOUS
  <2>1. ~Holds(i)'
    BY <1>2, <1>3, <1>8 DEF Inv, IssueOK, Holds, Coming
  <2>2. Held(d)' \in SUBSET Held(d)
    BY <1>9, <2>1 DEF Held, Shrinks
  <2> QED
    BY <2>2, FewOf DEF Inv, Bounded
<1> QED
  BY <1>6, <1>9, <1>10, <1>11 DEF Inv, Bounded, Few

(* Whoever passes the check found no certificate of the student: all that  *)
(* may still be inserted for him is in flight.                             *)
LEMMA CheckKeeps ==
  ASSUME Inv, NEW i \in Issues, Check(i)
  PROVE  Inv'
<1>. i \in Actors
  BY DEF Actors
<1>1. PICK l \in {"done", "lookup"} : Goto(i, l) /\ (l = "lookup" => ~AlreadyIssued(i))
  BY DEF Check
<1>. l \in PCs
  BY DEF PCs
<1>2. /\ pc[i] = "check"
      /\ UNCHANGED <<localLambda, template, certs, shared, accounts, completed, local>>
      /\ UNCHANGED <<jobs, posted, answers, accepted>> /\ TypeOK
  BY DEF Check, rows, outside, Inv
<1>3. /\ pc' \in [Actors -> PCs] /\ pc'[i] = l
      /\ \A b \in Actors \ {i} : pc'[b] = pc[b]
  BY <1>1, <1>2, Going
<1>4. TypeOK'
  BY <1>2, <1>3 DEF TypeOK
<1>5. Only(i)
  BY <1>2, <1>3 DEF Only
<1>6. IssueOK(i)'
  BY <1>2, <1>3 DEF Inv, IssueOK
<1>7. /\ \A j \in Issues : IssueOK(j)'
      /\ \A c \in Claims : ClaimOK(c)'
      /\ \A j \in Issues \ {i} : Shrinks(j)
      /\ Shrinks(i) => Inv'
  BY <1>2, <1>4, <1>5, <1>6, OthersKeep
<1>8. InFlight' \in SUBSET InFlight
  BY <1>2, <1>7 DEF InFlight, Shrinks, Over
<1>9. Few(InFlight')
  BY <1>8, FewOf DEF Inv, Bounded
<1>10. ASSUME NEW d \in Docs PROVE Few(Held(d)')
  <2>1. CASE d = DocOf[i] /\ l = "lookup"
    <3>1. \A j \in Issues : DocOf[j] = d => ~(certs[j] # NoCert /\ certs[j].linked)
      BY <1>1, <2>1 DEF AlreadyIssued, OfTemplate, Issued
    <3>2. Held(d)' \in SUBSET InFlight'
      BY <1>2, <3>1 DEF Held, Holds, InFlight, Coming, Over
    <3> QED
      BY <1>9, <3>2, FewOf
  <2>2. CASE d # DocOf[i] \/ l = "done"
    <3>1. Held(d)' \in SUBSET Held(d)
      BY <1>2, <1>3, <1>7, <2>2 DEF Held, Shrinks, Holds, Coming
    <3> QED
      BY <3>1, FewOf DEF Inv, Bounded
  <2> QED
    BY <1>1, <2>1, <2>2
<1> QED
  BY <1>4, <1>7, <1>9, <1>10 DEF Inv, Bounded, Few

LEMMA LookupKeeps ==
  ASSUME Inv, NEW i \in Issues, Lookup(i)
  PROVE  Inv'
<1>. i \in Actors
  BY DEF Actors
<1>1. PICK l \in {"associate", "create"} : Goto(i, l)
  BY DEF Lookup
<1>. l \in PCs
  BY DEF PCs
<1> DEFINE u == accounts[DocOf[i]] = "pf"
<1>2. /\ pc[i] = "lookup" /\ u \in BOOLEAN
      /\ local' = [local EXCEPT ![i].user = u]
      /\ UNCHANGED <<localLambda, template, certs, shared, accounts, completed>>
      /\ UNCHANGED <<jobs, posted, answers, accepted>> /\ TypeOK
  BY DEF Lookup, rows, outside, Inv
<1>3. u => accounts[DocOf[i]] # "none"
  OBVIOUS
<1> HIDE DEF u
<1>4. /\ pc' \in [Actors -> PCs] /\ pc'[i] = l
      /\ \A b \in Actors \ {i} : pc'[b] = pc[b]
  BY <1>1, <1>2, Going
<1>5. /\ local' \in [Actors -> [version : Nat, user : BOOLEAN, ids : SUBSET Issues]]
      /\ \A b \in Actors \ {i} : local'[b] = local[b]
  BY <1>2, Learning
<1>6. local'[i].user => u
  BY <1>2 DEF TypeOK
<1>7. TypeOK'
  BY <1>2, <1>4, <1>5 DEF TypeOK
<1>8. Only(i)
  BY <1>2, <1>4, <1>5 DEF Only, Actors
<1>9. IssueOK(i) /\ i \notin completed
  BY <1>2 DEF Inv, IssueOK
<1>10. IssueOK(i)'
  BY <1>2, <1>3, <1>4, <1>6, <1>9 DEF IssueOK
<1>11. Shrinks(i)
  BY <1>2, <1>4 DEF Shrinks, Holds, Coming, Over
<1> QED
  BY <1>2, <1>7, <1>8, <1>10, <1>11, OthersKeep

LEMMA AssociateKeeps ==
  ASSUME Inv, NEW i \in Issues, Associate(i)
  PROVE  Inv'
<1>. i \in Actors /\ "create" \in PCs
  BY DEF Actors, PCs
<1>1. /\ pc[i] = "associate" /\ Goto(i, "create") /\ completed' = completed \cup {i}
      /\ UNCHANGED <<localLambda, template, certs, shared, accounts, local>>
      /\ UNCHANGED <<jobs, posted, answers, accepted>> /\ TypeOK
  BY DEF Associate, outside, Inv
<1>2. /\ pc' \in [Actors -> PCs] /\ pc'[i] = "create"
      /\ \A b \in Actors \ {i} : pc'[b] = pc[b]
  BY <1>1, Going
<1>3. TypeOK'
  BY <1>1, <1>2 DEF TypeOK
<1>4. Only(i)
  BY <1>1, <1>2 DEF Only
<1>5. IssueOK(i)'
  BY <1>1, <1>2 DEF Inv, IssueOK
<1>6. Shrinks(i)
  BY <1>1, <1>2 DEF Shrinks, Holds, Coming, Over
<1> QED
  BY <1>1, <1>3, <1>4, <1>5, <1>6, OthersKeep

LEMMA CreateKeeps ==
  ASSUME Inv, NEW i \in Issues, Create(i)
  PROVE  Inv'
<1>. i \in Actors
  BY DEF Actors
<1> DEFINE x == NewCert(i)
<1>1. /\ pc[i] = "create" /\ IssueOK(i)
      /\ UNCHANGED <<localLambda, template, shared, accounts, completed, local>>
      /\ UNCHANGED <<jobs, posted, answers, accepted>> /\ TypeOK
  BY DEF Create, outside, Inv
<1>2. x \in Cert /\ x.receptor = local[i].user /\ x.abilities = local[i].user
  <2>1. local[i].version \in Nat /\ local[i].user \in BOOLEAN
    BY <1>1 DEF TypeOK
  <2> QED
    BY <2>1 DEF NewCert, Cert
<1>3. x # NoCert
  BY <1>2, RowsAssumption
<1>4. PICK l \in {"hash", "failed"} :
        /\ Goto(i, l)
        /\ l = "hash" => certs' = [certs EXCEPT ![i] = x]
        /\ l = "failed" => certs' = certs
  BY DEF Create
<1>. l \in PCs
  BY DEF PCs
<1> HIDE DEF x
<1>5. /\ pc' \in [Actors -> PCs] /\ pc'[i] = l
      /\ \A b \in Actors \ {i} : pc'[b] = pc[b]
  BY <1>1, <1>4, Going
<1>6. /\ certs' \in [Issues -> Cert \cup {NoCert}]
      /\ \A j \in Issues \ {i} : certs'[j] = certs[j]
      /\ l = "hash" => certs'[i] = x
      /\ l = "failed" => certs'[i] = NoCert
  BY <1>1, <1>2, <1>4 DEF TypeOK, IssueOK
<1>7. TypeOK'
  BY <1>1, <1>5, <1>6 DEF TypeOK
<1>8. Only(i)
  BY <1>1, <1>5, <1>6 DEF Only
<1>9. IssueOK(i)'
  <2>1. CASE l = "hash"
    BY <1>1, <1>2, <1>3, <1>5, <1>6, <2>1 DEF IssueOK
  <2>2. CASE l = "failed"
    BY <1>1, <1>5, <1>6, <2>2 DEF IssueOK
  <2> QED
    BY <2>1, <2>2
<1>10. Shrinks(i)
  BY <1>1 DEF Shrinks, Holds, Coming, Over
<1> QED
  BY <1>1, <1>7, <1>8, <1>9, <1>10, OthersKeep

(* What becomes of the hashes of a certificate.                            *)
LEMMA Publishing ==
  ASSUME TypeOK, NEW i \in Issues, NEW h \in Hashes,
         shared' = [shared EXCEPT ![i] = Published(i, h)]
  PROVE  /\ shared' \in [Issues -> Sharing]
         /\ shared'[i].made /\ shared'[i].valid = shared[i].valid \cup {h}
         /\ \A j \in Issues \ {i} : shared'[j] = shared[j]
<1>1. shared \in [Issues -> Sharing] /\ shared[i].valid \in SUBSET Hashes
  BY DEF TypeOK, Sharing
<1>2. /\ Published(i, h) \in Sharing /\ Published(i, h).made
      /\ Published(i, h).valid = shared[i].valid \cup {h}
  BY <1>1 DEF Published, Sharing
<1> QED
  BY <1>1, <1>2

LEMMA Withdrawing ==
  ASSUME TypeOK, NEW i \in Issues, Disable(i)
  PROVE  /\ shared' \in [Issues -> Sharing]
         /\ shared'[i].made <=> shared[i].made
         /\ shared'[i].valid = {}
         /\ \A j \in Issues \ {i} : shared'[j] = shared[j]
<1>1. PICK x : x = [shared[i] EXCEPT !.valid = {}]
  OBVIOUS
<1>2. shared \in [Issues -> Sharing] /\ shared[i] \in Sharing
  BY DEF TypeOK
<1>3. x \in Sharing /\ (x.made <=> shared[i].made) /\ x.valid = {}
  BY <1>1, <1>2 DEF Sharing
<1>4. shared' = [shared EXCEPT ![i] = x]
  BY <1>1 DEF Disable
<1> QED
  BY <1>2, <1>3, <1>4

LEMMA HashKeeps ==
  ASSUME Inv, NEW i \in Issues, Hash(i)
  PROVE  Inv'
<1>. i \in Actors /\ "dispatch" \in PCs
  BY DEF Actors, PCs
<1>1. /\ pc[i] = "hash" /\ Goto(i, "dispatch")
      /\ shared' = [shared EXCEPT ![i] = Published(i, "ofIssue")]
      /\ UNCHANGED <<localLambda, template, certs, accounts, completed, local>>
      /\ UNCHANGED <<jobs, posted, answers, accepted>> /\ TypeOK
  BY DEF Hash, outside, Inv
<1>2. /\ pc' \in [Actors -> PCs] /\ pc'[i] = "dispatch"
      /\ \A b \in Actors \ {i} : pc'[b] = pc[b]
  BY <1>1, Going
<1>3. /\ shared' \in [Issues -> Sharing] /\ shared'[i].made
      /\ \A j \in Issues \ {i} : shared'[j] = shared[j]
  BY <1>1, Publishing DEF Hashes
<1>4. TypeOK'
  BY <1>1, <1>2, <1>3 DEF TypeOK
<1>5. Only(i)
  BY <1>1, <1>2, <1>3 DEF Only
<1>6. IssueOK(i)'
  BY <1>1, <1>2, <1>3 DEF Inv, IssueOK
<1>7. Shrinks(i)
  BY <1>1, <1>2 DEF Shrinks, Holds, Coming, Over
<1> QED
  BY <1>1, <1>4, <1>5, <1>6, <1>7, OthersKeep

LEMMA DispatchKeeps ==
  ASSUME Inv, NEW i \in Issues, Dispatch(i) \/ DispatchFails(i)
  PROVE  Inv'
<1>. i \in Actors
  BY DEF Actors
<1>1. PICK l \in {"done", "failed"} : Goto(i, l)
  BY DEF Dispatch, DispatchFails
<1>. l \in PCs
  BY DEF PCs
<1>2. /\ pc[i] = "dispatch"
      /\ UNCHANGED <<localLambda, template, certs, shared, accounts, completed, local>>
      /\ UNCHANGED <<answers, accepted>> /\ TypeOK
      /\ UNCHANGED <<jobs, posted>> \/ (posted' = posted \cup {i} /\ UNCHANGED jobs)
                                    \/ (jobs' = jobs \cup {i} /\ UNCHANGED posted)
  BY DEF Dispatch, DispatchFails, rows, outside, Inv
<1>3. /\ pc' \in [Actors -> PCs] /\ pc'[i] = l
      /\ \A b \in Actors \ {i} : pc'[b] = pc[b]
  BY <1>1, <1>2, Going
<1>4. TypeOK'
  BY <1>2, <1>3 DEF TypeOK
<1>5. Only(i)
  BY <1>2, <1>3 DEF Only
<1>6. IssueOK(i)'
  BY <1>2, <1>3 DEF Inv, IssueOK
<1>7. Shrinks(i)
  BY <1>2, <1>3 DEF Shrinks, Holds, Coming, Over
<1> QED
  BY <1>2, <1>4, <1>5, <1>6, <1>7, OthersKeep

-----------------------------------------------------------------------------
(* The queue, the image service, the owner and the administrator.          *)

LEMMA ServiceKeeps ==
  ASSUME Inv, NEW i \in Issues, ProcessJob(i) \/ Answer(i) \/ Complete(i)
  PROVE  Inv'
<1>1. /\ TypeOK /\ IssueOK(i)
      /\ UNCHANGED <<localLambda, template, shared, accounts, completed, pc, local>>
  BY DEF ProcessJob, Answer, Complete, rows, Inv
<1>2. /\ i \in jobs \/ i \in posted \/ i \in accepted
      /\ jobs' \subseteq jobs
      /\ posted' \subseteq posted \cup {i}
      /\ accepted' \subseteq accepted \cup {i}
      /\ i \in accepted' => i \in accepted \/ shared[i].valid # {}
      /\ \A j \in Issues \ {i} : /\ j \in jobs' <=> j \in jobs
                                 /\ j \in posted' <=> j \in posted
                                 /\ j \in accepted' <=> j \in accepted
  BY DEF ProcessJob, Answer, Complete
<1>3. answers' \in [Issues -> 0 .. MaxAnswers]
  <2>1. CASE Answer(i)
    <3>1. answers[i] \in 0 .. MaxAnswers /\ answers[i] < MaxAnswers
      BY <1>1, <2>1 DEF Answer, TypeOK
    <3>2. answers[i] + 1 \in 0 .. MaxAnswers
      BY <3>1, TemplateAssumption
    <3> QED
      BY <1>1, <2>1, <3>2 DEF Answer, TypeOK
  <2>2. CASE ProcessJob(i) \/ Complete(i)
    BY <1>1, <2>2 DEF ProcessJob, Complete, TypeOK
  <2> QED
    BY <2>1, <2>2
<1>4. certs[i] \in Cert
  BY <1>1, <1>2 DEF IssueOK, TypeOK
<1>5. /\ certs' \in [Issues -> Cert \cup {NoCert}] /\ certs'[i] # NoCert
      /\ \A j \in Issues \ {i} : certs'[j] = certs[j]
      /\ certs'[i].abilities => certs[i].abilities
      /\ certs'[i].receptor = certs[i].receptor /\ certs'[i].linked = certs[i].linked
  <2>1. CASE certs' = certs
    BY <1>1, <1>2, <2>1 DEF TypeOK, IssueOK
  <2>2. CASE certs' = [certs EXCEPT ![i].success = TRUE]
    <3> DEFINE x == [certs[i] EXCEPT !.success = TRUE]
    <3>1. /\ x \in Cert /\ x.abilities = certs[i].abilities /\ x.receptor = certs[i].receptor
          /\ x.linked = certs[i].linked
      BY <1>4 DEF Cert
    <3>2. x # NoCert
      BY <3>1, RowsAssumption
    <3>3. certs' = [certs EXCEPT ![i] = x]
      BY <2>2
    <3> HIDE DEF x
    <3> QED
      BY <1>1, <3>1, <3>2, <3>3 DEF TypeOK
  <2> QED
    BY <2>1, <2>2 DEF ProcessJob, Answer, Complete, rows
<1>6. TypeOK'
  BY <1>1, <1>2, <1>3, <1>5 DEF TypeOK
<1>7. Only(i)
  BY <1>1, <1>2, <1>5 DEF Only, Actors
<1>8. IssueOK(i)'
  BY <1>1, <1>2, <1>4, <1>5, RowsAssumption DEF IssueOK
<1>9. Shrinks(i)
  BY <1>1, <1>4, <1>5, RowsAssumption DEF Shrinks, Holds
<1> QED
  BY <1>1, <1>6, <1>7, <1>8, <1>9, OthersKeep

LEMMA PeopleKeep ==
  ASSUME Inv, NEW i \in Issues, Disable(i) \/ AdminEnable(i)
  PROVE  Inv'
<1>1. /\ TypeOK /\ IssueOK(i) /\ certs[i] # NoCert
      /\ UNCHANGED <<localLambda, template, certs, accounts, completed, pc, local>>
      /\ UNCHANGED <<jobs, posted, answers, accepted>>
  BY DEF Disable, AdminEnable, Issued, outside, Inv
<1>2. /\ shared' \in [Issues -> Sharing]
      /\ shared[i].made => shared'[i].made
      /\ shared'[i].valid # {} => shared'[i].made
      /\ \A j \in Issues \ {i} : shared'[j] = shared[j]
  <2>1. CASE Disable(i)
    BY <1>1, <2>1, Withdrawing
  <2>2. CASE AdminEnable(i)
    <3>1. shared' = [shared EXCEPT ![i] = Published(i, "ofAdmin")] /\ "ofAdmin" \in Hashes
      BY <2>2 DEF AdminEnable, Hashes
    <3> QED
      BY <1>1, <3>1, Publishing
  <2> QED
    BY <2>1, <2>2
<1>4. TypeOK'
  BY <1>1, <1>2 DEF TypeOK
<1>5. Only(i)
  BY <1>1, <1>2 DEF Only
<1>6. IssueOK(i)'
  BY <1>1, <1>2 DEF IssueOK
<1>7. Shrinks(i)
  BY <1>1 DEF Shrinks, Holds
<1> QED
  BY <1>1, <1>4, <1>5, <1>6, <1>7, OthersKeep

-----------------------------------------------------------------------------
(* Changes of the template, claims, and a crash.                           *)

(* What they do to the certificates: the ones there are stay, none gets    *)
(* abilities without a receptor, and none comes back to the template.      *)
Harmless ==
  \A j \in Issues :
    /\ certs'[j] # NoCert <=> certs[j] # NoCert
    /\ certs[j] # NoCert =>
         /\ certs'[j].linked => certs[j].linked
         /\ certs[j].receptor => certs'[j].receptor
         /\ certs'[j].abilities => certs[j].abilities \/ (certs'[j].receptor /\ accounts[DocOf[j]] # "none")

LEMMA SameCertificates == UNCHANGED certs => Harmless
<1> SUFFICES ASSUME certs' = certs PROVE Harmless
  OBVIOUS
<1> QED
  BY DEF Harmless

LEMMA BesideKeeps ==
  ASSUME Inv, TypeOK', Harmless,
         UNCHANGED <<shared, completed, jobs, posted>>, accepted' \subseteq accepted,
         \A j \in Issues : local'[j].user = local[j].user,
         \A j \in Issues : pc'[j] = pc[j] \/ (pc[j] \notin Over /\ pc'[j] = "failed"),
         \A d \in Docs : accounts[d] # "none" => accounts'[d] # "none",
         \A c \in Claims : ClaimOK(c)'
  PROVE  Inv'
<1>1. ASSUME NEW j \in Issues PROVE IssueOK(j)' /\ Shrinks(j)
  <2>1. /\ IssueOK(j) /\ DocOf[j] \in Docs
        /\ certs'[j] # NoCert <=> certs[j] # NoCert
        /\ certs[j] # NoCert =>
             /\ certs'[j].linked => certs[j].linked
             /\ certs[j].receptor => certs'[j].receptor
             /\ certs'[j].abilities => certs[j].abilities \/ (certs'[j].receptor /\ accounts[DocOf[j]] # "none")
        /\ local'[j].user = local[j].user
        /\ pc'[j] = pc[j] \/ (pc[j] \notin Over /\ pc'[j] = "failed")
        /\ accounts[DocOf[j]] # "none" => accounts'[DocOf[j]] # "none"
        /\ UNCHANGED <<shared, completed, jobs, posted>> /\ accepted' \subseteq accepted
    BY TemplateAssumption DEF Inv, Harmless
  <2>2. IssueOK(j)'
    BY <2>1 DEF IssueOK, Over
  <2>3. Shrinks(j)
    BY <2>1 DEF Shrinks, Holds, Coming, Over
  <2> QED
    BY <2>2, <2>3
<1> QED
  BY <1>1, Keeping

LEMMA ChangesKeep ==
  ASSUME Inv, NEW c \in Changes,
         LoadTemplate(c) \/ CountCertificates(c) \/ UpdateTemplate(c)
  PROVE  Inv'
<1>. c \in Actors /\ c \notin Issues /\ c \notin Claims
  BY ActorsAssumption DEF Actors
<1>1. /\ UNCHANGED <<localLambda, certs, shared, accounts, completed>> /\ TypeOK
      /\ UNCHANGED <<jobs, posted, answers, accepted>>
  BY DEF LoadTemplate, CountCertificates, UpdateTemplate, rows, outside, Inv
<1>2. /\ template' \in [exists : BOOLEAN, version : Nat]
      /\ UNCHANGED local \/ local' = [local EXCEPT ![c].version = template.version]
      /\ template.version \in Nat
  <2>1. template \in [exists : BOOLEAN, version : Nat] /\ local[c].version \in Nat
    BY <1>1 DEF TypeOK
  <2>2. CASE template' = [template EXCEPT !.version = local[c].version + 1] /\ UpdateTemplate(c)
    BY <2>1, <2>2 DEF UpdateTemplate
  <2>3. CASE UNCHANGED template
    BY <2>1, <2>3 DEF LoadTemplate, CountCertificates, UpdateTemplate
  <2> QED
    BY <2>2, <2>3 DEF LoadTemplate, CountCertificates, UpdateTemplate, rows
<1>3. PICK l \in {"count", "failed", "write", "done"} : Goto(c, l)
  BY DEF LoadTemplate, CountCertificates, UpdateTemplate
<1>. l \in PCs
  BY DEF PCs
<1>4. /\ pc' \in [Actors -> PCs]
      /\ \A b \in Actors \ {c} : pc'[b] = pc[b]
  BY <1>1, <1>3, Going
<1>5. /\ local' \in [Actors -> [version : Nat, user : BOOLEAN, ids : SUBSET Issues]]
      /\ \A b \in Actors \ {c} : local'[b] = local[b]
  BY <1>1, <1>2, Learning
<1>6. TypeOK'
  BY <1>1, <1>2, <1>4, <1>5 DEF TypeOK
<1>7. Harmless
  BY <1>1, SameCertificates
<1>8. \A q \in Claims : ClaimOK(q)'
  BY <1>1, <1>4 DEF Inv, ClaimOK, Actors
<1>9. \A j \in Issues : pc'[j] = pc[j] /\ local'[j] = local[j]
  BY <1>4, <1>5 DEF Actors
<1> QED
  BY <1>1, <1>6, <1>7, <1>8, <1>9, BesideKeeps

LEMMA DeleteTemplateKeeps ==
  ASSUME Inv, NEW c \in Changes, DeleteTemplate(c)
  PROVE  Inv'
<1>. c \in Actors /\ c \notin Issues /\ c \notin Claims
  BY ActorsAssumption DEF Actors
<1>1. /\ UNCHANGED <<localLambda, shared, accounts, completed, local>> /\ TypeOK
      /\ UNCHANGED <<jobs, posted, answers, accepted>>
  BY DEF DeleteTemplate, outside, Inv
<1>2. /\ template' \in [exists : BOOLEAN, version : Nat]
      /\ certs' = [i \in Issues |-> IF i \in Issued THEN [certs[i] EXCEPT !.linked = FALSE]
                                    ELSE NoCert]
  BY <1>1 DEF DeleteTemplate, TypeOK
<1>3. PICK l \in {"failed", "done"} : Goto(c, l)
  BY DEF DeleteTemplate
<1>. l \in PCs
  BY DEF PCs
<1>4. /\ pc' \in [Actors -> PCs]
      /\ \A b \in Actors \ {c} : pc'[b] = pc[b]
  BY <1>1, <1>3, Going
<1>5. ASSUME NEW j \in Issues
      PROVE  /\ certs'[j] \in Cert \cup {NoCert}
             /\ certs'[j] # NoCert <=> certs[j] # NoCert
             /\ certs[j] # NoCert =>
                  /\ ~certs'[j].linked /\ certs'[j].receptor = certs[j].receptor
                  /\ certs'[j].abilities = certs[j].abilities
  <2>1. CASE certs[j] = NoCert
    BY <1>2, <2>1 DEF Issued
  <2>2. CASE certs[j] # NoCert
    <3>1. certs[j] \in Cert /\ certs'[j] = [certs[j] EXCEPT !.linked = FALSE]
      BY <1>1, <1>2, <2>2 DEF TypeOK, Issued
    <3>2. /\ certs'[j] \in Cert
          /\ ~certs'[j].linked /\ certs'[j].receptor = certs[j].receptor
          /\ certs'[j].abilities = certs[j].abilities
      BY <3>1 DEF Cert
    <3> QED
      BY <2>2, <3>2, RowsAssumption
  <2> QED
    BY <2>1, <2>2
<1>6. certs' \in [Issues -> Cert \cup {NoCert}]
  BY <1>2, <1>5
<1>7. TypeOK'
  BY <1>1, <1>2, <1>4, <1>6 DEF TypeOK
<1>8. Harmless
  BY <1>5 DEF Harmless
<1>9. \A q \in Claims : ClaimOK(q)'
  BY <1>1, <1>4 DEF Inv, ClaimOK, Actors
<1>10. \A j \in Issues : pc'[j] = pc[j]
  BY <1>4 DEF Actors
<1> QED
  BY <1>1, <1>7, <1>8, <1>9, <1>10, BesideKeeps

(* Abilities go only to a certificate that gets its receptor with them.    *)
LEMMA ClaimCertificatesKeeps ==
  ASSUME Inv, NEW c \in Claims, ClaimCertificates(c)
  PROVE  Inv'
<1>. c \in Actors /\ c \notin Issues
  BY ActorsAssumption DEF Actors
<1>. "done" \in PCs
  BY DEF PCs
<1>1. /\ UNCHANGED <<localLambda, template, shared, accounts, completed, local>> /\ TypeOK
      /\ UNCHANGED <<jobs, posted, answers, accepted>>
      /\ pc[c] = "update" /\ Goto(c, "done") /\ accounts[ClaimDoc[c]] # "none"
  BY DEF ClaimCertificates, outside, Inv, ClaimOK
<1>2. /\ pc' \in [Actors -> PCs] /\ pc'[c] = "done"
      /\ \A b \in Actors \ {c} : pc'[b] = pc[b]
  BY <1>1, Going
<1>3. ASSUME NEW j \in Issues
      PROVE  /\ certs'[j] \in Cert \cup {NoCert}
             /\ certs'[j] # NoCert <=> certs[j] # NoCert
             /\ certs[j] # NoCert =>
                  /\ certs'[j].linked = certs[j].linked
                  /\ certs[j].receptor => certs'[j].receptor
                  /\ certs'[j].abilities =>
                       certs[j].abilities \/ (certs'[j].receptor /\ accounts[DocOf[j]] # "none")
  <2>1. CASE j \notin Own(c)
    BY <1>1, <2>1 DEF ClaimCertificates, TypeOK
  <2>2. CASE j \in Own(c)
    <3> DEFINE x == [certs[j] EXCEPT !.receptor = TRUE, !.abilities = @ \/ j \in local[c].ids]
    <3>1. certs[j] \in Cert /\ certs[j] # NoCert /\ DocOf[j] = ClaimDoc[c]
      BY <1>1, <2>2 DEF Own, Issued, TypeOK
    <3>2. certs'[j] = x
      BY <2>2 DEF ClaimCertificates
    <3>3. x \in Cert /\ x.receptor /\ x.linked = certs[j].linked
      BY <3>1 DEF Cert
    <3> HIDE DEF x
    <3>4. x # NoCert
      BY <3>3, RowsAssumption
    <3> QED
      BY <1>1, <3>1, <3>2, <3>3, <3>4
  <2> QED
    BY <2>1, <2>2
<1>4. certs' \in [Issues -> Cert \cup {NoCert}]
  BY <1>3 DEF ClaimCertificates
<1>5. TypeOK'
  BY <1>1, <1>2, <1>4 DEF TypeOK
<1>6. Harmless
  BY <1>3 DEF Harmless
<1>7. \A q \in Claims : ClaimOK(q)'
  BY <1>1, <1>2 DEF Inv, ClaimOK, Actors
<1>8. \A j \in Issues : pc'[j] = pc[j]
  BY <1>2 DEF Actors
<1> QED
  BY <1>1, <1>5, <1>6, <1>7, <1>8, BesideKeeps

LEMMA ClaimsKeep ==
  ASSUME Inv, NEW c \in Claims, SignUp(c) \/ Approve(c) \/ ReadIds(c)
  PROVE  Inv'
<1>. c \in Actors /\ c \notin Issues /\ ClaimDoc[c] \in Docs
  BY ActorsAssumption, TemplateAssumption DEF Actors
<1>1. /\ UNCHANGED <<localLambda, template, certs, shared, completed>> /\ TypeOK
      /\ UNCHANGED <<jobs, posted, answers, accepted>>
      /\ UNCHANGED local \/ local' = [local EXCEPT ![c].ids = Own(c)]
      /\ Own(c) \in SUBSET Issues
  BY DEF SignUp, Approve, ReadIds, rows, outside, Own, Issued, Inv
<1>2. PICK l \in {"readIds", "update"} : Goto(c, l)
  BY DEF SignUp, Approve, ReadIds
<1>. l \in PCs
  BY DEF PCs
<1>3. /\ accounts' \in [Docs -> Account] /\ accounts'[ClaimDoc[c]] # "none"
      /\ \A d \in Docs : accounts[d] # "none" => accounts'[d] # "none"
  <2>1. CASE SignUp(c)
    <3>1. PICK kind \in {"raw", "pf"} : accounts' = [accounts EXCEPT ![ClaimDoc[c]] = kind]
      BY <2>1 DEF SignUp
    <3> QED
      BY <1>1, <3>1 DEF TypeOK, Account
  <2>2. CASE Approve(c)
    BY <1>1, <2>2 DEF Approve, TypeOK, rows
  <2>3. CASE ReadIds(c)
    BY <1>1, <2>3 DEF ReadIds, TypeOK, rows, Inv, ClaimOK
  <2> QED
    BY <2>1, <2>2, <2>3
<1>4. /\ pc' \in [Actors -> PCs] /\ pc'[c] = l
      /\ \A b \in Actors \ {c} : pc'[b] = pc[b]
  BY <1>1, <1>2, Going
<1>5. /\ local' \in [Actors -> [version : Nat, user : BOOLEAN, ids : SUBSET Issues]]
      /\ \A b \in Actors \ {c} : local'[b] = local[b]
  BY <1>1, Learning
<1>6. TypeOK'
  BY <1>1, <1>3, <1>4, <1>5 DEF TypeOK
<1>7. Harmless
  BY <1>1, SameCertificates
<1>8. ASSUME NEW q \in Claims PROVE ClaimOK(q)'
  <2>1. ClaimOK(q) /\ ClaimDoc[q] \in Docs /\ (q = c \/ pc'[q] = pc[q])
    BY <1>4, TemplateAssumption DEF Inv, Actors
  <2> QED
    BY <1>3, <2>1 DEF ClaimOK
<1>9. \A j \in Issues : pc'[j] = pc[j] /\ local'[j] = local[j]
  BY <1>4, <1>5 DEF Actors
<1> QED
  BY <1>1, <1>3, <1>6, <1>7, <1>8, <1>9, BesideKeeps

LEMMA CompleteProfileKeeps ==
  ASSUME Inv, NEW d \in Docs, CompleteProfile(d)
  PROVE  Inv'
<1>1. /\ UNCHANGED <<localLambda, template, certs, shared, completed, pc, local>> /\ TypeOK
      /\ UNCHANGED <<jobs, posted, answers, accepted>>
      /\ accounts' = [accounts EXCEPT ![d] = "pf"]
  BY DEF CompleteProfile, outside, Inv
<1>2. /\ accounts' \in [Docs -> Account]
      /\ \A e \in Docs : accounts[e] # "none" => accounts'[e] # "none"
  BY <1>1 DEF TypeOK, Account
<1>3. TypeOK'
  BY <1>1, <1>2 DEF TypeOK
<1>4. Harmless
  BY <1>1, SameCertificates
<1>5. \A c \in Claims : ClaimOK(c)'
  BY <1>1, <1>2, TemplateAssumption DEF Inv, ClaimOK
<1> QED
  BY <1>1, <1>2, <1>3, <1>4, <1>5, BesideKeeps

LEMMA CrashKeeps ==
  ASSUME Inv, Crash
  PROVE  Inv'
<1>1. /\ UNCHANGED <<localLambda, template, certs, shared, accounts, completed, local>> /\ TypeOK
      /\ UNCHANGED <<jobs, posted, answers>> /\ accepted' = {}
      /\ pc' = [a \in Actors |-> IF pc[a] \in Over THEN pc[a] ELSE "failed"]
  BY DEF Crash, rows, Inv
<1>2. pc' \in [Actors -> PCs]
  BY <1>1 DEF TypeOK, PCs
<1>3. TypeOK'
  BY <1>1, <1>2 DEF TypeOK
<1>4. \A a \in Actors : pc'[a] = pc[a] \/ (pc[a] \notin Over /\ pc'[a] = "failed")
  BY <1>1
<1>5. Harmless
  BY <1>1, SameCertificates
<1>6. \A c \in Claims : ClaimOK(c)'
  BY <1>1, <1>4 DEF Inv, ClaimOK, Actors
<1>7. \A j \in Issues : pc'[j] = pc[j] \/ (pc[j] \notin Over /\ pc'[j] = "failed")
  BY <1>4 DEF Actors
<1> QED
  BY <1>1, <1>3, <1>5, <1>6, <1>7, BesideKeeps

-----------------------------------------------------------------------------
(* All of them together.                                                   *)

LEMMA InitInv == Init => Inv
<1> SUFFICES ASSUME Init PROVE Inv
  OBVIOUS
<1>1. TypeOK
  <2>1. pc \in [Actors -> PCs]
    BY DEF Init, PCs
  <2>4. answers \in [Issues -> 0 .. MaxAnswers]
    BY TemplateAssumption DEF Init
  <2>2. local \in [Actors -> [version : Nat, user : BOOLEAN, ids : SUBSET Issues]]
    BY DEF Init
  <2>3. localLambda \in BOOLEAN
    BY TemplateAssumption DEF Init
  <2>5. shared \in [Issues -> Sharing]
    BY DEF Init, NoHash, Sharing
  <2> QED
    BY <2>1, <2>2, <2>3, <2>4, <2>5 DEF Init, TypeOK
<1>2. \A a \in Actors : pc[a] = "idle" /\ ~local[a].user
  BY DEF Init
<1>3. \A i \in Issues : certs[i] = NoCert /\ ~shared[i].made /\ shared[i].valid = {} /\ i \in Actors
  BY DEF Init, Actors, NoHash
<1>4. \A i \in Issues : IssueOK(i)
  BY <1>2, <1>3 DEF Init, IssueOK
<1>5. \A c \in Claims : ClaimOK(c)
  BY <1>2 DEF ClaimOK, Actors
<1>6. Few({})
  BY FS_EmptySet, TemplateAssumption DEF Few
<1>7. InFlight = {} /\ \A d \in Docs : Held(d) = {}
  BY <1>2, <1>3 DEF InFlight, Held, Holds, Coming, Over
<1>8. Bounded
  BY <1>6, <1>7 DEF Bounded
<1> QED
  BY <1>1, <1>4, <1>5, <1>8 DEF Inv

LEMMA StepInv == Inv /\ [Next]_vars => Inv'
<1> SUFFICES ASSUME Inv, [Next]_vars PROVE Inv'
  OBVIOUS
<1>1. ASSUME NEW i \in Issues, IssueStep(i) PROVE Inv'
  BY <1>1, LoadKeeps, CheckKeeps, LookupKeeps, AssociateKeeps, CreateKeeps, HashKeeps,
     DispatchKeeps DEF IssueStep
<1>2. ASSUME NEW i \in Issues, ServiceStep(i) \/ PeopleStep(i) PROVE Inv'
  BY <1>2, ServiceKeeps, PeopleKeep DEF ServiceStep, PeopleStep
<1>3. ASSUME NEW c \in Changes, ChangeStep(c) PROVE Inv'
  BY <1>3, ChangesKeep, DeleteTemplateKeeps DEF ChangeStep
<1>4. ASSUME NEW c \in Claims, ClaimStep(c) PROVE Inv'
  BY <1>4, ClaimsKeep, ClaimCertificatesKeeps DEF ClaimStep
<1>5. CASE UNCHANGED vars
  <2>1. /\ UNCHANGED <<localLambda, template, certs, shared, accounts, completed, pc, local>>
        /\ UNCHANGED <<jobs, posted, answers, accepted>>
    BY <1>5 DEF vars, rows, outside
  <2>2. TypeOK'
    BY <2>1 DEF Inv, TypeOK
  <2>3. \A c \in Claims : ClaimOK(c)'
    BY <2>1 DEF Inv, ClaimOK
  <2> QED
    BY <2>1, <2>2, <2>3, SameCertificates, BesideKeeps
<1> QED
  BY <1>1, <1>2, <1>3, <1>4, <1>5, CompleteProfileKeeps, CrashKeeps DEF Next

LEMMA InvHolds == Spec => []Inv
  BY InitInv, StepInv, PTL DEF Spec

(* Every row, every handler and every queue hold what they stand for.      *)
THEOREM TemplateTypes == Spec => []TypeOK
<1>1. Inv => TypeOK
  BY DEF Inv
<1> QED
  BY <1>1, InvHolds, PTL

(* Whatever is issued, claimed, deleted or lost meanwhile, the abilities   *)
(* of a certificate never name a user who is not its receptor.             *)
THEOREM AbilitiesAreTheReceptors == Spec => []AbilitiesFollowReceptor
<1>1. Inv => AbilitiesFollowReceptor
  BY DEF Inv, IssueOK, AbilitiesFollowReceptor, Issued
<1> QED
  BY <1>1, InvHolds, PTL

(* A learning path that was completed for a certificate that is not there  *)
(* belongs to an issue about to insert it, or to one that failed.          *)
THEOREM PathsBeforeCertificates == Spec => []PathsLeadToCertificates
<1>1. Inv => PathsLeadToCertificates
  <2> SUFFICES ASSUME Inv, NEW i \in completed \ Issued
               PROVE  pc[i] \in {"create", "failed"}
    BY DEF PathsLeadToCertificates
  <2>1. i \in Issues /\ certs[i] = NoCert
    BY DEF Inv, TypeOK, Issued
  <2> QED
    BY <2>1 DEF Inv, IssueOK
<1> QED
  BY <1>1, InvHolds, PTL

(* A student gets at most as many certificates of one template as issues   *)
(* are handled at the same time, however many are made for him.            *)
THEOREM DuplicatesAreBounded == Spec => []DuplicatesBounded
<1>1. Inv => DuplicatesBounded
  <2> SUFFICES ASSUME Inv, NEW d \in Docs
               PROVE  Cardinality({i \in OfTemplate : DocOf[i] = d}) <= MaxInFlight
    BY DEF DuplicatesBounded
  <2>1. {i \in OfTemplate : DocOf[i] = d} \in SUBSET Held(d)
    BY DEF OfTemplate, Issued, Held, Holds
  <2>2. Few({i \in OfTemplate : DocOf[i] = d})
    BY <2>1, FewOf DEF Inv, Bounded
  <2> QED
    BY <2>2 DEF Few
<1> QED
  BY <1>1, InvHolds, PTL

-----------------------------------------------------------------------------
(* The lifecycle: what is seen of the certificates from outside.           *)

Visible == [i \in Issues |-> Shown(i)]

Reported == [i \in Issues |-> certs[i] # NoCert /\ certs[i].success]

Seen == [Lifecycle!Next]_(Lifecycle!vars)

LEMMA Unseen ==
  ASSUME UNCHANGED shared,
         \A j \in Issues : certs'[j] # NoCert <=> certs[j] # NoCert,
         \A j \in Issues : certs[j] # NoCert => certs'[j].success = certs[j].success
  PROVE  Seen
<1>1. Visible' = Visible
  BY DEF Visible, Shown
<1>2. Reported' = Reported
  BY DEF Reported
<1> QED
  BY <1>1, <1>2 DEF Seen, Lifecycle!vars, Visible, Reported

Moved(i, from, to) ==
  Visible[i] \in from /\ Visible' = [Visible EXCEPT ![i] = to] /\ Reported' = Reported

LEMMA SeenMoving ==
  \A i \in Issues : \A from, to : Moved(i, from, to) => Lifecycle!Move(i, from, to)
  BY DEF Moved, Lifecycle!Move, Visible, Reported

LEMMA CreateInserts ==
  ASSUME Inv, NEW i \in Issues, Create(i)
  PROVE  Seen
<1>1. /\ TypeOK /\ certs[i] = NoCert /\ UNCHANGED shared
      /\ ~shared[i].made /\ shared[i].valid = {}
  BY DEF Create, Inv, IssueOK
<1>2. CASE UNCHANGED certs
  BY <1>1, <1>2, Unseen
<1>3. CASE certs' = [certs EXCEPT ![i] = NewCert(i)]
  <2>1. local[i].version \in Nat /\ local[i].user \in BOOLEAN
    BY <1>1 DEF TypeOK, Actors
  <2>2. NewCert(i) \in Cert /\ ~NewCert(i).success
    BY <2>1 DEF NewCert, Cert
  <2>3. /\ certs'[i] # NoCert /\ ~certs'[i].success
        /\ \A j \in Issues \ {i} : certs'[j] = certs[j]
    BY <1>1, <1>3, <2>2, RowsAssumption DEF TypeOK
  <2>4. Visible[i] \in {"none"} /\ Visible' = [Visible EXCEPT ![i] = "hidden"]
    <3>1. Shown(i) = "none" /\ Shown(i)' = "hidden"
      BY <1>1, <2>3 DEF Shown
    <3>2. \A j \in Issues \ {i} : Shown(j)' = Shown(j)
      BY <1>1, <2>3 DEF Shown
    <3> QED
      BY <3>1, <3>2 DEF Visible
  <2>5. Reported' = Reported
    BY <1>1, <2>3 DEF Reported
  <2>6. Moved(i, {"none"}, "hidden")
    BY <2>4, <2>5 DEF Moved
  <2>7. Lifecycle!Move(i, {"none"}, "hidden")
    BY <2>6, SeenMoving
  <2> QED
    BY <2>7 DEF Seen, Lifecycle!Next, Lifecycle!Insert
<1> QED
  BY <1>2, <1>3 DEF Create

LEMMA HashesMove ==
  ASSUME Inv, NEW i \in Issues, Hash(i) \/ Disable(i) \/ AdminEnable(i)
  PROVE  Seen
<1>1. TypeOK /\ certs[i] # NoCert /\ UNCHANGED certs
  BY DEF Hash, Disable, AdminEnable, Issued, Inv, IssueOK
<1>2. \/ Shown(i)' = Shown(i)
      \/ Shown(i) \in {"hidden", "withdrawn"} /\ Shown(i)' = "public"
      \/ Shown(i) \in {"public"} /\ Shown(i)' = "withdrawn"
  <2>1. CASE Disable(i)
    <3>1. /\ shared'[i].made <=> shared[i].made
          /\ shared'[i].valid = {}
          /\ shared[i].valid # {} => shared[i].made
      BY <1>1, <2>1, Withdrawing DEF Inv, IssueOK
    <3> QED
      BY <1>1, <3>1 DEF Shown
  <2>2. CASE Hash(i) \/ AdminEnable(i)
    <3>1. PICK h \in Hashes : shared' = [shared EXCEPT ![i] = Published(i, h)]
      BY <2>2 DEF Hash, AdminEnable, Hashes
    <3>2. shared'[i].valid # {}
      BY <1>1, <3>1, Publishing
    <3> QED
      BY <1>1, <3>2 DEF Shown
  <2> QED
    BY <2>1, <2>2
<1>3. \A j \in Issues \ {i} : Shown(j)' = Shown(j)
  <2>1. \A j \in Issues \ {i} : shared'[j] = shared[j]
    <3>1. CASE Disable(i)
      BY <1>1, <3>1, Withdrawing
    <3>2. CASE Hash(i) \/ AdminEnable(i)
      BY <1>1, <3>2 DEF Hash, AdminEnable, TypeOK
    <3> QED
      BY <3>1, <3>2
  <2> QED
    BY <1>1, <2>1 DEF Shown
<1>4. /\ Visible[i] = Shown(i) /\ Reported' = Reported
      /\ Visible' = [Visible EXCEPT ![i] = Shown(i)']
  BY <1>1, <1>3 DEF Visible, Reported
<1>5. CASE Shown(i)' = Shown(i)
  <2>1. Visible' = Visible
    BY <1>3, <1>5 DEF Visible
  <2> QED
    BY <1>4, <2>1 DEF Seen, Lifecycle!vars, Visible, Reported
<1>6. CASE Shown(i) \in {"hidden", "withdrawn"} /\ Shown(i)' = "public"
  <2>1. Moved(i, {"hidden", "withdrawn"}, "public")
    BY <1>4, <1>6 DEF Moved
  <2>2. Lifecycle!Move(i, {"hidden", "withdrawn"}, "public")
    BY <2>1, SeenMoving
  <2> QED
    BY <2>2 DEF Seen, Lifecycle!Next, Lifecycle!Publish
<1>7. CASE Shown(i) \in {"public"} /\ Shown(i)' = "withdrawn"
  <2>1. Moved(i, {"public"}, "withdrawn")
    BY <1>4, <1>7 DEF Moved
  <2>2. Lifecycle!Move(i, {"public"}, "withdrawn")
    BY <2>1, SeenMoving
  <2> QED
    BY <2>2 DEF Seen, Lifecycle!Next, Lifecycle!Withdraw
<1> QED
  BY <1>2, <1>5, <1>6, <1>7

(* A report that was accepted may be written after the hash was withdrawn. *)
LEMMA CompleteCompletes ==
  ASSUME Inv, NEW i \in Issues, Complete(i)
  PROVE  Seen
<1>1. /\ TypeOK /\ certs[i] \in Cert /\ certs[i] # NoCert /\ UNCHANGED shared
      /\ shared[i].made
      /\ certs' = [certs EXCEPT ![i] = [certs[i] EXCEPT !.success = TRUE]]
  BY DEF Complete, Inv, IssueOK, TypeOK
<1>2. /\ certs'[i] \in Cert /\ certs'[i].success
      /\ \A j \in Issues \ {i} : certs'[j] = certs[j]
  BY <1>1 DEF TypeOK, Cert
<1>3. certs'[i] # NoCert
  BY <1>2, RowsAssumption
<1>4. Visible' = Visible /\ Visible[i] \in {"public", "withdrawn"}
  <2>1. Shown(i) \in {"public", "withdrawn"} /\ Shown(i)' = Shown(i)
    BY <1>1, <1>3 DEF Shown
  <2>2. \A j \in Issues \ {i} : Shown(j)' = Shown(j)
    BY <1>1, <1>2 DEF Shown
  <2> QED
    BY <2>1, <2>2 DEF Visible
<1>5. Reported' = [Reported EXCEPT ![i] = TRUE]
  BY <1>1, <1>2, <1>3 DEF Reported
<1>6. Lifecycle!Complete(i)
  BY <1>4, <1>5 DEF Lifecycle!Complete, Visible, Reported
<1> QED
  BY <1>6 DEF Seen, Lifecycle!Next

(* Deletion and claim touch rows, and nothing that is seen of them.        *)
LEMMA RowsUnseen ==
  ASSUME Inv, (\E c \in Changes : DeleteTemplate(c)) \/ (\E c \in Claims : ClaimCertificates(c))
  PROVE  Seen
<1>1. TypeOK /\ UNCHANGED shared
  BY DEF DeleteTemplate, ClaimCertificates, Inv
<1>2. ASSUME NEW j \in Issues
      PROVE  /\ certs'[j] # NoCert <=> certs[j] # NoCert
             /\ certs[j] # NoCert => certs'[j].success = certs[j].success
  <2>1. certs[j] \in Cert \cup {NoCert}
    BY <1>1 DEF TypeOK
  <2>2. ASSUME NEW c \in Changes, DeleteTemplate(c)
        PROVE  certs'[j] = IF certs[j] # NoCert THEN [certs[j] EXCEPT !.linked = FALSE] ELSE NoCert
    BY <2>2 DEF DeleteTemplate, Issued
  <2>3. ASSUME NEW c \in Claims, ClaimCertificates(c)
        PROVE  \/ certs'[j] = certs[j]
               \/ certs[j] # NoCert /\ \E b \in BOOLEAN :
                    certs'[j] = [certs[j] EXCEPT !.receptor = TRUE, !.abilities = b]
    <3>1. CASE j \in Own(c)
      <4> DEFINE b == certs[j].abilities \/ j \in local[c].ids
      <4>1. certs'[j] = [certs[j] EXCEPT !.receptor = TRUE, !.abilities = b]
        BY <2>3, <3>1 DEF ClaimCertificates
      <4>2. b \in BOOLEAN /\ certs[j] # NoCert
        BY <3>1 DEF Own, Issued
      <4> HIDE DEF b
      <4> QED
        BY <4>1, <4>2
    <3>2. CASE j \notin Own(c)
      BY <2>3, <3>2 DEF ClaimCertificates
    <3> QED
      BY <3>1, <3>2
  <2>4. ASSUME NEW x \in Cert, NEW b \in BOOLEAN
        PROVE  /\ [x EXCEPT !.linked = FALSE] \in Cert
               /\ [x EXCEPT !.linked = FALSE].success = x.success
               /\ [x EXCEPT !.receptor = TRUE, !.abilities = b] \in Cert
               /\ [x EXCEPT !.receptor = TRUE, !.abilities = b].success = x.success
    BY DEF Cert
  <2>5. CASE certs[j] = NoCert
    BY <2>2, <2>3, <2>5
  <2>6. CASE certs[j] # NoCert
    <3>1. /\ certs'[j] \in Cert
          /\ certs'[j].success = certs[j].success
      BY <2>1, <2>2, <2>3, <2>4, <2>6
    <3> QED
      BY <2>6, <3>1, RowsAssumption
  <2> QED
    BY <2>5, <2>6
<1> QED
  BY <1>1, <1>2, Unseen

(* Issues, services, owners, administrators, claims, deletions and crashes *)
(* together show nothing but the lifecycle.                                *)
THEOREM ImplementsLifecycle == Spec => LifecycleSpec
<1>1. Init => Lifecycle!Init
  BY DEF Init, Lifecycle!Init, Shown
<1>2. Inv /\ [Next]_vars => Seen
  <2> SUFFICES ASSUME Inv, [Next]_vars PROVE Seen
    OBVIOUS
  <2>1. ASSUME UNCHANGED <<certs, shared>> PROVE Seen
    BY <2>1, Unseen
  <2>2. ASSUME NEW i \in Issues, IssueStep(i) PROVE Seen
    <3>1. CASE Load(i) \/ Check(i) \/ Lookup(i) \/ Associate(i) \/ Dispatch(i) \/ DispatchFails(i)
      BY <2>1, <3>1 DEF Load, Check, Lookup, Associate, Dispatch, DispatchFails, rows
    <3> QED
      BY <2>2, <3>1, CreateInserts, HashesMove DEF IssueStep
  <2>3. ASSUME NEW i \in Issues, ServiceStep(i) \/ PeopleStep(i) PROVE Seen
    <3>1. CASE ProcessJob(i) \/ Answer(i)
      BY <2>1, <3>1 DEF ProcessJob, Answer, rows
    <3> QED
      BY <2>3, <3>1, CompleteCompletes, HashesMove DEF ServiceStep, PeopleStep
  <2>4. ASSUME NEW c \in Changes, ChangeStep(c) PROVE Seen
    <3>1. CASE LoadTemplate(c) \/ CountCertificates(c) \/ UpdateTemplate(c)
      BY <2>1, <3>1 DEF LoadTemplate, CountCertificates, UpdateTemplate, rows
    <3> QED
      BY <2>4, <3>1, RowsUnseen DEF ChangeStep
  <2>5. ASSUME NEW c \in Claims, ClaimStep(c) PROVE Seen
    <3>1. CASE SignUp(c) \/ Approve(c) \/ ReadIds(c)
      BY <2>1, <3>1 DEF SignUp, Approve, ReadIds, rows
    <3> QED
      BY <2>5, <3>1, RowsUnseen DEF ClaimStep
  <2>6. CASE (\E d \in Docs : CompleteProfile(d)) \/ Crash \/ UNCHANGED vars
    BY <2>1, <2>6 DEF CompleteProfile, Crash, vars, rows
  <2> QED
    BY <2>2, <2>3, <2>4, <2>5, <2>6 DEF Next
<1> QED
  BY <1>1, <1>2, InvHolds, PTL DEF Spec, LifecycleSpec, Lifecycle!Spec, Seen
=============================================================================
