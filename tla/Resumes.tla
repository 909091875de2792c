------------------------------- MODULE Resumes -------------------------------
(***************************************************************************)
(* The resumes of a person and their PDFs.  A handler writes the row, has   *)
(* an external service draw what it wrote, or read, to a file named for the *)
(* next version, and records that version in a statement of its own.       *)
(***************************************************************************)
EXTENDS Handlers, Naturals

VARIABLES resumes,      \* Resume rows
          files,        \* PDFs in the storage
          desk          \* what a handler has of a resume

resumeTables == <<resumes, files>>
resumeVars == <<resumeTables, desk>>

Resume == [text : Makers,               \* who wrote what it says
           entries : SUBSET Makers,     \* experiences, education, languages, by writer
           pdfVersion : Nat \ {0},
           pdfPath : Nat]               \* the version the path ends in; 0: none

ASSUME ResumesAssumption == None \notin Resume

File == [resume : Makers, version : Nat \ {0}, text : Makers]

Desk == [resume : Makers \cup {None},
         kept : SUBSET Makers,          \* entries the body has the ids of
         added : BOOLEAN,               \* the body has an entry without id
         existing : SUBSET Makers,      \* entries read
         text : Makers \cup {None}, version : Nat,
         overtaken : BOOLEAN]           \* history: the row was written since it was read

ResumesTypeOK ==
  /\ resumes \in [Makers -> Resume \cup {None}]
  /\ files \subseteq File
  /\ desk \in [Handlers -> Desk]
  /\ \A p \in Makers : resumes[p] # None /\ resumes[p].pdfPath # 0 =>
       /\ resumes[p].pdfPath = resumes[p].pdfVersion
       /\ \E f \in files : f.resume = p /\ f.version = resumes[p].pdfPath

-----------------------------------------------------------------------------
NoDesk == [resume |-> None, kept |-> {}, added |-> FALSE, existing |-> {},
           text |-> None, version |-> 0, overtaken |-> FALSE]

RefuseResume(r) == Goto(r, "refused") /\ UNCHANGED resumeVars

CreateResume(r) ==
  /\ Start(r, "createResume", "insertResume")
  /\ \E e \in BOOLEAN : desk' = [desk EXCEPT ![r] = [NoDesk EXCEPT !.resume = r, !.added = e]]
  /\ UNCHANGED resumeTables

(* A request names a resume, and the entries in it that its user saw.      *)
Open(r, k) ==
  /\ Start(r, k, "readResume")
  /\ \E p \in Makers :
       /\ resumes[p] # None
       /\ \E kept \in IF k = "updateResume" THEN SUBSET resumes[p].entries ELSE {{}},
             e \in IF k = "updateResume" THEN BOOLEAN ELSE {FALSE} :
            desk' = [desk EXCEPT ![r] = [NoDesk EXCEPT !.resume = p, !.kept = kept, !.added = e]]
  /\ UNCHANGED resumeTables

UpdateResume(r) == Open(r, "updateResume")
DeleteResume(r) == Open(r, "deleteResume")
CreatePdf(r) == Open(r, "createPdf")

(* Others with the resume in hand are overtaken by a new text.             *)
Overtake(d, r) ==
  [a \in Handlers |-> IF a # r /\ d[a].resume = d[r].resume /\ pc[a] \in {"draw", "recordPdf"}
                      THEN [d[a] EXCEPT !.overtaken = TRUE] ELSE d[a]]

InsertResume(r) ==
  /\ pc[r] = "insertResume"
  /\ resumes' = [resumes EXCEPT ![r] = [text |-> r, entries |-> IF desk[r].added THEN {r} ELSE {},
                                        pdfVersion |-> 1, pdfPath |-> 0]]
  /\ desk' = [desk EXCEPT ![r].text = r, ![r].version = 1]
  /\ Goto(r, "draw")
  /\ UNCHANGED files

AfterRead(r) == IF kind[r] = "updateResume" THEN "writeResume"
            ELSE IF kind[r] = "deleteResume" THEN "removeResume" ELSE "draw"

(* An update whose body lacks one of the lists throws after the read.      *)
GetResume(r) ==
  /\ pc[r] = "readResume"
  /\ LET row == resumes[desk[r].resume]
     IN  \/ (row = None \/ kind[r] = "updateResume") /\ RefuseResume(r)
         \/ /\ row # None
            /\ desk' = [desk EXCEPT ![r].existing = row.entries, ![r].text = row.text,
                                    ![r].version = row.pdfVersion]
            /\ Goto(r, AfterRead(r))
            /\ UNCHANGED resumeTables

(* Entries that were read are updated or deleted one by one: if any is      *)
(* gone, all is refused.  New ones are created.                            *)
EntriesAfter(r) ==
  LET d == desk[r]
  IN  (resumes[d.resume].entries \ (d.existing \ d.kept)) \cup (IF d.added THEN {r} ELSE {})

(* Mutant: the PDF is drawn from what was read before the write.           *)
WriteAndDrawOld(r) ==
  /\ pc[r] = "writeResume"
  /\ LET p == desk[r].resume
     IN  IF resumes[p] = None \/ ~(desk[r].existing \subseteq resumes[p].entries) THEN RefuseResume(r)
         ELSE /\ resumes' = [resumes EXCEPT ![p].text = r, ![p].entries = EntriesAfter(r)]
              /\ desk' = Overtake(desk, r)
              /\ Goto(r, "draw")
              /\ UNCHANGED files

WriteResume(r) ==
  /\ pc[r] = "writeResume"
  /\ LET p == desk[r].resume
     IN  IF resumes[p] = None \/ ~(desk[r].existing \subseteq resumes[p].entries) THEN RefuseResume(r)
         ELSE /\ resumes' = [resumes EXCEPT ![p].text = r, ![p].entries = EntriesAfter(r)]
              /\ desk' = [Overtake(desk, r) EXCEPT ![r].text = r,
                                                   ![r].version = resumes[p].pdfVersion]
              /\ Goto(r, "draw")
              /\ UNCHANGED files

(* External: the service draws over what is there, or does not.            *)
ResumePdfLambda(r) ==
  /\ pc[r] = "draw"
  /\ LET f == [resume |-> desk[r].resume, version |-> desk[r].version + 1, text |-> desk[r].text]
     IN  \/ RefuseResume(r)
         \/ /\ files' = {g \in files : g.resume # f.resume \/ g.version # f.version} \cup {f}
            /\ Goto(r, "recordPdf")
            /\ UNCHANGED <<resumes, desk>>

RecordPdf(r) ==
  /\ pc[r] = "recordPdf"
  /\ LET p == desk[r].resume
         v == desk[r].version + 1
     IN  IF resumes[p] = None THEN RefuseResume(r)
         ELSE /\ resumes' = [resumes EXCEPT ![p].pdfVersion = v, ![p].pdfPath = v]
              /\ Goto(r, "done")
              /\ UNCHANGED <<files, desk>>

(* The files stay.                                                         *)
RemoveResume(r) ==
  /\ pc[r] = "removeResume"
  /\ LET p == desk[r].resume
     IN  IF resumes[p] = None THEN RefuseResume(r)
         ELSE /\ resumes' = [resumes EXCEPT ![p] = None]
              /\ Goto(r, "done")
              /\ UNCHANGED <<files, desk>>

(* A resume from before with its PDF.                                      *)
ResumesInit ==
  /\ resumes = [p \in Makers |->
                  IF p = Former THEN [text |-> Former, entries |-> {Former},
                                      pdfVersion |-> 2, pdfPath |-> 2] ELSE None]
  /\ files = {[resume |-> Former, version |-> 2, text |-> Former]}
  /\ desk = [a \in Handlers |-> NoDesk]

ResumesStep(r) == \/ CreateResume(r) \/ UpdateResume(r) \/ DeleteResume(r) \/ CreatePdf(r)
                  \/ InsertResume(r) \/ GetResume(r) \/ WriteResume(r)
                  \/ ResumePdfLambda(r) \/ RecordPdf(r) \/ RemoveResume(r)

-----------------------------------------------------------------------------
(* Properties.                                                             *)

(* The PDF a resume names shows what the resume says, unless whoever wrote  *)
(* that did not come to drawing and recording it, or a handler that was     *)
(* overtaken while it drew gave the resume this version.                   *)
PdfShowsRow ==
  \A f \in files :
    LET row == resumes[f.resume]
    IN  row # None /\ f.version = row.pdfPath /\ f.text # row.text =>
          \/ row.text \in Requests /\ pc[row.text] # "done"
          \/ \E r \in Requests : /\ desk[r].resume = f.resume /\ desk[r].overtaken
                                 /\ desk[r].version + 1 = f.version
=============================================================================
