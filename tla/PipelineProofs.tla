---------------------------- MODULE PipelineProofs ----------------------------
(***************************************************************************)
(* Proofs about Pipeline, for any tree of files, any archives and budgets, *)
(* and any number of reports whose pushes overlap; and about the           *)
(* classification of what is read (Detection).                             *)
(***************************************************************************)
EXTENDS Pipeline, TLAPS, FiniteSetTheorems, SequenceTheorems

-----------------------------------------------------------------------------
(* Type correctness.                                                       *)

FailureRow == [entry : Entries, part : Nat, reason : Reasons]

\* What the disk holds does not change, and everything on it has a place among the
\* findings; an archive that is read is a file.
DiskInv ==
    /\ content \in [Nodes -> FileContent] /\ ext \in [Entries -> Extensions]
    /\ \A e \in Entries, n \in Nodes :
           \A i \in {Whole} \cup DOMAIN content[n].parts : Place(e, i) \in Findings
    /\ job # NoJob => job \in Jobs /\ Leads[job.entry] \in Nodes

FilesInv == FilesTypeOK /\ saved \subseteq Findings /\ DiskInv

Plan == [rows : SUBSET Findings, todo : SUBSET Findings, stage : {"session", "rows"}]

DeliveryInv == DeliveryTypeOK /\ push \in [Pushers -> Plan \cup {NoPush}]

PipelineTypes ==
    /\ kind \in {"cli", "dashboard"} /\ asks \in NoteBlocks /\ alive \in BOOLEAN
    /\ status \in {"running", "completed", "completed_errors"}
    /\ reports \in 0..MaxReports

TypeInv == FilesInv /\ DeliveryInv /\ PipelineTypes

LEMMA Budgets == MaxMembers \in Nat /\ MaxTotal \in Nat /\ MaxRatio \in Nat /\ MaxInner \in Nat
BY FileScanAssumption

LEMMA PartsOfNodes ==
    ASSUME DiskInv, NEW n \in Nodes
    PROVE  /\ content[n].parts \in Seq(FilePart) /\ content[n].packed \in Nat
           /\ content[n].format \in Extensions /\ content[n].opens \in Ways
           /\ DOMAIN content[n].parts = 1..Len(content[n].parts)
           /\ \A i \in DOMAIN content[n].parts : content[n].parts[i] \in FilePart
           /\ content[n].format = "doc" => Len(content[n].parts) = 1
           /\ content[n].format = "sqlite" =>
                 \A i \in DOMAIN content[n].parts : content[n].parts[i].text # "locked"
<1>1. content[n] \in FileContent
  BY DEF DiskInv
<1> QED
  BY <1>1 DEF FileContent

LEMMA FailuresAreRows ==
    \A e \in Entries, i \in Nat, r \in Reasons : Failure(e, i, r) \in FailureRow
BY DEF Failure, FailureRow

LEMMA FilesInit == ASSUME NEW w \in Worlds, FileInit(w) PROVE FilesInv
<1>1. DiskOK(w) /\ \A e \in Entries, n \in Nodes :
        \A i \in {Whole} \cup DOMAIN w.content[n].parts : Place(e, i) \in Findings
  BY PipelineAssumption
<1>2. DiskInv
  BY <1>1 DEF FileInit, DiskInv, DiskOK
<1>3. FilesTypeOK
  BY <1>1 DEF FileInit, FilesTypeOK, DiskOK
<1> QED
  BY <1>2, <1>3 DEF FilesInv, FileInit

LEMMA ListingsAreEntries == \A d : \A S \in Listings(d) : S \subseteq Entries
BY DEF Listings, EntriesOf

LEMMA WalkKeepsFiles ==
    ASSUME FilesInv,
           \/ StartFiles \/ NoRoot \/ Leave \/ EndWalk
           \/ \E e \in Entries : Enter(e) \/ PassBy(e)
    PROVE  FilesInv'
<1> USE DEF disk, rows, walk
<1>1. UNCHANGED <<ext, content, denied, torn, job, saved, known, failed>>
  BY DEF StartFiles, NoRoot, Leave, EndWalk, Enter, PassBy
<1>2. DiskInv' /\ (saved \subseteq Findings)'
  BY <1>1 DEF FilesInv, DiskInv
<1>3. seenFiles' = seenFiles /\ outcome' \in {"queued", "running", "done", "error"}
  BY DEF StartFiles, NoRoot, Leave, EndWalk, Enter, PassBy, FilesInv, FilesTypeOK
<1>4. stack' \in Seq(Dirs) /\ left' \in [Dirs -> SUBSET Entries] /\ seenDirs' \subseteq Dirs
  <2>0. stack \in Seq(Dirs) /\ left \in [Dirs -> SUBSET Entries] /\ seenDirs \subseteq Dirs
    BY DEF FilesInv, FilesTypeOK
  <2>1. CASE StartFiles
    BY <2>0, <2>1, FileScanAssumption, ListingsAreEntries DEF StartFiles
  <2>2. CASE NoRoot \/ EndWalk
    BY <2>0, <2>2 DEF NoRoot, EndWalk
  <2>3. CASE Leave
    BY <2>0, <2>3 DEF Leave
  <2>4. ASSUME NEW e \in Entries, Enter(e)
        PROVE  stack' \in Seq(Dirs) /\ left' \in [Dirs -> SUBSET Entries] /\ seenDirs' \subseteq Dirs
    <3>1. Leads[e] \in Dirs /\ In[e] \in Dirs
      BY <2>4, FileScanAssumption DEF Enter, Enters
    <3>2. stack' = <<Leads[e]>> \o stack /\ seenDirs' = seenDirs \cup {Leads[e]}
      BY <2>4 DEF Enter
    <3>3. PICK S \in Listings(Leads[e]) : left' = [left EXCEPT ![In[e]] = @ \ {e}, ![Leads[e]] = S]
      BY <2>4 DEF Enter
    <3>4. S \subseteq Entries
      BY ListingsAreEntries
    <3>5. left' \in [Dirs -> SUBSET Entries]
      BY <2>0, <3>1, <3>3, <3>4
    <3>6. stack' \in Seq(Dirs)
      BY <2>0, <3>1, <3>2
    <3> QED
      BY <2>0, <3>1, <3>2, <3>5, <3>6
  <2>5. ASSUME NEW e \in Entries, PassBy(e)
        PROVE  stack' \in Seq(Dirs) /\ left' \in [Dirs -> SUBSET Entries] /\ seenDirs' \subseteq Dirs
    BY <2>0, <2>5 DEF PassBy
  <2> QED
    BY <2>1, <2>2, <2>3, <2>4, <2>5
<1>5. FilesTypeOK'
  BY <1>1, <1>3, <1>4 DEF FilesInv, FilesTypeOK, IsArchive, Parts
<1> QED
  BY <1>2, <1>5 DEF FilesInv

\* A step that takes the tree as it is and adds to the rows what has its place.
LEMMA FilesFrame ==
    ASSUME FilesInv, UNCHANGED disk,
           stack' = stack, left' \in [Dirs -> SUBSET Entries], seenDirs' = seenDirs,
           seenFiles' \subseteq Nodes,
           saved' \subseteq Findings, known' \subseteq Entries,
           failed' \subseteq FailureRow,
           outcome' \in {"queued", "running", "done", "error"},
           \/ job' = NoJob
           \/ /\ job' \in Jobs /\ Leads[job'.entry] \in Nodes /\ IsArchive(job'.entry)
              /\ job'.next \in 1..(Len(Parts(job'.entry)) + 1)
              /\ job'.queue \subseteq 1..(job'.next - 1)
    PROVE  FilesInv'
<1> USE DEF disk
<1>1. DiskInv'
  BY DEF FilesInv, DiskInv
<1>2. Findings \subseteq [entry : Entries, part : Nat]
  BY PipelineAssumption DEF Places
<1>3. \/ job' = NoJob
      \/ /\ job' \in Jobs /\ IsArchive(job.entry)'
         /\ job'.next \in 1..(Len(Parts(job.entry)') + 1)
         /\ job'.queue \subseteq 1..(job'.next - 1)
  BY DEF IsArchive, Parts, Jobs
<1>4. /\ ext' \in [Entries -> Extensions] /\ stack' \in Seq(Dirs)
      /\ seenDirs' \subseteq Dirs
  BY DEF FilesInv, FilesTypeOK
<1>5. FilesTypeOK'
  BY <1>2, <1>3, <1>4 DEF FilesTypeOK, FailureRow
<1> QED
  BY <1>1, <1>5 DEF FilesInv

LEMMA YieldFacts ==
    ASSUME FilesInv, NEW e \in Entries, Yield(e)
    PROVE  /\ UNCHANGED disk /\ stack' = stack /\ seenDirs' = seenDirs
           /\ left' \in [Dirs -> SUBSET Entries] /\ seenFiles' \subseteq Nodes
           /\ Leads[e] \in Nodes /\ job = NoJob /\ outcome = "running"
<1>1. Leads[e] \in Nodes
  BY FileScanAssumption DEF Yield, Fresh
<1> QED
  BY <1>1 DEF Yield, FilesInv, FilesTypeOK, Comes, Walking

LEMMA YieldKeepsFiles ==
    ASSUME FilesInv, NEW e \in Entries,
           Skip(e) \/ Deny(e) \/ Mismatch(e) \/ Query(e) \/ SampleFile(e) \/ OpenArchive(e)
    PROVE  FilesInv'
<1> USE DEF rows, Reasons
<1>0. Yield(e)
  BY DEF Skip, Deny, Mismatch, Query, SampleFile, OpenArchive
<1>1. /\ UNCHANGED disk /\ stack' = stack /\ seenDirs' = seenDirs
      /\ left' \in [Dirs -> SUBSET Entries] /\ seenFiles' \subseteq Nodes
      /\ Leads[e] \in Nodes /\ job = NoJob /\ outcome = "running"
  BY <1>0, YieldFacts
<1>2. /\ saved \subseteq Findings /\ known \subseteq Entries
      /\ failed \subseteq FailureRow
  BY DEF FilesInv, FilesTypeOK, FailureRow
<1>3. \A r \in Reasons : Failure(e, Whole, r) \in FailureRow
  BY FailuresAreRows DEF Whole
<1>4. \A i \in {Whole} \cup DOMAIN Parts(e) : Place(e, i) \in Findings
  BY <1>1 DEF FilesInv, DiskInv, Parts
<1>5. ASSUME NEW r \in Reasons, Fail(e, r)
      PROVE  FilesInv'
  <2>1. failed' \subseteq FailureRow /\ UNCHANGED <<job, saved, known, outcome>>
    BY <1>2, <1>3, <1>5 DEF Fail
  <2> QED
    BY <1>1, <1>2, <2>1, FilesFrame
<1>6. CASE Skip(e)
  BY <1>1, <1>2, <1>6, FilesFrame DEF Skip
<1>7. CASE Deny(e) \/ Mismatch(e)
  BY <1>5, <1>7 DEF Deny, Mismatch
<1>8. CASE Query(e)
  <2>1. saved' \subseteq Findings
    BY <1>2, <1>4, <1>8 DEF Query, Columns
  <2> QED
    BY <1>1, <1>2, <1>8, <2>1, FilesFrame DEF Query
<1>9. CASE SampleFile(e)
  <2>1. saved' \subseteq Findings /\ known' \subseteq Entries
    BY <1>2, <1>4, <1>9 DEF SampleFile
  <2>2. failed' \subseteq FailureRow
    <3>1. failed' \in {failed, failed \cup {Failure(e, Whole, "barrier")}}
      BY <1>9 DEF SampleFile
    <3> QED
      BY <1>2, <1>3, <3>1
  <2>3. UNCHANGED <<job, outcome>>
    BY <1>9 DEF SampleFile
  <2> QED
    BY <1>1, <2>1, <2>2, <2>3, FilesFrame
<1>10. CASE OpenArchive(e)
  <2>1. CASE Fail(e, "archive_unsupported") \/ Fail(e, "encrypted_no_password")
    BY <1>5, <2>1
  <2>2. CASE UNCHANGED <<job, rows>> /\ outcome' \in {"running", "error"}
    BY <1>1, <1>2, <2>2, FilesFrame
  <2>3. CASE job' = NewJob(e) /\ UNCHANGED <<rows, outcome>>
    <3>1. NewJob(e) \in Jobs /\ NewJob(e).entry = e /\ NewJob(e).next = 1 /\ NewJob(e).queue = {}
      BY DEF NewJob, Jobs
    <3>2. Len(Parts(e)) \in Nat
      BY <1>1, PartsOfNodes DEF FilesInv, Parts
    <3>3. IsArchive(e)
      BY <1>10 DEF OpenArchive
    <3> QED
      BY <1>1, <1>2, <2>3, <3>1, <3>2, <3>3, FilesFrame
  <2> QED
    BY <1>1, <1>10, <2>1, <2>2, <2>3 DEF OpenArchive
<1> QED
  BY <1>6, <1>7, <1>8, <1>9, <1>10

\* The archive that is read, and the member whose turn it is.
LEMMA JobFacts ==
    ASSUME FilesInv, job # NoJob
    PROVE  /\ job \in Jobs /\ job.entry \in Entries /\ Leads[job.entry] \in Nodes
           /\ IsArchive(job.entry)
           /\ Len(Parts(job.entry)) \in Nat
           /\ DOMAIN Parts(job.entry) = 1..Len(Parts(job.entry))
           /\ job.next \in 1..(Len(Parts(job.entry)) + 1)
           /\ job.queue \subseteq 1..(job.next - 1)
           /\ job.total \in Nat /\ job.listed \in BOOLEAN
           /\ \A i \in DOMAIN Parts(job.entry) : Member(i) \in FilePart /\ Member(i).size \in Nat
<1>1. /\ job \in Jobs /\ job.entry \in Entries /\ Leads[job.entry] \in Nodes
      /\ IsArchive(job.entry) /\ job.next \in 1..(Len(Parts(job.entry)) + 1)
      /\ job.queue \subseteq 1..(job.next - 1)
  BY DEF FilesInv, DiskInv, FilesTypeOK, Jobs
<1>2. /\ Len(Parts(job.entry)) \in Nat /\ DOMAIN Parts(job.entry) = 1..Len(Parts(job.entry))
      /\ \A i \in DOMAIN Parts(job.entry) : Member(i) \in FilePart
  BY <1>1, PartsOfNodes DEF FilesInv, Parts, Member
<1>3. job.total \in Nat /\ job.listed \in BOOLEAN
  BY <1>1 DEF Jobs
<1>4. \A p \in FilePart : p.size \in Nat
  BY DEF FilePart
<1> QED
  BY <1>1, <1>2, <1>3, <1>4

\* The steps that go on reading: what becomes of the job.
Advances ==
    /\ Examines /\ ~OverBudget
    /\ \E Q \in {job.queue, job.queue \cup {job.next}} :
           job' = [job EXCEPT !.next = @ + 1, !.total = Total, !.queue = Q]

LEMMA ArchiveSteps ==
    ASSUME FilesInv, ReadArchive
    PROVE  /\ job # NoJob /\ UNCHANGED <<disk, walk>>
           /\ outcome' \in {outcome, "error"}
           /\ \/ job' = NoJob
              \/ job' = [job EXCEPT !.listed = TRUE]
              \/ Advances
<1>1. job # NoJob
  BY DEF ReadArchive, Exceed, PassMember, Queue, SampleMember, LoseMember, CrashMember,
         EndListing, Extract, ReadsMember, Examines, Reading
<1>2. UNCHANGED <<disk, walk>> /\ outcome' \in {outcome, "error"}
  BY DEF ReadArchive, Exceed, PassMember, Queue, SampleMember, LoseMember, CrashMember,
         EndListing, Extract, ReadsMember
<1>3. Advance => job' = [job EXCEPT !.next = @ + 1, !.total = Total, !.queue = job.queue]
  BY <1>1, JobFacts DEF Advance, Jobs
<1>4. \/ job' = NoJob
      \/ job' = [job EXCEPT !.listed = TRUE]
      \/ Advances
  <2>1. CASE Exceed \/ CrashMember \/ EndListing \/ Extract
    BY <2>1 DEF Exceed, CrashMember, EndListing, Extract
  <2>2. CASE Queue
    BY <2>2 DEF Queue, Advances
  <2>3. CASE PassMember \/ SampleMember \/ LoseMember
    BY <1>3, <2>3 DEF PassMember, SampleMember, LoseMember, ReadsMember, Advances
  <2> QED
    BY <2>1, <2>2, <2>3 DEF ReadArchive
<1> QED
  BY <1>1, <1>2, <1>4

LEMMA AdvanceFacts ==
    ASSUME FilesInv, job # NoJob, Advances
    PROVE  /\ job' \in Jobs /\ job'.entry = job.entry /\ job'.next = job.next + 1
           /\ job'.total = job.total + Member(job.next).size /\ job'.listed = job.listed
           /\ job'.queue \in {job.queue, job.queue \cup {job.next}}
           /\ job.next \in DOMAIN Parts(job.entry)
           /\ job'.next \in 1..(Len(Parts(job.entry)) + 1)
           /\ job'.queue \subseteq 1..(job'.next - 1)
<1>1. PICK Q \in {job.queue, job.queue \cup {job.next}} :
        job' = [job EXCEPT !.next = @ + 1, !.total = Total, !.queue = Q]
  BY DEF Advances
<1>2. job.next \in DOMAIN Parts(job.entry) /\ job.next \in 1..Len(Parts(job.entry))
  BY JobFacts DEF Advances, Examines
<1>3. /\ job \in Jobs /\ job.next \in Nat /\ Total \in Nat /\ Q \subseteq Nat
      /\ Q \subseteq 1..job.next
  <2>1. Member(job.next).size \in Nat /\ job.total \in Nat
    BY <1>2, JobFacts
  <2>2. Total \in Nat
    BY <2>1 DEF Total
  <2> QED
    BY <1>2, <2>2, JobFacts
<1>4. /\ job'.entry = job.entry /\ job'.next = job.next + 1 /\ job'.total = Total
      /\ job'.listed = job.listed /\ job'.queue = Q
  BY <1>1, <1>3 DEF Jobs
<1>5. job' \in Jobs
  <2>1. job.next + 1 \in Nat /\ Q \in SUBSET Nat
    BY <1>3
  <2> QED
    BY <1>1, <1>3, <2>1 DEF Jobs
<1> QED
  BY <1>2, <1>3, <1>4, <1>5, JobFacts DEF Total

LEMMA ArchiveKeepsFiles ==
    ASSUME FilesInv, ReadArchive
    PROVE  FilesInv'
<1> USE DEF rows, walk, Reasons
<1>0. /\ job # NoJob /\ UNCHANGED <<disk, walk>> /\ outcome' \in {outcome, "error"}
      /\ (job' = NoJob \/ job' = [job EXCEPT !.listed = TRUE] \/ Advances)
  BY ArchiveSteps
<1> DEFINE P == DOMAIN Parts(job.entry)
<1>1. /\ job \in Jobs /\ job.entry \in Entries /\ Leads[job.entry] \in Nodes
      /\ IsArchive(job.entry) /\ job.queue \subseteq P /\ P \subseteq Nat
  BY <1>0, JobFacts
<1>2. /\ saved \subseteq Findings /\ known \subseteq Entries
      /\ failed \subseteq FailureRow
      /\ outcome \in {"queued", "running", "done", "error"}
      /\ left \in [Dirs -> SUBSET Entries] /\ seenFiles \subseteq Nodes
  BY DEF FilesInv, FilesTypeOK, FailureRow
<1>3. \A i \in Nat, r \in Reasons : Failure(job.entry, i, r) \in FailureRow
  BY <1>1, FailuresAreRows
<1>4. \A i \in P : Place(job.entry, i) \in Findings
  BY <1>1 DEF FilesInv, DiskInv, Parts
<1>5. ASSUME NEW I \in SUBSET P, NEW J \in SUBSET P, SampleMembers(I, J)
      PROVE  /\ saved' \subseteq Findings /\ known' \subseteq Entries
             /\ failed' \subseteq FailureRow
  <2>1. saved' = saved \cup {Place(job.entry, i) : i \in {j \in I : Tells(Member(j))}}
    BY <1>5 DEF SampleMembers
  <2>2. failed' = failed \cup {Failure(job.entry, i, "unreadable") : i \in J} \cup
           {Failure(job.entry, i, "barrier") : i \in {j \in I : Member(j).text = "locked"}}
    BY <1>5 DEF SampleMembers, Unreadable
  <2>3. saved' \subseteq Findings
    BY <1>2, <1>4, <2>1
  <2>4. failed' \subseteq FailureRow
    BY <1>1, <1>2, <1>3, <2>2
  <2> QED
    BY <1>2, <1>5, <2>3, <2>4 DEF SampleMembers
<1>6. Examines => job.next \in P /\ job.next \in Nat
  BY <1>1 DEF Examines
<1>7. /\ saved' \subseteq Findings /\ known' \subseteq Entries
      /\ failed' \subseteq FailureRow
  <2>1. CASE Exceed
    <3>1. /\ failed' = failed \cup {Failure(job.entry, job.next, "archive_budget_exceeded")}
          /\ UNCHANGED <<saved, known>> /\ job.next \in Nat
      BY <1>6, <2>1 DEF Exceed
    <3> QED
      BY <1>2, <1>3, <3>1
  <2>2. CASE PassMember \/ Queue \/ CrashMember \/ EndListing
    BY <1>2, <2>2 DEF PassMember, Queue, CrashMember, EndListing
  <2>3. CASE SampleMember
    <3>1. {job.next} \in SUBSET P /\ {} \in SUBSET P /\ SampleMembers({job.next}, {})
      BY <1>6, <2>3 DEF SampleMember, ReadsMember
    <3> QED
      BY <1>5, <3>1
  <2>4. CASE LoseMember
    <3>1. /\ failed' \in {failed, failed \cup {Failure(job.entry, job.next, "unreadable")}}
          /\ UNCHANGED <<saved, known>> /\ job.next \in Nat
      BY <1>6, <2>4 DEF LoseMember, ReadsMember, Unreadable
    <3> QED
      BY <1>2, <1>3, <3>1
  <2>5. CASE Extract
    <3>1. CASE SampleMembers(Extracted("ok"), Extracted("broken"))
      <4>1. Extracted("ok") \in SUBSET P /\ Extracted("broken") \in SUBSET P
        BY <1>1 DEF Extracted
      <4> QED
        BY <1>5, <3>1, <4>1
    <3>2. CASE /\ failed' = failed \cup {Failure(job.entry, Whole, "encrypted_no_password")}
               /\ UNCHANGED <<saved, known>>
      BY <1>2, <1>3, <3>2 DEF Whole
    <3>3. CASE failed' = failed \cup BatchLost /\ UNCHANGED <<saved, known>>
      <4>1. \A i \in job.queue : Failure(job.entry, i, "unreadable") \in FailureRow
        BY <1>1, <1>3
      <4>2. failed' \subseteq FailureRow
        BY <1>2, <3>3, <4>1 DEF BatchLost, Unreadable
      <4> QED
        BY <1>2, <3>3, <4>2
    <3> QED
      BY <2>5, <3>1, <3>2, <3>3 DEF Extract
  <2> QED
    BY <2>1, <2>2, <2>3, <2>4, <2>5 DEF ReadArchive
<1>8. \/ job' = NoJob
      \/ /\ job' \in Jobs /\ Leads[job'.entry] \in Nodes /\ IsArchive(job'.entry)
         /\ job'.next \in 1..(Len(Parts(job'.entry)) + 1)
         /\ job'.queue \subseteq 1..(job'.next - 1)
  <2>1. CASE job' = [job EXCEPT !.listed = TRUE]
    <3>1. /\ job' \in Jobs /\ job'.entry = job.entry /\ job'.next = job.next
          /\ job'.queue = job.queue
      BY <1>1, <2>1 DEF Jobs
    <3> QED
      BY <1>0, <3>1, JobFacts
  <2>2. CASE Advances
    BY <1>0, <1>1, <2>2, AdvanceFacts
  <2> QED
    BY <1>0, <2>1, <2>2
<1> QED
  BY <1>0, <1>2, <1>7, <1>8, FilesFrame

LEMMA FilesStep ==
    ASSUME FilesInv, FileNext
    PROVE  FilesInv'
BY WalkKeepsFiles, YieldKeepsFiles, ArchiveKeepsFiles DEF FileNext

LEMMA FilesUnchanged ==
    ASSUME FilesInv, UNCHANGED fileVars
    PROVE  FilesInv'
BY DEF FilesInv, FilesTypeOK, DiskInv, fileVars, IsArchive, Parts
LEMMA PlansAreTyped ==
    ASSUME DeliveryInv, NEW p \in Pushers, push[p] # NoPush
    PROVE  push[p] \in Plan
BY DEF DeliveryInv

LEMMA FindingsAreFinite ==
    \A S \in SUBSET Findings : IsFiniteSet(S) /\ Cardinality(S) \in Nat
BY PipelineAssumption, FS_Subset, FS_CardinalityType

LEMMA DeliveryInit0 ==
    ASSUME NEW w \in Worlds, DeliveryInit(w.block) PROVE DeliveryInv
<1>1. w.block \in SinkBlocks /\ MaxAttempts \in Nat
  BY PipelineAssumption, DeliveryAssumption
<1>2. /\ block \in SinkBlocks /\ sink \in [Keys -> Findings \cup {NoRow}]
      /\ tries \in [Channels -> 0..MaxAttempts] /\ push \in [Pushers -> Plan \cup {NoPush}]
  BY <1>1 DEF DeliveryInit
<1> QED
  BY <1>2 DEF DeliveryInit, DeliveryInv, DeliveryTypeOK

\* What a push writes is among the rows of its plan.
LEMMA WritesRows ==
    ASSUME NEW S \in SUBSET Findings, Writes(S)
    PROVE  \E row \in [Keys -> S \cup {NoRow}] :
               /\ \A k \in Keys : IF Sharing(S, k) = {} THEN row[k] = NoRow
                                  ELSE row[k] \in Sharing(S, k)
               /\ sink' = [k \in Keys |-> IF row[k] = NoRow \/ Kept(k) THEN sink[k] ELSE row[k]]
BY DEF Writes

LEMMA PortionsAreRows ==
    ASSUME DeliveryInv, NEW p \in Pushers, push[p] # NoPush, NEW S \in Portions(p)
    PROVE  S \subseteq push[p].todo /\ S \subseteq Findings
<1>1. push[p].todo \subseteq Findings
  BY PlansAreTyped DEF Plan
<1> QED
  BY <1>1 DEF Portions

LEMMA PushKeepsTypes ==
    ASSUME DeliveryInv, NEW p \in Pushers, PushStep(p) \/ FailPush(p)
    PROVE  DeliveryInv'
<1> USE DEF noteVars
<1>1. push[p] # NoPush /\ push[p] \in Plan /\ push \in [Pushers -> Plan \cup {NoPush}]
      /\ DeliveryTypeOK
  BY PlansAreTyped DEF DeliveryInv, PushStep, PutSession, PutRows, EndPush, FailPush
<1>2. push[p].rows \in SUBSET Findings /\ push[p].todo \in SUBSET Findings
  BY <1>1 DEF Plan
<1>3. CASE PutSession(p)
  <2>1. [push[p] EXCEPT !.stage = "rows"] \in Plan
    BY <1>1 DEF Plan
  <2>2. push' = [push EXCEPT ![p] = [push[p] EXCEPT !.stage = "rows"]]
    BY <1>3 DEF PutSession
  <2>3. push' \in [Pushers -> Plan \cup {NoPush}]
    BY <1>1, <2>1, <2>2
  <2>4. total' \in Nat
    BY <1>2, <1>3, FindingsAreFinite DEF PutSession
  <2> QED
    BY <1>1, <1>3, <2>3, <2>4 DEF PutSession, DeliveryInv, DeliveryTypeOK
<1>4. CASE PutRows(p)
  <2>1. PICK S \in Portions(p) : Writes(S) /\ push' = [push EXCEPT ![p].todo = @ \ S]
    BY <1>4 DEF PutRows
  <2>2. S \in SUBSET Findings
    BY <1>1, PortionsAreRows
  <2>3. [push[p] EXCEPT !.todo = push[p].todo \ S] \in Plan
    BY <1>1, <1>2 DEF Plan
  <2>4. push' = [push EXCEPT ![p] = [push[p] EXCEPT !.todo = push[p].todo \ S]]
    BY <2>1
  <2>5. push' \in [Pushers -> Plan \cup {NoPush}]
    BY <1>1, <2>3, <2>4
  <2>6. sink' \in [Keys -> Findings \cup {NoRow}]
    <3>1. PICK row \in [Keys -> S \cup {NoRow}] :
            sink' = [k \in Keys |-> IF row[k] = NoRow \/ Kept(k) THEN sink[k] ELSE row[k]]
      BY <2>1, <2>2, WritesRows
    <3> QED
      BY <1>1, <2>2, <3>1 DEF DeliveryTypeOK
  <2> QED
    BY <1>1, <1>4, <2>5, <2>6 DEF PutRows, DeliveryInv, DeliveryTypeOK
<1>5. CASE EndPush(p)
  BY <1>1, <1>2, <1>5 DEF EndPush, DeliveryInv, DeliveryTypeOK
<1>6. CASE FailPush(p)
  BY <1>1, <1>6 DEF FailPush, DeliveryInv, DeliveryTypeOK
<1> QED
  BY <1>3, <1>4, <1>5, <1>6 DEF PushStep

LEMMA NoteKeepsTypes ==
    ASSUME DeliveryInv, NEW n, NoteStep(n)
    PROVE  DeliveryInv'
<1> USE DEF sinkVars
<1>0. DeliveryTypeOK /\ push \in [Pushers -> Plan \cup {NoPush}] /\ MaxAttempts \in Nat
  BY DeliveryAssumption DEF DeliveryInv
<1>1. UNCHANGED sinkVars
  BY DEF NoteStep, RecordOperators, RecordTenant, Record, SendOk, SendLost, SendRefused, SendCut
<1>2. ASSUME NEW c \in Channels, SendOk(c) \/ SendLost(c) \/ SendRefused(c) \/ SendCut(c)
      PROVE  DeliveryTypeOK'
  <2>1. tries[c] \in 0..MaxAttempts /\ tries \in [Channels -> 0..MaxAttempts]
    BY <1>0 DEF DeliveryTypeOK
  <2>2. tries' \in [Channels -> 0..MaxAttempts]
    <3>1. tries[c] < MaxAttempts => tries[c] + 1 \in 0..MaxAttempts /\ MaxAttempts \in 0..MaxAttempts
      BY <1>0, <2>1
    <3>2. CASE SendOk(c) \/ SendRefused(c)
      BY <2>1, <3>1, <3>2 DEF SendOk, SendRefused
    <3>3. CASE SendLost(c)
      BY <2>1, <3>1, <3>3 DEF SendLost
    <3>4. CASE SendCut(c)
      BY <2>1, <3>4 DEF SendCut
    <3> QED
      BY <1>2, <3>2, <3>3, <3>4
  <2>3. /\ answer' \in [Channels -> {"none", "ok", "failed"}] /\ received' \subseteq Channels
        /\ note' \in {note, "ended"} /\ cut' \in BOOLEAN /\ UNCHANGED <<audit, marked>>
    BY <1>0, <1>2 DEF SendOk, SendLost, SendRefused, SendCut, Reaches, DeliveryTypeOK
  <2> QED
    BY <1>0, <1>1, <2>2, <2>3 DEF DeliveryTypeOK
<1>3. CASE RecordOperators(n) \/ RecordTenant(n)
  <2>1. audit' \in [Channels -> {"none", "ok", "failed"}]
    BY <1>0, <1>3 DEF RecordOperators, RecordTenant, Record, DeliveryTypeOK
  <2>2. /\ note' \in {"tenant", "ended"} /\ marked' \in BOOLEAN
        /\ UNCHANGED <<tries, answer, cut, received>>
    BY <1>0, <1>3 DEF RecordOperators, RecordTenant, Record, DeliveryTypeOK
  <2> QED
    BY <1>0, <1>1, <2>1, <2>2 DEF DeliveryTypeOK, DeliveryInv
<1> QED
  BY <1>0, <1>1, <1>2, <1>3 DEF NoteStep, DeliveryInv

LEMMA DeliveryUnchanged ==
    ASSUME DeliveryInv, UNCHANGED <<sinkVars, noteVars>>
    PROVE  DeliveryInv'
BY DEF DeliveryInv, DeliveryTypeOK, sinkVars, noteVars

LEMMA BeginKeepsTypes ==
    ASSUME FilesInv, DeliveryInv, NEW p \in Pushers, BeginPush(p, saved)
    PROVE  DeliveryInv'
<1>1. [rows |-> saved, todo |-> saved, stage |-> "session"] \in Plan
  BY DEF FilesInv, Plan
<1>2. push' \in [Pushers -> Plan \cup {NoPush}]
  BY <1>1 DEF BeginPush, DeliveryInv
<1> QED
  BY <1>2 DEF BeginPush, DeliveryInv, DeliveryTypeOK, noteVars

LEMMA NotifyKeepsTypes ==
    ASSUME DeliveryInv, NEW n, NEW s, NEW h, StartNote(n, s, h)
    PROVE  DeliveryInv'
<1>1. /\ note' \in {"ended", "operators"} /\ cut' \in {cut, TRUE}
      /\ UNCHANGED <<tries, answer, audit, marked, received, sinkVars>>
  BY DEF StartNote
<1> QED
  BY <1>1 DEF DeliveryInv, DeliveryTypeOK, sinkVars

LEMMA TypeInit == Init => TypeInv
<1> SUFFICES ASSUME Init PROVE TypeInv
  OBVIOUS
<1>1. PICK w \in Worlds : FileInit(w) /\ DeliveryInit(w.block) /\ kind = w.kind /\ asks = w.asks
  BY DEF Init
<1>2. FilesInv /\ DeliveryInv
  BY <1>1, FilesInit, DeliveryInit0
<1>3. PipelineTypes
  BY <1>1, PipelineAssumption DEF Init, PipelineTypes
<1> QED
  BY <1>2, <1>3 DEF TypeInv

LEMMA TypeStep ==
    ASSUME TypeInv, [Next]_vars
    PROVE  TypeInv'
<1> USE DEF pipelineVars
<1>0. FilesInv /\ DeliveryInv /\ PipelineTypes
  BY DEF TypeInv
<1>1. CASE UNCHANGED vars
  BY <1>0, <1>1, FilesUnchanged, DeliveryUnchanged DEF vars, PipelineTypes, TypeInv
<1>2. CASE Scan
  BY <1>0, <1>2, FilesStep, DeliveryUnchanged DEF Scan, PipelineTypes, TypeInv
<1>3. CASE Finish \/ Exit
  BY <1>0, <1>3, FilesUnchanged, DeliveryUnchanged DEF Finish, Exit, PipelineTypes, TypeInv
<1>4. CASE Push
  BY <1>0, <1>4, FilesUnchanged, PushKeepsTypes DEF Push, PipelineTypes, TypeInv
<1>5. CASE Notify
  BY <1>0, <1>5, FilesUnchanged, NotifyKeepsTypes DEF Notify, PipelineTypes, TypeInv
<1>6. CASE Send
  BY <1>0, <1>6, FilesUnchanged, NoteKeepsTypes DEF Send, PipelineTypes, TypeInv
<1>7. ASSUME NEW p \in Pushers, Report(p)
      PROVE  TypeInv'
  <2>1. reports' \in 0..MaxReports
    <3>1. reports' = reports + 1 /\ (reports = 0 \/ reports < MaxReports)
      BY <1>7 DEF Report
    <3>2. reports \in 0..MaxReports /\ MaxReports \in Nat /\ MaxReports # 0
      BY <1>0, PipelineAssumption DEF PipelineTypes
    <3> QED
      BY <3>1, <3>2
  <2>2. DeliveryInv' /\ FilesInv'
    BY <1>0, <1>7, FilesUnchanged, BeginKeepsTypes DEF Report
  <2> QED
    BY <1>0, <1>7, <2>1, <2>2 DEF Report, PipelineTypes, TypeInv
<1> QED
  BY <1>1, <1>2, <1>3, <1>4, <1>5, <1>6, <1>7 DEF Next

LEMMA TypeAlways == Spec => []TypeInv
BY TypeInit, TypeStep, PTL DEF Spec

\* Types: the walk and its archives, findings that the sink can hold, messages.
THEOREM TypeCorrect == Spec => []TypeOK
<1>1. TypeInv => TypeOK
  BY DEF TypeInv, FilesInv, DeliveryInv, PipelineTypes, TypeOK
<1> QED
  BY <1>1, TypeAlways, PTL
-----------------------------------------------------------------------------
(* Archives.                                                               *)

Packed == content[Leads[job.entry]].packed

\* The budgets, for the members passed so far.
BudgetInv ==
    job # NoJob =>
        /\ job.next - 1 <= MaxMembers /\ job.total <= MaxTotal
        /\ Packed > 0 => job.total <= MaxRatio * Packed

LEMMA Products == \A a, b \in Nat : a * b \in Nat
OBVIOUS

LEMMA NewJobIsEmpty ==
    \A e : NewJob(e).entry = e /\ NewJob(e).next = 1 /\ NewJob(e).total = 0
           /\ NewJob(e).listed = FALSE /\ NewJob(e).queue = {}
BY DEF NewJob

\* Steps of the walk find no job, and begin at most one.
LEMMA WalkJobs ==
    ASSUME FilesInv, FileNext, ~ReadArchive
    PROVE  UNCHANGED disk /\ (job' = job \/ \E e \in Entries : OpenArchive(e) /\ job' = NewJob(e))
BY DEF FileNext, StartFiles, NoRoot, Leave, EndWalk, Enter, PassBy, Skip, Deny, Mismatch, Query,
       SampleFile, OpenArchive, Fail, Yield, rows

LEMMA BudgetStep ==
    ASSUME FilesInv, FilesInv', BudgetInv, FileNext
    PROVE  BudgetInv'
<1> USE DEF disk
<1>1. CASE ReadArchive
  <2>1. /\ job # NoJob /\ UNCHANGED disk
        /\ (job' = NoJob \/ job' = [job EXCEPT !.listed = TRUE] \/ Advances)
    BY <1>1, ArchiveSteps
  <2>2. CASE job' = NoJob
    BY <2>2 DEF BudgetInv
  <2>3. CASE job' = [job EXCEPT !.listed = TRUE]
    <3>1. job'.entry = job.entry /\ job'.next = job.next /\ job'.total = job.total
      BY <2>1, <2>3, JobFacts DEF Jobs
    <3> QED
      BY <2>1, <3>1 DEF BudgetInv, Packed
  <2>4. CASE Advances
    <3>1. /\ job'.entry = job.entry /\ job'.next = job.next + 1
          /\ job'.total = job.total + Member(job.next).size
          /\ job.next \in DOMAIN Parts(job.entry)
      BY <2>1, <2>4, AdvanceFacts
    <3>2. /\ ~(job.next > MaxMembers) /\ ~(job'.total > MaxTotal)
          /\ Packed > 0 => ~(job'.total > MaxRatio * Packed)
      BY <2>4, <3>1 DEF Advances, OverBudget, Total, Packed
    <3>3. job.next \in Nat /\ job'.total \in Nat
      BY <2>1, <3>1, JobFacts
    <3>4. Packed' = Packed /\ Packed \in Nat /\ MaxRatio * Packed \in Nat
      BY <2>1, <3>1, JobFacts, PartsOfNodes, Budgets, Products DEF Packed, FilesInv
    <3>5. \A m, n \in Nat : ~(m > n) => m <= n
      OBVIOUS
    <3>6. job'.total <= MaxTotal /\ (Packed > 0 => job'.total <= MaxRatio * Packed)
      BY <3>2, <3>3, <3>4, <3>5, Budgets
    <3>7. job'.next - 1 <= MaxMembers
      BY <3>1, <3>2, <3>3, Budgets
    <3> QED
      BY <3>4, <3>6, <3>7 DEF BudgetInv
  <2> QED
    BY <2>1, <2>2, <2>3, <2>4
<1>2. CASE ~ReadArchive
  <2>1. UNCHANGED disk /\ (job' = job \/ \E e \in Entries : OpenArchive(e) /\ job' = NewJob(e))
    BY <1>2, WalkJobs
  <2>2. CASE job' = job
    BY <2>1, <2>2 DEF BudgetInv, Packed
  <2>3. ASSUME NEW e \in Entries, job' = NewJob(e), job' # NoJob
        PROVE  BudgetInv'
    <3>1. job'.next = 1 /\ job'.total = 0
      BY <2>3, NewJobIsEmpty
    <3>2. Packed' \in Nat /\ MaxRatio * Packed' \in Nat
      <4>1. Leads'[job'.entry] \in Nodes /\ DiskInv'
        BY <2>3 DEF FilesInv, DiskInv
      <4>2. content' \in [Nodes -> FileContent]
        BY <4>1 DEF DiskInv
      <4>3. \A c \in FileContent : c.packed \in Nat
        BY DEF FileContent
      <4>4. Packed' \in Nat
        BY <4>1, <4>2, <4>3 DEF Packed
      <4> QED
        BY <4>4, Products, Budgets
    <3>3. \A n \in Nat : 0 <= n
      OBVIOUS
    <3>4. 0 <= MaxRatio * Packed'
      BY <3>2, <3>3
    <3> QED
      BY <3>1, <3>4, Budgets DEF BudgetInv
  <2> QED
    BY <2>1, <2>2, <2>3 DEF BudgetInv
<1> QED
  BY <1>1, <1>2

LEMMA BudgetAlways == Spec => [](TypeInv /\ BudgetInv)
<1>1. Init => BudgetInv
  BY DEF Init, FileInit, BudgetInv
<1>2. TypeInv /\ TypeInv' /\ BudgetInv /\ [Next]_vars => BudgetInv'
  <2> SUFFICES ASSUME TypeInv, TypeInv', BudgetInv, [Next]_vars PROVE BudgetInv'
    OBVIOUS
  <2>1. CASE Scan
    BY <2>1, BudgetStep DEF Scan, TypeInv
  <2>2. CASE UNCHANGED fileVars
    BY <2>2 DEF BudgetInv, Packed, fileVars
  <2>3. Scan \/ UNCHANGED fileVars
    BY DEF Next, vars, Finish, Push, Notify, Send, Exit, Report
  <2> QED
    BY <2>1, <2>2, <2>3
<1> QED
  BY <1>1, <1>2, TypeInit, TypeStep, PTL DEF Spec

\* No archive is read beyond its budgets, whatever its members declare.
THEOREM ArchivesAllWithinBudget == Spec => []ArchiveWithinBudget
<1>1. TypeInv /\ BudgetInv => ArchiveWithinBudget
  <2> SUFFICES ASSUME TypeInv, BudgetInv, job # NoJob
               PROVE  Cardinality(job.queue) <= MaxMembers
    BY DEF ArchiveWithinBudget, BudgetInv, Packed
  <2>1. job.next \in Nat /\ job.next >= 1 /\ job.queue \subseteq 1..(job.next - 1)
    BY JobFacts DEF TypeInv
  <2>2. IsFiniteSet(1..(job.next - 1)) /\ Cardinality(1..(job.next - 1)) = job.next - 1
    <3>1. 1 \in Int /\ job.next - 1 \in Int
      BY <2>1
    <3>2. /\ IsFiniteSet(1..(job.next - 1))
          /\ Cardinality(1..(job.next - 1))
                = IF 1 > job.next - 1 THEN 0 ELSE (job.next - 1) - 1 + 1
      BY <3>1, FS_Interval
    <3> QED
      BY <2>1, <3>2
  <2>3. Cardinality(job.queue) <= job.next - 1 /\ Cardinality(job.queue) \in Nat
    BY <2>1, <2>2, FS_Subset, FS_CardinalityType
  <2>4. job.next - 1 <= MaxMembers
    BY DEF BudgetInv
  <2> QED
    BY <2>1, <2>3, <2>4, Budgets
<1> QED
  BY <1>1, BudgetAlways, PTL

-----------------------------------------------------------------------------
(* The sink.                                                               *)

\* What is at a key is a finding of the session that belongs there; what a push has
\* written, or ended with, has a row at its key.
SinkInv ==
    /\ \A k \in Keys : sink[k] # NoRow => sink[k] \in saved /\ KeyOf[sink[k]] = k
    /\ \A f \in echoed : f \in Findings /\ sink[KeyOf[f]] # NoRow
    /\ \A p \in Pushers : push[p] # NoPush =>
           /\ push[p].rows \subseteq saved /\ push[p].todo \subseteq push[p].rows
           /\ \A f \in push[p].rows \ push[p].todo : sink[KeyOf[f]] # NoRow

LEMMA FindingsHaveKeys == \A f \in Findings : KeyOf[f] \in Keys /\ f # NoRow
BY DeliveryAssumption

\* Findings are added, and nothing else happens to the sink.
LEMMA SinkFrame ==
    ASSUME SinkInv, saved \subseteq saved', UNCHANGED <<sink, echoed, push>>
    PROVE  SinkInv'
BY DEF SinkInv

LEMMA FindingsGrow == ASSUME FileNext PROVE saved \subseteq saved'
BY DEF FileNext, StartFiles, NoRoot, Leave, EndWalk, Enter, PassBy, Skip, Deny, Mismatch, Query,
       SampleFile, OpenArchive, Fail, ReadArchive, Exceed, PassMember, Queue, SampleMember,
       LoseMember, CrashMember, EndListing, Extract, SampleMembers, rows

\* A push that ends, well or not, or moves on without writing.
LEMMA PushFrame ==
    ASSUME TypeInv, SinkInv, NEW p \in Pushers, NEW new,
           push' = [push EXCEPT ![p] = new], UNCHANGED <<sink, saved>>,
           \A f \in echoed' : f \in Findings /\ sink[KeyOf[f]] # NoRow,
           \/ new = NoPush
           \/ /\ new.rows \subseteq saved /\ new.todo \subseteq new.rows
              /\ \A f \in new.rows \ new.todo : sink[KeyOf[f]] # NoRow
    PROVE  SinkInv'
<1>1. push'[p] = new /\ \A q \in Pushers : q # p => push'[q] = push[q]
  BY DEF TypeInv, DeliveryInv
<1> QED
  BY <1>1 DEF SinkInv

LEMMA PutRowsKeepsSink ==
    ASSUME TypeInv, SinkInv, NEW p \in Pushers, PutRows(p), saved' = saved
    PROVE  SinkInv'
<1>1. /\ push[p] # NoPush /\ push[p] \in Plan /\ push \in [Pushers -> Plan \cup {NoPush}]
      /\ sink \in [Keys -> Findings \cup {NoRow}] /\ saved \subseteq Findings /\ echoed' = echoed
  BY PlansAreTyped DEF PutRows, TypeInv, DeliveryInv, DeliveryTypeOK, FilesInv
<1>2. PICK S \in Portions(p) : Writes(S) /\ push' = [push EXCEPT ![p].todo = @ \ S]
  BY DEF PutRows
<1>3. S \subseteq push[p].todo /\ S \subseteq Findings /\ S \subseteq saved
  BY <1>1, PortionsAreRows DEF TypeInv, SinkInv
<1>4. PICK row \in [Keys -> S \cup {NoRow}] :
        /\ \A k \in Keys : IF Sharing(S, k) = {} THEN row[k] = NoRow
                           ELSE row[k] \in Sharing(S, k)
        /\ sink' = [k \in Keys |-> IF row[k] = NoRow \/ Kept(k) THEN sink[k] ELSE row[k]]
  BY <1>2, <1>3, WritesRows
<1>5. \A k \in Keys : sink'[k] = sink[k] \/ (sink'[k] = row[k] /\ row[k] \in Sharing(S, k))
  BY <1>4
<1>6. \A k \in Keys : sink'[k] # NoRow => sink'[k] \in saved /\ KeyOf[sink'[k]] = k
  BY <1>3, <1>5 DEF SinkInv, Sharing
<1>7. \A k \in Keys : sink[k] # NoRow => sink'[k] # NoRow
  BY <1>3, <1>5, FindingsHaveKeys DEF Sharing
<1>8. \A f \in S : sink'[KeyOf[f]] # NoRow
  <2> SUFFICES ASSUME NEW f \in S PROVE sink'[KeyOf[f]] # NoRow
    OBVIOUS
  <2>1. KeyOf[f] \in Keys /\ f \in Sharing(S, KeyOf[f])
    BY <1>3, FindingsHaveKeys DEF Sharing
  <2>2. row[KeyOf[f]] \in Sharing(S, KeyOf[f])
    BY <1>4, <2>1
  <2>3. row[KeyOf[f]] # NoRow
    BY <1>3, <2>2, FindingsHaveKeys DEF Sharing
  <2>4. CASE Kept(KeyOf[f])
    BY <1>7, <2>1, <2>4 DEF Kept
  <2>5. CASE ~Kept(KeyOf[f])
    BY <1>4, <2>1, <2>3, <2>5
  <2> QED
    BY <2>4, <2>5
<1>9. /\ push'[p].rows = push[p].rows /\ push'[p].todo = push[p].todo \ S
      /\ \A q \in Pushers : q # p => push'[q] = push[q]
  BY <1>1, <1>2 DEF Plan
<1>10. push[p].rows \subseteq Findings /\ \A q \in Pushers : push[q] # NoPush => push[q].rows \subseteq Findings
  BY <1>1 DEF Plan, SinkInv
<1>11. \A q \in Pushers : push'[q] # NoPush =>
          /\ push'[q].rows \subseteq saved /\ push'[q].todo \subseteq push'[q].rows
          /\ \A f \in push'[q].rows \ push'[q].todo : sink'[KeyOf[f]] # NoRow
  <2> SUFFICES ASSUME NEW q \in Pushers, push'[q] # NoPush
               PROVE  /\ push'[q].rows \subseteq saved /\ push'[q].todo \subseteq push'[q].rows
                      /\ \A f \in push'[q].rows \ push'[q].todo : sink'[KeyOf[f]] # NoRow
    OBVIOUS
  <2>1. CASE q = p
    BY <1>1, <1>7, <1>8, <1>9, <1>10, <2>1, FindingsHaveKeys DEF SinkInv
  <2>2. CASE q # p
    BY <1>7, <1>9, <1>10, <2>2, FindingsHaveKeys DEF SinkInv
  <2> QED
    BY <2>1, <2>2
<1>12. \A f \in echoed' : f \in Findings /\ sink'[KeyOf[f]] # NoRow
  BY <1>1, <1>7, FindingsHaveKeys DEF SinkInv
<1> QED
  BY <1>6, <1>11, <1>12 DEF SinkInv

LEMMA SinkStep ==
    ASSUME TypeInv, SinkInv, [Next]_vars
    PROVE  SinkInv'
<1> USE DEF fileVars, sinkVars, noteVars
<1>0. saved \subseteq Findings
  BY DEF TypeInv, FilesInv
<1>1. CASE Scan
  BY <1>1, FindingsGrow, SinkFrame DEF Scan
<1>2. CASE Finish \/ Notify \/ Send \/ Exit \/ UNCHANGED vars
  <2>1. UNCHANGED <<sink, echoed, push, saved>>
    BY <1>2 DEF Finish, Notify, StartNote, Send, NoteStep, RecordOperators, RecordTenant, Record,
                SendOk, SendLost, SendRefused, SendCut, Exit, vars
  <2> QED
    BY <2>1, SinkFrame
<1>3. ASSUME NEW p \in Pushers, Report(p)
      PROVE  SinkInv'
  <2> DEFINE new == [rows |-> saved, todo |-> saved, stage |-> "session"]
  <2>1. UNCHANGED <<sink, saved, echoed>>
    BY <1>3 DEF Report, BeginPush
  <2>2. new.rows \subseteq saved /\ new.todo \subseteq new.rows /\ new.rows \ new.todo = {}
    OBVIOUS
  <2>3. push' = push \/ push' = [push EXCEPT ![p] = new]
    BY <1>3 DEF Report, BeginPush
  <2> HIDE DEF new
  <2>4. CASE push' = push
    BY <2>1, <2>4, SinkFrame
  <2>5. CASE push' = [push EXCEPT ![p] = new]
    BY <2>1, <2>2, <2>5, PushFrame DEF SinkInv
  <2> QED
    BY <2>3, <2>4, <2>5
<1>4. ASSUME NEW p \in Pushers, Push, PutRows(p)
      PROVE  SinkInv'
  BY <1>4, PutRowsKeepsSink DEF Push
<1>5. ASSUME NEW p \in Pushers, Push, PutSession(p)
      PROVE  SinkInv'
  <2> DEFINE new == [push[p] EXCEPT !.stage = "rows"]
  <2>1. push[p] # NoPush /\ push' = [push EXCEPT ![p] = new] /\ UNCHANGED <<sink, saved, echoed>>
    BY <1>5 DEF PutSession, Push
  <2>2. new.rows = push[p].rows /\ new.todo = push[p].todo
    BY <2>1, PlansAreTyped DEF TypeInv, Plan
  <2> HIDE DEF new
  <2> QED
    BY <2>1, <2>2, PushFrame DEF SinkInv
<1>6. ASSUME NEW p \in Pushers, Push, FailPush(p)
      PROVE  SinkInv'
  BY <1>6, PushFrame DEF FailPush, Push, SinkInv
<1>7. ASSUME NEW p \in Pushers, Push, EndPush(p)
      PROVE  SinkInv'
  <2>1. /\ push[p] # NoPush /\ push[p].todo = {} /\ echoed' = echoed \cup push[p].rows
        /\ push' = [push EXCEPT ![p] = NoPush] /\ UNCHANGED <<sink, saved>>
    BY <1>7 DEF EndPush, Push
  <2>2. \A f \in echoed' : f \in Findings /\ sink[KeyOf[f]] # NoRow
    BY <1>0, <2>1 DEF SinkInv
  <2> QED
    BY <2>1, <2>2, PushFrame
<1>8. Push => \E p \in Pushers : PutRows(p) \/ PutSession(p) \/ FailPush(p) \/ EndPush(p)
  BY DEF Push, PushStep
<1> QED
  BY <1>1, <1>2, <1>3, <1>4, <1>5, <1>6, <1>7, <1>8 DEF Next

LEMMA SinkAlways == Spec => [](TypeInv /\ SinkInv)
<1>1. Init => SinkInv
  BY DEF Init, DeliveryInit, SinkInv
<1> QED
  BY <1>1, TypeInit, TypeStep, SinkStep, PTL DEF Spec

\* Pushes that overlap or fail never undo one that ended well.
THEOREM EveryPlaceEchoed == Spec => []EchoCoversEveryPlace
<1>1. SinkInv => EchoCoversEveryPlace
  BY DEF SinkInv, EchoCoversEveryPlace
<1> QED
  BY <1>1, SinkAlways, PTL
-----------------------------------------------------------------------------
(* The walk gets everywhere.                                               *)

FileLike(e) == Kind[e] = "file" \/ (Kind[e] = "link" /\ Inside[e] /\ Leads[e] \in Nodes)

\* What is left of an entry that the walk has taken: its directory or file is seen.
Taken(e) ==
    /\ Recursive /\ Kind[e] = "dir" => Leads[e] \in seenDirs
    /\ FileLike(e) => Leads[e] \in seenFiles

OnStack(d) == \E i \in 1..Len(stack) : stack[i] = d

WalkInv ==
    /\ \A d \in Dirs : left[d] \subseteq EntriesOf(d)
    /\ outcome = "queued" => seenDirs = {} /\ seenFiles = {} /\ job = NoJob /\ stack = <<>>
    /\ outcome \in {"running", "done"} => Root \in seenDirs
    /\ outcome = "done" => stack = <<>> /\ job = NoJob
    /\ \A i \in 1..Len(stack) : stack[i] \in seenDirs
    /\ \A d \in seenDirs : left[d] # {} => OnStack(d)
    /\ \A d \in seenDirs \ torn : \A e \in EntriesOf(d) : e \in left[d] \/ Taken(e)

LEMMA ListingsOf ==
    \A d : \A S \in Listings(d) : S \subseteq EntriesOf(d) /\ (d \notin torn => S = EntriesOf(d))
BY DEF Listings

\* A step that leaves the walk and sees no file anew.
LEMMA WalkFrame ==
    ASSUME WalkInv, UNCHANGED <<walk, torn>>,
           \/ outcome' = outcome /\ outcome = "running"
           \/ outcome' = "error"
    PROVE  WalkInv'
BY DEF WalkInv, walk, Taken, OnStack, EntriesOf

\* The walk takes an entry of the directory it is in.
LEMMA TakeKeepsWalk ==
    ASSUME FilesInv, WalkInv, NEW e \in Entries, Comes(e),
           left' = [left EXCEPT ![In[e]] = @ \ {e}], stack' = stack, seenDirs' = seenDirs,
           seenFiles \subseteq seenFiles', torn' = torn, outcome' \in {outcome, "error"},
           Taken(e)'
    PROVE  WalkInv'
<1>1. /\ stack \in Seq(Dirs) /\ stack # <<>> /\ e \in left[Head(stack)] /\ outcome = "running"
      /\ left \in [Dirs -> SUBSET Entries] /\ In[e] \in Dirs
  BY FileScanAssumption DEF Comes, Walking, FilesInv, FilesTypeOK
<1>2. Head(stack) = stack[1] /\ 1 \in 1..Len(stack) /\ stack[1] \in Dirs
  BY <1>1
<1>3. In[e] = stack[1]
  BY <1>1, <1>2 DEF WalkInv, EntriesOf
<1>4. /\ left'[In[e]] = left[In[e]] \ {e} /\ \A d \in Dirs : d # In[e] => left'[d] = left[d]
  BY <1>1
<1>5. seenDirs \subseteq Dirs
  BY DEF FilesInv, FilesTypeOK
<1>6. \A d \in Dirs : left'[d] \subseteq EntriesOf(d)
  BY <1>4 DEF WalkInv
<1>7. \A d \in seenDirs : left'[d] # {} => OnStack(d)
  BY <1>2, <1>3, <1>4, <1>5 DEF WalkInv, OnStack
<1>8. \A d \in seenDirs \ torn : \A x \in EntriesOf(d) : x \in left'[d] \/ Taken(x)'
  <2> SUFFICES ASSUME NEW d \in seenDirs \ torn, NEW x \in EntriesOf(d), x \notin left'[d], x # e
               PROVE  Taken(x)'
    OBVIOUS
  <2>1. x \notin left[d]
    BY <1>4, <1>5
  <2>2. Taken(x)
    BY <2>1 DEF WalkInv
  <2> QED
    BY <2>2 DEF Taken
<1>9. Root \in seenDirs
  BY <1>1 DEF WalkInv
<1> QED
  BY <1>1, <1>6, <1>7, <1>8, <1>9 DEF WalkInv, OnStack, EntriesOf

LEMMA EnterKeepsWalk ==
    ASSUME FilesInv, WalkInv, NEW e \in Entries, Enter(e)
    PROVE  WalkInv'
<1> USE DEF disk, rows
<1>1. /\ stack \in Seq(Dirs) /\ stack # <<>> /\ e \in left[Head(stack)] /\ outcome = "running"
      /\ left \in [Dirs -> SUBSET Entries] /\ In[e] \in Dirs /\ Leads[e] \in Dirs
      /\ Kind[e] = "dir" /\ Recursive /\ Leads[e] \notin seenDirs
  BY FileScanAssumption DEF Enter, Comes, Walking, Enters, FilesInv, FilesTypeOK
<1>2. Head(stack) = stack[1] /\ Len(stack) \in Nat /\ 1 \in 1..Len(stack) /\ stack[1] \in Dirs
  BY <1>1
<1>3. In[e] = stack[1] /\ In[e] \in seenDirs /\ In[e] # Leads[e]
  BY <1>1, <1>2 DEF WalkInv, EntriesOf
<1>4. PICK S \in Listings(Leads[e]) :
        left' = [left EXCEPT ![In[e]] = @ \ {e}, ![Leads[e]] = S]
  BY DEF Enter
<1>5. /\ left'[In[e]] = left[In[e]] \ {e} /\ left'[Leads[e]] = S
      /\ \A d \in Dirs : d \notin {In[e], Leads[e]} => left'[d] = left[d]
  BY <1>1, <1>3, <1>4
<1>6. /\ stack' = <<Leads[e]>> \o stack /\ seenDirs' = seenDirs \cup {Leads[e]}
      /\ UNCHANGED <<torn, seenFiles, job, outcome>>
  BY DEF Enter
<1>7. seenDirs \subseteq Dirs /\ S \subseteq EntriesOf(Leads[e])
      /\ (Leads[e] \notin torn => S = EntriesOf(Leads[e]))
  BY ListingsOf DEF FilesInv, FilesTypeOK
<1>8. \A d \in Dirs : left'[d] \subseteq EntriesOf(d)
  BY <1>5, <1>7 DEF WalkInv
<1>9. /\ Len(stack') = Len(stack) + 1 /\ stack'[1] = Leads[e]
      /\ \A i \in 1..Len(stack) : stack'[i + 1] = stack[i]
  BY <1>1, <1>6
<1>10. \A i \in 1..Len(stack') : stack'[i] \in seenDirs'
  <2> SUFFICES ASSUME NEW i \in 1..Len(stack'), i # 1 PROVE stack'[i] \in seenDirs'
    BY <1>6, <1>9
  <2>1. i - 1 \in 1..Len(stack) /\ i = (i - 1) + 1
    BY <1>2, <1>9
  <2> QED
    BY <1>6, <1>9, <2>1 DEF WalkInv
<1>11. \A d \in seenDirs : OnStack(d) => OnStack(d)'
  <2> SUFFICES ASSUME NEW i \in 1..Len(stack) PROVE \E j \in 1..Len(stack') : stack'[j] = stack[i]
    BY DEF OnStack
  <2>1. i + 1 \in 1..Len(stack')
    BY <1>2, <1>9
  <2> QED
    BY <1>9, <2>1
<1>12. \A d \in seenDirs' : left'[d] # {} => OnStack(d)'
  <2>1. OnStack(Leads[e])'
    <3>1. 1 \in 1..Len(stack')
      BY <1>2, <1>9
    <3> QED
      BY <1>9, <3>1 DEF OnStack
  <2>2. \A d \in seenDirs : left'[d] # {} => OnStack(d)
    BY <1>1, <1>3, <1>5, <1>7 DEF WalkInv
  <2> QED
    BY <1>6, <1>11, <2>1, <2>2
<1>13. \A d \in seenDirs' \ torn : \A x \in EntriesOf(d) : x \in left'[d] \/ Taken(x)'
  <2> SUFFICES ASSUME NEW d \in seenDirs' \ torn, NEW x \in EntriesOf(d), x \notin left'[d]
               PROVE  Taken(x)'
    OBVIOUS
  <2>1. d # Leads[e] /\ d \in seenDirs
    BY <1>5, <1>6, <1>7
  <2>2. CASE x = e
    BY <1>1, <1>6, <2>2 DEF Taken, FileLike
  <2>3. CASE x # e
    <3>1. x \notin left[d]
      BY <1>5, <1>7, <2>1, <2>3
    <3>2. Taken(x)
      BY <2>1, <3>1 DEF WalkInv
    <3> QED
      BY <1>6, <3>2 DEF Taken
  <2> QED
    BY <2>2, <2>3
<1> QED
  BY <1>1, <1>6, <1>8, <1>10, <1>12, <1>13 DEF WalkInv, EntriesOf

LEMMA LeaveKeepsWalk ==
    ASSUME FilesInv, WalkInv, Leave
    PROVE  WalkInv'
<1> USE DEF disk, rows
<1>1. /\ stack \in Seq(Dirs) /\ stack # <<>> /\ left[Head(stack)] = {} /\ outcome = "running"
      /\ stack' = Tail(stack) /\ UNCHANGED <<left, seenDirs, seenFiles, torn, job, outcome>>
  BY DEF Leave, Walking, FilesInv, FilesTypeOK
<1>2. /\ Len(stack) \in Nat /\ Len(stack') = Len(stack) - 1 /\ Head(stack) = stack[1]
      /\ \A i \in 1..Len(stack') : stack'[i] = stack[i + 1]
  BY <1>1
<1>3. \A i \in 1..Len(stack') : i + 1 \in 1..Len(stack)
  BY <1>2
<1>4. \A d \in seenDirs : left[d] # {} => OnStack(d)'
  <2> SUFFICES ASSUME NEW d \in seenDirs, left[d] # {} PROVE \E j \in 1..Len(stack') : stack'[j] = d
    BY DEF OnStack
  <2>1. PICK i \in 1..Len(stack) : stack[i] = d
    BY DEF WalkInv, OnStack
  <2>2. i # 1
    BY <1>1, <1>2, <2>1
  <2>3. i - 1 \in 1..Len(stack') /\ (i - 1) + 1 = i
    BY <1>2, <2>2
  <2> QED
    BY <1>2, <2>1, <2>3
<1>5. \A i \in 1..Len(stack') : stack'[i] \in seenDirs
  BY <1>2, <1>3 DEF WalkInv
<1> QED
  BY <1>1, <1>4, <1>5 DEF WalkInv, Taken, EntriesOf

LEMMA WalkStep ==
    ASSUME FilesInv, WalkInv, FileNext
    PROVE  WalkInv'
<1> USE DEF disk, rows, walk
<1>1. CASE StartFiles
  <2>1. /\ seenDirs = {} /\ seenFiles = {} /\ job = NoJob /\ outcome' = "running"
        /\ stack' = <<Root>> /\ seenDirs' = {Root} /\ UNCHANGED <<seenFiles, torn, job>>
    BY <1>1 DEF StartFiles, WalkInv
  <2>2. PICK S \in Listings(Root) : left' = [left EXCEPT ![Root] = S]
    BY <1>1 DEF StartFiles
  <2>3. /\ left'[Root] = S /\ \A d \in Dirs : d # Root => left'[d] = left[d]
        /\ S \subseteq EntriesOf(Root) /\ (Root \notin torn => S = EntriesOf(Root))
    BY <2>2, FileScanAssumption, ListingsOf DEF FilesInv, FilesTypeOK
  <2>4. Len(stack') = 1 /\ stack'[1] = Root /\ 1 \in 1..1
    BY <2>1
  <2>5. \A d \in Dirs : left'[d] \subseteq EntriesOf(d)
    BY <2>3 DEF WalkInv
  <2>6. OnStack(Root)' /\ \A i \in 1..Len(stack') : stack'[i] \in seenDirs'
    BY <2>1, <2>4 DEF OnStack
  <2> QED
    BY <2>1, <2>3, <2>5, <2>6 DEF WalkInv, EntriesOf
<1>2. CASE NoRoot
  BY <1>2, WalkFrame DEF NoRoot
<1>3. CASE EndWalk
  BY <1>3 DEF EndWalk, Walking, WalkInv, OnStack, Taken, EntriesOf
<1>4. CASE ReadArchive
  <2>1. outcome = "running"
    BY <1>4 DEF ReadArchive, Exceed, PassMember, Queue, SampleMember, LoseMember, CrashMember,
                EndListing, Extract, ReadsMember, Examines, Reading
  <2> QED
    BY <1>4, <2>1, ArchiveSteps, WalkFrame
<1>5. ASSUME NEW e \in Entries, PassBy(e)
      PROVE  WalkInv'
  <2>1. Taken(e)'
    BY <1>5 DEF PassBy, Taken, FileLike, Enters, Fresh
  <2> QED
    BY <1>5, <2>1, TakeKeepsWalk DEF PassBy
<1>6. ASSUME NEW e \in Entries, Yield(e),
             Skip(e) \/ Deny(e) \/ Mismatch(e) \/ Query(e) \/ SampleFile(e) \/ OpenArchive(e)
      PROVE  WalkInv'
  <2>1. Taken(e)'
    BY <1>6 DEF Yield, Taken, FileLike, Fresh
  <2>2. outcome' \in {outcome, "error"}
    BY <1>6 DEF Skip, Deny, Mismatch, Query, SampleFile, OpenArchive, Fail
  <2> QED
    BY <1>6, <2>1, <2>2, TakeKeepsWalk DEF Yield
<1>7. \A e \in Entries :
        Skip(e) \/ Deny(e) \/ Mismatch(e) \/ Query(e) \/ SampleFile(e) \/ OpenArchive(e) => Yield(e)
  BY DEF Skip, Deny, Mismatch, Query, SampleFile, OpenArchive
<1> QED
  BY <1>1, <1>2, <1>3, <1>4, <1>5, <1>6, <1>7, EnterKeepsWalk, LeaveKeepsWalk DEF FileNext

\* When the walk is over, every file that it must meet is seen.
LEMMA WalkGetsEverywhere ==
    ASSUME FilesInv, WalkInv, outcome = "done", NEW n \in Nodes, Met(n) # {}
    PROVE  n \in seenFiles
<1>1. \A d \in seenDirs \ torn : \A e \in EntriesOf(d) : Taken(e)
  <2>1. stack = <<>>
    BY DEF WalkInv
  <2>2. \A d : ~OnStack(d)
    BY <2>1 DEF OnStack
  <2> QED
    BY <2>2 DEF WalkInv
<1>2. Closed(seenDirs)
  BY <1>1 DEF WalkInv, Closed, EntriesOf, Taken
<1>3. seenDirs \in SUBSET Dirs
  BY DEF FilesInv, FilesTypeOK
<1>4. Reached \subseteq seenDirs
  BY <1>2, <1>3 DEF Reached
<1>5. PICK e \in Names(n) : In[e] \in Reached \ torn
  BY DEF Met
<1>6. e \in Entries /\ FileLike(e) /\ Leads[e] = n
  BY <1>5 DEF Names, FileLike
<1>7. Taken(e)
  BY <1>1, <1>4, <1>5, <1>6 DEF EntriesOf
<1> QED
  BY <1>6, <1>7 DEF Taken
-----------------------------------------------------------------------------
(* Nothing that is sensitive goes unmentioned.                             *)

\* The premises of FilesAccountedFor about the names of a file.
Plain(n) ==
    \A e \in Names(n) : /\ ext[e] = content[n].format /\ InScope(e) /\ ext[e] # "gz"
                        /\ ext[e] = "sqlite" => ScanSqlite

\* The job will still come to the part i of the file n.
Coming(n, i) ==
    /\ job # NoJob /\ Leads[job.entry] = n
    /\ i \in job.queue \/ (~job.listed /\ i >= job.next)

Accounted(n) == \A i \in Telling(n) : (\E e \in Names(n) : Mentioned(e, i)) \/ Coming(n, i)

JobInv ==
    job # NoJob =>
        /\ job.entry \in Names(Leads[job.entry])
        /\ job.queue # {} => Type = "7z"

AccountInv ==
    /\ JobInv
    /\ outcome # "error" => \A n \in seenFiles : Plain(n) => Accounted(n)

LEMMA FailureFields ==
    \A e, i, r : /\ Failure(e, i, r).entry = e /\ Failure(e, i, r).part = i
                 /\ Failure(e, i, r).reason = r
BY DEF Failure

LEMMA DiskStays ==
    ASSUME UNCHANGED disk
    PROVE  \A n : /\ Telling(n)' = Telling(n) /\ Plain(n)' = Plain(n)
BY DEF disk, Telling, Plain, InScope, IsArchive, Names

LEMMA MentionsStay ==
    ASSUME saved \subseteq saved', failed \subseteq failed'
    PROVE  \A e, i : Mentioned(e, i) => Mentioned(e, i)'
BY DEF Mentioned

\* What Mentioned says of the next state.
LEMMA MentionedNow ==
    ASSUME NEW e, NEW i, NEW r,
           \/ Place(e, i) \in saved'
           \/ Failure(e, Whole, r) \in failed' \/ Failure(e, i, r) \in failed'
           \/ \E j \in Nat : j <= i /\ Failure(e, j, "archive_budget_exceeded") \in failed'
    PROVE  Mentioned(e, i)'
<1>1. CASE Place(e, i) \in saved'
  BY <1>1 DEF Mentioned
<1>2. CASE Failure(e, Whole, r) \in failed'
  BY <1>2, FailureFields DEF Mentioned
<1>3. CASE Failure(e, i, r) \in failed'
  BY <1>3, FailureFields DEF Mentioned
<1>4. ASSUME NEW j \in Nat, j <= i, Failure(e, j, "archive_budget_exceeded") \in failed'
      PROVE  Mentioned(e, i)'
  BY <1>4, FailureFields DEF Mentioned
<1> QED
  BY <1>1, <1>2, <1>3, <1>4

\* A part that tells is there, and its text can be had or is locked.
LEMMA TellingParts ==
    ASSUME FilesInv, NEW n \in Nodes, NEW i \in Telling(n)
    PROVE  /\ content[n].format = "doc" =>
                 /\ i = Whole /\ content[n].parts[1].text \in {"ok", "locked"}
                 /\ Sensitive(Set, content[n].parts[1].tells)
           /\ content[n].format # "doc" =>
                 /\ i \in DOMAIN content[n].parts /\ i \in Nat /\ i >= 1
                 /\ content[n].parts[i].wanted /\ content[n].parts[i].size <= MaxInner
                 /\ content[n].parts[i].text \in {"ok", "locked"}
                 /\ Sensitive(Set, content[n].parts[i].tells)
                 /\ content[n].opens # "garbled"
                 /\ content[n].format = "sqlite" =>
                       \A j \in 1..i : content[n].parts[j].reads = "ok"
                 /\ content[n].format \in {"tar", "zip"} =>
                       \A j \in 1..i : Takes(content[n].parts[j]) =>
                           content[n].parts[j].reads \notin EndsAt[content[n].format]
                 /\ content[n].format = "7z" => content[n].parts[i].reads # "absent"
<1> DEFINE c == content[n]
<1>1. /\ DOMAIN c.parts = 1..Len(c.parts) /\ Len(c.parts) \in Nat
      /\ \A j \in DOMAIN c.parts : c.parts[j] \in FilePart
      /\ c.format = "doc" => Len(c.parts) = 1
  BY PartsOfNodes DEF FilesInv
<1>2. \A j \in DOMAIN c.parts : c.parts[j].text \in {"ok", "locked", "garbled"}
  BY <1>1 DEF FilePart
<1>3. CASE c.format = "doc"
  <2>1. 1 \in DOMAIN c.parts
    <3>1. Len(c.parts) = 1
      BY <1>1, <1>3
    <3>2. 1 \in 1..Len(c.parts)
      BY <3>1
    <3> QED
      BY <1>1, <3>2
  <2>2. i = Whole /\ c.parts[1].text # "garbled" /\ Sensitive(Set, c.parts[1].tells)
    BY <1>3 DEF Telling
  <2> QED
    BY <1>2, <1>3, <2>1, <2>2
<1>4. CASE c.format # "doc"
  <2>1. /\ i \in DOMAIN c.parts /\ c.parts[i].wanted /\ c.parts[i].size <= MaxInner
        /\ c.parts[i].text # "garbled" /\ Sensitive(Set, c.parts[i].tells)
        /\ c.opens # "garbled"
        /\ c.format = "sqlite" => \A j \in 1..i : c.parts[j].reads = "ok"
        /\ c.format \in {"tar", "zip"} =>
               \A j \in 1..i : Takes(c.parts[j]) => c.parts[j].reads \notin EndsAt[c.format]
        /\ c.format = "7z" => c.parts[i].reads # "absent"
    BY <1>4 DEF Telling
  <2>2. i \in Nat /\ i >= 1
    BY <1>1, <2>1
  <2> QED
    BY <1>2, <1>4, <2>1, <2>2
<1> QED
  BY <1>3, <1>4

LEMMA TextThatTells ==
    ASSUME NEW p, p.text = "ok", Sensitive(Set, p.tells)
    PROVE  Tells(p)
BY DEF Tells

LEMMA YieldAccounts ==
    ASSUME FilesInv, NEW e \in Entries,
           Skip(e) \/ Deny(e) \/ Mismatch(e) \/ Query(e) \/ SampleFile(e) \/ OpenArchive(e),
           outcome' # "error", Plain(Leads[e]), e \in Names(Leads[e]), Leads[e] \in Nodes,
           NEW i \in Telling(Leads[e])
    PROVE  Mentioned(e, i)' \/ Coming(Leads[e], i)'
<1> DEFINE c == content[Leads[e]]
<1>1. ext[e] = c.format /\ InScope(e) /\ ext[e] # "gz" /\ (ext[e] = "sqlite" => ScanSqlite)
  BY DEF Plain
<1>2. ASSUME NEW r, Fail(e, r) PROVE Mentioned(e, i)'
  <2>1. Failure(e, Whole, r) \in failed'
    BY <1>2 DEF Fail
  <2> QED
    BY <2>1, MentionedNow
<1>3. CASE Skip(e)
  BY <1>1, <1>3 DEF Skip
<1>4. CASE Deny(e) \/ Mismatch(e)
  BY <1>2, <1>4 DEF Deny, Mismatch
<1>5. CASE Query(e)
  <2>1. c.format = "sqlite" /\ saved' = saved \cup {Place(e, j) : j \in Columns(e)}
    BY <1>1, <1>5 DEF Query
  <2>2. /\ i \in DOMAIN c.parts /\ c.parts[i].text \in {"ok", "locked"}
        /\ Sensitive(Set, c.parts[i].tells) /\ \A j \in 1..i : c.parts[j].reads = "ok"
    BY <2>1, TellingParts
  <2>3. c.parts[i].text = "ok"
    BY <2>1, <2>2, PartsOfNodes DEF FilesInv
  <2>4. i \in Columns(e)
    BY <2>1, <2>2, <2>3, TextThatTells DEF Columns, Parts
  <2>5. Place(e, i) \in saved'
    BY <2>1, <2>4
  <2> QED
    BY <2>5, MentionedNow
<1>6. CASE SampleFile(e)
  <2>1. ext[e] = "doc" /\ c.format = "doc"
    BY <1>1, <1>6 DEF SampleFile
  <2>2. /\ i = Whole /\ c.parts[1].text \in {"ok", "locked"}
        /\ Sensitive(Set, c.parts[1].tells) /\ Text(e) = c.parts[1]
    BY <2>1, TellingParts DEF Text, Parts
  <2>3. CASE c.parts[1].text = "ok"
    <3>1. Tells(Text(e))
      BY <2>2, <2>3, TextThatTells
    <3>2. Place(e, i) \in saved'
      BY <1>6, <2>2, <3>1 DEF SampleFile
    <3> QED
      BY <3>2, MentionedNow
  <2>4. CASE c.parts[1].text = "locked"
    <3>1. Failure(e, Whole, "barrier") \in failed'
      BY <1>6, <2>2, <2>4 DEF SampleFile
    <3> QED
      BY <3>1, MentionedNow
  <2> QED
    BY <2>2, <2>3, <2>4
<1>7. CASE OpenArchive(e)
  <2>1. c.format # "doc" /\ IsArchive(e)
    BY <1>1, <1>7 DEF OpenArchive, IsArchive, ArchiveTypes
  <2>2. i \in Nat /\ i >= 1 /\ c.opens # "garbled"
    BY <2>1, TellingParts
  <2>3. Opens(e) # "garbled"
    BY <1>1, <2>2 DEF Opens
  <2>4. CASE Fail(e, "archive_unsupported") \/ Fail(e, "encrypted_no_password")
    BY <1>2, <2>4
  <2>5. CASE job' = NewJob(e)
    <3>1. NewJob(e) \in Jobs /\ NewJob(e).entry = e /\ NewJob(e).next = 1 /\ ~NewJob(e).listed
      BY DEF NewJob, Jobs
    <3>2. NewJob(e) # NoJob
      BY <3>1, FileScanAssumption
    <3> QED
      BY <2>2, <2>5, <3>1, <3>2 DEF Coming
  <2> QED
    BY <1>1, <1>7, <2>3, <2>4, <2>5 DEF OpenArchive
<1> QED
  BY <1>3, <1>4, <1>5, <1>6, <1>7

LEMMA ArchiveAccounts ==
    ASSUME FilesInv, JobInv, ReadArchive, outcome' # "error", job # NoJob,
           NEW e \in Entries, e = job.entry,
           NEW n \in Nodes, n = Leads[e], Plain(n),
           NEW i \in Telling(n), Coming(n, i)
    PROVE  Mentioned(e, i)' \/ Coming(n, i)'
<1> USE DEF rows
<1>1. /\ job \in Jobs /\ e \in Entries /\ IsArchive(e) /\ job.next \in Nat /\ job.next >= 1
      /\ DOMAIN Parts(e) = 1..Len(Parts(e)) /\ Len(Parts(e)) \in Nat
      /\ job.next <= Len(Parts(e)) + 1 /\ job.queue \subseteq 1..(job.next - 1)
  BY JobFacts
<1>2. ext[e] = content[n].format /\ ext[e] \in ArchiveTypes /\ ext[e] # "gz" /\ e \in Names(n)
  BY <1>1 DEF JobInv, Plain, IsArchive
<1>3. /\ i \in DOMAIN Parts(e) /\ i \in Nat /\ i >= 1 /\ Member(i).wanted
      /\ Member(i).size <= MaxInner /\ Member(i).text \in {"ok", "locked"}
      /\ Sensitive(Set, Member(i).tells)
      /\ Type \in {"tar", "zip"} =>
             \A j \in 1..i : Takes(Member(j)) => Member(j).reads \notin EndsAt[Type]
      /\ Type = "7z" => Member(i).reads # "absent"
  <2>1. content[n].format # "doc"
    BY <1>2 DEF ArchiveTypes
  <2>2. Type = content[n].format /\ Parts(e) = content[n].parts
        /\ \A j : Member(j) = content[n].parts[j]
    BY <1>2 DEF Type, Member, Parts
  <2>3. /\ i \in DOMAIN content[n].parts /\ i \in Nat /\ i >= 1
        /\ content[n].parts[i].wanted /\ content[n].parts[i].size <= MaxInner
        /\ content[n].parts[i].text \in {"ok", "locked"}
        /\ Sensitive(Set, content[n].parts[i].tells)
        /\ content[n].format \in {"tar", "zip"} =>
              \A j \in 1..i : Takes(content[n].parts[j]) =>
                  content[n].parts[j].reads \notin EndsAt[content[n].format]
        /\ content[n].format = "7z" => content[n].parts[i].reads # "absent"
    BY <2>1, TellingParts
  <2> QED
    BY <2>2, <2>3, Zenon
<1>4. i \in job.queue \/ (~job.listed /\ i >= job.next)
  BY DEF Coming
<1>5. i \in job.queue => Type = "7z"
  BY DEF JobInv
<1>6. ASSUME i \in job'.queue \/ (~job'.listed /\ i >= job'.next),
             job' \in Jobs, job'.entry = job.entry
      PROVE  Coming(n, i)'
  BY <1>6, FileScanAssumption DEF Coming
<1>7. ASSUME NEW I, NEW J, SampleMembers(I, J), i \in I
      PROVE  Mentioned(e, i)'
  <2>1. CASE Member(i).text = "ok"
    <3>1. Tells(Member(i))
      BY <1>3, <2>1, TextThatTells
    <3>2. Place(e, i) \in saved'
      BY <1>7, <3>1 DEF SampleMembers
    <3> QED
      BY <3>2, MentionedNow
  <2>2. CASE Member(i).text = "locked"
    <3>1. Failure(e, i, "barrier") \in failed'
      BY <1>7, <2>2 DEF SampleMembers
    <3> QED
      BY <3>1, MentionedNow
  <2> QED
    BY <1>3, <2>1, <2>2
<1>8. CASE Exceed
  <2>1. Failure(e, job.next, "archive_budget_exceeded") \in failed'
    BY <1>8 DEF Exceed
  <2>2. CASE i >= job.next
    BY <1>1, <2>1, <2>2, MentionedNow
  <2>3. CASE i \in job.queue
    <3>1. job' = [job EXCEPT !.listed = TRUE]
      BY <1>5, <1>8, <2>3 DEF Exceed
    <3>2. job' \in Jobs /\ job'.entry = job.entry /\ job'.queue = job.queue
      BY <1>1, <3>1 DEF Jobs
    <3> QED
      BY <1>6, <2>3, <3>2
  <2> QED
    BY <1>4, <2>2, <2>3
<1>9. ASSUME Advances, i \in job'.queue \/ i # job.next
      PROVE  Coming(n, i)'
  <2>1. /\ job' \in Jobs /\ job'.entry = job.entry /\ job'.next = job.next + 1
        /\ job'.listed = job.listed /\ job.queue \subseteq job'.queue
    BY <1>9, AdvanceFacts
  <2>2. i \in job'.queue \/ (~job'.listed /\ i >= job'.next)
    BY <1>1, <1>3, <1>4, <1>9, <2>1
  <2> QED
    BY <1>6, <2>1, <2>2
<1>10. Advance => job' = [job EXCEPT !.next = @ + 1, !.total = Total, !.queue = job.queue]
  BY <1>1 DEF Advance, Jobs
<1>11. CASE PassMember
  <2>1. Advances
    BY <1>10, <1>11 DEF PassMember, Advances
  <2>2. i # job.next
    BY <1>3, <1>11 DEF PassMember, Chosen, Takes
  <2> QED
    BY <1>9, <2>1, <2>2
<1>12. CASE Queue
  <2>1. Advances
    BY <1>12 DEF Queue, Advances
  <2>2. job'.queue = job.queue \cup {job.next}
    BY <1>1, <1>12 DEF Queue, Jobs
  <2> QED
    BY <1>9, <2>1, <2>2
<1>13. CASE SampleMember
  <2>1. Advances
    BY <1>10, <1>13 DEF SampleMember, ReadsMember, Advances
  <2>2. CASE i = job.next
    BY <1>7, <1>13, <2>2 DEF SampleMember
  <2> QED
    BY <1>9, <2>1, <2>2
<1>14. CASE LoseMember
  <2>1. Examines /\ ~OverBudget /\ Takes(Member(job.next)) /\ Type # "7z"
    BY <1>14 DEF LoseMember, ReadsMember, Chosen
  <2>2. CASE Member(job.next).reads \notin EndsAt[Type]
    <3>1. Advances /\ Failure(e, job.next, "unreadable") \in failed'
      BY <1>10, <1>14, <2>1, <2>2 DEF LoseMember, Advances, Unreadable
    <3>2. CASE i = job.next
      BY <3>1, <3>2, MentionedNow
    <3> QED
      BY <1>9, <3>1, <3>2
  <2>3. CASE Member(job.next).reads \in EndsAt[Type]
    <3>1. Type \in {"tar", "zip"}
      BY <1>2, <2>1 DEF Type, ArchiveTypes
    <3>2. job.next \in 1..i
      BY <1>1, <1>3, <1>4, <1>5, <2>1
    <3> QED
      BY <1>3, <2>1, <2>3, <3>1, <3>2
  <2> QED
    BY <2>2, <2>3
<1>15. ~CrashMember
  BY DEF CrashMember
<1>16. CASE EndListing
  <2>1. ~job.listed /\ job.next \notin DOMAIN Parts(e)
    BY <1>16 DEF EndListing
  <2>2. i \in job.queue
    BY <1>1, <1>3, <1>4, <2>1
  <2>3. job' = [job EXCEPT !.listed = TRUE]
    BY <1>5, <1>16, <2>2 DEF EndListing
  <2>4. job' \in Jobs /\ job'.entry = job.entry /\ job'.queue = job.queue
    BY <1>1, <2>3 DEF Jobs
  <2> QED
    BY <1>6, <2>2, <2>4
<1>17. CASE Extract
  <2>1. i \in job.queue
    BY <1>4, <1>17 DEF Extract
  <2>2. CASE /\ \A j \in job.queue : Member(j).reads \in {"ok", "broken", "absent"}
             /\ SampleMembers(Extracted("ok"), Extracted("broken"))
    <3>1. Member(i).reads \in {"ok", "broken"}
      BY <1>3, <1>5, <2>1, <2>2
    <3>2. CASE Member(i).reads = "ok"
      BY <1>7, <2>1, <2>2, <3>2 DEF Extracted
    <3>3. CASE Member(i).reads = "broken"
      <4>1. Failure(e, i, "unreadable") \in failed'
        BY <2>1, <2>2, <3>3 DEF SampleMembers, Extracted, Unreadable
      <4> QED
        BY <4>1, MentionedNow
    <3> QED
      BY <3>1, <3>2, <3>3
  <2>3. CASE Failure(e, Whole, "encrypted_no_password") \in failed'
    BY <2>3, MentionedNow
  <2>4. CASE failed' = failed \cup BatchLost
    <3>1. Failure(e, i, "unreadable") \in failed'
      BY <2>1, <2>4 DEF BatchLost, Unreadable
    <3> QED
      BY <3>1, MentionedNow
  <2> QED
    BY <1>17, <2>2, <2>3, <2>4 DEF Extract
<1> QED
  BY <1>8, <1>11, <1>12, <1>13, <1>14, <1>15, <1>16, <1>17 DEF ReadArchive

LEMMA FreshIsNamed ==
    ASSUME NEW e \in Entries, Yield(e)
    PROVE  Leads[e] \in Nodes /\ e \in Names(Leads[e])
BY FileScanAssumption DEF Yield, Fresh, Names

LEMMA RowsGrow ==
    ASSUME FileNext
    PROVE  saved \subseteq saved' /\ failed \subseteq failed' /\ UNCHANGED disk
<1> USE DEF rows, walk
<1>1. CASE ReadArchive
  BY <1>1 DEF ReadArchive, Exceed, PassMember, Queue, SampleMember, LoseMember, CrashMember,
              EndListing, Extract, ReadsMember, SampleMembers
<1>2. CASE StartFiles \/ NoRoot \/ Leave \/ EndWalk
  BY <1>2 DEF StartFiles, NoRoot, Leave, EndWalk
<1>3. ASSUME NEW e \in Entries, Enter(e) \/ PassBy(e)
      PROVE  saved \subseteq saved' /\ failed \subseteq failed' /\ UNCHANGED disk
  BY <1>3 DEF Enter, PassBy
<1>4. ASSUME NEW e \in Entries,
             Skip(e) \/ Deny(e) \/ Mismatch(e) \/ Query(e) \/ SampleFile(e) \/ OpenArchive(e)
      PROVE  saved \subseteq saved' /\ failed \subseteq failed' /\ UNCHANGED disk
  BY <1>4 DEF Skip, Deny, Mismatch, Query, SampleFile, OpenArchive, Fail, Yield
<1> QED
  BY <1>1, <1>2, <1>3, <1>4 DEF FileNext

LEMMA JobStep ==
    ASSUME FilesInv, JobInv, FileNext
    PROVE  JobInv'
<1> USE DEF rows, walk
<1>1. UNCHANGED disk
  BY RowsGrow
<1>2. ASSUME job' # NoJob => job'.entry \in Names(Leads[job'.entry]) /\ (job'.queue # {} => ext[job'.entry] = "7z")
      PROVE  JobInv'
  BY <1>1, <1>2 DEF JobInv, Names, Type, disk
<1>3. CASE UNCHANGED job
  BY <1>2, <1>3 DEF JobInv, Type
<1>4. CASE job' = NoJob
  BY <1>2, <1>4
<1>5. ASSUME NEW e \in Entries, OpenArchive(e), job' = NewJob(e)
      PROVE  JobInv'
  BY <1>2, <1>5, FreshIsNamed DEF OpenArchive, NewJob
<1>6. CASE ReadArchive
  <2>1. job # NoJob /\ job \in Jobs
    BY <1>6, ArchiveSteps, JobFacts
  <2>2. ASSUME job'.entry = job.entry, job'.queue = job.queue PROVE JobInv'
    BY <1>2, <2>1, <2>2 DEF JobInv, Type
  <2>3. CASE Queue
    <3>1. job'.entry = job.entry /\ Type = "7z"
      BY <1>6, <2>1, <2>3 DEF Queue, Jobs
    <3> QED
      BY <1>2, <2>1, <3>1 DEF JobInv, Type
  <2>4. CASE Advance \/ job' = [job EXCEPT !.listed = TRUE]
    BY <2>1, <2>2, <2>4 DEF Advance, Jobs
  <2>5. Queue \/ Advance \/ job' = [job EXCEPT !.listed = TRUE] \/ job' = NoJob
    BY <1>6 DEF ReadArchive, Exceed, PassMember, SampleMember, LoseMember, CrashMember,
                EndListing, Extract
  <2> QED
    BY <1>4, <2>3, <2>4, <2>5
<1>7. \/ UNCHANGED job \/ job' = NoJob \/ ReadArchive
      \/ \E e \in Entries : OpenArchive(e) /\ job' = NewJob(e)
  BY DEF FileNext, StartFiles, NoRoot, Leave, EndWalk, Enter, PassBy, Skip, Deny, Mismatch, Query,
         SampleFile, OpenArchive, Fail
<1> QED
  BY <1>3, <1>4, <1>5, <1>6, <1>7

LEMMA AccountStep ==
    ASSUME FilesInv, WalkInv, AccountInv, FileNext
    PROVE  AccountInv'
<1> USE DEF rows, walk
<1>1. JobInv' /\ JobInv
  BY JobStep DEF AccountInv
<1>2. /\ saved \subseteq saved' /\ failed \subseteq failed' /\ UNCHANGED disk
      /\ \A e, i : Mentioned(e, i) => Mentioned(e, i)'
  BY RowsGrow, MentionsStay
<1>3. \A n : Telling(n)' = Telling(n) /\ Plain(n)' = Plain(n) /\ Names(n)' = Names(n)
  BY <1>2, DiskStays DEF Names
<1> SUFFICES ASSUME outcome' # "error", NEW n \in seenFiles', Plain(n), NEW i \in Telling(n)
             PROVE  (\E e \in Names(n) : Mentioned(e, i)') \/ Coming(n, i)'
  BY <1>1, <1>3 DEF AccountInv, Accounted
<1>4. n \in seenFiles /\ outcome # "error" => (\E e \in Names(n) : Mentioned(e, i)') \/ Coming(n, i)
  BY <1>2 DEF AccountInv, Accounted
<1>5. ASSUME n \in seenFiles, outcome # "error", UNCHANGED job
      PROVE  (\E e \in Names(n) : Mentioned(e, i)') \/ Coming(n, i)'
  BY <1>4, <1>5 DEF Coming
<1>6. CASE StartFiles \/ NoRoot \/ Leave \/ EndWalk \/ \E e \in Entries : Enter(e) \/ PassBy(e)
  <2>1. UNCHANGED <<seenFiles, job>> /\ outcome # "error"
    BY <1>6 DEF StartFiles, NoRoot, Leave, EndWalk, Enter, PassBy, Comes, Walking
  <2> QED
    BY <1>5, <2>1
<1>7. ASSUME NEW e \in Entries,
             Skip(e) \/ Deny(e) \/ Mismatch(e) \/ Query(e) \/ SampleFile(e) \/ OpenArchive(e)
      PROVE  (\E x \in Names(n) : Mentioned(x, i)') \/ Coming(n, i)'
  <2>1. Yield(e)
    BY <1>7 DEF Skip, Deny, Mismatch, Query, SampleFile, OpenArchive
  <2>2. /\ Leads[e] \in Nodes /\ e \in Names(Leads[e]) /\ job = NoJob /\ outcome = "running"
        /\ seenFiles' = seenFiles \cup {Leads[e]}
    BY <2>1, FreshIsNamed, YieldFacts DEF Yield
  <2>3. CASE n = Leads[e]
    BY <1>7, <2>2, <2>3, YieldAccounts
  <2>4. CASE n \in seenFiles
    BY <1>4, <2>2, <2>4 DEF Coming
  <2> QED
    BY <2>2, <2>3, <2>4
<1>8. CASE ReadArchive
  <2>1. job # NoJob /\ n \in seenFiles /\ outcome # "error" /\ job.entry \in Names(Leads[job.entry])
    <3>1. outcome = "running"
      BY <1>8 DEF ReadArchive, Exceed, PassMember, Queue, SampleMember, LoseMember, CrashMember,
                  EndListing, Extract, ReadsMember, Examines, Reading
    <3> QED
      BY <1>1, <1>8, <3>1, ArchiveSteps DEF JobInv
  <2>2. CASE Coming(n, i)
    <3>1. n = Leads[job.entry] /\ n \in Nodes /\ job.entry \in Entries
      BY <2>1, <2>2, JobFacts DEF Coming
    <3>2. \A e \in Entries : e = job.entry => Mentioned(e, i)' \/ Coming(n, i)'
      BY <1>1, <1>8, <2>1, <2>2, <3>1, ArchiveAccounts
    <3> QED
      BY <2>1, <3>1, <3>2
  <2> QED
    BY <1>4, <2>1, <2>2
<1> QED
  BY <1>6, <1>7, <1>8 DEF FileNext

ScanInv == TypeInv /\ WalkInv /\ AccountInv

LEMMA ScanInvStep ==
    ASSUME ScanInv, [Next]_vars
    PROVE  ScanInv'
<1>1. TypeInv'
  BY TypeStep DEF ScanInv
<1>2. CASE Scan
  BY <1>1, <1>2, WalkStep, AccountStep DEF Scan, ScanInv, TypeInv
<1>3. CASE UNCHANGED fileVars
  BY <1>1, <1>3 DEF fileVars, ScanInv, WalkInv, AccountInv, JobInv, Type, Taken, OnStack, FileLike,
         EntriesOf, Plain, Accounted, InScope, IsArchive, Names, Telling, Coming, Mentioned
<1>4. Scan \/ UNCHANGED fileVars
  BY DEF Next, Finish, Push, Notify, Send, Exit, Report, vars
<1> QED
  BY <1>2, <1>3, <1>4

LEMMA ScanInvAlways == Spec => []ScanInv
<1>1. Init => ScanInv
  <2> SUFFICES ASSUME Init PROVE ScanInv
    OBVIOUS
  <2>1. TypeInv
    BY TypeInit
  <2>2. /\ stack = <<>> /\ left = [d \in Dirs |-> {}] /\ seenDirs = {} /\ seenFiles = {}
        /\ job = NoJob /\ outcome = "queued"
    BY DEF Init, FileInit
  <2>3. WalkInv
    BY <2>2 DEF WalkInv, OnStack
  <2>4. AccountInv
    BY <2>2 DEF AccountInv, JobInv
  <2> QED
    BY <2>1, <2>3, <2>4 DEF ScanInv
<1> QED
  BY <1>1, ScanInvStep, PTL DEF Spec

\* A scan that ends regularly found what is sensitive, or recorded where it could not
\* look: iter_scan_files, FilesystemConnector.run and iter_archive_members together.
THEOREM AllFilesAccountedFor == Spec => []FilesAccountedFor
<1>1. ScanInv => FilesAccountedFor
  <2> SUFFICES ASSUME ScanInv, outcome = "done", NEW n \in Nodes, Met(n) # {}, Plain(n),
                      NEW i \in Telling(n)
               PROVE  \E e \in Names(n) : Mentioned(e, i)
    BY DEF FilesAccountedFor, Plain
  <2>1. n \in seenFiles /\ job = NoJob
    BY WalkGetsEverywhere DEF ScanInv, TypeInv, WalkInv
  <2>2. Accounted(n)
    BY <2>1 DEF ScanInv, AccountInv
  <2> QED
    BY <2>1, <2>2 DEF Accounted, Coming
<1> QED
  BY <1>1, ScanInvAlways, PTL

-----------------------------------------------------------------------------
(* The classification of a text, for any patterns, evidence and settings.  *)

\* Whatever integers stand in the configuration file, the detector works with
\* settings in range.
Raw == [medium : Int, fuzzy : BOOLEAN, fuzzyMin : Int, fuzzyMax : Int, fuzzyRatio : Int,
        hint : BOOLEAN, hintMin : Int, hintMax : Int, hintSimilarity : Int, format : BOOLEAN]

THEOREM CleanSettings == \A raw \in Raw : Clean(raw) \in Settings
<1> SUFFICES ASSUME NEW raw \in Raw PROVE Clean(raw) \in Settings
  OBVIOUS
<1>1. /\ Clamp(1, 69, raw.medium) \in 1..69
      /\ Clamp(0, 100, raw.fuzzyMin) \in Percent /\ Clamp(0, 100, raw.fuzzyMax) \in Percent
      /\ Clamp(50, 100, raw.fuzzyRatio) \in 50..100
      /\ Clamp(0, 100, raw.hintMin) \in Percent /\ Clamp(0, 100, raw.hintMax) \in Percent
      /\ Clamp(50, 100, raw.hintSimilarity) \in 50..100
  <2>1. /\ raw.medium \in Int /\ raw.fuzzyMin \in Int /\ raw.fuzzyMax \in Int
        /\ raw.fuzzyRatio \in Int /\ raw.hintMin \in Int /\ raw.hintMax \in Int
        /\ raw.hintSimilarity \in Int
    BY DEF Raw
  <2> QED
    BY <2>1 DEF Clamp, Larger, Lesser, Percent
<1> QED
  BY <1>1, ZenonT(40) DEF Clean, Raw, Settings

-----------------------------------------------------------------------------

LEMMA ConfidenceType ==
    ASSUME NEW e \in Evidence
    PROVE  Confidence(e) \in Percent
BY DEF Confidence, Larger, Evidence, Percent

\* A pattern that counts is never lost on the way to a level, whatever context
\* lowers it.
THEOREM PatternsAreKept ==
    \A s \in Settings, e \in Evidence : Found(e) # {} => Sensitive(s, e)
BY DEF Sensitive, Level, Verdict, Result

\* Data that may be a child's is HIGH: no lyrics, no weak pattern and no model
\* score takes it down.
THEOREM MinorsAreHigh ==
    \A s \in Settings, e \in Evidence : e.minor => Level(s, e) = "HIGH"
BY DEF Level, Verdict, Result

\* The score that a report sorts by agrees with the level.
THEOREM HighMeansSeventy ==
    \A s \in Settings, e \in Evidence : Level(s, e) = "HIGH" => Verdict(s, e).score \in 70..100
<1> SUFFICES ASSUME NEW s \in Settings, NEW e \in Evidence, Level(s, e) = "HIGH"
             PROVE  Verdict(s, e).score \in 70..100
  OBVIOUS
<1>1. Confidence(e) \in Percent
  BY ConfidenceType
<1> QED
  BY <1>1 DEF Level, Verdict, Result, Larger, Lesser, Percent

-----------------------------------------------------------------------------
(* A surer model never lowers the level.                                   *)

\* What does not depend on the models.
LEMMA SameText ==
    ASSUME NEW e \in Evidence, NEW f \in Evidence, Surer(e, f)
    PROVE  /\ Found(f) = Found(e)
           /\ f.entertainment = e.entertainment /\ f.minor = e.minor /\ f.declared = e.declared
           /\ f.ambiguous = e.ambiguous /\ f.typed = e.typed
           /\ f.ratio = e.ratio /\ f.similarity = e.similarity
<1>1. /\ f.matches = e.matches /\ f.valid = e.valid /\ f.rust = e.rust /\ f.hits = e.hits
      /\ f.entertainment = e.entertainment /\ f.minor = e.minor /\ f.declared = e.declared
      /\ f.ambiguous = e.ambiguous /\ f.typed = e.typed
      /\ f.ratio = e.ratio /\ f.similarity = e.similarity
  BY DEF Surer, Evidence
<1>2. Found(f) = Found(e)
  BY <1>1 DEF Found, RustHits, PythonOnly, Counts
<1> QED
  BY <1>1, <1>2

LEMMA LargerGrows ==
    \A a, b, c, d \in 0..100 :
        c >= a /\ d >= b =>
            /\ Larger(c, d) >= Larger(a, b)
            /\ Larger(0, Larger(c, d) - 25) >= Larger(0, Larger(a, b) - 25)
BY DEF Larger

LEMMA SurerConfidence ==
    ASSUME NEW e \in Evidence, NEW f \in Evidence, Surer(e, f)
    PROVE  Confidence(f) >= Confidence(e)
<1>1. e.ml \in 0..100 /\ e.dl \in 0..100 /\ f.ml \in 0..100 /\ f.dl \in 0..100
  BY DEF Evidence, Percent
<1>2. f.ml >= e.ml /\ f.dl >= e.dl
  BY DEF Surer
<1>3. f.entertainment = e.entertainment
  BY SameText
<1>4. /\ Larger(f.ml, f.dl) >= Larger(e.ml, e.dl)
      /\ Larger(0, Larger(f.ml, f.dl) - 25) >= Larger(0, Larger(e.ml, e.dl) - 25)
  BY <1>1, <1>2, LargerGrows
<1> QED
  BY <1>3, <1>4 DEF Confidence

\* Where no pattern, minor or declared term decides, the level is one of the score.
LEMMA LevelByScore ==
    ASSUME NEW s \in Settings, NEW e \in Evidence,
           Found(e) = {}, ~e.minor, e.entertainment \/ ~e.declared
    PROVE  /\ Level(s, e) \in {"LOW", "MEDIUM", "HIGH"}
           /\ Level(s, e) = "HIGH" <=> /\ Confidence(e) >= 70
                                      /\ ~e.ambiguous /\ ~e.entertainment
           /\ Level(s, e) = "LOW" <=> /\ Confidence(e) < s.medium
                                     /\ ~FuzzyLifts(s, e) /\ ~HintLifts(s, e)
                                     /\ ~(s.format /\ e.typed)
<1>1. Confidence(e) \in 0..100 /\ s.medium \in 1..69
  BY ConfidenceType DEF Settings, Percent
<1>2. FuzzyLifts(s, e) => Confidence(e) < 70
  <2>1. s.fuzzyMax \in 0..100
    BY DEF Settings, Percent
  <2>2. FuzzyTop(s) < 70
    BY <1>1, <2>1 DEF FuzzyTop, Clamp, Larger, Lesser
  <2>3. s.fuzzyMin \in Int /\ FuzzyTop(s) \in Int
    BY <1>1, <2>1 DEF FuzzyTop, Clamp, Larger, Lesser, Settings, Percent
  <2> QED
    BY <1>1, <2>2, <2>3 DEF FuzzyLifts
<1>3. HintLifts(s, e) => Confidence(e) < 70
  <2>1. s.hintMax \in 0..100 /\ s.hintMin \in 0..100
    BY DEF Settings, Percent
  <2>2. HintTop(s) \in Int /\ HintTop(s) < 70
    BY <1>1, <2>1 DEF HintTop, Lesser
  <2> QED
    BY <1>1, <2>1, <2>2 DEF HintLifts
<1>4. e.entertainment \in BOOLEAN /\ e.ambiguous \in BOOLEAN /\ e.minor \in BOOLEAN
      /\ e.declared \in BOOLEAN /\ e.typed \in BOOLEAN /\ s.format \in BOOLEAN
  BY DEF Evidence, Settings
<1> QED
  BY <1>1, <1>2, <1>3, <1>4, SMTT(30) DEF Level, Verdict, Result

\* Between a lift and MEDIUM there is no hole.
LEMMA NoHole ==
    ASSUME NEW s \in Settings, Gapless(s), NEW e \in Evidence, NEW f \in Evidence, Surer(e, f),
           FuzzyLifts(s, e) \/ HintLifts(s, e), Confidence(f) < s.medium
    PROVE  FuzzyLifts(s, f) \/ HintLifts(s, f)
<1>1. /\ Confidence(e) \in 0..100 /\ Confidence(f) \in 0..100 /\ s.medium \in 1..69
      /\ s.fuzzyMax \in 0..100 /\ s.fuzzyMin \in 0..100
      /\ s.hintMax \in 0..100 /\ s.hintMin \in 0..100
  BY ConfidenceType DEF Settings, Percent
<1>2. Confidence(f) >= Confidence(e) /\ f.ratio = e.ratio /\ f.similarity = e.similarity
  BY SurerConfidence, SameText
<1>3. CASE FuzzyLifts(s, e)
  <2>1. s.fuzzy /\ s.fuzzyMax >= s.medium - 1
    BY <1>3 DEF FuzzyLifts, Gapless
  <2>2. FuzzyTop(s) \in Int /\ FuzzyTop(s) >= s.medium - 1
    BY <1>1, <2>1 DEF FuzzyTop, Clamp, Larger, Lesser
  <2> QED
    BY <1>1, <1>2, <1>3, <2>2, SMTT(30) DEF FuzzyLifts
<1>4. CASE HintLifts(s, e)
  <2>1. s.hint /\ s.hintMax >= s.medium - 1
    BY <1>4 DEF HintLifts, Gapless
  <2>2. HintTop(s) \in Int /\ HintTop(s) >= s.medium - 1
    BY <1>1, <2>1 DEF HintTop, Lesser
  <2> QED
    BY <1>1, <1>2, <1>4, <2>2, SMTT(30) DEF HintLifts
<1> QED
  BY <1>3, <1>4

\* When the bands of the elevations reach up to MEDIUM, as by default, more
\* confidence of the models never gives a text a lower level: the early returns for
\* ambiguous names, elevations and entertainment leave no dip.
THEOREM SurerIsNotLower ==
    \A s \in Settings, e \in Evidence, f \in Evidence :
        Gapless(s) /\ Surer(e, f) => Severity[Level(s, e)] <= Severity[Level(s, f)]
<1> SUFFICES ASSUME NEW s \in Settings, NEW e \in Evidence, NEW f \in Evidence,
                    Gapless(s), Surer(e, f)
             PROVE  Severity[Level(s, e)] <= Severity[Level(s, f)]
  OBVIOUS
<1>1. /\ Found(f) = Found(e)
      /\ f.entertainment = e.entertainment /\ f.minor = e.minor /\ f.declared = e.declared
      /\ f.ambiguous = e.ambiguous /\ f.typed = e.typed
  BY SameText
<1>2. CASE Found(e) # {} \/ e.minor \/ (~e.entertainment /\ e.declared)
  <2>1. Level(s, e) \in {"MEDIUM", "HIGH"} /\ Level(s, f) = Level(s, e)
    BY <1>1, <1>2 DEF Level, Verdict, Result
  <2> QED
    BY <2>1 DEF Severity
<1>3. CASE Found(e) = {} /\ ~e.minor /\ (e.entertainment \/ ~e.declared)
  <2>1. Confidence(e) \in 0..100 /\ Confidence(f) \in 0..100 /\ s.medium \in 1..69
    BY ConfidenceType DEF Settings, Percent
  <2>2. Confidence(f) >= Confidence(e)
    BY SurerConfidence
  <2>3. Level(s, e) = "HIGH" => Level(s, f) = "HIGH"
    BY <1>1, <1>3, <2>1, <2>2, LevelByScore
  <2>4. Level(s, f) = "LOW" => Level(s, e) = "LOW"
    BY <1>1, <1>3, <2>1, <2>2, LevelByScore, NoHole, SMTT(30)
  <2>5. Level(s, e) \in {"LOW", "MEDIUM", "HIGH"} /\ Level(s, f) \in {"LOW", "MEDIUM", "HIGH"}
    BY <1>1, <1>3, LevelByScore
  <2> QED
    BY <2>3, <2>4, <2>5 DEF Severity
<1> QED
  BY <1>2, <1>3
=============================================================================
