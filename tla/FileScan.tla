------------------------------- MODULE FileScan -------------------------------
(***************************************************************************)
(* A filesystem target: the walk (iter_scan_files), the loop of            *)
(* FilesystemConnector.run over what it yields, and the archives found on  *)
(* the way (scan_archive_at_path, iter_archive_members).                   *)
(*                                                                         *)
(* Entries are names in directories; several may lead to one node (hard    *)
(* links, symbolic links), whose content is a record                       *)
(*   format   "doc", "sqlite", or the type its magic bytes say             *)
(*   opens    is the container whole: "ok", "garbled", "locked" or "crash" *)
(*   parts    the members, or columns; a document has one                  *)
(*   packed   its size on disk                                             *)
(* and a part is a record                                                  *)
(*   size     as declared                                                  *)
(*   wanted   is its extension scanned?                                    *)
(*   reads    how the container gives it out: as opens, or "broken" (the   *)
(*            read is an I/O error) or "absent" (a 7z extracts all but it) *)
(*   text     "ok", "locked" (a read barrier) or "garbled" (no text)       *)
(*   tells    the evidence in its name and text                            *)
(*   named    the evidence in its name alone                               *)
(* The tree does not change during the scan; renamed files (use_content_   *)
(* type), rich media and the audit log are left out.                       *)
(***************************************************************************)
EXTENDS Detection, Sequences, FiniteSets

CONSTANTS
    Dirs, Root, Nodes, Entries,
    In,             \* the directory of an entry
    Kind,           \* "file", "dir" or "link"
    Leads,          \* its node or directory
    Inside,         \* does the link's target lie under the root?
    Recursive, ScanCompressed, ScanSqlite,
    MaxMembers, MaxTotal, MaxRatio, MaxInner,
    Has7z,          \* is py7zr installed?
    Set,            \* the detector's settings
    NoJob

ArchiveTypes == {"zip", "tar", "7z", "gz"}
Ways == {"ok", "garbled", "locked", "crash"}
Reads == Ways \cup {"broken", "absent"}

FilePart ==
    [size : Nat, wanted : BOOLEAN, reads : Reads, text : {"ok", "locked", "garbled"},
     tells : Evidence, named : Evidence]

Extensions == ArchiveTypes \cup {"doc", "sqlite", "other"}

\* A document has one part, and a column no read barrier: one that cannot be
\* queried gives no text.
FileContent ==
    {c \in [format : Extensions, opens : Ways, packed : Nat, parts : Seq(FilePart)] :
        /\ c.format = "doc" => Len(c.parts) = 1
        /\ c.format = "sqlite" => \A i \in DOMAIN c.parts :
               c.parts[i].text # "locked" /\ c.parts[i].reads \in {"ok", "crash"}
        /\ c.format # "7z" => \A i \in DOMAIN c.parts : c.parts[i].reads # "absent"}

\* The files that a scan may find.
DiskOK(w) ==
    /\ w.ext \in [Entries -> Extensions] /\ w.content \in [Nodes -> FileContent]
    /\ w.denied \subseteq Nodes /\ w.torn \subseteq Dirs

\* The members passed so far, their sizes, and what a 7z has queued.
Jobs == [entry : Entries, next : Nat, total : Nat, queue : SUBSET Nat, listed : BOOLEAN]

ASSUME FileScanAssumption ==
    /\ Root \in Dirs /\ In \in [Entries -> Dirs]
    /\ Kind \in [Entries -> {"file", "dir", "link"}]
    /\ \A e \in Entries : Kind[e] # "link" => Leads[e] \in IF Kind[e] = "dir" THEN Dirs ELSE Nodes
    /\ Inside \in [Entries -> BOOLEAN]
    /\ {MaxMembers, MaxTotal, MaxRatio, MaxInner} \subseteq Nat
    /\ Set \in Settings /\ NoJob \notin Jobs

VARIABLES
    ext,        \* of an entry: "doc", "sqlite", "other" or an archive type
    content,    \* what the nodes hold
    denied,     \* nodes that os.access refuses
    torn,       \* directories that scandir cannot list to the end
    stack,      \* the directories being walked, the innermost first
    left,       \* of each, the entries still to come
    seenDirs, seenFiles,
    job,        \* the archive being read
    saved,      \* the findings
    known,      \* entries with a row in object_states
    failed,     \* scan_failures: which entry and part, and why
    outcome     \* "queued", "running", "done", or "error": a row for the target

fileVars == <<ext, content, denied, torn, stack, left, seenDirs, seenFiles, job, saved,
              known, failed, outcome>>
disk  == <<ext, content, denied, torn>>
walk  == <<stack, left, seenDirs, seenFiles>>
rows  == <<saved, known, failed>>

EntriesOf(d) == {e \in Entries : In[e] = d}

Whole == 0      \* the part that stands for the file itself

Place(e, i)      == [entry |-> e, part |-> i]
Reasons ==
    {"permission_denied", "barrier", "unreadable", "archive_type_mismatch",
     "archive_unsupported", "archive_budget_exceeded", "encrypted_no_password"}
Failure(e, i, r) == [entry |-> e, part |-> i, reason |-> r]

FileInit(w) ==
    /\ ext = w.ext /\ content = w.content /\ denied = w.denied /\ torn = w.torn
    /\ stack = <<>> /\ left = [d \in Dirs |-> {}]
    /\ seenDirs = {} /\ seenFiles = {}
    /\ job = NoJob /\ saved = {} /\ known = {} /\ failed = {}
    /\ outcome = "queued"

-----------------------------------------------------------------------------
(* The walk.                                                               *)

\* scandir gives every entry of d, or some and then an error.
Listings(d) == IF d \in torn THEN SUBSET EntriesOf(d) ELSE {EntriesOf(d)}

\* run: the root is there ...
StartFiles ==
    /\ outcome = "queued"
    /\ stack' = <<Root>> /\ seenDirs' = {Root}
    /\ \E S \in Listings(Root) : left' = [left EXCEPT ![Root] = S]
    /\ outcome' = "running"
    /\ UNCHANGED <<disk, seenFiles, job, rows>>

\* ... or it is not, or is no directory.
NoRoot ==
    /\ outcome = "queued"
    /\ outcome' = "error"
    /\ UNCHANGED <<disk, walk, job, rows>>

Walking  == outcome = "running" /\ job = NoJob
Comes(e) == Walking /\ stack # <<>> /\ e \in left[Head(stack)]

\* A regular file, or a link to one below the root, whose inode is new.
Fresh(e) ==
    /\ \/ Kind[e] = "file"
       \/ Kind[e] = "link" /\ Inside[e] /\ Leads[e] \in Nodes
    /\ Leads[e] \notin seenFiles

Enters(e) == Recursive /\ Kind[e] = "dir" /\ Leads[e] \notin seenDirs

\* _walk_dir of a subdirectory.
Enter(e) ==
    /\ Comes(e) /\ Enters(e)
    /\ \E S \in Listings(Leads[e]) : left' = [left EXCEPT ![In[e]] = @ \ {e}, ![Leads[e]] = S]
    /\ stack' = <<Leads[e]>> \o stack
    /\ seenDirs' = seenDirs \cup {Leads[e]}
    /\ UNCHANGED <<disk, seenFiles, job, rows, outcome>>

\* A directory seen before, a directory link, a link to outside, another name.
PassBy(e) ==
    /\ Comes(e) /\ ~Enters(e) /\ ~Fresh(e)
    /\ left' = [left EXCEPT ![In[e]] = @ \ {e}]
    /\ UNCHANGED <<disk, stack, seenDirs, seenFiles, job, rows, outcome>>

Leave ==
    /\ Walking /\ stack # <<>> /\ left[Head(stack)] = {}
    /\ stack' = Tail(stack)
    /\ UNCHANGED <<disk, left, seenDirs, seenFiles, job, rows, outcome>>

EndWalk ==
    /\ Walking /\ stack = <<>>
    /\ outcome' = "done"
    /\ UNCHANGED <<disk, walk, job, rows>>

\* The walk yields e.
Yield(e) ==
    /\ Comes(e) /\ Fresh(e)
    /\ left' = [left EXCEPT ![In[e]] = @ \ {e}]
    /\ seenFiles' = seenFiles \cup {Leads[e]}
    /\ UNCHANGED <<disk, stack, seenDirs>>

-----------------------------------------------------------------------------
(* The loop of run over the files that the walk yields.                    *)

IsArchive(e) == ScanCompressed /\ ext[e] \in ArchiveTypes
InScope(e)   == IsArchive(e) \/ ext[e] \in {"doc", "sqlite"}
Readable(e)  == InScope(e) /\ Leads[e] \notin denied
Parts(e)     == content[Leads[e]].parts

\* detect_archive_type: extension and magic agree; a tar has no magic.
Detected(e) == ext[e] = "tar" \/ content[Leads[e]].format = ext[e]

\* _read_text_sample gives the text, or "" and perhaps a barrier; scan_file_content
\* takes the name with it.
Tells(p) == Sensitive(Set, IF p.text = "ok" THEN p.tells ELSE p.named)

Skip(e) ==
    /\ Yield(e) /\ ~InScope(e)
    /\ UNCHANGED <<job, rows, outcome>>

Fail(e, reason) ==
    /\ failed' = failed \cup {Failure(e, Whole, reason)}
    /\ UNCHANGED <<job, saved, known, outcome>>

Deny(e)     == Yield(e) /\ InScope(e) /\ ~Readable(e) /\ Fail(e, "permission_denied")
Mismatch(e) == Yield(e) /\ Readable(e) /\ IsArchive(e) /\ ~Detected(e)
               /\ Fail(e, "archive_type_mismatch")

\* _scan_sqlite_file_as_db: column by column, up to an error outside a column.
Columns(e) ==
    {i \in DOMAIN Parts(e) :
        /\ content[Leads[e]].format = "sqlite"
        /\ \A j \in 1..i : Parts(e)[j].reads # "crash"
        /\ Tells(Parts(e)[i])}

Query(e) ==
    /\ Yield(e) /\ Readable(e) /\ ext[e] = "sqlite" /\ ScanSqlite
    /\ saved' = saved \cup {Place(e, i) : i \in Columns(e)}
    /\ UNCHANGED <<job, known, failed, outcome>>

\* What is not a document gives no text.
Text(e) ==
    IF ext[e] = "doc" /\ content[Leads[e]].format = "doc" THEN Parts(e)[1]
    ELSE [Parts(e)[1] EXCEPT !.text = "garbled"]

SampleFile(e) ==
    /\ Yield(e) /\ Readable(e)
    /\ ext[e] = "doc" \/ (ext[e] = "sqlite" /\ ~ScanSqlite)
    /\ failed' = IF Text(e).text = "locked"
                 THEN failed \cup {Failure(e, Whole, "barrier")} ELSE failed
    /\ IF Tells(Text(e))
       THEN saved' = saved \cup {Place(e, Whole)} /\ known' = known \cup {e}
       ELSE UNCHANGED <<saved, known>>
    /\ UNCHANGED <<job, outcome>>

-----------------------------------------------------------------------------
(* Archives.                                                               *)

\* What opening says; any file may be called a tar.
Opens(e) ==
    IF ext[e] = "tar" /\ content[Leads[e]].format # "tar" THEN "garbled"
    ELSE content[Leads[e]].opens

NewJob(e) == [entry |-> e, next |-> 1, total |-> 0, queue |-> {}, listed |-> FALSE]

\* Single compressed files are not looked into; a broken container ends silently.
OpenArchive(e) ==
    /\ Yield(e) /\ Readable(e) /\ IsArchive(e) /\ Detected(e)
    /\ IF ext[e] = "7z" /\ ~Has7z THEN Fail(e, "archive_unsupported")
       ELSE IF ext[e] = "gz" \/ Opens(e) = "garbled" THEN UNCHANGED <<job, rows, outcome>>
       ELSE IF Opens(e) = "locked" THEN Fail(e, "encrypted_no_password")
       ELSE IF Opens(e) = "crash" THEN outcome' = "error" /\ UNCHANGED <<job, rows>>
       ELSE job' = NewJob(e) /\ UNCHANGED <<rows, outcome>>

Reading   == outcome = "running" /\ job # NoJob
Type      == ext[job.entry]
Member(i) == Parts(job.entry)[i]
Total     == job.total + Member(job.next).size

\* Mutant of OverBudget: the sizes are not added up.
OverMember == job.next > MaxMembers \/ Member(job.next).size > MaxTotal

\* _after_examine, before a byte of the member is read.
OverBudget ==
    \/ job.next > MaxMembers
    \/ Total > MaxTotal
    \/ /\ content[Leads[job.entry]].packed > 0
       /\ Total > MaxRatio * content[Leads[job.entry]].packed

Examines == Reading /\ ~job.listed /\ job.next \in DOMAIN Parts(job.entry)
Takes(p) == p.size <= MaxInner /\ p.wanted
Chosen   == Takes(Member(job.next))

Advance == job' = [job EXCEPT !.next = @ + 1, !.total = Total]

\* A budget ends the listing; what a 7z has queued is still extracted.
Exceed ==
    /\ Examines /\ OverBudget
    /\ failed' = failed \cup {Failure(job.entry, job.next, "archive_budget_exceeded")}
    /\ job' = IF Type = "7z" THEN [job EXCEPT !.listed = TRUE] ELSE NoJob
    /\ UNCHANGED <<disk, walk, saved, known, outcome>>

PassMember ==
    /\ Examines /\ ~OverBudget /\ ~Chosen
    /\ Advance
    /\ UNCHANGED <<disk, walk, rows, outcome>>

Queue ==
    /\ Examines /\ ~OverBudget /\ Chosen /\ Type = "7z"
    /\ job' = [job EXCEPT !.next = @ + 1, !.total = Total, !.queue = @ \cup {job.next}]
    /\ UNCHANGED <<disk, walk, rows, outcome>>

Unreadable(I) == {Failure(job.entry, i, "unreadable") : i \in I}

\* scan_archive_at_path with the bytes of the members I, a temporary file each,
\* and without those of the members J, which are noted.
SampleMembers(I, J) ==
    /\ saved' = saved \cup {Place(job.entry, i) : i \in {j \in I : Tells(Member(j))}}
    /\ failed' = failed \cup Unreadable(J) \cup
           {Failure(job.entry, i, "barrier") : i \in {j \in I : Member(j).text = "locked"}}
    /\ UNCHANGED known

ReadsMember(way) ==
    /\ Examines /\ ~OverBudget /\ Chosen /\ Type # "7z"
    /\ Member(job.next).reads = way
    /\ UNCHANGED <<disk, walk>>

SampleMember ==
    /\ ReadsMember("ok")
    /\ SampleMembers({job.next}, {}) /\ Advance /\ UNCHANGED outcome

\* What ends an archive silently: a tar any member that it cannot read, a zip an
\* I/O error.
EndsAt == [tar |-> {"garbled", "locked", "broken"}, zip |-> {"broken"}]

\* zip notes a wrong checksum or password and goes on.
LoseMember ==
    /\ \E way \in {"garbled", "locked", "broken"} : ReadsMember(way)
    /\ IF Member(job.next).reads \in EndsAt[Type]
       THEN job' = NoJob /\ UNCHANGED failed
       ELSE failed' = failed \cup Unreadable({job.next}) /\ Advance
    /\ UNCHANGED <<saved, known, outcome>>

\* An error nobody catches: the engine's row for the target is all there is.
CrashMember ==
    /\ ReadsMember("crash")
    /\ outcome' = "error" /\ job' = NoJob /\ UNCHANGED rows

EndListing ==
    /\ Reading /\ ~job.listed /\ job.next \notin DOMAIN Parts(job.entry)
    /\ job' = IF Type = "7z" THEN [job EXCEPT !.listed = TRUE] ELSE NoJob
    /\ UNCHANGED <<disk, walk, rows, outcome>>

\* Mutant of BatchLost: one failure for the batch.
FirstLost == Unreadable({j \in job.queue : \A k \in job.queue : j <= k})

BatchLost == Unreadable(job.queue)

Extracted(way) == {i \in job.queue : Member(i).reads = way}

\* One extract call for the whole queue of a 7z, which fails as a whole or not at
\* all.  A member that has not come out is passed over.
Extract ==
    /\ Reading /\ job.listed
    /\ \/ /\ \A i \in job.queue : Member(i).reads \in {"ok", "broken", "absent"}
          /\ SampleMembers(Extracted("ok"), Extracted("broken"))
       \/ /\ \E i \in job.queue : Member(i).reads = "locked"
          /\ failed' = failed \cup {Failure(job.entry, Whole, "encrypted_no_password")}
          /\ UNCHANGED <<saved, known>>
       \/ /\ \E i \in job.queue : Member(i).reads \in {"garbled", "crash"}
          /\ failed' = failed \cup BatchLost
          /\ UNCHANGED <<saved, known>>
    /\ job' = NoJob
    /\ UNCHANGED <<disk, walk, outcome>>

ReadArchive ==
    \/ Exceed \/ PassMember \/ Queue \/ SampleMember \/ LoseMember \/ CrashMember
    \/ EndListing \/ Extract

FileNext ==
    \/ StartFiles \/ NoRoot \/ Leave \/ EndWalk \/ ReadArchive
    \/ \E e \in Entries :
        \/ Enter(e) \/ PassBy(e)
        \/ Skip(e) \/ Deny(e) \/ Mismatch(e) \/ Query(e) \/ SampleFile(e) \/ OpenArchive(e)

-----------------------------------------------------------------------------
(* Properties.                                                             *)

FilesTypeOK ==
    /\ ext \in [Entries -> Extensions]
    /\ stack \in Seq(Dirs) /\ left \in [Dirs -> SUBSET Entries]
    /\ seenDirs \subseteq Dirs /\ seenFiles \subseteq Nodes
    /\ saved \subseteq [entry : Entries, part : Nat]
    /\ known \subseteq Entries
    /\ failed \subseteq [entry : Entries, part : Nat, reason : Reasons]
    /\ outcome \in {"queued", "running", "done", "error"}
    /\ \/ job = NoJob
       \/ /\ job \in Jobs /\ IsArchive(job.entry)
          /\ job.next \in 1..(Len(Parts(job.entry)) + 1)
          /\ job.queue \subseteq 1..(job.next - 1)

\* The directories that the walk must get to: no set closed under whole listings
\* leaves one out.
Closed(S) ==
    /\ Root \in S
    /\ \A e \in Entries :
           In[e] \in S \ torn /\ Recursive /\ Kind[e] = "dir" => Leads[e] \in S
Reached == {d \in Dirs : \A S \in SUBSET Dirs : Closed(S) => d \in S}

\* Names that the walk must meet, and all it may meet.
Names(n) ==
    {e \in Entries : Kind[e] \in {"file", "link"} /\ Leads[e] = n
                     /\ (Kind[e] = "link" => Inside[e])}
Met(n) == {e \in Names(n) : In[e] \in Reached \ torn}

Mentioned(e, i) ==
    \/ Place(e, i) \in saved
    \/ \E f \in failed : f.entry = e /\ f.part \in {i, Whole}
    \/ \E f \in failed : f.entry = e /\ f.part <= i /\ f.reason = "archive_budget_exceeded"

\* The scan knows that a part holds something when its text can be had.
Telling(n) ==
    LET c == content[n] IN
    IF c.format = "doc" THEN IF c.parts[1].text # "garbled" /\ Sensitive(Set, c.parts[1].tells)
                             THEN {Whole} ELSE {}
    ELSE {i \in DOMAIN c.parts :
            /\ c.parts[i].wanted /\ c.parts[i].size <= MaxInner
            /\ c.parts[i].text # "garbled" /\ Sensitive(Set, c.parts[i].tells)
            /\ c.opens # "garbled"
            /\ c.format = "sqlite" => \A j \in 1..i : c.parts[j].reads = "ok"
            /\ c.format \in {"tar", "zip"} =>
                   \A j \in 1..i : Takes(c.parts[j]) => c.parts[j].reads \notin EndsAt[c.format]
            /\ c.format = "7z" => c.parts[i].reads # "absent"}

\* A scan that ends regularly either found what is sensitive, or recorded a failure
\* that says where it could not look: whatever the order of the walk, through
\* whatever links, under whatever budgets.  The silent cases of the code are the
\* premises: garbled documents and containers, what follows in a tar on a member
\* that cannot be read and in a zip on an I/O error, what a 7z does not give out,
\* torn directories, a name out of scope taken first.
FilesAccountedFor ==
    outcome = "done" =>
        \A n \in Nodes :
            /\ Met(n) # {}
            /\ \A e \in Names(n) : /\ ext[e] = content[n].format /\ InScope(e) /\ ext[e] # "gz"
                                   /\ ext[e] = "sqlite" => ScanSqlite
            => \A i \in Telling(n) : \E e \in Names(n) : Mentioned(e, i)

\* The members taken so far, those read and those in the queue of a 7z, stay within
\* the count, the sum and the ratio: nothing is unpacked before it is weighed.
ArchiveWithinBudget ==
    job # NoJob =>
        /\ Cardinality(job.queue) <= MaxMembers
        /\ job.next - 1 <= MaxMembers /\ job.total <= MaxTotal
        /\ content[Leads[job.entry]].packed > 0 =>
               job.total <= MaxRatio * content[Leads[job.entry]].packed
=============================================================================
