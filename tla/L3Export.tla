------------------------------ MODULE L3Export ------------------------------
(***************************************************************************)
(* --l3-persist: the one place where the program writes raw values to a    *)
(* file (persist_l3_body).  The rows go to a temporary file of their own,  *)
(* whose protection is proven before a byte is written, and which then     *)
(* takes the place of the destination.                                     *)
(*                                                                         *)
(* The temporary name is random, so nobody but a cleaner touches the file; *)
(* the destination is shared by several exports and with other programs.   *)
(***************************************************************************)
CONSTANTS
    Procs,
    NoProc

ASSUME NoProcAssumption == NoProc \notin Procs

VARIABLES
    pc,         \* where a process is
    exit,       \* its exit code; Running, or Killed
    allow,      \* --l3-allow-unprotected
    tmp,        \* its temporary file
    label,      \* what the audit record says of the containment
    told,       \* did it say that the temporary file could not be removed?
    dest        \* the destination, and whose rows it has

Running == 1000
Killed  == 1001

NoFile == [has |-> "nothing", private |-> FALSE]
NoDest == [kind |-> "none", by |-> NoProc, private |-> FALSE]
\* A link, a directory or a file of another user.
Foreign == [NoDest EXCEPT !.kind = "foreign"]

l3vars == <<allow, tmp, label, told, dest>>

Files == [has : {"nothing", "empty", "rows"}, private : BOOLEAN]
Destinations ==
    [kind : {"none", "file", "foreign"}, by : Procs \cup {NoProc}, private : BOOLEAN]

L3TypeOK ==
    /\ allow \in [Procs -> BOOLEAN]
    /\ tmp \in [Procs -> Files]
    /\ label \in [Procs -> {"none", "owner_only", "not_enforced"}]
    /\ told \in [Procs -> BOOLEAN]
    /\ dest \in Destinations

Persisting == {"create", "verify", "rows", "recheck", "replace"}

L3Init ==
    /\ allow = [p \in Procs |-> FALSE]
    /\ tmp = [p \in Procs |-> NoFile]
    /\ label = [p \in Procs |-> "none"]
    /\ told = [p \in Procs |-> FALSE]
    /\ dest \in {NoDest, Foreign, [NoDest EXCEPT !.kind = "file"]}

Goto(p, at) == pc' = [pc EXCEPT ![p] = at] /\ UNCHANGED exit

Leave(p, c) ==
    /\ pc' = [pc EXCEPT ![p] = "ended"]
    /\ exit' = [exit EXCEPT ![p] = c]

\* _assert_destination_safe_to_replace, _assert_fd_matches_path
SafeToReplace == dest.kind \in {"none", "file"}
PathIsMine(p) == tmp[p].has # "nothing"

\* The directory is made and the destination looked at outside of the try: an
\* OSError is not L3's.
CheckDestination(p) ==
    /\ pc[p] = "check_dest"
    /\ \/ SafeToReplace /\ Goto(p, "create")
       \/ ~SafeToReplace /\ Leave(p, 5)
       \/ Leave(p, 1)
    /\ UNCHANGED l3vars

\* except Exception: the file is removed, or the message says that it is not.
Abort(p) ==
    /\ pc[p] \in Persisting
    /\ \/ tmp' = [tmp EXCEPT ![p] = NoFile] /\ UNCHANGED told
       \/ PathIsMine(p) /\ told' = [told EXCEPT ![p] = TRUE] /\ UNCHANGED tmp
    /\ Leave(p, 5)
    /\ UNCHANGED <<allow, label, dest>>

\* Exclusive, without following links, with mode 0600, which the file system may
\* not keep.
Create(p) ==
    /\ pc[p] = "create"
    /\ \E private \in BOOLEAN :
           tmp' = [tmp EXCEPT ![p] = [has |-> "empty", private |-> private]]
    /\ Goto(p, "verify")
    /\ UNCHANGED <<allow, label, told, dest>>

\* Mutant of Verify: what cannot be proven is noted, allowed or not.
VerifyLeniently(p) ==
    /\ pc[p] = "verify" /\ PathIsMine(p)
    /\ \E private \in {tmp[p].private, TRUE}, proven \in BOOLEAN :
           /\ proven => private
           /\ tmp' = [tmp EXCEPT ![p].private = private]
           /\ label' = [label EXCEPT ![p] = IF proven THEN "owner_only" ELSE "not_enforced"]
    /\ Goto(p, "rows")
    /\ UNCHANGED <<allow, told, dest>>

\* On Windows the access list is restricted first, which may fail; the proof is
\* the mode or the access list of the open file, and may fail as well.
Verify(p) ==
    /\ pc[p] = "verify" /\ PathIsMine(p)
    /\ \E private \in {tmp[p].private, TRUE}, proven \in BOOLEAN :
           /\ proven => private
           /\ proven \/ allow[p]
           /\ tmp' = [tmp EXCEPT ![p].private = private]
           /\ label' = [label EXCEPT ![p] = IF proven THEN "owner_only" ELSE "not_enforced"]
    /\ Goto(p, "rows")
    /\ UNCHANGED <<allow, told, dest>>

\* Into the open file, also when its name is gone.
WriteRows(p) ==
    /\ pc[p] = "rows"
    /\ tmp' = [tmp EXCEPT ![p].has = IF PathIsMine(p) THEN "rows" ELSE "nothing"]
    /\ Goto(p, "recheck")
    /\ UNCHANGED <<allow, label, told, dest>>

Recheck(p) ==
    /\ pc[p] = "recheck" /\ SafeToReplace /\ PathIsMine(p)
    /\ Goto(p, "replace")
    /\ UNCHANGED l3vars

\* os.replace takes the place of whatever is there by now.
Replace(p) ==
    /\ pc[p] = "replace" /\ PathIsMine(p)
    /\ dest' = [kind |-> "file", by |-> p, private |-> tmp[p].private]
    /\ tmp' = [tmp EXCEPT ![p] = NoFile]
    /\ Goto(p, "replaced")
    /\ UNCHANGED <<allow, label, told>>

\* While something is exported, the cleaner and other programs are at work, too.
Meanwhile ==
    /\ \/ /\ \E p \in Procs : PathIsMine(p) /\ tmp' = [tmp EXCEPT ![p] = NoFile]
          /\ UNCHANGED dest
       \/ /\ \E p \in Procs : pc[p] \in Persisting
          /\ \/ dest' \in {NoDest, Foreign}
             \/ dest = NoDest /\ dest' = [NoDest EXCEPT !.kind = "file"]
          /\ UNCHANGED tmp
    /\ UNCHANGED <<pc, exit, allow, label, told>>

L3Step(p) ==
    \/ CheckDestination(p) \/ Create(p) \/ Verify(p) \/ WriteRows(p)
    \/ Recheck(p) \/ Replace(p) \/ Abort(p)

-----------------------------------------------------------------------------

\* Where others could read them, there are rows only if that was allowed and the
\* audit record says so.
Declared(p, private) == private \/ (allow[p] /\ label[p] = "not_enforced")

\* Raw values lie in a file that others might read only with
\* --l3-allow-unprotected and a label that says it, in the temporary file and in
\* the destination, whichever export wrote last and whatever happened to either
\* file meanwhile (persist_l3_body: "No L3 byte is written until containment is
\* proven").  An export that is over has no rows in its temporary file, unless
\* it was killed or interrupted, or said so.
RowsStayContained ==
    /\ \A p \in Procs : tmp[p].has = "rows" =>
           /\ Declared(p, tmp[p].private)
           /\ pc[p] = "ended" => exit[p] \in {130, Killed} \/ told[p]
    /\ \A p \in Procs : dest.by = p => Declared(p, dest.private)
=============================================================================
