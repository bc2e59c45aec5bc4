---------------------------- MODULE ResumableScan ----------------------------
(***************************************************************************)
(* What --resume promises of one scan session, without saying how: tables  *)
(* are completed one by one and never lost or done again, whatever the     *)
(* session goes through, until it ends for good.  ScanRun implements it.   *)
(***************************************************************************)
CONSTANT Work       \* the tables of all targets

VARIABLES
    status,     \* of the session
    done        \* tables that are completed

vars == <<status, done>>

Resumable == {"running", "interrupted", "completed_errors"}

Init == status = "absent" /\ done = {}

Start == status = "absent" /\ status' = "running" /\ UNCHANGED done

\* An interrupted session may still complete a table (workers that its process
\* did not wait for), a finished one may not.
Complete ==
    /\ status \in {"running", "interrupted"}
    /\ \E w \in Work \ done : done' = done \cup {w}
    /\ UNCHANGED status

End ==
    /\ status = "running"
    /\ status' \in {"completed", "completed_errors", "interrupted"}
    /\ UNCHANGED done

Resume == status \in Resumable /\ status' = "running" /\ UNCHANGED done

Next == Start \/ Complete \/ End \/ Resume

Spec == Init /\ [][Next]_vars
=============================================================================
