------------------------------- MODULE Pipeline -------------------------------
(***************************************************************************)
(* One scan of a filesystem target and what becomes of it.  On the command *)
(* line the report, and with it the push to the sink, comes after the      *)
(* scan, then the notifier's thread starts and the process ends; on the    *)
(* dashboard the notifier starts when the scan is over, and reports, each  *)
(* with a push, are requested at any time (main.py, routes.py,             *)
(* AuditEngine.generate_final_reports).                                    *)
(***************************************************************************)
EXTENDS FileScan, Delivery

CONSTANTS
    Worlds,         \* disks, kinds of process, findings_sink and notifications
    MaxReports      \* bound on the reports requested from the dashboard

Places == [entry : Entries, part : Nat]

ASSUME PipelineAssumption ==
    /\ Findings \subseteq Places /\ IsFiniteSet(Findings) /\ Keys = Dirs
    /\ \A f \in Findings : KeyOf[f] = In[f.entry]
    /\ MaxReports \in Nat \ {0}
    /\ \A w \in Worlds :
           /\ DiskOK(w) /\ w.kind \in {"cli", "dashboard"} /\ w.block \in SinkBlocks
           /\ w.asks \in NoteBlocks
           /\ \A e \in Entries, n \in Nodes :
                  \A i \in {Whole} \cup DOMAIN w.content[n].parts : Place(e, i) \in Findings

VARIABLES
    kind,       \* "cli" or "dashboard"
    asks,       \* its notifications block
    alive,      \* does the process run?
    status,     \* of the session: "running", "completed" or "completed_errors"
    reports     \* history: reports requested

pipelineVars == <<kind, asks, alive, status, reports>>
vars == <<fileVars, sinkVars, noteVars, pipelineVars>>

TypeOK ==
    /\ FilesTypeOK /\ DeliveryTypeOK
    /\ saved \subseteq Findings
    /\ kind \in {"cli", "dashboard"} /\ asks \in NoteBlocks /\ alive \in BOOLEAN
    /\ status \in {"running", "completed", "completed_errors"}
    /\ reports \in 0..MaxReports

Init ==
    /\ \E w \in Worlds : FileInit(w) /\ DeliveryInit(w.block) /\ kind = w.kind /\ asks = w.asks
    /\ alive = TRUE /\ status = "running"
    /\ reports = 0

Scan ==
    /\ alive /\ FileNext
    /\ UNCHANGED <<sinkVars, noteVars, pipelineVars>>

\* finish_session; worker errors of other targets show in the status.
Finish ==
    /\ alive /\ status = "running" /\ outcome \in {"done", "error"}
    /\ status' \in {"completed", "completed_errors"}
    /\ UNCHANGED <<fileVars, sinkVars, noteVars, kind, asks, alive, reports>>

\* generate_final_reports: once at the end of a command line, at any time on a
\* dashboard, by several requests at a time.
Report(p) ==
    /\ alive
    /\ IF kind = "cli" THEN status # "running" /\ reports = 0 /\ note = "none"
       ELSE reports < MaxReports
    /\ BeginPush(p, saved)
    /\ reports' = reports + 1
    /\ UNCHANGED <<fileVars, kind, asks, alive, status>>

Push ==
    /\ alive
    /\ \E p \in Pushers : PushStep(p) \/ FailPush(p)
    /\ UNCHANGED <<fileVars, pipelineVars>>

\* What was found where, at its level.
LevelOf(f) ==
    Level(Set, LET p == IF f.part = Whole THEN Text(f.entry) ELSE Parts(f.entry)[f.part]
               IN  IF p.text = "ok" THEN p.tells ELSE p.named)

High == \E f \in saved : LevelOf(f) = "HIGH"

\* notify_scan_complete_background
Notify ==
    /\ alive /\ status # "running"
    /\ kind = "cli" => reports > 0 /\ \A p \in Pushers : push[p] = NoPush
    /\ StartNote(asks, status, High)
    /\ UNCHANGED <<fileVars, pipelineVars>>

Send ==
    /\ alive /\ NoteStep(asks)
    /\ UNCHANGED <<fileVars, pipelineVars>>

\* main returns once the thread is started, and the daemon thread dies with the
\* process.  (A process killed earlier leaves a prefix of a behaviour: nothing here
\* survives it but the rows already written.)
Exit ==
    /\ alive /\ kind = "cli" /\ note # "none"
    /\ alive' = FALSE
    /\ UNCHANGED <<fileVars, sinkVars, noteVars, kind, asks, status, reports>>

Next ==
    \/ Scan \/ Finish \/ Push \/ Notify \/ Send \/ Exit
    \/ \E p \in Pushers : Report(p)

\* The notifier's thread is scheduled, and its calls have a time-out.
Fairness == WF_vars(Notify) /\ WF_vars(Send)

Spec == Init /\ [][Next]_vars /\ Fairness

-----------------------------------------------------------------------------
(* Properties.                                                             *)

\* A push that ended well is never undone: each of its findings still has a row at
\* its key, and a row there is a finding of the session, whatever pushes of older
\* and newer reports overlap with it or fail half-way.
EchoCoversEveryPlace ==
    /\ \A f \in echoed : sink[KeyOf[f]] # NoRow
    /\ \A k \in Keys : sink[k] # NoRow => sink[k] \in saved /\ KeyOf[sink[k]] = k

\* On a dashboard the end of a scan is announced: the notifier ends with an answer
\* for every channel, operators' and tenant's; what counts as a success was a
\* message received; and no row of the log, if one was written, says otherwise.
\* While the process lives, only an error that takes the thread prevents it (a
\* summary that cannot be read, an answer that breaks off).  A command line promises
\* nothing: it may be gone before the first attempt.
ServerScansAreAnnounced ==
    kind = "dashboard" /\ status # "running" ~>
        \/ cut \/ ~ShouldSend(asks, status, High)
        \/ /\ note = "ended"
           /\ \A c \in Channels : /\ answer[c] # "none" /\ audit[c] \in {"none", answer[c]}
                                  /\ answer[c] = "ok" => c \in received
=============================================================================
