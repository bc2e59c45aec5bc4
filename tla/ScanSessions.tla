---------------------------- MODULE ScanSessions ----------------------------
(***************************************************************************)
(* The life of a row of scan_sessions, shared through one SQLite file by   *)
(* several data-boar processes: one-shot command lines (main.py), which    *)
(* start or --resume one scan, and dashboard servers (api/routes.py),      *)
(* which start one scan after another.  Every process builds a             *)
(* LocalDBManager first, whose constructor reaps orphaned sessions.        *)
(*                                                                         *)
(* A step is one database transaction or one local decision; processes     *)
(* interleave between steps, die at any of them, and are started again.    *)
(* Within a process there is one scan at a time (module Dashboard models   *)
(* the run slot that sees to it).                                          *)
(***************************************************************************)
EXTENDS Naturals

CONSTANTS
    Procs,      \* process incarnations that may exist at the same time
    Servers,    \* those that run the dashboard; the others are command lines
    Hosts,
    HostOf,     \* the host a process runs on
    MaxPid,     \* bound on the pids a host hands out
    ReusePids,  \* may a host give the pid of a dead process to a new one?
    Sessions,
    Legacy,     \* sessions an old version left running, with no pid and no host
    NoSession, NoProc, NoHost

ASSUME ServersAssumption == Servers \subseteq Procs
ASSUME HostOfAssumption == HostOf \in [Procs -> Hosts]
ASSUME LegacyAssumption == Legacy \subseteq Sessions
ASSUME PidsAssumption == MaxPid \in Nat /\ ReusePids \in BOOLEAN
ASSUME NullsAssumption ==
    /\ NoSession \notin Sessions
    /\ NoProc \notin Procs
    /\ NoHost \notin Hosts

Pids  == 1..MaxPid
NoPid == 0

VARIABLES
    \* the shared database
    status,     \* status column of each row; "absent" before it is inserted
    rowPid,     \* pid column
    rowHost,    \* owner_hostname column
    writer,     \* the process that holds SQLite's write lock across statements
    \* the processes
    pc,
    pid,
    cur,        \* LocalDBManager._current_session_id
    outcome,    \* final_status of the scan that is being finished
    snap,       \* rows the reaper has read and has yet to examine
    doomed,     \* rows the reaper's open transaction has set to interrupted
    \* history, read by the properties and by PidIsFree only
    lastPid,    \* the last pid each host handed out
    contested,  \* sessions whose resume overlapped another process's use of them
    stranded    \* sessions that had no live owner when the reaper read the rows

db      == <<status, rowPid, rowHost, writer>>
local   == <<pc, pid, cur, outcome, snap, doomed>>
history == <<lastPid, contested, stranded>>
vars    == <<db, local, history>>

Finished == {"completed", "completed_errors"}
Terminal == {"completed", "completed_errors", "interrupted"}
Status   == {"absent", "running", "wiped"} \cup Terminal

Starting   == {"boot", "reaping", "ready"}
Working    == {"running", "finish", "finishWrite"}
CleaningUp == {"cleanup", "cleanupWrite"}
Locations  == {"dead", "resuming", "report"} \cup Starting \cup Working \cup CleaningUp

SeenRow == [id : Sessions, pid : Pids \cup {NoPid}, host : Hosts \cup {NoHost}]

TypeOK ==
    /\ status \in [Sessions -> Status]
    /\ rowPid \in [Sessions -> Pids \cup {NoPid}]
    /\ rowHost \in [Sessions -> Hosts \cup {NoHost}]
    /\ writer \in Procs \cup {NoProc}
    /\ pc \in [Procs -> Locations]
    /\ pid \in [Procs -> Pids \cup {NoPid}]
    /\ cur \in [Procs -> Sessions \cup {NoSession}]
    /\ outcome \in [Procs -> Terminal]
    /\ snap \in [Procs -> SUBSET SeenRow]
    /\ doomed \in [Procs -> SUBSET Sessions]
    /\ lastPid \in [Hosts -> Pids \cup {NoPid}]
    /\ contested \subseteq Sessions
    /\ stranded \in [Procs -> SUBSET Sessions]

Init ==
    /\ status = [s \in Sessions |-> IF s \in Legacy THEN "running" ELSE "absent"]
    /\ rowPid = [s \in Sessions |-> NoPid]
    /\ rowHost = [s \in Sessions |-> NoHost]
    /\ writer = NoProc
    /\ pc = [p \in Procs |-> "dead"]
    /\ pid = [p \in Procs |-> NoPid]
    /\ cur = [p \in Procs |-> NoSession]
    /\ outcome = [p \in Procs |-> "interrupted"]
    /\ snap = [p \in Procs |-> {}]
    /\ doomed = [p \in Procs |-> {}]
    /\ lastPid = [h \in Hosts |-> NoPid]
    /\ contested = {}
    /\ stranded = [p \in Procs |-> {}]

-----------------------------------------------------------------------------
(* Processes come and go.                                                  *)

\* os.kill(pid, 0) on host h: is there a process of that pid?
PidIsAlive(h, i) == \E p \in Procs : pc[p] # "dead" /\ HostOf[p] = h /\ pid[p] = i

\* p is past its start-up and s is the session it starts, runs or reports.
Holds(p, s) == cur[p] = s /\ pc[p] \notin Starting \cup {"dead"}

\* Pids are handed out in order until they wrap around.
PidIsFree(h, i) == ~PidIsAlive(h, i) /\ (ReusePids \/ i = lastPid[h] + 1)

Spawn(p) ==
    /\ pc[p] = "dead"
    /\ \E i \in Pids :
        /\ PidIsFree(HostOf[p], i)
        /\ pid' = [pid EXCEPT ![p] = i]
        /\ lastPid' = [lastPid EXCEPT ![HostOf[p]] = i]
    /\ pc' = [pc EXCEPT ![p] = "boot"]
    /\ UNCHANGED <<db, cur, outcome, snap, doomed, contested, stranded>>

\* The end of a process: what it knew is gone and SQLite rolls back what it
\* had not committed.
Dies(p) ==
    /\ pc' = [pc EXCEPT ![p] = "dead"]
    /\ pid' = [pid EXCEPT ![p] = NoPid]
    /\ cur' = [cur EXCEPT ![p] = NoSession]
    /\ outcome' = [outcome EXCEPT ![p] = "interrupted"]
    /\ snap' = [snap EXCEPT ![p] = {}]
    /\ doomed' = [doomed EXCEPT ![p] = {}]
    /\ stranded' = [stranded EXCEPT ![p] = {}]
    /\ UNCHANGED <<lastPid, contested>>

\* SIGKILL, power loss, an exception nobody catches.
Crash(p) ==
    /\ pc[p] # "dead"
    /\ Dies(p)
    /\ writer' = IF writer = p THEN NoProc ELSE writer
    /\ UNCHANGED <<status, rowPid, rowHost>>

-----------------------------------------------------------------------------
(* LocalDBManager.__init__: reap_orphaned_running_sessions.                *)

ReapRead(p) ==
    /\ pc[p] = "boot"
    /\ LET running == {s \in Sessions : status[s] = "running"} IN
        /\ snap' = [snap EXCEPT ![p] =
                {[id |-> s, pid |-> rowPid[s], host |-> rowHost[s]] : s \in running}]
        /\ stranded' = [stranded EXCEPT ![p] =
                {s \in running : /\ rowHost[s] \in {HostOf[p], NoHost}
                                 /\ \A q \in Procs : ~Holds(q, s)}]
    /\ pc' = [pc EXCEPT ![p] = "reaping"]
    /\ UNCHANGED <<db, pid, cur, outcome, doomed, lastPid, contested>>

\* Mutant of Spared: the host of the row is not compared.
SparedByPidAlone(p, r) == PidIsAlive(HostOf[p], r.pid)

\* Mutant of Spared: a row with no host counts as another host's.
SparedIfNoHost(p, r) == r.host # HostOf[p] \/ PidIsAlive(HostOf[p], r.pid)

\* A row of another host, or whose pid is alive, is left alone.
Spared(p, r) == r.host \notin {HostOf[p], NoHost} \/ PidIsAlive(HostOf[p], r.pid)

ReapSkip(p) ==
    /\ pc[p] = "reaping"
    /\ \E r \in snap[p] :
        /\ Spared(p, r)
        /\ snap' = [snap EXCEPT ![p] = @ \ {r}]
    /\ UNCHANGED <<db, pc, pid, cur, outcome, doomed, history>>

\* Mutant of MatchesReap: UPDATE ... WHERE session_id = :sid alone.
MatchesReapById(s) == TRUE

\* UPDATE ... WHERE session_id = :sid AND status = 'running'
MatchesReap(s) == status[s] = "running"

\* The first UPDATE opens the write transaction, which the COMMIT ends, or the
\* closing of the session when no row was updated.
ReapUpdate(p) ==
    /\ pc[p] = "reaping"
    /\ writer \in {p, NoProc}
    /\ \E r \in snap[p] :
        /\ ~Spared(p, r)
        /\ snap' = [snap EXCEPT ![p] = @ \ {r}]
        /\ doomed' = [doomed EXCEPT ![p] = @ \cup {s \in {r.id} : MatchesReap(s)}]
    /\ writer' = p
    /\ UNCHANGED <<status, rowPid, rowHost, pc, pid, cur, outcome, history>>

ReapCommit(p) ==
    /\ pc[p] = "reaping"
    /\ snap[p] = {}
    /\ status' = [s \in Sessions |-> IF s \in doomed[p] THEN "interrupted" ELSE status[s]]
    /\ writer' = IF writer = p THEN NoProc ELSE writer
    /\ doomed' = [doomed EXCEPT ![p] = {}]
    /\ pc' = [pc EXCEPT ![p] = "ready"]
    /\ UNCHANGED <<rowPid, rowHost, pid, cur, outcome, snap, history>>

-----------------------------------------------------------------------------
(* Starting a scan: AuditEngine.start_audit and POST /scan.                *)

\* A new uuid becomes the current session and its row is inserted.
StartNew(p) ==
    /\ pc[p] = "ready"
    /\ writer = NoProc
    /\ \E s \in Sessions :
        /\ status[s] = "absent"
        /\ cur' = [cur EXCEPT ![p] = s]
        /\ status' = [status EXCEPT ![s] = "running"]
        /\ rowPid' = [rowPid EXCEPT ![s] = pid[p]]
        /\ rowHost' = [rowHost EXCEPT ![s] = HostOf[p]]
    /\ pc' = [pc EXCEPT ![p] = "running"]
    /\ UNCHANGED <<writer, pid, outcome, snap, doomed, history>>

\* --resume reads the status of a known session.  A completed one is not run.
ResumeRead(p) ==
    /\ pc[p] = "ready"
    /\ p \notin Servers
    /\ \E s \in Sessions :
        /\ status[s] \notin {"absent", "wiped"}
        /\ cur' = [cur EXCEPT ![p] = s]
        /\ pc' = [pc EXCEPT ![p] =
                IF status[s] = "completed" THEN "report" ELSE "resuming"]
        /\ contested' = contested \cup
                {t \in {s} : \E q \in Procs \ {p} : Holds(q, t)}
    /\ UNCHANGED <<db, pid, outcome, snap, doomed, lastPid, stranded>>

\* reopen_session_for_resume takes the row over, whoever it belonged to; a row
\* that was wiped in between stays gone and the scan runs without one.
Reopen(p) ==
    /\ pc[p] = "resuming"
    /\ writer = NoProc
    /\ LET s == cur[p] IN
        /\ IF status[s] = "wiped"
             THEN UNCHANGED <<status, rowPid, rowHost>>
             ELSE /\ status' = [status EXCEPT ![s] = "running"]
                  /\ rowPid' = [rowPid EXCEPT ![s] = pid[p]]
                  /\ rowHost' = [rowHost EXCEPT ![s] = HostOf[p]]
        /\ contested' = contested \cup
                {t \in {s} : \E q \in Procs : \E r \in snap[q] : r.id = t}
        /\ stranded' = [q \in Procs |-> stranded[q] \ {s}]
    /\ pc' = [pc EXCEPT ![p] = "running"]
    /\ UNCHANGED <<writer, pid, cur, outcome, snap, doomed, lastPid>>

-----------------------------------------------------------------------------
(* Ending a scan: the finally of _run_audit_targets, and main's handler of *)
(* KeyboardInterrupt, both through finish_session.                         *)

TargetsDone(p) ==
    /\ pc[p] = "running"
    /\ \E o \in Finished : outcome' = [outcome EXCEPT ![p] = o]
    /\ pc' = [pc EXCEPT ![p] = "finish"]
    /\ UNCHANGED <<db, pid, cur, snap, doomed, history>>

\* Ctrl+C or SIGTERM in a command line.  Inside the target loop the engine's
\* own finally runs first; elsewhere main's handler takes over at once.
Interrupt(p) ==
    /\ p \notin Servers
    /\ pc[p] \in Working \cup {"resuming", "report"}
    /\ outcome' = [outcome EXCEPT ![p] = "interrupted"]
    /\ pc' = [pc EXCEPT ![p] = IF pc[p] = "running" THEN "finish" ELSE "cleanup"]
    /\ UNCHANGED <<db, pid, cur, snap, doomed, history>>

\* Where a process goes when finish_session returns.
AfterFinish(p) ==
    IF pc[p] \in CleaningUp THEN "dead"
    ELSE IF outcome[p] = "interrupted" THEN "cleanup" ELSE "report"

Proceed(p) ==
    IF AfterFinish(p) = "dead" THEN Dies(p)
    ELSE /\ pc' = [pc EXCEPT ![p] = AfterFinish(p)]
         /\ UNCHANGED <<pid, cur, outcome, snap, doomed, history>>

\* Mutant of FinishRead: finish_session does not look at the status.
FinishReadBlind(p) ==
    /\ pc[p] \in {"finish", "cleanup"}
    /\ pc' = [pc EXCEPT ![p] = IF pc[p] = "finish" THEN "finishWrite" ELSE "cleanupWrite"]
    /\ UNCHANGED <<db, pid, cur, outcome, snap, doomed, history>>

\* Mutant of FinishRead: a scan whose targets failed is not finished.
FinishReadIfCompleted(p) ==
    /\ pc[p] \in {"finish", "cleanup"}
    /\ IF status[cur[p]] = "running" /\ outcome[p] # "completed_errors"
         THEN /\ pc' = [pc EXCEPT ![p] =
                      IF pc[p] = "finish" THEN "finishWrite" ELSE "cleanupWrite"]
              /\ UNCHANGED <<pid, cur, outcome, snap, doomed, history>>
         ELSE Proceed(p)
    /\ UNCHANGED db

\* finish_session reads the row outside a transaction ...
FinishRead(p) ==
    /\ pc[p] \in {"finish", "cleanup"}
    /\ IF status[cur[p]] = "running"
         THEN /\ pc' = [pc EXCEPT ![p] =
                      IF pc[p] = "finish" THEN "finishWrite" ELSE "cleanupWrite"]
              /\ UNCHANGED <<pid, cur, outcome, snap, doomed, history>>
         ELSE Proceed(p)
    /\ UNCHANGED db

\* ... and writes it by primary key.  An UPDATE of a row that is gone raises:
\* a command line ends, a server's background task does.
FinishWrite(p) ==
    /\ pc[p] \in {"finishWrite", "cleanupWrite"}
    /\ writer = NoProc
    /\ IF status[cur[p]] = "wiped"
         THEN /\ UNCHANGED status
              /\ IF p \in Servers
                   THEN /\ pc' = [pc EXCEPT ![p] = "ready"]
                        /\ UNCHANGED <<pid, cur, outcome, snap, doomed, history>>
                   ELSE Dies(p)
         ELSE /\ status' = [status EXCEPT ![cur[p]] = outcome[p]]
              /\ Proceed(p)
    /\ UNCHANGED <<rowPid, rowHost, writer>>

\* Reports and notifications are out.
Reported(p) ==
    /\ pc[p] = "report"
    /\ IF p \in Servers
         THEN /\ pc' = [pc EXCEPT ![p] = "ready"]
              /\ UNCHANGED <<pid, cur, outcome, snap, doomed, history>>
         ELSE Dies(p)
    /\ UNCHANGED db

-----------------------------------------------------------------------------
(* Processes that start no scan.                                           *)

\* Exports, an unknown --resume id, a server that is stopped while idle.
Exit(p) ==
    /\ pc[p] = "ready"
    /\ Dies(p)
    /\ UNCHANGED db

\* The store is opened again: a command line that warns about rate limits, a
\* server whose configuration was saved.
Rebuild(p) ==
    /\ pc[p] = "ready"
    /\ pc' = [pc EXCEPT ![p] = "boot"]
    /\ UNCHANGED <<db, pid, cur, outcome, snap, doomed, history>>

\* --reset-data: wipe_all_data deletes every row, whoever is using it.
Wipe(p) ==
    /\ pc[p] = "ready"
    /\ p \notin Servers
    /\ writer = NoProc
    /\ status' = [s \in Sessions |-> IF status[s] = "absent" THEN "absent" ELSE "wiped"]
    /\ Dies(p)
    /\ UNCHANGED <<rowPid, rowHost, writer>>

Next ==
    \E p \in Procs :
        \/ Spawn(p) \/ Crash(p)
        \/ ReapRead(p) \/ ReapSkip(p) \/ ReapUpdate(p) \/ ReapCommit(p)
        \/ StartNew(p) \/ ResumeRead(p) \/ Reopen(p)
        \/ TargetsDone(p) \/ Interrupt(p) \/ FinishRead(p) \/ FinishWrite(p)
        \/ Reported(p) \/ Exit(p) \/ Rebuild(p) \/ Wipe(p)

\* A process that is not killed gets on with its reaping and its finishing, and
\* every scan comes to an end; nobody is obliged to start, resume or interrupt.
Fairness ==
    \A p \in Procs :
        /\ WF_vars(ReapRead(p)) /\ WF_vars(ReapSkip(p) \/ ReapUpdate(p))
        /\ WF_vars(ReapCommit(p)) /\ WF_vars(TargetsDone(p))
        /\ WF_vars(FinishRead(p)) /\ WF_vars(FinishWrite(p))

Spec == Init /\ [][Next]_vars
FairSpec == Spec /\ Fairness

-----------------------------------------------------------------------------
(* Properties.                                                             *)

\* While a process works on a session whose resumes met nobody else, the row
\* says so: running, with that process's pid and host.  So no reaper, no other
\* scan and no late finish takes the row from a live scan; only a wipe does.
LiveScanOwnsItsRow ==
    \A p \in Procs, s \in Sessions \ contested :
        Holds(p, s) /\ pc[p] \in Working =>
            \/ status[s] = "wiped"
            \/ status[s] = "running" /\ rowPid[s] = pid[p] /\ rowHost[s] = HostOf[p]

\* What the reaper's open transaction is about to mark interrupted is still
\* running: a finish_session that commits while the reaper works is never
\* overwritten, contested session or not.
ReaperSparesFinished ==
    \A p \in Procs : \A s \in doomed[p] : status[s] = "running"

\* On hosts that do not reuse pids, a session whose owner was gone when a
\* process started is not running any more once that process's reaper is done.
NoOrphanSurvivesReap ==
    ~ReusePids =>
        \A p \in Procs : pc[p] \notin {"dead", "boot", "reaping"} =>
            \A s \in stranded[p] : status[s] # "running"

\* finish_session reads, then writes by primary key; still, outside contested
\* sessions a terminal status is left only by a resume or a wipe, and a
\* completed session is never run again.
TerminalSticks ==
    [][\A s \in Sessions \ contested' :
        /\ status[s] \in Terminal => status'[s] \in {status[s], "running", "wiped"}
        /\ status[s] = "completed" => status'[s] \in {"completed", "wiped"}]_vars

\* A scan that is not killed does not leave its session running, whatever
\* reapers, resumes and wipes do meanwhile.
EveryScanEnds ==
    \A p \in Procs, s \in Sessions :
        pc[p] = "running" /\ cur[p] = s ~> pc[p] = "dead" \/ status[s] # "running"

\* "Never reap a live PID on this host" (reap_orphaned_running_sessions, and
\* test_reap_skips_live_pid): no row that the open transaction of the reaper
\* interrupts is owned by a live process.
NeverReapsLiveOwner ==
    \A p \in Procs : \A s \in doomed[p] : ~PidIsAlive(rowHost[s], rowPid[s])
=============================================================================
