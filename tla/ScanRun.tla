------------------------------- MODULE ScanRun -------------------------------
(***************************************************************************)
(* One session's scan, from start to resume: the loop over the targets     *)
(* (AuditEngine._run_audit_targets), the threads of its pool, each running *)
(* the connector of one SQL target (SQLConnector.run), and the per-table   *)
(* checkpoints they leave for --resume in the database.                    *)
(*                                                                         *)
(* The process may be killed at any step, Ctrl+C may come once or, from an *)
(* impatient operator, twice, and databases may fail at any query.  A run  *)
(* is resumed when the process of the previous one is gone; two processes  *)
(* on one session are the subject of ScanSessions.                         *)
(***************************************************************************)
EXTENDS Naturals, Sequences, FiniteSets, Throttler
LOCAL INSTANCE SequencesExt

CONSTANTS
    TargetList,     \* config targets, in order
    Tables,
    TablesOf,       \* the tables a target discovers
    Columns,
    Modes,          \* of running the targets, a subset of AllModes
    Latencies,      \* how long a target may take
    MaxRuns,        \* bound on the runs of the session
    NoTable

Targets  == Range(TargetList)
AllModes == {"sequential", "pool", "adaptive"}

ASSUME TargetsAssumption ==
    TargetList \in Seq(Targets) \ {<<>>} /\ Cardinality(Targets) = Len(TargetList)
ASSUME TablesAssumption == TablesOf \in [Targets -> SUBSET Tables] /\ NoTable \notin Tables
ASSUME RunsAssumption == Modes \subseteq AllModes /\ MaxRuns \in Nat /\ Latencies \subseteq Nat

Work    == {w \in Targets \X Tables : w[2] \in TablesOf[w[1]]}
Cells   == Work \X Columns

VARIABLES
    \* the database
    status,     \* of the session
    ckpt,       \* scan_table_checkpoints
    found,      \* columns with a finding
    clean,      \* columns sampled without one
    missed,     \* columns whose sample failed, as scan_failures says
    gaveUp,     \* targets that scan_failures says this run could not finish
    \* the run
    mode,
    main,       \* where _run_audit_targets is
    final,      \* final_status
    workers,    \* throttler.current_workers
    window,     \* throttler.latency_history
    batch,      \* futures that wait() returned and the loop has yet to handle
    handled,    \* futures whose result was taken
    \* its threads, by target
    tpc,
    todo,       \* tables left to scan
    table,      \* the table being scanned
    left,       \* its columns left to sample
    \* history
    runs,
    hasty,      \* was Ctrl+C pressed again while the pool was waited for?
    escaped,    \* did an exception leave the sequential loop in this run?
    twice,      \* columns whose finding was saved more than once
    torn        \* tables that some run left unfinished

data    == <<ckpt, found, clean, missed>>
loop    == <<mode, main, final, workers, window, batch, handled>>
threads == <<tpc, todo, table, left>>
ghosts  == <<runs, hasty, escaped, twice, torn>>
vars    == <<status, data, gaveUp, loop, threads, ghosts>>

Open == {"queued", "connecting", "scanning"}    \* futures that are not done
Busy == {"connecting", "scanning"}              \* those a thread works on
Done == {"ok", "raised"}

TypeOK ==
    /\ status \in {"absent", "running", "completed", "completed_errors", "interrupted"}
    /\ ckpt \in [Work -> {"none", "in_progress", "completed"}]
    /\ found \subseteq Cells /\ clean \subseteq Cells /\ missed \subseteq Cells
    /\ gaveUp \subseteq Targets
    /\ mode \in AllModes
    /\ main \in {"off", "loop", "submit", "harvest", "drain", "finish"}
    /\ final \in {"completed", "completed_errors", "interrupted"}
    /\ workers \in 1..MaxWorkers
    /\ window \in Seq(Nat) /\ Len(window) <= WindowSize
    /\ batch \subseteq Targets /\ handled \subseteq Targets
    /\ tpc \in [Targets -> {"waiting"} \cup Open \cup Done]
    /\ todo \in [Targets -> SUBSET Tables]
    /\ table \in [Targets -> Tables \cup {NoTable}]
    /\ left \in [Targets -> SUBSET Columns]
    /\ runs \in 0..MaxRuns
    /\ hasty \in BOOLEAN /\ escaped \in BOOLEAN
    /\ twice \subseteq Cells /\ torn \subseteq Work

Idle ==
    /\ tpc = [t \in Targets |-> "waiting"]
    /\ todo = [t \in Targets |-> {}]
    /\ table = [t \in Targets |-> NoTable]
    /\ left = [t \in Targets |-> {}]

Init ==
    /\ status = "absent"
    /\ ckpt = [w \in Work |-> "none"]
    /\ found = {} /\ clean = {} /\ missed = {} /\ gaveUp = {}
    /\ mode = "sequential"
    /\ main = "off" /\ final = "completed"
    /\ workers = 1 /\ window = <<>>
    /\ batch = {} /\ handled = {}
    /\ Idle
    /\ runs = 0 /\ hasty = FALSE /\ escaped = FALSE
    /\ twice = {} /\ torn = {}

-----------------------------------------------------------------------------
(* Runs of the session.                                                    *)

Having(pcs) == {t \in Targets : tpc[t] \in pcs}

\* Tables that t's thread has begun and not completed.
Unfinished(T) == {<<t, table[t]>> : t \in {u \in T : table[u] # NoTable}}

\* Mutant of MayRun: --resume does not look at the status.
MayRunAgain == TRUE

\* A session that is completed is not run again.
MayRun == status # "completed"

\* start_audit and the head of _run_audit_targets.  With a pool, every target
\* is submitted at once.
Start ==
    /\ main = "off" /\ Having(Busy \cup {"queued"}) = {}
    /\ runs < MaxRuns
    /\ MayRun
    /\ status' = "running"
    /\ runs' = runs + 1
    /\ \E m \in Modes :
        /\ mode' = m
        /\ main' = IF m = "sequential" THEN "loop" ELSE IF m = "pool" THEN "harvest" ELSE "submit"
        /\ tpc' = [t \in Targets |-> IF m = "pool" THEN "queued" ELSE "waiting"]
    /\ final' = "completed"
    /\ workers' = 1 /\ window' = <<>>
    /\ batch' = {} /\ handled' = {}
    /\ gaveUp' = {}
    /\ hasty' = FALSE /\ escaped' = FALSE
    /\ UNCHANGED <<data, todo, table, left, twice, torn>>

\* The process is killed: the database is all that is left.
Crash ==
    /\ main # "off" \/ Having(Open) # {}
    /\ main' = "off"
    /\ tpc' = [t \in Targets |-> "waiting"]
    /\ todo' = [t \in Targets |-> {}]
    /\ table' = [t \in Targets |-> NoTable]
    /\ left' = [t \in Targets |-> {}]
    /\ batch' = {} /\ handled' = {}
    /\ mode' = "sequential" /\ final' = "completed"
    /\ workers' = 1 /\ window' = <<>>
    /\ gaveUp' = {}
    /\ hasty' = FALSE /\ escaped' = FALSE
    /\ torn' = torn \cup Unfinished(Targets)
    /\ UNCHANGED <<status, data, runs, twice>>

-----------------------------------------------------------------------------
(* The loop over the targets.                                              *)

\* t comes first of T in the configuration.
IsFirst(t, T) ==
    \E i \in DOMAIN TargetList :
        TargetList[i] = t /\ \A j \in 1..(i - 1) : TargetList[j] \notin T

Pending == Having({"waiting"})

\* for target in targets: self._run_target(target)
RunNext ==
    /\ main = "loop"
    /\ Having(Busy) = {} /\ Having({"raised"}) = {}
    /\ \E t \in Pending :
        IsFirst(t, Pending) /\ tpc' = [tpc EXCEPT ![t] = "connecting"]
    /\ UNCHANGED <<status, data, gaveUp, loop, todo, table, left, ghosts>>

\* An exception of a target leaves the loop, final_status is "completed" still.
LeaveLoop ==
    /\ main = "loop"
    /\ Having(Busy) = {}
    /\ Having({"raised"}) # {} \/ Pending = {}
    /\ main' = "finish"
    /\ escaped' = (Having({"raised"}) # {})
    /\ UNCHANGED <<status, data, gaveUp, mode, final, workers, window, batch, handled,
                   threads, runs, hasty, twice, torn>>

\* Mutant of InFlight: futures are not popped.
InFlightNotPopped == Having(Open \cup Done)

\* in_flight of the adaptive loop.
InFlight == Having(Open \cup Done) \ handled

\* One turn of the adaptive loop: it submits up to the limit, in order ...
Submit ==
    /\ main = "submit"
    /\ Cardinality(InFlight) < workers
    /\ \E t \in Pending :
        IsFirst(t, Pending) /\ tpc' = [tpc EXCEPT ![t] = "queued"]
    /\ UNCHANGED <<status, data, gaveUp, loop, todo, table, left, ghosts>>

\* ... and waits for a future, or is done.
Wait ==
    /\ main = "submit"
    /\ Pending = {} \/ Cardinality(InFlight) >= workers
    /\ IF InFlight = {}
         THEN main' = "finish" /\ UNCHANGED batch
         ELSE /\ InFlight \cap Having(Done) # {}
              /\ main' = "harvest"
              /\ batch' = InFlight \cap Having(Done)
    /\ UNCHANGED <<status, data, gaveUp, mode, final, workers, window, handled, threads, ghosts>>

\* Mutant of StatusAfter: the last future decides.
StatusAfterLast(t) == IF tpc[t] = "raised" THEN "completed_errors" ELSE "completed"

StatusAfter(t) == IF tpc[t] = "raised" THEN "completed_errors" ELSE final

\* The result of a future is taken, in the order they are done with a pool and
\* batch by batch in the adaptive loop, where the throttler hears how long the
\* target took, nothing if it raised.
Harvest(t) ==
    /\ main = "harvest"
    /\ t \in (IF mode = "adaptive" THEN batch ELSE Having(Done) \ handled)
    /\ handled' = handled \cup {t}
    /\ final' = StatusAfter(t)
    /\ IF mode = "adaptive"
         THEN /\ batch' = batch \ {t}
              /\ \E latency \in IF tpc[t] = "raised" THEN {0} ELSE Latencies :
                    window' = Remember(window, latency)
              /\ workers' = Adjust(workers, window')
              /\ main' = IF batch' = {} THEN "submit" ELSE "harvest"
         ELSE /\ UNCHANGED <<batch, window, workers>>
              /\ main' = IF handled' = Targets THEN "finish" ELSE "harvest"
    /\ UNCHANGED <<status, data, gaveUp, mode, threads, ghosts>>

\* Ctrl+C.  It aborts the connector of a sequential loop; a pool is shut down,
\* which waits for every submitted future ...
Interrupt ==
    /\ main \in {"loop", "submit", "harvest"}
    /\ final' = "interrupted"
    /\ IF main = "loop"
         THEN /\ main' = "finish"
              /\ tpc' = [t \in Targets |-> IF tpc[t] \in Busy THEN "waiting" ELSE tpc[t]]
              /\ todo' = [t \in Targets |-> {}]
              /\ table' = [t \in Targets |-> NoTable]
              /\ left' = [t \in Targets |-> {}]
              /\ torn' = torn \cup Unfinished(Targets)
         ELSE main' = "drain" /\ UNCHANGED <<threads, torn>>
    /\ batch' = {}
    /\ UNCHANGED <<status, data, gaveUp, mode, workers, window, handled, runs, hasty, escaped, twice>>

\* Mutant of Drained: the pool is shut down without waiting.
DrainedAtOnce == TRUE

Drained == Having(Open) = {}

ShutDown ==
    /\ main = "drain"
    /\ Drained
    /\ main' = "finish"
    /\ UNCHANGED <<status, data, gaveUp, mode, final, workers, window, batch, handled, threads, ghosts>>

\* ... unless it is pressed again.
InterruptAgain ==
    /\ main = "drain"
    /\ main' = "finish"
    /\ hasty' = TRUE
    /\ UNCHANGED <<status, data, gaveUp, mode, final, workers, window, batch, handled,
                   threads, runs, escaped, twice, torn>>

\* The finally: finish_session.
Finish ==
    /\ main = "finish"
    /\ main' = "off"
    /\ status' = final
    /\ final' = "completed"
    /\ workers' = 1 /\ window' = <<>>
    /\ batch' = {} /\ handled' = {}
    /\ UNCHANGED <<data, gaveUp, mode, threads, ghosts>>

-----------------------------------------------------------------------------
(* A thread: _run_target_inner and SQLConnector.run.                       *)

\* max_workers of the executor, capped by the number of targets in a pool.
PoolSize == IF mode = "adaptive" \/ MaxWorkers < Len(TargetList) THEN MaxWorkers ELSE Len(TargetList)

\* Threads take futures in the order they were submitted.
Pick ==
    /\ Cardinality(Having(Busy)) < PoolSize
    /\ LET queued == Having({"queued"}) IN
        \E t \in queued :
            IsFirst(t, queued) /\ tpc' = [tpc EXCEPT ![t] = "connecting"]
    /\ UNCHANGED <<status, data, gaveUp, loop, todo, table, left, ghosts>>

\* What a thread forgets when its target is over.
Over(t, end) ==
    /\ tpc' = [tpc EXCEPT ![t] = end]
    /\ todo' = [todo EXCEPT ![t] = {}]
    /\ table' = [table EXCEPT ![t] = NoTable]
    /\ left' = [left EXCEPT ![t] = {}]

\* No licence, no connector, no connection, or an exception at any later step:
\* a failure is saved and the target counts as run.
GiveUp(t) ==
    /\ tpc[t] \in Busy
    /\ Over(t, "ok")
    /\ gaveUp' = gaveUp \cup {t}
    /\ torn' = torn \cup Unfinished({t})
    /\ UNCHANGED <<status, data, loop, runs, hasty, escaped, twice>>

\* Saving the failure fails too (the database is locked, the disk is full).
Raise(t) ==
    /\ tpc[t] \in Busy
    /\ Over(t, "raised")
    /\ torn' = torn \cup Unfinished({t})
    /\ UNCHANGED <<status, data, gaveUp, loop, runs, hasty, escaped, twice>>

\* Mutant of CompletedTables: the checkpoints of the session are not found.
CompletedTablesUnknown(t) == {}

\* list_completed_sql_tables
CompletedTables(t) == {b \in TablesOf[t] : ckpt[<<t, b>>] = "completed"}

\* Tables are discovered and those that are completed skipped.
Discover(t) ==
    /\ tpc[t] = "connecting"
    /\ tpc' = [tpc EXCEPT ![t] = "scanning"]
    /\ todo' = [todo EXCEPT ![t] = TablesOf[t] \ CompletedTables(t)]
    /\ UNCHANGED <<status, data, gaveUp, loop, table, left, ghosts>>

\* mark_sql_table_in_progress
StartTable(t) ==
    /\ tpc[t] = "scanning" /\ table[t] = NoTable
    /\ \E b \in todo[t] :
        /\ todo' = [todo EXCEPT ![t] = @ \ {b}]
        /\ table' = [table EXCEPT ![t] = b]
        /\ ckpt' = [ckpt EXCEPT ![<<t, b>>] = IF @ = "completed" THEN @ ELSE "in_progress"]
    /\ left' = [left EXCEPT ![t] = Columns]
    /\ UNCHANGED <<status, found, clean, missed, gaveUp, loop, tpc, ghosts>>

\* _process_one_finding: the sample fails, is clean, or has a finding.
SampleColumn(t) ==
    /\ tpc[t] = "scanning" /\ table[t] # NoTable
    /\ \E c \in left[t] :
        LET cell == <<<<t, table[t]>>, c>> IN
        /\ left' = [left EXCEPT ![t] = @ \ {c}]
        /\ \/ missed' = missed \cup {cell} /\ UNCHANGED <<found, clean, twice>>
           \/ clean' = clean \cup {cell} /\ UNCHANGED <<found, missed, twice>>
           \/ /\ found' = found \cup {cell}
              /\ twice' = twice \cup ({cell} \cap found)
              /\ UNCHANGED <<clean, missed>>
    /\ UNCHANGED <<status, ckpt, gaveUp, loop, tpc, todo, table, runs, hasty, escaped, torn>>

\* Mutant of ColumnsDone: the checkpoint comes one column early.
ColumnsDoneButOne(t) == Cardinality(left[t]) <= 1

ColumnsDone(t) == left[t] = {}

\* mark_sql_table_completed
FinishTable(t) ==
    /\ tpc[t] = "scanning" /\ table[t] # NoTable
    /\ ColumnsDone(t)
    /\ ckpt' = [ckpt EXCEPT ![<<t, table[t]>>] = "completed"]
    /\ table' = [table EXCEPT ![t] = NoTable]
    /\ left' = [left EXCEPT ![t] = {}]
    /\ UNCHANGED <<status, found, clean, missed, gaveUp, loop, tpc, todo, ghosts>>

EndTarget(t) ==
    /\ tpc[t] = "scanning" /\ table[t] = NoTable /\ todo[t] = {}
    /\ Over(t, "ok")
    /\ UNCHANGED <<status, data, gaveUp, loop, ghosts>>

Step(t) == Discover(t) \/ StartTable(t) \/ SampleColumn(t) \/ FinishTable(t) \/ EndTarget(t)

Next ==
    \/ Start \/ Crash
    \/ RunNext \/ LeaveLoop \/ Submit \/ Wait \/ Interrupt \/ ShutDown \/ InterruptAgain \/ Finish
    \/ Pick
    \/ \E t \in Targets : Harvest(t) \/ GiveUp(t) \/ Raise(t) \/ Step(t)

\* The loop and the threads go on, and a connector's queries return.
Fairness ==
    /\ WF_vars(RunNext \/ LeaveLoop) /\ WF_vars(Submit \/ Wait)
    /\ WF_vars(\E t \in Targets : Harvest(t))
    /\ WF_vars(ShutDown) /\ WF_vars(Finish) /\ WF_vars(Pick)
    /\ \A t \in Targets : WF_vars(Step(t))

Spec == Init /\ [][Next]_vars
FairSpec == Spec /\ Fairness

-----------------------------------------------------------------------------
(* Properties.                                                             *)

\* A table whose checkpoint says completed is accounted for, column by column:
\* whenever the process is killed, and however often it is resumed, each column
\* was sampled or scan_failures tells that its sample failed.
CompletedTablesAccountedFor ==
    \A w \in Work : ckpt[w] = "completed" => {w} \X Columns \subseteq found \cup clean \cup missed

\* A finding is saved twice only in a table that an earlier run left unfinished:
\* resuming does not scan completed tables again.
TwiceOnlyIfTorn == twice \subseteq torn \X Columns

\* A session that ends as completed ran every target, each to the end of its
\* tables or to a failure that this run saved, and one that ends with errors has
\* a target that raised.  (A sequential loop that an exception left is the
\* exception: it ends as completed as well.)
EndStatusTellsTheTruth ==
    /\ status = "completed" /\ ~escaped =>
        \A t \in Targets :
            /\ tpc[t] = "ok"
            /\ t \in gaveUp \/ CompletedTables(t) = TablesOf[t]
    /\ status = "completed_errors" => Having({"raised"}) # {} /\ Having(Open) = {}

\* When a session has its final status nobody works on it any more: no late
\* finding, no late checkpoint, unless Ctrl+C was pressed twice.
SessionEndsQuiet ==
    status \in {"completed", "completed_errors", "interrupted"} /\ ~hasty => Having(Open) = {}

\* A run that is not killed, and whose queries return, ends: the adaptive loop
\* does not wait for a future that it never submits or has already taken.
RunEnds == main # "off" ~> main = "off"

\* What --resume promises: see ResumableScan.
Ledger == INSTANCE ResumableScan WITH done <- {w \in Work : ckpt[w] = "completed"}
KeepsLedger == Ledger!Spec
=============================================================================
