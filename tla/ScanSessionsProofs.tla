------------------------- MODULE ScanSessionsProofs -------------------------
(***************************************************************************)
(* Proofs about ScanSessions, for any processes, hosts, pids and sessions. *)
(***************************************************************************)
EXTENDS ScanSessions, TLAPS

ConstantAssumptions ==
    /\ Servers \subseteq Procs
    /\ HostOf \in [Procs -> Hosts]
    /\ Legacy \subseteq Sessions
    /\ MaxPid \in Nat
    /\ NoSession \notin Sessions
    /\ NoProc \notin Procs
    /\ NoHost \notin Hosts

LEMMA Constants == ConstantAssumptions
BY ServersAssumption, HostOfAssumption, LegacyAssumption, PidsAssumption, NullsAssumption
DEF ConstantAssumptions

-----------------------------------------------------------------------------
(* Type correctness.                                                       *)

\* Dying keeps the local state well typed.
LEMMA DiesType ==
    ASSUME TypeOK, NEW p \in Procs, Dies(p)
    PROVE  /\ pc' \in [Procs -> Locations]
           /\ pid' \in [Procs -> Pids \cup {NoPid}]
           /\ cur' \in [Procs -> Sessions \cup {NoSession}]
           /\ outcome' \in [Procs -> Terminal]
           /\ snap' \in [Procs -> SUBSET SeenRow]
           /\ doomed' \in [Procs -> SUBSET Sessions]
           /\ lastPid' \in [Hosts -> Pids \cup {NoPid}]
           /\ contested' \subseteq Sessions
           /\ stranded' \in [Procs -> SUBSET Sessions]
BY DEF TypeOK, Dies, Locations, Terminal

\* A process that has started holds a session.
HoldersHaveSessions ==
    \A p \in Procs : pc[p] \notin Starting \cup {"dead"} => cur[p] \in Sessions

TypeInv == TypeOK /\ HoldersHaveSessions

LEMMA TypeInit == Init => TypeInv
BY Constants DEF ConstantAssumptions, Init, TypeInv, TypeOK, HoldersHaveSessions,
    Status, Terminal, Locations, Starting, NoPid

LEMMA TypeStep ==
    ASSUME TypeInv, [Next]_vars
    PROVE  TypeInv'
<1> USE Constants DEF ConstantAssumptions, TypeInv
<1>1. CASE UNCHANGED vars
  BY <1>1 DEF TypeOK, HoldersHaveSessions, vars, db, local, history
<1>2. ASSUME NEW p \in Procs, Spawn(p)
      PROVE  TypeInv'
  BY <1>2 DEF Spawn, PidIsFree, TypeOK, HoldersHaveSessions, Locations, Starting,
      Working, CleaningUp, db
<1>3. ASSUME NEW p \in Procs, Crash(p)
      PROVE  TypeInv'
  BY <1>3, DiesType DEF Crash, Dies, TypeOK, HoldersHaveSessions
<1>4. ASSUME NEW p \in Procs, ReapRead(p)
      PROVE  TypeInv'
  BY <1>4 DEF ReapRead, TypeOK, HoldersHaveSessions, Locations, Starting, SeenRow, db
<1>5. ASSUME NEW p \in Procs, ReapSkip(p)
      PROVE  TypeInv'
  BY <1>5 DEF ReapSkip, TypeOK, HoldersHaveSessions, db, history
<1>6. ASSUME NEW p \in Procs, ReapUpdate(p)
      PROVE  TypeInv'
  BY <1>6 DEF ReapUpdate, TypeOK, HoldersHaveSessions, SeenRow, history
<1>7. ASSUME NEW p \in Procs, ReapCommit(p)
      PROVE  TypeInv'
  BY <1>7 DEF ReapCommit, TypeOK, HoldersHaveSessions, Status, Terminal, Locations,
      Starting, history
<1>8. ASSUME NEW p \in Procs, StartNew(p)
      PROVE  TypeInv'
  BY <1>8 DEF StartNew, TypeOK, HoldersHaveSessions, Status, Locations, Working, history
<1>9. ASSUME NEW p \in Procs, ResumeRead(p)
      PROVE  TypeInv'
  BY <1>9 DEF ResumeRead, TypeOK, HoldersHaveSessions, Locations, db
<1>10. ASSUME NEW p \in Procs, Reopen(p)
       PROVE  TypeInv'
  BY SMTT(30), <1>10 DEF Reopen, TypeOK, HoldersHaveSessions, Status, Locations, Starting, Working
<1>11. ASSUME NEW p \in Procs, TargetsDone(p)
       PROVE  TypeInv'
  BY <1>11 DEF TargetsDone, Finished, Terminal, TypeOK, HoldersHaveSessions, Locations,
      Starting, Working, db, history
<1>12. ASSUME NEW p \in Procs, Interrupt(p)
       PROVE  TypeInv'
  BY <1>12 DEF Interrupt, Terminal, TypeOK, HoldersHaveSessions, Locations, Starting,
      Working, CleaningUp, db, history
<1>13. ASSUME NEW p \in Procs, FinishRead(p)
       PROVE  TypeInv'
  BY SMTT(30), <1>13, DiesType DEF FinishRead, Proceed, AfterFinish, Dies, TypeOK, HoldersHaveSessions,
      Locations, Starting, Working, CleaningUp, db, history
<1>14. ASSUME NEW p \in Procs, FinishWrite(p)
       PROVE  TypeInv'
  <2>1. HoldersHaveSessions'
    BY <1>14 DEF FinishWrite, Proceed, AfterFinish, Dies, TypeOK, HoldersHaveSessions,
        Locations, Starting, Working, CleaningUp, history
  <2>2. cur[p] \in Sessions /\ outcome[p] \in Terminal
    BY <1>14 DEF FinishWrite, TypeOK, HoldersHaveSessions, Starting
  <2>3. status' \in [Sessions -> Status]
    BY <1>14, <2>2 DEF FinishWrite, TypeOK, Status
  <2>4. TypeOK'
    BY <1>14, <2>3, DiesType DEF FinishWrite, Proceed, AfterFinish, TypeOK, Locations, Starting,
        Working, CleaningUp, history
  <2> QED BY <2>1, <2>4
<1>15. ASSUME NEW p \in Procs, Reported(p) \/ Exit(p)
       PROVE  TypeInv'
  BY <1>15, DiesType DEF Reported, Exit, Dies, TypeOK, HoldersHaveSessions, Locations,
      Starting, db, history
<1>16. ASSUME NEW p \in Procs, Rebuild(p)
       PROVE  TypeInv'
  BY <1>16 DEF Rebuild, TypeOK, HoldersHaveSessions, Locations, Starting, db, history
<1>17. ASSUME NEW p \in Procs, Wipe(p)
       PROVE  TypeInv'
  BY <1>17, DiesType DEF Wipe, Dies, TypeOK, HoldersHaveSessions, Status
<1> QED
  BY <1>1, <1>2, <1>3, <1>4, <1>5, <1>6, <1>7, <1>8, <1>9, <1>10, <1>11, <1>12, <1>13,
     <1>14, <1>15, <1>16, <1>17 DEF Next

\* Every variable keeps its type, and a started process has a session.
THEOREM TypeCorrect == Spec => []TypeOK
<1>1. TypeInv /\ [Next]_vars => TypeInv'
  BY TypeStep
<1>2. TypeInv => TypeOK
  BY DEF TypeInv
<1> QED BY TypeInit, <1>1, <1>2, PTL DEF Spec

-----------------------------------------------------------------------------
(* The reaper's transaction.  While a process has rows to commit it holds  *)
(* the write lock, and every other write of a status waits for the lock.   *)

WriteLocked ==
    /\ \A p \in Procs : writer = p \/ snap[p] # {} => pc[p] = "reaping"
    /\ \A p \in Procs : doomed[p] # {} => writer = p
    /\ ReaperSparesFinished

LEMMA WriteLockedInit == Init => WriteLocked
BY Constants DEF ConstantAssumptions, Init, WriteLocked, ReaperSparesFinished

LEMMA WriteLockedStep ==
    ASSUME TypeInv, WriteLocked, [Next]_vars
    PROVE  WriteLocked'
<1> USE Constants DEF ConstantAssumptions, TypeInv, WriteLocked, ReaperSparesFinished
<1>1. CASE UNCHANGED vars
  BY <1>1 DEF vars, db, local
<1>2. ASSUME NEW p \in Procs, Spawn(p) \/ ReapRead(p) \/ Rebuild(p)
      PROVE  WriteLocked'
  BY <1>2 DEF Spawn, ReapRead, Rebuild, TypeOK, db
<1>3. ASSUME NEW p \in Procs, Crash(p)
      PROVE  WriteLocked'
  BY <1>3 DEF Crash, Dies, TypeOK
<1>4. ASSUME NEW p \in Procs, ReapSkip(p)
      PROVE  WriteLocked'
  BY <1>4 DEF ReapSkip, TypeOK, db
<1>5. ASSUME NEW p \in Procs, ReapUpdate(p)
      PROVE  WriteLocked'
  BY <1>5 DEF ReapUpdate, MatchesReap, TypeOK
<1>6. ASSUME NEW p \in Procs, ReapCommit(p)
      PROVE  WriteLocked'
  <2>1. \A q \in Procs \ {p} : doomed[q] # {} => doomed[p] = {}
    OBVIOUS
  <2> QED BY <1>6, <2>1 DEF ReapCommit, TypeOK
<1>7. ASSUME NEW p \in Procs, StartNew(p) \/ Reopen(p)
      PROVE  WriteLocked'
  BY <1>7 DEF StartNew, Reopen, TypeOK
<1>8. ASSUME NEW p \in Procs, ResumeRead(p) \/ TargetsDone(p) \/ Interrupt(p)
      PROVE  WriteLocked'
  BY <1>8 DEF ResumeRead, TargetsDone, Interrupt, Working, TypeOK, db
<1>9. ASSUME NEW p \in Procs, FinishRead(p)
      PROVE  WriteLocked'
  BY <1>9 DEF FinishRead, Proceed, Dies, TypeOK, db
<1>10. ASSUME NEW p \in Procs, FinishWrite(p)
       PROVE  WriteLocked'
  <2>1. \A q \in Procs : doomed[q] = {} /\ writer # q
    BY <1>10 DEF FinishWrite
  <2>2. doomed' = [q \in Procs |-> {}] /\ writer' = writer
    BY <1>10, <2>1 DEF FinishWrite, Proceed, Dies, TypeOK
  <2>3. \A q \in Procs : snap'[q] # {} => pc'[q] = "reaping"
    BY <1>10 DEF FinishWrite, Proceed, Dies, TypeOK
  <2> QED BY <2>1, <2>2, <2>3
<1>11. ASSUME NEW p \in Procs, Reported(p) \/ Exit(p)
       PROVE  WriteLocked'
  BY <1>11 DEF Reported, Exit, Dies, TypeOK, db
<1>12. ASSUME NEW p \in Procs, Wipe(p)
       PROVE  WriteLocked'
  <2>1. \A q \in Procs : doomed[q] = {} /\ writer # q
    BY <1>12 DEF Wipe
  <2>2. doomed' = [q \in Procs |-> {}] /\ writer' = writer
    BY <1>12, <2>1 DEF Wipe, Dies, TypeOK
  <2>3. \A q \in Procs : snap'[q] # {} => pc'[q] = "reaping"
    BY <1>12 DEF Wipe, Dies, TypeOK
  <2> QED BY <2>1, <2>2, <2>3
<1> QED
  BY <1>1, <1>2, <1>3, <1>4, <1>5, <1>6, <1>7, <1>8, <1>9, <1>10, <1>11, <1>12 DEF Next

\* A scan that finishes while a reaper works keeps its final status: what the
\* reaper commits as interrupted is still running when it commits.
THEOREM ReaperIsolation == Spec => []ReaperSparesFinished
<1>1. TypeInv /\ WriteLocked /\ [Next]_vars => TypeInv' /\ WriteLocked'
  BY TypeStep, WriteLockedStep
<1>2. WriteLocked => ReaperSparesFinished
  BY DEF WriteLocked
<1> QED BY TypeInit, WriteLockedInit, <1>1, <1>2, PTL DEF Spec
-----------------------------------------------------------------------------
(* Ownership of uncontested sessions.  LiveScanOwnsItsRow is not inductive *)
(* by itself: a reaper may hold an old copy of the row, or an uncommitted  *)
(* update of it, and a second process may be on its way to finish_session. *)

Uncontested == Sessions \ contested
WorksOn(p, s) == Holds(p, s) /\ pc[p] \in Working

\* Sessions that a process or a reaper knows have a row.
KnownSessionsExist ==
    /\ \A p \in Procs, s \in Sessions : Holds(p, s) => status[s] # "absent"
    /\ \A p \in Procs : \A r \in snap[p] : status[r.id] # "absent"

SoleHolder ==
    \A p, q \in Procs, s \in Uncontested : Holds(p, s) /\ Holds(q, s) => p = q

\* A reaper's copy of the row names the process that works on it.
ReapersSeeOwner ==
    \A p, q \in Procs, s \in Uncontested :
        WorksOn(p, s) =>
            /\ \A r \in snap[q] : r.id = s => r.pid = pid[p] /\ r.host = HostOf[p]
            /\ s \notin doomed[q]

ResumeNotCompleted ==
    \A p \in Procs, s \in Uncontested :
        Holds(p, s) /\ pc[p] = "resuming" => status[s] # "completed"

\* main's handler of KeyboardInterrupt can only write what is there already.
CleanupHarmless ==
    /\ \A p \in Procs : pc[p] \in CleaningUp => outcome[p] = "interrupted"
    /\ \A p \in Procs, s \in Uncontested :
        Holds(p, s) /\ pc[p] = "cleanupWrite" => status[s] \in {"running", "interrupted", "wiped"}

Ownership ==
    /\ KnownSessionsExist
    /\ SoleHolder
    /\ LiveScanOwnsItsRow
    /\ ReapersSeeOwner
    /\ ResumeNotCompleted
    /\ CleanupHarmless

\* The end of one process takes nothing from the others.
LEMMA DiesAlone ==
    ASSUME TypeOK, NEW p \in Procs, Dies(p)
    PROVE  /\ \A q \in Procs, s \in Sessions : Holds(q, s)' => q # p /\ Holds(q, s)
           /\ \A q \in Procs \ {p} : /\ pc'[q] = pc[q]
                                     /\ pid'[q] = pid[q]
                                     /\ outcome'[q] = outcome[q]
           /\ \A q \in Procs : snap'[q] \subseteq snap[q] /\ doomed'[q] \subseteq doomed[q]
           /\ pc'[p] = "dead"
           /\ contested' = contested
BY DEF TypeOK, Dies, Holds, Starting

\* It preserves ownership as long as it leaves the rows alone or wipes them.
LEMMA DiesOwnership ==
    ASSUME TypeInv, Ownership, NEW p \in Procs, Dies(p),
           rowPid' = rowPid, rowHost' = rowHost,
           \A s \in Sessions : \/ status'[s] = status[s]
                               \/ status[s] # "absent" /\ status'[s] = "wiped"
    PROVE  Ownership'
<1> USE Constants DEF ConstantAssumptions, TypeInv, Ownership, WorksOn, Uncontested, TypeOK
<1>1. KnownSessionsExist'
  BY DiesAlone DEF KnownSessionsExist, SeenRow
<1>2. SoleHolder'
  BY DiesAlone DEF SoleHolder
<1>3. LiveScanOwnsItsRow'
  BY DiesAlone DEF LiveScanOwnsItsRow
<1>4. ReapersSeeOwner'
  BY DiesAlone DEF ReapersSeeOwner
<1>5. ResumeNotCompleted'
  BY DiesAlone DEF ResumeNotCompleted
<1>6. CleanupHarmless'
  BY SMTT(30), DiesAlone DEF CleanupHarmless, CleaningUp
<1> QED BY <1>1, <1>2, <1>3, <1>4, <1>5, <1>6

LEMMA OwnershipInit == Init => Ownership
BY DEF Init, Ownership, KnownSessionsExist, SoleHolder, LiveScanOwnsItsRow, ReapersSeeOwner,
    ResumeNotCompleted, CleanupHarmless, WorksOn, Holds, Uncontested, Working, CleaningUp

LEMMA OwnershipStep ==
    ASSUME TypeInv, WriteLocked, Ownership, [Next]_vars
    PROVE  Ownership'
<1>0. ASSUME NEW p \in Procs, Dies(p),
             Crash(p) \/ FinishRead(p) \/ Reported(p) \/ Exit(p) \/ Wipe(p)
      PROVE  Ownership'
  <2>1. rowPid' = rowPid /\ rowHost' = rowHost
    BY <1>0 DEF Crash, FinishRead, Reported, Exit, Wipe, db
  <2>2. \A s \in Sessions : \/ status'[s] = status[s]
                            \/ status[s] # "absent" /\ status'[s] = "wiped"
    <3>1. CASE Crash(p) \/ FinishRead(p) \/ Reported(p) \/ Exit(p)
      BY <3>1 DEF Crash, FinishRead, Reported, Exit, db
    <3>2. CASE Wipe(p)
      BY <3>2 DEF Wipe
    <3> QED BY <1>0, <3>1, <3>2
  <2> QED BY <1>0, <2>1, <2>2, DiesOwnership
<1> USE Constants DEF ConstantAssumptions, TypeInv, Ownership, KnownSessionsExist,
        SoleHolder, LiveScanOwnsItsRow, ReapersSeeOwner, ResumeNotCompleted, CleanupHarmless,
        WorksOn, Holds, Uncontested, Starting, Working, CleaningUp, TypeOK
<1>1. CASE UNCHANGED vars
  BY <1>1 DEF vars, db, local, history
<1>2. ASSUME NEW p \in Procs, Spawn(p)
      PROVE  Ownership'
  BY <1>2 DEF Spawn, db
<1>3. ASSUME NEW p \in Procs, Crash(p)
      PROVE  Ownership'
  BY <1>3, <1>0 DEF Crash
<1>4. ASSUME NEW p \in Procs, ReapRead(p)
      PROVE  Ownership'
  BY <1>4 DEF ReapRead, db
<1>5. ASSUME NEW p \in Procs, ReapSkip(p)
      PROVE  Ownership'
  BY <1>5 DEF ReapSkip, db, history
<1>6. ASSUME NEW p \in Procs, ReapUpdate(p)
      PROVE  Ownership'
  BY <1>6 DEF ReapUpdate, Spared, PidIsAlive, MatchesReap, history
<1>7. ASSUME NEW p \in Procs, ReapCommit(p)
      PROVE  Ownership'
  <2> USE <1>7 DEF ReapCommit, history
  <2>1. \A s \in Sessions : \/ status'[s] = status[s]
                            \/ /\ s \in doomed[p] /\ status[s] = "running"
                               /\ status'[s] = "interrupted"
    BY DEF WriteLocked, ReaperSparesFinished
  <2>2. \A q \in Procs, s \in Sessions : Holds(q, s)' <=> Holds(q, s)
    OBVIOUS
  <2>3. KnownSessionsExist' /\ SoleHolder'
    BY <2>1, <2>2 DEF SeenRow
  <2>4. LiveScanOwnsItsRow' /\ ReapersSeeOwner'
    BY <2>1, <2>2
  <2>5. ResumeNotCompleted' /\ CleanupHarmless'
    BY <2>1, <2>2
  <2> QED BY <2>3, <2>4, <2>5
<1>8. ASSUME NEW p \in Procs, StartNew(p)
      PROVE  Ownership'
  BY <1>8 DEF StartNew, WriteLocked, ReaperSparesFinished, history
<1>9. ASSUME NEW p \in Procs, ResumeRead(p)
      PROVE  Ownership'
  BY <1>9 DEF ResumeRead, db
<1>10. ASSUME NEW p \in Procs, Reopen(p)
       PROVE  Ownership'
  <2> DEFINE s == cur[p]
  <2> USE <1>10 DEF Reopen
  <2>1. s \in Sessions /\ Holds(p, s) /\ pc'[p] = "running"
    BY SMTT(30) DEF HoldersHaveSessions
  <2>2. \A q \in Procs, t \in Sessions : Holds(q, t)' <=> Holds(q, t)
    OBVIOUS
  <2>3. \A t \in Sessions \ {s} : /\ status'[t] = status[t]
                                  /\ rowPid'[t] = rowPid[t]
                                  /\ rowHost'[t] = rowHost[t]
    BY <2>1
  <2>4. \/ status[s] = "wiped" /\ status'[s] = "wiped"
        \/ status'[s] = "running" /\ rowPid'[s] = pid[p] /\ rowHost'[s] = HostOf[p]
    BY <2>1
  <2>5. \A q \in Procs : doomed[q] = {}
    BY SMTT(30) DEF WriteLocked
  <2>6. s \in Uncontested' => \A q \in Procs : \A r \in snap[q] : r.id # s
    BY <2>1
  <2>7. KnownSessionsExist' /\ SoleHolder'
    BY <2>1, <2>2, <2>3, <2>4 DEF SeenRow
  <2>8. LiveScanOwnsItsRow'
    BY <2>1, <2>2, <2>3, <2>4
  <2>9. ReapersSeeOwner'
    BY <2>1, <2>2, <2>5, <2>6
  <2>10. ResumeNotCompleted' /\ CleanupHarmless'
    BY <2>1, <2>2, <2>3, <2>4
  <2> QED BY <2>7, <2>8, <2>9, <2>10
<1>11. ASSUME NEW p \in Procs, TargetsDone(p)
       PROVE  Ownership'
  BY <1>11 DEF TargetsDone, db, history
<1>12. ASSUME NEW p \in Procs, Interrupt(p)
       PROVE  Ownership'
  BY <1>12 DEF Interrupt, db, history
<1>13. ASSUME NEW p \in Procs, FinishRead(p)
       PROVE  Ownership'
  <2>1. CASE Dies(p)
    BY <1>13, <2>1, <1>0
  <2>2. CASE ~Dies(p)
    <3>1. /\ pc' = [pc EXCEPT ![p] = pc'[p]]
          /\ pc'[p] \in {"finishWrite", "cleanupWrite", "cleanup", "report"}
          /\ pc'[p] = "finishWrite" => pc[p] = "finish"
          /\ pc'[p] = "cleanupWrite" => pc[p] = "cleanup" /\ status[cur[p]] = "running"
          /\ pc'[p] = "cleanup" => outcome[p] = "interrupted"
          /\ pc[p] \in {"finish", "cleanup"}
      BY <1>13, <2>2 DEF FinishRead, Proceed, AfterFinish
    <3>2. UNCHANGED <<status, rowPid, rowHost, pid, cur, outcome, snap, doomed, contested>>
      BY <1>13, <2>2 DEF FinishRead, Proceed, db, history
    <3> QED BY SMTT(30), <3>1, <3>2
  <2> QED BY <2>1, <2>2
<1>14. ASSUME NEW p \in Procs, FinishWrite(p)
       PROVE  Ownership'
  <2> DEFINE s == cur[p]
  <2>1. s \in Sessions /\ Holds(p, s) /\ \A q \in Procs : doomed[q] = {}
    BY <1>14 DEF FinishWrite, HoldersHaveSessions, WriteLocked
  <2>2. /\ \A t \in Sessions \ {s} : status'[t] = status[t]
        /\ status'[s] # "absent"
        /\ UNCHANGED <<rowPid, rowHost>>
    BY <1>14, <2>1 DEF FinishWrite, Terminal
  <2>3. /\ \A q \in Procs, t \in Sessions : Holds(q, t)' => Holds(q, t)
        /\ \A q \in Procs \ {p} : UNCHANGED <<pc[q], pid[q], outcome[q]>>
        /\ \A q \in Procs : snap'[q] \subseteq snap[q] /\ doomed'[q] = {}
        /\ pc'[p] \in {"dead", "ready", "cleanup", "report"}
        /\ pc'[p] = "cleanup" => outcome'[p] = "interrupted"
        /\ contested' = contested
    BY SMTT(30), <1>14, <2>1 DEF FinishWrite, Proceed, AfterFinish, Dies, history
  <2>4. \A q \in Procs, t \in Uncontested :
            Holds(q, t)' /\ q # p => status'[t] = status[t]
    BY SMTT(30), <2>1, <2>2, <2>3
  <2>5. KnownSessionsExist' /\ SoleHolder'
    BY SMTT(30), <2>2, <2>3 DEF SeenRow
  <2>6. LiveScanOwnsItsRow' /\ ReapersSeeOwner'
    BY <2>2, <2>3, <2>4
  <2>7. ResumeNotCompleted' /\ CleanupHarmless'
    BY SMTT(30), <2>2, <2>3, <2>4
  <2> QED BY <2>5, <2>6, <2>7
<1>15. ASSUME NEW p \in Procs, Reported(p) \/ Exit(p)
       PROVE  Ownership'
  <2>1. CASE Dies(p)
    BY <1>15, <2>1, <1>0
  <2>2. CASE ~Dies(p)
    <3>1. pc[p] = "report" /\ pc' = [pc EXCEPT ![p] = "ready"]
      BY <1>15, <2>2 DEF Reported, Exit
    <3>2. UNCHANGED <<db, pid, cur, outcome, snap, doomed, history>>
      BY <1>15, <2>2 DEF Reported, Exit
    <3> QED BY <3>1, <3>2 DEF db, history
  <2> QED BY <2>1, <2>2
<1>16. ASSUME NEW p \in Procs, Rebuild(p)
       PROVE  Ownership'
  BY <1>16 DEF Rebuild, db, history
<1>17. ASSUME NEW p \in Procs, Wipe(p)
       PROVE  Ownership'
  BY <1>17, <1>0 DEF Wipe
<1> QED
  BY <1>1, <1>2, <1>3, <1>4, <1>5, <1>6, <1>7, <1>8, <1>9, <1>10, <1>11, <1>12, <1>13,
     <1>14, <1>15, <1>16, <1>17 DEF Next

\* While a scan works on a session nobody contests, the row is its own: the
\* reaper of another process, another scan or a late finish never takes it.
THEOREM LiveScansKeepTheirRows == Spec => []LiveScanOwnsItsRow
<1> DEFINE Inv == TypeInv /\ WriteLocked /\ Ownership
<1>1. Init => Inv
  BY TypeInit, WriteLockedInit, OwnershipInit
<1>2. Inv /\ [Next]_vars => Inv'
  BY TypeStep, WriteLockedStep, OwnershipStep
<1>3. Inv => LiveScanOwnsItsRow
  BY DEF Ownership
<1> QED BY <1>1, <1>2, <1>3, PTL DEF Spec

\* What one step can do to a terminal status.
StatusKept ==
    \A s \in Sessions \ contested' :
        /\ status[s] \in Terminal => status'[s] \in {status[s], "running", "wiped"}
        /\ status[s] = "completed" => status'[s] \in {"completed", "wiped"}

LEMMA StatusStep ==
    ASSUME TypeInv, WriteLocked, Ownership, [Next]_vars
    PROVE  StatusKept
<1> USE DEF StatusKept, TypeInv, TypeOK, Terminal
<1>1. CASE UNCHANGED status
  BY <1>1
<1>2. ASSUME NEW p \in Procs, ReapCommit(p)
      PROVE  StatusKept
  BY <1>2 DEF ReapCommit, WriteLocked, ReaperSparesFinished
<1>3. ASSUME NEW p \in Procs, StartNew(p)
      PROVE  StatusKept
  BY <1>3 DEF StartNew
<1>4. ASSUME NEW p \in Procs, Reopen(p)
      PROVE  StatusKept
  <2>1. cur[p] \in Sessions /\ Holds(p, cur[p])
    BY <1>4 DEF Reopen, Holds, HoldersHaveSessions, Starting
  <2>2. contested \subseteq contested'
    BY <1>4 DEF Reopen
  <2>3. cur[p] \notin contested' => status[cur[p]] # "completed"
    BY <1>4, <2>1, <2>2 DEF Reopen, Ownership, ResumeNotCompleted, Uncontested
  <2> QED BY <1>4, <2>1, <2>3 DEF Reopen
<1>5. ASSUME NEW p \in Procs, FinishWrite(p)
      PROVE  StatusKept
  <2>1. cur[p] \in Sessions /\ Holds(p, cur[p])
    BY <1>5 DEF FinishWrite, Holds, HoldersHaveSessions, Starting
  <2>2. contested' = contested
    BY <1>5 DEF FinishWrite, Proceed, Dies, history
  <2>3. CASE pc[p] = "finishWrite"
    BY <1>5, <2>1, <2>2, <2>3
    DEF FinishWrite, Ownership, LiveScanOwnsItsRow, Working
  <2>4. CASE pc[p] = "cleanupWrite"
    BY <1>5, <2>1, <2>2, <2>4
    DEF FinishWrite, Ownership, CleanupHarmless, CleaningUp, Uncontested
  <2> QED BY <1>5, <2>3, <2>4 DEF FinishWrite
<1>6. ASSUME NEW p \in Procs, Wipe(p)
      PROVE  StatusKept
  BY <1>6 DEF Wipe
<1>7. ASSUME NEW p \in Procs,
             \/ Spawn(p) \/ Crash(p) \/ ReapRead(p) \/ ReapSkip(p) \/ ReapUpdate(p)
             \/ ResumeRead(p) \/ TargetsDone(p) \/ Interrupt(p) \/ FinishRead(p)
             \/ Reported(p) \/ Exit(p) \/ Rebuild(p)
      PROVE  UNCHANGED status
  BY <1>7 DEF Spawn, Crash, ReapRead, ReapSkip, ReapUpdate, ResumeRead, TargetsDone,
      Interrupt, FinishRead, Reported, Exit, Rebuild, db
<1>8. CASE UNCHANGED vars
  BY <1>8 DEF vars, db
<1> QED BY <1>1, <1>2, <1>3, <1>4, <1>5, <1>6, <1>7, <1>8 DEF Next

\* A terminal status is final but for a resume or a wipe, although
\* finish_session writes a row it read in an earlier transaction; and a
\* completed session is never run again.
THEOREM TerminalStatusSticks == Spec => TerminalSticks
<1> DEFINE Inv == TypeInv /\ WriteLocked /\ Ownership
<1>1. Init => Inv
  BY TypeInit, WriteLockedInit, OwnershipInit
<1>2. Inv /\ [Next]_vars => Inv'
  BY TypeStep, WriteLockedStep, OwnershipStep
<1>3. Inv /\ [Next]_vars => [StatusKept]_vars
  BY StatusStep
<1> QED BY <1>1, <1>2, <1>3, PTL DEF Spec, TerminalSticks, StatusKept

-----------------------------------------------------------------------------
(* Orphans.  NoOrphanSurvivesReap needs to know what becomes of a session  *)
(* between the moment a reaper reads its row and the reaper's commit.      *)

Live(p) == pc[p] # "dead"

\* Pids are handed out in order: live processes of a host have different ones,
\* and rows only have pids that were handed out.
PidsInOrder ==
    /\ \A p \in Procs : Live(p) => pid[p] \in 1..lastPid[HostOf[p]]
    /\ \A p, q \in Procs :
          Live(p) /\ Live(q) /\ HostOf[p] = HostOf[q] /\ pid[p] = pid[q] => p = q
    /\ \A s \in Sessions : rowPid[s] \in
          IF rowHost[s] = NoHost THEN {NoPid} ELSE 0..lastPid[rowHost[s]]

\* The process that a running row names works on it, or is finishing it.
NamedOwnerHolds ==
    \A p \in Procs, s \in Sessions :
        status[s] = "running" /\ Live(p) /\ HostOf[p] = rowHost[s] /\ pid[p] = rowPid[s] =>
            cur[p] = s /\ pc[p] \in Working \cup CleaningUp

\* No live process has the pid of the row of s, as p's reaper sees it.
Ownerless(p, s) == rowHost[s] \in {HostOf[p], NoHost} /\ ~PidIsAlive(HostOf[p], rowPid[s])

\* A session that was stranded and still is running has no owner, and the reaper
\* has its row yet to examine, or to commit.
StrandedAreReaped ==
    \A p \in Procs : \A s \in stranded[p] :
        /\ status[s] # "absent"
        /\ pc[p] \notin {"dead", "boot"} /\ status[s] = "running" =>
              /\ pc[p] = "reaping"
              /\ Ownerless(p, s)
              /\ \/ [id |-> s, pid |-> rowPid[s], host |-> rowHost[s]] \in snap[p]
                 \/ s \in doomed[p]

OrphanInv == ~ReusePids => PidsInOrder /\ NamedOwnerHolds /\ StrandedAreReaped

LEMMA OrphanInit == Init => OrphanInv
BY Constants DEF ConstantAssumptions, Init, OrphanInv, PidsInOrder, NamedOwnerHolds,
    StrandedAreReaped, Live, NoPid

\* Rows are what they were, or no longer running, and no process is new.
LEMMA OrphanQuiet ==
    ASSUME TypeInv, PidsInOrder, NamedOwnerHolds, StrandedAreReaped,
           NEW p \in Procs,
           UNCHANGED <<rowPid, rowHost, lastPid>>,
           \A s \in Sessions : status'[s] # "running" \/ status[s] = "running",
           \A s \in Sessions : status'[s] = "absent" => status[s] = "absent",
           \A q \in Procs \ {p} : UNCHANGED <<pc[q], pid[q], cur[q], snap[q], doomed[q]>>,
           \A q \in Procs : stranded'[q] \subseteq stranded[q],
           Live(p)' => Live(p) /\ pid'[p] = pid[p],
           \/ ~Live(p)'
           \/ \A s \in Sessions :
                 status'[s] = "running" /\ cur[p] = s /\ pc[p] \in Working \cup CleaningUp =>
                    cur'[p] = s /\ pc'[p] \in Working \cup CleaningUp,
           \/ pc'[p] \in {"dead", "boot"}
           \/ \A s \in stranded[p] : status'[s] = "running" =>
                 /\ pc[p] \notin {"dead", "boot"}
                 /\ pc[p] = "reaping" => 
                       /\ pc'[p] = "reaping"
                       /\ Ownerless(p, s) =>
                            \/ [id |-> s, pid |-> rowPid[s], host |-> rowHost[s]] \in snap'[p]
                            \/ s \in doomed'[p]
    PROVE  PidsInOrder' /\ NamedOwnerHolds' /\ StrandedAreReaped'
<1> USE Constants DEF ConstantAssumptions
<1>0. TypeOK
  BY DEF TypeInv
<1>1. \A q \in Procs : Live(q)' => Live(q) /\ pid'[q] = pid[q]
  BY DEF Live
<1>2. PidsInOrder'
  BY <1>0, <1>1 DEF PidsInOrder
<1>3. NamedOwnerHolds'
  BY <1>0, <1>1 DEF NamedOwnerHolds, Live
<1>4. ASSUME NEW q \in Procs, NEW s \in Sessions, Ownerless(q, s)
      PROVE  Ownerless(q, s)'
  BY <1>1, <1>4 DEF Ownerless, PidIsAlive, Live
<1>5. ASSUME NEW q \in Procs, NEW s \in stranded'[q]
      PROVE  /\ status'[s] # "absent"
             /\ pc'[q] \notin {"dead", "boot"} /\ status'[s] = "running" =>
                   /\ pc'[q] = "reaping"
                   /\ Ownerless(q, s)'
                   /\ \/ [id |-> s, pid |-> rowPid[s], host |-> rowHost[s]]' \in snap'[q]
                      \/ s \in doomed'[q]
  <2>1. s \in stranded[q] /\ s \in Sessions
    BY <1>0, <1>5 DEF TypeOK
  <2>2. status'[s] # "absent"
    BY ZenonT(30), <2>1 DEF StrandedAreReaped
  <2>3. ASSUME pc'[q] \notin {"dead", "boot"}, status'[s] = "running"
        PROVE  /\ pc'[q] = "reaping"
               /\ Ownerless(q, s)
               /\ \/ [id |-> s, pid |-> rowPid[s], host |-> rowHost[s]] \in snap'[q]
                  \/ s \in doomed'[q]
    BY <2>1, <2>3 DEF StrandedAreReaped
  <2> QED BY <1>4, <2>1, <2>2, <2>3
<1>6. StrandedAreReaped'
  BY <1>5 DEF StrandedAreReaped
<1> QED BY <1>2, <1>3, <1>6

LEMMA OrphanStep ==
    ASSUME TypeInv, WriteLocked, OrphanInv, [Next]_vars
    PROVE  OrphanInv'
<1> SUFFICES ASSUME ~ReusePids
             PROVE  PidsInOrder' /\ NamedOwnerHolds' /\ StrandedAreReaped'
  BY DEF OrphanInv
<1> USE Constants DEF ConstantAssumptions
<1>0. TypeOK /\ HoldersHaveSessions /\ PidsInOrder /\ NamedOwnerHolds /\ StrandedAreReaped
  BY DEF TypeInv, OrphanInv
<1>1. CASE UNCHANGED vars
  BY <1>0, <1>1 DEF PidsInOrder, NamedOwnerHolds, StrandedAreReaped, Live, Ownerless, PidIsAlive,
      vars, db, local, history
<1>2. ASSUME NEW p \in Procs, Spawn(p)
      PROVE  PidsInOrder' /\ NamedOwnerHolds' /\ StrandedAreReaped'
  <2> DEFINE h == HostOf[p]
             i == lastPid[h] + 1
  <2>1. /\ i \in Pids /\ pc[p] = "dead"
        /\ pid' = [pid EXCEPT ![p] = i]
        /\ lastPid' = [lastPid EXCEPT ![h] = i]
        /\ pc' = [pc EXCEPT ![p] = "boot"]
        /\ UNCHANGED <<db, cur, outcome, snap, doomed, contested, stranded>>
    BY <1>2 DEF Spawn, PidIsFree
  <2>2. h \in Hosts /\ lastPid[h] \in Nat /\ \A g \in Hosts : lastPid[g] \in Nat
    BY <1>0 DEF TypeOK, Pids, NoPid
  <2>3. \A q \in Procs : Live(q)' <=> Live(q) \/ q = p
    BY <1>0, <2>1 DEF Live, TypeOK
  <2>4. pid'[p] = i /\ \A q \in Procs \ {p} : pid'[q] = pid[q]
    BY <1>0, <2>1 DEF TypeOK
  <2>5. lastPid'[h] = i /\ \A g \in Hosts \ {h} : lastPid'[g] = lastPid[g]
    BY <1>0, <2>1, <2>2 DEF TypeOK
  <2>6. \A g \in Hosts : lastPid'[g] \in Nat /\ lastPid[g] <= lastPid'[g]
    BY <2>2, <2>5
  <2>7. \A q \in Procs : Live(q) /\ HostOf[q] = h => pid[q] # i
    BY <1>0, <2>2 DEF PidsInOrder
  <2>8. \A s \in Sessions : rowHost[s] \in {h, NoHost} => rowPid[s] # i
    BY <1>0, <2>2 DEF PidsInOrder, NoPid
  <2> HIDE DEF h, i
  <2>9. PidsInOrder'
    <3>1. ASSUME NEW q \in Procs, Live(q)'
          PROVE  pid'[q] \in 1..lastPid'[HostOf[q]]
      <4>1. CASE q = p
        BY <2>2, <2>4, <2>5, <4>1 DEF i, h
      <4>2. CASE q # p
        <5>1. pid[q] \in 1..lastPid[HostOf[q]] /\ HostOf[q] \in Hosts
          BY <1>0, <2>3, <3>1, <4>2 DEF PidsInOrder
        <5> QED BY <2>2, <2>4, <2>6, <4>2, <5>1
      <4> QED BY <4>1, <4>2
    <3>2. ASSUME NEW q \in Procs, NEW r \in Procs, Live(q)', Live(r)',
                 HostOf[q] = HostOf[r], pid'[q] = pid'[r]
          PROVE  q = r
      BY <1>0, <2>3, <2>4, <2>7, <3>2 DEF PidsInOrder, h
    <3>3. ASSUME NEW s \in Sessions
          PROVE  rowPid'[s] \in IF rowHost'[s] = NoHost THEN {NoPid} ELSE 0..lastPid'[rowHost'[s]]
      <4>1. UNCHANGED <<rowPid, rowHost>>
        BY <2>1 DEF db
      <4>2. rowHost[s] = NoHost \/ rowHost[s] \in Hosts
        BY <1>0 DEF TypeOK
      <4> QED BY <1>0, <2>2, <2>6, <4>1, <4>2 DEF PidsInOrder
    <3> QED BY <3>1, <3>2, <3>3 DEF PidsInOrder
  <2>10. NamedOwnerHolds'
    BY <1>0, <2>1, <2>3, <2>4, <2>8 DEF NamedOwnerHolds, TypeOK, db, h
  <2>11. ASSUME NEW q \in Procs, NEW s \in Sessions, Ownerless(q, s)
         PROVE  Ownerless(q, s)'
    BY <2>1, <2>3, <2>4, <2>8, <2>11 DEF Ownerless, PidIsAlive, Live, db, h
  <2>12. StrandedAreReaped'
    BY <1>0, <2>1, <2>11 DEF StrandedAreReaped, TypeOK, db
  <2> QED BY <2>9, <2>10, <2>12
<1>3. ASSUME NEW p \in Procs, Dies(p),
             UNCHANGED <<rowPid, rowHost>>,
             \A s \in Sessions : status'[s] # "running" \/ status[s] = "running",
             \A s \in Sessions : status'[s] = "absent" => status[s] = "absent"
      PROVE  PidsInOrder' /\ NamedOwnerHolds' /\ StrandedAreReaped'
  <2>1. pc'[p] = "dead" /\ stranded'[p] = {} /\ lastPid' = lastPid
    BY <1>0, <1>3 DEF Dies, TypeOK
  <2>2. \A q \in Procs \ {p} : UNCHANGED <<pc[q], pid[q], cur[q], snap[q], doomed[q], stranded[q]>>
    BY <1>0, <1>3 DEF Dies, TypeOK
  <2> QED BY <1>0, <1>3, <2>1, <2>2, OrphanQuiet DEF Live
<1>4. ASSUME NEW p \in Procs, ReapRead(p)
      PROVE  PidsInOrder' /\ NamedOwnerHolds' /\ StrandedAreReaped'
  <2>1. /\ UNCHANGED <<status, rowPid, rowHost, pid, cur, doomed, lastPid>>
        /\ \A q \in Procs : Live(q)' <=> Live(q)
        /\ pc[p] = "boot" /\ pc'[p] = "reaping"
        /\ \A q \in Procs \ {p} : UNCHANGED <<pc[q], snap[q], stranded[q]>>
    BY <1>0, <1>4 DEF ReapRead, TypeOK, Live, db
  <2>2. PidsInOrder'
    BY <1>0, <2>1 DEF PidsInOrder
  <2>3. NamedOwnerHolds'
    BY <1>0, <2>1 DEF NamedOwnerHolds, Working, CleaningUp
  <2>4. ASSUME NEW q \in Procs, NEW s \in Sessions
        PROVE  Ownerless(q, s)' <=> Ownerless(q, s)
    BY <2>1 DEF Ownerless, PidIsAlive, Live
  <2>5. ASSUME NEW s \in stranded'[p]
        PROVE  /\ s \in Sessions /\ status[s] = "running"
               /\ Ownerless(p, s)
               /\ [id |-> s, pid |-> rowPid[s], host |-> rowHost[s]] \in snap'[p]
    <3>1. /\ s \in Sessions /\ status[s] = "running"
          /\ rowHost[s] \in {HostOf[p], NoHost}
          /\ \A q \in Procs : ~Holds(q, s)
          /\ [id |-> s, pid |-> rowPid[s], host |-> rowHost[s]] \in snap'[p]
      BY <1>0, <1>4, <2>5 DEF ReapRead, TypeOK
    <3>2. ASSUME NEW q \in Procs, Live(q), HostOf[q] = HostOf[p], pid[q] = rowPid[s]
          PROVE  FALSE
      <4>1. rowHost[s] # NoHost
        BY <1>0, <3>1, <3>2 DEF PidsInOrder, NoPid
      <4>2. cur[q] = s /\ pc[q] \in Working \cup CleaningUp
        BY <1>0, <3>1, <3>2, <4>1 DEF NamedOwnerHolds
      <4> QED BY <3>1, <4>2 DEF Holds, Starting, Working, CleaningUp
    <3> QED BY <3>1, <3>2 DEF Ownerless, PidIsAlive, Live
  <2>6. StrandedAreReaped'
    <3>1. ASSUME NEW s \in stranded'[p]
          PROVE  /\ status'[s] # "absent"
                 /\ pc'[p] = "reaping"
                 /\ Ownerless(p, s)'
                 /\ [id |-> s, pid |-> rowPid'[s], host |-> rowHost'[s]] \in snap'[p]
      BY <2>1, <2>4, <2>5
    <3>2. ASSUME NEW q \in Procs \ {p}, NEW s \in stranded'[q]
          PROVE  /\ status'[s] # "absent"
                 /\ pc'[q] \notin {"dead", "boot"} /\ status'[s] = "running" =>
                       /\ pc'[q] = "reaping"
                       /\ Ownerless(q, s)'
                       /\ \/ [id |-> s, pid |-> rowPid'[s], host |-> rowHost'[s]] \in snap'[q]
                          \/ s \in doomed'[q]
      <4>1. s \in stranded[q] /\ s \in Sessions
        BY <1>0, <2>1, <3>2 DEF TypeOK
      <4> QED BY <1>0, <2>1, <2>4, <4>1 DEF StrandedAreReaped
    <3> QED BY <3>1, <3>2 DEF StrandedAreReaped
  <2> QED BY <2>2, <2>3, <2>6
<1>5. ASSUME NEW p \in Procs, ReapSkip(p)
      PROVE  PidsInOrder' /\ NamedOwnerHolds' /\ StrandedAreReaped'
  <2>1. PICK r \in snap[p] : Spared(p, r) /\ snap' = [snap EXCEPT ![p] = @ \ {r}]
    BY <1>5 DEF ReapSkip
  <2>2. ASSUME NEW s \in Sessions, Ownerless(p, s),
               [id |-> s, pid |-> rowPid[s], host |-> rowHost[s]] \in snap[p]
        PROVE  [id |-> s, pid |-> rowPid[s], host |-> rowHost[s]] \in snap'[p]
    BY <1>0, <2>1, <2>2 DEF Ownerless, Spared, TypeOK
  <2> QED
    BY <1>0, <1>5, <2>1, <2>2, OrphanQuiet
    DEF ReapSkip, StrandedAreReaped, TypeOK, Live, db, history
<1>6. ASSUME NEW p \in Procs, ReapUpdate(p)
      PROVE  PidsInOrder' /\ NamedOwnerHolds' /\ StrandedAreReaped'
  <2>1. PICK r \in snap[p] :
          /\ snap' = [snap EXCEPT ![p] = @ \ {r}]
          /\ doomed' = [doomed EXCEPT ![p] = @ \cup {s \in {r.id} : MatchesReap(s)}]
    BY <1>6 DEF ReapUpdate
  <2>2. doomed[p] \subseteq doomed'[p]
    BY <1>0, <2>1 DEF TypeOK
  <2>3. ASSUME NEW s \in Sessions, status[s] = "running",
               [id |-> s, pid |-> rowPid[s], host |-> rowHost[s]] \in snap[p]
        PROVE  \/ [id |-> s, pid |-> rowPid[s], host |-> rowHost[s]] \in snap'[p]
               \/ s \in doomed'[p]
    <3>1. CASE r = [id |-> s, pid |-> rowPid[s], host |-> rowHost[s]]
      <4>1. r.id = s
        BY <3>1
      <4> QED BY <1>0, <2>1, <2>3, <4>1 DEF MatchesReap, TypeOK
    <3>2. CASE r # [id |-> s, pid |-> rowPid[s], host |-> rowHost[s]]
      BY <1>0, <2>1, <2>3, <3>2 DEF TypeOK
    <3> QED BY <3>1, <3>2
  <2> QED
    BY <1>0, <1>6, <2>1, <2>2, <2>3, OrphanQuiet
    DEF ReapUpdate, StrandedAreReaped, TypeOK, Live, history
<1>7. ASSUME NEW p \in Procs, ReapCommit(p)
      PROVE  PidsInOrder' /\ NamedOwnerHolds' /\ StrandedAreReaped'
  <2>1. \A s \in Sessions : /\ status'[s] = IF s \in doomed[p] THEN "interrupted" ELSE status[s]
    BY <1>7 DEF ReapCommit
  <2>2. \A s \in stranded[p] : status'[s] # "running"
    BY <1>0, <1>7, <2>1 DEF ReapCommit, StrandedAreReaped, TypeOK
  <2> QED
    BY <1>0, <1>7, <2>1, <2>2, OrphanQuiet
    DEF ReapCommit, TypeOK, Live, Working, CleaningUp, history
<1>8. ASSUME NEW p \in Procs, NEW s \in Sessions,
             pc[p] \in {"ready", "resuming"},
             pc' = [pc EXCEPT ![p] = "running"],
             cur' = [cur EXCEPT ![p] = s],
             UNCHANGED <<pid, snap, doomed, lastPid>>,
             status' = [status EXCEPT ![s] = "running"],
             rowPid' = [rowPid EXCEPT ![s] = pid[p]],
             rowHost' = [rowHost EXCEPT ![s] = HostOf[p]],
             \A q \in Procs : stranded'[q] \subseteq stranded[q] /\ s \notin stranded'[q]
      PROVE  PidsInOrder' /\ NamedOwnerHolds' /\ StrandedAreReaped'
  <2>1. /\ Live(p) /\ pc[p] \in {"ready", "resuming"} /\ pc'[p] = "running" /\ cur'[p] = s
        /\ UNCHANGED <<pid, snap, doomed, lastPid>>
        /\ \A q \in Procs \ {p} : UNCHANGED <<pc[q], cur[q]>>
    BY <1>0, <1>8 DEF TypeOK, Live
  <2>2. \A q \in Procs : Live(q)' <=> Live(q)
    BY <2>1 DEF Live
  <2>3. /\ status'[s] = "running" /\ rowPid'[s] = pid[p] /\ rowHost'[s] = HostOf[p]
        /\ \A t \in Sessions \ {s} : UNCHANGED <<status[t], rowPid[t], rowHost[t]>>
    BY <1>0, <1>8 DEF TypeOK
  <2>4. HostOf[p] \in Hosts /\ HostOf[p] # NoHost
    OBVIOUS
  <2>5. PidsInOrder'
    <3>1. pid[p] \in 0..lastPid[HostOf[p]]
      BY <1>0, <2>1, <2>4 DEF PidsInOrder, TypeOK, Pids, NoPid
    <3>2. \A t \in Sessions : rowPid'[t] \in
              IF rowHost'[t] = NoHost THEN {NoPid} ELSE 0..lastPid[rowHost'[t]]
      BY <1>0, <2>3, <2>4, <3>1 DEF PidsInOrder
    <3> QED BY <1>0, <2>1, <2>2, <3>2 DEF PidsInOrder
  <2>6. NamedOwnerHolds'
    <3>1. ASSUME NEW q \in Procs, NEW t \in Sessions, status'[t] = "running", Live(q)',
                 HostOf[q] = rowHost'[t], pid'[q] = rowPid'[t]
          PROVE  cur'[q] = t /\ pc'[q] \in Working \cup CleaningUp
      <4>1. CASE t = s
        <5>1. q = p
          BY <1>0, <2>1, <2>2, <2>3, <3>1, <4>1 DEF PidsInOrder
        <5> QED BY <2>1, <4>1, <5>1 DEF Working
      <4>2. CASE t # s
        <5>1. cur[q] = t /\ pc[q] \in Working \cup CleaningUp
          BY <1>0, <2>1, <2>2, <2>3, <3>1, <4>2 DEF NamedOwnerHolds
        <5>2. q # p
          BY <2>1, <5>1 DEF Working, CleaningUp
        <5> QED BY <2>1, <5>1, <5>2
      <4> QED BY <4>1, <4>2
    <3> QED BY <3>1 DEF NamedOwnerHolds
  <2>7. StrandedAreReaped'
    <3>1. ASSUME NEW q \in Procs, NEW t \in stranded'[q]
          PROVE  /\ status'[t] # "absent"
                 /\ pc'[q] \notin {"dead", "boot"} /\ status'[t] = "running" =>
                       /\ pc'[q] = "reaping"
                       /\ Ownerless(q, t)'
                       /\ \/ [id |-> t, pid |-> rowPid'[t], host |-> rowHost'[t]] \in snap'[q]
                          \/ t \in doomed'[q]
      <4>1. t \in stranded[q] /\ t \in Sessions /\ t # s
        BY <1>0, <1>8, <3>1 DEF TypeOK
      <4>2. Ownerless(q, t)' <=> Ownerless(q, t)
        BY <2>1, <2>2, <2>3, <4>1 DEF Ownerless, PidIsAlive, Live
      <4>3. q = p => status[t] # "running"
        BY <1>0, <2>1, <4>1 DEF StrandedAreReaped
      <4> QED BY <1>0, <2>1, <2>3, <4>1, <4>2, <4>3 DEF StrandedAreReaped
    <3> QED BY <3>1 DEF StrandedAreReaped
  <2> QED BY <2>5, <2>6, <2>7
<1>9. ASSUME NEW p \in Procs, StartNew(p)
      PROVE  PidsInOrder' /\ NamedOwnerHolds' /\ StrandedAreReaped'
  <2>1. PICK s \in Sessions :
          /\ status[s] = "absent"
          /\ cur' = [cur EXCEPT ![p] = s]
          /\ status' = [status EXCEPT ![s] = "running"]
          /\ rowPid' = [rowPid EXCEPT ![s] = pid[p]]
          /\ rowHost' = [rowHost EXCEPT ![s] = HostOf[p]]
    BY <1>9 DEF StartNew
  <2>2. \A q \in Procs : stranded'[q] \subseteq stranded[q] /\ s \notin stranded'[q]
    BY <1>0, <1>9, <2>1 DEF StartNew, StrandedAreReaped, history
  <2>3. /\ pc[p] \in {"ready", "resuming"}
        /\ pc' = [pc EXCEPT ![p] = "running"]
        /\ UNCHANGED <<pid, snap, doomed, lastPid>>
    BY <1>9 DEF StartNew, history
  <2> QED BY <1>8, <2>1, <2>2, <2>3
<1>10. ASSUME NEW p \in Procs, Reopen(p)
       PROVE  PidsInOrder' /\ NamedOwnerHolds' /\ StrandedAreReaped'
  <2>1. cur[p] \in Sessions
    BY <1>0, <1>10 DEF Reopen, HoldersHaveSessions, Starting
  <2>2. CASE status[cur[p]] # "wiped"
    <3>1. cur' = [cur EXCEPT ![p] = cur[p]]
      BY <1>0, <1>10 DEF Reopen, TypeOK
    <3>2. \A q \in Procs : stranded'[q] \subseteq stranded[q] /\ cur[p] \notin stranded'[q]
      BY <1>10 DEF Reopen
    <3> QED BY <1>8, <1>10, <2>1, <2>2, <3>1, <3>2 DEF Reopen
  <2>3. CASE status[cur[p]] = "wiped"
    BY <1>0, <1>10, <2>1, <2>3, OrphanQuiet
    DEF Reopen, StrandedAreReaped, TypeOK, Live, Working, CleaningUp
  <2> QED BY <2>2, <2>3
<1>11. ASSUME NEW p \in Procs, ResumeRead(p) \/ TargetsDone(p) \/ Interrupt(p)
       PROVE  PidsInOrder' /\ NamedOwnerHolds' /\ StrandedAreReaped'
  <2>1. /\ UNCHANGED <<status, rowPid, rowHost, lastPid, pid, snap, doomed, stranded>>
        /\ \A q \in Procs \ {p} : UNCHANGED <<pc[q], cur[q]>>
    BY <1>0, <1>11 DEF ResumeRead, TargetsDone, Interrupt, TypeOK, db, history
  <2>2. /\ Live(p) /\ Live(p)' /\ pc[p] \notin {"dead", "boot", "reaping"}
        /\ pc[p] \in Working \cup CleaningUp => cur'[p] = cur[p] /\ pc'[p] \in Working \cup CleaningUp
    BY <1>0, <1>11 DEF ResumeRead, TargetsDone, Interrupt, TypeOK, Live, Working, CleaningUp
  <2> QED BY <1>0, <2>1, <2>2, OrphanQuiet
<1>12. ASSUME NEW p \in Procs, FinishRead(p)
       PROVE  PidsInOrder' /\ NamedOwnerHolds' /\ StrandedAreReaped'
  <2>1. UNCHANGED <<status, rowPid, rowHost>>
    BY <1>12 DEF FinishRead, db
  <2>2. CASE Dies(p)
    BY <1>3, <2>1, <2>2
  <2>3. CASE ~Dies(p)
    <3>1. /\ UNCHANGED <<pid, cur, snap, doomed, stranded, lastPid>>
          /\ \A q \in Procs \ {p} : pc'[q] = pc[q]
          /\ Live(p) /\ Live(p)' /\ pc[p] \notin {"dead", "boot", "reaping"}
          /\ status[cur[p]] = "running" => pc'[p] \in Working \cup CleaningUp
      BY <1>0, <1>12, <2>3 DEF FinishRead, Proceed, AfterFinish, TypeOK, Live, Working, CleaningUp,
          history
    <3> QED BY <1>0, <2>1, <3>1, OrphanQuiet
  <2> QED BY <2>2, <2>3
<1>13. ASSUME NEW p \in Procs, FinishWrite(p)
       PROVE  PidsInOrder' /\ NamedOwnerHolds' /\ StrandedAreReaped'
  <2>1. cur[p] \in Sessions /\ outcome[p] \in Terminal /\ UNCHANGED <<rowPid, rowHost>>
    BY <1>0, <1>13 DEF FinishWrite, HoldersHaveSessions, Starting, TypeOK
  <2>2. /\ \A s \in Sessions : status'[s] # "running" \/ status[s] = "running"
        /\ \A s \in Sessions : status'[s] = "absent" => status[s] = "absent"
        /\ status'[cur[p]] # "running"
    BY <1>0, <1>13, <2>1 DEF FinishWrite, TypeOK, Terminal
  <2>3. CASE Dies(p)
    BY <1>3, <2>1, <2>2, <2>3
  <2>4. CASE ~Dies(p)
    <3>1. /\ UNCHANGED <<pid, cur, snap, doomed, stranded, lastPid>>
          /\ \A q \in Procs \ {p} : pc'[q] = pc[q]
          /\ Live(p) /\ Live(p)' /\ pc[p] \notin {"dead", "boot", "reaping"}
      BY <1>0, <1>13, <2>4 DEF FinishWrite, Proceed, AfterFinish, TypeOK, Live, history
    <3> QED BY <1>0, <2>1, <2>2, <3>1, OrphanQuiet
  <2> QED BY <2>3, <2>4
<1>14. ASSUME NEW p \in Procs, Reported(p) \/ Exit(p) \/ Rebuild(p)
       PROVE  PidsInOrder' /\ NamedOwnerHolds' /\ StrandedAreReaped'
  <2>1. UNCHANGED <<status, rowPid, rowHost>>
    BY <1>14 DEF Reported, Exit, Rebuild, db
  <2>2. CASE Dies(p)
    BY <1>3, <2>1, <2>2
  <2>3. CASE ~Dies(p)
    <3>1. /\ UNCHANGED <<pid, cur, snap, doomed, stranded, lastPid>>
          /\ \A q \in Procs \ {p} : pc'[q] = pc[q]
          /\ Live(p) /\ Live(p)' /\ pc[p] \in {"ready", "report"}
      BY <1>0, <1>14, <2>3 DEF Reported, Exit, Rebuild, TypeOK, Live, history
    <3>2. pc[p] \notin Working \cup CleaningUp /\ pc[p] \notin {"dead", "boot", "reaping"}
      BY <3>1 DEF Working, CleaningUp
    <3> QED BY <1>0, <2>1, <3>1, <3>2, OrphanQuiet
  <2> QED BY <2>2, <2>3
<1>15. ASSUME NEW p \in Procs, Crash(p)
       PROVE  PidsInOrder' /\ NamedOwnerHolds' /\ StrandedAreReaped'
  BY <1>3, <1>15 DEF Crash
<1>16. ASSUME NEW p \in Procs, Wipe(p)
       PROVE  PidsInOrder' /\ NamedOwnerHolds' /\ StrandedAreReaped'
  BY <1>3, <1>16 DEF Wipe
<1> QED
  BY <1>1, <1>2, <1>4, <1>5, <1>6, <1>7, <1>9, <1>10, <1>11, <1>12, <1>13, <1>14, <1>15, <1>16
  DEF Next

\* Once a process has reaped, no session that had lost its owner when the reaper
\* read the rows is running, on hosts that do not reuse pids
\* (NoOrphanSurvivesReap).
THEOREM OrphansAreReaped == Spec => []NoOrphanSurvivesReap
<1> DEFINE Inv == TypeInv /\ WriteLocked /\ OrphanInv
<1>1. Init => Inv
  BY TypeInit, WriteLockedInit, OrphanInit
<1>2. Inv /\ [Next]_vars => Inv'
  BY TypeStep, WriteLockedStep, OrphanStep
<1>3. Inv => NoOrphanSurvivesReap
  BY DEF OrphanInv, StrandedAreReaped, NoOrphanSurvivesReap
<1> QED BY <1>1, <1>2, <1>3, PTL DEF Spec
=============================================================================
