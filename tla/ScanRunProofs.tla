---------------------------- MODULE ScanRunProofs ----------------------------
(***************************************************************************)
(* Proofs about ScanRun, for any targets, tables, columns, modes, latencies*)
(* and any numbers of workers and runs.                                    *)
(***************************************************************************)
EXTENDS ScanRun, TLAPS, FiniteSetTheorems

ConstantAssumptions ==
    /\ MaxWorkers \in Nat \ {0}
    /\ MaxRuns \in Nat
    /\ Latencies \subseteq Nat
    /\ Modes \subseteq AllModes
    /\ TablesOf \in [Targets -> SUBSET Tables]
    /\ NoTable \notin Tables

LEMMA Constants == ConstantAssumptions
BY ThrottlerAssumption, TablesAssumption, RunsAssumption DEF ConstantAssumptions

-----------------------------------------------------------------------------
(* The throttler.                                                          *)

\* The throttler never allows less than one worker or more than max_workers,
\* whatever latencies it hears of.
THEOREM WorkersStayInBounds ==
    ASSUME NEW n \in 1..MaxWorkers, NEW history
    PROVE  Adjust(n, history) \in 1..MaxWorkers
<1>1. /\ MaxWorkers \in Nat \ {0}
      /\ n \in Nat /\ 1 <= n /\ n <= MaxWorkers
  BY Constants DEF ConstantAssumptions
<1>2. AtLeastOne(n \div 2) \in 1..MaxWorkers /\ AtLeastOne(n - 1) \in 1..MaxWorkers
  BY <1>1 DEF AtLeastOne
<1>3. n < MaxWorkers => n + 1 \in 1..MaxWorkers
  BY <1>1
<1> QED
  BY <1>1, <1>2, <1>3 DEF Adjust

\* The window of latencies is bounded.
LEMMA RememberBounds ==
    ASSUME NEW history \in Seq(Nat), Len(history) <= WindowSize, NEW latency \in Nat
    PROVE  /\ Remember(history, latency) \in Seq(Nat)
           /\ Len(Remember(history, latency)) <= WindowSize
<1>1. WindowSize \in Nat \ {0}
  BY ThrottlerAssumption
<1> DEFINE h == Append(history, latency)
<1>2. h \in Seq(Nat) /\ Len(h) = Len(history) + 1 /\ h # <<>>
  OBVIOUS
<1>3. Tail(h) \in Seq(Nat) /\ Len(Tail(h)) = Len(history)
  BY <1>2
<1> QED
  BY <1>1, <1>2, <1>3 DEF Remember

-----------------------------------------------------------------------------
(* Type correctness.  TypeOK is split so that each leaf sees a part of it. *)

DataType ==
    /\ status \in {"absent", "running", "completed", "completed_errors", "interrupted"}
    /\ ckpt \in [Work -> {"none", "in_progress", "completed"}]
    /\ found \subseteq Cells /\ clean \subseteq Cells /\ missed \subseteq Cells
    /\ gaveUp \subseteq Targets
    /\ runs \in 0..MaxRuns
    /\ hasty \in BOOLEAN /\ escaped \in BOOLEAN
    /\ twice \subseteq Cells /\ torn \subseteq Work

LoopType ==
    /\ mode \in AllModes
    /\ main \in {"off", "loop", "submit", "harvest", "drain", "finish"}
    /\ final \in {"completed", "completed_errors", "interrupted"}
    /\ workers \in 1..MaxWorkers
    /\ window \in Seq(Nat) /\ Len(window) <= WindowSize
    /\ batch \subseteq Targets /\ handled \subseteq Targets

ThreadType ==
    /\ tpc \in [Targets -> {"waiting"} \cup Open \cup Done]
    /\ todo \in [Targets -> SUBSET Tables]
    /\ table \in [Targets -> Tables \cup {NoTable}]
    /\ left \in [Targets -> SUBSET Columns]

\* A thread works on tables of its target, and only while it is scanning.
TablesInv ==
    \A t \in Targets :
        /\ todo[t] \subseteq TablesOf[t]
        /\ table[t] # NoTable => table[t] \in TablesOf[t]
        /\ tpc[t] # "scanning" => table[t] = NoTable /\ todo[t] = {} /\ left[t] = {}

TypeInv == DataType /\ LoopType /\ ThreadType /\ TablesInv

LEMMA TypeInvTypes == TypeInv => TypeOK
BY DEF TypeInv, DataType, LoopType, ThreadType, TypeOK

LEMMA TypeInit == Init => TypeInv
<1> SUFFICES ASSUME Init
             PROVE  TypeInv
  OBVIOUS
<1>0. hasty \in BOOLEAN /\ escaped \in BOOLEAN
  BY DEF Init
<1>1. DataType
  <2>1. /\ status \in {"absent", "running", "completed", "completed_errors", "interrupted"}
        /\ ckpt \in [Work -> {"none", "in_progress", "completed"}]
        /\ found \subseteq Cells /\ clean \subseteq Cells /\ missed \subseteq Cells
        /\ gaveUp \subseteq Targets
        /\ runs \in 0..MaxRuns
        /\ twice \subseteq Cells /\ torn \subseteq Work
    BY Constants DEF ConstantAssumptions, Init
  <2> QED
    BY <1>0, <2>1 DEF DataType
<1>2. LoopType
  BY Constants, ThrottlerAssumption DEF ConstantAssumptions, Init, LoopType, AllModes
<1>3. ThreadType /\ TablesInv
  BY Constants DEF ConstantAssumptions, Init, Idle, ThreadType, TablesInv
<1> QED
  BY <1>1, <1>2, <1>3 DEF TypeInv

\* Tables that threads have begun are tables of their targets.
LEMMA UnfinishedType ==
    ASSUME TypeInv, NEW T \in SUBSET Targets
    PROVE  Unfinished(T) \subseteq Work
BY Constants DEF ConstantAssumptions, TypeInv, ThreadType, TablesInv, Unfinished, Work

LEMMA TypeStep ==
    ASSUME TypeInv, [Next]_vars
    PROVE  TypeInv'
<1> USE Constants DEF ConstantAssumptions
<1>0. DataType /\ LoopType /\ ThreadType /\ TablesInv
  BY DEF TypeInv
<1>1. CASE UNCHANGED vars
  BY <1>0, <1>1 DEF TypeInv, DataType, LoopType, ThreadType, TablesInv, vars, data, loop,
      threads, ghosts
<1>2. CASE Start
  <2>0. hasty' \in BOOLEAN /\ escaped' \in BOOLEAN
    BY <1>2 DEF Start
  <2>1. DataType'
    BY <1>0, <1>2, <2>0 DEF Start, DataType, data
  <2>2. LoopType'
    BY <1>0, <1>2, ThrottlerAssumption DEF Start, LoopType, AllModes
  <2>3. ThreadType' /\ TablesInv'
    BY <1>0, <1>2 DEF Start, ThreadType, TablesInv, Open, Done, Busy, Having
  <2> QED
    BY <2>1, <2>2, <2>3 DEF TypeInv
<1>3. CASE Crash
  <2>1. DataType'
    BY <1>0, <1>3, UnfinishedType DEF Crash, DataType, data
  <2>2. LoopType'
    BY <1>0, <1>3, ThrottlerAssumption DEF Crash, LoopType, AllModes
  <2>3. ThreadType' /\ TablesInv'
    BY <1>0, <1>3 DEF Crash, ThreadType, TablesInv
  <2> QED
    BY <2>1, <2>2, <2>3 DEF TypeInv
<1>4. CASE RunNext
  <2>1. PICK t \in Targets : tpc[t] = "waiting" /\ tpc' = [tpc EXCEPT ![t] = "connecting"]
    BY <1>4 DEF RunNext, Pending, Having
  <2>2. ThreadType' /\ TablesInv'
    BY <1>0, <1>4, <2>1 DEF RunNext, ThreadType, TablesInv, Open
  <2> QED
    BY <1>0, <1>4, <2>2 DEF RunNext, TypeInv, DataType, LoopType, data, loop, ghosts
<1>5. CASE LeaveLoop
  BY <1>0, <1>5 DEF LeaveLoop, TypeInv, DataType, LoopType, ThreadType, TablesInv, data, threads
<1>6. CASE Submit
  <2>1. PICK t \in Targets : tpc[t] = "waiting" /\ tpc' = [tpc EXCEPT ![t] = "queued"]
    BY <1>6 DEF Submit, Pending, Having
  <2>2. ThreadType' /\ TablesInv'
    BY <1>0, <1>6, <2>1 DEF Submit, ThreadType, TablesInv, Open
  <2> QED
    BY <1>0, <1>6, <2>2 DEF Submit, TypeInv, DataType, LoopType, data, loop, ghosts
<1>7. CASE Wait
  <2>1. batch' \subseteq Targets /\ main' \in {"finish", "harvest"}
    BY <1>0, <1>7 DEF Wait, LoopType, InFlight, Having
  <2> QED
    BY <1>0, <1>7, <2>1 DEF Wait, TypeInv, DataType, LoopType, ThreadType, TablesInv, data,
        threads, ghosts
<1>8. ASSUME NEW t \in Targets, Harvest(t)
      PROVE  TypeInv'
  <2>1. final' \in {"completed", "completed_errors", "interrupted"}
    BY <1>0, <1>8 DEF Harvest, StatusAfter, LoopType
  <2>2. window' \in Seq(Nat) /\ Len(window') <= WindowSize
    BY <1>0, <1>8, RememberBounds DEF Harvest, LoopType
  <2>3. workers' \in 1..MaxWorkers
    BY <1>0, <1>8, WorkersStayInBounds DEF Harvest, LoopType
  <2>4. LoopType'
    BY <1>0, <1>8, <2>1, <2>2, <2>3 DEF Harvest, LoopType
  <2> QED
    BY <1>0, <1>8, <2>4 DEF Harvest, TypeInv, DataType, ThreadType, TablesInv, data,
        threads, ghosts
<1>9. CASE Interrupt
  <2>1. LoopType'
    BY <1>0, <1>9 DEF Interrupt, LoopType
  <2>2. DataType'
    BY <1>0, <1>9, UnfinishedType DEF Interrupt, DataType, data
  <2>3. CASE main = "loop"
    BY <1>0, <1>9, <2>1, <2>2, <2>3 DEF Interrupt, TypeInv, ThreadType, TablesInv, Busy
  <2>4. CASE main # "loop"
    BY <1>0, <1>9, <2>1, <2>2, <2>4 DEF Interrupt, TypeInv, ThreadType, TablesInv, threads
  <2> QED
    BY <2>3, <2>4
<1>10. CASE ShutDown \/ InterruptAgain
  BY ZenonT(30), <1>0, <1>10 DEF ShutDown, InterruptAgain, TypeInv, DataType, LoopType, ThreadType,
      TablesInv, data, threads, ghosts
<1>11. CASE Finish
  BY <1>0, <1>11, ThrottlerAssumption DEF Finish, TypeInv, DataType, LoopType, ThreadType,
      TablesInv, data, threads, ghosts
<1>12. CASE Pick
  <2>1. PICK t \in Targets : tpc[t] = "queued" /\ tpc' = [tpc EXCEPT ![t] = "connecting"]
    BY <1>12 DEF Pick, Having
  <2>2. ThreadType' /\ TablesInv'
    BY <1>0, <1>12, <2>1 DEF Pick, ThreadType, TablesInv, Open
  <2> QED
    BY <1>0, <1>12, <2>2 DEF Pick, TypeInv, DataType, LoopType, data, loop, ghosts
<1>13. ASSUME NEW t \in Targets, GiveUp(t) \/ Raise(t)
       PROVE  TypeInv'
  <2>1. DataType'
    BY <1>0, <1>13, UnfinishedType DEF GiveUp, Raise, DataType, data
  <2>2. ThreadType' /\ TablesInv'
    BY <1>0, <1>13 DEF GiveUp, Raise, Over, ThreadType, TablesInv, Done
  <2> QED
    BY <1>0, <1>13, <2>1, <2>2 DEF GiveUp, Raise, TypeInv, LoopType, loop
<1>14. ASSUME NEW t \in Targets, Discover(t)
       PROVE  TypeInv'
  BY <1>0, <1>14 DEF Discover, TypeInv, DataType, LoopType, ThreadType, TablesInv, Open,
      data, loop, ghosts
<1>15. ASSUME NEW t \in Targets, StartTable(t)
       PROVE  TypeInv'
  <2>1. PICK b \in todo[t] :
          /\ todo' = [todo EXCEPT ![t] = @ \ {b}]
          /\ table' = [table EXCEPT ![t] = b]
          /\ ckpt' = [ckpt EXCEPT ![<<t, b>>] = IF @ = "completed" THEN @ ELSE "in_progress"]
    BY <1>15 DEF StartTable
  <2>2. b \in TablesOf[t] /\ b \in Tables
    BY <1>0, <2>1 DEF TablesInv, ThreadType
  <2>3. ckpt' \in [Work -> {"none", "in_progress", "completed"}]
    BY <1>0, <2>1 DEF DataType
  <2>4. ThreadType' /\ TablesInv'
    BY <1>0, <1>15, <2>1, <2>2 DEF StartTable, ThreadType, TablesInv
  <2> QED
    BY <1>0, <1>15, <2>3, <2>4 DEF StartTable, TypeInv, DataType, LoopType, loop, ghosts
<1>16. ASSUME NEW t \in Targets, SampleColumn(t)
       PROVE  TypeInv'
  <2>1. PICK c \in left[t] :
          /\ left' = [left EXCEPT ![t] = @ \ {c}]
          /\ found' \subseteq found \cup {<<<<t, table[t]>>, c>>}
          /\ clean' \subseteq clean \cup {<<<<t, table[t]>>, c>>}
          /\ missed' \subseteq missed \cup {<<<<t, table[t]>>, c>>}
          /\ twice' \subseteq twice \cup {<<<<t, table[t]>>, c>>}
    BY <1>16 DEF SampleColumn
  <2>2. <<<<t, table[t]>>, c>> \in Cells
    BY <1>0, <1>16, <2>1 DEF SampleColumn, ThreadType, TablesInv, Cells, Work
  <2>3. DataType'
    BY <1>0, <1>16, <2>1, <2>2 DEF SampleColumn, DataType
  <2>4. ThreadType' /\ TablesInv'
    BY <1>0, <1>16, <2>1 DEF SampleColumn, ThreadType, TablesInv
  <2> QED
    BY <1>0, <1>16, <2>3, <2>4 DEF SampleColumn, TypeInv, LoopType, loop
<1>17. ASSUME NEW t \in Targets, FinishTable(t)
       PROVE  TypeInv'
  <2>1. DataType'
    BY <1>0, <1>17 DEF FinishTable, DataType, ghosts
  <2>2. ThreadType' /\ TablesInv'
    BY <1>0, <1>17 DEF FinishTable, ThreadType, TablesInv
  <2> QED
    BY <1>0, <1>17, <2>1, <2>2 DEF FinishTable, TypeInv, LoopType, loop
<1>18. ASSUME NEW t \in Targets, EndTarget(t)
       PROVE  TypeInv'
  <2>1. ThreadType' /\ TablesInv'
    BY <1>0, <1>18 DEF EndTarget, Over, ThreadType, TablesInv, Done
  <2> QED
    BY <1>0, <1>18, <2>1 DEF EndTarget, TypeInv, DataType, LoopType, data, loop, ghosts
<1> QED
  BY <1>1, <1>2, <1>3, <1>4, <1>5, <1>6, <1>7, <1>8, <1>9, <1>10, <1>11, <1>12, <1>13,
     <1>14, <1>15, <1>16, <1>17, <1>18
  DEF Next, Step

\* Every variable of a scan keeps to its type; in particular the throttler never
\* asks for more workers than there may be (TypeOK).
THEOREM TypeCorrect == Spec => []TypeOK
<1> QED
  BY TypeInit, TypeStep, TypeInvTypes, PTL DEF Spec

-----------------------------------------------------------------------------
(* Checkpoints.  What the database says of a column, and what the threads  *)
(* have yet to do.                                                         *)

Sampled == found \cup clean \cup missed

\* A thread works on tables that are not completed.
CkptInv ==
    \A t \in Targets :
        /\ table[t] # NoTable =>
              /\ ckpt[<<t, table[t]>>] = "in_progress"
              /\ table[t] \notin todo[t]
        /\ \A b \in todo[t] : ckpt[<<t, b>>] # "completed"

\* Columns of completed tables, and those a thread has behind it, are accounted
\* for.
AccountInv ==
    /\ \A w \in Work, c \in Columns : ckpt[w] = "completed" => <<w, c>> \in Sampled
    /\ \A t \in Targets, c \in Columns :
          table[t] # NoTable /\ c \notin left[t] => <<<<t, table[t]>>, c>> \in Sampled

\* A column with a finding is in a table that is completed, or torn, or behind the
\* thread that scans its table.
OnceInv ==
    /\ twice \subseteq torn \X Columns
    /\ \A t \in Targets, b \in Tables, c \in Columns :
          <<<<t, b>>, c>> \in found =>
              \/ <<t, b>> \in torn
              \/ ckpt[<<t, b>>] = "completed"
              \/ table[t] = b /\ c \notin left[t]

WorkInv == CkptInv /\ AccountInv /\ OnceInv

LEMMA WorkInit == Init => WorkInv
BY DEF Init, Idle, WorkInv, CkptInv, AccountInv, OnceInv, Sampled

\* Threads that stop tear the tables they had begun, and nothing else changes.
LEMMA Dropped ==
    ASSUME TypeInv, WorkInv, NEW D \in SUBSET Targets,
           \A t \in D : table'[t] = NoTable /\ todo'[t] = {},
           \A t \in Targets \ D :
               table'[t] = table[t] /\ todo'[t] = todo[t] /\ left'[t] = left[t],
           torn \cup Unfinished(D) \subseteq torn',
           UNCHANGED <<data, twice>>
    PROVE  WorkInv'
<1>1. CkptInv'
  BY DEF WorkInv, CkptInv, data
<1>2. AccountInv'
  BY DEF WorkInv, AccountInv, Sampled, data
<1>3. ASSUME NEW t \in Targets, NEW b \in Tables, NEW c \in Columns,
             <<<<t, b>>, c>> \in found'
      PROVE  \/ <<t, b>> \in torn'
             \/ ckpt'[<<t, b>>] = "completed"
             \/ table'[t] = b /\ c \notin left'[t]
  <2>1. \/ <<t, b>> \in torn
        \/ ckpt[<<t, b>>] = "completed"
        \/ table[t] = b /\ c \notin left[t]
    BY <1>3 DEF WorkInv, OnceInv, data
  <2>2. CASE table[t] = b /\ c \notin left[t] /\ t \in D
    BY <2>2, Constants DEF ConstantAssumptions, Unfinished
  <2> QED
    BY <2>1, <2>2 DEF data
<1>4. twice' \subseteq torn' \X Columns
  BY DEF WorkInv, OnceInv
<1> QED
  BY <1>1, <1>2, <1>3, <1>4 DEF WorkInv, OnceInv

LEMMA WorkStep ==
    ASSUME TypeInv, WorkInv, [Next]_vars
    PROVE  WorkInv'
<1> USE Constants DEF ConstantAssumptions
<1>0. DataType /\ ThreadType /\ TablesInv
  BY DEF TypeInv
<1>1. ASSUME UNCHANGED <<data, todo, table, left, twice, torn>>
      PROVE  WorkInv'
  BY <1>1 DEF WorkInv, CkptInv, AccountInv, OnceInv, Sampled, data
<1>2. CASE Crash
  BY <1>2, Dropped DEF Crash
<1>3. CASE Interrupt
  <2>1. CASE main = "loop"
    BY <1>3, <2>1, Dropped DEF Interrupt
  <2>2. CASE main # "loop"
    BY <1>1, <1>3, <2>2 DEF Interrupt, threads
  <2> QED
    BY <2>1, <2>2
<1>4. ASSUME NEW t \in Targets, GiveUp(t) \/ Raise(t)
      PROVE  WorkInv'
  <2>1. \A u \in {t} : table'[u] = NoTable /\ todo'[u] = {}
    BY <1>0, <1>4 DEF GiveUp, Raise, Over, ThreadType
  <2>2. \A u \in Targets \ {t} : table'[u] = table[u] /\ todo'[u] = todo[u] /\ left'[u] = left[u]
    BY <1>0, <1>4 DEF GiveUp, Raise, Over, ThreadType
  <2>3. torn \cup Unfinished({t}) \subseteq torn' /\ UNCHANGED <<data, twice>>
    BY <1>4 DEF GiveUp, Raise
  <2> QED
    BY <2>1, <2>2, <2>3, Dropped
<1>5. ASSUME NEW t \in Targets, EndTarget(t)
      PROVE  WorkInv'
  <2>1. \A u \in {t} : table'[u] = NoTable /\ todo'[u] = {}
    BY <1>0, <1>5 DEF EndTarget, Over, ThreadType
  <2>2. \A u \in Targets \ {t} : table'[u] = table[u] /\ todo'[u] = todo[u] /\ left'[u] = left[u]
    BY <1>0, <1>5 DEF EndTarget, Over, ThreadType
  <2>3. torn \cup Unfinished({t}) \subseteq torn' /\ UNCHANGED <<data, twice>>
    BY <1>5 DEF EndTarget, Unfinished, ghosts
  <2> QED
    BY <2>1, <2>2, <2>3, Dropped
<1>6. ASSUME NEW t \in Targets, Discover(t)
      PROVE  WorkInv'
  <2>1. \A b \in TablesOf[t] \ CompletedTables(t) : ckpt[<<t, b>>] # "completed"
    BY DEF CompletedTables
  <2>2. table[t] = NoTable
    BY <1>0, <1>6 DEF Discover, TablesInv
  <2>3. CkptInv'
    BY <1>0, <1>6, <2>1, <2>2 DEF Discover, WorkInv, CkptInv, ThreadType, data
  <2> QED
    BY <1>6, <2>3 DEF Discover, WorkInv, AccountInv, OnceInv, Sampled, data, ghosts
<1>7. ASSUME NEW t \in Targets, StartTable(t)
      PROVE  WorkInv'
  <2>1. PICK b \in todo[t] :
          /\ todo' = [todo EXCEPT ![t] = @ \ {b}]
          /\ table' = [table EXCEPT ![t] = b]
          /\ ckpt' = [ckpt EXCEPT ![<<t, b>>] = IF @ = "completed" THEN @ ELSE "in_progress"]
    BY <1>7 DEF StartTable
  <2>2. b \in Tables /\ <<t, b>> \in Work /\ b # NoTable
    BY <1>0, <2>1 DEF TablesInv, ThreadType, Work
  <2>3. ckpt[<<t, b>>] # "completed"
    BY <2>1 DEF WorkInv, CkptInv
  <2>4. /\ ckpt' \in [Work -> {"none", "in_progress", "completed"}]
        /\ ckpt'[<<t, b>>] = "in_progress"
        /\ \A w \in Work \ {<<t, b>>} : ckpt'[w] = ckpt[w]
    BY <1>0, <2>1, <2>2, <2>3 DEF DataType
  <2>5. /\ table'[t] = b /\ todo'[t] = todo[t] \ {b} /\ left'[t] = Columns
        /\ \A u \in Targets \ {t} :
              table'[u] = table[u] /\ todo'[u] = todo[u] /\ left'[u] = left[u]
    BY <1>0, <1>7, <2>1 DEF StartTable, ThreadType
  <2>6. ASSUME NEW u \in Targets, NEW e \in TablesOf[u]
        PROVE  <<u, e>> \in Work
    BY <2>6 DEF Work
  <2>7. CkptInv'
    <3>1. ASSUME NEW u \in Targets, table'[u] # NoTable
          PROVE  ckpt'[<<u, table'[u]>>] = "in_progress" /\ table'[u] \notin todo'[u]
      <4>1. CASE u = t
        BY <2>4, <2>5, <4>1
      <4>2. CASE u # t
        <5>1. table[u] \in TablesOf[u]
          BY <1>0, <2>5, <3>1, <4>2 DEF TablesInv
        <5> QED
          BY <2>4, <2>5, <2>6, <3>1, <4>2, <5>1 DEF WorkInv, CkptInv
      <4> QED
        BY <4>1, <4>2
    <3>2. ASSUME NEW u \in Targets, NEW e \in todo'[u]
          PROVE  ckpt'[<<u, e>>] # "completed"
      <4>1. e \in todo[u] /\ e \in TablesOf[u]
        BY <1>0, <2>5, <3>2 DEF TablesInv
      <4> QED
        BY <2>4, <2>6, <4>1 DEF WorkInv, CkptInv
    <3> QED
      BY <3>1, <3>2 DEF CkptInv
  <2>8. AccountInv'
    <3>1. Sampled' = Sampled
      BY <1>7 DEF StartTable, Sampled
    <3>2. \A w \in Work, c \in Columns : ckpt'[w] = "completed" => <<w, c>> \in Sampled
      BY <2>4 DEF WorkInv, AccountInv
    <3>3. \A u \in Targets, c \in Columns :
              table'[u] # NoTable /\ c \notin left'[u] => <<<<u, table'[u]>>, c>> \in Sampled
      BY <2>5 DEF WorkInv, AccountInv
    <3> QED
      BY <3>1, <3>2, <3>3 DEF AccountInv
  <2>9. OnceInv'
    <3>1. found' = found /\ torn' = torn /\ twice' = twice
      BY <1>7 DEF StartTable, ghosts
    <3>2. ASSUME NEW u \in Targets, NEW e \in Tables, NEW c \in Columns,
                 <<<<u, e>>, c>> \in found
          PROVE  \/ <<u, e>> \in torn
                 \/ ckpt'[<<u, e>>] = "completed"
                 \/ table'[u] = e /\ c \notin left'[u]
      <4>1. <<u, e>> \in Work
        BY <1>0, <3>2 DEF DataType, Cells
      <4>2. \/ <<u, e>> \in torn
            \/ ckpt[<<u, e>>] = "completed"
            \/ table[u] = e /\ c \notin left[u]
        BY <3>2 DEF WorkInv, OnceInv
      <4>3. table[t] = NoTable
        BY <1>7 DEF StartTable
      <4> QED
        BY <2>2, <2>3, <2>4, <2>5, <4>1, <4>2, <4>3
    <3> QED
      BY <3>1, <3>2 DEF WorkInv, OnceInv
  <2> QED
    BY <2>7, <2>8, <2>9 DEF WorkInv
<1>8. ASSUME NEW t \in Targets, SampleColumn(t)
      PROVE  WorkInv'
  <2> DEFINE b == table[t]
  <2>1. PICK c \in left[t] :
          /\ left' = [left EXCEPT ![t] = @ \ {c}]
          /\ \/ missed' = missed \cup {<<<<t, b>>, c>>} /\ UNCHANGED <<found, clean, twice>>
             \/ clean' = clean \cup {<<<<t, b>>, c>>} /\ UNCHANGED <<found, missed, twice>>
             \/ /\ found' = found \cup {<<<<t, b>>, c>>}
                /\ twice' = twice \cup ({<<<<t, b>>, c>>} \cap found)
                /\ UNCHANGED <<clean, missed>>
    BY <1>8 DEF SampleColumn
  <2>2. /\ b # NoTable /\ b \in Tables /\ c \in Columns
        /\ UNCHANGED <<ckpt, todo, table, torn>>
    BY <1>0, <1>8, <2>1 DEF SampleColumn, ThreadType
  <2>3. /\ left'[t] = left[t] \ {c}
        /\ \A u \in Targets \ {t} : left'[u] = left[u]
    BY <1>0, <2>1 DEF ThreadType
  <2>4. /\ Sampled' = Sampled \cup {<<<<t, b>>, c>>}
        /\ found \subseteq found' /\ found' \subseteq found \cup {<<<<t, b>>, c>>}
        /\ twice' \subseteq twice \cup ({<<<<t, b>>, c>>} \cap found)
    <3>1. CASE missed' = missed \cup {<<<<t, b>>, c>>} /\ UNCHANGED <<found, clean, twice>>
      BY <3>1 DEF Sampled
    <3>2. CASE clean' = clean \cup {<<<<t, b>>, c>>} /\ UNCHANGED <<found, missed, twice>>
      BY <3>2 DEF Sampled
    <3>3. CASE /\ found' = found \cup {<<<<t, b>>, c>>}
               /\ twice' = twice \cup ({<<<<t, b>>, c>>} \cap found)
               /\ UNCHANGED <<clean, missed>>
      BY <3>3 DEF Sampled
    <3> QED
      BY <2>1, <3>1, <3>2, <3>3
  <2>5. ckpt[<<t, b>>] = "in_progress"
    BY <2>2 DEF WorkInv, CkptInv
  <2> HIDE DEF b
  <2>6. CkptInv'
    BY <2>2 DEF WorkInv, CkptInv
  <2>7. AccountInv'
    <3>1. \A w \in Work, e \in Columns : ckpt'[w] = "completed" => <<w, e>> \in Sampled'
      BY <2>2, <2>4 DEF WorkInv, AccountInv
    <3>2. ASSUME NEW u \in Targets, NEW e \in Columns, table'[u] # NoTable, e \notin left'[u]
          PROVE  <<<<u, table'[u]>>, e>> \in Sampled'
      <4>1. CASE u = t /\ e = c
        BY <2>2, <2>4, <4>1 DEF b
      <4>2. CASE ~(u = t /\ e = c)
        BY <2>2, <2>3, <2>4, <3>2, <4>2 DEF WorkInv, AccountInv
      <4> QED
        BY <4>1, <4>2
    <3> QED
      BY <3>1, <3>2 DEF AccountInv
  <2>8. OnceInv'
    <3>1. twice' \subseteq torn' \X Columns
      <4>1. <<<<t, b>>, c>> \in found => <<t, b>> \in torn
        BY <2>1, <2>2, <2>5 DEF WorkInv, OnceInv
      <4> QED
        BY <2>2, <2>4, <4>1 DEF WorkInv, OnceInv
    <3>2. ASSUME NEW u \in Targets, NEW e \in Tables, NEW d \in Columns,
                 <<<<u, e>>, d>> \in found'
          PROVE  \/ <<u, e>> \in torn'
                 \/ ckpt'[<<u, e>>] = "completed"
                 \/ table'[u] = e /\ d \notin left'[u]
      <4>1. CASE <<<<u, e>>, d>> = <<<<t, b>>, c>>
        <5>1. u = t /\ e = b /\ d = c
          BY <4>1
        <5> QED
          BY <2>2, <2>3, <5>1 DEF b
      <4>2. CASE <<<<u, e>>, d>> # <<<<t, b>>, c>>
        <5>1. \/ <<u, e>> \in torn
              \/ ckpt[<<u, e>>] = "completed"
              \/ table[u] = e /\ d \notin left[u]
          BY <2>4, <3>2, <4>2 DEF WorkInv, OnceInv
        <5> QED
          BY <2>2, <2>3, <5>1
      <4> QED
        BY <4>1, <4>2
    <3> QED
      BY <3>1, <3>2 DEF OnceInv
  <2> QED
    BY <2>6, <2>7, <2>8 DEF WorkInv
<1>9. ASSUME NEW t \in Targets, FinishTable(t)
      PROVE  WorkInv'
  <2>1. PICK b \in TablesOf[t] : b = table[t] /\ b # NoTable /\ b \in Tables
    BY <1>0, <1>9 DEF FinishTable, TablesInv
  <2>2. <<t, b>> \in Work
    BY <2>1 DEF Work
  <2>3. /\ ckpt'[<<t, b>>] = "completed"
        /\ \A w \in Work \ {<<t, b>>} : ckpt'[w] = ckpt[w]
    BY <1>0, <1>9, <2>1, <2>2 DEF FinishTable, DataType
  <2>4. /\ table'[t] = NoTable
        /\ \A u \in Targets \ {t} : table'[u] = table[u] /\ left'[u] = left[u]
        /\ left[t] = {}
        /\ UNCHANGED <<found, clean, missed, todo, twice, torn>>
    BY <1>0, <1>9 DEF FinishTable, ColumnsDone, ThreadType, ghosts
  <2>5. ASSUME NEW u \in Targets, NEW e \in TablesOf[u]
        PROVE  <<u, e>> \in Work
    BY <2>5 DEF Work
  <2>6. CkptInv'
    <3>1. ASSUME NEW u \in Targets, table'[u] # NoTable
          PROVE  ckpt'[<<u, table'[u]>>] = "in_progress" /\ table'[u] \notin todo'[u]
      <4>1. u # t /\ table[u] \in TablesOf[u]
        BY <1>0, <2>4, <3>1 DEF TablesInv
      <4> QED
        BY <2>3, <2>4, <2>5, <3>1, <4>1 DEF WorkInv, CkptInv
    <3>2. ASSUME NEW u \in Targets, NEW e \in todo'[u]
          PROVE  ckpt'[<<u, e>>] # "completed"
      <4>1. e \in todo[u] /\ e \in TablesOf[u]
        BY <1>0, <2>4, <3>2 DEF TablesInv
      <4>2. <<u, e>> # <<t, b>>
        BY <2>1, <4>1 DEF WorkInv, CkptInv
      <4> QED
        BY <2>3, <2>5, <4>1, <4>2 DEF WorkInv, CkptInv
    <3> QED
      BY <3>1, <3>2 DEF CkptInv
  <2>7. AccountInv'
    <3>1. Sampled' = Sampled
      BY <2>4 DEF Sampled
    <3>2. \A c \in Columns : <<<<t, b>>, c>> \in Sampled
      BY <2>1, <2>4 DEF WorkInv, AccountInv
    <3>3. \A w \in Work, c \in Columns : ckpt'[w] = "completed" => <<w, c>> \in Sampled
      BY <2>3, <3>2 DEF WorkInv, AccountInv
    <3>4. \A u \in Targets, c \in Columns :
              table'[u] # NoTable /\ c \notin left'[u] => <<<<u, table'[u]>>, c>> \in Sampled
      BY <2>4 DEF WorkInv, AccountInv
    <3> QED
      BY <3>1, <3>3, <3>4 DEF AccountInv
  <2>8. OnceInv'
    <3>1. ASSUME NEW u \in Targets, NEW e \in Tables, NEW c \in Columns,
                 <<<<u, e>>, c>> \in found
          PROVE  \/ <<u, e>> \in torn
                 \/ ckpt'[<<u, e>>] = "completed"
                 \/ table'[u] = e /\ c \notin left'[u]
      <4>1. <<u, e>> \in Work
        BY <1>0, <3>1 DEF DataType, Cells
      <4>2. \/ <<u, e>> \in torn
            \/ ckpt[<<u, e>>] = "completed"
            \/ table[u] = e /\ c \notin left[u]
        BY <3>1 DEF WorkInv, OnceInv
      <4> QED
        BY <2>1, <2>3, <2>4, <4>1, <4>2
    <3> QED
      BY <2>4, <3>1 DEF WorkInv, OnceInv
  <2> QED
    BY <2>6, <2>7, <2>8 DEF WorkInv
<1>10. CASE Start \/ RunNext \/ LeaveLoop \/ Submit \/ Wait \/ ShutDown \/ InterruptAgain
            \/ Finish \/ Pick \/ UNCHANGED vars
  BY <1>1, <1>10 DEF Start, RunNext, LeaveLoop, Submit, Wait, ShutDown, InterruptAgain, Finish,
      Pick, vars, data, loop, threads, ghosts
<1>11. ASSUME NEW t \in Targets, Harvest(t)
       PROVE  WorkInv'
  BY <1>1, <1>11 DEF Harvest, data, threads, ghosts
<1> QED
  BY <1>2, <1>3, <1>4, <1>5, <1>6, <1>7, <1>8, <1>9, <1>10, <1>11 DEF Next, Step

\* However often a scan is killed and resumed, each column of a table whose
\* checkpoint says completed was sampled, or its failure is recorded
\* (CompletedTablesAccountedFor).
THEOREM CheckpointsTellTheTruth == Spec => []CompletedTablesAccountedFor
<1>1. TypeInv /\ WorkInv => CompletedTablesAccountedFor
  BY DEF WorkInv, AccountInv, CompletedTablesAccountedFor, Sampled
<1> QED
  BY <1>1, TypeInit, TypeStep, WorkInit, WorkStep, PTL DEF Spec

\* Resuming repeats findings only in tables that a run left unfinished
\* (TwiceOnlyIfTorn).
THEOREM ResumeRepeatsOnlyTornTables == Spec => []TwiceOnlyIfTorn
<1>1. WorkInv => TwiceOnlyIfTorn
  BY DEF WorkInv, OnceInv, TwiceOnlyIfTorn
<1> QED
  BY <1>1, TypeInit, TypeStep, WorkInit, WorkStep, PTL DEF Spec

-----------------------------------------------------------------------------
(* The end of a session.                                                   *)

\* A step of the thread of t, as the loop sees it.
ThreadMoves(t) ==
    /\ tpc[t] \in Open
    /\ tpc' = [tpc EXCEPT ![t] = tpc'[t]]
    /\ tpc'[t] \in {"connecting", "scanning"} \cup Done
    /\ UNCHANGED <<status, loop, runs, hasty, escaped>>

LEMMA ThreadSteps ==
    ASSUME TypeInv, NEW t \in Targets, GiveUp(t) \/ Raise(t) \/ Step(t)
    PROVE  ThreadMoves(t)
<1>0. ThreadType
  BY DEF TypeInv
<1>1. CASE GiveUp(t) \/ Raise(t)
  BY <1>0, <1>1 DEF GiveUp, Raise, Over, ThreadMoves, ThreadType, Open, Busy, Done
<1>2. CASE Discover(t)
  BY <1>0, <1>2 DEF Discover, ThreadMoves, ThreadType, Open, Done, ghosts
<1>3. CASE StartTable(t) \/ SampleColumn(t) \/ FinishTable(t)
  BY <1>0, <1>3 DEF StartTable, SampleColumn, FinishTable, ThreadMoves, ThreadType, Open, Done,
      ghosts
<1>4. CASE EndTarget(t)
  BY <1>0, <1>4 DEF EndTarget, Over, ThreadMoves, ThreadType, Open, Done, ghosts
<1> QED
  BY <1>1, <1>2, <1>3, <1>4 DEF Step

LEMMA PickMoves ==
    ASSUME TypeInv, Pick
    PROVE  \E t \in Targets : tpc[t] = "queued" /\ tpc'[t] = "connecting" /\ ThreadMoves(t)
BY DEF TypeInv, ThreadType, Pick, Having, ThreadMoves, Open, Done, ghosts

\* The session is running while its loop is, the loop has taken only futures that
\* are done, and it leaves threads behind only if Ctrl+C was pressed twice, when
\* the session ends as interrupted.
LoopInv ==
    /\ main # "off" => status = "running"
    /\ main = "drain" => final = "interrupted"
    /\ \A t \in batch \cup handled : tpc[t] \in Done
    /\ \A t \in Targets :
          /\ main = "loop" => tpc[t] # "queued"
          /\ tpc[t] \in Open =>
                /\ main \in {"finish", "off"} => hasty
                /\ main = "finish" => final = "interrupted"
                /\ main = "off" => status = "interrupted"

LEMMA LoopInit == Init => LoopInv
BY DEF Init, Idle, LoopInv, Open

LEMMA LoopStep ==
    ASSUME TypeInv, LoopInv, [Next]_vars
    PROVE  LoopInv'
<1>0. ThreadType /\ LoopType
  BY DEF TypeInv
<1>1. CASE UNCHANGED vars
  BY <1>1 DEF LoopInv, vars, loop, threads, ghosts
<1>2. CASE Start
  <2>1. \A t \in Targets : main' = "loop" => tpc'[t] # "queued"
    BY <1>2 DEF Start
  <2>2. main' \in {"loop", "harvest", "submit"} /\ status' = "running"
    BY <1>2 DEF Start
  <2>3. batch' = {} /\ handled' = {}
    BY <1>2 DEF Start
  <2> QED
    BY <2>1, <2>2, <2>3 DEF LoopInv
<1>3. CASE Crash
  BY <1>3 DEF Crash, LoopInv, Open
<1>4. CASE RunNext
  <2>1. PICK t \in Targets : tpc[t] = "waiting" /\ tpc' = [tpc EXCEPT ![t] = "connecting"]
    BY <1>4 DEF RunNext, Pending, Having
  <2> QED
    BY <1>0, <1>4, <2>1 DEF RunNext, LoopInv, ThreadType, LoopType, loop, ghosts, Done
<1>5. CASE LeaveLoop
  BY <1>5 DEF LeaveLoop, LoopInv, Having, Open, Busy, threads
<1>6. CASE Submit
  <2>1. PICK t \in Targets : tpc[t] = "waiting" /\ tpc' = [tpc EXCEPT ![t] = "queued"]
    BY <1>6 DEF Submit, Pending, Having
  <2> QED
    BY <1>0, <1>6, <2>1 DEF Submit, LoopInv, ThreadType, LoopType, loop, ghosts, Done
<1>7. CASE Wait
  <2>1. CASE InFlight = {}
    <3>1. \A t \in Targets : tpc[t] \notin Open
      BY <2>1 DEF InFlight, Having, LoopInv, Open, Done
    <3> QED
      BY <1>7, <2>1, <3>1 DEF Wait, LoopInv, threads, ghosts
  <2>2. CASE InFlight # {}
    BY <1>7, <2>2 DEF Wait, LoopInv, Having, threads, ghosts
  <2> QED
    BY <2>1, <2>2
<1>8. ASSUME NEW t \in Targets, Harvest(t)
      PROVE  LoopInv'
  <2>1. tpc[t] \in Done /\ UNCHANGED <<tpc, status, hasty>> /\ handled' = handled \cup {t}
    BY <1>8 DEF Harvest, LoopInv, Having, threads, ghosts
  <2>2. main = "harvest" /\ batch' \subseteq batch
    BY <1>8 DEF Harvest
  <2>3. \/ main' \in {"submit", "harvest"}
        \/ main' = "finish" /\ handled' = Targets
    BY <1>8 DEF Harvest
  <2>4. \A u \in batch' \cup handled' : tpc'[u] \in Done
    BY <2>1, <2>2 DEF LoopInv
  <2>5. main' = "finish" => \A u \in Targets : tpc'[u] \notin Open
    BY <2>3, <2>4 DEF Open, Done
  <2> QED
    BY <2>1, <2>2, <2>3, <2>4, <2>5 DEF LoopInv
<1>9. CASE Interrupt
  <2>1. CASE main = "loop"
    BY <1>0, <1>9, <2>1 DEF Interrupt, LoopInv, Open, Busy, Done, ThreadType, LoopType
  <2>2. CASE main # "loop"
    BY <1>9, <2>2 DEF Interrupt, LoopInv, threads
  <2> QED
    BY <2>1, <2>2
<1>10. CASE ShutDown
  BY <1>10 DEF ShutDown, Drained, Having, LoopInv, threads, ghosts
<1>11. CASE InterruptAgain
  BY <1>11 DEF InterruptAgain, LoopInv, threads
<1>12. CASE Finish
  BY <1>12 DEF Finish, LoopInv, threads, ghosts
<1>13. ASSUME NEW t \in Targets, ThreadMoves(t), main = "loop" => tpc[t] # "queued"
       PROVE  LoopInv'
  <2>1. \A u \in Targets \ {t} : tpc'[u] = tpc[u]
    BY <1>0, <1>13 DEF ThreadMoves, ThreadType
  <2>2. tpc[t] \in Open /\ tpc'[t] # "queued" /\ tpc[t] \notin Done
    BY <1>13 DEF ThreadMoves, Open, Done
  <2>3. \A u \in batch \cup handled : u \in Targets /\ u # t
    BY <1>0, <2>2 DEF LoopInv, LoopType
  <2> QED
    BY <1>13, <2>1, <2>2, <2>3 DEF ThreadMoves, LoopInv, loop
<1>14. CASE Pick
  BY <1>13, <1>14, PickMoves DEF LoopInv
<1>15. ASSUME NEW t \in Targets, GiveUp(t) \/ Raise(t) \/ Step(t)
       PROVE  LoopInv'
  BY <1>13, <1>15, ThreadSteps DEF LoopInv
<1> QED
  BY <1>1, <1>2, <1>3, <1>4, <1>5, <1>6, <1>7, <1>8, <1>9, <1>10, <1>11, <1>12, <1>14, <1>15
  DEF Next

\* A session with a final status has no thread at work, unless Ctrl+C was pressed
\* twice (SessionEndsQuiet).
THEOREM NoThreadOutlivesItsSession == Spec => []SessionEndsQuiet
<1>1. LoopInv => SessionEndsQuiet
  BY DEF LoopInv, SessionEndsQuiet, Having
<1> QED
  BY <1>1, TypeInit, TypeStep, LoopInit, LoopStep, PTL DEF Spec

-----------------------------------------------------------------------------
(* The status a session ends with.                                         *)

\* A thread has its tables ahead of it, or completed, and ends its target when
\* all are, or gives it up.
TargetInv ==
    \A t \in Targets :
        /\ tpc[t] = "scanning" => \A b \in TablesOf[t] :
              \/ b \in todo[t]
              \/ b = table[t]
              \/ ckpt[<<t, b>>] = "completed"
        /\ tpc[t] = "ok" => t \in gaveUp \/ \A b \in TablesOf[t] : ckpt[<<t, b>>] = "completed"

\* What an outcome says of the targets.
Truthful(outcome) ==
    /\ outcome = "completed" /\ ~escaped => \A t \in Targets : tpc[t] = "ok"
    /\ outcome = "completed_errors" => \E t \in Targets : tpc[t] = "raised"

\* final_status is the sum of the futures taken so far, and truthful once the
\* loop is over.
OutcomeInv ==
    /\ main = "loop" => final = "completed"
    /\ main \in {"submit", "harvest"} =>
          /\ final # "interrupted"
          /\ final = "completed" => \A t \in handled : tpc[t] = "ok"
          /\ final = "completed_errors" => \E t \in handled : tpc[t] = "raised"
    /\ main = "finish" => Truthful(final)
    /\ main = "off" => Truthful(status)

EndInv == TargetInv /\ OutcomeInv

LEMMA EndInit == Init => EndInv
BY DEF Init, Idle, EndInv, TargetInv, OutcomeInv, Truthful

LEMMA TargetStep ==
    ASSUME TypeInv, WorkInv, TargetInv, [Next]_vars
    PROVE  TargetInv'
<1> USE Constants DEF ConstantAssumptions
<1>0. DataType /\ ThreadType /\ TablesInv
  BY DEF TypeInv
<1>1. ASSUME UNCHANGED <<ckpt, gaveUp, todo, table>>,
             \A t \in Targets : tpc'[t] \in {"scanning", "ok"} => tpc'[t] = tpc[t]
      PROVE  TargetInv'
  BY <1>1 DEF TargetInv
<1>2. CASE \/ LeaveLoop \/ Wait \/ ShutDown \/ InterruptAgain \/ Finish \/ UNCHANGED vars
           \/ \E t \in Targets : Harvest(t)
  BY <1>1, <1>2 DEF LeaveLoop, Wait, ShutDown, InterruptAgain, Finish, Harvest, vars, data,
      threads, loop
<1>3. CASE RunNext \/ Submit \/ Pick
  BY <1>0, <1>1, <1>3 DEF RunNext, Submit, Pick, ThreadType, data
<1>4. CASE Start \/ Crash
  BY <1>4 DEF Start, Crash, TargetInv
<1>5. CASE Interrupt
  <2>1. CASE main = "loop"
    BY <1>0, <1>5, <2>1 DEF Interrupt, TargetInv, Busy, data
  <2>2. CASE main # "loop"
    BY <1>1, <1>5, <2>2 DEF Interrupt, threads, data
  <2> QED
    BY <2>1, <2>2
<1>6. ASSUME NEW t \in Targets, GiveUp(t)
      PROVE  TargetInv'
  BY <1>0, <1>6 DEF GiveUp, Over, TargetInv, ThreadType, data
<1>7. ASSUME NEW t \in Targets, Raise(t)
      PROVE  TargetInv'
  BY <1>0, <1>7 DEF Raise, Over, TargetInv, ThreadType, data
<1>8. ASSUME NEW t \in Targets, Discover(t)
      PROVE  TargetInv'
  BY <1>0, <1>8 DEF Discover, CompletedTables, TargetInv, ThreadType, data
<1>9. ASSUME NEW t \in Targets, StartTable(t)
      PROVE  TargetInv'
  <2>1. PICK b \in todo[t] :
          /\ todo' = [todo EXCEPT ![t] = @ \ {b}]
          /\ table' = [table EXCEPT ![t] = b]
          /\ ckpt' = [ckpt EXCEPT ![<<t, b>>] = IF @ = "completed" THEN @ ELSE "in_progress"]
    BY <1>9 DEF StartTable
  <2>2. ASSUME NEW u \in Targets, NEW e \in TablesOf[u], ckpt[<<u, e>>] = "completed"
        PROVE  ckpt'[<<u, e>>] = "completed"
    <3>1. <<u, e>> \in Work
      BY DEF Work
    <3> QED
      BY <1>0, <2>1, <2>2, <3>1 DEF DataType
  <2>3. UNCHANGED <<tpc, gaveUp>> /\ table[t] = NoTable
    BY <1>9 DEF StartTable
  <2>4. ASSUME NEW u \in Targets, tpc'[u] = "scanning", NEW e \in TablesOf[u]
        PROVE  e \in todo'[u] \/ e = table'[u] \/ ckpt'[<<u, e>>] = "completed"
    <3>1. e \in todo[u] \/ e = table[u] \/ ckpt[<<u, e>>] = "completed"
      BY <2>3, <2>4 DEF TargetInv
    <3>2. e # NoTable
      OBVIOUS
    <3> QED
      BY <1>0, <2>1, <2>2, <2>3, <3>1, <3>2 DEF ThreadType
  <2> QED
    BY <2>2, <2>3, <2>4 DEF TargetInv
<1>10. ASSUME NEW t \in Targets, SampleColumn(t)
       PROVE  TargetInv'
  BY <1>1, <1>10 DEF SampleColumn
<1>11. ASSUME NEW t \in Targets, FinishTable(t)
       PROVE  TargetInv'
  <2>1. table[t] \in TablesOf[t] /\ <<t, table[t]>> \in Work
    BY <1>0, <1>11 DEF FinishTable, TablesInv, Work
  <2>2. ckpt'[<<t, table[t]>>] = "completed"
    BY <1>0, <1>11, <2>1 DEF FinishTable, DataType
  <2>3. ASSUME NEW u \in Targets, NEW e \in TablesOf[u], ckpt[<<u, e>>] = "completed"
        PROVE  ckpt'[<<u, e>>] = "completed"
    <3>1. <<u, e>> \in Work
      BY DEF Work
    <3> QED
      BY <1>0, <1>11, <2>3, <3>1 DEF FinishTable, DataType
  <2>4. UNCHANGED <<tpc, gaveUp, todo>> /\ \A u \in Targets \ {t} : table'[u] = table[u]
    BY <1>0, <1>11 DEF FinishTable, ThreadType
  <2>5. ASSUME NEW u \in Targets, tpc'[u] = "scanning", NEW e \in TablesOf[u]
        PROVE  e \in todo'[u] \/ e = table'[u] \/ ckpt'[<<u, e>>] = "completed"
    <3>1. e \in todo[u] \/ e = table[u] \/ ckpt[<<u, e>>] = "completed"
      BY <2>4, <2>5 DEF TargetInv
    <3> QED
      BY <2>2, <2>3, <2>4, <3>1
  <2> QED
    BY <2>3, <2>4, <2>5 DEF TargetInv
<1>12. ASSUME NEW t \in Targets, EndTarget(t)
       PROVE  TargetInv'
  <2>1. \A b \in TablesOf[t] : ckpt[<<t, b>>] = "completed"
    BY <1>12 DEF EndTarget, TargetInv
  <2> QED
    BY <1>0, <1>12, <2>1 DEF EndTarget, Over, TargetInv, ThreadType, data
<1> QED
  BY <1>2, <1>3, <1>4, <1>5, <1>6, <1>7, <1>8, <1>9, <1>10, <1>11, <1>12 DEF Next, Step

\* The adaptive loop is over only when it has taken every future.
LEMMA WaitedForAll ==
    ASSUME TypeInv, Wait, InFlight = {}
    PROVE  Targets \subseteq handled
<1>1. ThreadType /\ LoopType
  BY DEF TypeInv
<1>2. Cardinality(InFlight) = 0
  BY FS_EmptySet
<1>3. Pending = {}
  BY <1>1, <1>2, Constants DEF ConstantAssumptions, Wait, LoopType
<1> QED
  BY <1>1, <1>3 DEF Pending, InFlight, Having, ThreadType

LEMMA OutcomeStep ==
    ASSUME TypeInv, LoopInv, OutcomeInv, [Next]_vars
    PROVE  OutcomeInv'
<1>0. DataType /\ ThreadType /\ LoopType
  BY DEF TypeInv
<1>1. CASE UNCHANGED vars
  BY <1>1 DEF OutcomeInv, Truthful, vars, loop, threads, ghosts
<1>2. CASE Start
  BY <1>2 DEF Start, OutcomeInv
<1>3. CASE Crash
  <2>1. main' = "off" /\ status' \in {"running", "interrupted"}
    BY <1>3 DEF Crash, LoopInv, Having
  <2> QED
    BY <2>1 DEF OutcomeInv, Truthful
<1>4. CASE RunNext
  BY <1>4 DEF RunNext, OutcomeInv, loop
<1>5. CASE LeaveLoop
  <2>1. main' = "finish" /\ final' = "completed" /\ UNCHANGED tpc
    BY <1>5 DEF LeaveLoop, OutcomeInv, threads
  <2>2. ASSUME ~escaped', NEW t \in Targets
        PROVE  tpc[t] = "ok"
    BY <1>0, <1>5, <2>2 DEF LeaveLoop, LoopInv, Having, Pending, Busy, Open, Done, ThreadType
  <2> QED
    BY <2>1, <2>2 DEF OutcomeInv, Truthful
<1>6. CASE Submit
  <2>1. PICK t \in Targets : tpc[t] = "waiting" /\ tpc' = [tpc EXCEPT ![t] = "queued"]
    BY <1>6 DEF Submit, Pending, Having
  <2>2. t \notin handled
    BY <2>1 DEF LoopInv, Done
  <2> QED
    BY <1>0, <1>6, <2>1, <2>2 DEF Submit, OutcomeInv, ThreadType, LoopType, loop
<1>7. CASE Wait
  <2>1. CASE InFlight = {}
    BY <1>0, <1>7, <2>1, WaitedForAll DEF Wait, OutcomeInv, Truthful, LoopType, threads
  <2>2. CASE InFlight # {}
    BY <1>7, <2>2 DEF Wait, OutcomeInv, threads
  <2> QED
    BY <2>1, <2>2
<1>8. ASSUME NEW t \in Targets, Harvest(t)
      PROVE  OutcomeInv'
  <2>1. /\ main = "harvest"
        /\ tpc[t] \in Done
        /\ handled' = handled \cup {t}
        /\ final' = StatusAfter(t)
        /\ UNCHANGED tpc
    BY <1>8 DEF Harvest, LoopInv, Having, threads
  <2>2. \/ main' \in {"submit", "harvest"}
        \/ main' = "finish" /\ handled' = Targets
    BY <1>8 DEF Harvest
  <2>3. /\ final' # "interrupted"
        /\ final' = "completed" => \A u \in handled' : tpc'[u] = "ok"
        /\ final' = "completed_errors" => \E u \in handled' : tpc'[u] = "raised"
    BY <2>1 DEF OutcomeInv, StatusAfter, Done
  <2> QED
    BY <2>2, <2>3 DEF OutcomeInv, Truthful
<1>9. CASE Interrupt
  BY <1>9 DEF Interrupt, OutcomeInv, Truthful
<1>10. CASE ShutDown \/ InterruptAgain
  BY <1>10 DEF ShutDown, InterruptAgain, LoopInv, OutcomeInv, Truthful
<1>11. CASE Finish
  BY <1>11 DEF Finish, OutcomeInv, Truthful, threads, ghosts
<1>12. ASSUME NEW t \in Targets, ThreadMoves(t)
       PROVE  OutcomeInv'
  <2>1. tpc[t] \notin Done
    BY <1>12 DEF ThreadMoves, Open, Done
  <2>2. \A u \in Targets : tpc[u] \in Done => tpc'[u] = tpc[u]
    BY <1>0, <1>12, <2>1 DEF ThreadMoves, ThreadType
  <2>3. handled \subseteq Targets /\ \A u \in handled : tpc'[u] = tpc[u]
    BY <1>0, <2>2 DEF LoopInv, LoopType
  <2> QED
    BY <1>12, <2>2, <2>3 DEF ThreadMoves, OutcomeInv, Truthful, Done, loop
<1>13. CASE Pick
  BY <1>12, <1>13, PickMoves
<1>14. ASSUME NEW t \in Targets, GiveUp(t) \/ Raise(t) \/ Step(t)
       PROVE  OutcomeInv'
  BY <1>12, <1>14, ThreadSteps
<1> QED
  BY <1>1, <1>2, <1>3, <1>4, <1>5, <1>6, <1>7, <1>8, <1>9, <1>10, <1>11, <1>13, <1>14 DEF Next

\* A session that ends as completed ran every target to its end or to a recorded
\* failure, unless an exception left the sequential loop, and one that ends with
\* errors has a target that raised (EndStatusTellsTheTruth).
THEOREM CompletedMeansRun == Spec => []EndStatusTellsTheTruth
<1>1. TypeInv /\ LoopInv /\ EndInv => EndStatusTellsTheTruth
  <2> SUFFICES ASSUME TypeInv, LoopInv, EndInv
               PROVE  EndStatusTellsTheTruth
    OBVIOUS
  <2>1. status \in {"completed", "completed_errors"} =>
            Truthful(status) /\ \A t \in Targets : tpc[t] \notin Open
    BY DEF LoopInv, EndInv, OutcomeInv
  <2>2. ASSUME NEW t \in Targets, tpc[t] = "ok"
        PROVE  t \in gaveUp \/ CompletedTables(t) = TablesOf[t]
    BY <2>2 DEF EndInv, TargetInv, CompletedTables
  <2> QED
    BY <2>1, <2>2 DEF EndStatusTellsTheTruth, Truthful, Having
<1>2. EndInv /\ TypeInv /\ WorkInv /\ LoopInv /\ [Next]_vars => EndInv'
  BY TargetStep, OutcomeStep DEF EndInv
<1> QED
  BY <1>1, <1>2, TypeInit, TypeStep, WorkInit, WorkStep, LoopInit, LoopStep, EndInit, PTL
  DEF Spec

-----------------------------------------------------------------------------
(* Refinement: ScanRun implements ResumableScan.                           *)

LEMMA LedgerInit == Init => Ledger!Init
BY DEF Init, Ledger!Init

LEMMA LedgerStep ==
    ASSUME TypeInv, WorkInv, LoopInv, [Next]_vars
    PROVE  [Ledger!Next]_Ledger!vars
<1> DEFINE completed == {w \in Work : ckpt[w] = "completed"}
<1>0. DataType /\ LoopType /\ ThreadType /\ TablesInv
  BY DEF TypeInv
<1>1. ASSUME UNCHANGED <<status, ckpt>>
      PROVE  UNCHANGED Ledger!vars
  BY <1>1 DEF Ledger!vars
<1>2. CASE Start
  <2>1. status' = "running" /\ completed' = completed
    BY <1>2 DEF Start, data
  <2>2. status \in {"absent", "running", "interrupted", "completed_errors"}
    BY <1>0, <1>2 DEF Start, MayRun, DataType
  <2> QED
    BY <2>1, <2>2 DEF Ledger!Next, Ledger!Start, Ledger!Resume, Ledger!Resumable
<1>3. CASE Finish
  <2>1. status = "running" /\ status' = final /\ completed' = completed
    BY <1>3 DEF Finish, LoopInv, data
  <2> QED
    BY <1>0, <2>1 DEF Ledger!Next, Ledger!End, LoopType
<1>4. ASSUME NEW t \in Targets, FinishTable(t)
      PROVE  Ledger!Next
  <2>1. PICK b \in TablesOf[t] : b = table[t] /\ <<t, b>> \in Work
    BY <1>0, <1>4, Constants DEF ConstantAssumptions, FinishTable, TablesInv, Work
  <2>2. ckpt' = [ckpt EXCEPT ![<<t, b>>] = "completed"] /\ UNCHANGED status
    BY <1>4, <2>1 DEF FinishTable
  <2>3. <<t, b>> \notin completed
    BY <1>4, <2>1 DEF FinishTable, WorkInv, CkptInv
  <2>4. completed' = completed \cup {<<t, b>>}
    BY <1>0, <2>1, <2>2 DEF DataType
  <2>5. status \in {"running", "interrupted"}
    BY <1>4 DEF FinishTable, LoopInv, Open
  <2> QED
    BY <2>1, <2>2, <2>3, <2>4, <2>5 DEF Ledger!Next, Ledger!Complete
<1>5. ASSUME NEW t \in Targets, StartTable(t)
      PROVE  UNCHANGED Ledger!vars
  <2>1. PICK b \in todo[t] :
          ckpt' = [ckpt EXCEPT ![<<t, b>>] = IF @ = "completed" THEN @ ELSE "in_progress"]
    BY <1>5 DEF StartTable
  <2>2. \A w \in Work : ckpt'[w] = "completed" <=> ckpt[w] = "completed"
    BY <1>0, <2>1 DEF DataType
  <2> QED
    BY <1>5, <2>2 DEF StartTable, Ledger!vars
<1>6. CASE \/ Crash \/ RunNext \/ LeaveLoop \/ Submit \/ Wait \/ Interrupt \/ ShutDown
           \/ InterruptAgain \/ Pick \/ UNCHANGED vars
  BY <1>1, <1>6 DEF Crash, RunNext, LeaveLoop, Submit, Wait, Interrupt, ShutDown, InterruptAgain,
      Pick, vars, data
<1>7. ASSUME NEW t \in Targets,
             Harvest(t) \/ GiveUp(t) \/ Raise(t) \/ Discover(t) \/ SampleColumn(t) \/ EndTarget(t)
      PROVE  UNCHANGED Ledger!vars
  BY <1>1, <1>7 DEF Harvest, GiveUp, Raise, Discover, SampleColumn, EndTarget, data
<1> QED
  BY <1>2, <1>3, <1>4, <1>5, <1>6, <1>7 DEF Next, Step

\* Runs, crashes and resumes of a scan keep the promise of --resume: completed
\* tables are never lost or done again, and a completed session stays completed
\* (KeepsLedger).
THEOREM ImplementsResumableScan == Spec => KeepsLedger
<1> QED
  BY TypeInit, TypeStep, WorkInit, WorkStep, LoopInit, LoopStep, LedgerInit, LedgerStep, PTL
  DEF Spec, KeepsLedger, Ledger!Spec
=============================================================================
