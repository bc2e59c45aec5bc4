--------------------------- MODULE DashboardProofs ---------------------------
(***************************************************************************)
(* Proofs about Dashboard, for any sessions, engines, tenants and          *)
(* switches, and about ConfigEditor, for any tabs, targets and passwords   *)
(* and, for the operators of RedactConfig, for any configuration.          *)
(***************************************************************************)
EXTENDS Dashboard, ConfigEditor, TLAPS, FiniteSetTheorems, SequenceTheorems

ConstantAssumptions ==
    /\ MaxEngines \in Nat \ {0}
    /\ NoSession \notin Sessions
    /\ OtherId \notin Sessions

LEMMA Constants == ConstantAssumptions
BY BoundsAssumption, NullsAssumption DEF ConstantAssumptions

-----------------------------------------------------------------------------
(* Type correctness.                                                       *)

\* A task that has not given its engine's config back has an engine.
TasksHaveEngines == \A s \in Sessions : pc[s] \in Unrestored => on[s] \in Engines

TypeInv == TypeOK /\ TasksHaveEngines

\* The list that is cached is well typed.
LEMMA ListedType ==
    ASSUME TypeOK
    PROVE  Listed \in UNION {[S -> ListedRow] : S \in SUBSET Sessions}
<1> DEFINE K == {t \in Sessions : Known(t)}
<1>1. Listed \in [K -> ListedRow]
  BY DEF Listed, Known, ListedRow, TypeOK, TenantsOrNone
<1>2. K \in SUBSET Sessions
  OBVIOUS
<1> QED
  BY <1>1, <1>2

LEMMA TypeInit == Init => TypeInv
BY Constants DEF ConstantAssumptions, Init, TypeInv, TypeOK, TasksHaveEngines, Engines,
    NoEngine, Options, Steps, Unrestored, Scanning, TenantsOrNone

LEMMA TypeStep ==
    ASSUME TypeInv, [Next]_vars
    PROVE  TypeInv'
<1> USE Constants DEF ConstantAssumptions, TypeInv
<1>1. CASE UNCHANGED vars
  BY <1>1 DEF TypeOK, TasksHaveEngines, vars, shared, rows, tasks, ghosts
<1>2. CASE SaveConfig
  BY <1>2 DEF SaveConfig, TypeOK, TasksHaveEngines, shared, rows, tasks, ghosts
<1>3. CASE GetEngine
  BY <1>3 DEF GetEngine, TypeOK, TasksHaveEngines, Engines, shared, rows, tasks, ghosts
<1>4. CASE GetList
  BY <1>4, ListedType DEF GetList, TypeOK, TasksHaveEngines, shared, rows, tasks, ghosts
<1>5. ASSUME NEW s \in Sessions, NEW k \in {"scan", "scan_database"}, StartScan(s, k)
      PROVE  TypeInv'
  <2>1. engine \in Engines
    BY <1>5 DEF StartScan, SlotFree, TypeOK
  <2>2. PICK a \in Overlays(k) :
            /\ asked' = [asked EXCEPT ![s] = a]
            /\ config' = [config EXCEPT ![engine] = @ \cup a]
    BY <1>5 DEF StartScan
  <2>3. a \subseteq Options
    BY DEF Overlays, Options
  <2>4. /\ config' \in [Engines -> SUBSET Options]
        /\ asked' \in [Sessions -> SUBSET Options]
    BY <2>1, <2>2, <2>3 DEF TypeOK
  <2>5. /\ prev' \in [Sessions -> SUBSET Options]
        /\ mixed' \subseteq Engines
        /\ UNCHANGED <<strayed, moved, unclosed>>
    BY <1>5, <2>1 DEF StartScan, TypeOK
  <2>6. /\ engine' \in Engines \cup {NoEngine}
        /\ made' \in 0..MaxEngines
        /\ running' \in [Engines -> BOOLEAN]
        /\ curSid' \in [Engines -> Sessions \cup {NoSession, OtherId}]
        /\ status' \in [Sessions -> {"absent", "running", "completed"}]
        /\ tenant' \in [Sessions -> TenantsOrNone]
        /\ cache' = NoCache
    BY <1>5, <2>1 DEF StartScan, TypeOK
  <2>7. /\ pc' \in [Sessions -> Steps]
        /\ kind' \in [Sessions -> {"scan", "scan_database"}]
        /\ on' \in [Sessions -> Engines \cup {NoEngine}]
        /\ runSid' \in [Sessions -> Sessions \cup {NoSession, OtherId}]
        /\ TasksHaveEngines'
    BY <1>5, <2>1 DEF StartScan, TypeOK, TasksHaveEngines, Steps, Unrestored, Scanning
  <2> QED
    BY <2>4, <2>5, <2>6, <2>7 DEF TypeOK
<1>6. ASSUME NEW s \in Sessions, NEW k \in {"scan", "scan_database"}, StartFails(s, k)
      PROVE  TypeInv'
  <2>1. engine \in Engines
    BY <1>6 DEF StartFails, SlotFree, TypeOK
  <2>2. PICK a \in Overlays(k) :
            IF k = "scan" THEN UNCHANGED <<config, mixed>>
            ELSE /\ config' = [config EXCEPT ![engine] = @ \cup a]
                 /\ mixed' = mixed \cup {e \in {engine} : a # {}}
    BY <1>6 DEF StartFails
  <2>3. a \subseteq Options
    BY DEF Overlays, Options
  <2>4. config' \in [Engines -> SUBSET Options] /\ mixed' \subseteq Engines
    BY <2>1, <2>2, <2>3 DEF TypeOK
  <2>5. /\ curSid' \in [Engines -> Sessions \cup {NoSession, OtherId}]
        /\ pc' \in [Sessions -> Steps]
        /\ TasksHaveEngines'
        /\ UNCHANGED <<engine, made, running, rows, cache, kind, on, asked, prev, runSid,
                       strayed, moved, unclosed>>
    BY <1>6, <2>1 DEF StartFails, TypeOK, TasksHaveEngines, Steps, Unrestored, Scanning
  <2> QED
    BY <2>4, <2>5 DEF TypeOK, rows
<1>7. ASSUME NEW s \in Sessions, Begin(s)
      PROVE  TypeInv'
  BY <1>7 DEF Begin, TypeOK, TasksHaveEngines, Steps, Unrestored, Scanning, rows, ghosts
<1>8. ASSUME NEW s \in Sessions, SaveFinding(s)
      PROVE  TypeInv'
  BY <1>8 DEF SaveFinding, TypeOK, TasksHaveEngines, shared, rows, tasks
<1>9. ASSUME NEW s \in Sessions, Release(s)
      PROVE  TypeInv'
  BY <1>9 DEF Release, TypeOK, TasksHaveEngines, Steps, Unrestored, Scanning, rows, ghosts
<1>10. ASSUME NEW s \in Sessions, Finish(s)
       PROVE  TypeInv'
  BY <1>10 DEF Finish, TypeOK, TasksHaveEngines, Steps, Unrestored, Scanning, shared, ghosts
<1>11. ASSUME NEW s \in Sessions, Restore(s)
       PROVE  TypeInv'
  BY <1>11 DEF Restore, Restored, Through, TypeOK, TasksHaveEngines, Steps, Unrestored, Scanning,
      rows, ghosts
<1>12. ASSUME NEW s \in Sessions, PatchTenant(s)
       PROVE  TypeInv'
  BY <1>12 DEF PatchTenant, TypeOK, TasksHaveEngines, TenantsOrNone, shared, tasks, ghosts
<1>13. ASSUME NEW r \in Sessions \cup {OtherId}, GetReport(r)
       PROVE  TypeInv'
  BY <1>13 DEF GetReport, TypeOK, TasksHaveEngines, rows, tasks
<1>14. ASSUME NEW s \in Sessions, FinishFails(s)
       PROVE  TypeInv'
  <2>1. on[s] \in Engines
    BY <1>14 DEF FinishFails, TasksHaveEngines, Unrestored
  <2>2. CASE kind[s] = "scan"
    BY <1>14, <2>1, <2>2 DEF FinishFails, TypeOK, TasksHaveEngines, Steps, Unrestored, Scanning,
        shared, rows
  <2>3. CASE kind[s] = "scan_database"
    BY <1>14, <2>1, <2>3 DEF FinishFails, Through, TypeOK, TasksHaveEngines, Steps, Unrestored,
        Scanning, shared, rows
  <2> QED
    BY <2>2, <2>3 DEF TypeOK
<1> QED
  BY <1>1, <1>2, <1>3, <1>4, <1>5, <1>6, <1>7, <1>8, <1>9, <1>10, <1>11, <1>12, <1>13, <1>14
  DEF Next

\* Every variable of the dashboard keeps to its type (TypeOK).
THEOREM TypeCorrect == Spec => []TypeOK
<1>1. TypeInv => TypeOK
  BY DEF TypeInv
<1> QED
  BY <1>1, TypeInit, TypeStep, PTL DEF Spec

-----------------------------------------------------------------------------
(* The run slot.                                                           *)

\* The scans of an engine that are between their request's claim and their
\* release.
Scans(e) == {s \in Sessions : on[s] = e /\ pc[s] \in Scanning}

\* The slot is taken if there is one, and there is never another.
SlotInv ==
    \A e \in Engines :
        /\ running[e] <=> Scans(e) # {}
        /\ \A s, t \in Scans(e) : s = t

LEMMA SlotInit == Init => SlotInv
BY DEF Init, SlotInv, Scans, Scanning

LEMMA SlotStep ==
    ASSUME TypeInv, SlotInv, [Next]_vars
    PROVE  SlotInv'
<1> USE DEF TypeInv
<1>1. ASSUME UNCHANGED <<running, on, pc>>
      PROVE  SlotInv'
  BY <1>1 DEF SlotInv, Scans
<1>2. ASSUME NEW s \in Sessions, NEW k \in {"scan", "scan_database"}, StartScan(s, k)
      PROVE  SlotInv'
  <2>1. PICK f \in Engines : f = engine /\ ~running[f]
    BY <1>2 DEF StartScan, SlotFree, TypeOK
  <2>2. Scans(f) = {}
    BY <2>1 DEF SlotInv
  <2>3. \A e \in Engines : s \notin Scans(e)
    BY <1>2 DEF StartScan, Scans, Scanning
  <2>4. Scans(f)' = {s}
    BY <1>2, <2>1, <2>2 DEF StartScan, Scans, Scanning, TypeOK
  <2>5. running'[f]
    BY <1>2, <2>1 DEF StartScan, TypeOK
  <2>6. \A e \in Engines \ {f} : Scans(e)' = Scans(e) /\ running'[e] = running[e]
    BY <1>2, <2>1, <2>3 DEF StartScan, Scans, Scanning, TypeOK
  <2> QED
    BY <2>4, <2>5, <2>6 DEF SlotInv
<1>3. ASSUME NEW s \in Sessions, NEW k \in {"scan", "scan_database"}, StartFails(s, k)
      PROVE  SlotInv'
  <2>1. \A e \in Engines : Scans(e)' = Scans(e)
    BY <1>3 DEF StartFails, Scans, Scanning, TypeOK
  <2> QED
    BY <1>3, <2>1 DEF StartFails, SlotInv
<1>4. ASSUME NEW s \in Sessions, Begin(s)
      PROVE  SlotInv'
  <2>1. \A e \in Engines : Scans(e)' = Scans(e)
    BY <1>4 DEF Begin, Scans, Scanning, TypeOK
  <2>2. on[s] \in Engines /\ s \in Scans(on[s])
    BY <1>4 DEF Begin, Scans, Scanning, Unrestored, TasksHaveEngines
  <2>3. \A e \in Engines : running'[e] = running[e]
    BY ZenonT(30), <1>4, <2>2 DEF Begin, SlotInv, TypeOK
  <2> QED
    BY <2>1, <2>3 DEF SlotInv
<1>5. ASSUME NEW s \in Sessions, Release(s)
      PROVE  SlotInv'
  <2>1. PICK f \in Engines : f = on[s] /\ s \in Scans(f)
    BY <1>5 DEF Release, Scans, Scanning, Unrestored, TasksHaveEngines
  <2>2. Scans(f)' = {} /\ ~running'[f]
    BY <1>5, <2>1 DEF Release, SlotInv, Scans, Scanning, TypeOK
  <2>3. \A e \in Engines \ {f} : Scans(e)' = Scans(e) /\ running'[e] = running[e]
    BY <1>5, <2>1 DEF Release, Scans, TypeOK
  <2> QED
    BY <2>2, <2>3 DEF SlotInv
<1>6. ASSUME NEW s \in Sessions, Finish(s) \/ FinishFails(s) \/ Restore(s)
      PROVE  SlotInv'
  <2>1. \A e \in Engines : Scans(e)' = Scans(e)
    BY <1>6 DEF Finish, FinishFails, Restore, Through, Scans, Scanning, TypeOK, NoEngine, Engines
  <2> QED
    BY <1>6, <2>1 DEF Finish, FinishFails, Restore, SlotInv, shared
<1> QED
  BY <1>1, <1>2, <1>3, <1>4, <1>5, <1>6 DEF Next, vars, shared, rows, tasks, ghosts,
      SaveConfig, GetEngine, GetList, SaveFinding, PatchTenant, GetReport

\* Overlapping requests never start two scans on one engine, and its slot is
\* taken exactly while a scan has it (SlotHeldByOneScan).
THEOREM OneScanPerSlot == Spec => []SlotHeldByOneScan
<1>1. ASSUME SlotInv
      PROVE  SlotHeldByOneScan
  <2> SUFFICES ASSUME NEW e \in Engines
               PROVE  Cardinality(Scans(e)) = IF running[e] THEN 1 ELSE 0
    BY DEF SlotHeldByOneScan, Scans
  <2>1. CASE Scans(e) = {}
    BY <1>1, <2>1, FS_EmptySet DEF SlotInv
  <2>2. CASE Scans(e) # {}
    <3>1. PICK s : Scans(e) = {s}
      BY <1>1, <2>2 DEF SlotInv
    <3> QED
      BY <1>1, <2>2, <3>1, FS_Singleton DEF SlotInv
  <2> QED
    BY <2>1, <2>2
<1> QED
  BY <1>1, TypeInit, TypeStep, SlotInit, SlotStep, PTL DEF Spec
-----------------------------------------------------------------------------
(* Findings.                                                               *)

\* While a scan has the slot, the store's current session is its own, unless a
\* report moved it.
HomeInv ==
    /\ FindingsStayHome
    /\ \A s \in Sessions : pc[s] \in Scanning /\ s \notin moved => curSid[on[s]] = s

LEMMA HomeInit == Init => HomeInv
BY DEF Init, HomeInv, FindingsStayHome, Scanning

LEMMA HomeStep ==
    ASSUME TypeInv, SlotInv, HomeInv, [Next]_vars
    PROVE  HomeInv'
<1> USE DEF TypeInv, FindingsStayHome
<1>1. ASSUME UNCHANGED <<curSid, on, pc, strayed, moved>>
      PROVE  HomeInv'
  BY <1>1 DEF HomeInv
<1>2. ASSUME engine \in Engines, ~running[engine], NEW t \in Sessions, pc[t] \in Scanning
      PROVE  on[t] # engine
  BY <1>2 DEF SlotInv, Scans
<1>3. ASSUME NEW s \in Sessions, NEW k \in {"scan", "scan_database"}, StartScan(s, k)
      PROVE  HomeInv'
  <2>1. engine \in Engines /\ ~running[engine]
    BY <1>3 DEF StartScan, SlotFree, TypeOK
  <2>2. curSid'[on'[s]] = s
    BY <1>3, <2>1 DEF StartScan, TypeOK
  <2>3. ASSUME NEW t \in Sessions \ {s}, pc'[t] \in Scanning, t \notin moved'
        PROVE  curSid'[on'[t]] = t
    <3>1. pc[t] \in Scanning /\ t \notin moved /\ on'[t] = on[t]
      BY <1>3, <2>3 DEF StartScan, TypeOK
    <3>2. on[t] # engine
      BY <1>2, <2>1, <3>1
    <3> QED
      BY <1>3, <2>1, <3>1, <3>2 DEF StartScan, HomeInv, TypeOK, TasksHaveEngines, Unrestored
  <2> QED
    BY <1>3, <2>2, <2>3 DEF StartScan, HomeInv
<1>4. ASSUME NEW s \in Sessions, NEW k \in {"scan", "scan_database"}, StartFails(s, k)
      PROVE  HomeInv'
  <2>1. engine \in Engines /\ ~running[engine]
    BY <1>4 DEF StartFails, SlotFree, TypeOK
  <2>2. ASSUME NEW t \in Sessions, pc'[t] \in Scanning, t \notin moved'
        PROVE  curSid'[on'[t]] = t
    <3>1. pc[t] \in Scanning /\ t \notin moved /\ on'[t] = on[t]
      BY <1>4, <2>2 DEF StartFails, TypeOK, Scanning
    <3>2. on[t] # engine
      BY <1>2, <2>1, <3>1
    <3> QED
      BY <1>4, <2>1, <3>1, <3>2 DEF StartFails, HomeInv, TypeOK, TasksHaveEngines, Unrestored
  <2> QED
    BY <1>4, <2>2 DEF StartFails, HomeInv
<1>5. ASSUME NEW s \in Sessions, Begin(s) \/ Release(s) \/ Finish(s) \/ FinishFails(s) \/ Restore(s)
      PROVE  HomeInv'
  BY <1>5 DEF Begin, Release, Finish, FinishFails, Restore, Through, HomeInv, TypeOK, Scanning,
              shared, ghosts
<1>6. ASSUME NEW s \in Sessions, SaveFinding(s)
      PROVE  HomeInv'
  BY <1>6 DEF SaveFinding, HomeInv, Scanning, shared, tasks
<1>7. ASSUME NEW r \in Sessions \cup {OtherId}, GetReport(r)
      PROVE  HomeInv'
  <2>1. engine \in Engines
    BY <1>7 DEF GetReport, TypeOK
  <2>2. ASSUME NEW t \in Sessions, pc'[t] \in Scanning, t \notin moved'
        PROVE  curSid'[on'[t]] = t
    <3>1. pc[t] \in Scanning /\ t \notin moved /\ on'[t] = on[t]
      BY <1>7, <2>2 DEF GetReport, tasks
    <3>2. on[t] # engine \/ r = t
      BY <1>7, <2>2, <3>1 DEF GetReport
    <3> QED
      BY <1>7, <2>1, <3>1, <3>2 DEF GetReport, HomeInv, TypeOK, TasksHaveEngines, Unrestored
  <2> QED
    BY <1>7, <2>2 DEF GetReport, HomeInv
<1> QED
  BY <1>1, <1>3, <1>4, <1>5, <1>6, <1>7 DEF Next, vars, shared, rows, tasks, ghosts,
      SaveConfig, GetEngine, GetList, PatchTenant

\* A finding is saved under the session of its own scan, unless a report moved
\* the store's current session during it (FindingsStayHome).
THEOREM FindingsAreNotMixed == Spec => []FindingsStayHome
<1>1. HomeInv => FindingsStayHome
  BY DEF HomeInv
<1> QED
  BY <1>1, TypeInit, TypeStep, SlotInit, SlotStep, HomeInit, HomeStep, PTL DEF Spec

-----------------------------------------------------------------------------
(* Sessions are finished.                                                  *)

\* From its first target on, a scan that no report disturbed knows its own session.
FinishInv ==
    /\ \A s \in Sessions : pc[s] \in {"scanning", "released"} /\ s \notin moved => runSid[s] = s
    /\ TasksFinishTheirSessions

LEMMA FinishInit == Init => FinishInv
BY DEF Init, FinishInv, TasksFinishTheirSessions

LEMMA FinishStep ==
    ASSUME TypeInv, HomeInv, FinishInv, [Next]_vars
    PROVE  FinishInv'
<1> USE DEF TypeInv, FinishInv, TasksFinishTheirSessions
<1>1. ASSUME UNCHANGED <<pc, runSid, status, moved, unclosed>>
      PROVE  FinishInv'
  BY <1>1
<1>2. ASSUME NEW s \in Sessions, NEW k \in {"scan", "scan_database"}, StartScan(s, k)
      PROVE  FinishInv'
  BY <1>2 DEF StartScan, TypeOK
<1>3. ASSUME NEW s \in Sessions, NEW k \in {"scan", "scan_database"}, StartFails(s, k)
      PROVE  FinishInv'
  BY <1>3 DEF StartFails, Known, TypeOK, rows
<1>4. ASSUME NEW s \in Sessions, Begin(s)
      PROVE  FinishInv'
  <2>1. s \notin moved => curSid[on[s]] = s
    BY <1>4 DEF Begin, HomeInv, Scanning
  <2>2. /\ pc' = [pc EXCEPT ![s] = "scanning"] /\ UNCHANGED <<status, moved, unclosed>>
        /\ runSid' = [runSid EXCEPT ![s] = IF kind[s] = "scan" THEN curSid[on[s]] ELSE s]
    BY <1>4 DEF Begin, rows, ghosts
  <2>3. runSid'[s] \in {curSid[on[s]], s} /\ \A t \in Sessions \ {s} : runSid'[t] = runSid[t]
    BY <2>2 DEF TypeOK
  <2>4. pc'[s] = "scanning" /\ \A t \in Sessions \ {s} : pc'[t] = pc[t]
    BY <2>2 DEF TypeOK
  <2> QED
    BY <2>1, <2>2, <2>3, <2>4
<1>5. ASSUME NEW s \in Sessions, Release(s) \/ Restore(s)
      PROVE  FinishInv'
  BY <1>5 DEF Release, Restore, Through, TypeOK, rows, ghosts
<1>6. ASSUME NEW s \in Sessions, Finish(s)
      PROVE  FinishInv'
  <2>1. \A t \in Sessions : status'[t] = "running" => status[t] = "running" /\ t # runSid[s]
    BY <1>6 DEF Finish, TypeOK
  <2>2. /\ pc[s] = "released" /\ pc' = [pc EXCEPT ![s] = "finished"]
        /\ UNCHANGED <<runSid, moved, unclosed>>
    BY <1>6 DEF Finish, ghosts
  <2>3. \A t \in Sessions \ {s} : pc'[t] = pc[t]
    BY <2>2 DEF TypeOK
  <2> QED
    BY <2>1, <2>2, <2>3 DEF TypeOK
<1>7. ASSUME NEW r \in Sessions \cup {OtherId}, GetReport(r)
      PROVE  FinishInv'
  BY <1>7 DEF GetReport, rows, tasks
<1>8. ASSUME NEW s \in Sessions, FinishFails(s)
      PROVE  FinishInv'
  <2>1. /\ pc'[s] \in {"finished", "done"} /\ \A t \in Sessions \ {s} : pc'[t] = pc[t]
        /\ \A t \in Sessions \ {s} : runSid'[t] = runSid[t]
    BY <1>8 DEF FinishFails, Through, TypeOK
  <2>2. UNCHANGED <<status, moved>> /\ unclosed' = unclosed \cup ({s} \ moved)
    BY <1>8 DEF FinishFails, rows
  <2> QED
    BY <2>1, <2>2
<1> QED
  BY <1>1, <1>2, <1>3, <1>4, <1>5, <1>6, <1>7, <1>8 DEF Next, vars, shared, rows, tasks, ghosts,
      SaveConfig, GetEngine, GetList, PatchTenant, SaveFinding

\* A scan finishes its session, unless a report moved the store's current
\* session under it or finish_session failed (TasksFinishTheirSessions).
THEOREM SessionsAreFinished == Spec => []TasksFinishTheirSessions
<1>1. FinishInv => TasksFinishTheirSessions
  BY DEF FinishInv
<1> QED
  BY <1>1, TypeInit, TypeStep, SlotInit, SlotStep, HomeInit, HomeStep, FinishInit,
     FinishStep, PTL DEF Spec
-----------------------------------------------------------------------------
(* Overlays.                                                               *)

\* An engine whose overlays never met has at most one set of them, that was laid
\* over a configuration with nothing on.
OverlayInv ==
    \A e \in Engines \ mixed :
        /\ Overlaid(e) = {} => config[e] = {}
        /\ \A s, t \in Overlaid(e) : s = t
        /\ \A s \in Overlaid(e) : config[e] = asked[s] /\ prev[s] = {}

LEMMA OverlayInit == Init => OverlayInv
BY DEF Init, OverlayInv, Overlaid, Unrestored, Scanning

LEMMA OverlayStep ==
    ASSUME TypeInv, OverlayInv, [Next]_vars
    PROVE  OverlayInv'
<1> USE Constants DEF ConstantAssumptions, TypeInv
<1>1. ASSUME UNCHANGED <<config, on, pc, asked, prev, mixed>>
      PROVE  OverlayInv'
  BY <1>1 DEF OverlayInv, Overlaid
<1>2. ASSUME NEW s \in Sessions, NEW k \in {"scan", "scan_database"}, StartScan(s, k)
      PROVE  OverlayInv'
  <2>1. PICK f \in Engines : f = engine
    BY <1>2 DEF StartScan, SlotFree, TypeOK
  <2>2. PICK a : /\ asked' = [asked EXCEPT ![s] = a]
                 /\ config' = [config EXCEPT ![f] = @ \cup a]
    BY <1>2, <2>1 DEF StartScan
  <2>3. ASSUME f \notin mixed'
        PROVE  /\ Overlaid(f)' = {s}
               /\ config'[f] = asked'[s]
               /\ prev'[s] = {}
    <3>1. f \notin mixed /\ Overlaid(f) = {}
      BY <1>2, <2>1, <2>3 DEF StartScan
    <3>2. config[f] = {}
      BY <2>1, <3>1 DEF OverlayInv
    <3>3. Overlaid(f)' = {s}
      BY <1>2, <2>1, <3>1 DEF StartScan, Overlaid, Unrestored, Scanning, TypeOK
    <3> QED
      BY <1>2, <2>1, <2>2, <3>2, <3>3 DEF StartScan, TypeOK
  <2>4. ASSUME NEW e \in Engines \ {f}
        PROVE  /\ Overlaid(e)' = Overlaid(e)
               /\ s \notin Overlaid(e)
               /\ config'[e] = config[e]
    BY <1>2, <2>1, <2>2 DEF StartScan, Overlaid, Unrestored, Scanning, TypeOK
  <2>5. mixed \subseteq mixed' /\ \A t \in Sessions \ {s} : asked'[t] = asked[t] /\ prev'[t] = prev[t]
    BY <1>2, <2>2 DEF StartScan, TypeOK
  <2>6. \A e \in Engines : Overlaid(e) \subseteq Sessions
    BY DEF Overlaid
  <2> QED
    BY <2>3, <2>4, <2>5, <2>6 DEF OverlayInv
<1>3. ASSUME NEW s \in Sessions, NEW k \in {"scan", "scan_database"}, StartFails(s, k)
      PROVE  OverlayInv'
  <2>1. PICK f \in Engines : f = engine
    BY <1>3 DEF StartFails, SlotFree, TypeOK
  <2>2. PICK a : IF k = "scan" THEN UNCHANGED <<config, mixed>>
                 ELSE /\ config' = [config EXCEPT ![f] = @ \cup a]
                      /\ mixed' = mixed \cup {e \in {f} : a # {}}
    BY <1>3, <2>1 DEF StartFails
  <2>3. \A e \in Engines : Overlaid(e)' = Overlaid(e)
    BY <1>3 DEF StartFails, Overlaid, Unrestored, Scanning, TypeOK
  <2>4. mixed \subseteq mixed' /\ \A e \in Engines \ mixed' : config'[e] = config[e]
    <3>1. CASE k = "scan"
      BY <2>2, <3>1
    <3>2. CASE k # "scan" /\ a = {}
      <4>1. config[f] \cup a = config[f]
        BY <3>2
      <4> QED
        BY <2>2, <3>2, <4>1 DEF TypeOK
    <3>3. CASE k # "scan" /\ a # {}
      BY <2>2, <3>3 DEF TypeOK
    <3> QED
      BY <3>1, <3>2, <3>3
  <2> QED
    BY <1>3, <2>3, <2>4 DEF StartFails, OverlayInv
<1>4. ASSUME NEW s \in Sessions, Begin(s) \/ Release(s) \/ Finish(s)
      PROVE  OverlayInv'
  <2>1. \A e \in Engines : Overlaid(e)' = Overlaid(e)
    BY <1>4 DEF Begin, Release, Finish, Overlaid, Unrestored, Scanning, TypeOK
  <2> QED
    BY <1>4, <2>1 DEF Begin, Release, Finish, OverlayInv, shared, ghosts
<1>5. ASSUME NEW s \in Sessions, Restore(s)
      PROVE  OverlayInv'
  <2>1. PICK f \in Engines : f = on[s] /\ s \in Overlaid(f)
    BY <1>5 DEF Restore, Overlaid, Unrestored, TasksHaveEngines
  <2>2. ASSUME f \notin mixed
        PROVE  Overlaid(f)' = {} /\ config'[f] = {}
    <3>1. Overlaid(f) = {s} /\ config[f] = asked[s] /\ prev[s] = {}
      BY <2>1, <2>2 DEF OverlayInv
    <3>2. Restored(s) = {}
      BY <2>1, <3>1 DEF Restored
    <3>3. config'[f] = {}
      BY <1>5, <2>1, <3>2 DEF Restore, TypeOK
    <3>4. Overlaid(f)' = {}
      BY <1>5, <2>1, <3>1 DEF Restore, Through, Overlaid, Unrestored, Scanning, TypeOK
    <3> QED
      BY <3>3, <3>4
  <2>3. ASSUME NEW e \in Engines \ {f}
        PROVE  /\ Overlaid(e)' = Overlaid(e)
               /\ s \notin Overlaid(e)
               /\ config'[e] = config[e]
    BY <1>5, <2>1 DEF Restore, Through, Overlaid, Unrestored, Scanning, TypeOK, Engines, NoEngine
  <2>4. \A t \in Sessions \ {s} : asked'[t] = asked[t] /\ prev'[t] = prev[t]
    BY <1>5 DEF Restore, Through, TypeOK
  <2>5. mixed' = mixed /\ \A e \in Engines : Overlaid(e) \subseteq Sessions
    BY <1>5 DEF Restore, Overlaid, ghosts
  <2> QED
    BY <2>2, <2>3, <2>4, <2>5 DEF OverlayInv
<1>6. ASSUME NEW s \in Sessions, FinishFails(s), kind[s] = "scan"
      PROVE  OverlayInv'
  <2>1. \A e \in Engines : Overlaid(e)' = Overlaid(e)
    BY <1>6 DEF FinishFails, Overlaid, Unrestored, Scanning, TypeOK
  <2> QED
    BY <1>6, <2>1 DEF FinishFails, OverlayInv, shared
<1>7. ASSUME NEW s \in Sessions, FinishFails(s), kind[s] = "scan_database"
      PROVE  OverlayInv'
  <2>1. PICK f \in Engines : f = on[s] /\ s \in Overlaid(f)
    BY <1>7 DEF FinishFails, Overlaid, Unrestored, TasksHaveEngines
  <2>2. /\ mixed' = mixed \cup {e \in {f} : asked[s] # {}} /\ config' = config
        /\ Through(s)
    BY <1>7, <2>1 DEF FinishFails, shared
  <2>3. ASSUME f \notin mixed'
        PROVE  Overlaid(f)' = {} /\ config'[f] = {}
    <3>1. f \notin mixed /\ asked[s] = {}
      BY <2>2, <2>3
    <3>2. Overlaid(f) = {s} /\ config[f] = asked[s]
      BY <2>1, <3>1 DEF OverlayInv
    <3>3. Overlaid(f)' = {}
      BY <2>1, <2>2, <3>2 DEF Through, Overlaid, Unrestored, Scanning, TypeOK
    <3> QED
      BY <2>2, <3>1, <3>2, <3>3
  <2>4. ASSUME NEW e \in Engines \ {f}
        PROVE  Overlaid(e)' = Overlaid(e) /\ s \notin Overlaid(e)
    BY <2>1, <2>2 DEF Through, Overlaid, Unrestored, Scanning, TypeOK, Engines, NoEngine
  <2>5. \A t \in Sessions \ {s} : asked'[t] = asked[t] /\ prev'[t] = prev[t]
    BY <2>2 DEF Through, TypeOK
  <2>6. mixed \subseteq mixed' /\ \A e \in Engines : Overlaid(e) \subseteq Sessions
    BY <2>2 DEF Overlaid
  <2> QED
    BY <2>2, <2>3, <2>4, <2>5, <2>6 DEF OverlayInv
<1>8. ASSUME NEW s \in Sessions, FinishFails(s)
      PROVE  OverlayInv'
  BY <1>6, <1>7, <1>8 DEF FinishFails
<1> QED
  BY <1>1, <1>2, <1>3, <1>4, <1>5, <1>8 DEF Next, vars, shared, rows, tasks, ghosts,
      SaveConfig, GetEngine, GetList, SaveFinding, PatchTenant, GetReport

\* On an engine whose overlays never met, a scan runs with its own options and
\* leaves none behind (OverlaysUndone).
THEOREM OverlaysComeOff == Spec => []OverlaysUndone
<1>1. OverlayInv => OverlaysUndone
  BY DEF OverlayInv, OverlaysUndone
<1> QED
  BY <1>1, TypeInit, TypeStep, OverlayInit, OverlayStep, PTL DEF Spec

-----------------------------------------------------------------------------
(* The cached session list.                                                *)

LEMMA CacheStep ==
    ASSUME TypeInv, CachedListLagsOnlyInStatus, [Next]_vars
    PROVE  CachedListLagsOnlyInStatus'
<1> USE DEF TypeInv
<1>1. ASSUME UNCHANGED <<rows, cache>>
      PROVE  CachedListLagsOnlyInStatus'
  BY <1>1 DEF CachedListLagsOnlyInStatus, Listed, Known, rows
<1>2. ASSUME cache' = NoCache
      PROVE  CachedListLagsOnlyInStatus'
  BY <1>2 DEF CachedListLagsOnlyInStatus
<1>3. CASE GetList
  <2>1. CASE cache' = Listed
    BY <1>3, <2>1 DEF GetList, CachedListLagsOnlyInStatus, Listed, Known, rows
  <2> QED
    BY <1>1, <1>2, <1>3, <2>1 DEF GetList
<1>4. ASSUME NEW s \in Sessions, Finish(s)
      PROVE  CachedListLagsOnlyInStatus'
  <2>1. ASSUME NEW r \in Sessions
        PROVE  \/ status'[r] = status[r]
               \/ status[r] = "running" /\ status'[r] = "completed"
    BY <1>4 DEF Finish
  <2>2. DOMAIN Listed' = DOMAIN Listed
    BY <2>1 DEF Listed, Known
  <2>3. DOMAIN Listed \subseteq Sessions
    BY DEF Listed
  <2> QED
    BY <1>4, <2>1, <2>2, <2>3 DEF Finish, CachedListLagsOnlyInStatus
<1> QED
  BY <1>1, <1>2, <1>3, <1>4 DEF Next, vars, rows, SaveConfig, GetEngine, StartScan, StartFails,
      Begin, SaveFinding, Release, FinishFails, Restore, PatchTenant, GetReport

\* The cached list misses no session and no edit; it may only lag behind the end
\* of a scan (CachedListLagsOnlyInStatus).
THEOREM CacheLagsOnlyInStatus == Spec => []CachedListLagsOnlyInStatus
<1>1. Init => CachedListLagsOnlyInStatus
  BY DEF Init, CachedListLagsOnlyInStatus
<1> QED
  BY <1>1, TypeInit, TypeStep, CacheStep, PTL DEF Spec

-----------------------------------------------------------------------------
(* The configuration page: paths and trees.                                *)

\* Every path leads through containers; a string is what its parts say.
IsTree(tree) ==
    /\ <<>> \in DOMAIN tree
    /\ \A p \in DOMAIN tree :
           /\ \E S : p \in Seq(S)
           /\ tree[p].t = "str" => tree[p] = Str(tree[p].text, tree[p].secret)
           /\ \A q \in Above(p) : q \in DOMAIN tree /\ tree[q].t # "str"

\* The steps can be told apart.
LEMMA StepFacts ==
    /\ \A k : "key" \in DOMAIN Key(k) /\ Key(k).key = k
    /\ \A i : "key" \notin DOMAIN Item(i) /\ Item(i).item = i
    /\ \A k, i : Key(k) # Item(i)
    /\ \A k, l : Key(k) = Key(l) => k = l
    /\ \A i, j : Item(i) = Item(j) => i = j
<1>1. \A k : "key" \in DOMAIN Key(k) /\ Key(k).key = k
  BY DEF Key
<1>2. \A i : "key" \notin DOMAIN Item(i) /\ Item(i).item = i
  BY DEF Item
<1> QED
  BY <1>1, <1>2 DEF Key, Item

\* The first n steps of a path.
LEMMA FirstSteps ==
    ASSUME NEW S, NEW p \in Seq(S), NEW n \in 0..Len(p)
    PROVE  /\ SubSeq(p, 1, n) \in Seq(S)
           /\ Len(SubSeq(p, 1, n)) = n
           /\ \A i \in 1..n : SubSeq(p, 1, n)[i] = p[i]
<1>1. Len(p) \in Nat /\ \A i \in 1..n : p[i] \in S
  BY LenProperties, ElementOfSeq
<1> QED
  BY <1>1, SubSeqProperties, 1 \in Int, n \in Int, n - 1 + 1 = n

\* A path that agrees with the first steps of another.
LEMMA FirstStepsAre ==
    ASSUME NEW S, NEW p \in Seq(S), NEW r \in Seq(S),
           Len(r) <= Len(p), \A i \in 1..Len(r) : p[i] = r[i]
    PROVE  SubSeq(p, 1, Len(r)) = r
<1>1. Len(r) \in 0..Len(p)
  BY LenProperties
<1>2. /\ SubSeq(p, 1, Len(r)) \in Seq(S)
      /\ Len(SubSeq(p, 1, Len(r))) = Len(r)
      /\ \A i \in 1..Len(r) : SubSeq(p, 1, Len(r))[i] = p[i]
  BY <1>1, FirstSteps
<1> QED
  BY <1>2, SeqEqual

\* A path is a prefix of itself, prefixes of prefixes are prefixes, and two
\* prefixes of a path are one above the other.
LEMMA PrefixFacts ==
    ASSUME NEW S, NEW p \in Seq(S)
    PROVE  /\ Prefixes(p) \subseteq Seq(S)
           /\ p \in Prefixes(p)
           /\ <<>> \in Prefixes(p)
           /\ \A q \in Prefixes(p) : Prefixes(q) \subseteq Prefixes(p)
           /\ \A q, r \in Prefixes(p) : q = r \/ q \in Above(r) \/ r \in Above(q)
<1>0. Len(p) \in Nat /\ \A i \in 1..Len(p) : p[i] \in S
  BY LenProperties, ElementOfSeq
<1> DEFINE P(n) == SubSeq(p, 1, n)
<1>1. \A n \in 0..Len(p) : P(n) \in Seq(S) /\ Len(P(n)) = n /\ \A i \in 1..n : P(n)[i] = p[i]
  BY FirstSteps
<1>2. \A m \in 0..Len(p), n \in 0..Len(p) : n <= m => SubSeq(P(m), 1, n) = P(n)
  <2> SUFFICES ASSUME NEW m \in 0..Len(p), NEW n \in 0..Len(p), n <= m
               PROVE  SubSeq(P(m), 1, n) = P(n)
    OBVIOUS
  <2>1. \A i \in 1..n : P(m)[i] \in S /\ P(m)[i] = p[i]
    BY <1>0, <1>1
  <2>2. /\ SubSeq(P(m), 1, n) \in Seq(S) /\ Len(SubSeq(P(m), 1, n)) = n
        /\ \A i \in 1..n : SubSeq(P(m), 1, n)[i] = P(m)[i]
    BY <1>1, FirstSteps
  <2>3. P(n) \in Seq(S) /\ Len(P(n)) = n /\ \A i \in 1..n : P(n)[i] = p[i]
    BY <1>1
  <2> HIDE DEF P
  <2> QED
    BY <2>1, <2>2, <2>3, SeqEqual
<1>3. Prefixes(p) = {P(n) : n \in 0..Len(p)}
  BY DEF Prefixes
<1>4. P(Len(p)) = p
  BY SubSeqFull
<1>5. P(0) = <<>>
  BY SubSeqEmpty
<1>6. \A m \in 0..Len(p) : Prefixes(P(m)) = {P(n) : n \in 0..m}
  <2> TAKE m \in 0..Len(p)
  <2>1. Len(P(m)) = m
    BY <1>1
  <2>2. \A n \in 0..m : SubSeq(P(m), 1, n) = P(n)
    BY <1>0, <1>2
  <2> HIDE DEF P
  <2> QED
    BY <2>1, <2>2 DEF Prefixes
<1> HIDE DEF P
<1>7. \A q \in Prefixes(p) : Prefixes(q) \subseteq Prefixes(p)
  BY <1>0, <1>3, <1>6
<1>8. ASSUME NEW q \in Prefixes(p), NEW r \in Prefixes(p), q # r
      PROVE  q \in Above(r) \/ r \in Above(q)
  <2>1. PICK m \in 0..Len(p), n \in 0..Len(p) : q = P(m) /\ r = P(n)
    BY <1>3
  <2> QED
    BY <1>0, <1>6, <1>8, <2>1 DEF Above
<1> QED
  BY <1>0, <1>1, <1>3, <1>4, <1>5, <1>7, <1>8

\* The prefixes of the paths that are in a configuration.
LEMMA ShortPaths ==
    /\ Prefixes(<<>>) = {<<>>}
    /\ \A a : Prefixes(<<a>>) = {<<>>, <<a>>}
    /\ \A a, b : Prefixes(<<a, b>>) = {<<>>, <<a>>, <<a, b>>}
    /\ \A a, b, c : Prefixes(<<a, b, c>>) = {<<>>, <<a>>, <<a, b>>, <<a, b, c>>}
<1>1. Prefixes(<<>>) = {<<>>}
  <2>1. Len(<<>>) = 0 /\ 0..0 = {0}
    OBVIOUS
  <2>2. SubSeq(<<>>, 1, 0) = <<>>
    BY SubSeqEmpty
  <2> QED
    BY <2>1, <2>2 DEF Prefixes
<1>2. ASSUME NEW a PROVE Prefixes(<<a>>) = {<<>>, <<a>>}
  <2>1. Len(<<a>>) = 1 /\ 0..1 = {0, 1}
    OBVIOUS
  <2>2. SubSeq(<<a>>, 1, 0) = <<>>
    BY SubSeqEmpty
  <2>3. SubSeq(<<a>>, 1, 1) = <<a>>
    <3> DEFINE S == {a}
               p == <<a>>
               r == <<a>>
    <3>1. p \in Seq(S) /\ r \in Seq(S)
      OBVIOUS
    <3>2. Len(r) = 1 /\ Len(r) <= Len(p) /\ \A i \in 1..Len(r) : p[i] = r[i]
      OBVIOUS
    <3> HIDE DEF S, p, r
    <3>3. SubSeq(p, 1, Len(r)) = r
      BY <3>1, <3>2, FirstStepsAre
    <3> QED
      BY <3>2, <3>3 DEF p, r
  <2> QED
    BY <2>1, <2>2, <2>3 DEF Prefixes
<1>3. ASSUME NEW a, NEW b PROVE Prefixes(<<a, b>>) = {<<>>, <<a>>, <<a, b>>}
  <2>1. Len(<<a, b>>) = 2 /\ 0..2 = {0, 1, 2}
    OBVIOUS
  <2>2. SubSeq(<<a, b>>, 1, 0) = <<>>
    BY SubSeqEmpty
  <2>3. SubSeq(<<a, b>>, 1, 1) = <<a>>
    <3> DEFINE S == {a, b}
               p == <<a, b>>
               r == <<a>>
    <3>1. p \in Seq(S) /\ r \in Seq(S)
      OBVIOUS
    <3>2. Len(r) = 1 /\ Len(r) <= Len(p) /\ \A i \in 1..Len(r) : p[i] = r[i]
      OBVIOUS
    <3> HIDE DEF S, p, r
    <3>3. SubSeq(p, 1, Len(r)) = r
      BY <3>1, <3>2, FirstStepsAre
    <3> QED
      BY <3>2, <3>3 DEF p, r
  <2>4. SubSeq(<<a, b>>, 1, 2) = <<a, b>>
    <3> DEFINE S == {a, b}
               p == <<a, b>>
               r == <<a, b>>
    <3>1. p \in Seq(S) /\ r \in Seq(S)
      OBVIOUS
    <3>2. Len(r) = 2 /\ Len(r) <= Len(p) /\ \A i \in 1..Len(r) : p[i] = r[i]
      OBVIOUS
    <3> HIDE DEF S, p, r
    <3>3. SubSeq(p, 1, Len(r)) = r
      BY <3>1, <3>2, FirstStepsAre
    <3> QED
      BY <3>2, <3>3 DEF p, r
  <2> QED
    BY <2>1, <2>2, <2>3, <2>4 DEF Prefixes
<1>4. ASSUME NEW a, NEW b, NEW c
      PROVE  Prefixes(<<a, b, c>>) = {<<>>, <<a>>, <<a, b>>, <<a, b, c>>}
  <2>1. Len(<<a, b, c>>) = 3 /\ 0..3 = {0, 1, 2, 3}
    OBVIOUS
  <2>2. SubSeq(<<a, b, c>>, 1, 0) = <<>>
    BY SubSeqEmpty
  <2>3. SubSeq(<<a, b, c>>, 1, 1) = <<a>>
    <3> DEFINE S == {a, b, c}
               p == <<a, b, c>>
               r == <<a>>
    <3>1. p \in Seq(S) /\ r \in Seq(S)
      OBVIOUS
    <3>2. Len(r) = 1 /\ Len(r) <= Len(p) /\ \A i \in 1..Len(r) : p[i] = r[i]
      OBVIOUS
    <3> HIDE DEF S, p, r
    <3>3. SubSeq(p, 1, Len(r)) = r
      BY <3>1, <3>2, FirstStepsAre
    <3> QED
      BY <3>2, <3>3 DEF p, r
  <2>4. SubSeq(<<a, b, c>>, 1, 2) = <<a, b>>
    <3> DEFINE S == {a, b, c}
               p == <<a, b, c>>
               r == <<a, b>>
    <3>1. p \in Seq(S) /\ r \in Seq(S)
      OBVIOUS
    <3>2. Len(r) = 2 /\ Len(r) <= Len(p) /\ \A i \in 1..Len(r) : p[i] = r[i]
      OBVIOUS
    <3> HIDE DEF S, p, r
    <3>3. SubSeq(p, 1, Len(r)) = r
      BY <3>1, <3>2, FirstStepsAre
    <3> QED
      BY <3>2, <3>3 DEF p, r
  <2>5. SubSeq(<<a, b, c>>, 1, 3) = <<a, b, c>>
    <3> DEFINE S == {a, b, c}
               p == <<a, b, c>>
               r == <<a, b, c>>
    <3>1. p \in Seq(S) /\ r \in Seq(S)
      OBVIOUS
    <3>2. Len(r) = 3 /\ Len(r) <= Len(p) /\ \A i \in 1..Len(r) : p[i] = r[i]
      OBVIOUS
    <3> HIDE DEF S, p, r
    <3>3. SubSeq(p, 1, Len(r)) = r
      BY <3>1, <3>2, FirstStepsAre
    <3> QED
      BY <3>2, <3>3 DEF p, r
  <2> QED
    BY <2>1, <2>2, <2>3, <2>4, <2>5 DEF Prefixes
<1> QED
  BY <1>1, <1>2, <1>3, <1>4

-----------------------------------------------------------------------------
(* The configuration page: the merge, path by path.                        *)

\* Where the walk does not end on its way to a path, both trees have it, and
\* the merge has the submitted node.
LEMMA WalkedThrough ==
    ASSUME NEW s, NEW c, NEW p \in DOMAIN s \cup DOMAIN c, p \in Prefixes(p),
           \A r \in Prefixes(p) : ~Settled(s, c, r)
    PROVE  /\ p \in DOMAIN MergeConfigOnSave(s, c)
           /\ MergeConfigOnSave(s, c)[p] = s[p]
           /\ p \in DOMAIN s /\ p \in DOMAIN c /\ s[p].t = c[p].t /\ s[p].t # "str"
<1>1. Prefixes(p) \cap Kept(s, c) = {}
  BY DEF Kept
<1>2. ~Settled(s, c, p)
  OBVIOUS
<1>3. p \in DOMAIN s
  BY <1>2 DEF Settled
<1> QED
  BY <1>1, <1>2, <1>3 DEF MergeConfigOnSave, Settled

\* Where it ends first on the way to a path decides about the path.
LEMMA EndedAt ==
    ASSUME NEW S, NEW s, NEW c, NEW p \in Seq(S), p \in DOMAIN s \cup DOMAIN c,
           NEW q \in Prefixes(p), q \in DOMAIN s \cup DOMAIN c,
           Settled(s, c, q), \A r \in Above(q) : ~Settled(s, c, r)
    PROVE  LET from == IF KeepsCurrent(s, c, q) THEN c ELSE s IN
           /\ p \in DOMAIN MergeConfigOnSave(s, c) <=> p \in DOMAIN from
           /\ p \in DOMAIN from => MergeConfigOnSave(s, c)[p] = from[p]
<1>1. CASE KeepsCurrent(s, c, q)
  <2>1. q \in Prefixes(p) \cap Kept(s, c)
    BY <1>1 DEF Kept
  <2>2. Prefixes(p) \cap Kept(s, c) # {}
    BY <2>1
  <2> QED
    BY <1>1, <2>2 DEF MergeConfigOnSave
<1>2. CASE ~KeepsCurrent(s, c, q)
  <2>1. SUFFICES Prefixes(p) \cap Kept(s, c) = {}
    BY <1>2 DEF MergeConfigOnSave
  <2>2. SUFFICES ASSUME NEW r \in Prefixes(p), r \in Kept(s, c)
                 PROVE  FALSE
    OBVIOUS
  <2>3. Settled(s, c, r) /\ KeepsCurrent(s, c, r) /\ \A u \in Above(r) : ~Settled(s, c, u)
    BY <2>2 DEF Kept
  <2>4. r = q \/ r \in Above(q) \/ q \in Above(r)
    BY PrefixFacts
  <2> QED
    BY <1>2, <2>3, <2>4
<1> QED
  BY <1>1, <1>2

\* What is displayed has the same paths, and containers are shown as they are.
LEMMA DisplayFacts ==
    ASSUME NEW data, NEW R, R = RedactConfigForDisplay(data)
    PROVE  /\ DOMAIN R = DOMAIN data
           /\ \A p \in DOMAIN data :
                  /\ data[p].t # "str" => R[p] = data[p]
                  /\ data[p].t = "str" => R[p] = RedactString(data[p], p)
BY DEF RedactConfigForDisplay

\* What is displayed of a string is a string (_redact_inline, _walk_redact).
LEMMA RedactedIsString ==
    ASSUME NEW x, NEW p, x = Str(x.text, x.secret)
    PROVE  /\ x.t = "str"
           /\ RedactString(x, p) = Str(RedactString(x, p).text, RedactString(x, p).secret)
           /\ RedactString(x, p).t = "str"
<1>1. \A a, b : Str(a, b).t = "str" /\ Str(a, b).text = a /\ Str(a, b).secret = b
  BY DEF Str
<1>2. \A a, b : Str(a, b) = Str(Str(a, b).text, Str(a, b).secret)
  BY <1>1
<1>3. RedactString(x, p) \in {x, Plain(REDACTED_PLACEHOLDER), Str(x.text, Stars)}
  BY DEF RedactString, Redacted, RedactInline
<1>4. \E a, b : RedactString(x, p) = Str(a, b)
  BY <1>3 DEF Plain
<1> QED
  BY <1>1, <1>2, <1>4

\* Redaction and merge are inverse, for every configuration: what is shown of
\* it, saved unedited, gives the same paths with the same nodes, secrets
\* included, but for what is below a key with a secret name of its own
\* (redact_config_for_display, merge_config_on_save).
THEOREM RoundTrip ==
    ASSUME NEW T, IsTree(T)
    PROVE  LET again == MergeConfigOnSave(RedactConfigForDisplay(T), T) IN
           /\ DOMAIN again = DOMAIN T
           /\ \A p \in DOMAIN T : BelowSecret(p) \/ again[p] = T[p]
<1> DEFINE R == RedactConfigForDisplay(T)
           M == MergeConfigOnSave(R, T)
<1>1. /\ DOMAIN R = DOMAIN T
      /\ \A p \in DOMAIN T :
             /\ T[p].t # "str" => R[p] = T[p]
             /\ T[p].t = "str" => R[p] = RedactString(T[p], p)
  BY DisplayFacts
<1>2. DOMAIN M = DOMAIN T /\ \A p \in DOMAIN T : M[p] \in {R[p], T[p]}
  <2>1. DOMAIN R = DOMAIN T
    BY <1>1
  <2>2. \A r : DOMAIN r = DOMAIN T =>
            LET m == MergeConfigOnSave(r, T) IN
            DOMAIN m = DOMAIN T /\ \A p \in DOMAIN T : m[p] \in {r[p], T[p]}
    BY DEF MergeConfigOnSave
  <2> HIDE DEF R
  <2> QED
    BY <2>1, <2>2
<1>3. ASSUME NEW p \in DOMAIN T, ~BelowSecret(p)
      PROVE  M[p] = T[p]
  <2>1. CASE T[p].t # "str"
    BY <1>1, <1>2, <2>1
  <2>2. CASE T[p].t = "str"
    <3>1. (\E S : p \in Seq(S)) /\ T[p] = Str(T[p].text, T[p].secret)
      BY <2>2 DEF IsTree
    <3>2. p \in Prefixes(p)
      BY <3>1, PrefixFacts
    <3>3. R[p] = RedactString(T[p], p) /\ R[p].t = "str"
      BY <1>1, <2>2, <3>1, RedactedIsString
    <3>4. Settled(R, T, p)
      BY <3>3 DEF Settled
    <3>5. \A r \in Above(p) : ~Settled(R, T, r)
      <4> SUFFICES ASSUME NEW r \in Above(p) PROVE ~Settled(R, T, r)
        OBVIOUS
      <4>1. r \in DOMAIN T /\ T[r].t # "str" /\ ~SecretAt(r)
        BY <1>3 DEF IsTree, BelowSecret
      <4>2. r \in DOMAIN R /\ R[r] = T[r]
        BY <1>1, <4>1
      <4> HIDE DEF R
      <4> QED
        BY <4>1, <4>2 DEF Settled
    <3>6. CASE SecretAt(p)
      <4>1. RedactString(T[p], p) \in {Redacted(T[p]), Plain(REDACTED_PLACEHOLDER)}
        BY <1>3, <3>6 DEF RedactString
      <4>2. RedactString(T[p], p).text \in {"", REDACTED_PLACEHOLDER}
        <5>1. Plain(REDACTED_PLACEHOLDER).text = REDACTED_PLACEHOLDER
          BY DEF Plain, Str
        <5>2. Redacted(T[p]).text \in {"", REDACTED_PLACEHOLDER}
          BY <5>1 DEF Redacted
        <5> QED
          BY <4>1, <5>1, <5>2
      <4>3. KeepsCurrent(R, T, p)
        <5> HIDE DEF R
        <5> QED
          BY <3>3, <3>6, <4>2 DEF KeepsCurrent, Blank
      <4> QED
        BY <1>1, <3>1, <3>2, <3>4, <3>5, <4>3, EndedAt
    <3>7. CASE ~SecretAt(p) /\ InDict(p)
      <4>1. R[p] = RedactInline(T[p])
        BY <1>3, <3>3, <3>7 DEF RedactString
      <4>2. KeepsCurrent(R, T, p)
        <5> HIDE DEF R
        <5> QED
          BY <2>2, <3>3, <3>7, <4>1 DEF KeepsCurrent, Unchanged
      <4> QED
        BY <1>1, <3>1, <3>2, <3>4, <3>5, <4>2, EndedAt
    <3>8. CASE ~SecretAt(p) /\ ~InDict(p)
      <4>1. R[p] = T[p]
        BY <1>3, <3>3, <3>8 DEF RedactString
      <4> QED
        BY <1>2, <4>1
    <3> QED
      BY <3>6, <3>7, <3>8
  <2> QED
    BY <2>1, <2>2
<1> QED
  BY <1>2, <1>3

\* The merge of two configurations is one: no path without the containers on its
\* way, however the form and the file differ (_walk_merge).
THEOREM MergeIsTree ==
    ASSUME NEW s, IsTree(s), NEW c, IsTree(c)
    PROVE  IsTree(MergeConfigOnSave(s, c))
<1> DEFINE M == MergeConfigOnSave(s, c)
           From(p) == IF Prefixes(p) \cap Kept(s, c) = {} THEN s ELSE c
<1>1. /\ DOMAIN M = {p \in DOMAIN s \cup DOMAIN c : p \in DOMAIN From(p)}
      /\ \A p \in DOMAIN M : M[p] = From(p)[p]
  BY DEF MergeConfigOnSave
<1>2. /\ \A p \in DOMAIN M : \E S : p \in Seq(S)
      /\ <<>> \in DOMAIN M
  BY <1>1 DEF IsTree
<1>3. ASSUME NEW p \in DOMAIN M, M[p].t = "str"
      PROVE  M[p] = Str(M[p].text, M[p].secret)
  BY <1>1, <1>3 DEF IsTree
<1>4. ASSUME NEW p \in DOMAIN M, NEW r \in Above(p)
      PROVE  r \in DOMAIN M /\ M[r].t # "str"
  <2>1. (\E S : p \in Seq(S)) /\ r \in Prefixes(p) /\ Prefixes(r) \subseteq Prefixes(p)
    BY <1>2, PrefixFacts DEF Above
  <2>2. CASE Prefixes(p) \cap Kept(s, c) = {}
    <3>1. p \in DOMAIN s /\ From(r) = s
      BY <1>1, <2>1, <2>2
    <3>2. r \in DOMAIN s /\ s[r].t # "str"
      BY <3>1 DEF IsTree
    <3> QED
      BY <1>1, <3>1, <3>2
  <2>3. CASE Prefixes(p) \cap Kept(s, c) # {}
    <3>1. PICK q \in Prefixes(p) : q \in Kept(s, c)
      BY <2>3
    <3>2. p \in DOMAIN c
      BY <1>1, <2>3
    <3>3. r \in DOMAIN c /\ c[r].t # "str"
      BY <3>2 DEF IsTree
    <3>4. CASE q \in Prefixes(r)
      <4>1. From(r) = c
        BY <3>1, <3>4
      <4> QED
        BY <1>1, <3>3, <4>1
    <3>5. CASE r \in Above(q)
      <4>1. ~Settled(s, c, r)
        BY <3>1, <3>5 DEF Kept
      <4>2. r \in DOMAIN s /\ s[r].t # "str"
        BY <4>1 DEF Settled
      <4> QED
        BY <1>1, <3>3, <4>2
    <3>6. r \in Prefixes(r)
      BY <2>1, PrefixFacts
    <3>7. q = r \/ q \in Above(r) \/ r \in Above(q)
      BY <2>1, PrefixFacts
    <3> QED
      BY <3>4, <3>5, <3>6, <3>7 DEF Above
  <2> QED
    BY <2>2, <2>3
<1> HIDE DEF M
<1> QED
  BY <1>2, <1>3, <1>4 DEF IsTree, M

\* Two configurations that differ in their secrets only: in strings below secret
\* keys and under api_key, where it still shows whether there is one, in
\* strings under other secret keys, and in the passwords within the strings of
\* dicts.  (Those within strings of lists are shown.)
DifferInSecrets(S, T) ==
    /\ DOMAIN S = DOMAIN T
    /\ \A p \in DOMAIN S :
        \/ S[p] = T[p]
        \/ /\ S[p].t = "str" /\ T[p].t = "str"
           /\ IF BelowSecret(p) \/ (SecretAt(p) /\ InApi(p)) THEN S[p].text # "" /\ T[p].text # ""
              ELSE IF SecretAt(p) THEN TRUE
              ELSE InDict(p) /\ S[p].text = T[p].text /\ S[p].secret # "" /\ T[p].secret # ""

\* The page shows them alike: what it sends to a browser depends on no secret
\* string, but on whether there is one (redact_config_for_display).
THEOREM ShowsNoSecrets ==
    ASSUME NEW S, NEW T, DifferInSecrets(S, T)
    PROVE  RedactConfigForDisplay(S) = RedactConfigForDisplay(T)
<1>1. ASSUME NEW p \in DOMAIN S, S[p] # T[p]
      PROVE  /\ S[p].t = "str" /\ T[p].t = "str"
             /\ RedactString(S[p], p) = RedactString(T[p], p)
  BY <1>1 DEF DifferInSecrets, RedactString, Redacted, RedactInline
<1>2. DOMAIN S = DOMAIN T
  BY DEF DifferInSecrets
<1> QED
  BY <1>1, <1>2 DEF RedactConfigForDisplay

-----------------------------------------------------------------------------
(* The configuration page: the paths of a configuration with n targets.    *)

\* The path of a target and of its fields tells which target and field it is.
LEMMA PathFacts ==
    /\ \A p \in FixedPaths : Len(p) = 2 => p[1] # Key("targets")
    /\ \A i : TargetPath(i) \notin FixedPaths /\ Len(TargetPath(i)) = 2
              /\ TargetPath(i)[1] = Key("targets") /\ TargetPath(i)[2].item = i
    /\ \A i, k : FieldPath(i, k) \notin FixedPaths /\ Len(FieldPath(i, k)) = 3
                 /\ FieldPath(i, k)[2].item = i /\ FieldPath(i, k)[3].key = k
<1>1. Key("targets") # Key("api") /\ Key("targets") # Key("file_scan")
  BY StepFacts
<1>3. \A p \in FixedPaths : (Len(p) = 2 \/ Len(p) = 3) => p[1] # Key("targets")
  BY <1>1 DEF FixedPaths, TargetsPath, ApiPath, ApiKeyPath, FileScanPath, FilePasswordsPath, ZipPath
<1>4. \A i : Len(TargetPath(i)) = 2 /\ TargetPath(i)[1] = Key("targets") /\ TargetPath(i)[2].item = i
  BY StepFacts DEF TargetPath
<1>5. \A i, k : /\ Len(FieldPath(i, k)) = 3 /\ FieldPath(i, k)[1] = Key("targets")
                /\ FieldPath(i, k)[2].item = i /\ FieldPath(i, k)[3].key = k
  BY StepFacts DEF FieldPath
<1> QED
  BY <1>3, <1>4, <1>5

\* The paths of the configuration are told apart.
LEMMA DistinctPaths ==
    /\ <<>> \notin {TargetsPath, ApiPath, ApiKeyPath, FileScanPath, FilePasswordsPath, ZipPath}
    /\ TargetsPath \notin {ApiPath, ApiKeyPath, FileScanPath, FilePasswordsPath, ZipPath}
    /\ ApiPath \notin {ApiKeyPath, FileScanPath, FilePasswordsPath, ZipPath}
    /\ ApiKeyPath \notin {FileScanPath, FilePasswordsPath, ZipPath}
    /\ FileScanPath \notin {FilePasswordsPath, ZipPath}
    /\ FilePasswordsPath # ZipPath
<1>1. /\ Key("targets") # Key("api") /\ Key("targets") # Key("file_scan")
      /\ Key("api") # Key("file_scan")
  BY StepFacts
<1> QED
  BY <1>1 DEF TargetsPath, ApiPath, ApiKeyPath, FileScanPath, FilePasswordsPath, ZipPath

\* What is above each of them.
LEMMA AbovePaths ==
    /\ Above(<<>>) = {}
    /\ Above(TargetsPath) = {<<>>} /\ Above(ApiPath) = {<<>>} /\ Above(FileScanPath) = {<<>>}
    /\ Above(ApiKeyPath) = {<<>>, ApiPath}
    /\ Above(FilePasswordsPath) = {<<>>, FileScanPath}
    /\ Above(ZipPath) = {<<>>, FileScanPath, FilePasswordsPath}
    /\ \A i : Above(TargetPath(i)) = {<<>>, TargetsPath}
    /\ \A i, k : Above(FieldPath(i, k)) = {<<>>, TargetsPath, TargetPath(i)}
<1>1. \A a : Above(<<a>>) = {<<>>}
  BY ShortPaths DEF Above
<1>2. \A a, b : Above(<<a, b>>) = {<<>>, <<a>>}
  BY ShortPaths DEF Above
<1>3. \A a, b, c : Above(<<a, b, c>>) = {<<>>, <<a>>, <<a, b>>}
  <2> SUFFICES ASSUME NEW a, NEW b, NEW c
               PROVE  {<<>>, <<a>>, <<a, b>>, <<a, b, c>>} \ {<<a, b, c>>} = {<<>>, <<a>>, <<a, b>>}
    BY ShortPaths DEF Above
  <2>1. <<a, b, c>> \notin {<<>>, <<a>>, <<a, b>>}
    OBVIOUS
  <2> QED
    BY <2>1
<1>4. Above(<<>>) = {}
  BY ShortPaths DEF Above
<1> QED
  BY <1>1, <1>2, <1>3, <1>4
  DEF TargetsPath, ApiPath, ApiKeyPath, FileScanPath, FilePasswordsPath, ZipPath, TargetPath, FieldPath

\* Which of them are secrets.
LEMMA SecretPaths ==
    /\ ~SecretAt(<<>>) /\ ~SecretAt(TargetsPath) /\ ~SecretAt(ApiPath) /\ ~SecretAt(FileScanPath)
    /\ SecretAt(ApiKeyPath) /\ SecretAt(FilePasswordsPath)
    /\ \A i : ~SecretAt(TargetPath(i))
    /\ \A i : SecretAt(FieldPath(i, "pass")) /\ ~SecretAt(FieldPath(i, "name")) /\ ~SecretAt(FieldPath(i, "url"))
<1>1. \A a : Last(<<a>>) = a /\ <<a>> # <<>>
  BY DEF Last
<1>2. \A a, b : Last(<<a, b>>) = b /\ <<a, b>> # <<>>
  BY DEF Last
<1>3. \A a, b, c : Last(<<a, b, c>>) = c /\ <<a, b, c>> # <<>>
  BY DEF Last
<1>4. \A k : (\E l \in SecretKeys : Key(k) = Key(l)) <=> k \in SecretKeys
  BY StepFacts
<1>5. \A i : ~\E l \in SecretKeys : Item(i) = Key(l)
  BY StepFacts
<1>6. /\ "targets" \notin SecretKeys /\ "api" \notin SecretKeys /\ "file_scan" \notin SecretKeys
      /\ "name" \notin SecretKeys /\ "url" \notin SecretKeys
      /\ "pass" \in SecretKeys /\ "api_key" \in SecretKeys /\ "file_passwords" \in SecretKeys
  BY DEF SecretKeys
<1>7. ~SecretAt(<<>>)
  BY DEF SecretAt
<1>8. \A k : SecretAt(<<Key(k)>>) <=> k \in SecretKeys
  BY <1>1, <1>4 DEF SecretAt
<1>9. \A a, k : SecretAt(<<a, Key(k)>>) <=> k \in SecretKeys
  BY <1>2, <1>4 DEF SecretAt
<1>10. \A a, i : ~SecretAt(<<a, Item(i)>>)
  BY <1>2, <1>5 DEF SecretAt
<1>11. \A a, b, k : SecretAt(<<a, b, Key(k)>>) <=> k \in SecretKeys
  BY <1>3, <1>4 DEF SecretAt
<1> QED
  BY <1>6, <1>7, <1>8, <1>9, <1>10, <1>11
  DEF TargetsPath, ApiPath, ApiKeyPath, FileScanPath, FilePasswordsPath, TargetPath, FieldPath

-----------------------------------------------------------------------------
(* The configuration page: what a configuration with n targets holds.      *)

\* Everything a string may hold, here and after redaction.
Texts == Names \cup Hosts \cup Passwords \cup {"", "key", "zip", REDACTED_PLACEHOLDER}
Passes == {"", "inline", Stars}
Strings == {Str(a, b) : a \in Texts, b \in Passes}
TargetRows == [Fields -> Strings]

Dicts(n)   == {<<>>, ApiPath, FileScanPath, FilePasswordsPath} \cup {TargetPath(i) : i \in 1..n}
Leaves(n)  == {ApiKeyPath, ZipPath} \cup {FieldPath(i, k) : i \in 1..n, k \in Fields}
ConfigPaths(n) == FixedPaths \cup RowPaths(n)

\* A configuration with n targets, and nothing else in it.
Shaped(T, n) ==
    /\ T = [p \in ConfigPaths(n) |-> T[p]]
    /\ T[TargetsPath] = ListNode
    /\ \A p \in Dicts(n) : T[p] = DictNode
    /\ \A p \in Leaves(n) : T[p] \in Strings

\* What strings are made of, and what tells them from containers.
LEMMA StringFacts ==
    /\ \A x \in Strings : /\ x.t = "str" /\ x.text \in Texts /\ x.secret \in Passes
                           /\ x = Str(x.text, x.secret)
    /\ \A a \in Texts, b \in Passes : Str(a, b) \in Strings
    /\ \A a \in Texts : Plain(a) \in Strings
    /\ \A a, b : Str(a, b).t = "str" /\ Str(a, b).text = a /\ Str(a, b).secret = b
    /\ DictNode.t = "dict" /\ ListNode.t = "list"
    /\ DictNode \notin Strings /\ ListNode \notin Strings
    /\ \A a, b : Str(a, b) # DictNode /\ Str(a, b) # ListNode
<1>1. \A a, b : Str(a, b).t = "str" /\ Str(a, b).text = a /\ Str(a, b).secret = b
  BY DEF Str
<1>2. DictNode.t = "dict" /\ ListNode.t = "list"
  BY DEF DictNode, ListNode
<1>3. \A x \in Strings : /\ x.t = "str" /\ x.text \in Texts /\ x.secret \in Passes
                         /\ x = Str(x.text, x.secret)
  BY <1>1 DEF Strings
<1>4. \A a \in Texts, b \in Passes : Str(a, b) \in Strings
  BY DEF Strings
<1>5. \A a \in Texts : Plain(a) \in Strings
  BY <1>4, "" \in Passes DEF Plain, Passes
<1> QED
  BY <1>1, <1>2, <1>3, <1>4, <1>5

\* A path of a configuration leads to a dict, to a string or to the list of
\* targets; the targets have the numbers up to n.
LEMMA ConfigPathKinds ==
    ASSUME NEW n \in Nat
    PROVE  /\ ConfigPaths(n) = Dicts(n) \cup Leaves(n) \cup {TargetsPath}
           /\ TargetsPath \notin Dicts(n) \cup Leaves(n)
           /\ Dicts(n) \cap Leaves(n) = {}
           /\ \A i, k : (FieldPath(i, k) \in ConfigPaths(n)) => i \in 1..n
           /\ \A i : (TargetPath(i) \in ConfigPaths(n)) <=> i \in 1..n
           /\ \A i \in 1..n, k \in Fields : FieldPath(i, k) \in ConfigPaths(n)
<1>1. ConfigPaths(n) = Dicts(n) \cup Leaves(n) \cup {TargetsPath}
  BY DEF ConfigPaths, Dicts, Leaves, RowPaths, FixedPaths
<1>2. \A i, j, k : TargetPath(i) # FieldPath(j, k)
  <2>1. \A i, j, k : Len(TargetPath(i)) # Len(FieldPath(j, k))
    BY PathFacts
  <2> QED
    BY <2>1
<1>3. \A i : TargetPath(i) \in ConfigPaths(n) <=> i \in 1..n
  BY <1>2, PathFacts DEF ConfigPaths, RowPaths
<1>4. \A i, k : FieldPath(i, k) \in ConfigPaths(n) => i \in 1..n
  BY <1>2, PathFacts DEF ConfigPaths, RowPaths
<1>5. \A i \in 1..n, k \in Fields : FieldPath(i, k) \in ConfigPaths(n)
  BY DEF ConfigPaths, RowPaths
<1>6. /\ TargetsPath \notin Dicts(n) \cup Leaves(n)
      /\ Dicts(n) \cap Leaves(n) = {}
  BY <1>2, PathFacts, DistinctPaths DEF Dicts, Leaves, FixedPaths
<1> QED
  BY <1>1, <1>3, <1>4, <1>5, <1>6

\* The path is its own prefix, the others are above it.
LEMMA ConfigPrefixes ==
    ASSUME NEW n, NEW p \in ConfigPaths(n)
    PROVE  (\E S : p \in Seq(S)) /\ Prefixes(p) = Above(p) \cup {p}
<1> DEFINE IsPath(q) == \E S : q \in Seq(S)
<1>1. \A a, b, c : IsPath(<<>>) /\ IsPath(<<a>>) /\ IsPath(<<a, b>>) /\ IsPath(<<a, b, c>>)
  <2> TAKE a, b, c
  <2>1. <<>> \in Seq({a, b, c}) /\ <<a>> \in Seq({a, b, c}) /\ <<a, b>> \in Seq({a, b, c})
        /\ <<a, b, c>> \in Seq({a, b, c})
    OBVIOUS
  <2> QED
    BY <2>1
<1>2. \A q \in ConfigPaths(n) : IsPath(q)
  <2> HIDE DEF IsPath
  <2>1. /\ IsPath(TargetsPath) /\ IsPath(ApiPath) /\ IsPath(ApiKeyPath) /\ IsPath(FileScanPath)
        /\ IsPath(FilePasswordsPath) /\ IsPath(ZipPath)
    BY <1>1 DEF TargetsPath, ApiPath, ApiKeyPath, FileScanPath, FilePasswordsPath, ZipPath
  <2>2. \A i, k : IsPath(TargetPath(i)) /\ IsPath(FieldPath(i, k))
    BY <1>1 DEF TargetPath, FieldPath
  <2>3. IsPath(<<>>)
    BY <1>1
  <2> QED
    BY <2>1, <2>2, <2>3 DEF ConfigPaths, FixedPaths, RowPaths
<1>3. \E S : p \in Seq(S)
  BY <1>2
<1>4. p \in Prefixes(p)
  BY <1>3, PrefixFacts
<1> QED
  BY <1>3, <1>4 DEF Above

\* A configuration is an object; it is a tree.
LEMMA ShapedIsTree ==
    ASSUME NEW n \in Nat, NEW T, Shaped(T, n)
    PROVE  IsTree(T) /\ DOMAIN T = ConfigPaths(n) /\ Parses(T)
<1>1. DOMAIN T = ConfigPaths(n)
  BY DEF Shaped
<1>5. <<>> \in ConfigPaths(n)
  BY DEF ConfigPaths, FixedPaths
<1>6. \A p \in ConfigPaths(n) : T[p].t = "str" => T[p] = Str(T[p].text, T[p].secret)
  <2>1. \A p \in Dicts(n) \cup {TargetsPath} : T[p].t # "str"
    BY StringFacts DEF Shaped
  <2>2. \A p \in Leaves(n) : T[p] = Str(T[p].text, T[p].secret)
    BY StringFacts DEF Shaped
  <2> QED
    BY <2>1, <2>2, ConfigPathKinds
<1>7. \A p \in ConfigPaths(n) : \A q \in Above(p) : q \in Dicts(n) \cup {TargetsPath}
  BY AbovePaths DEF ConfigPaths, FixedPaths, RowPaths, Dicts
<1>8. \A q \in Dicts(n) \cup {TargetsPath} : q \in ConfigPaths(n) /\ T[q].t # "str"
  BY ConfigPathKinds, StringFacts DEF Shaped
<1>9. Parses(T)
  BY <1>1, <1>5 DEF Parses, NoTree, Shaped, Dicts
<1> QED
  BY <1>1, <1>5, <1>6, <1>7, <1>8, <1>9, ConfigPrefixes DEF IsTree

\* A part of it that is there whatever the targets.
FixedShaped(T) ==
    /\ T[TargetsPath] = ListNode
    /\ \A p \in {<<>>, ApiPath, FileScanPath, FilePasswordsPath} : T[p] = DictNode
    /\ T[ApiKeyPath] \in Strings /\ T[ZipPath] \in Strings

\* The part that does not depend on the targets.
LEMMA ShapedFixed ==
    ASSUME NEW T, NEW n, Shaped(T, n)
    PROVE  FixedShaped(T)
BY DEF Shaped, FixedShaped, Dicts, Leaves

\* With n targets below it, that part is a configuration.
LEMMA MakesShape ==
    ASSUME NEW n, NEW T, T = [p \in ConfigPaths(n) |-> T[p]], FixedShaped(T),
           \A i \in 1..n : T[TargetPath(i)] = DictNode /\ \A k \in Fields : T[FieldPath(i, k)] \in Strings
    PROVE  Shaped(T, n)
BY DEF Shaped, FixedShaped, Dicts, Leaves

\* The targets of a configuration, by their paths.
LEMMA ShapedTargets ==
    ASSUME NEW n \in Nat, NEW T, Shaped(T, n)
    PROVE  /\ \A i : TargetPath(i) \in DOMAIN T <=> i \in 1..n
           /\ \A i \in 1..n : T[TargetPath(i)] = DictNode
           /\ \A i \in 1..n, k \in Fields : /\ FieldPath(i, k) \in DOMAIN T
                                           /\ T[FieldPath(i, k)] \in Strings /\ T[FieldPath(i, k)].t = "str"
<1>1. DOMAIN T = ConfigPaths(n)
  BY DEF Shaped
<1>2. \A i \in 1..n : T[TargetPath(i)] = DictNode
  BY DEF Shaped, Dicts
<1>3. \A i \in 1..n, k \in Fields : T[FieldPath(i, k)] \in Strings
  BY DEF Shaped, Leaves
<1>4. \A i \in 1..n, k \in Fields : T[FieldPath(i, k)].t = "str"
  BY <1>3, StringFacts
<1> QED
  BY <1>1, <1>2, <1>3, <1>4, ConfigPathKinds

\* The rows of a configuration with n targets.
LEMMA RowsOfShaped ==
    ASSUME NEW n \in Nat, NEW T, Shaped(T, n)
    PROVE  /\ Rows(T) \in Seq(TargetRows) /\ Len(Rows(T)) = n /\ DOMAIN Rows(T) = 1..n
           /\ \A i \in 1..n, k \in Fields : Rows(T)[i][k] = T[FieldPath(i, k)] /\ T[FieldPath(i, k)] \in Strings
<1> DEFINE targets == {p \in DOMAIN T : Len(p) = 2 /\ p[1] = Key("targets")}
<1>1. DOMAIN T = ConfigPaths(n)
  BY DEF Shaped
<1>2. targets = {TargetPath(i) : i \in 1..n}
  BY <1>1, PathFacts DEF ConfigPaths, RowPaths
<1>3. {p[2].item : p \in targets} = 1..n
  <2> HIDE DEF targets
  <2>1. \A i : TargetPath(i)[2].item = i
    BY PathFacts
  <2>2. \A i \in 1..n : TargetPath(i) \in targets
    BY <1>2
  <2>3. \A p \in targets : p[2].item \in 1..n
    BY <1>2, <2>1
  <2>4. \A i \in 1..n : \E p \in targets : p[2].item = i
    BY <2>1, <2>2
  <2> QED
    BY <2>3, <2>4
<1>4. Rows(T) = [i \in 1..n |-> [k \in Fields |-> T[FieldPath(i, k)]]]
  BY <1>3 DEF Rows
<1>5. \A i \in 1..n, k \in Fields : T[FieldPath(i, k)] \in Strings
  BY DEF Shaped, Leaves
<1>6. Rows(T) \in [1..n -> TargetRows]
  BY <1>4, <1>5 DEF TargetRows
<1> QED
  BY <1>4, <1>5, <1>6

\* Other rows make another configuration.
LEMMA WithRowsShaped ==
    ASSUME NEW T, FixedShaped(T), NEW list \in Seq(TargetRows)
    PROVE  Shaped(WithRows(T, list), Len(list))
<1> DEFINE n == Len(list)
           W == WithRows(T, list)
<1>1. n \in Nat /\ \A i \in 1..n, k \in Fields : list[i][k] \in Strings
  BY DEF TargetRows
<1>2. W = [p \in ConfigPaths(n) |-> W[p]]
  BY DEF WithRows, ConfigPaths
<1>3. \A p \in FixedPaths : W[p] = T[p]
  BY DEF WithRows
<1>4. \A i \in 1..n : W[TargetPath(i)] = DictNode
  BY PathFacts DEF WithRows, RowPaths
<1>5. \A i \in 1..n, k \in Fields : W[FieldPath(i, k)] = list[i][k]
  BY PathFacts DEF WithRows, RowPaths
<1> HIDE DEF W, n
<1> QED
  <2>1. FixedShaped(W)
    BY <1>3 DEF FixedShaped, FixedPaths
  <2>2. \A i \in 1..n : W[TargetPath(i)] = DictNode /\ \A k \in Fields : W[FieldPath(i, k)] \in Strings
    BY <1>1, <1>4, <1>5
  <2>3. Shaped(W, n)
    BY <1>2, <2>1, <2>2, MakesShape
  <2> QED
    BY <2>3 DEF W, n

\* A target that is typed is a row of strings.
LEMMA TargetRow ==
    ASSUME NEW a \in Texts, NEW p \in Texts, NEW h \in Texts, NEW s \in Passes
    PROVE  /\ Target(a, p, h, s) \in TargetRows
           /\ Target(a, p, h, s)["name"] = Plain(a)
<1>1. Plain(a) \in Strings /\ Plain(p) \in Strings /\ Str(h, s) \in Strings
  BY StringFacts
<1> QED
  BY <1>1 DEF Target, TargetRows, Fields

\* A configuration written by hand.
LEMMA ConfigShaped ==
    ASSUME NEW list \in Seq(TargetRows), NEW key \in Texts, NEW zip \in Texts
    PROVE  Shaped(Config(list, key, zip), Len(list))
<1> DEFINE F == [p \in FixedPaths |->
                    CASE p = TargetsPath -> ListNode
                      [] p = ApiKeyPath -> Plain(key)
                      [] p = ZipPath -> Plain(zip)
                      [] OTHER -> DictNode]
<1>1. /\ F[TargetsPath] = ListNode /\ F[ApiKeyPath] = Plain(key) /\ F[ZipPath] = Plain(zip)
      /\ \A p \in {<<>>, ApiPath, FileScanPath, FilePasswordsPath} : F[p] = DictNode
  BY DistinctPaths DEF FixedPaths
<1> HIDE DEF F
<1>2. FixedShaped(F)
  BY <1>1, StringFacts DEF FixedShaped
<1> QED
  BY <1>2, WithRowsShaped DEF Config, F

\* A string is replaced.
LEMMA FieldEdited ==
    ASSUME NEW n \in Nat, NEW T, Shaped(T, n), NEW i \in 1..n, NEW k \in Fields, NEW x \in Strings
    PROVE  Shaped([T EXCEPT ![FieldPath(i, k)] = x], n)
<1> DEFINE E == [T EXCEPT ![FieldPath(i, k)] = x]
<1>1. FieldPath(i, k) \in Leaves(n)
  BY DEF Leaves
<1>2. DOMAIN T = ConfigPaths(n) /\ Leaves(n) \subseteq ConfigPaths(n)
  BY ConfigPathKinds DEF Shaped
<1>3. \A p \in ConfigPaths(n) : E[p] = IF p = FieldPath(i, k) THEN x ELSE T[p]
  BY <1>2
<1>4. E = [p \in ConfigPaths(n) |-> E[p]]
  BY <1>2
<1> HIDE DEF E
<1> QED
  BY <1>1, <1>2, <1>3, <1>4, ConfigPathKinds DEF Shaped, E

\* No other texts and secrets come from redaction than the placeholders.
LEMMA RedactedString ==
    ASSUME NEW x \in Strings, NEW p
    PROVE  RedactString(x, p) \in Strings
<1>1. REDACTED_PLACEHOLDER \in Texts /\ Stars \in Passes
  BY DEF Texts, Passes
<1>2. Plain(REDACTED_PLACEHOLDER) \in Strings /\ Str(x.text, Stars) \in Strings
  BY <1>1, StringFacts
<1> QED
  BY <1>2 DEF RedactString, Redacted, RedactInline

\* What is displayed of a configuration is one with as many targets.
LEMMA DisplayShaped ==
    ASSUME NEW n \in Nat, NEW T, Shaped(T, n)
    PROVE  Shaped(RedactConfigForDisplay(T), n)
<1> DEFINE R == RedactConfigForDisplay(T)
<1>1. R = [p \in ConfigPaths(n) |-> R[p]]
  BY DEF Shaped, RedactConfigForDisplay
<1>2. DOMAIN T = ConfigPaths(n)
  BY DEF Shaped
<1>3. \A p \in Dicts(n) \cup {TargetsPath} : R[p] = T[p]
  <2>1. \A p \in Dicts(n) \cup {TargetsPath} : p \in DOMAIN T /\ T[p].t # "str"
    BY <1>2, ConfigPathKinds, StringFacts DEF Shaped
  <2> QED
    BY <2>1, DisplayFacts
<1>4. \A p \in Leaves(n) : R[p] \in Strings
  <2>1. \A p \in Leaves(n) : p \in DOMAIN T /\ T[p].t = "str" /\ T[p] \in Strings
    BY <1>2, ConfigPathKinds, StringFacts DEF Shaped
  <2>2. \A p \in Leaves(n) : R[p] = RedactString(T[p], p)
    BY <2>1, DisplayFacts
  <2> HIDE DEF R
  <2> QED
    BY <2>1, <2>2, RedactedString
<1> HIDE DEF R
<1> QED
  BY <1>1, <1>3, <1>4 DEF Shaped, R

-----------------------------------------------------------------------------
(* The configuration page: the merge of a form with m targets and a file   *)
(* with n.                                                                 *)

\* The walk ends at no container that both have.
LEMMA SharedContainers ==
    ASSUME NEW m \in Nat, NEW n \in Nat, NEW s, NEW c, Shaped(s, m), Shaped(c, n)
    PROVE  /\ \A p \in {<<>>, TargetsPath, ApiPath, FileScanPath} : ~Settled(s, c, p)
           /\ \A i \in (1..m) \cap (1..n) : ~Settled(s, c, TargetPath(i))
<1>1. DOMAIN s = ConfigPaths(m) /\ DOMAIN c = ConfigPaths(n)
  BY DEF Shaped
<1>2. \A p \in Dicts(m) \cap Dicts(n) : s[p] = DictNode /\ c[p] = DictNode
  BY DEF Shaped
<1>3. s[TargetsPath] = ListNode /\ c[TargetsPath] = ListNode
  BY DEF Shaped
<1>4. \A p \in (Dicts(m) \cap Dicts(n)) \cup {TargetsPath} :
          p \in DOMAIN s /\ p \in DOMAIN c /\ s[p].t = c[p].t /\ s[p].t # "str"
  BY <1>1, <1>2, <1>3, ConfigPathKinds, StringFacts
<1>5. /\ <<>> \in Dicts(m) \cap Dicts(n) /\ ApiPath \in Dicts(m) \cap Dicts(n)
      /\ FileScanPath \in Dicts(m) \cap Dicts(n)
      /\ \A i \in (1..m) \cap (1..n) : TargetPath(i) \in Dicts(m) \cap Dicts(n)
  BY DEF Dicts
<1> QED
  BY <1>4, <1>5, SecretPaths DEF Settled

\* Nothing is merged into a configuration that neither tree has.
LEMMA MergeDomain ==
    ASSUME NEW s, NEW c
    PROVE  LET M == MergeConfigOnSave(s, c) IN
           M = [p \in DOMAIN M |-> M[p]] /\ DOMAIN M \subseteq DOMAIN s \cup DOMAIN c
BY DEF MergeConfigOnSave

\* What a field of a target is after the merge.
MergedField(s, c, m, n, i, k) ==
    LET p == FieldPath(i, k) IN
    IF i > n THEN s[p] ELSE IF i > m THEN c[p]
    ELSE IF k = "pass" THEN (IF Blank(s[p]) THEN c[p] ELSE s[p])
    ELSE IF Unchanged(s[p], c[p]) THEN c[p] ELSE s[p]

\* What a save makes of a configuration with m targets over one with n has the
\* targets of both, each field decided by itself (_walk_merge).
LEMMA MergedShape ==
    ASSUME NEW m \in Nat, NEW n \in Nat, NEW s, NEW c, Shaped(s, m), Shaped(c, n)
    PROVE  LET M == MergeConfigOnSave(s, c)
               u == IF m < n THEN n ELSE m IN
           /\ Shaped(M, u)
           /\ \A i \in 1..u, k \in Fields : M[FieldPath(i, k)] = MergedField(s, c, m, n, i, k)
<1> DEFINE M == MergeConfigOnSave(s, c)
           u == IF m < n THEN n ELSE m
<1>1. DOMAIN s = ConfigPaths(m) /\ DOMAIN c = ConfigPaths(n)
  BY DEF Shaped
<1>2. /\ M = [p \in DOMAIN M |-> M[p]] /\ DOMAIN M \subseteq DOMAIN s \cup DOMAIN c
      /\ DOMAIN s \cup DOMAIN c = ConfigPaths(u)
  <2>1. 1..u = (1..m) \cup (1..n)
    OBVIOUS
  <2>2. RowPaths(u) = RowPaths(m) \cup RowPaths(n)
    BY <2>1 DEF RowPaths
  <2> HIDE DEF u, M
  <2>3. M = [p \in DOMAIN M |-> M[p]] /\ DOMAIN M \subseteq DOMAIN s \cup DOMAIN c
    BY MergeDomain DEF M
  <2> QED
    BY <1>1, <2>2, <2>3 DEF ConfigPaths
<1>3. /\ \A p \in {<<>>, TargetsPath, ApiPath, FileScanPath} : ~Settled(s, c, p)
      /\ \A i \in (1..m) \cap (1..n) : ~Settled(s, c, TargetPath(i))
  BY SharedContainers
<1>4. \A p \in DOMAIN s \cup DOMAIN c : (\E S : p \in Seq(S)) /\ Prefixes(p) = Above(p) \cup {p}
  BY <1>1, ConfigPrefixes
<1>5. FixedPaths \subseteq DOMAIN s /\ FixedPaths \subseteq DOMAIN c
  BY <1>1 DEF ConfigPaths
<1> HIDE DEF M, u
<1>6. ASSUME NEW p \in DOMAIN s \cup DOMAIN c, \A r \in Above(p) : ~Settled(s, c, r), ~Settled(s, c, p)
      PROVE  p \in DOMAIN M /\ M[p] = s[p]
  BY <1>4, <1>6, WalkedThrough DEF M
<1>7. ASSUME NEW p \in DOMAIN s \cup DOMAIN c,
             NEW q \in Above(p) \cup {p}, q \in DOMAIN s \cup DOMAIN c,
             Settled(s, c, q), \A r \in Above(q) : ~Settled(s, c, r)
      PROVE  LET from == IF KeepsCurrent(s, c, q) THEN c ELSE s IN
             /\ p \in DOMAIN M <=> p \in DOMAIN from
             /\ p \in DOMAIN from => M[p] = from[p]
  <2>1. PICK S : p \in Seq(S)
    BY <1>4
  <2>2. q \in Prefixes(p)
    BY <1>4
  <2> QED
    BY <1>7, <2>1, <2>2, EndedAt DEF M
<1>8. \A p \in {<<>>, TargetsPath, ApiPath, FileScanPath} : p \in DOMAIN M /\ M[p] = s[p]
  BY <1>3, <1>5, <1>6, AbovePaths DEF FixedPaths
<1>9. ApiKeyPath \in DOMAIN M /\ M[ApiKeyPath] \in {s[ApiKeyPath], c[ApiKeyPath]}
  <2>1. Settled(s, c, ApiKeyPath)
    BY SecretPaths DEF Settled
  <2> QED
    BY <1>3, <1>5, <1>7, <2>1, AbovePaths DEF FixedPaths
<1>10. /\ FilePasswordsPath \in DOMAIN M /\ M[FilePasswordsPath] = s[FilePasswordsPath]
       /\ ZipPath \in DOMAIN M /\ M[ZipPath] = s[ZipPath]
  <2>1. Settled(s, c, FilePasswordsPath)
    BY SecretPaths DEF Settled
  <2>2. s[FilePasswordsPath].t = "dict"
    BY StringFacts DEF Shaped, Dicts
  <2>3. ~KeepsCurrent(s, c, FilePasswordsPath)
    BY <1>5, <2>2, SecretPaths DEF KeepsCurrent, Blank, FixedPaths
  <2>4. /\ FilePasswordsPath \in DOMAIN s /\ ZipPath \in DOMAIN s
        /\ FilePasswordsPath \in Above(ZipPath)
        /\ \A r \in Above(FilePasswordsPath) : ~Settled(s, c, r)
    BY <1>3, <1>5, AbovePaths DEF FixedPaths
  <2> QED
    BY <1>7, <2>1, <2>3, <2>4
<1>11. ASSUME NEW i \in (1..m) \cap (1..n)
       PROVE  TargetPath(i) \in DOMAIN M /\ M[TargetPath(i)] = DictNode
  <2>1. TargetPath(i) \in DOMAIN s /\ s[TargetPath(i)] = DictNode
    BY ShapedTargets
  <2> QED
    BY <1>3, <1>6, <2>1, AbovePaths
<1>12. ASSUME NEW i \in (1..m) \cap (1..n), NEW k \in Fields
       PROVE  FieldPath(i, k) \in DOMAIN M /\ M[FieldPath(i, k)] = MergedField(s, c, m, n, i, k)
  <2> DEFINE p == FieldPath(i, k)
  <2>1. /\ p \in DOMAIN s /\ p \in DOMAIN c
        /\ s[p].t = "str" /\ c[p].t = "str"
    BY ShapedTargets
  <2>2. Settled(s, c, p) /\ \A r \in Above(p) : ~Settled(s, c, r)
    BY <1>3, <2>1, AbovePaths DEF Settled
  <2>3. p \in DOMAIN M /\ M[p] = IF KeepsCurrent(s, c, p) THEN c[p] ELSE s[p]
    BY <1>7, <2>1, <2>2
  <2>4. KeepsCurrent(s, c, p) <=> IF SecretAt(p) THEN Blank(s[p]) ELSE Unchanged(s[p], c[p])
    BY <2>1 DEF KeepsCurrent
  <2>5. SecretAt(p) <=> k = "pass"
    BY SecretPaths DEF Fields
  <2>6. ~(i > n) /\ ~(i > m)
    OBVIOUS
  <2> HIDE DEF p
  <2> QED
    BY <2>3, <2>4, <2>5, <2>6 DEF MergedField, p
<1>13. ASSUME NEW i \in 1..m, i > n
       PROVE  /\ TargetPath(i) \in DOMAIN M /\ M[TargetPath(i)] = DictNode
              /\ \A k \in Fields : FieldPath(i, k) \in DOMAIN M /\ M[FieldPath(i, k)] = s[FieldPath(i, k)]
  <2>1. TargetPath(i) \in DOMAIN s /\ TargetPath(i) \notin DOMAIN c /\ s[TargetPath(i)] = DictNode
    BY <1>13, ShapedTargets
  <2>2. Settled(s, c, TargetPath(i)) /\ ~KeepsCurrent(s, c, TargetPath(i))
    BY <2>1 DEF Settled, KeepsCurrent
  <2>3. \A r \in Above(TargetPath(i)) : ~Settled(s, c, r)
    BY <1>3, AbovePaths
  <2>4. ASSUME NEW p \in DOMAIN s, TargetPath(i) \in Above(p) \cup {p}
        PROVE  p \in DOMAIN M /\ M[p] = s[p]
    BY <1>7, <2>1, <2>2, <2>3, <2>4
  <2>5. \A k \in Fields : FieldPath(i, k) \in DOMAIN s /\ TargetPath(i) \in Above(FieldPath(i, k))
    BY AbovePaths, ShapedTargets
  <2> QED
    BY <2>1, <2>4, <2>5
<1>14. ASSUME NEW i \in 1..n, i > m
       PROVE  /\ TargetPath(i) \in DOMAIN M /\ M[TargetPath(i)] = DictNode
              /\ \A k \in Fields : FieldPath(i, k) \in DOMAIN M /\ M[FieldPath(i, k)] = c[FieldPath(i, k)]
  <2>1. TargetPath(i) \in DOMAIN c /\ TargetPath(i) \notin DOMAIN s /\ c[TargetPath(i)] = DictNode
    BY <1>14, ShapedTargets
  <2>2. Settled(s, c, TargetPath(i)) /\ KeepsCurrent(s, c, TargetPath(i))
    BY <2>1 DEF Settled, KeepsCurrent
  <2>3. \A r \in Above(TargetPath(i)) : ~Settled(s, c, r)
    BY <1>3, AbovePaths
  <2>4. ASSUME NEW p \in DOMAIN c, TargetPath(i) \in Above(p) \cup {p}
        PROVE  p \in DOMAIN M /\ M[p] = c[p]
    BY <1>7, <2>1, <2>2, <2>3, <2>4
  <2>5. \A k \in Fields : FieldPath(i, k) \in DOMAIN c /\ TargetPath(i) \in Above(FieldPath(i, k))
    BY AbovePaths, ShapedTargets
  <2> QED
    BY <2>1, <2>4, <2>5
<1>15. ASSUME NEW i \in 1..u
       PROVE  /\ TargetPath(i) \in DOMAIN M /\ M[TargetPath(i)] = DictNode
              /\ \A k \in Fields : /\ FieldPath(i, k) \in DOMAIN M
                                   /\ M[FieldPath(i, k)] = MergedField(s, c, m, n, i, k)
  <2>1. CASE i > n
    <3>1. i \in 1..m
      BY <2>1 DEF u
    <3> QED
      BY <1>13, <2>1, <3>1 DEF MergedField
  <2>2. CASE ~(i > n) /\ i > m
    <3>1. i \in 1..n
      BY <2>2 DEF u
    <3> QED
      BY <1>14, <2>2, <3>1 DEF MergedField
  <2>3. CASE ~(i > n) /\ ~(i > m)
    <3>1. i \in (1..m) \cap (1..n)
      BY <2>3 DEF u
    <3> QED
      BY <1>11, <1>12, <3>1
  <2> QED
    BY <2>1, <2>2, <2>3
<1>16. ASSUME NEW i \in 1..u, NEW k \in Fields
       PROVE  MergedField(s, c, m, n, i, k) \in Strings
  <2>1. i \in 1..m => s[FieldPath(i, k)] \in Strings
    BY ShapedTargets
  <2>2. i \in 1..n => c[FieldPath(i, k)] \in Strings
    BY ShapedTargets
  <2> QED
    BY <2>1, <2>2 DEF MergedField, u
<1>17. FixedPaths \subseteq DOMAIN M /\ FixedShaped(M)
  <2>1. FixedShaped(s) /\ FixedShaped(c)
    BY ShapedFixed
  <2> QED
    BY <1>8, <1>9, <1>10, <2>1 DEF FixedShaped, FixedPaths
<1>18. DOMAIN M = ConfigPaths(u)
  <2>1. \A p \in RowPaths(u) : p \in DOMAIN M
    BY <1>15 DEF RowPaths
  <2>2. ConfigPaths(u) \subseteq DOMAIN M
    BY <1>17, <2>1 DEF ConfigPaths
  <2> QED
    BY <1>2, <2>2
<1>19. Shaped(M, u)
  BY <1>2, <1>15, <1>16, <1>17, <1>18, MakesShape
<1> QED
  BY <1>15, <1>19 DEF M, u

\* A form that is saved over a file that is no object becomes the file.
LEMMA MergedWithNothing ==
    ASSUME NEW m \in Nat, NEW s, Shaped(s, m)
    PROVE  MergeConfigOnSave(s, Document(DictNode)) = s
<1> DEFINE c == Document(DictNode)
<1>1. DOMAIN c = {<<>>} /\ c[<<>>] = DictNode
  BY DEF Document
<1>2. <<>> \in DOMAIN s /\ s[<<>>] = DictNode /\ s = [p \in DOMAIN s |-> s[p]]
  BY DEF Shaped, Dicts, ConfigPaths, FixedPaths
<1> HIDE DEF c
<1>3. Kept(s, c) = {}
  <2> SUFFICES ASSUME NEW q \in Kept(s, c) PROVE FALSE
    OBVIOUS
  <2>1. q \in DOMAIN s \cup DOMAIN c /\ KeepsCurrent(s, c, q)
    BY DEF Kept
  <2>2. q = <<>>
    BY <1>1, <1>2, <2>1 DEF KeepsCurrent
  <2> QED
    BY <1>1, <1>2, <2>1, <2>2, SecretPaths, StringFacts DEF KeepsCurrent
<1>4. \A p : Prefixes(p) \cap Kept(s, c) = {}
  BY <1>3
<1> QED
  BY <1>1, <1>2, <1>4 DEF MergeConfigOnSave, c

-----------------------------------------------------------------------------
(* The configuration page: what the file and the forms are.                *)

IsConfig(T) == \E n \in Nat : Shaped(T, n)

\* The file is a configuration unless a kill tore it; a form is one, was loaded
\* torn, or was garbled by hand.
EditorInv ==
    /\ file = Torn \/ IsConfig(file)
    /\ form = [t \in Tabs |-> form[t]]
    /\ \A t \in Tabs : form[t] \in {NoTree, Torn, Garbage} \/ IsConfig(form[t])

\* Of the texts in the editor and the file, the configurations are the objects.
LEMMA ParsesFacts ==
    /\ ~Parses(NoTree) /\ ~Parses(Torn) /\ ~Parses(Garbage)
    /\ \A T : IsConfig(T) => Parses(T)
<1>1. \A x : Document(Plain(x))[<<>>] = Plain(x) /\ Plain(x) # DictNode
  BY StringFacts DEF Document, Plain
<1>2. ~Parses(Torn) /\ ~Parses(Garbage)
  BY <1>1 DEF Parses, Torn, Garbage
<1> QED
  BY <1>2, ShapedIsTree DEF IsConfig, Parses

\* The rows of a configuration are rows of strings.
LEMMA RowsAreRows ==
    ASSUME NEW T, IsConfig(T)
    PROVE  Rows(T) \in Seq(TargetRows) /\ FixedShaped(T)
BY RowsOfShaped, ShapedFixed DEF IsConfig

\* Other rows give a configuration.
LEMMA WithRowsIsConfig ==
    ASSUME NEW T, IsConfig(T), NEW list \in Seq(TargetRows)
    PROVE  IsConfig(WithRows(T, list))
<1>1. FixedShaped(T) /\ Len(list) \in Nat
  BY RowsAreRows
<1> QED
  BY <1>1, WithRowsShaped DEF IsConfig

\* Another string in a row gives a configuration.
LEMMA FieldEditIsConfig ==
    ASSUME NEW T, IsConfig(T), NEW i \in DOMAIN Rows(T), NEW k \in Fields, NEW x \in Strings
    PROVE  IsConfig([T EXCEPT ![FieldPath(i, k)] = x])
<1>1. PICK n \in Nat : Shaped(T, n)
  BY DEF IsConfig
<1>2. i \in 1..n
  BY <1>1, RowsOfShaped
<1>3. Shaped([T EXCEPT ![FieldPath(i, k)] = x], n)
  BY <1>1, <1>2, FieldEdited
<1> QED
  BY <1>3 DEF IsConfig

\* What is written by hand is a configuration.
LEMMA ConfigIsConfig ==
    ASSUME NEW list \in Seq(TargetRows), NEW key \in Texts, NEW zip \in Texts
    PROVE  IsConfig(Config(list, key, zip))
BY ConfigShaped DEF IsConfig

\* Lists of targets stay lists of targets.
LEMMA RowLists ==
    ASSUME NEW list \in Seq(TargetRows)
    PROVE  /\ \A i \in DOMAIN list : RemoveAt(list, i) \in Seq(TargetRows)
           /\ \A r \in TargetRows : Append(list, r) \in Seq(TargetRows)
           /\ Reverse(list) \in Seq(TargetRows)
<1>1. Len(list) \in Nat /\ DOMAIN list = 1..Len(list) /\ \A i \in 1..Len(list) : list[i] \in TargetRows
  OBVIOUS
<1>2. ASSUME NEW i \in 1..Len(list)
      PROVE  RemoveAt(list, i) \in Seq(TargetRows)
  <2>1. SubSeq(list, 1, i - 1) \in Seq(TargetRows)
    <3>1. \A j \in 1..(i - 1) : list[j] \in TargetRows
      BY <1>1
    <3> QED
      BY <1>1, <3>1, SubSeqProperties, 1 \in Int, i - 1 \in Int
  <2>2. SubSeq(list, i + 1, Len(list)) \in Seq(TargetRows)
    <3>1. \A j \in (i + 1)..Len(list) : list[j] \in TargetRows
      BY <1>1
    <3> QED
      BY <1>1, <3>1, SubSeqProperties, i + 1 \in Int, Len(list) \in Int
  <2> QED
    BY <2>1, <2>2, ConcatProperties DEF RemoveAt
<1>3. Reverse(list) \in [1..Len(list) -> TargetRows]
  BY <1>1 DEF Reverse
<1>4. Reverse(list) \in Seq(TargetRows)
  BY <1>1, <1>3
<1> QED
  BY <1>1, <1>2, <1>4

\* Lists of one or two targets.
LEMMA ShortRowLists ==
    ASSUME NEW a \in TargetRows, NEW b \in TargetRows
    PROVE  <<a>> \in Seq(TargetRows) /\ <<a, b>> \in Seq(TargetRows)
<1>1. <<a>> \in Seq({a, b}) /\ <<a, b>> \in Seq({a, b}) /\ {a, b} \subseteq TargetRows
  OBVIOUS
<1> QED
  BY <1>1, SeqMonotonic

\* What targets are made of.
LEMMA TextFacts ==
    /\ Names \subseteq Texts /\ Hosts \subseteq Texts /\ Passwords \subseteq Texts
    /\ "" \in Texts /\ "key" \in Texts /\ "zip" \in Texts
    /\ "" \in Passes /\ "inline" \in Passes
    /\ (CHOOSE h \in Hosts : TRUE) \in Texts
<1>1. (CHOOSE h \in Hosts : TRUE) \in Hosts
  BY EditorAssumption
<1> QED
  BY <1>1 DEF Texts, Passes

\* The file starts as a configuration with two targets.
LEMMA EditorInvInit == EditorInit => EditorInv
<1> SUFFICES ASSUME EditorInit PROVE EditorInv
  OBVIOUS
<1>1. PICK n, m \in Names, p, q \in Passwords, h \in Hosts, s \in {"", "inline"}, key \in {"", "key"} :
          n # m /\ file = Config(<<Target(n, p, h, s), Target(m, q, h, "")>>, key, "zip")
  BY DEF EditorInit
<1>2. Target(n, p, h, s) \in TargetRows /\ Target(m, q, h, "") \in TargetRows
  BY TextFacts, TargetRow
<1>3. <<Target(n, p, h, s), Target(m, q, h, "")>> \in Seq(TargetRows)
  BY <1>2, ShortRowLists
<1>4. key \in Texts /\ "zip" \in Texts
  BY TextFacts
<1>5. IsConfig(file)
  BY <1>1, <1>3, <1>4, ConfigIsConfig
<1> QED
  BY <1>5 DEF EditorInit, EditorInv

\* A tab gets another text.
LEMMA FormChanges ==
    ASSUME EditorInv, NEW t \in Tabs, NEW T, T \in {NoTree, Torn, Garbage} \/ IsConfig(T),
           form' = [form EXCEPT ![t] = T], file' = Torn \/ IsConfig(file')
    PROVE  EditorInv'
<1>1. \A u \in Tabs : form'[u] = IF u = t THEN T ELSE form[u]
  BY DEF EditorInv
<1>2. form' = [u \in Tabs |-> form'[u]]
  BY DEF EditorInv
<1>3. \A u \in Tabs : form[u] \in {NoTree, Torn, Garbage} \/ IsConfig(form[u])
  BY DEF EditorInv
<1>4. \A u \in Tabs : form'[u] \in {NoTree, Torn, Garbage} \/ IsConfig(form'[u])
  BY <1>1, <1>3
<1> QED
  BY <1>2, <1>4 DEF EditorInv, IsConfig, Shaped

\* Every action keeps to configurations, with whatever is typed or torn.
LEMMA EditorInvStep ==
    ASSUME EditorInv, [EditorNext]_editorVars
    PROVE  EditorInv'
<1>1. CASE UNCHANGED editorVars
  BY <1>1 DEF editorVars, EditorInv
<1>2. ASSUME NEW t \in Tabs, NEW T, T \in {NoTree, Torn, Garbage} \/ IsConfig(T),
             form' = [form EXCEPT ![t] = T], UNCHANGED file
      PROVE  EditorInv'
  BY <1>2, FormChanges DEF EditorInv
<1>3. ASSUME NEW t \in Tabs, Open(t)
      PROVE  EditorInv'
  <2>1. Shown(file) = Torn \/ IsConfig(Shown(file))
    <3>1. CASE file = Torn
      BY <3>1, ParsesFacts DEF Shown
    <3>2. CASE IsConfig(file)
      <4>1. IsConfig(RedactConfigForDisplay(file))
        BY <3>2, DisplayShaped DEF IsConfig
      <4> QED
        BY <3>2, <4>1, ParsesFacts DEF Shown
    <3> QED
      BY <3>1, <3>2 DEF EditorInv
  <2> QED
    BY <1>2, <1>3, <2>1 DEF Open
<1>4. ASSUME NEW t \in Tabs, NEW T, T = Garbage \/ IsConfig(T), Edit(t, T)
      PROVE  EditorInv'
  BY <1>2, <1>4 DEF Edit
<1>5. ASSUME NEW t \in Tabs, Parses(form[t])
      PROVE  IsConfig(form[t])
  BY <1>5, ParsesFacts DEF EditorInv
<1>6. ASSUME NEW t \in Tabs, EditTab(t)
      PROVE  EditorInv'
  <2>1. CASE form[t] = Garbage
    <3>1. ~Parses(form[t])
      BY <2>1, ParsesFacts
    <3> QED
      BY <1>2, <1>6, <3>1 DEF EditTab
  <2>2. CASE Parses(form[t]) /\ EditRow(t)
    <3>1. PICK i \in DOMAIN Rows(form[t]) :
              \/ \E p \in Passwords \cup {""} : Edit(t, [form[t] EXCEPT ![FieldPath(i, "pass")] = Plain(p)])
              \/ \E h \in Hosts : Edit(t, [form[t] EXCEPT ![FieldPath(i, "url")] = Str(h, @.secret)])
      BY <2>2 DEF EditRow
    <3>2. IsConfig(form[t]) /\ "pass" \in Fields /\ "url" \in Fields
      BY <1>5, <2>2 DEF Fields
    <3>3. CASE \E p \in Passwords \cup {""} : Edit(t, [form[t] EXCEPT ![FieldPath(i, "pass")] = Plain(p)])
      <4>1. PICK p \in Passwords \cup {""} : Edit(t, [form[t] EXCEPT ![FieldPath(i, "pass")] = Plain(p)])
        BY <3>3
      <4>2. Plain(p) \in Strings
        BY TextFacts, StringFacts
      <4>3. IsConfig([form[t] EXCEPT ![FieldPath(i, "pass")] = Plain(p)])
        BY <3>2, <4>2, FieldEditIsConfig
      <4> QED
        BY <1>4, <4>1, <4>3
    <3>4. CASE \E h \in Hosts : Edit(t, [form[t] EXCEPT ![FieldPath(i, "url")] = Str(h, @.secret)])
      <4>1. PICK h \in Hosts : Edit(t, [form[t] EXCEPT ![FieldPath(i, "url")] = Str(h, @.secret)])
        BY <3>4
      <4>2. form[t][FieldPath(i, "url")] \in Strings
        <5>1. PICK n \in Nat : Shaped(form[t], n)
          BY <3>2 DEF IsConfig
        <5> QED
          BY <3>2, <5>1, RowsOfShaped
      <4>3. Str(h, form[t][FieldPath(i, "url")].secret) \in Strings
        BY <4>2, TextFacts, StringFacts
      <4>4. IsConfig([form[t] EXCEPT ![FieldPath(i, "url")] = Str(h, @.secret)])
        BY <3>2, <4>3, FieldEditIsConfig
      <4> QED
        BY <1>4, <4>1, <4>4
    <3> QED
      BY <3>1, <3>3, <3>4
  <2>3. CASE Parses(form[t]) /\ EditRows(t)
    <3>1. /\ IsConfig(form[t]) /\ Rows(form[t]) \in Seq(TargetRows)
      BY <1>5, <2>3, RowsAreRows
    <3>2. CASE \E i \in DOMAIN Rows(form[t]) : Edit(t, WithRows(form[t], RemoveAt(Rows(form[t]), i)))
      <4>1. PICK i \in DOMAIN Rows(form[t]) : Edit(t, WithRows(form[t], RemoveAt(Rows(form[t]), i)))
        BY <3>2
      <4>2. IsConfig(WithRows(form[t], RemoveAt(Rows(form[t]), i)))
        BY <3>1, RowLists, WithRowsIsConfig
      <4> QED
        BY <1>4, <4>1, <4>2
    <3>3. CASE \E n \in Names, p \in Passwords :
                  Edit(t, WithRows(form[t], Append(Rows(form[t]), Target(n, p, CHOOSE h \in Hosts : TRUE, ""))))
      <4>1. PICK n \in Names, p \in Passwords :
                  Edit(t, WithRows(form[t], Append(Rows(form[t]), Target(n, p, CHOOSE h \in Hosts : TRUE, ""))))
        BY <3>3
      <4>2. Target(n, p, CHOOSE h \in Hosts : TRUE, "") \in TargetRows
        BY TextFacts, TargetRow
      <4>3. IsConfig(WithRows(form[t], Append(Rows(form[t]), Target(n, p, CHOOSE h \in Hosts : TRUE, ""))))
        BY <3>1, <4>2, RowLists, WithRowsIsConfig
      <4> QED
        BY <1>4, <4>1, <4>3
    <3> QED
      BY <2>3, <3>2, <3>3 DEF EditRows
  <2>4. CASE Edit(t, Garbage)
    BY <1>4, <2>4
  <2> QED
    BY <1>6, <2>1, <2>2, <2>3, <2>4 DEF EditTab
<1>7. ASSUME NEW t \in Tabs, Save(t)
      PROVE  EditorInv'
  <2>1. PICK m \in Nat : Shaped(form[t], m)
    BY <1>5, <1>7 DEF Save, IsConfig
  <2>2. CASE file = Torn
    <3>1. Merged(t) = form[t]
      BY <2>1, <2>2, ParsesFacts, MergedWithNothing DEF Merged, Current
    <3>2. IsConfig(file')
      BY <1>7, <2>1, <3>1 DEF Save, IsConfig
    <3> QED
      BY <1>7, <3>2, FormChanges DEF Save
  <2>3. CASE IsConfig(file)
    <3>1. PICK n \in Nat : Shaped(file, n)
      BY <2>3 DEF IsConfig
    <3>2. Merged(t) = MergeConfigOnSave(form[t], file)
      BY <2>3, ParsesFacts DEF Merged, Current
    <3>3. IsConfig(Merged(t))
      BY <2>1, <3>1, <3>2, MergedShape DEF IsConfig
    <3> QED
      BY <1>7, <3>3, FormChanges DEF Save
  <2> QED
    BY <2>2, <2>3 DEF EditorInv
<1>8. ASSUME NEW t \in Tabs, SaveRefused(t)
      PROVE  EditorInv'
  BY <1>1, <1>8 DEF SaveRefused
<1>9. ASSUME UNCHANGED form, file' = Torn \/ IsConfig(file')
      PROVE  EditorInv'
  BY <1>9 DEF EditorInv
<1>10. CASE Crash
  BY <1>9, <1>10 DEF Crash
<1>11. CASE Outside
  <2>1. CASE Parses(file) /\ \E i \in DOMAIN Rows(file), p \in Passwords :
                                 file' = [file EXCEPT ![FieldPath(i, "pass")] = Plain(p)]
    <3>1. IsConfig(file)
      BY <2>1, ParsesFacts DEF EditorInv
    <3>2. PICK i \in DOMAIN Rows(file), p \in Passwords : file' = [file EXCEPT ![FieldPath(i, "pass")] = Plain(p)]
      BY <2>1
    <3>3. Plain(p) \in Strings /\ "pass" \in Fields
      BY TextFacts, StringFacts DEF Fields
    <3>4. IsConfig(file')
      BY <3>1, <3>2, <3>3, FieldEditIsConfig
    <3> QED
      BY <1>9, <1>11, <3>4 DEF Outside
  <2>2. CASE Parses(file) /\ file' = WithRows(file, Reverse(Rows(file)))
    <3>1. IsConfig(file)
      BY <2>2, ParsesFacts DEF EditorInv
    <3>2. IsConfig(file')
      BY <2>2, <3>1, RowsAreRows, RowLists, WithRowsIsConfig
    <3> QED
      BY <1>9, <1>11, <3>2 DEF Outside
  <2>3. CASE \E n \in Names, p \in Passwords, h \in Hosts : file' = Config(<<Target(n, p, h, "")>>, "key", "zip")
    <3>1. PICK n \in Names, p \in Passwords, h \in Hosts : file' = Config(<<Target(n, p, h, "")>>, "key", "zip")
      BY <2>3
    <3>2. Target(n, p, h, "") \in TargetRows
      BY TextFacts, TargetRow
    <3>3. <<Target(n, p, h, "")>> \in Seq(TargetRows)
      BY <3>2, ShortRowLists
    <3>4. IsConfig(file')
      BY <3>1, <3>3, TextFacts, ConfigIsConfig
    <3> QED
      BY <1>9, <1>11, <3>4 DEF Outside
  <2> QED
    BY <1>11, <2>1, <2>2, <2>3 DEF Outside
<1> QED
  BY <1>1, <1>3, <1>6, <1>7, <1>8, <1>10, <1>11 DEF EditorNext

\* The file is a configuration or was torn by a kill; so are the forms, or
\* garbage was typed.
LEMMA EditorInvariant == EditorSpec => []EditorInv
BY EditorInvInit, EditorInvStep, PTL DEF EditorSpec

\* Whatever happened to the file before, from however many tabs, by hand or by a
\* kill, opening and saving it keeps it (UneditedSaveKeepsAll).
THEOREM UneditedSavesKeepAll == EditorSpec => []UneditedSaveKeepsAll
<1>1. EditorInv => UneditedSaveKeepsAll
  <2> SUFFICES ASSUME EditorInv, Parses(file)
               PROVE  LET again == MergeConfigOnSave(RedactConfigForDisplay(file), file) IN
                      /\ DOMAIN again = DOMAIN file
                      /\ \A p \in DOMAIN file : BelowSecret(p) \/ again[p] = file[p]
    BY DEF UneditedSaveKeepsAll
  <2>1. IsTree(file)
    BY ParsesFacts, ShapedIsTree DEF EditorInv, IsConfig
  <2> QED
    BY <2>1, RoundTrip
<1> QED
  BY <1>1, EditorInvariant, PTL

-----------------------------------------------------------------------------
(* The configuration page: a save and the secrets.                         *)

\* Two lists of rows with the same secrets for a target: they agree in the rows
\* of the shorter, and what the longer has more are other targets.
LEMMA SameSecrets ==
    ASSUME NEW A, NEW B, NEW a \in Nat, NEW b \in Nat, b <= a,
           DOMAIN Rows(A) = 1..a, DOMAIN Rows(B) = 1..b, NEW N,
           \A i \in 1..b : NameOf(Rows(A)[i]) = NameOf(Rows(B)[i]),
           \A i \in 1..b : NameOf(Rows(B)[i]) = N =>
               /\ Rows(A)[i]["pass"].text = Rows(B)[i]["pass"].text
               /\ Rows(A)[i]["url"].secret = Rows(B)[i]["url"].secret,
           \A i \in 1..a : i > b => NameOf(Rows(A)[i]) # N
    PROVE  SecretsOf(A, N) = SecretsOf(B, N)
<1> DEFINE S(r) == <<r["pass"].text, r["url"].secret>>
           At(T, k) == {S(Rows(T)[i]) : i \in {j \in 1..k : NameOf(Rows(T)[j]) = N}}
<1>1. SecretsOf(A, N) = At(A, a) /\ SecretsOf(B, N) = At(B, b)
  BY DEF SecretsOf, Range
<1>2. \A i \in 1..b : NameOf(Rows(B)[i]) = N => S(Rows(A)[i]) = S(Rows(B)[i])
  OBVIOUS
<1>3. \A i \in 1..a : NameOf(Rows(A)[i]) = N => i \in 1..b
  OBVIOUS
<1> HIDE DEF S
<1>4. At(A, a) = At(B, b)
  BY <1>2, <1>3
<1> QED
  BY <1>1, <1>4

\* A save over the form's rows: the passwords of a target stay unless someone
\* typed one for it.
LEMMA SaveKeepsSecrets ==
    ASSUME EditorInv, NEW t \in Tabs, Save(t), LinedUp(form[t], file),
           NEW N \in {NameOf(r) : r \in Range(Rows(file))}, ~TypedFor(form[t], N)
    PROVE  SecretsOf(file', N) = SecretsOf(file, N)
<1> DEFINE s == form[t]
           c == file
           M == MergeConfigOnSave(s, c)
<1>1. PICK m \in Nat : Shaped(s, m)
  BY ParsesFacts DEF EditorInv, IsConfig, Save
<1>2. Parses(c)
  BY DEF LinedUp
<1>3. PICK n \in Nat : Shaped(c, n)
  BY <1>2, ParsesFacts DEF EditorInv, IsConfig
<1>4. file' = M
  BY <1>2 DEF Save, Merged, Current
<1>5. /\ DOMAIN Rows(s) = 1..m /\ Len(Rows(s)) = m
      /\ \A i \in 1..m, k \in Fields : Rows(s)[i][k] = s[FieldPath(i, k)]
  BY <1>1, RowsOfShaped
<1>6. /\ DOMAIN Rows(c) = 1..n /\ Len(Rows(c)) = n
      /\ \A i \in 1..n, k \in Fields : Rows(c)[i][k] = c[FieldPath(i, k)] /\ c[FieldPath(i, k)] \in Strings
  BY <1>3, RowsOfShaped
<1> HIDE DEF s, c, M
<1>7. /\ n <= m
      /\ \A i \in 1..n : NameOf(Rows(s)[i]) = NameOf(Rows(c)[i])
      /\ \A i \in 1..m \ 1..n : NameOf(Rows(s)[i]) \notin {NameOf(r) : r \in Range(Rows(c))}
  BY <1>5, <1>6 DEF LinedUp, s, c
<1>LinedUrls. \A i \in 1..n :
          \/ Rows(s)[i]["url"] = RedactInline(Rows(c)[i]["url"])
          \/ {Rows(s)[i]["url"].secret, Rows(c)[i]["url"].secret} = {""}
  BY <1>6 DEF LinedUp, s, c
<1>8. Shaped(M, m) /\ \A i \in 1..m, k \in Fields : M[FieldPath(i, k)] = MergedField(s, c, m, n, i, k)
  <2>1. (IF m < n THEN n ELSE m) = m
    BY <1>7
  <2> QED
    BY <1>1, <1>3, <2>1, MergedShape DEF M
<1>9. DOMAIN Rows(M) = 1..m /\ \A i \in 1..m, k \in Fields : Rows(M)[i][k] = MergedField(s, c, m, n, i, k)
  BY <1>8, RowsOfShaped
<1>10. "name" \in Fields /\ "pass" \in Fields /\ "url" \in Fields
  BY DEF Fields
<1>11. ASSUME NEW i \in 1..n
       PROVE  NameOf(Rows(M)[i]) = NameOf(Rows(c)[i])
  <2>1. Rows(M)[i]["name"] \in {Rows(s)[i]["name"], Rows(c)[i]["name"]}
    BY <1>5, <1>6, <1>7, <1>9, <1>10 DEF MergedField
  <2> QED
    BY <1>7, <2>1 DEF NameOf
<1>12. ASSUME NEW i \in 1..n, NameOf(Rows(c)[i]) = N
       PROVE  /\ Rows(M)[i]["pass"].text = Rows(c)[i]["pass"].text
              /\ Rows(M)[i]["url"].secret = Rows(c)[i]["url"].secret
  <2>1. i \in 1..m /\ ~(i > n) /\ ~(i > m)
    BY <1>7
  <2>2. Rows(s)[i]["pass"].text \in {"", REDACTED_PLACEHOLDER}
    <3>1. Rows(s)[i] \in Range(Rows(s)) /\ NameOf(Rows(s)[i]) = N
      BY <1>5, <1>7, <1>12, <2>1 DEF Range
    <3> QED
      BY <3>1 DEF TypedFor, s
  <2>3. Blank(s[FieldPath(i, "pass")])
    <3>1. s[FieldPath(i, "pass")].t = "str"
      BY <1>1, <1>10, <2>1, ShapedTargets
    <3> QED
      BY <1>5, <1>10, <2>1, <2>2, <3>1 DEF Blank
  <2>4. Rows(M)[i]["pass"] = Rows(c)[i]["pass"]
    BY <1>6, <1>9, <1>10, <2>1, <2>3 DEF MergedField
  <2>5. Rows(M)[i]["url"] = IF Unchanged(Rows(s)[i]["url"], Rows(c)[i]["url"]) THEN Rows(c)[i]["url"] ELSE Rows(s)[i]["url"]
    BY <1>5, <1>6, <1>9, <1>10, <2>1 DEF MergedField
  <2>6. CASE Rows(s)[i]["url"] = RedactInline(Rows(c)[i]["url"])
    BY <2>4, <2>5, <2>6 DEF Unchanged
  <2>7. CASE {Rows(s)[i]["url"].secret, Rows(c)[i]["url"].secret} = {""}
    <3>1. Rows(s)[i]["url"].secret = "" /\ Rows(c)[i]["url"].secret = ""
      BY <2>7
    <3> QED
      BY <2>4, <2>5, <3>1
  <2> QED
    BY <1>LinedUrls, <2>6, <2>7
<1>13. ASSUME NEW i \in 1..m, i > n
       PROVE  NameOf(Rows(M)[i]) # N
  <2>1. Rows(M)[i]["name"] = Rows(s)[i]["name"]
    BY <1>5, <1>9, <1>10, <1>13 DEF MergedField
  <2>2. i \in 1..m \ 1..n
    BY <1>13
  <2> QED
    BY <1>7, <2>1, <2>2 DEF NameOf, c
<1>14. SecretsOf(M, N) = SecretsOf(c, N)
  <2>1. DOMAIN Rows(M) = 1..m /\ DOMAIN Rows(c) = 1..n /\ n <= m
    BY <1>6, <1>7, <1>9
  <2>2. \A i \in 1..n : NameOf(Rows(M)[i]) = NameOf(Rows(c)[i])
    BY <1>11
  <2>3. \A i \in 1..n : NameOf(Rows(c)[i]) = N =>
            /\ Rows(M)[i]["pass"].text = Rows(c)[i]["pass"].text
            /\ Rows(M)[i]["url"].secret = Rows(c)[i]["url"].secret
    BY <1>12
  <2>4. \A i \in 1..m : i > n => NameOf(Rows(M)[i]) # N
    BY <1>13
  <2> QED
    BY <2>1, <2>2, <2>3, <2>4, SameSecrets
<1> QED
  BY <1>4, <1>14 DEF c

\* Passwords meet the right target: a save changes a target's secrets only if
\* somebody typed a new one for it, as long as the rows line up
\* (SavesKeepSecrets).
THEOREM SavesKeepTheSecrets == EditorSpec => SavesKeepSecrets
<1>1. EditorInv /\ [EditorNext]_editorVars =>
        [\A t \in Tabs : Save(t) /\ LinedUp(form[t], file) =>
            \A n \in {NameOf(r) : r \in Range(Rows(file))} :
                TypedFor(form[t], n) \/ SecretsOf(file', n) = SecretsOf(file, n)]_editorVars
  BY SaveKeepsSecrets
<1> QED
  BY <1>1, EditorInvariant, PTL DEF EditorSpec, SavesKeepSecrets
=============================================================================
