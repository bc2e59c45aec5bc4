------------------------------ MODULE Dashboard ------------------------------
(***************************************************************************)
(* The dashboard server (api/routes.py) around core/engine.py: one process *)
(* whose request handlers run to completion on the event loop (they do not *)
(* await between reading and writing shared state) while background tasks  *)
(* run scans on threads.  They share the AuditEngine: its run slot, its    *)
(* config dictionary, which a request overlays for the length of its scan, *)
(* and the store's current session id, under which findings are saved.     *)
(*                                                                         *)
(* A background task is named by the session its request created.          *)
(***************************************************************************)
EXTENDS Naturals, FiniteSets

CONSTANTS
    Sessions,
    MaxEngines,     \* bound on AuditEngine objects, one more per saved config
    MaxConcurrent,  \* rate_limit.max_concurrent_scans
    RateLimit,      \* rate_limit.enabled
    SinkEnabled,    \* findings_sink.enabled
    WritesMayFail,  \* may the INSERT or the last UPDATE of a session's row raise
                    \* (a locked database)?
    Tenants,
    OtherId,        \* a well-formed id that no session has
    NoSession, NoTenant, NoCache

ASSUME BoundsAssumption ==
    MaxEngines \in Nat \ {0} /\ MaxConcurrent \in Nat \ {0}
ASSUME SwitchesAssumption == {RateLimit, SinkEnabled, WritesMayFail} \subseteq BOOLEAN
ASSUME NullsAssumption == {NoSession, OtherId} \cap Sessions = {} /\ NoTenant \notin Tenants

Engines  == 1..MaxEngines
NoEngine == 0

\* Options a request may overlay: those of file_scan, and those that both scan
\* endpoints know (jurisdiction hints, validate_crypto).
Options == {"file_scan", "shared"}

\* The saved configuration has them all off: an overlay only turns options on,
\* so one that is on already is not affected.

VARIABLES
    engine,     \* _audit_engine, the engine that requests are served with
    made,       \* engines built so far
    running,    \* _is_running of each engine
    curSid,     \* current session id of each engine's LocalDBManager
    config,     \* options that are on in each engine's config
    status,     \* status of each row of scan_sessions
    tenant,
    cache,      \* _sessions_cache
    \* background tasks, by session
    pc,
    kind,       \* the endpoint, "scan" or "scan_database"
    on,         \* the engine the task closes over
    asked,      \* options its request turned on
    prev,       \* options that were on when its request was served
    runSid,     \* session id read when the targets start
    \* history
    moved,      \* tasks during which a report changed the current session
    strayed,    \* other tasks, that saved a finding under another session
    unclosed,   \* other tasks, whose finish_session raised
    mixed       \* engines whose overlays were not undone before the next ones

tasks  == <<pc, kind, on, asked, prev, runSid>>
rows   == <<status, tenant>>
shared == <<running, curSid, config>>
ghosts == <<strayed, moved, unclosed, mixed>>
vars   == <<engine, made, shared, rows, cache, tasks, ghosts>>

Scanning  == {"scheduled", "scanning"}             \* between claim and release
Unrestored == Scanning \cup {"released", "finished"} \* overlays still in place
Steps     == {"none", "done"} \cup Unrestored

TenantsOrNone == Tenants \cup {NoTenant}
Known(s) == status[s] # "absent"

\* What list_sessions returns.
Listed ==
    [s \in {t \in Sessions : Known(t)} |-> [status |-> status[s], tenant |-> tenant[s]]]

ListedRow == [status : {"running", "completed"}, tenant : TenantsOrNone]

TypeOK ==
    /\ engine \in Engines \cup {NoEngine}
    /\ made \in 0..MaxEngines
    /\ running \in [Engines -> BOOLEAN]
    /\ curSid \in [Engines -> Sessions \cup {NoSession, OtherId}]
    /\ config \in [Engines -> SUBSET Options]
    /\ status \in [Sessions -> {"absent", "running", "completed"}]
    /\ tenant \in [Sessions -> TenantsOrNone]
    /\ cache = NoCache \/ cache \in UNION {[S -> ListedRow] : S \in SUBSET Sessions}
    /\ pc \in [Sessions -> Steps]
    /\ kind \in [Sessions -> {"scan", "scan_database"}]
    /\ on \in [Sessions -> Engines \cup {NoEngine}]
    /\ asked \in [Sessions -> SUBSET Options]
    /\ prev \in [Sessions -> SUBSET Options]
    /\ runSid \in [Sessions -> Sessions \cup {NoSession, OtherId}]
    /\ strayed \subseteq Sessions
    /\ moved \subseteq Sessions
    /\ unclosed \subseteq Sessions
    /\ mixed \subseteq Engines

\* _lifespan builds the first engine before any request.
Init ==
    /\ engine = 1
    /\ made = 1
    /\ running = [e \in Engines |-> FALSE]
    /\ curSid = [e \in Engines |-> NoSession]
    /\ config = [e \in Engines |-> {}]
    /\ status = [s \in Sessions |-> "absent"]
    /\ tenant = [s \in Sessions |-> NoTenant]
    /\ cache = NoCache
    /\ pc = [s \in Sessions |-> "none"]
    /\ kind = [s \in Sessions |-> "scan"]
    /\ on = [s \in Sessions |-> NoEngine]
    /\ asked = [s \in Sessions |-> {}]
    /\ prev = [s \in Sessions |-> {}]
    /\ runSid = [s \in Sessions |-> NoSession]
    /\ strayed = {}
    /\ moved = {}
    /\ unclosed = {}
    /\ mixed = {}

-----------------------------------------------------------------------------
(* Configuration: saving it drops the engine, the next request builds one. *)

\* _save_config_yaml, whether or not a scan is running.
SaveConfig ==
    /\ engine # NoEngine
    /\ engine' = NoEngine
    /\ UNCHANGED <<made, shared, rows, cache, tasks, ghosts>>

\* _get_engine: its config is loaded from the file, its slot is free, and its
\* reaper spares the rows of this live process.
GetEngine ==
    /\ engine = NoEngine
    /\ made < MaxEngines
    /\ made' = made + 1
    /\ engine' = made + 1
    /\ UNCHANGED <<shared, rows, cache, tasks, ghosts>>

-----------------------------------------------------------------------------
(* POST /scan and POST /scan_database.                                     *)

\* What an endpoint lets a request turn on.
Overlays(k) == IF k = "scan" THEN SUBSET Options ELSE SUBSET {"shared"}

\* Mutant of SlotFree: a scan counts as running once its task has started, as
\* before the slot was claimed at request time.
SlotFreeUntilBegin(e) ==
    e # NoEngine /\ \A s \in Sessions : on[s] = e => pc[s] # "scanning"

\* try_claim_running
SlotFree(e) == e # NoEngine /\ ~running[e]

WithinRateLimit ==
    RateLimit => Cardinality({s \in Sessions : status[s] = "running"}) < MaxConcurrent

\* Tasks that have not given their engine's config back.
Overlaid(e) == {s \in Sessions : on[s] = e /\ pc[s] \in Unrestored}

\* The request claims the slot, creates its session, remembers what was on,
\* overlays its options and schedules the task.
StartScan(s, k) ==
    /\ SlotFree(engine)
    /\ WithinRateLimit
    /\ ~Known(s)
    /\ pc[s] = "none"
    /\ \E a \in Overlays(k) :
        /\ asked' = [asked EXCEPT ![s] = a]
        /\ config' = [config EXCEPT ![engine] = @ \cup a]
    /\ running' = [running EXCEPT ![engine] = TRUE]
    /\ curSid' = [curSid EXCEPT ![engine] = s]
    /\ status' = [status EXCEPT ![s] = "running"]
    /\ \E t \in TenantsOrNone : tenant' = [tenant EXCEPT ![s] = t]
    /\ prev' = [prev EXCEPT ![s] = config[engine]]
    /\ pc' = [pc EXCEPT ![s] = "scheduled"]
    /\ kind' = [kind EXCEPT ![s] = k]
    /\ on' = [on EXCEPT ![s] = engine]
    /\ cache' = NoCache
    /\ mixed' = mixed \cup {e \in {engine} : Overlaid(e) # {}}
    /\ UNCHANGED <<engine, made, runSid, strayed, moved, unclosed>>

\* create_session_record raises (the database is locked): the slot is given
\* back.  /scan has overlaid nothing yet, /scan_database already has.
StartFails(s, k) ==
    /\ WritesMayFail
    /\ SlotFree(engine)
    /\ WithinRateLimit
    /\ ~Known(s)
    /\ pc[s] = "none"
    /\ \E a \in Overlays(k) :
        IF k = "scan" THEN UNCHANGED <<config, mixed>>
        ELSE /\ config' = [config EXCEPT ![engine] = @ \cup a]
             /\ mixed' = mixed \cup {e \in {engine} : a # {}}
    /\ curSid' = [curSid EXCEPT ![engine] = s]
    /\ pc' = [pc EXCEPT ![s] = "done"]
    /\ UNCHANGED <<engine, made, running, rows, cache, kind, on, asked, prev, runSid, strayed, moved, unclosed>>

-----------------------------------------------------------------------------
(* The background task: run_targets or run_one_target.                     *)

\* _run_audit_targets takes the session id from the store; run_one_target's
\* closure has it.
Begin(s) ==
    /\ pc[s] = "scheduled"
    /\ pc' = [pc EXCEPT ![s] = "scanning"]
    /\ running' = IF kind[s] = "scan" THEN [running EXCEPT ![on[s]] = TRUE] ELSE running
    /\ runSid' = [runSid EXCEPT ![s] = IF kind[s] = "scan" THEN curSid[on[s]] ELSE s]
    /\ UNCHANGED <<engine, made, curSid, config, rows, cache, kind, on, asked, prev, ghosts>>

\* save_finding, from a connector: it goes to the store's current session.
SaveFinding(s) ==
    /\ pc[s] = "scanning"
    /\ curSid[on[s]] # NoSession
    /\ strayed' = strayed \cup {t \in {s} \ moved : curSid[on[s]] # s}
    /\ UNCHANGED <<engine, made, shared, rows, cache, tasks, moved, unclosed, mixed>>

\* The targets are done, or raised: clear_running comes first in the finally.
Release(s) ==
    /\ pc[s] = "scanning"
    /\ pc' = [pc EXCEPT ![s] = "released"]
    /\ running' = [running EXCEPT ![on[s]] = FALSE]
    /\ UNCHANGED <<engine, made, curSid, config, rows, cache, kind, on, asked, prev, runSid, ghosts>>

\* Mutant of Finish: run_one_target does not finish its session.
FinishScanOnly(s) ==
    /\ pc[s] = "released"
    /\ pc' = [pc EXCEPT ![s] = "finished"]
    /\ status' = [r \in Sessions |->
            IF r = runSid[s] /\ kind[s] = "scan" /\ status[r] = "running"
              THEN "completed" ELSE status[r]]
    /\ UNCHANGED <<engine, made, shared, tenant, cache, kind, on, asked, prev, runSid, ghosts>>

\* finish_session
Finish(s) ==
    /\ pc[s] = "released"
    /\ pc' = [pc EXCEPT ![s] = "finished"]
    /\ status' = [r \in Sessions |->
            IF r = runSid[s] /\ status[r] = "running" THEN "completed" ELSE status[r]]
    /\ UNCHANGED <<engine, made, shared, tenant, cache, kind, on, asked, prev, runSid, ghosts>>

\* The task is through: the closure and what it held are gone.
Through(s) ==
    /\ pc' = [pc EXCEPT ![s] = "done"]
    /\ kind' = [kind EXCEPT ![s] = "scan"]
    /\ on' = [on EXCEPT ![s] = NoEngine]
    /\ asked' = [asked EXCEPT ![s] = {}]
    /\ prev' = [prev EXCEPT ![s] = {}]
    /\ runSid' = [runSid EXCEPT ![s] = NoSession]

\* finish_session raises: /scan restores the options in a finally of its own,
\* /scan_database after the call, so not at all.
FinishFails(s) ==
    /\ WritesMayFail
    /\ pc[s] = "released"
    /\ unclosed' = unclosed \cup ({s} \ moved)
    /\ \/ /\ kind[s] = "scan"
          /\ pc' = [pc EXCEPT ![s] = "finished"]
          /\ UNCHANGED <<kind, on, asked, prev, runSid, mixed>>
       \/ /\ kind[s] = "scan_database"
          /\ mixed' = mixed \cup {e \in {on[s]} : asked[s] # {}}
          /\ Through(s)
    /\ UNCHANGED <<engine, made, shared, rows, cache, strayed, moved>>

\* Mutant of Restored: options that were asked for stay.
RestoredFileScanOnly(s) ==
    LET back == IF kind[s] = "scan" THEN {"file_scan"} ELSE {}
    IN  (config[on[s]] \ back) \cup (prev[s] \cap back)

\* /scan puts every file_scan option back, asked for or not, and a shared one
\* if it was asked for; /scan_database only the latter.
Restored(s) ==
    LET back == asked[s] \cup (IF kind[s] = "scan" THEN {"file_scan"} ELSE {})
    IN  (config[on[s]] \ back) \cup (prev[s] \cap back)

Restore(s) ==
    /\ pc[s] = "finished"
    /\ config' = [config EXCEPT ![on[s]] = Restored(s)]
    /\ Through(s)
    /\ UNCHANGED <<engine, made, running, curSid, rows, cache, ghosts>>

-----------------------------------------------------------------------------
(* Requests that read, and PATCH.                                          *)

\* GET /reports/{id}, GET /heatmap/{id}: generate_final_reports pushes to the
\* findings sink, which makes id the store's current session, known or not.
GetReport(r) ==
    /\ SinkEnabled
    /\ engine # NoEngine
    /\ r \in {OtherId} \cup {s \in Sessions : Known(s)}
    /\ curSid' = [curSid EXCEPT ![engine] = r]
    /\ moved' = moved \cup {s \in Sessions : on[s] = engine /\ pc[s] \in Scanning /\ r # s}
    /\ UNCHANGED <<engine, made, running, config, rows, cache, tasks, strayed, unclosed, mixed>>

\* _list_sessions_cached: bypassed while the engine runs, refilled when empty
\* or older than its time to live.
GetList ==
    /\ engine # NoEngine
    /\ IF running[engine] THEN cache' = NoCache
       ELSE \/ cache # NoCache /\ UNCHANGED cache
            \/ cache' = Listed
    /\ UNCHANGED <<engine, made, shared, rows, tasks, ghosts>>

\* Mutant of PatchTenant: the cached list is kept.
PatchTenantKeepingCache(r) ==
    /\ engine # NoEngine
    /\ Known(r)
    /\ \E t \in TenantsOrNone : tenant' = [tenant EXCEPT ![r] = t]
    /\ UNCHANGED <<engine, made, shared, status, cache, tasks, ghosts>>

\* PATCH /sessions/{id}
PatchTenant(r) ==
    /\ engine # NoEngine
    /\ Known(r)
    /\ \E t \in TenantsOrNone : tenant' = [tenant EXCEPT ![r] = t]
    /\ cache' = NoCache
    /\ UNCHANGED <<engine, made, shared, status, tasks, ghosts>>

Next ==
    \/ SaveConfig \/ GetEngine \/ GetList
    \/ \E s \in Sessions :
        \/ \E k \in {"scan", "scan_database"} : StartScan(s, k) \/ StartFails(s, k)
        \/ Begin(s) \/ SaveFinding(s) \/ Release(s) \/ Finish(s) \/ FinishFails(s) \/ Restore(s)
        \/ PatchTenant(s)
    \/ \E r \in Sessions \cup {OtherId} : GetReport(r)

Spec == Init /\ [][Next]_vars

-----------------------------------------------------------------------------
(* Properties.                                                             *)

\* The run slot of an engine is taken exactly while one task is between its
\* request's claim and its release: overlapping requests never start two scans
\* on an engine, and no failure or odd order leaves the slot taken.
SlotHeldByOneScan ==
    \A e \in Engines :
        LET scans == {s \in Sessions : on[s] = e /\ pc[s] \in Scanning}
        IN  Cardinality(scans) = IF running[e] THEN 1 ELSE 0

\* Findings are saved under the session of their own scan, as long as no report
\* moved the store's current session during it: the next scan sets it too, and
\* does so only when the last finding of the previous one is in.
FindingsStayHome ==
    strayed = {}

\* On an engine whose overlays never met, a scan runs with its own options and
\* nothing stays on when all is done.
OverlaysUndone ==
    \A e \in Engines \ mixed :
        /\ \A s \in Overlaid(e) : config[e] = asked[s]
        /\ Overlaid(e) = {} => config[e] = {}

\* A cached session list, for as long as it may live, misses no session and no
\* edit of a tenant: whatever starts a scan or edits a row drops it.  Nothing
\* drops it when a scan ends, so it may still call running a session that has
\* completed (it was cached between the release of the slot and finish_session,
\* or by another engine), never the other way round.
CachedListLagsOnlyInStatus ==
    cache # NoCache =>
        /\ DOMAIN cache = DOMAIN Listed
        /\ \A s \in DOMAIN cache :
            /\ cache[s].tenant = tenant[s]
            /\ cache[s].status = status[s] \/ cache[s].status = "running"

\* A task that is through has finished the session it was started for, unless a
\* report moved the store's current session under it or finish_session itself
\* failed: no other scan leaves its session running for the next one, for the list
\* or for the rate limit to count.
TasksFinishTheirSessions ==
    \A s \in Sessions : pc[s] \in {"finished", "done"} /\ status[s] = "running" =>
        s \in moved \cup unclosed

\* "HTTP 409 if a scan is already running" (start_scan, scan_database): no two
\* scans of this process at a time.
OneScanAtATime ==
    \A s, t \in Sessions : pc[s] \in Scanning /\ pc[t] \in Scanning => s = t
=============================================================================
