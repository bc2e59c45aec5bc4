------------------------------ MODULE Admission ------------------------------
(***************************************************************************)
(* From "start a scan" to a connection: the license is asked, workers are  *)
(* given out, each target's connector passes the tier gate and the address *)
(* guard, and dials (AuditEngine.start_audit, _run_target_inner; the       *)
(* dashboard's _raise_if_license_blocks_scan).  Meanwhile DNS changes, the *)
(* operator installs and revokes licenses, saves the configuration, and    *)
(* restarts the process.                                                   *)
(***************************************************************************)
EXTENDS HostPins, Licensing

CONSTANTS
    Requires,       \* the tier of a target's connector, or "unmapped"
    Tokens,         \* license files the operator may install
    Configs,        \* the configurations the dashboard may save
    Worlds,         \* the worlds the system may start in
    Asked,          \* scan.max_workers
    MaxChanges      \* bound on what happens outside, DNS apart

ASSUME AdmissionAssumption ==
    /\ Requires \in [Targets -> PaidTiers \cup {"unmapped"}]
    /\ Asked \in Nat /\ MaxChanges \in Nat
    /\ Tokens \subseteq Token /\ Configs \subseteq Config /\ Worlds \subseteq World

VARIABLES
    world,
    kind,       \* of the process: "cli" or "dashboard"
    guard,      \* _guard_instance
    scanning,
    workers,    \* AuditEngine._max_workers
    blocked,    \* targets with a tier_blocked failure in this scan
    born,       \* history: the world that the guard was made in
    changes     \* history: how often the world changed

vars == <<pinVars, world, kind, guard, scanning, workers, blocked, born, changes>>
licenseVars == <<world, kind, guard, born, changes>>

Kinds == {"cli", "dashboard"}

TypeOK ==
    /\ PinsTypeOK
    /\ world \in World
    /\ kind \in Kinds
    /\ guard = NoGuard \/ guard.state \in {"OPEN", "VALID", "GRACE", "EXPIRED", "REVOKED",
                                           "UNLICENSED", "INVALID", "MACHINE_MISMATCH", "TAMPERED"}
    /\ scanning \in BOOLEAN
    /\ workers \in 0..Asked
    /\ blocked \subseteq Targets
    /\ changes \in 0..MaxChanges

Init ==
    /\ PinsInit
    /\ world \in Worlds /\ kind \in Kinds
    /\ guard = NoGuard /\ born = world
    /\ scanning = FALSE /\ workers = Asked /\ blocked = {}
    /\ changes = 0

-----------------------------------------------------------------------------

\* get_license_guard(config)
Asking == IF guard = NoGuard THEN Guard(world) ELSE guard

Ask ==
    /\ guard' = Asking
    /\ born' = IF guard = NoGuard THEN world ELSE born

Running == {t \in Targets : pc[t] \notin Ended \cup {"idle"}}

\* start_audit clamps for good; the dashboard's scans do not go through it.
Granted == IF kind = "cli" THEN Clamped(workers, Asking) ELSE workers

StartScan ==
    /\ ~scanning
    /\ Ask
    /\ AllowsScan(Asking)
    /\ scanning' = TRUE
    /\ workers' = Granted
    /\ blocked' = {}
    /\ UNCHANGED <<pinVars, world, kind, changes>>

RefuseScan ==
    /\ ~scanning
    /\ Ask
    /\ ~AllowsScan(Asking)
    /\ UNCHANGED <<pinVars, world, kind, scanning, workers, blocked, changes>>

\* A worker is free: the pool's size, one without a pool.
WorkerFree == Cardinality(Running) < IF workers <= 1 THEN 1 ELSE workers

Queued(t) == scanning /\ pc[t] = "idle" /\ t \notin blocked

\* _run_target_inner: the connector runs ...
RunTarget(t) ==
    /\ Queued(t) /\ WorkerFree
    /\ ConnectorAllowed(Requires[t], Asking)
    /\ Validate(t)
    /\ UNCHANGED <<licenseVars, scanning, workers, blocked>>

\* ... or scan_failures gets a tier_blocked row.
BlockTarget(t) ==
    /\ Queued(t) /\ WorkerFree
    /\ ~ConnectorAllowed(Requires[t], Asking)
    /\ blocked' = blocked \cup {t}
    /\ UNCHANGED <<pinVars, licenseVars, scanning, workers>>

Work(t) == Connector(t) /\ UNCHANGED <<licenseVars, scanning, workers, blocked>>

\* Every target had its turn; the connectors are gone.
EndScan ==
    /\ scanning
    /\ \A t \in Targets : pc[t] \in Ended \/ t \in blocked
    /\ scanning' = FALSE
    /\ pc' = [t \in Targets |-> "idle"]
    /\ mine' = [t \in Targets |-> {}]
    /\ peers' = [t \in Targets |-> {}]
    /\ UNCHANGED <<dns, pins, refs, patched, holds, licenseVars, workers, blocked>>

\* The process ends, or is killed, and another begins.
Restart ==
    /\ pins' = [h \in Hosts |-> {}] /\ refs' = [h \in Hosts |-> 0] /\ patched' = FALSE
    /\ pc' = [t \in Targets |-> "idle"]
    /\ mine' = [t \in Targets |-> {}]
    /\ holds' = [t \in Targets |-> FALSE]
    /\ peers' = [t \in Targets |-> {}]
    /\ kind' \in Kinds
    /\ guard' = NoGuard /\ born' = world
    /\ scanning' = FALSE /\ workers' = Asked /\ blocked' = {}
    /\ UNCHANGED <<dns, world, changes>>

\* Somebody else changes the world.
Outside(w) ==
    /\ changes < MaxChanges /\ changes' = changes + 1
    /\ world' = w
    /\ UNCHANGED <<pinVars, kind, guard, scanning, blocked, born>>

Tick   == Outside([world EXCEPT !.now = @ + 1]) /\ UNCHANGED workers
Renew  == \E k \in Tokens \cup {NoToken} : Outside([world EXCEPT !.token = k]) /\ UNCHANGED workers
Revoke ==
    /\ world.list.kind # "unset"
    /\ \E k \in {"verified", "unverified"}, S \in SUBSET Ids :
           Outside([world EXCEPT !.list = [kind |-> k, ids |-> S]])
    /\ UNCHANGED workers

\* The dashboard saves a configuration and makes a new engine, not a new guard.
SaveConfig ==
    /\ kind = "dashboard" /\ ~scanning
    /\ \E c \in Configs : Outside([world EXCEPT !.cfg = c])
    /\ workers' = Asked

Resolve == DnsChanges /\ UNCHANGED <<licenseVars, scanning, workers, blocked>>

Next ==
    \/ StartScan \/ RefuseScan \/ EndScan \/ Restart \/ SaveConfig
    \/ \E t \in Targets : RunTarget(t) \/ BlockTarget(t) \/ Work(t)
    \/ Tick \/ Renew \/ Revoke \/ Resolve

Spec == Init /\ [][Next]_vars

-----------------------------------------------------------------------------
(* Properties.                                                             *)

\* In a process whose guard was made under enforcement, a scan runs only if the
\* license was good in every respect in the world the guard was made in: whatever
\* the order of _evaluate's checks, none is passed by.
ScansAreEntitled == scanning => Entitled(born)

\* A connector works only for the tier that the verified token names.  Nothing in
\* the YAML, saved before or after, adds to it once enforcement is on.
ConnectorsArePaidFor ==
    "enforced" \in {born.cfg.mode, born.env} =>
        \A t \in Targets : pc[t] # "idle" =>
            /\ Requires[t] # "unmapped"
            /\ Rank[Requires[t]] <= IF born.token.tier \in PaidTiers
                                    THEN Rank[born.token.tier] ELSE 0

\* Targets scanned at once: two without enforcement, else what the token or its
\* tier says.  Only a command line promises it.
WorkersWithinCap ==
    kind = "cli" /\ scanning =>
        /\ guard.mode = "open" => Cardinality(Running) <= 2
        /\ guard.mode = "enforced" /\ guard.workers > 0 =>
               Cardinality(Running) <= guard.workers
        /\ guard.mode = "enforced" /\ guard.dbtier = "" /\ guard.workers = 0 =>
               Cardinality(Running) <= 2
=============================================================================
