--------------------------- MODULE AdmissionProofs ---------------------------
(***************************************************************************)
(* Proofs about Admission, for any targets, hosts, addresses, licenses and *)
(* configurations, and any number of workers.                              *)
(***************************************************************************)
EXTENDS Admission, TLAPS, FiniteSetTheorems

-----------------------------------------------------------------------------
(* Facts about licenses that hold of any world.                            *)

States == {"OPEN", "VALID", "GRACE", "EXPIRED", "REVOKED", "UNLICENSED", "INVALID",
           "MACHINE_MISMATCH", "TAMPERED"}

LEMMA VerdictIsState == \A w : Verdict(w) \in States
BY DEF Verdict, Claims, Bound, Timely, States

LEMMA GuardIsMade == \A w : Guard(w) # NoGuard
<1> SUFFICES ASSUME NEW w PROVE Guard(w).state # NoGuard.state
  OBVIOUS
<1> QED
  BY VerdictIsState DEF Guard, NoGuard, States

LEMMA GuardFields ==
    ASSUME NEW w \in World
    PROVE  /\ Guard(w).mode = Mode(w) /\ Guard(w).state = Verdict(w) /\ Guard(w).cfg = w.cfg
           /\ Guard(w).workers \in Nat
           /\ Verdict(w) \in Usable =>
                  /\ Guard(w).dbtier = w.token.tier /\ Guard(w).workers = w.token.workers
                  /\ w.token \in Token
<1>1. Verdict(w) \in Usable => w.token \in Token
  BY DEF Verdict, World, Usable
<1> QED
  BY <1>1 DEF Guard, Token

\* Whatever the order of the checks of _evaluate, a verdict that lets a scan start
\* means that the license is good in every respect.
LEMMA AllowedIsEntitled ==
    ASSUME NEW w \in World, AllowsScan(Guard(w))
    PROVE  Entitled(w)
<1>1. Verdict(w) \in {"OPEN", "VALID", "GRACE"}
  BY GuardFields DEF AllowsScan, Usable
<1>2. CASE Mode(w) = "open"
  BY <1>2 DEF Mode, Entitled
<1>3. CASE Mode(w) # "open"
  <2>1. /\ w.build /\ w.key = "good" /\ w.token # NoToken /\ w.token.signed
        /\ Claims(w) \in Usable
    <3>1. w.key \in {"none", "bad", "good"} /\ w.build \in BOOLEAN
      BY DEF World
    <3>2. Verdict(w) \notin {"TAMPERED", "UNLICENSED", "INVALID", "OPEN"}
      BY <1>1, <1>3 DEF Verdict, Claims, Bound, Timely
    <3>3. /\ w.build /\ w.key \notin {"none", "bad"} /\ w.token # NoToken /\ w.token.signed
          /\ Verdict(w) = Claims(w)
      BY <1>3, <3>2, Zenon DEF Verdict
    <3> QED
      BY <1>1, <3>1, <3>2, <3>3 DEF Usable
  <2>2. w.list.kind # "unverified" /\ ~Revoked(w) /\ w.token.dated /\ Bound(w) \in Usable
    BY <2>1 DEF Claims, Usable
  <2>3. /\ w.token.bound \notin {"malformed", "elsewhere"}
        /\ ~(w.cfg.strict /\ w.token.bound = "anywhere")
        /\ Timely(w) \in Usable
    BY <2>2 DEF Bound, Usable
  <2>4. w.token \in Token
    BY <2>1 DEF World
  <2>5. w.token.bound \in Bindings /\ w.token.grace \in Nat
    BY <2>4 DEF Token
  <2>6. w.now <= w.token.exp \/ (w.token.grace > 0 /\ w.now <= w.token.grace)
    BY <2>3, <2>5 DEF Timely, Usable
  <2>7. w.token.bound \in IF w.cfg.strict THEN {"here"} ELSE {"here", "anywhere"}
    BY <2>3, <2>5 DEF Bindings
  <2>8. w.list.kind = "verified" => \A id \in w.token.ids : id \notin w.list.ids
    BY <2>2 DEF Revoked
  <2> QED
    BY <2>1, <2>2, <2>6, <2>7, <2>8 DEF Entitled
<1> QED
  BY <1>2, <1>3

\* What a usable or an open guard allows a connector to be.
PaidFor(w, required) ==
    "enforced" \in {w.cfg.mode, w.env} =>
        /\ required # "unmapped"
        /\ Rank[required] <= IF w.token.tier \in PaidTiers THEN Rank[w.token.tier] ELSE 0

LEMMA AllowedIsPaidFor ==
    ASSUME NEW w \in World, AllowsScan(Guard(w)),
           NEW required \in PaidTiers \cup {"unmapped"},
           ConnectorAllowed(required, Guard(w))
    PROVE  PaidFor(w, required)
<1> SUFFICES ASSUME Mode(w) = "enforced" PROVE PaidFor(w, required)
  BY DEF Mode, PaidFor
<1> DEFINE g == Guard(w)
           tier == RuntimeTier(g, g.cfg)
<1>1. Verdict(w) \in Usable /\ g.mode = "enforced" /\ g.state \in Usable /\ g.dbtier = w.token.tier
  <2>1. Verdict(w) # "OPEN"
    BY DEF Verdict, Claims, Bound, Timely
  <2> QED
    BY <2>1, GuardFields DEF AllowsScan
<1>2. tier = IF w.token.tier # "" /\ w.token.tier \in PaidTiers THEN w.token.tier ELSE "community"
  BY <1>1 DEF RuntimeTier, TierOf, Usable
<1>3. tier \in PaidTiers
  BY <1>2 DEF PaidTiers
<1>4. tier # "open" /\ (w.token.tier \notin PaidTiers => tier = "community")
  BY <1>2, <1>3 DEF PaidTiers
<1>5. required # "unmapped" /\ Available(required, tier)
  BY <1>4 DEF ConnectorAllowed
<1>6. w.token.tier \in PaidTiers => tier = w.token.tier
  BY <1>2 DEF PaidTiers
<1>7. Rank[tier] >= Rank[required] /\ Rank["community"] = 0
  BY <1>5 DEF Available, Rank
<1>8. Rank[tier] \in Nat /\ Rank[required] \in Nat
  BY <1>3, <1>5 DEF Rank, PaidTiers
<1> QED
  BY <1>4, <1>5, <1>6, <1>7, <1>8 DEF PaidFor

\* The workers that a guard allows.
WithinCap(n, g) ==
    /\ g.mode = "open" => n <= 2
    /\ g.mode = "enforced" /\ g.workers > 0 => n <= g.workers
    /\ g.mode = "enforced" /\ g.dbtier = "" /\ g.workers = 0 => n <= 2

LEMMA SmallerBounds ==
    \A a, b \in Nat : Smaller(a, b) \in 0..a /\ Smaller(a, b) <= b
BY DEF Smaller

LEMMA ClampedWithinCap ==
    ASSUME NEW w \in World, AllowsScan(Guard(w)), NEW n \in Nat
    PROVE  /\ Clamped(n, Guard(w)) \in 0..n
           /\ WithinCap(Clamped(n, Guard(w)), Guard(w))
<1> DEFINE g == Guard(w)
<1>1. g.workers \in Nat /\ g.mode \in {"open", "enforced"}
  BY GuardFields DEF Mode
<1>2. CASE g.mode = "open"
  BY <1>1, <1>2 DEF Clamped, WithinCap, OpenModeWorkerCap, Smaller
<1>3. CASE g.mode = "enforced"
  <2>1. g.state \in Usable
    <3>1. Verdict(w) # "OPEN"
      BY <1>3, GuardFields DEF Verdict, Claims, Bound, Timely
    <3> QED
      BY <3>1, GuardFields DEF AllowsScan
  <2>2. CASE g.workers > 0
    <3>1. Clamped(n, g) = Smaller(n, g.workers)
      BY <1>3, <2>1, <2>2 DEF Clamped
    <3>2. Clamped(n, g) \in 0..n /\ Clamped(n, g) <= g.workers
      BY <1>1, <3>1, SmallerBounds
    <3>3. g.mode # "open" /\ g.workers # 0
      BY <1>1, <1>3, <2>2
    <3> QED
      BY <3>2, <3>3, Zenon DEF WithinCap
  <2>3. CASE g.workers = 0
    <3>1. \A t \in DOMAIN TierWorkers : TierWorkers[t] \in Nat
      BY DEF TierWorkers
    <3>2. Clamped(n, g) = IF RuntimeTier(g, g.cfg) \in DOMAIN TierWorkers
                          THEN Smaller(n, TierWorkers[RuntimeTier(g, g.cfg)]) ELSE n
      BY <1>3, <2>3 DEF Clamped
    <3>3. Clamped(n, g) \in 0..n
      BY <3>1, <3>2, SmallerBounds
    <3>4. g.dbtier = "" => Clamped(n, g) <= 2
      <4> SUFFICES ASSUME g.dbtier = "" PROVE Clamped(n, g) <= 2
        OBVIOUS
      <4>1. RuntimeTier(g, g.cfg) = "community"
        BY <1>3 DEF RuntimeTier
      <4>2. "community" \in DOMAIN TierWorkers /\ TierWorkers["community"] = 2
        BY DEF TierWorkers
      <4> QED
        BY <3>2, <4>1, <4>2, SmallerBounds
    <3>5. g.mode # "open" /\ ~(g.workers > 0)
      BY <1>3, <2>3
    <3> QED
      BY <3>3, <3>4, <3>5, Zenon DEF WithinCap
  <2> QED
    BY <1>1, <2>2, <2>3
<1> QED
  BY <1>1, <1>2, <1>3

-----------------------------------------------------------------------------
(* Type correctness.                                                       *)

\* A guard is that of the world it was made in.
GuardKept ==
    /\ born \in World
    /\ guard \in {NoGuard, Guard(born)}

TypeInv == TypeOK /\ GuardKept

LEMMA WorldMoves ==
    ASSUME NEW w \in World
    PROVE  /\ [w EXCEPT !.now = @ + 1] \in World
           /\ \A k \in Tokens \cup {NoToken} : [w EXCEPT !.token = k] \in World
           /\ \A k \in {"verified", "unverified"}, S \in SUBSET Ids :
                  [w EXCEPT !.list = [kind |-> k, ids |-> S]] \in World
           /\ \A c \in Configs : [w EXCEPT !.cfg = c] \in World
BY AdmissionAssumption DEF World

LEMMA TypeInit == Init => TypeInv
<1> SUFFICES ASSUME Init PROVE TypeInv
  OBVIOUS
<1>1. PinsTypeOK
  BY DEF Init, PinsInit, PinsTypeOK, Steps
<1>2. /\ world \in World /\ kind \in Kinds /\ guard = NoGuard /\ born = world
      /\ scanning \in BOOLEAN /\ blocked \subseteq Targets
  BY AdmissionAssumption DEF Init
<1>3. workers \in 0..Asked /\ changes \in 0..MaxChanges
  BY AdmissionAssumption DEF Init
<1> QED
  BY <1>1, <1>2, <1>3, Zenon DEF TypeInv, TypeOK, GuardKept

LEMMA AskingKeepsGuard ==
    ASSUME TypeInv, Ask
    PROVE  /\ born' \in World /\ guard' = Guard(born') /\ guard' = Asking
           /\ guard'.state \in States
<1>1. /\ born' \in World /\ guard' = Guard(born') /\ guard' = Asking
  BY GuardIsMade DEF TypeInv, TypeOK, GuardKept, Ask, Asking
<1> QED
  BY <1>1, GuardFields, VerdictIsState

LEMMA PinsTypeStep ==
    ASSUME PinsTypeOK, NEW t \in Targets, Connector(t) \/ Validate(t)
    PROVE  PinsTypeOK'
<1>0. HostOf[t] \in Hosts /\ mine[t] \subseteq Addresses
      /\ Lookup(HostOf[t]) \subseteq Addresses /\ Answer(t) \subseteq Addresses
  BY PinsAssumption DEF PinsTypeOK, Lookup, Answer
<1>1. CASE Validate(t)
  BY <1>0, <1>1 DEF PinsTypeOK, Steps, Validate
<1>2. CASE Refuse(t)
  BY <1>2 DEF PinsTypeOK, Steps, Refuse
<1>3. CASE Install(t)
  BY <1>0, <1>3 DEF PinsTypeOK, Steps, Install, Referred
<1>4. CASE Patch(t)
  BY <1>4 DEF PinsTypeOK, Steps, Patch
<1>5. CASE Open(t)
  BY <1>5 DEF PinsTypeOK, Steps, Open
<1>6. CASE Dial(t)
  BY <1>0, <1>6 DEF PinsTypeOK, Dial
<1>7. CASE Release(t)
  <2>1. LastHolder(HostOf[t]) \/ refs[HostOf[t]] - 1 \in Nat
    BY <1>0 DEF LastHolder, PinsTypeOK
  <2> QED
    BY <1>0, <1>7, <2>1 DEF PinsTypeOK, Steps, Release
<1>8. CASE Unpatch(t)
  BY <1>8 DEF PinsTypeOK, Steps, Unpatch
<1>9. CASE Close(t)
  BY <1>9 DEF PinsTypeOK, Steps, Close
<1> QED
  BY <1>1, <1>2, <1>3, <1>4, <1>5, <1>6, <1>7, <1>8, <1>9 DEF Connector

LEMMA TypeStep ==
    ASSUME TypeInv, [Next]_vars
    PROVE  TypeInv'
<1> USE DEF licenseVars, States
<1>0. PinsTypeOK /\ TypeOK /\ GuardKept /\ workers \in 0..Asked /\ Asked \in Nat
  BY AdmissionAssumption DEF TypeInv, TypeOK
<1>1. CASE UNCHANGED vars
  BY <1>1 DEF TypeInv, TypeOK, GuardKept, PinsTypeOK, vars, pinVars
<1>2. CASE StartScan
  <2>1. Granted \in 0..Asked
    <3>1. Clamped(workers, Asking) \in 0..workers
      <4>1. Ask /\ AllowsScan(Asking) /\ workers \in Nat
        BY <1>0, <1>2 DEF StartScan
      <4>2. born' \in World /\ Asking = Guard(born')
        BY <4>1, AskingKeepsGuard
      <4> QED
        BY <4>1, <4>2, ClampedWithinCap
    <3>2. Granted = Clamped(workers, Asking) \/ Granted = workers
      BY DEF Granted
    <3>3. \A a \in 0..Asked : \A n \in 0..a : n \in 0..Asked
      BY <1>0
    <3> QED
      BY <1>0, <3>1, <3>2, <3>3
  <2>2. PinsTypeOK'
    BY <1>0, <1>2 DEF StartScan, PinsTypeOK, pinVars
  <2> QED
    BY <1>0, <1>2, <2>1, <2>2, AskingKeepsGuard DEF TypeInv, TypeOK, GuardKept, StartScan
<1>3. CASE RefuseScan
  <2>1. PinsTypeOK'
    BY <1>0, <1>3 DEF RefuseScan, PinsTypeOK, pinVars
  <2> QED
    BY <1>0, <1>3, <2>1, AskingKeepsGuard DEF TypeInv, TypeOK, GuardKept, RefuseScan
<1>4. CASE EndScan
  BY <1>0, <1>4 DEF TypeInv, TypeOK, GuardKept, PinsTypeOK, EndScan, Steps
<1>5. CASE Restart
  <2>1. PinsTypeOK'
    BY <1>0, <1>5 DEF PinsTypeOK, Restart, Steps
  <2>2. workers' \in 0..Asked
    BY <1>0, <1>5 DEF Restart
  <2>3. /\ world' \in World /\ born' \in World /\ guard' = NoGuard /\ kind' \in Kinds
        /\ scanning' \in BOOLEAN /\ blocked' \subseteq Targets /\ changes' \in 0..MaxChanges
    BY <1>0, <1>5 DEF Restart, TypeOK
  <2> QED
    BY <2>1, <2>2, <2>3, Zenon DEF TypeInv, TypeOK, GuardKept
<1>6. CASE SaveConfig \/ Tick \/ Renew \/ Revoke
  <2>1. PinsTypeOK' /\ world' \in World /\ changes' \in 0..MaxChanges
        /\ UNCHANGED <<kind, guard, scanning, blocked, born>> /\ workers' \in 0..Asked
    <3>1. PinsTypeOK' /\ changes' \in 0..MaxChanges
          /\ UNCHANGED <<kind, guard, scanning, blocked, born>> /\ workers' \in 0..Asked
      BY <1>0, <1>6, AdmissionAssumption
         DEF SaveConfig, Tick, Renew, Revoke, Outside, PinsTypeOK, pinVars, TypeOK
    <3>2. world' \in World
      <4>0. world \in World
        BY <1>0 DEF TypeOK
      <4>1. CASE SaveConfig
        <5>1. PICK c \in Configs : world' = [world EXCEPT !.cfg = c]
          BY <4>1 DEF SaveConfig, Outside
        <5> QED
          BY <4>0, <5>1, WorldMoves
      <4>2. CASE Tick
        <5>1. world' = [world EXCEPT !.now = @ + 1]
          BY <4>2 DEF Tick, Outside
        <5> QED
          BY <4>0, <5>1, WorldMoves
      <4>3. CASE Renew
        <5>1. PICK k \in Tokens \cup {NoToken} : world' = [world EXCEPT !.token = k]
          BY <4>3 DEF Renew, Outside
        <5> QED
          BY <4>0, <5>1, WorldMoves
      <4>4. CASE Revoke
        <5>1. PICK k \in {"verified", "unverified"}, S \in SUBSET Ids :
                  world' = [world EXCEPT !.list = [kind |-> k, ids |-> S]]
          BY <4>4 DEF Revoke, Outside
        <5> QED
          BY <4>0, <5>1, WorldMoves
      <4> QED
        BY <1>6, <4>1, <4>2, <4>3, <4>4
    <3> QED
      BY <3>1, <3>2
  <2> QED
    BY <1>0, <2>1 DEF TypeInv, TypeOK, GuardKept
<1>7. CASE Resolve
  <2>1. PinsTypeOK'
    BY <1>0, <1>7 DEF Resolve, DnsChanges, PinsTypeOK
  <2> QED
    BY <1>0, <1>7, <2>1 DEF Resolve, TypeInv, TypeOK, GuardKept
<1>8. ASSUME NEW t \in Targets, RunTarget(t) \/ BlockTarget(t) \/ Work(t)
      PROVE  TypeInv'
  <2>1. PinsTypeOK'
    <3>1. CASE BlockTarget(t)
      BY <1>0, <3>1 DEF BlockTarget, PinsTypeOK, pinVars
    <3>2. CASE ~BlockTarget(t)
      BY <1>0, <1>8, <3>2, PinsTypeStep DEF RunTarget, Work
    <3> QED
      BY <3>1, <3>2
  <2>2. UNCHANGED <<licenseVars, scanning, workers>> /\ blocked' \subseteq Targets
    BY <1>0, <1>8 DEF RunTarget, BlockTarget, Work, TypeOK
  <2> QED
    BY <1>0, <2>1, <2>2 DEF TypeInv, TypeOK, GuardKept
<1> QED
  BY <1>1, <1>2, <1>3, <1>4, <1>5, <1>6, <1>7, <1>8 DEF Next

LEMMA TypeAlways == Spec => []TypeInv
BY TypeInit, TypeStep, PTL DEF Spec

\* Types: pins, references and threads, the world and the guard, workers in bounds.
THEOREM TypeCorrect == Spec => []TypeOK
<1>1. TypeInv => TypeOK
  BY DEF TypeInv
<1> QED
  BY <1>1, TypeAlways, PTL
-----------------------------------------------------------------------------
(* Licenses.                                                               *)

Pool == IF workers <= 1 THEN 1 ELSE workers

\* A scan runs under a guard that allows it, its connectors under one that allows
\* them, and no more of them than the pool has threads.
LicenseInv ==
    /\ scanning => guard = Guard(born) /\ AllowsScan(guard)
    /\ \A t \in Targets : pc[t] # "idle" => scanning /\ ConnectorAllowed(Requires[t], guard)
    /\ kind = "cli" /\ scanning => WithinCap(workers, guard)
    /\ Cardinality(Running) <= Pool

LEMMA NobodyRuns ==
    ASSUME \A t \in Targets : pc[t] = "idle", workers \in Nat
    PROVE  Cardinality(Running) <= Pool
<1>1. Running = {}
  BY DEF Running
<1> QED
  BY <1>1, FS_EmptySet DEF Pool

LEMMA LicenseInit == Init => LicenseInv
<1> SUFFICES ASSUME Init PROVE LicenseInv
  OBVIOUS
<1>1. (\A t \in Targets : pc[t] = "idle") /\ scanning = FALSE /\ workers \in Nat
  BY AdmissionAssumption DEF Init, PinsInit
<1> QED
  BY <1>1, NobodyRuns DEF LicenseInv

LEMMA RunningIsFinite == \A S : S \subseteq Targets => IsFiniteSet(S) /\ Cardinality(S) \in Nat
BY PinsAssumption, FS_Subset, FS_CardinalityType

\* What a thread does leaves the gates' answers, and gives no thread that was not
\* running a place.
LEMMA WorkKeepsLicense ==
    ASSUME TypeInv, LicenseInv, NEW t \in Targets, Work(t)
    PROVE  LicenseInv'
<1>1. /\ pc[t] # "idle" /\ pc[t] \notin Ended
      /\ pc' = pc \/ \E s \in Steps : pc' = [pc EXCEPT ![t] = s]
  BY DEF Work, Connector, Refuse, Install, Patch, Open, Dial, Release, Unpatch, Close, Ended, Steps
<1>2. UNCHANGED <<world, kind, guard, born, scanning, workers>>
  BY DEF Work, licenseVars
<1>3. pc \in [Targets -> Steps] /\ workers \in Nat
  BY AdmissionAssumption DEF TypeInv, TypeOK, PinsTypeOK
<1>4. \A u \in Targets : pc'[u] # "idle" => pc[u] # "idle"
  BY <1>1, <1>3
<1>5. Running' \subseteq Running /\ Running \subseteq Targets
  BY <1>1, <1>3 DEF Running
<1>6. Cardinality(Running') <= Cardinality(Running) /\ Cardinality(Running') \in Nat
      /\ Cardinality(Running) \in Nat
  BY <1>5, RunningIsFinite, FS_Subset
<1>7. Pool' = Pool /\ Pool \in Nat
  BY <1>2, <1>3 DEF Pool
<1>8. Cardinality(Running)' <= Pool'
  BY <1>6, <1>7 DEF LicenseInv
<1>9. /\ (scanning => guard = Guard(born) /\ AllowsScan(guard))'
      /\ (kind = "cli" /\ scanning => WithinCap(workers, guard))'
  BY <1>2 DEF LicenseInv
<1> QED
  BY <1>2, <1>4, <1>8, <1>9 DEF LicenseInv

LEMMA RunKeepsLicense ==
    ASSUME TypeInv, LicenseInv, NEW t \in Targets, RunTarget(t)
    PROVE  LicenseInv'
<1>1. scanning /\ pc[t] = "idle" /\ WorkerFree /\ ConnectorAllowed(Requires[t], Asking)
  BY DEF RunTarget, Queued
<1>2. UNCHANGED <<world, kind, guard, born, scanning, workers>>
  BY DEF RunTarget, licenseVars
<1>3. pc \in [Targets -> Steps] /\ workers \in Nat
  BY AdmissionAssumption DEF TypeInv, TypeOK, PinsTypeOK
<1>4. \A u \in Targets : u # t => pc'[u] = pc[u]
  BY <1>3 DEF RunTarget, Validate
<1>5. Asking = guard
  BY <1>1, GuardIsMade DEF LicenseInv, Asking
<1>6. Running' \subseteq Running \cup {t} /\ Running \subseteq Targets
  BY <1>4 DEF Running
<1>7. Cardinality(Running') <= Cardinality(Running) + 1 /\ Cardinality(Running') \in Nat
      /\ Cardinality(Running) \in Nat
  <2>1. IsFiniteSet(Running) /\ t \notin Running /\ Cardinality(Running) \in Nat
    BY <1>1, <1>6, RunningIsFinite DEF Running
  <2>2. IsFiniteSet(Running \cup {t}) /\ Cardinality(Running \cup {t}) = Cardinality(Running) + 1
    BY <2>1, FS_AddElement
  <2> QED
    BY <1>6, <2>1, <2>2, FS_Subset, FS_CardinalityType
<1>8. Pool' = Pool /\ Pool \in Nat /\ Cardinality(Running) < Pool
  BY <1>1, <1>2, <1>3 DEF Pool, WorkerFree
<1>9. Cardinality(Running)' <= Pool'
  BY <1>7, <1>8
<1>10. \A u \in Targets : pc'[u] # "idle" => scanning' /\ ConnectorAllowed(Requires[u], guard')
  BY <1>1, <1>2, <1>4, <1>5 DEF LicenseInv
<1>11. /\ (scanning => guard = Guard(born) /\ AllowsScan(guard))'
       /\ (kind = "cli" /\ scanning => WithinCap(workers, guard))'
  BY <1>2 DEF LicenseInv
<1> QED
  BY <1>9, <1>10, <1>11 DEF LicenseInv

\* A step that leaves the threads, the guard and the pool alone.
LEMMA LicenseFrame ==
    ASSUME LicenseInv, UNCHANGED <<pc, kind, guard, born, scanning, workers>>
    PROVE  LicenseInv'
BY DEF LicenseInv, Running, Pool

LEMMA StartKeepsLicense ==
    ASSUME TypeInv, TypeInv', LicenseInv, StartScan
    PROVE  LicenseInv'
<1>1. guard' = Guard(born') /\ guard' = Asking /\ born' \in World
  BY AskingKeepsGuard DEF StartScan
<1>2. AllowsScan(guard') /\ kind' = kind /\ pc' = pc /\ ~scanning /\ scanning'
  BY <1>1 DEF StartScan, pinVars
<1>3. \A t \in Targets : pc'[t] = "idle"
  BY <1>2 DEF LicenseInv
<1>4. workers \in Nat /\ workers' \in Nat
  BY AdmissionAssumption DEF TypeInv, TypeOK
<1>5. Cardinality(Running') <= Pool'
  <2>1. Running' = {}
    BY <1>3 DEF Running
  <2> QED
    BY <1>4, <2>1, FS_EmptySet DEF Pool
<1>6. kind = "cli" => WithinCap(workers', guard')
  <2>1. kind = "cli" => workers' = Clamped(workers, Guard(born'))
    BY <1>1 DEF StartScan, Granted
  <2> QED
    BY <1>1, <1>2, <1>4, <2>1, ClampedWithinCap
<1> QED
  BY <1>1, <1>2, <1>3, <1>5, <1>6 DEF LicenseInv

LEMMA LicenseStep ==
    ASSUME TypeInv, TypeInv', LicenseInv, [Next]_vars
    PROVE  LicenseInv'
<1> USE DEF licenseVars, pinVars
<1>0. workers' \in Nat
  BY AdmissionAssumption DEF TypeInv, TypeOK
<1>1. CASE UNCHANGED vars
  BY <1>1, LicenseFrame DEF vars
<1>2. CASE StartScan
  BY <1>2, StartKeepsLicense
<1>3. CASE RefuseScan \/ SaveConfig
  <2>1. ~scanning /\ ~scanning' /\ pc' = pc
    BY <1>3 DEF RefuseScan, SaveConfig, Outside, LicenseInv
  <2>2. \A t \in Targets : pc'[t] = "idle"
    BY <2>1 DEF LicenseInv
  <2>3. Running' = {}
    BY <2>2 DEF Running
  <2>4. Cardinality(Running)' <= Pool'
    BY <1>0, <2>3, FS_EmptySet DEF Pool
  <2> QED
    BY <2>1, <2>2, <2>4 DEF LicenseInv
<1>4. CASE EndScan \/ Restart
  <2>1. ~scanning' /\ \A t \in Targets : pc'[t] = "idle"
    BY <1>4 DEF EndScan, Restart
  <2>2. Running' = {}
    BY <2>1 DEF Running
  <2>3. Cardinality(Running)' <= Pool'
    BY <1>0, <2>2, FS_EmptySet DEF Pool
  <2> QED
    BY <2>1, <2>3 DEF LicenseInv
<1>5. CASE Tick \/ Renew \/ Revoke \/ Resolve
  BY <1>5, LicenseFrame DEF Tick, Renew, Revoke, Outside, Resolve, DnsChanges
<1>6. ASSUME NEW t \in Targets, RunTarget(t) \/ BlockTarget(t) \/ Work(t)
      PROVE  LicenseInv'
  BY <1>6, RunKeepsLicense, WorkKeepsLicense, LicenseFrame DEF BlockTarget
<1> QED
  BY <1>1, <1>2, <1>3, <1>4, <1>5, <1>6 DEF Next

LEMMA LicenseAlways == Spec => [](TypeInv /\ LicenseInv)
BY TypeInit, TypeStep, LicenseInit, LicenseStep, PTL DEF Spec

\* No scan runs without a license good in every respect, whatever the order of
\* _evaluate's checks.
THEOREM ScansAllEntitled == Spec => []ScansAreEntitled
<1>1. TypeInv /\ LicenseInv => ScansAreEntitled
  BY AllowedIsEntitled DEF TypeInv, GuardKept, LicenseInv, ScansAreEntitled
<1> QED
  BY <1>1, LicenseAlways, PTL

\* No connector works beyond the tier that was paid for.
THEOREM ConnectorsAllPaidFor == Spec => []ConnectorsArePaidFor
<1>1. TypeInv /\ LicenseInv => ConnectorsArePaidFor
  <2> SUFFICES ASSUME TypeInv, LicenseInv, NEW t \in Targets, pc[t] # "idle"
               PROVE  PaidFor(born, Requires[t])
    BY DEF ConnectorsArePaidFor, PaidFor
  <2>1. /\ born \in World /\ AllowsScan(Guard(born))
        /\ ConnectorAllowed(Requires[t], Guard(born))
        /\ Requires[t] \in PaidTiers \cup {"unmapped"}
    BY AdmissionAssumption DEF TypeInv, GuardKept, LicenseInv
  <2> QED
    BY <2>1, AllowedIsPaidFor
<1> QED
  BY <1>1, LicenseAlways, PTL

\* A command line never scans more targets at once than its license allows.
THEOREM WorkersAllWithinCap == Spec => []WorkersWithinCap
<1>1. TypeInv /\ LicenseInv => WorkersWithinCap
  <2> SUFFICES ASSUME TypeInv, LicenseInv, kind = "cli", scanning
               PROVE  WithinCap(Cardinality(Running), guard)
    BY DEF WorkersWithinCap, WithinCap
  <2>1. /\ WithinCap(workers, guard) /\ Cardinality(Running) <= Pool
        /\ workers \in Nat /\ Cardinality(Running) \in Nat
        /\ guard.workers \in Nat
    <3>1. Running \subseteq Targets
      BY DEF Running
    <3>2. born \in World /\ guard = Guard(born)
      BY DEF TypeInv, GuardKept, LicenseInv
    <3> QED
      BY <3>1, <3>2, RunningIsFinite, GuardFields, AdmissionAssumption
         DEF TypeInv, TypeOK, LicenseInv
  <2>2. \A n, c, m \in Nat : n <= (IF c <= 1 THEN 1 ELSE c) /\ c <= m /\ m > 0 => n <= m
    OBVIOUS
  <2>3. \A m \in Nat : workers <= m /\ m > 0 => Cardinality(Running) <= m
    BY <2>1, <2>2 DEF Pool
  <2>4. workers <= 2 => Cardinality(Running) <= 2
    BY <2>3
  <2>5. guard.workers > 0 /\ workers <= guard.workers => Cardinality(Running) <= guard.workers
    BY <2>1, <2>3
  <2>6. WithinCap(workers, guard)
    BY <2>1
  <2> QED
    BY <2>4, <2>5, <2>6, Zenon DEF WithinCap
<1> QED
  BY <1>1, LicenseAlways, PTL
-----------------------------------------------------------------------------
(* Pins.                                                                   *)

Holders(h) == {t \in Targets : holds[t] /\ HostOf[t] = h}

\* Where a thread is says whether it holds a pin, and what it found good.
ThreadInv(t) ==
    /\ pc[t] \in {"installed", "patched"} => holds[t]
    /\ holds[t] => pc[t] \in {"installed", "patched", "live"} /\ t \notin Carried
    /\ pc[t] = "validated" => t \notin Carried
    /\ pc[t] = "live" /\ ~holds[t] => t \in Carried
    /\ pc[t] \in {"validated", "installed", "patched", "live"} => mine[t] # {}
    /\ pc[t] = "idle" => peers[t] = {}
    /\ peers[t] \subseteq mine[t]
    /\ t \notin OptsIn => mine[t] \subseteq Global
    /\ t \in blocked => pc[t] = "idle"

\* The counts are those of the holders, who agree on the addresses.
TableInv ==
    /\ \A h \in Hosts : refs[h] = Cardinality(Holders(h)) /\ (pins[h] = {} <=> Holders(h) = {})
    /\ \A t \in Targets : holds[t] => pins[HostOf[t]] = mine[t]

\* The replacement is there for whoever is past Patch, and somebody is left to
\* take it away.
PatchInv ==
    /\ \A t \in Targets : holds[t] /\ pc[t] \in {"patched", "live"} => patched
    /\ patched => \E t \in Targets : holds[t] \/ pc[t] = "released"

PinInv == (\A t \in Targets : ThreadInv(t)) /\ TableInv /\ PatchInv

LEMMA HoldersFinite ==
    \A h : /\ IsFiniteSet(Holders(h)) /\ Cardinality(Holders(h)) \in Nat
           /\ Cardinality(Holders(h)) = 0 <=> Holders(h) = {}
<1> TAKE h
<1>1. Holders(h) \subseteq Targets
  BY DEF Holders
<1> QED
  BY <1>1, PinsAssumption, FS_Subset, FS_CardinalityType, FS_EmptySet

LEMMA NobodyHolds ==
    ASSUME \A t \in Targets : ~holds[t]
    PROVE  \A h : Holders(h) = {} /\ Cardinality(Holders(h)) = 0
BY HoldersFinite DEF Holders

\* A table without holders is empty.
LEMMA EmptyTable ==
    ASSUME \A t \in Targets : ~holds[t], refs = [h \in Hosts |-> 0], pins = [h \in Hosts |-> {}]
    PROVE  TableInv
BY NobodyHolds DEF TableInv

LEMMA PinInit == Init => PinInv
<1> SUFFICES ASSUME Init PROVE PinInv
  OBVIOUS
<1>1. /\ \A t \in Targets : pc[t] = "idle" /\ ~holds[t] /\ mine[t] = {} /\ peers[t] = {}
      /\ refs = [h \in Hosts |-> 0] /\ pins = [h \in Hosts |-> {}] /\ ~patched
  BY DEF Init, PinsInit
<1> QED
  BY <1>1, EmptyTable DEF PinInv, ThreadInv, PatchInv

\* A step that leaves table and threads alone.
LEMMA PinFrame ==
    ASSUME PinInv, UNCHANGED <<pins, refs, patched, pc, mine, holds, peers>>, blocked' \in {blocked, {}}
    PROVE  PinInv'
<1>1. \A t \in Targets : ThreadInv(t)'
  BY DEF PinInv, ThreadInv
<1>2. \A h : Holders(h)' = Holders(h)
  BY DEF Holders
<1>3. TableInv' /\ PatchInv'
  BY <1>2 DEF PinInv, TableInv, PatchInv
<1> QED
  BY <1>1, <1>3 DEF PinInv

\* The types of what the steps of a thread read and write.
LEMMA PinTypes ==
    ASSUME TypeInv
    PROVE  /\ pc \in [Targets -> Steps] /\ mine \in [Targets -> SUBSET Addresses]
           /\ holds \in [Targets -> BOOLEAN] /\ peers \in [Targets -> SUBSET Addresses]
           /\ pins \in [Hosts -> SUBSET Addresses] /\ refs \in [Hosts -> Nat]
           /\ patched \in BOOLEAN /\ \A t \in Targets : HostOf[t] \in Hosts
BY PinsAssumption DEF TypeInv, TypeOK, PinsTypeOK

\* Steps in which t moves on without a change to the table.
LEMMA MoveKeepsTable ==
    ASSUME TypeInv, PinInv, UNCHANGED <<pins, refs, holds>>,
           \A t \in Targets : holds[t] => mine'[t] = mine[t]
    PROVE  TableInv'
<1>1. \A h : Holders(h)' = Holders(h)
  BY DEF Holders
<1> QED
  BY <1>1 DEF PinInv, TableInv

LEMMA ValidateKeepsPins ==
    ASSUME TypeInv, PinInv, NEW t \in Targets, Validate(t), t \notin blocked, blocked' = blocked
    PROVE  PinInv'
<1> USE PinTypes
<1>1. pc[t] = "idle" /\ ~holds[t] /\ peers[t] = {} /\ UNCHANGED <<pins, refs, patched, holds, peers>>
  BY DEF Validate, PinInv, ThreadInv
<1>2. \A u \in Targets : u # t => pc'[u] = pc[u] /\ mine'[u] = mine[u]
  BY DEF Validate
<1>3. ThreadInv(t)'
  <2>1. CASE Acceptable(t, Lookup(HostOf[t]))
    <3>1. /\ mine'[t] = Lookup(HostOf[t])
          /\ pc'[t] = IF t \in Carried THEN "live" ELSE "validated"
      BY <2>1 DEF Validate
    <3> QED
      BY <1>1, <2>1, <3>1 DEF ThreadInv, Acceptable
  <2>2. CASE ~Acceptable(t, Lookup(HostOf[t]))
    <3>1. mine' = mine /\ pc'[t] = "refused"
      BY <2>2 DEF Validate
    <3> QED
      BY <1>1, <3>1 DEF ThreadInv, PinInv
  <2> QED
    BY <2>1, <2>2
<1>4. \A u \in Targets : ThreadInv(u)'
  BY <1>1, <1>2, <1>3 DEF PinInv, ThreadInv
<1>5. TableInv'
  BY <1>1, <1>2, MoveKeepsTable
<1>6. PatchInv'
  <2>1. \A u \in Targets : holds[u] => pc'[u] = pc[u]
    BY <1>1, <1>2
  <2>2. \A u \in Targets : pc[u] = "released" => pc'[u] = "released"
    BY <1>1, <1>2
  <2> QED
    BY <1>1, <2>1, <2>2 DEF PinInv, PatchInv
<1> QED
  BY <1>4, <1>5, <1>6 DEF PinInv

LEMMA InstallKeepsPins ==
    ASSUME TypeInv, PinInv, NEW t \in Targets, Install(t), blocked' = blocked
    PROVE  PinInv'
<1> USE PinTypes
<1> DEFINE h == HostOf[t]
<1>1. /\ pc[t] = "validated" /\ ~holds[t] /\ mine[t] # {} /\ t \notin Carried
      /\ pins[h] \in {{}, mine[t]} /\ t \notin blocked
  BY DEF Install, Conflicts, PinInv, ThreadInv
<1>2. /\ \A u \in Targets : u # t => pc'[u] = pc[u] /\ holds'[u] = holds[u]
      /\ pc'[t] = "installed" /\ holds'[t] = TRUE
      /\ UNCHANGED <<mine, peers, patched>>
  BY DEF Install
<1>3. /\ pins'[h] = mine[t] /\ refs'[h] = Referred(h)
      /\ \A k \in Hosts : k # h => pins'[k] = pins[k] /\ refs'[k] = refs[k]
  BY <1>1 DEF Install
<1>4. \A u \in Targets : ThreadInv(u)'
  <2>1. ThreadInv(t)'
    BY <1>1, <1>2 DEF PinInv, ThreadInv
  <2>2. ASSUME NEW u \in Targets, u # t PROVE ThreadInv(u)'
    BY <1>2, <2>2 DEF PinInv, ThreadInv
  <2> QED
    BY <2>1, <2>2
<1>5. TableInv'
  <2>1. Holders(h)' = Holders(h) \cup {t} /\ t \notin Holders(h)
    BY <1>1, <1>2 DEF Holders
  <2>2. \A k : k # h => Holders(k)' = Holders(k)
    BY <1>2 DEF Holders
  <2>3. Cardinality(Holders(h)') = Cardinality(Holders(h)) + 1
    BY <2>1, HoldersFinite, FS_AddElement
  <2>4. refs'[h] = Cardinality(Holders(h)')
    <3>1. refs[h] = Cardinality(Holders(h)) /\ (pins[h] = {} <=> Holders(h) = {})
      BY DEF PinInv, TableInv
    <3>2. CASE pins[h] = {}
      BY <1>3, <2>3, <3>1, <3>2, HoldersFinite DEF Referred
    <3>3. CASE pins[h] # {}
      BY <1>3, <2>3, <3>1, <3>3 DEF Referred
    <3> QED
      BY <3>2, <3>3
  <2>5. pins'[h] # {} /\ Holders(h)' # {}
    BY <1>1, <1>3, <2>1
  <2>6. \A k \in Hosts : k # h =>
            refs'[k] = Cardinality(Holders(k)') /\ (pins'[k] = {} <=> Holders(k)' = {})
    BY <1>3, <2>2 DEF PinInv, TableInv
  <2>7. \A u \in Targets : holds'[u] => pins'[HostOf[u]] = mine'[u]
    <3> SUFFICES ASSUME NEW u \in Targets, u # t, holds[u] PROVE pins'[HostOf[u]] = mine[u]
      BY <1>2, <1>3
    <3>1. pins[HostOf[u]] = mine[u] /\ mine[u] # {}
      BY DEF PinInv, TableInv, ThreadInv
    <3> QED
      BY <1>1, <1>3, <3>1
  <2> QED
    BY <2>4, <2>5, <2>6, <2>7 DEF TableInv
<1>6. PatchInv'
  BY <1>1, <1>2 DEF PinInv, PatchInv
<1> QED
  BY <1>4, <1>5, <1>6 DEF PinInv

LEMMA ReleaseKeepsPins ==
    ASSUME TypeInv, PinInv, NEW t \in Targets, Release(t), blocked' = blocked
    PROVE  PinInv'
<1> USE PinTypes
<1> DEFINE h == HostOf[t]
<1>1. pc[t] \in {"patched", "live"} /\ holds[t] /\ t \notin blocked
  BY DEF Release, PinInv, ThreadInv
<1>2. /\ \A u \in Targets : u # t => pc'[u] = pc[u] /\ holds'[u] = holds[u]
      /\ pc'[t] = "released" /\ holds'[t] = FALSE
      /\ UNCHANGED <<mine, peers, patched>>
  BY DEF Release
<1>3. \A k \in Hosts : k # h => pins'[k] = pins[k] /\ refs'[k] = refs[k]
  BY DEF Release
<1>4. \A u \in Targets : ThreadInv(u)'
  <2>1. ThreadInv(t)'
    BY <1>1, <1>2 DEF PinInv, ThreadInv
  <2>2. ASSUME NEW u \in Targets, u # t PROVE ThreadInv(u)'
    BY <1>2, <2>2 DEF PinInv, ThreadInv
  <2> QED
    BY <2>1, <2>2
<1>5. TableInv'
  <2>1. Holders(h)' = Holders(h) \ {t} /\ t \in Holders(h)
    BY <1>1, <1>2 DEF Holders
  <2>2. \A k : k # h => Holders(k)' = Holders(k)
    BY <1>2 DEF Holders
  <2>3. Cardinality(Holders(h)') = Cardinality(Holders(h)) - 1
    <3>1. IsFiniteSet(Holders(h))
      BY HoldersFinite
    <3>2. Cardinality(Holders(h) \ {t}) = Cardinality(Holders(h)) - 1
      BY <2>1, <3>1, FS_RemoveElement, ZenonT(40)
    <3> QED
      BY <2>1, <3>2
  <2>4. refs[h] = Cardinality(Holders(h)) /\ refs[h] # 0 /\ refs[h] \in Nat
        /\ Cardinality(Holders(h)') \in Nat
        /\ (Cardinality(Holders(h)') = 0 <=> Holders(h)' = {}) /\ pins[h] # {}
    <3>1. IsFiniteSet(Holders(h)')
      BY <2>1, HoldersFinite, FS_Subset
    <3> QED
      BY <2>1, <3>1, HoldersFinite, FS_CardinalityType, FS_EmptySet, ZenonT(40) DEF PinInv, TableInv
  <2>5. refs'[h] = Cardinality(Holders(h)') /\ (pins'[h] = {} <=> Holders(h)' = {})
    <3>1. CASE LastHolder(h)
      <4>1. refs'[h] = 0 /\ pins'[h] = {}
        BY <3>1 DEF Release
      <4>2. Cardinality(Holders(h)') = 0
        BY <2>3, <2>4, <3>1 DEF LastHolder
      <4> QED
        BY <2>4, <4>1, <4>2
    <3>2. CASE ~LastHolder(h)
      <4>1. refs'[h] = refs[h] - 1 /\ pins'[h] = pins[h]
        BY <3>2 DEF Release
      <4>2. Cardinality(Holders(h)') # 0
        BY <2>3, <2>4, <3>2 DEF LastHolder
      <4> QED
        BY <2>3, <2>4, <4>1, <4>2
    <3> QED
      BY <3>1, <3>2
  <2>6. \A k \in Hosts : k # h =>
            refs'[k] = Cardinality(Holders(k)') /\ (pins'[k] = {} <=> Holders(k)' = {})
    BY <1>3, <2>2 DEF PinInv, TableInv
  <2>7. \A u \in Targets : holds'[u] => pins'[HostOf[u]] = mine'[u]
    <3> SUFFICES ASSUME NEW u \in Targets, u # t, holds[u] PROVE pins'[HostOf[u]] = mine[u]
      BY <1>2
    <3>1. pins[HostOf[u]] = mine[u]
      BY DEF PinInv, TableInv
    <3>2. CASE HostOf[u] # h
      BY <1>3, <3>1, <3>2
    <3>3. CASE HostOf[u] = h
      <4>1. u \in Holders(h)'
        BY <1>2, <3>3 DEF Holders
      <4>2. Cardinality(Holders(h)') # 0
        BY <2>4, <4>1
      <4>3. ~LastHolder(h)
        BY <2>3, <2>4, <4>2 DEF LastHolder
      <4> QED
        BY <3>1, <3>3, <4>3 DEF Release
    <3> QED
      BY <3>2, <3>3
  <2> QED
    BY <2>5, <2>6, <2>7 DEF TableInv
<1>6. PatchInv'
  BY <1>1, <1>2 DEF PinInv, PatchInv
<1> QED
  BY <1>4, <1>5, <1>6 DEF PinInv

LEMMA UnpatchKeepsPins ==
    ASSUME TypeInv, PinInv, NEW t \in Targets, Unpatch(t), blocked' = blocked
    PROVE  PinInv'
<1> USE PinTypes
<1>1. /\ pc[t] = "released" /\ ~holds[t] /\ UNCHANGED <<pins, refs, mine, holds, peers>>
      /\ patched' = (patched /\ ~NobodyPins) /\ pc'[t] = "over"
      /\ \A u \in Targets : u # t => pc'[u] = pc[u]
  BY DEF Unpatch, PinInv, ThreadInv
<1>2. \A u \in Targets : ThreadInv(u)'
  <2>1. ThreadInv(t)'
    BY <1>1 DEF PinInv, ThreadInv
  <2>2. ASSUME NEW u \in Targets, u # t PROVE ThreadInv(u)'
    BY <1>1, <2>2 DEF PinInv, ThreadInv
  <2> QED
    BY <2>1, <2>2
<1>3. TableInv'
  BY <1>1, MoveKeepsTable
<1>4. PatchInv'
  <2>1. \A u \in Targets : holds[u] => ~NobodyPins
    <3> SUFFICES ASSUME NEW u \in Targets, holds[u] PROVE pins[HostOf[u]] # {}
      BY DEF NobodyPins
    <3>1. u \in Holders(HostOf[u])
      BY DEF Holders
    <3> QED
      BY <3>1 DEF PinInv, TableInv
  <2>2. \A u \in Targets : holds'[u] /\ pc'[u] \in {"patched", "live"} => patched'
    BY <1>1, <2>1 DEF PinInv, PatchInv
  <2>3. ASSUME patched' PROVE \E u \in Targets : holds'[u]
    <3>1. PICK k \in Hosts : pins[k] # {}
      BY <1>1, <2>3 DEF NobodyPins
    <3>2. Holders(k) # {}
      BY <3>1 DEF PinInv, TableInv
    <3> QED
      BY <1>1, <3>2 DEF Holders
  <2> QED
    BY <2>2, <2>3 DEF PatchInv
<1> QED
  BY <1>2, <1>3, <1>4 DEF PinInv

\* A client dials what its own target found good: what it carries, or what the
\* table has for its host.
LEMMA AnswerIsMine ==
    ASSUME TypeInv, PinInv, NEW t \in Targets, pc[t] = "live"
    PROVE  Answer(t) = mine[t]
<1>1. CASE t \in Carried
  BY <1>1 DEF Answer
<1>2. CASE t \notin Carried
  <2>1. holds[t] /\ mine[t] # {}
    BY <1>2 DEF PinInv, ThreadInv
  <2>2. patched /\ pins[HostOf[t]] = mine[t]
    BY <2>1 DEF PinInv, PatchInv, TableInv
  <2> QED
    BY <1>2, <2>1, <2>2 DEF Answer, Lookup
<1> QED
  BY <1>1, <1>2

LEMMA ConnectorKeepsPins ==
    ASSUME TypeInv, PinInv, NEW t \in Targets, Connector(t), blocked' = blocked
    PROVE  PinInv'
<1> USE PinTypes
<1>1. CASE Refuse(t) \/ Patch(t) \/ Open(t) \/ Close(t)
  <2>1. /\ UNCHANGED <<pins, refs, mine, holds, peers>>
        /\ \A u \in Targets : u # t => pc'[u] = pc[u]
        /\ pc[t] # "released" /\ pc[t] # "idle"
    BY <1>1 DEF Refuse, Patch, Open, Close
  <2>2. /\ patched => patched'
        /\ \/ pc[t] = "validated" /\ pc'[t] = "refused" /\ patched' = patched
           \/ pc[t] = "installed" /\ pc'[t] = "patched" /\ patched'
           \/ pc[t] = "patched" /\ pc'[t] = "live" /\ patched' = patched
           \/ pc[t] = "live" /\ ~holds[t] /\ pc'[t] = "over" /\ patched' = patched
    BY <1>1 DEF Refuse, Patch, Open, Close
  <2>3. \A u \in Targets : ThreadInv(u)'
    <3>1. ThreadInv(t)'
      BY <2>1, <2>2 DEF PinInv, ThreadInv
    <3>2. ASSUME NEW u \in Targets, u # t PROVE ThreadInv(u)'
      BY <2>1, <3>2 DEF PinInv, ThreadInv
    <3> QED
      BY <3>1, <3>2
  <2>4. TableInv'
    BY <2>1, MoveKeepsTable
  <2>5. PatchInv'
    <3>1. ~holds[t] \/ pc[t] # "live"
      BY <2>2, <1>1 DEF Refuse, Patch, Open, Close, PinInv, ThreadInv
    <3>2. \A u \in Targets : holds'[u] /\ pc'[u] \in {"patched", "live"} => patched'
      BY <2>1, <2>2 DEF PinInv, PatchInv, ThreadInv
    <3>3. patched' => \E u \in Targets : holds'[u] \/ pc'[u] = "released"
      BY <2>1, <2>2 DEF PinInv, PatchInv, ThreadInv
    <3> QED
      BY <3>2, <3>3 DEF PatchInv
  <2> QED
    BY <2>3, <2>4, <2>5 DEF PinInv
<1>2. CASE Dial(t)
  <2>1. PICK a \in Answer(t) : peers' = [peers EXCEPT ![t] = @ \cup {a}]
    BY <1>2 DEF Dial
  <2>2. pc[t] = "live" /\ UNCHANGED <<pins, refs, patched, pc, mine, holds>>
    BY <1>2 DEF Dial
  <2>3. a \in mine[t]
    BY <2>1, <2>2, AnswerIsMine
  <2>4. \A u \in Targets : ThreadInv(u)'
    <3>1. ThreadInv(t)'
      BY <2>1, <2>2, <2>3 DEF PinInv, ThreadInv
    <3>2. ASSUME NEW u \in Targets, u # t PROVE ThreadInv(u)'
      BY <2>1, <2>2, <3>2 DEF PinInv, ThreadInv
    <3> QED
      BY <3>1, <3>2
  <2>5. TableInv' /\ PatchInv'
    BY <2>2, MoveKeepsTable DEF PinInv, PatchInv
  <2> QED
    BY <2>4, <2>5 DEF PinInv
<1> QED
  BY <1>1, <1>2, InstallKeepsPins, ReleaseKeepsPins, UnpatchKeepsPins DEF Connector

LEMMA EndKeepsPins ==
    ASSUME TypeInv, PinInv, EndScan
    PROVE  PinInv'
<1> USE PinTypes
<1>1. \A t \in Targets : ~holds[t] /\ pc[t] # "released"
  BY DEF EndScan, PinInv, ThreadInv, Ended
<1>2. ~patched
  BY <1>1 DEF PinInv, PatchInv
<1>3. /\ \A t \in Targets : pc'[t] = "idle" /\ mine'[t] = {} /\ peers'[t] = {}
      /\ UNCHANGED <<pins, refs, patched, holds>>
  BY DEF EndScan
<1>4. \A t \in Targets : ThreadInv(t)'
  BY <1>1, <1>3 DEF ThreadInv
<1>5. TableInv' /\ PatchInv'
  BY <1>1, <1>2, <1>3, MoveKeepsTable DEF PatchInv
<1> QED
  BY <1>4, <1>5 DEF PinInv

LEMMA PinStep ==
    ASSUME TypeInv, PinInv, [Next]_vars
    PROVE  PinInv'
<1> USE DEF licenseVars, pinVars
<1>1. CASE UNCHANGED vars
  BY <1>1, PinFrame DEF vars
<1>2. CASE StartScan \/ RefuseScan \/ SaveConfig \/ Tick \/ Renew \/ Revoke \/ Resolve
  BY <1>2, PinFrame
     DEF StartScan, RefuseScan, SaveConfig, Tick, Renew, Revoke, Outside, Resolve, DnsChanges
<1>3. CASE EndScan
  BY <1>3, EndKeepsPins
<1>4. CASE Restart
  <2>1. /\ \A t \in Targets : pc'[t] = "idle" /\ ~holds'[t] /\ mine'[t] = {} /\ peers'[t] = {}
        /\ refs' = [h \in Hosts |-> 0] /\ pins' = [h \in Hosts |-> {}] /\ ~patched'
    BY <1>4 DEF Restart
  <2>2. \A h : Holders(h)' = {} /\ Cardinality(Holders(h)') = 0
    BY <2>1, FS_EmptySet DEF Holders
  <2>3. TableInv'
    BY <2>1, <2>2 DEF TableInv
  <2> QED
    BY <2>1, <2>3 DEF PinInv, ThreadInv, PatchInv
<1>5. ASSUME NEW t \in Targets, RunTarget(t) PROVE PinInv'
  BY <1>5, ValidateKeepsPins DEF RunTarget, Queued
<1>6. ASSUME NEW t \in Targets, BlockTarget(t) PROVE PinInv'
  <2>1. pc[t] = "idle" /\ blocked' = blocked \cup {t}
        /\ UNCHANGED <<pins, refs, patched, pc, mine, holds, peers>>
    BY <1>6 DEF BlockTarget, Queued
  <2>2. \A u \in Targets : ThreadInv(u)'
    BY <2>1 DEF PinInv, ThreadInv
  <2>3. TableInv' /\ PatchInv'
    BY <2>1, MoveKeepsTable DEF PinInv, PatchInv
  <2> QED
    BY <2>2, <2>3 DEF PinInv
<1>7. ASSUME NEW t \in Targets, Work(t) PROVE PinInv'
  BY <1>7, ConnectorKeepsPins DEF Work
<1> QED
  BY <1>1, <1>2, <1>3, <1>4, <1>5, <1>6, <1>7 DEF Next

LEMMA PinAlways == Spec => [](TypeInv /\ PinInv)
BY TypeInit, TypeStep, PinInit, PinStep, PTL DEF Spec

\* However DNS changes and targets come and go, no client dials an address that
\* was not found good for its own target.
THEOREM PeersAllValidated == Spec => []PeersAreValidated
<1>1. PinInv => PeersAreValidated
  BY DEF PinInv, ThreadInv, PeersAreValidated
<1> QED
  BY <1>1, PinAlways, PTL

\* The replaced getaddrinfo and the table of pins end with the last target.
THEOREM NothingEverStaysPinned == Spec => []NothingStaysPinned
<1>1. TypeInv /\ PinInv => NothingStaysPinned
  <2> SUFFICES ASSUME TypeInv, PinInv, \A t \in Targets : pc[t] \in Ended \cup {"idle"}
               PROVE  NobodyPins /\ ~patched /\ refs = [h \in Hosts |-> 0]
    BY DEF NothingStaysPinned
  <2>1. \A t \in Targets : ~holds[t] /\ pc[t] # "released"
    BY DEF PinInv, ThreadInv, Ended
  <2>2. \A h \in Hosts : pins[h] = {} /\ refs[h] = 0
    BY <2>1, NobodyHolds DEF PinInv, TableInv
  <2>3. ~patched
    BY <2>1 DEF PinInv, PatchInv
  <2>4. refs = [h \in Hosts |-> 0]
    BY <2>2, PinTypes
  <2> QED
    BY <2>2, <2>3, <2>4 DEF NobodyPins
<1> QED
  BY <1>1, PinAlways, PTL
=============================================================================
