------------------------------ MODULE Licensing ------------------------------
(***************************************************************************)
(* What a license allows (core/licensing): the verdict of                  *)
(* LicenseGuard._evaluate on the world it finds, the product tier that     *)
(* follows, and the three gates that ask for it: may a scan start, may a   *)
(* target's connector run, with how many workers.                          *)
(*                                                                         *)
(* The guard is made once in the life of a process and keeps its answer,   *)
(* and the configuration it was made from, while both may change.          *)
(*                                                                         *)
(* A world is a record                                                     *)
(*   cfg      the YAML: mode, strict (machine_bind_strict), tier           *)
(*            (effective_tier)                                             *)
(*   env      DATA_BOAR_LICENSE_MODE                                       *)
(*   build    do the digest and the release manifest match?                *)
(*   key      the verification key: "none", "bad" or "good"                *)
(*   token    the license file, a record of Tokens or NoToken              *)
(*   list     the revocation list: kind and the ids it names               *)
(*   now      the time                                                     *)
(* Signatures, fingerprints and JWT parsing are the fields signed, bound   *)
(* and dated of a token; customer names and watermarks are left out.       *)
(***************************************************************************)
EXTENDS Naturals

CONSTANTS
    Ids,        \* license, token and key ids
    NoToken

PaidTiers == {"community", "std", "pro", "pro_plus", "enterprise", "partner"}
Labels    == PaidTiers \cup {"", "other"}

Rank == [community |-> 0, std |-> 1, pro |-> 2, pro_plus |-> 3,
         enterprise |-> 4, partner |-> 5, open |-> 99]

Bindings == {"anywhere", "here", "elsewhere", "malformed"}
Usable   == {"VALID", "GRACE"}

Token ==
    [signed : BOOLEAN, dated : BOOLEAN, ids : SUBSET Ids, exp : Nat, grace : Nat,
     bound : Bindings, tier : Labels, workers : Nat]

Config == [mode : {"open", "enforced"}, strict : BOOLEAN, tier : Labels]

World ==
    [cfg : Config, env : {"open", "enforced"}, build : BOOLEAN, key : {"none", "bad", "good"},
     token : Token \cup {NoToken},
     list : [kind : {"unset", "unverified", "verified"}, ids : SUBSET Ids], now : Nat]

ASSUME TokenAssumption == NoToken \notin Token

Smaller(a, b) == IF a < b THEN a ELSE b

-----------------------------------------------------------------------------
(* The verdict.                                                            *)

\* The environment can only escalate.
Mode(w) == IF "enforced" \in {w.cfg.mode, w.env} THEN "enforced" ELSE "open"

\* The end of _evaluate: exp first, then dbgrace.
Timely(w) ==
    IF w.now <= w.token.exp THEN "VALID"
    ELSE IF w.token.grace # 0 /\ w.now <= w.token.grace THEN "GRACE"
    ELSE "EXPIRED"

\* dbmfp and machine_bind_strict.
Bound(w) ==
    IF w.token.bound = "malformed" THEN "INVALID"
    ELSE IF w.token.bound = "elsewhere" THEN "MACHINE_MISMATCH"
    ELSE IF w.cfg.strict /\ w.token.bound = "anywhere" THEN "UNLICENSED"
    ELSE Timely(w)

Revoked(w) == w.list.kind = "verified" /\ w.token.ids \cap w.list.ids # {}

\* Mutant of Claims: a list that does not verify is an empty list.
ClaimsListOptional(w) ==
    IF Revoked(w) THEN "REVOKED"
    ELSE IF ~w.token.dated THEN "INVALID"
    ELSE Bound(w)

\* What the claims of a token with a good signature come to.
Claims(w) ==
    IF w.list.kind = "unverified" THEN "TAMPERED"
    ELSE IF Revoked(w) THEN "REVOKED"
    ELSE IF ~w.token.dated THEN "INVALID"
    ELSE Bound(w)

\* Build, key and token come before the claims.
Verdict(w) ==
    IF Mode(w) = "open" THEN "OPEN"
    ELSE IF ~w.build THEN "TAMPERED"
    ELSE IF w.key = "none" THEN "UNLICENSED"
    ELSE IF w.key = "bad" THEN "INVALID"
    ELSE IF w.token = NoToken THEN "UNLICENSED"
    ELSE IF ~w.token.signed THEN "INVALID"
    ELSE Claims(w)

\* LicenseGuard(config): the part of the context that gates look at.
Guard(w) ==
    [mode    |-> Mode(w),
     state   |-> Verdict(w),
     dbtier  |-> IF Verdict(w) \in Usable THEN w.token.tier ELSE "",
     workers |-> IF Verdict(w) \in Usable THEN w.token.workers ELSE 0,
     cfg     |-> w.cfg]

\* _guard_instance before the first call.
NoGuard == [state |-> "NONE"]

-----------------------------------------------------------------------------
(* The gates.                                                              *)

\* map_dbtier_string_to_tier
TierOf(label) ==
    IF label = "" THEN "open" ELSE IF label \in PaidTiers THEN label ELSE "community"

\* Mutant of RuntimeTier: the YAML names the tier in enforced mode too.
RuntimeTierFromYaml(g, cfg) ==
    IF g.mode = "enforced" /\ cfg.tier = ""
    THEN IF g.state \in Usable /\ g.dbtier # "" THEN TierOf(g.dbtier) ELSE "community"
    ELSE TierOf(cfg.tier)

\* get_runtime_tier_for_features(cfg), asked of the guard g.
RuntimeTier(g, cfg) ==
    IF g.mode = "enforced"
    THEN IF g.state \in Usable /\ g.dbtier # "" THEN TierOf(g.dbtier) ELSE "community"
    ELSE TierOf(cfg.tier)

\* is_feature_available
Available(required, tier) == Rank[tier] >= Rank[required]

\* require_connector_allowed, asked with the configuration that the guard keeps.
ConnectorAllowed(required, g) ==
    IF required = "unmapped" THEN RuntimeTier(g, g.cfg) = "open"
    ELSE Available(required, RuntimeTier(g, g.cfg))

AllowsScan(g) == g.state \in {"OPEN"} \cup Usable

\* _TIER_DEFAULT_WORKER_CAP, for the tiers that have one.
TierWorkers == [community |-> 2, std |-> 3, pro |-> 4, pro_plus |-> 8]

OpenModeWorkerCap == 2

\* worker_cap and the clamp of open mode, applied to scan.max_workers.
Clamped(asked, g) ==
    IF g.mode # "enforced" THEN Smaller(asked, OpenModeWorkerCap)
    ELSE IF g.state \in Usable /\ g.workers > 0 THEN Smaller(asked, g.workers)
    ELSE IF RuntimeTier(g, g.cfg) \in DOMAIN TierWorkers
         THEN Smaller(asked, TierWorkers[RuntimeTier(g, g.cfg)])
    ELSE asked

-----------------------------------------------------------------------------
(* The same, as docs/LICENSING_SPEC.md has it: not the order of the        *)
(* checks, but what must all be true.                                      *)

Entitled(w) ==
    \/ w.cfg.mode # "enforced" /\ w.env # "enforced"
    \/ /\ w.build /\ w.key = "good"
       /\ w.token # NoToken
       /\ w.token.signed /\ w.token.dated
       /\ w.list.kind # "unverified"
       /\ w.list.kind = "verified" => \A id \in w.token.ids : id \notin w.list.ids
       /\ w.token.bound \in IF w.cfg.strict THEN {"here"} ELSE {"here", "anywhere"}
       /\ w.now <= w.token.exp \/ (w.token.grace > 0 /\ w.now <= w.token.grace)
=============================================================================
