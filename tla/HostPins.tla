------------------------------- MODULE HostPins -------------------------------
(***************************************************************************)
(* The addresses that the targets' clients dial.  A connector resolves its *)
(* host once, refuses addresses that are not global unless the target opts *)
(* in (connectors/url_guard.py), and must then never dial an address that  *)
(* was not looked at, whatever DNS answers later.  HTTP, Redis, PostgreSQL,*)
(* SQL Server and Oracle clients carry their addresses themselves; those   *)
(* of MongoDB, MySQL and SMB ask socket.getaddrinfo again at every         *)
(* connection, which is why connectors/tcp_pin.py replaces it for the      *)
(* whole process while a counted table of pins is not empty.               *)
(*                                                                         *)
(* Targets run in the threads of one pool; DNS changes at any time.  Host  *)
(* names stand for their normal form, and address families are left out.   *)
(* So are the other members of a replica set: MongoClient is opened        *)
(* without directConnection (mongodb_connector.py:91-113), may be told of  *)
(* them by the server and dial hosts that nobody has looked at.            *)
(***************************************************************************)
EXTENDS Naturals, FiniteSets

CONSTANTS
    Targets,
    Hosts,
    Addresses,
    Global,         \* the addresses that _classify has nothing against
    HostOf,         \* the host a target names
    OptsIn,         \* targets with allow_private_networks
    Carried         \* targets whose client carries its addresses itself

ASSUME PinsAssumption ==
    /\ IsFiniteSet(Targets)
    /\ HostOf \in [Targets -> Hosts]
    /\ Global \subseteq Addresses
    /\ OptsIn \subseteq Targets /\ Carried \subseteq Targets

VARIABLES
    dns,        \* what the resolver answers, by host
    pins,       \* _HOST_PINS: {} when the host has no entry
    refs,       \* _HOST_PIN_REFS
    patched,    \* _GETADDRINFO_PATCHED
    pc,         \* where the thread of the target is
    mine,       \* addresses validated for the target
    holds,      \* HostResolutionPin._active
    peers       \* history: addresses that the target's client dialled

pinVars == <<dns, pins, refs, patched, pc, mine, holds, peers>>

Steps == {"idle", "validated", "refused", "installed", "patched", "live", "released", "over"}

PinsTypeOK ==
    /\ dns \in [Hosts -> SUBSET Addresses]
    /\ pins \in [Hosts -> SUBSET Addresses]
    /\ refs \in [Hosts -> Nat]
    /\ patched \in BOOLEAN
    /\ pc \in [Targets -> Steps]
    /\ mine \in [Targets -> SUBSET Addresses]
    /\ holds \in [Targets -> BOOLEAN]
    /\ peers \in [Targets -> SUBSET Addresses]

PinsInit ==
    /\ dns \in [Hosts -> SUBSET Addresses]
    /\ pins = [h \in Hosts |-> {}]
    /\ refs = [h \in Hosts |-> 0]
    /\ patched = FALSE
    /\ pc = [t \in Targets |-> "idle"]
    /\ mine = [t \in Targets |-> {}]
    /\ holds = [t \in Targets |-> FALSE]
    /\ peers = [t \in Targets |-> {}]

-----------------------------------------------------------------------------

\* socket.getaddrinfo, replaced or not.  {} is a failure to resolve.
Lookup(h) == IF patched /\ pins[h] # {} THEN pins[h] ELSE dns[h]

\* resolve_and_validate_outbound_url takes the answer as a whole or not at all.
Acceptable(t, ips) == ips # {} /\ (t \notin OptsIn => ips \subseteq Global)

\* The guard's own lookup goes through getaddrinfo as well.
Validate(t) ==
    /\ pc[t] = "idle"
    /\ LET ips == Lookup(HostOf[t]) IN
       IF Acceptable(t, ips)
       THEN /\ mine' = [mine EXCEPT ![t] = ips]
            /\ pc' = [pc EXCEPT ![t] = IF t \in Carried THEN "live" ELSE "validated"]
       ELSE pc' = [pc EXCEPT ![t] = "refused"] /\ UNCHANGED mine
    /\ UNCHANGED <<dns, pins, refs, patched, holds, peers>>

\* HostResolutionPin.install: another target holds other addresses of the host.
Conflicts(t) == pins[HostOf[t]] \notin {{}, mine[t]}

Refuse(t) ==
    /\ pc[t] = "validated" /\ Conflicts(t)
    /\ pc' = [pc EXCEPT ![t] = "refused"]
    /\ UNCHANGED <<dns, pins, refs, patched, mine, holds, peers>>

\* Mutant of Referred: a target that finds an entry is counted twice.
ReferredTwice(h) == IF pins[h] = {} THEN 1 ELSE refs[h] + 2

Referred(h) == IF pins[h] = {} THEN 1 ELSE refs[h] + 1

\* ... or the entry is made, or counted once more, under the lock.
Install(t) ==
    /\ pc[t] = "validated" /\ ~Conflicts(t)
    /\ LET h == HostOf[t] IN
       /\ refs' = [refs EXCEPT ![h] = Referred(h)]
       /\ pins' = [pins EXCEPT ![h] = IF @ = {} THEN mine[t] ELSE @]
    /\ holds' = [holds EXCEPT ![t] = TRUE]
    /\ pc' = [pc EXCEPT ![t] = "installed"]
    /\ UNCHANGED <<dns, patched, mine, peers>>

\* _ensure_getaddrinfo_patched, the lock taken again.
Patch(t) ==
    /\ pc[t] = "installed"
    /\ patched' = TRUE
    /\ pc' = [pc EXCEPT ![t] = "patched"]
    /\ UNCHANGED <<dns, pins, refs, mine, holds, peers>>

\* MongoClient(...) or create_engine(...) returns.
Open(t) ==
    /\ pc[t] = "patched"
    /\ pc' = [pc EXCEPT ![t] = "live"]
    /\ UNCHANGED <<dns, pins, refs, patched, mine, holds, peers>>

\* The addresses a connection of t's client may go to.
Answer(t) == IF t \in Carried THEN mine[t] ELSE Lookup(HostOf[t])

\* A connection of the client, the first or, after an error, a new one.
Dial(t) ==
    /\ pc[t] = "live"
    /\ \E a \in Answer(t) : peers' = [peers EXCEPT ![t] = @ \cup {a}]
    /\ UNCHANGED <<dns, pins, refs, patched, pc, mine, holds>>

LastHolder(h) == refs[h] <= 1

\* HostResolutionPin.release, after the client is closed or could not be built.
Release(t) ==
    /\ pc[t] \in {"patched", "live"} /\ holds[t]
    /\ LET h == HostOf[t] IN
       IF LastHolder(h)
       THEN pins' = [pins EXCEPT ![h] = {}] /\ refs' = [refs EXCEPT ![h] = 0]
       ELSE refs' = [refs EXCEPT ![h] = @ - 1] /\ UNCHANGED pins
    /\ holds' = [holds EXCEPT ![t] = FALSE]
    /\ pc' = [pc EXCEPT ![t] = "released"]
    /\ UNCHANGED <<dns, patched, mine, peers>>

\* Mutant of NobodyPins: whoever closes takes the replacement away.
NobodyPinsIgnored == TRUE

NobodyPins == \A h \in Hosts : pins[h] = {}

\* _maybe_unpatch_getaddrinfo, the lock taken again.
Unpatch(t) ==
    /\ pc[t] = "released"
    /\ patched' = (patched /\ ~NobodyPins)
    /\ pc' = [pc EXCEPT ![t] = "over"]
    /\ UNCHANGED <<dns, pins, refs, mine, holds, peers>>

\* A client that carries its addresses has nothing to give back.
Close(t) ==
    /\ pc[t] = "live" /\ ~holds[t]
    /\ pc' = [pc EXCEPT ![t] = "over"]
    /\ UNCHANGED <<dns, pins, refs, patched, mine, holds, peers>>

DnsChanges ==
    /\ dns' \in [Hosts -> SUBSET Addresses]
    /\ UNCHANGED <<pins, refs, patched, pc, mine, holds, peers>>

\* The steps of a target's thread after it was begun.
Connector(t) ==
    \/ Refuse(t) \/ Install(t) \/ Patch(t) \/ Open(t)
    \/ Dial(t) \/ Release(t) \/ Unpatch(t) \/ Close(t)

Ended == {"refused", "over"}

-----------------------------------------------------------------------------
(* Properties.                                                             *)

\* Whatever DNS answers, and whichever targets begin and end in between, a client
\* has only dialled addresses that the guard accepted for its own target, as far as
\* it dials the host that the target names (see above).
PeersAreValidated ==
    \A t \in Targets :
        /\ peers[t] \subseteq mine[t]
        /\ t \notin OptsIn => peers[t] \subseteq Global

\* The table goes back to empty, and getaddrinfo to the original, with the last
\* target, although lock and unlock split the two.
NothingStaysPinned ==
    (\A t \in Targets : pc[t] \in Ended \cup {"idle"}) =>
        NobodyPins /\ ~patched /\ refs = [h \in Hosts |-> 0]
=============================================================================
