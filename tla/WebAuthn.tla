------------------------------ MODULE WebAuthn ------------------------------
(***************************************************************************)
(* Passkey ceremonies of the dashboard (api/webauthn_routes.py and         *)
(* core/webauthn_rp): options hand out a challenge under a state token,    *)
(* verify pops it and checks the authenticator's answer.  Challenges live  *)
(* in the memory of the one server process, passkeys in SQLite, which      *)
(* `--reset-data` wipes from another process.  The session cookie that a   *)
(* ceremony earns is signed and kept by the client alone: module Access    *)
(* has it as a part of the request.                                        *)
(*                                                                         *)
(* Handlers are coroutines of one event loop: a handler that does not      *)
(* await is one step, except that another process may write the database   *)
(* between its statements.                                                 *)
(***************************************************************************)
EXTENDS Naturals, FiniteSets

CONSTANTS
    Requests,    \* clients, each with at most one verify request in flight
    KeyHolders,  \* those that send the API key
    Tokens,      \* state tokens; no two options calls draw the same one
    Passkeys,    \* authenticators
    MaxCount,    \* bound on signature counters
    MaxClock,    \* bound on time, in units of TTL
    MaxBoots,    \* bound on server starts
    TTL,         \* TTL_SECONDS
    NoOne

ASSUME PartiesAssumption == KeyHolders \subseteq Requests /\ NoOne \notin Requests \cup Passkeys
ASSUME LimitsAssumption ==
    {MaxCount, MaxClock, MaxBoots, TTL} \subseteq Nat /\ MaxCount >= 1

VARIABLES
    registered,  \* passkeys in webauthn_credentials
    count,       \* their sign_count
    pending,     \* _store: challenges that wait for an answer
    clock,       \* time.monotonic()
    boot,        \* server starts so far
    flight,      \* verify requests that have been admitted
    loop,        \* the request in the middle of whose handler the loop is
    \* history
    issued,      \* what was known of each token when it was handed out
    won,         \* ceremonies of each kind completed with each token
    origin       \* the token each passkey was registered with

store   == <<registered, count>>
memory  == <<pending, flight, loop>>
ghosts  == <<issued, won, origin>>
vars    == <<store, memory, clock, boot, ghosts>>

Times      == 0..MaxClock
Ceremonies == {"reg", "auth"}

NoFlight  == [kind |-> "none"]
Flights   == {NoFlight} \cup [kind : {"reg"}, token : Tokens]
                        \cup [kind : {"auth"}, key : Passkeys, new : 0..MaxCount]
Challenge == [token : Tokens, kind : Ceremonies, expires : Nat]
Issue     == [by : Requests, kind : Ceremonies, at : Times, boot : Nat]
NoIssue   == [by |-> NoOne]
Issued(t) == issued[t] # NoIssue
NothingWon == [kind \in Ceremonies |-> 0]

TypeOK ==
    /\ registered \subseteq Passkeys
    /\ count \in [Passkeys -> 0..MaxCount]
    /\ pending \subseteq Challenge
    /\ \A p \in pending : Issued(p.token) /\ issued[p.token].boot = boot
    /\ clock \in Times
    /\ boot \in 1..(MaxBoots + 1)
    /\ flight \in [Requests -> Flights]
    /\ loop \in Requests \cup {NoOne}
    /\ issued \in [Tokens -> Issue \cup {NoIssue}]
    /\ won \in [Tokens -> [Ceremonies -> Nat]]
    /\ origin \in [Passkeys -> Tokens \cup {NoOne}]

Init ==
    /\ registered = {}
    /\ count = [k \in Passkeys |-> 0]
    /\ pending = {}
    /\ clock = 0
    /\ boot = 1
    /\ flight = [r \in Requests |-> NoFlight]
    /\ loop = NoOne
    /\ issued = [t \in Tokens |-> NoIssue]
    /\ won = [t \in Tokens |-> NothingWon]
    /\ origin = [k \in Passkeys |-> NoOne]

-----------------------------------------------------------------------------
(* The challenge store.                                                    *)

\* _prune_unlocked: what remains.
Unexpired == {p \in pending : p.expires >= clock}

\* put_pending under a new token.
PutPending(r, t, kind) ==
    /\ ~Issued(t)
    /\ pending' = Unexpired \cup {[token |-> t, kind |-> kind, expires |-> clock + TTL]}
    /\ issued' = [issued EXCEPT ![t] = [by |-> r, kind |-> kind, at |-> clock, boot |-> boot]]

\* pop_pending: what remains; the token is gone whatever comes of it.
Popped(t) == {p \in Unexpired : p.token # t}

\* Mutant of Answerable: whatever it was handed out for.
AnswerableAsEither(t, kind) == \E p \in Unexpired : p.token = t

Answerable(t, kind) == \E p \in Unexpired : p.token = t /\ p.kind = kind

-----------------------------------------------------------------------------
(* Registration.                                                           *)

\* _enforce_first_passkey_registration_auth
MayRegisterFirst(r) == registered = {} => r \in KeyHolders

\* POST /auth/webauthn/registration/options: 403 once there is a passkey.
RegistrationOptions(r, t) ==
    /\ loop = NoOne
    /\ registered = {}
    /\ MayRegisterFirst(r)
    /\ PutPending(r, t, "reg")
    /\ UNCHANGED <<store, flight, loop, clock, boot, won, origin>>

\* POST /auth/webauthn/registration/verify, up to the await of the body: the
\* key is asked for by what the table holds now.
RegistrationAdmitted(r, t) ==
    /\ loop = NoOne
    /\ flight[r] = NoFlight
    /\ Issued(t)
    /\ MayRegisterFirst(r)
    /\ flight' = [flight EXCEPT ![r] = [kind |-> "reg", token |-> t]]
    /\ UNCHANGED <<store, pending, loop, clock, boot, ghosts>>

\* Mutant of Registers: any challenge will do.
RegistersWithAny(r, k) ==
    /\ \E p \in Unexpired : p.token = flight[r].token
    /\ registered = {}
    /\ registered' = {k}

\* Mutant of Registers: the table is not looked at again.
RegistersUnchecked(r, k) ==
    /\ Answerable(flight[r].token, "reg")
    /\ k \notin registered
    /\ registered' = registered \cup {k}

\* The answer is to a registration challenge, and nobody has registered since
\* the options were handed out.
Registers(r, k) ==
    /\ Answerable(flight[r].token, "reg")
    /\ registered = {}
    /\ registered' = {k}

\* The rest of the handler.
RegistrationVerify(r) ==
    /\ loop = NoOne
    /\ flight[r].kind = "reg"
    /\ pending' = Popped(flight[r].token)
    /\ flight' = [flight EXCEPT ![r] = NoFlight]
    /\ \/ \* 400 (state or answer not valid) or 403 (already registered)
          UNCHANGED <<store, won, origin>>
       \/ \E k \in Passkeys :
            /\ Registers(r, k)
            /\ \E n \in 0..1 : count' = [count EXCEPT ![k] = n]
            /\ won' = [won EXCEPT ![flight[r].token]["reg"] = @ + 1]
            /\ origin' = [origin EXCEPT ![k] = flight[r].token]
    /\ UNCHANGED <<loop, clock, boot, issued>>

-----------------------------------------------------------------------------
(* Authentication.                                                         *)

\* POST /auth/webauthn/authentication/options: 404 without a passkey.
AuthenticationOptions(r, t) ==
    /\ loop = NoOne
    /\ registered # {}
    /\ PutPending(r, t, "auth")
    /\ UNCHANGED <<store, flight, loop, clock, boot, won, origin>>

\* verify_authentication_response: a counter that is in use has to grow.
CounterAccepted(k, new) == new > count[k] \/ (new = 0 /\ count[k] = 0)

\* POST /auth/webauthn/authentication/verify refused with 400: no such challenge,
\* an unknown passkey or a wrong answer.  The challenge is gone.
AuthenticationRefused(t) ==
    /\ loop = NoOne
    /\ Issued(t)
    /\ pending' = Popped(t)
    /\ UNCHANGED <<store, flight, loop, clock, boot, ghosts>>

\* Mutant of HoldsLoop: an await between reading the passkey and updating it.
YieldsLoop(r) == UNCHANGED loop

\* The handler goes on without an await.
HoldsLoop(r) == loop' = r

\* The same, accepted: the passkeys have been listed, the answer verified.
AuthenticationVerify(r, t, k) ==
    /\ loop = NoOne
    /\ flight[r] = NoFlight
    /\ Answerable(t, "auth")
    /\ pending' = Popped(t)
    /\ k \in registered
    /\ \E new \in 0..MaxCount :
        /\ CounterAccepted(k, new)
        /\ flight' = [flight EXCEPT ![r] = [kind |-> "auth", key |-> k, new |-> new]]
    /\ HoldsLoop(r)
    /\ won' = [won EXCEPT ![t]["auth"] = @ + 1]
    /\ UNCHANGED <<store, clock, boot, issued, origin>>

\* webauthn_update_sign_count, which does nothing if the passkey has been wiped
\* meanwhile.
AuthenticationDone(r) ==
    /\ flight[r].kind = "auth"
    /\ count' = IF flight[r].key \in registered
                  THEN [count EXCEPT ![flight[r].key] = flight[r].new] ELSE count
    /\ flight' = [flight EXCEPT ![r] = NoFlight]
    /\ loop' = NoOne
    /\ UNCHANGED <<registered, pending, clock, boot, ghosts>>

-----------------------------------------------------------------------------
(* The surroundings.                                                       *)

\* wipe_all_data from a command line.
Wipe ==
    /\ registered' = {}
    /\ UNCHANGED <<count, memory, clock, boot, ghosts>>

\* The server stops and starts: challenges and requests are lost and
\* passkeys are not.
Restart ==
    /\ boot <= MaxBoots
    /\ boot' = boot + 1
    /\ pending' = {}
    /\ flight' = [r \in Requests |-> NoFlight]
    /\ loop' = NoOne
    /\ UNCHANGED <<store, clock, ghosts>>

Tick ==
    /\ clock < MaxClock
    /\ clock' = clock + 1
    /\ UNCHANGED <<store, memory, boot, ghosts>>

Next ==
    \/ \E r \in Requests, t \in Tokens :
        \/ RegistrationOptions(r, t) \/ RegistrationAdmitted(r, t)
        \/ AuthenticationOptions(r, t)
        \/ \E k \in Passkeys : AuthenticationVerify(r, t, k)
    \/ \E r \in Requests :
        RegistrationVerify(r) \/ AuthenticationDone(r)
    \/ \E t \in Tokens : AuthenticationRefused(t)
    \/ Wipe \/ Restart \/ Tick

Spec == Init /\ [][Next]_vars

-----------------------------------------------------------------------------
(* Properties.                                                             *)

\* A ceremony is completed with a challenge that was handed out for that kind of
\* ceremony by this server process, no longer than TTL ago, and no ceremony of
\* either kind was completed with it before: repeated, late and crossed requests
\* get nowhere.
CeremoniesAreFresh ==
    [][\A t \in Tokens, kind \in Ceremonies : won'[t][kind] # won[t][kind] =>
        /\ won[t] = NothingWon
        /\ issued[t].kind = kind
        /\ clock <= issued[t].at + TTL
        /\ boot = issued[t].boot]_vars

\* "The first passkey always requires a configured, matching API key"
\* (_enforce_first_passkey_registration_auth): every passkey in the table goes
\* back to a registration challenge that a holder of the key asked for, also
\* when the table was wiped while a verify request waited for its body.
PasskeysGoBackToTheKey ==
    \A k \in registered :
        /\ issued[origin[k]].kind = "reg"
        /\ issued[origin[k]].by \in KeyHolders

\* The counter of a passkey never falls while it is registered, so that an
\* authenticator's older answers stay refused.
CountersNeverFall ==
    [][\A k \in registered \cap registered' : count'[k] >= count[k]]_vars

\* The table holds at most one passkey, registered into an empty table, whatever
\* registrations overlap.  The role lookup relies on it (one_or_none by user id).
Abstract == INSTANCE PasskeyStore WITH stored <- registered
ImplementsPasskeyStore == Abstract!Spec
=============================================================================
