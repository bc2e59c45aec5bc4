----------------------------- MODULE SignInProofs -----------------------------
(***************************************************************************)
(* Proofs about SignIn: the passkey ceremonies for any number of clients,  *)
(* tokens, passkeys, restarts and clock ticks, and what a session changes  *)
(* in the answers of the middlewares, for any paths and roles.             *)
(***************************************************************************)
EXTENDS SignIn, TLAPS

-----------------------------------------------------------------------------
(* Type correctness.                                                       *)

LEMMA Limits ==
    /\ MaxCount \in Nat /\ MaxClock \in Nat /\ MaxBoots \in Nat /\ TTL \in Nat /\ 1 <= MaxCount
    /\ \A r \in Requests : r # NoOne
BY LimitsAssumption, PartiesAssumption

LEMMA IssuesAreIssues == NoIssue \notin Issue
<1> SUFFICES ASSUME NoIssue \in Issue PROVE FALSE
  OBVIOUS
<1>1. NoIssue.by \in Requests /\ NoIssue.by = NoOne
  BY DEF Issue, NoIssue
<1> QED
  BY <1>1, Limits

LEMMA TypeInit == Init => TypeOK
BY Limits DEF Init, TypeOK, Times, Flights, NoFlight, NothingWon

\* What put_pending does under a token that is new.
LEMMA PutTypes ==
    ASSUME TypeOK, NEW r \in Requests, NEW t \in Tokens, NEW kind \in Ceremonies,
           PutPending(r, t, kind), boot' = boot
    PROVE  /\ pending' \subseteq Challenge
           /\ issued' \in [Tokens -> Issue \cup {NoIssue}]
           /\ \A p \in pending' : issued'[p.token] # NoIssue /\ issued'[p.token].boot = boot
<1> DEFINE new == [token |-> t, kind |-> kind, expires |-> clock + TTL]
           issue == [by |-> r, kind |-> kind, at |-> clock, boot |-> boot]
<1>1. new \in Challenge /\ issue \in Issue
  BY Limits DEF TypeOK, Times, Challenge, Issue
<1>2. pending' \subseteq Challenge
  BY <1>1 DEF PutPending, Unexpired, TypeOK
<1>3. issued' = [issued EXCEPT ![t] = issue]
  BY DEF PutPending
<1>4. issued' \in [Tokens -> Issue \cup {NoIssue}] /\ issued'[t] = issue
  BY <1>1, <1>3 DEF TypeOK
<1>5. ASSUME NEW p \in pending' PROVE issued'[p.token] # NoIssue /\ issued'[p.token].boot = boot
  <2>1. CASE p.token = t
    BY <1>1, <1>4, <2>1, IssuesAreIssues
  <2>2. CASE p.token # t
    <3>1. p \in pending
      BY <2>2 DEF PutPending, Unexpired
    <3>2. issued'[p.token] = issued[p.token]
      BY <1>2, <1>3, <2>2 DEF TypeOK, Challenge
    <3> QED
      BY <3>1, <3>2 DEF TypeOK, Issued
  <2> QED
    BY <2>1, <2>2
<1> QED
  BY <1>2, <1>4, <1>5

\* Steps that take nothing but challenges away.
LEMMA PendingShrinks ==
    ASSUME TypeOK, pending' \subseteq pending, UNCHANGED <<issued, boot>>
    PROVE  /\ pending' \subseteq Challenge
           /\ issued' \in [Tokens -> Issue \cup {NoIssue}]
           /\ \A p \in pending' : issued'[p.token] # NoIssue /\ issued'[p.token].boot = boot'
BY DEF TypeOK, Issued

LEMMA TypeStep ==
    ASSUME TypeOK, [Next]_vars
    PROVE  TypeOK'
<1> USE Limits DEF store, memory, ghosts
<1> DEFINE Rest ==
        /\ registered' \subseteq Passkeys
        /\ count' \in [Passkeys -> 0..MaxCount]
        /\ clock' \in Times
        /\ boot' \in 1..(MaxBoots + 1)
        /\ flight' \in [Requests -> Flights]
        /\ loop' \in Requests \cup {NoOne}
        /\ won' \in [Tokens -> [Ceremonies -> Nat]]
        /\ origin' \in [Passkeys -> Tokens \cup {NoOne}]
    Pend ==
        /\ pending' \subseteq Challenge
        /\ issued' \in [Tokens -> Issue \cup {NoIssue}]
        /\ \A p \in pending' : issued'[p.token] # NoIssue /\ issued'[p.token].boot = boot'
<1>1. SUFFICES Rest /\ Pend
  BY DEF TypeOK, Issued
<1>2. CASE UNCHANGED vars
  BY <1>2, PendingShrinks DEF vars, TypeOK
<1>3. ASSUME NEW r \in Requests, NEW t \in Tokens,
             RegistrationOptions(r, t) \/ AuthenticationOptions(r, t)
      PROVE  Rest /\ Pend
  <2>1. Rest /\ boot' = boot
    BY <1>3 DEF RegistrationOptions, AuthenticationOptions, TypeOK
  <2>2. PutPending(r, t, "reg") \/ PutPending(r, t, "auth")
    BY <1>3 DEF RegistrationOptions, AuthenticationOptions
  <2> QED
    BY <2>1, <2>2, PutTypes DEF Ceremonies
<1>4. ASSUME NEW r \in Requests, NEW t \in Tokens, RegistrationAdmitted(r, t)
      PROVE  Rest /\ Pend
  <2>1. [kind |-> "reg", token |-> t] \in Flights
    BY DEF Flights
  <2> QED
    BY <1>4, <2>1, PendingShrinks DEF RegistrationAdmitted, TypeOK
<1>5. ASSUME NEW r \in Requests, RegistrationVerify(r)
      PROVE  Rest /\ Pend
  <2>1. Pend
    BY <1>5, PendingShrinks DEF RegistrationVerify, Popped, Unexpired
  <2>2. flight[r].token \in Tokens
    <3>1. flight[r] \in Flights /\ flight[r].kind = "reg"
      BY <1>5 DEF RegistrationVerify, TypeOK
    <3> QED
      BY <3>1 DEF Flights, NoFlight
  <2>3. UNCHANGED <<clock, boot, loop>> /\ flight' = [flight EXCEPT ![r] = NoFlight]
    BY <1>5 DEF RegistrationVerify
  <2>4. flight' \in [Requests -> Flights]
    BY <2>3 DEF TypeOK, Flights
  <2>5. CASE UNCHANGED <<store, won, origin>>
    BY <2>1, <2>3, <2>4, <2>5 DEF TypeOK
  <2>6. CASE \E k \in Passkeys :
            /\ Registers(r, k)
            /\ \E n \in 0..1 : count' = [count EXCEPT ![k] = n]
            /\ won' = [won EXCEPT ![flight[r].token]["reg"] = @ + 1]
            /\ origin' = [origin EXCEPT ![k] = flight[r].token]
    <3>1. PICK k \in Passkeys, n \in 0..1 :
            /\ registered' = {k}
            /\ count' = [count EXCEPT ![k] = n]
            /\ won' = [won EXCEPT ![flight[r].token]["reg"] = @ + 1]
            /\ origin' = [origin EXCEPT ![k] = flight[r].token]
      BY <2>6 DEF Registers
    <3>2. count' \in [Passkeys -> 0..MaxCount]
      BY <3>1 DEF TypeOK
    <3>3. won' \in [Tokens -> [Ceremonies -> Nat]] /\ origin' \in [Passkeys -> Tokens \cup {NoOne}]
      BY <2>2, <3>1 DEF TypeOK, Ceremonies
    <3> QED
      BY <2>1, <2>3, <2>4, <3>1, <3>2, <3>3 DEF TypeOK
  <2> QED
    BY <1>5, <2>5, <2>6 DEF RegistrationVerify
<1>6. ASSUME NEW r \in Requests, NEW t \in Tokens, NEW k \in Passkeys, AuthenticationVerify(r, t, k)
      PROVE  Rest /\ Pend
  <2>1. Pend
    BY <1>6, PendingShrinks DEF AuthenticationVerify, Popped, Unexpired
  <2>2. PICK new \in 0..MaxCount : flight' = [flight EXCEPT ![r] = [kind |-> "auth", key |-> k, new |-> new]]
    BY <1>6 DEF AuthenticationVerify
  <2>3. flight' \in [Requests -> Flights]
    BY <2>2 DEF TypeOK, Flights
  <2> QED
    BY <1>6, <2>1, <2>3 DEF AuthenticationVerify, HoldsLoop, TypeOK, Ceremonies
<1>7. ASSUME NEW t \in Tokens, AuthenticationRefused(t)
      PROVE  Rest /\ Pend
  BY <1>7, PendingShrinks DEF AuthenticationRefused, Popped, Unexpired, TypeOK
<1>8. ASSUME NEW r \in Requests, AuthenticationDone(r)
      PROVE  Rest /\ Pend
  <2>1. Pend
    BY <1>8, PendingShrinks DEF AuthenticationDone
  <2>2. flight[r].key \in Passkeys /\ flight[r].new \in 0..MaxCount
    <3>1. flight[r] \in Flights /\ flight[r].kind = "auth"
      BY <1>8 DEF AuthenticationDone, TypeOK
    <3> QED
      BY <3>1 DEF Flights, NoFlight
  <2>3. count' \in [Passkeys -> 0..MaxCount] /\ flight' \in [Requests -> Flights]
    BY <1>8, <2>2 DEF AuthenticationDone, TypeOK, Flights
  <2> QED
    BY <1>8, <2>1, <2>3 DEF AuthenticationDone, TypeOK
<1>9. CASE Wipe \/ Tick
  BY <1>9, PendingShrinks DEF Wipe, Tick, TypeOK, Times
<1>10. CASE Restart
  BY <1>10 DEF Restart, TypeOK, Flights
<1> QED
  BY <1>2, <1>3, <1>4, <1>5, <1>6, <1>7, <1>8, <1>9, <1>10 DEF Next

\* Types: passkeys, challenges of this process, requests, and what was handed out.
THEOREM TypeCorrect == Spec => []TypeOK
BY TypeInit, TypeStep, PTL DEF Spec
-----------------------------------------------------------------------------
(* Ceremonies.                                                             *)

\* A challenge that waits is as it was handed out, and nothing was won with it.
PendingInv ==
    \A p \in pending :
        /\ issued[p.token].kind = p.kind /\ p.expires = issued[p.token].at + TTL
        /\ won[p.token] = NothingWon

\* Registration challenges go to holders of the key; a passkey has one.
KeyInv ==
    /\ \A t \in Tokens : Issued(t) /\ issued[t].kind = "reg" => issued[t].by \in KeyHolders
    /\ \A k \in registered :
        origin[k] \in Tokens /\ Issued(origin[k]) /\ issued[origin[k]].kind = "reg"

\* Nothing was won with a token that was not handed out.
WonInv == \A t \in Tokens : ~Issued(t) => won[t] = NothingWon

\* A request whose answer was accepted holds the loop, and brings a counter that
\* is no less than that of its passkey.
LoopInv ==
    \A r \in Requests : flight[r].kind = "auth" =>
        /\ loop = r
        /\ flight[r].key \in registered => flight[r].new >= count[flight[r].key]

CeremonyInv == PendingInv /\ KeyInv /\ WonInv /\ LoopInv

LEMMA CeremonyInit == Init => CeremonyInv
BY DEF Init, CeremonyInv, PendingInv, KeyInv, WonInv, LoopInv, Issued, NoFlight

\* Where issued, won and origin stay, the invariants about them need only that no
\* challenge and no passkey is new.
LEMMA LedgerFrame ==
    ASSUME CeremonyInv, pending' \subseteq pending, registered' \subseteq registered,
           UNCHANGED <<issued, won, origin>>
    PROVE  PendingInv' /\ KeyInv' /\ WonInv'
BY DEF CeremonyInv, PendingInv, KeyInv, WonInv, Issued

\* Likewise for the loop: no accepted answer is new.
LEMMA LoopFrame ==
    ASSUME CeremonyInv, registered' \subseteq registered, UNCHANGED <<count, loop>>,
           \A r \in Requests : flight'[r] = flight[r] \/ flight'[r].kind # "auth"
    PROVE  LoopInv'
BY DEF CeremonyInv, LoopInv

LEMMA OptionsKeepCeremony ==
    ASSUME TypeOK, CeremonyInv, NEW r \in Requests, NEW t \in Tokens,
           RegistrationOptions(r, t) \/ AuthenticationOptions(r, t)
    PROVE  CeremonyInv'
<1> USE Limits DEF store, memory, ghosts
<1>1. PICK kind \in Ceremonies :
        PutPending(r, t, kind) /\ (kind = "reg" => r \in KeyHolders)
  BY DEF RegistrationOptions, AuthenticationOptions, MayRegisterFirst, Ceremonies
<1>2. UNCHANGED <<registered, count, flight, loop, won, origin>>
  BY DEF RegistrationOptions, AuthenticationOptions
<1> DEFINE issue == [by |-> r, kind |-> kind, at |-> clock, boot |-> boot]
<1>3. /\ ~Issued(t)
      /\ pending' = Unexpired \cup {[token |-> t, kind |-> kind, expires |-> clock + TTL]}
      /\ issued'[t] = issue /\ \A u \in Tokens : u # t => issued'[u] = issued[u]
  BY <1>1 DEF PutPending, TypeOK
<1>4. issue # NoIssue
  BY DEF NoIssue
<1>5. \A u \in Tokens : Issued(u) => Issued(u)' /\ issued'[u] = issued[u]
  BY <1>3, <1>4 DEF Issued
<1>6. PendingInv'
  <2> SUFFICES ASSUME NEW p \in pending'
               PROVE  /\ issued'[p.token].kind = p.kind
                      /\ p.expires = issued'[p.token].at + TTL
                      /\ won[p.token] = NothingWon
    BY <1>2 DEF PendingInv
  <2>1. CASE p \in pending
    <3>1. p.token \in Tokens /\ Issued(p.token)
      BY <2>1 DEF TypeOK, Challenge
    <3> QED
      BY <1>5, <2>1, <3>1 DEF CeremonyInv, PendingInv
  <2>2. CASE p \notin pending
    <3>1. p = [token |-> t, kind |-> kind, expires |-> clock + TTL]
      BY <1>3, <2>2 DEF Unexpired
    <3>2. won[t] = NothingWon
      BY <1>3 DEF CeremonyInv, WonInv
    <3> QED
      BY <1>3, <3>1, <3>2
  <2> QED
    BY <2>1, <2>2
<1>7. KeyInv'
  <2>1. \A u \in Tokens : Issued(u)' /\ issued'[u].kind = "reg" => issued'[u].by \in KeyHolders
    BY <1>1, <1>3 DEF Issued, CeremonyInv, KeyInv
  <2> QED
    BY <1>2, <1>5, <2>1 DEF CeremonyInv, KeyInv
<1>8. WonInv'
  BY <1>2, <1>5 DEF CeremonyInv, WonInv
<1>9. LoopInv'
  BY <1>2, LoopFrame
<1> QED
  BY <1>6, <1>7, <1>8, <1>9 DEF CeremonyInv

\* Who answers a waiting challenge does so in time, in the process that handed
\* it out, and takes it away.
LEMMA AnswersAreFresh ==
    ASSUME TypeOK, CeremonyInv, NEW t \in Tokens, NEW kind \in Ceremonies,
           Answerable(t, kind), pending' = Popped(t)
    PROVE  /\ Issued(t) /\ issued[t].kind = kind
           /\ won[t] = NothingWon /\ clock <= issued[t].at + TTL /\ boot = issued[t].boot
           /\ pending' \subseteq pending /\ \A p \in pending' : p.token # t
<1>1. PICK p \in pending : p.token = t /\ p.kind = kind /\ p.expires >= clock
  BY DEF Answerable, Unexpired
<1>2. p.expires = issued[t].at + TTL /\ won[t] = NothingWon /\ issued[t].kind = kind
  BY <1>1 DEF CeremonyInv, PendingInv
<1>3. Issued(t) /\ issued[t].boot = boot
  BY <1>1 DEF TypeOK
<1>4. p.expires \in Nat /\ clock \in Nat
  BY <1>1, Limits DEF TypeOK, Challenge, Times
<1> QED
  BY <1>1, <1>2, <1>3, <1>4 DEF Popped, Unexpired

\* The ledger after a ceremony was won with t.
LEMMA WinKeepsLedger ==
    ASSUME TypeOK, CeremonyInv, NEW t \in Tokens, Issued(t),
           NEW kind \in Ceremonies, won' = [won EXCEPT ![t][kind] = @ + 1], issued' = issued,
           pending' \subseteq pending, \A p \in pending' : p.token # t
    PROVE  PendingInv' /\ WonInv'
<1>1. \A u \in Tokens : u # t => won'[u] = won[u]
  BY DEF TypeOK
<1>2. \A p \in pending' : p.token \in Tokens
  BY DEF TypeOK, Challenge
<1> QED
  BY <1>1, <1>2 DEF CeremonyInv, PendingInv, WonInv, Issued

LEMMA RegistrationFacts ==
    ASSUME TypeOK, NEW r \in Requests, RegistrationVerify(r)
    PROVE  /\ flight[r].token \in Tokens
           /\ \/ UNCHANGED <<store, won, origin>>
              \/ \E k \in Passkeys :
                    /\ Answerable(flight[r].token, "reg")
                    /\ registered = {} /\ registered' = {k}
                    /\ won' = [won EXCEPT ![flight[r].token]["reg"] = @ + 1]
                    /\ origin' = [origin EXCEPT ![k] = flight[r].token]
<1>1. flight[r] \in Flights /\ flight[r].kind = "reg"
  BY DEF RegistrationVerify, TypeOK
<1>2. flight[r].token \in Tokens
  BY <1>1 DEF Flights, NoFlight
<1> QED
  BY <1>2 DEF RegistrationVerify, Registers

LEMMA RegistrationKeepsCeremony ==
    ASSUME TypeOK, CeremonyInv, NEW r \in Requests, RegistrationVerify(r)
    PROVE  CeremonyInv'
<1> DEFINE t == flight[r].token
<1>1. /\ pending' = Popped(t) /\ flight' = [flight EXCEPT ![r] = NoFlight]
      /\ UNCHANGED <<loop, issued>> /\ loop = NoOne
  BY DEF RegistrationVerify
<1>2. \A u \in Requests : flight'[u] = flight[u] \/ flight'[u].kind # "auth"
  BY <1>1 DEF TypeOK, NoFlight
<1>3. CASE UNCHANGED <<store, won, origin>>
  BY <1>1, <1>2, <1>3, LedgerFrame, LoopFrame DEF CeremonyInv, store, Popped, Unexpired
<1>4. CASE ~UNCHANGED <<store, won, origin>>
  <2>1. t \in Tokens
    BY RegistrationFacts
  <2>2. PICK k \in Passkeys :
            /\ Answerable(t, "reg") /\ registered = {} /\ registered' = {k}
            /\ won' = [won EXCEPT ![t]["reg"] = @ + 1]
            /\ origin' = [origin EXCEPT ![k] = t]
    BY <1>4, RegistrationFacts
  <2>3. /\ Issued(t) /\ issued[t].kind = "reg"
        /\ pending' \subseteq pending /\ \A p \in pending' : p.token # t
    BY <1>1, <2>1, <2>2, AnswersAreFresh DEF Ceremonies
  <2>4. PendingInv' /\ WonInv'
    BY <1>1, <2>1, <2>2, <2>3, WinKeepsLedger DEF Ceremonies
  <2>5. KeyInv'
    <3>1. origin'[k] = t
      BY <2>2 DEF TypeOK
    <3> QED
      BY <1>1, <2>1, <2>2, <2>3, <3>1 DEF CeremonyInv, KeyInv, Issued
  <2>6. LoopInv'
    <3>1. \A u \in Requests : flight[u].kind # "auth"
      BY <1>1, Limits DEF CeremonyInv, LoopInv
    <3> QED
      BY <1>2, <3>1 DEF LoopInv
  <2> QED
    BY <2>4, <2>5, <2>6 DEF CeremonyInv
<1> QED
  BY <1>3, <1>4

LEMMA AuthenticationKeepsCeremony ==
    ASSUME TypeOK, CeremonyInv, NEW r \in Requests, NEW t \in Tokens, NEW k \in Passkeys,
           AuthenticationVerify(r, t, k)
    PROVE  CeremonyInv'
<1>1. /\ Answerable(t, "auth") /\ pending' = Popped(t) /\ loop = NoOne /\ loop' = r
      /\ won' = [won EXCEPT ![t]["auth"] = @ + 1]
      /\ UNCHANGED <<registered, count, issued, origin>>
  BY DEF AuthenticationVerify, HoldsLoop, store
<1>2. PICK new \in 0..MaxCount :
        CounterAccepted(k, new)
        /\ flight' = [flight EXCEPT ![r] = [kind |-> "auth", key |-> k, new |-> new]]
  BY DEF AuthenticationVerify
<1>3. Issued(t) /\ pending' \subseteq pending /\ \A p \in pending' : p.token # t
  BY <1>1, AnswersAreFresh DEF Ceremonies
<1>4. PendingInv' /\ WonInv'
  BY <1>1, <1>3, WinKeepsLedger DEF Ceremonies
<1>5. KeyInv'
  BY <1>1 DEF CeremonyInv, KeyInv, Issued
<1>6. LoopInv'
  <2>1. \A u \in Requests : flight[u].kind # "auth"
    BY <1>1, Limits DEF CeremonyInv, LoopInv
  <2>2. new >= count[k]
    <3>1. count[k] \in Nat
      BY Limits DEF TypeOK
    <3> QED
      BY <1>2, <3>1 DEF CounterAccepted
  <2>3. flight'[r].kind = "auth" /\ flight'[r].key = k /\ flight'[r].new = new
    BY <1>2 DEF TypeOK
  <2>4. \A u \in Requests : u # r => flight'[u] = flight[u]
    BY <1>2 DEF TypeOK
  <2> QED
    BY <1>1, <2>1, <2>2, <2>3, <2>4 DEF LoopInv
<1> QED
  BY <1>4, <1>5, <1>6 DEF CeremonyInv

LEMMA DoneKeepsCeremony ==
    ASSUME TypeOK, CeremonyInv, NEW r \in Requests, AuthenticationDone(r)
    PROVE  CeremonyInv'
<1>1. /\ flight[r].kind = "auth" /\ flight' = [flight EXCEPT ![r] = NoFlight]
      /\ UNCHANGED <<registered, pending, issued, won, origin>>
  BY DEF AuthenticationDone, ghosts
<1>2. PendingInv' /\ KeyInv' /\ WonInv'
  BY <1>1, LedgerFrame
<1>3. \A u \in Requests : u # r => flight[u].kind # "auth"
  BY <1>1 DEF CeremonyInv, LoopInv
<1>4. \A u \in Requests : flight'[u].kind # "auth"
  BY <1>1, <1>3 DEF TypeOK, NoFlight
<1> QED
  BY <1>2, <1>4 DEF CeremonyInv, LoopInv

LEMMA CeremonyStep ==
    ASSUME TypeOK, CeremonyInv, [Next]_vars
    PROVE  CeremonyInv'
<1> USE DEF store, memory, ghosts
<1>1. CASE UNCHANGED vars
  BY <1>1, LedgerFrame, LoopFrame DEF vars, CeremonyInv
<1>2. ASSUME NEW r \in Requests, NEW t \in Tokens, RegistrationAdmitted(r, t)
      PROVE  CeremonyInv'
  <2>1. \A u \in Requests : flight'[u] = flight[u] \/ flight'[u].kind # "auth"
    BY <1>2 DEF RegistrationAdmitted, TypeOK
  <2> QED
    BY <1>2, <2>1, LedgerFrame, LoopFrame DEF RegistrationAdmitted, CeremonyInv
<1>3. ASSUME NEW t \in Tokens, AuthenticationRefused(t)
      PROVE  CeremonyInv'
  BY <1>3, LedgerFrame, LoopFrame DEF AuthenticationRefused, Popped, Unexpired, CeremonyInv
<1>4. CASE Wipe \/ Tick
  BY <1>4, LedgerFrame, LoopFrame DEF Wipe, Tick, CeremonyInv
<1>5. CASE Restart
  <2>1. LoopInv'
    BY <1>5 DEF Restart, LoopInv, NoFlight
  <2> QED
    BY <1>5, <2>1, LedgerFrame DEF Restart, CeremonyInv
<1> QED
  BY <1>1, <1>2, <1>3, <1>4, <1>5, OptionsKeepCeremony, RegistrationKeepsCeremony,
     AuthenticationKeepsCeremony, DoneKeepsCeremony DEF Next

LEMMA CeremonyAlways == Spec => [](TypeOK /\ CeremonyInv)
BY TypeInit, TypeStep, CeremonyInit, CeremonyStep, PTL DEF Spec

\* Every passkey goes back to a challenge that a holder of the key asked for.
THEOREM AllGoBackToTheKey == Spec => []PasskeysGoBackToTheKey
<1>1. CeremonyInv => PasskeysGoBackToTheKey
  BY DEF CeremonyInv, KeyInv, PasskeysGoBackToTheKey
<1> QED
  BY <1>1, CeremonyAlways, PTL

LEMMA WinsAreFresh ==
    ASSUME TypeOK, CeremonyInv, [Next]_vars, NEW t \in Tokens, NEW kind \in Ceremonies,
           won'[t][kind] # won[t][kind]
    PROVE  won[t] = NothingWon /\ issued[t].kind = kind
           /\ clock <= issued[t].at + TTL /\ boot = issued[t].boot
<1> USE DEF store, memory, ghosts
<1>1. \/ \E r \in Requests : RegistrationVerify(r)
      \/ \E r \in Requests, u \in Tokens, k \in Passkeys : AuthenticationVerify(r, u, k)
  BY DEF Next, vars, RegistrationOptions, AuthenticationOptions, RegistrationAdmitted,
         AuthenticationDone, AuthenticationRefused, Wipe, Restart, Tick
<1>2. ASSUME NEW r \in Requests, RegistrationVerify(r)
      PROVE  won[t] = NothingWon /\ issued[t].kind = kind
             /\ clock <= issued[t].at + TTL /\ boot = issued[t].boot
  <2>1. won' = [won EXCEPT ![flight[r].token]["reg"] = @ + 1] /\ Answerable(flight[r].token, "reg")
        /\ flight[r].token \in Tokens
    BY <1>2, RegistrationFacts
  <2>2. flight[r].token = t /\ kind = "reg"
    BY <2>1 DEF TypeOK
  <2>3. pending' = Popped(t)
    BY <1>2, <2>2 DEF RegistrationVerify
  <2> QED
    BY <2>1, <2>2, <2>3, AnswersAreFresh
<1>3. ASSUME NEW r \in Requests, NEW u \in Tokens, NEW k \in Passkeys, AuthenticationVerify(r, u, k)
      PROVE  won[t] = NothingWon /\ issued[t].kind = kind
             /\ clock <= issued[t].at + TTL /\ boot = issued[t].boot
  <2>1. won' = [won EXCEPT ![u]["auth"] = @ + 1] /\ Answerable(u, "auth") /\ pending' = Popped(u)
    BY <1>3 DEF AuthenticationVerify
  <2>2. u = t /\ kind = "auth"
    BY <2>1 DEF TypeOK
  <2> QED
    BY <2>1, <2>2, AnswersAreFresh
<1> QED
  BY <1>1, <1>2, <1>3

\* Ceremonies are completed in time, once, as what they were begun as, with the
\* process that began them.
THEOREM CeremoniesAllFresh == Spec => CeremoniesAreFresh
<1>1. TypeOK /\ CeremonyInv /\ [Next]_vars =>
        [\A t \in Tokens, kind \in Ceremonies : won'[t][kind] # won[t][kind] =>
            /\ won[t] = NothingWon
            /\ issued[t].kind = kind
            /\ clock <= issued[t].at + TTL
            /\ boot = issued[t].boot]_vars
  BY WinsAreFresh
<1> QED
  BY <1>1, CeremonyAlways, PTL DEF Spec, CeremoniesAreFresh

LEMMA CountersKept ==
    ASSUME TypeOK, CeremonyInv, [Next]_vars, NEW k \in registered, k \in registered'
    PROVE  count'[k] >= count[k]
<1> USE DEF store, memory, ghosts
<1>1. count[k] \in Nat
  BY Limits DEF TypeOK
<1>2. CASE UNCHANGED count
  BY <1>1, <1>2
<1>3. ASSUME NEW r \in Requests, RegistrationVerify(r)
      PROVE  UNCHANGED count
  BY <1>3 DEF RegistrationVerify, Registers
<1>4. ASSUME NEW r \in Requests, AuthenticationDone(r), flight[r].key = k
      PROVE  count'[k] >= count[k]
  BY <1>4 DEF AuthenticationDone, CeremonyInv, LoopInv, TypeOK
<1>5. ASSUME NEW r \in Requests, AuthenticationDone(r), flight[r].key # k
      PROVE  count'[k] = count[k]
  BY <1>5 DEF AuthenticationDone, TypeOK
<1>6. \/ UNCHANGED count
      \/ \E r \in Requests : RegistrationVerify(r) \/ AuthenticationDone(r)
  BY DEF Next, vars, RegistrationOptions, AuthenticationOptions, RegistrationAdmitted,
         AuthenticationVerify, AuthenticationRefused, Wipe, Restart, Tick
<1> QED
  BY <1>1, <1>2, <1>3, <1>4, <1>5, <1>6

\* No counter falls while its passkey is registered.
THEOREM CountersAllKept == Spec => CountersNeverFall
<1>1. TypeOK /\ CeremonyInv /\ [Next]_vars =>
        [\A k \in registered \cap registered' : count'[k] >= count[k]]_vars
  BY CountersKept
<1> QED
  BY <1>1, CeremonyAlways, PTL DEF Spec, CountersNeverFall

\* The detailed ceremonies implement the table of at most one passkey.
THEOREM PasskeyTableImplemented == Spec => ImplementsPasskeyStore
<1>1. Init => Abstract!Init
  BY DEF Init, Abstract!Init
<1>2. TypeOK /\ [Next]_vars => [Abstract!Next]_registered
  <2> SUFFICES ASSUME TypeOK, [Next]_vars PROVE [Abstract!Next]_registered
    OBVIOUS
  <2>1. ASSUME NEW r \in Requests, RegistrationVerify(r)
        PROVE  [Abstract!Next]_registered
    BY <2>1, RegistrationFacts DEF store, Abstract!Next, Abstract!Register
  <2>2. CASE Wipe
    BY <2>2 DEF Wipe, Abstract!Next, Abstract!Wipe
  <2>3. \/ UNCHANGED registered
        \/ Wipe \/ \E r \in Requests : RegistrationVerify(r)
    BY DEF Next, vars, store, memory, ghosts, RegistrationOptions, AuthenticationOptions,
           RegistrationAdmitted, AuthenticationVerify, AuthenticationDone,
           AuthenticationRefused, Restart, Tick
  <2> QED
    BY <2>1, <2>2, <2>3
<1>3. Spec => []TypeOK
  BY TypeCorrect
<1> QED
  BY <1>1, <1>2, <1>3, PTL DEF Spec, ImplementsPasskeyStore, Abstract!Spec

-----------------------------------------------------------------------------
(* Answers.                                                                *)

\* A session adds to what KeyAnswer and GateAnswer let through, and to the roles
\* only where no key had given one.
LEMMA SignedInStillPasses ==
    ASSUME NEW cfg \in Configs, NEW passkey \in BOOLEAN, NEW r \in Inputs,
           Handled(cfg, passkey, r)
    PROVE  Handled(cfg, passkey, [r EXCEPT !.session = TRUE])
<1> DEFINE s == [r EXCEPT !.session = TRUE]
<1>1. /\ s.method = r.method /\ s.path = r.path /\ s.json = r.json /\ s.key = r.key
      /\ s.session = TRUE /\ r.session \in BOOLEAN
  BY DEF Inputs, RequestOf
<1>2. Pass.kind = "pass" /\ \A n : Refuse(n) # Pass
  BY DEF Pass, Refuse
<1>3. \A p, m : RedirectTo(p, m) # Pass
  <2> SUFFICES ASSUME NEW p, NEW m PROVE RedirectTo(p, m).kind # Pass.kind
    OBVIOUS
  <2> QED
    BY DEF RedirectTo, Pass
<1>4. /\ LocaleAnswer(r) = Pass /\ KeyAnswer(cfg, r) = Pass
      /\ GateAnswer(cfg, passkey, r) = Pass /\ RbacAnswer(cfg, r) = Pass
      /\ [method |-> r.method, path |-> r.path] \in Routes
  BY <1>2, Zenon DEF Handled, Answer
<1>5. LocaleAnswer(s) = Pass
  BY <1>1, <1>4, Zenon DEF LocaleAnswer
<1>6. KeyAnswer(cfg, s) = Pass
  <2>1. ExemptFromKey(s) <=> ExemptFromKey(r)
    BY <1>1, Zenon DEF ExemptFromKey
  <2>2. (HasKey(cfg, s) <=> HasKey(cfg, r)) /\ (HasSession(cfg, r) => HasSession(cfg, s))
    BY <1>1, Zenon DEF HasKey, HasSession
  <2> QED
    BY <1>2, <1>4, <2>1, <2>2, ZenonT(40) DEF KeyAnswer
<1>7. GateAnswer(cfg, passkey, s) = Pass
  <2>1. PublicUnauthenticated(s) <=> PublicUnauthenticated(r)
    BY <1>1, Zenon DEF PublicUnauthenticated
  <2>2. HasSession(cfg, r) => HasSession(cfg, s)
    BY <1>1, Zenon DEF HasSession
  <2> QED
    BY <1>1, <1>2, <1>3, <1>4, <2>1, <2>2, ZenonT(40) DEF GateAnswer
<1>8. RbacAnswer(cfg, s) = Pass
  <2>1. (RbacPublic(s) <=> RbacPublic(r)) /\ RequiredRole(s) = RequiredRole(r)
    <3>1. RbacPublic(s) <=> RbacPublic(r)
      BY <1>1, Zenon DEF RbacPublic
    <3>2. RequiredRole(s) = RequiredRole(r)
      BY <1>1, SMT DEF RequiredRole
    <3> QED
      BY <3>1, <3>2
  <2>2. CASE ~cfg.rbac \/ RbacPublic(r)
    BY <2>1, <2>2, Zenon DEF RbacAnswer
  <2>3. CASE ~(~cfg.rbac \/ RbacPublic(r))
    <3>1. /\ RequiredRole(r) # "none" /\ EffectiveRole(cfg, r) # "none"
          /\ EffectiveRole(cfg, r) \in {RequiredRole(r), "admin"}
      BY <1>2, <1>4, <2>3, ZenonT(40) DEF RbacAnswer
    <3>2. HasKey(cfg, r) \/ HasSession(cfg, r)
      BY <3>1, Zenon DEF EffectiveRole
    <3>3. (HasKey(cfg, s) <=> HasKey(cfg, r)) /\ (HasSession(cfg, r) => HasSession(cfg, s))
      BY <1>1, Zenon DEF HasKey, HasSession
    <3>4. EffectiveRole(cfg, s) = EffectiveRole(cfg, r)
      BY <3>2, <3>3, Zenon DEF EffectiveRole
    <3> QED
      BY <2>1, <3>1, <3>4, Zenon DEF RbacAnswer
  <2> QED
    BY <2>2, <2>3
<1> QED
  BY <1>1, <1>4, <1>5, <1>6, <1>7, <1>8, Zenon DEF Handled, Answer

\* Signing in never loses access, for any paths and roles.
THEOREM SigningInNeverHurts == Spec => []SessionNeverHurts
<1>1. SessionNeverHurts
  BY SignedInStillPasses DEF SessionNeverHurts, SessionNeverHurtsTable, AnyPasskey
<1> QED
  BY <1>1, PTL

-----------------------------------------------------------------------------
(* Redirects.                                                              *)

LEMMA Kinds ==
    /\ ~Redirected(Pass) /\ \A n : ~Redirected(Refuse(n)) /\ Refuse(n) # Pass
    /\ \A p, m : /\ Redirected(RedirectTo(p, m)) /\ RedirectTo(p, m) # Pass
                 /\ RedirectTo(p, m).to = p /\ RedirectTo(p, m).method = m
<1>1. ~Redirected(Pass) /\ \A n : ~Redirected(Refuse(n)) /\ Refuse(n).kind # Pass.kind
  BY DEF Redirected, Pass, Refuse
<1>2. \A p, m : /\ Redirected(RedirectTo(p, m)) /\ RedirectTo(p, m).kind # Pass.kind
                /\ RedirectTo(p, m).to = p /\ RedirectTo(p, m).method = m
  BY DEF Redirected, Pass, RedirectTo
<1> QED
  BY <1>1, <1>2, Zenon

\* Only two layers redirect: the prefix first, then the gate.
LEMMA WhoRedirects ==
    ASSUME NEW cfg, NEW passkey, NEW r, Redirected(Answer(cfg, passkey, r))
    PROVE  \/ LocaleAnswer(r) # Pass /\ Answer(cfg, passkey, r) = LocaleAnswer(r)
           \/ /\ LocaleAnswer(r) = Pass /\ KeyAnswer(cfg, r) = Pass
              /\ Answer(cfg, passkey, r) = RedirectTo(<<First(r.path), "login">>, "GET")
              /\ cfg.webauthn /\ HasSlug(r.path) /\ ~HasSession(cfg, r)
              /\ ~PublicUnauthenticated(r) /\ r.method = "GET"
<1>1. ~Redirected(KeyAnswer(cfg, r))
  <2>1. CASE ExemptFromKey(r) \/ ~cfg.requireKey
    BY <2>1, Kinds, SMT DEF KeyAnswer
  <2>2. CASE ~(ExemptFromKey(r) \/ ~cfg.requireKey) /\ ~cfg.keyConfigured
    BY <2>2, Kinds, SMT DEF KeyAnswer
  <2>3. CASE ~(ExemptFromKey(r) \/ ~cfg.requireKey) /\ ~~cfg.keyConfigured
    BY <2>3, Kinds, SMT DEF KeyAnswer
  <2> QED
    BY <2>1, <2>2, <2>3, Zenon
<1>2. ~Redirected(RbacAnswer(cfg, r))
  <2>1. CASE ~cfg.rbac \/ RbacPublic(r)
    BY <2>1, Kinds, SMT DEF RbacAnswer
  <2>2. CASE ~(~cfg.rbac \/ RbacPublic(r)) /\ RequiredRole(r) = "none"
    BY <2>2, Kinds, SMT DEF RbacAnswer
  <2>3. CASE /\ ~(~cfg.rbac \/ RbacPublic(r)) /\ RequiredRole(r) # "none"
             /\ EffectiveRole(cfg, r) = "none"
    BY <2>3, Kinds, SMT DEF RbacAnswer
  <2>4. CASE /\ ~(~cfg.rbac \/ RbacPublic(r)) /\ RequiredRole(r) # "none"
             /\ EffectiveRole(cfg, r) # "none"
    BY <2>4, Kinds, SMT DEF RbacAnswer
  <2> QED
    BY <2>1, <2>2, <2>3, <2>4, Zenon
<1>3. CASE LocaleAnswer(r) # Pass
  BY <1>3, Zenon DEF Answer
<1>4. CASE LocaleAnswer(r) = Pass
  <2>1. KeyAnswer(cfg, r) = Pass
    BY <1>1, <1>4, Zenon DEF Answer
  <2>2. GateAnswer(cfg, passkey, r) # Pass
    <3> SUFFICES ASSUME GateAnswer(cfg, passkey, r) = Pass PROVE FALSE
      OBVIOUS
    <3>1. Answer(cfg, passkey, r) \in {RbacAnswer(cfg, r), Pass, Refuse(404)}
      BY <1>4, <2>1, Zenon DEF Answer
    <3> QED
      BY <1>2, <3>1, Kinds
  <2>3. Answer(cfg, passkey, r) = GateAnswer(cfg, passkey, r)
    BY <1>4, <2>1, <2>2, Zenon DEF Answer
  <2>4. /\ cfg.webauthn /\ HasSlug(r.path) /\ ~HasSession(cfg, r)
        /\ ~PublicUnauthenticated(r)
    BY <2>2, Zenon DEF GateAnswer
  <2>5. /\ r.method = "GET"
        /\ GateAnswer(cfg, passkey, r) = RedirectTo(<<First(r.path), "login">>, "GET")
    <3>1. CASE r.method = "GET"
      BY <2>2, <3>1, Zenon DEF GateAnswer
    <3>2. CASE r.method # "GET"
      BY <2>2, <2>3, <3>2, Kinds, Zenon DEF GateAnswer
    <3> QED
      BY <3>1, <3>2
  <2> QED
    BY <1>4, <2>1, <2>3, <2>4, <2>5
<1> QED
  BY <1>3, <1>4

LEMMA RoutesAreSequences == \E S : \A route \in Routes : route.path \in Seq(S)
<1> DEFINE S == {"about", "json", "auth", "webauthn", "status", "findings", "csv", "id",
                 "health", "heatmap", "list", "logs", "report", "reports", "docs", "static",
                 "file", "sessions", "technician", "registration", "authentication", "logout",
                 "scan", "scan_database", "scan_pdf", "start", "config", "assessment",
                 "export", "help", "login", "en"}
           Pages == {<<"config">>, <<"assessment">>} \cup HtmlPages
           Prefixed == {<<"en">> \o p : p \in Pages}
           Triples == {<<"auth", "webauthn", "status">>, <<"findings", "id", "csv">>,
                 <<"sessions", "id", "technician">>, <<"auth", "webauthn", "registration">>,
                 <<"auth", "webauthn", "authentication">>, <<"auth", "webauthn", "logout">>}
           Pairs == {<<"about", "json">>, <<"findings", "csv">>, <<"findings", "id">>,
                 <<"heatmap", "id">>, <<"logs", "id">>, <<"reports", "id">>,
                 <<"static", "file">>, <<"sessions", "id">>}
           Singles == {<<"findings">>, <<"health">>, <<"heatmap">>, <<"list">>, <<"logs">>,
                 <<"report">>, <<"status">>, <<"docs">>, <<"scan">>, <<"scan_database">>,
                 <<"scan_pdf">>, <<"start">>}
<1>1. \A p \in Singles : \E a \in S : p = <<a>>
  OBVIOUS
<1>2. \A p \in Pairs : \E a, b \in S : p = <<a, b>>
  OBVIOUS
<1>3. \A p \in Triples : \E a, b, c \in S : p = <<a, b, c>>
  <2> SUFFICES ASSUME NEW p \in Triples PROVE \E a, b, c \in S : p = <<a, b, c>>
    OBVIOUS
  <2>1. CASE p = <<"auth", "webauthn", "status">>
    BY <2>1
  <2>2. CASE p = <<"findings", "id", "csv">>
    BY <2>2
  <2>3. CASE p = <<"sessions", "id", "technician">>
    BY <2>3
  <2>4. CASE p = <<"auth", "webauthn", "registration">>
    BY <2>4
  <2>5. CASE p = <<"auth", "webauthn", "authentication">>
    BY <2>5
  <2>6. CASE p = <<"auth", "webauthn", "logout">>
    BY <2>6
  <2> QED
    BY <2>1, <2>2, <2>3, <2>4, <2>5, <2>6
<1>4. \A p \in Pages : p = <<>> \/ (\E a \in S : p = <<a>>) \/ (\E a, b \in S : p = <<a, b>>)
  BY DEF HtmlPages
<1>5. "en" \in S
  OBVIOUS
<1>6. \A route \in Routes : route.path \in Singles \cup Pairs \cup Triples \cup Prefixed
  <2>1. \A route \in Routes : route.path \in GetPaths \cup PatchPaths \cup PostPaths
    BY DEF Routes
  <2>2. GetPaths \subseteq Singles \cup Pairs \cup Triples \cup Prefixed
    BY DEF GetPaths, PrefixedPaths, Slugs
  <2>3. PatchPaths \subseteq Pairs \cup Triples
    BY DEF PatchPaths
  <2>4. PostPaths \subseteq Singles \cup Triples \cup Prefixed
    <3>1. PrefixedPaths({<<"config">>, <<"assessment">>}) \subseteq Prefixed
      <4>1. {<<"config">>, <<"assessment">>} \subseteq Pages
        OBVIOUS
      <4> HIDE DEF Pages
      <4>2. \A pages : pages \subseteq Pages => PrefixedPaths(pages) \subseteq Prefixed
        BY DEF PrefixedPaths, Slugs
      <4> QED
        BY <4>1, <4>2, Zenon
    <3>2. {<<"scan">>, <<"scan_database">>, <<"scan_pdf">>, <<"start">>} \subseteq Singles
      OBVIOUS
    <3>3. {<<"auth", "webauthn", "registration">>, <<"auth", "webauthn", "authentication">>,
           <<"auth", "webauthn", "logout">>} \subseteq Triples
      OBVIOUS
    <3> HIDE DEF Singles, Triples, Prefixed
    <3> QED
      BY <3>1, <3>2, <3>3 DEF PostPaths
  <2> QED
    BY <2>1, <2>2, <2>3, <2>4
<1> HIDE DEF S, Pages, Singles, Pairs, Triples
<1>7. \A p \in Singles \cup Pairs \cup Triples \cup Pages : p \in Seq(S)
  <2> SUFFICES ASSUME NEW p \in Singles \cup Pairs \cup Triples \cup Pages PROVE p \in Seq(S)
    OBVIOUS
  <2>1. CASE p = <<>>
    BY <2>1
  <2>2. CASE \E a \in S : p = <<a>>
    BY <2>2
  <2>3. CASE \E a, b \in S : p = <<a, b>>
    BY <2>3
  <2>4. CASE \E a, b, c \in S : p = <<a, b, c>>
    BY <2>4
  <2> QED
    BY <1>1, <1>2, <1>3, <1>4, <2>1, <2>2, <2>3, <2>4, Zenon
<1>8. \A p \in Prefixed : p \in Seq(S)
  <2> SUFFICES ASSUME NEW p \in Prefixed PROVE p \in Seq(S)
    OBVIOUS
  <2>1. <<"en">> \in Seq(S)
    BY <1>5
  <2>2. PICK page \in Pages : p = <<"en">> \o page
    OBVIOUS
  <2>3. page \in Seq(S)
    BY <1>7, <2>2
  <2> HIDE DEF Prefixed
  <2> QED
    BY <2>1, <2>2, <2>3
<1> QED
  BY <1>6, <1>7, <1>8

LEMMA PathsAreSequences == \A p \in AllPaths : \E S : p \in Seq(S)
BY RoutesAreSequences, PathsAssumption DEF AllPaths

\* What the prefix layer answers.
LEMMA PrefixRedirects ==
    ASSUME NEW r \in Inputs, LocaleAnswer(r) # Pass
    PROVE  \E S : \E page \in Seq(S) : \E m :
               /\ LocaleAnswer(r) = RedirectTo(<<"en">> \o page, m)
               /\ page \in UnprefixedHtmlPaths \/ (r.path # <<>> /\ page = Page(r.path))
<1>1. PICK S : r.path \in Seq(S)
  BY PathsAreSequences DEF Inputs, RequestOf
<1>2. CASE r.path \in UnprefixedHtmlPaths
  BY <1>1, <1>2, Zenon DEF LocaleAnswer
<1>3. CASE r.path \notin UnprefixedHtmlPaths
  <2>1. r.path # <<>>
    BY <1>3 DEF UnprefixedHtmlPaths
  <2>2. Tail(r.path) \in Seq(S)
    BY <1>1, <2>1
  <2>3. \E m : LocaleAnswer(r) = RedirectTo(<<"en">> \o Tail(r.path), m)
    BY <1>3, Zenon DEF LocaleAnswer
  <2> QED
    BY <2>1, <2>2, <2>3, Zenon DEF Page
<1> QED
  BY <1>2, <1>3

\* A path with a locale's prefix is not redirected by that layer.
LEMMA PrefixedOnce ==
    ASSUME NEW S, NEW page \in Seq(S), NEW r, r.path = <<"en">> \o page
    PROVE  First(r.path) = "en" /\ HasSlug(r.path) /\ LocaleAnswer(r) = Pass
<1>1. r.path # <<>> /\ Head(r.path) = "en"
  OBVIOUS
<1>2. First(r.path) = "en" /\ HasSlug(r.path)
  BY <1>1 DEF First, HasSlug, Slugs
<1> QED
  BY <1>2, Zenon DEF LocaleAnswer

\* GET of the sign-in page passes every layer.
LEMMA LoginPasses ==
    ASSUME NEW cfg, NEW passkey, NEW r, r.method = "GET", r.path = LoginPage
    PROVE  Handled(cfg, passkey, r)
<1>1. /\ First(r.path) = "en" /\ HasSlug(r.path) /\ LocaleAnswer(r) = Pass
      /\ Page(r.path) = <<"login">>
  <2>1. r.path = <<"en">> \o <<"login">> /\ <<"login">> \in Seq({"login"})
    BY DEF LoginPage
  <2>2. Page(r.path) = <<"login">>
    BY DEF LoginPage, Page
  <2> QED
    BY <2>1, <2>2, PrefixedOnce
<1>2. KeyAnswer(cfg, r) = Pass
  BY <1>1, Zenon DEF KeyAnswer, ExemptFromKey
<1>3. <<"login">> \in PublicPages /\ "GET" \in Reads
  BY DEF PublicPages, Reads
<1>4. GateAnswer(cfg, passkey, r) = Pass
  BY <1>1, <1>3, Zenon DEF GateAnswer, PublicUnauthenticated
<1>5. RbacAnswer(cfg, r) = Pass
  BY <1>1, <1>3, Zenon DEF RbacAnswer, RbacPublic
<1>6. [method |-> "GET", path |-> LoginPage] \in Routes
  BY DEF Routes, GetPaths, PrefixedPaths, Slugs, HtmlPages, LoginPage
<1> QED
  BY <1>1, <1>2, <1>4, <1>5, <1>6, Zenon DEF Handled, Answer

\* The target of a redirect has a locale's prefix.
LEMMA RedirectsPrefix ==
    ASSUME NEW cfg, NEW passkey, NEW r \in Inputs, Redirected(Answer(cfg, passkey, r))
    PROVE  \E S : \E page \in Seq(S) : Answer(cfg, passkey, r).to = <<"en">> \o page
<1>1. CASE LocaleAnswer(r) # Pass /\ Answer(cfg, passkey, r) = LocaleAnswer(r)
  <2>1. PICK S : \E page \in Seq(S) : \E m : LocaleAnswer(r) = RedirectTo(<<"en">> \o page, m)
    BY <1>1, PrefixRedirects, Zenon
  <2>2. PICK page \in Seq(S) : \E m : LocaleAnswer(r) = RedirectTo(<<"en">> \o page, m)
    BY <2>1
  <2>3. Answer(cfg, passkey, r).to = <<"en">> \o page
    BY <1>1, <2>2, Kinds
  <2> QED
    BY <2>3
<1>2. CASE /\ Answer(cfg, passkey, r) = RedirectTo(<<First(r.path), "login">>, "GET")
           /\ HasSlug(r.path)
  <2>1. First(r.path) = "en"
    BY <1>2 DEF HasSlug, Slugs
  <2>2. Answer(cfg, passkey, r).to = <<"en", "login">>
    BY <1>2, <2>1, Kinds
  <2>3. <<"en", "login">> = <<"en">> \o <<"login">> /\ <<"login">> \in Seq({"login"})
    OBVIOUS
  <2> QED
    BY <2>2, <2>3
<1> QED
  BY <1>1, <1>2, WhoRedirects

\* From a path with the prefix a redirect leads to the sign-in page only.
LEMMA PrefixedLeadsToLogin ==
    ASSUME NEW cfg, NEW passkey, NEW r, NEW S, NEW page \in Seq(S), r.path = <<"en">> \o page,
           Redirected(Answer(cfg, passkey, r))
    PROVE  /\ Answer(cfg, passkey, r).to = LoginPage
           /\ Answer(cfg, passkey, r).method = "GET"
<1>1. First(r.path) = "en" /\ LocaleAnswer(r) = Pass
  BY PrefixedOnce
<1>2. Answer(cfg, passkey, r) = RedirectTo(<<"en", "login">>, "GET")
  BY <1>1, WhoRedirects
<1> QED
  BY <1>2, Kinds DEF LoginPage

LEMMA FollowedIs ==
    ASSUME NEW r \in Inputs, NEW a PROVE
    /\ Followed(r, a).method = a.method /\ Followed(r, a).path = a.to
    /\ \A b : /\ Followed(Followed(r, a), b).method = b.method
              /\ Followed(Followed(r, a), b).path = b.to
              /\ Followed(r, b).method = b.method /\ Followed(r, b).path = b.to
BY DEF Inputs, RequestOf, Followed

\* Two redirects are the most that a client is sent through, from any path.
THEOREM RedirectsAllEnd == Spec => []RedirectsEnd
<1>1. ASSUME NEW passkey \in BOOLEAN, NEW cfg \in Configs, NEW r \in Inputs
      PROVE  LET first  == Answer(cfg, passkey, r)
                 second == Answer(cfg, passkey, Followed(r, first))
             IN  \/ ~Redirected(first)
                 \/ ~Redirected(second)
                 \/ ~Redirected(Answer(cfg, passkey, Followed(r, second)))
  <2> DEFINE first  == Answer(cfg, passkey, r)
             second == Answer(cfg, passkey, Followed(r, first))
  <2> SUFFICES ASSUME Redirected(first), Redirected(second)
               PROVE  ~Redirected(Answer(cfg, passkey, Followed(r, second)))
    OBVIOUS
  <2>0. PICK S : \E page \in Seq(S) : first.to = <<"en">> \o page
    BY RedirectsPrefix
  <2>1. \E page \in Seq(S) : Followed(r, first).path = <<"en">> \o page
    BY <2>0, FollowedIs, Zenon
  <2>2. second.to = LoginPage /\ second.method = "GET"
    BY <2>1, PrefixedLeadsToLogin
  <2>3. /\ Followed(r, second).method = "GET"
        /\ Followed(r, second).path = LoginPage
    BY <2>2, FollowedIs, Zenon
  <2> QED
    BY <2>3, LoginPasses, Kinds, Zenon DEF Handled
<1>2. RedirectsEnd
  BY <1>1 DEF RedirectsEnd, RedirectsEndTable, AnyPasskey
<1> QED
  BY <1>2, PTL

LEMMA PrefixCancels ==
    ASSUME NEW S, NEW page \in Seq(S), <<"en">> \o page = <<"en", "login">>
    PROVE  page = <<"login">>
<1>1. Len(page) = 1
  <2>1. Len(<<"en">> \o page) = 1 + Len(page) /\ Len(page) \in Nat
    OBVIOUS
  <2>2. Len(<<"en", "login">>) = 2
    OBVIOUS
  <2>3. Len(<<"en">> \o page) = 2
    BY <2>2, Zenon
  <2> QED
    BY <2>1, <2>3
<1>2. page[1] = "login"
  <2>1. (<<"en">> \o page)[2] = page[1]
    BY <1>1
  <2>2. <<"en", "login">>[2] = "login"
    OBVIOUS
  <2> QED
    BY <2>1, <2>2, Zenon
<1> QED
  BY <1>1, <1>2

\* The gate alone sends a client from another page to the sign-in page.
LEMMA OnlyTheGateSends ==
    ASSUME NEW cfg, NEW passkey, NEW r \in Inputs, Redirected(Answer(cfg, passkey, r)),
           Answer(cfg, passkey, r).to = LoginPage, ~AsksForLogin(r)
    PROVE  /\ LocaleAnswer(r) = Pass /\ KeyAnswer(cfg, r) = Pass
           /\ cfg.webauthn /\ HasSlug(r.path) /\ ~HasSession(cfg, r)
<1>1. ASSUME LocaleAnswer(r) # Pass, Answer(cfg, passkey, r) = LocaleAnswer(r) PROVE FALSE
  <2>1. PICK S : \E page \in Seq(S) : \E m :
            /\ LocaleAnswer(r) = RedirectTo(<<"en">> \o page, m)
            /\ page \in UnprefixedHtmlPaths \/ (r.path # <<>> /\ page = Page(r.path))
    BY <1>1, PrefixRedirects, Zenon
  <2>2. PICK page \in Seq(S) : \E m :
            /\ LocaleAnswer(r) = RedirectTo(<<"en">> \o page, m)
            /\ page \in UnprefixedHtmlPaths \/ (r.path # <<>> /\ page = Page(r.path))
    BY <2>1
  <2>3. page = <<"login">>
    <3>1. <<"en">> \o page = <<"en", "login">>
      <4>1. Answer(cfg, passkey, r).to = <<"en">> \o page
        BY <1>1, <2>2, Kinds, Zenon
      <4> QED
        BY <4>1 DEF LoginPage
    <3> QED
      BY <3>1, PrefixCancels
  <2>4. page \notin UnprefixedHtmlPaths
    BY <2>3 DEF UnprefixedHtmlPaths
  <2> QED
    BY <2>2, <2>3, <2>4 DEF AsksForLogin
<1> QED
  BY <1>1, WhoRedirects

\* The endpoints and the script of the sign-in page, for a client whose key, or
\* want of one, the key layer let through.
LEMMA AuthPasses ==
    ASSUME NEW cfg, NEW passkey, NEW r, NEW last \in {"status", "authentication"},
           r.path = <<"auth", "webauthn", last>>,
           [method |-> r.method, path |-> r.path] \in Routes
    PROVE  Handled(cfg, passkey, r)
<1>1. First(r.path) = "auth" /\ Second(r.path) = "webauthn" /\ ~HasSlug(r.path)
  BY DEF First, Second, HasSlug, Slugs
<1>2. "auth" \in ApiTrees
  BY DEF ApiTrees
<1>3. LocaleAnswer(r) = Pass
  BY <1>1, <1>2, Zenon DEF LocaleAnswer, IsApiOrAssetPath
<1>4. KeyAnswer(cfg, r) = Pass
  BY <1>1, Zenon DEF KeyAnswer, ExemptFromKey
<1>5. GateAnswer(cfg, passkey, r) = Pass
  BY <1>1, Zenon DEF GateAnswer
<1>6. RbacAnswer(cfg, r) = Pass
  BY <1>1, Zenon DEF RbacAnswer, RbacPublic
<1> QED
  BY <1>3, <1>4, <1>5, <1>6, Zenon DEF Handled, Answer

LEMMA StaticPasses ==
    ASSUME NEW cfg, NEW passkey, NEW r, KeyAnswer(cfg, r) = Pass,
           r.path = <<"static", "file">>, r.method = "GET"
    PROVE  Handled(cfg, passkey, r)
<1>1. First(r.path) = "static" /\ ~HasSlug(r.path)
  BY DEF First, HasSlug, Slugs
<1>2. "static" \in ApiTrees
  BY DEF ApiTrees
<1>3. LocaleAnswer(r) = Pass
  BY <1>1, <1>2, Zenon DEF LocaleAnswer, IsApiOrAssetPath
<1>4. GateAnswer(cfg, passkey, r) = Pass
  BY <1>1, Zenon DEF GateAnswer
<1>5. RbacAnswer(cfg, r) = Pass
  BY <1>1, Zenon DEF RbacAnswer, RbacPublic
<1>6. [method |-> r.method, path |-> r.path] \in Routes
  BY DEF Routes, GetPaths
<1> QED
  BY <1>3, <1>4, <1>5, <1>6, Zenon DEF Handled, Answer

\* Whoever the gate sends to the sign-in page can sign in and go on.
THEOREM AllSentToSignInMaySignIn == Spec => []SentToSignInMaySignIn
<1>1. ASSUME NEW passkey \in BOOLEAN, NEW cfg \in Configs, NEW r \in Inputs,
             Redirected(Answer(cfg, passkey, r)),
             Answer(cfg, passkey, r).to = LoginPage, ~AsksForLogin(r)
      PROVE  /\ \A s \in SignInRequests(r) : Handled(cfg, passkey, s)
             /\ ~Redirected(Answer(cfg, passkey, [r EXCEPT !.session = TRUE]))
  <2> DEFINE ask(method, path) == [r EXCEPT !.method = method, !.path = path, !.session = FALSE]
             in == [r EXCEPT !.session = TRUE]
  <2>1. /\ LocaleAnswer(r) = Pass /\ KeyAnswer(cfg, r) = Pass
        /\ cfg.webauthn /\ HasSlug(r.path) /\ ~HasSession(cfg, r)
        /\ ~PublicUnauthenticated(r)
    BY <1>1, OnlyTheGateSends, WhoRedirects, Zenon
  <2>2. \A m, p : ask(m, p).method = m /\ ask(m, p).path = p /\ ask(m, p).key = r.key
    BY DEF Inputs, RequestOf
  <2>3. Handled(cfg, passkey, ask("GET", LoginPage))
    BY <2>2, LoginPasses
  <2>4. Handled(cfg, passkey, ask("GET", <<"static", "file">>))
    <3>1. ~ExemptFromKey(r)
      BY <2>1 DEF ExemptFromKey, PublicUnauthenticated, PublicPages, HasSlug, Slugs, First
    <3>2. ~cfg.requireKey \/ (cfg.keyConfigured /\ HasKey(cfg, r))
      BY <2>1, <3>1, Kinds, ZenonT(40) DEF KeyAnswer
    <3>3. KeyAnswer(cfg, ask("GET", <<"static", "file">>)) = Pass
      BY <2>2, <3>2, Zenon DEF KeyAnswer, HasKey
    <3> QED
      BY <2>2, <3>3, StaticPasses
  <2>5. Handled(cfg, passkey, ask("GET", <<"auth", "webauthn", "status">>))
    <3>1. [method |-> "GET", path |-> <<"auth", "webauthn", "status">>] \in Routes
      BY DEF Routes, GetPaths
    <3> QED
      BY <2>2, <3>1, AuthPasses, ZenonT(40)
  <2>6. Handled(cfg, passkey, ask("POST", <<"auth", "webauthn", "authentication">>))
    <3>1. [method |-> "POST", path |-> <<"auth", "webauthn", "authentication">>] \in Routes
      BY DEF Routes, PostPaths
    <3> QED
      BY <2>2, <3>1, AuthPasses, ZenonT(40)
  <2>7. ~Redirected(Answer(cfg, passkey, in))
    <3>1. in.method = r.method /\ in.path = r.path /\ in.json = r.json /\ in.session = TRUE
      BY DEF Inputs, RequestOf
    <3>2. LocaleAnswer(in) = Pass
      BY <2>1, <3>1, Zenon DEF LocaleAnswer
    <3>3. HasSession(cfg, in)
      BY <2>1, <3>1, Zenon DEF HasSession
    <3> QED
      BY <3>2, <3>3, WhoRedirects, Zenon
  <2>8. \A s \in SignInRequests(r) : Handled(cfg, passkey, s)
    BY <2>3, <2>4, <2>5, <2>6, Zenon DEF SignInRequests
  <2> QED
    BY <2>7, <2>8
<1>2. SentToSignInMaySignIn
  BY <1>1 DEF SentToSignInMaySignIn, SentToSignInMaySignInTable, AnyPasskey
<1> QED
  BY <1>2, PTL
=============================================================================
