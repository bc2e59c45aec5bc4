------------------------------ MODULE Listener ------------------------------
(***************************************************************************)
(* Whether and how `main.py --web` listens: the address, the gate in front *)
(* of an address that other hosts reach, and the transport.  Access says   *)
(* what the server then answers.                                           *)
(***************************************************************************)
EXTENDS Access

Addresses == {"", "127.0.0.1", "0.0.0.0"}
FileNames == {"", "there", "missing"}

\* effective_api_key_configured; the loader finds the key by the same rule.
EffectiveKey(s) == s.yamlKey \/ (s.envKeyNamed /\ s.envKeySet)

\* From the command line, the file of --config and the environment, and what the
\* application loads for itself: CONFIG_PATH, else ./config.yaml, else defaults.
\* same: is that what the gate has read?  A demo writes a file and names it in
\* CONFIG_PATH; nothing else makes --config and CONFIG_PATH agree.
Settings ==
    {s \in [demo : BOOLEAN, cliHost : Addresses, apiHost : Addresses, envHost : Addresses,
            requireKey : BOOLEAN, yamlKey : BOOLEAN, envKeyNamed : BOOLEAN, envKeySet : BOOLEAN,
            cert : FileNames, certKey : FileNames, insecure : BOOLEAN,
            same : BOOLEAN, appRequiresKey : BOOLEAN, appHasKey : BOOLEAN] :
        /\ s.demo => /\ s.apiHost = "127.0.0.1" /\ s.insecure /\ s.same
                     /\ ~s.requireKey /\ ~s.yamlKey /\ ~s.envKeyNamed
        /\ s.same => s.appRequiresKey = s.requireKey /\ s.appHasKey = EffectiveKey(s)}

\* resolve_api_host, with main's way of a demo
Host(s) ==
    IF s.demo THEN "127.0.0.1"
    ELSE IF s.cliHost # "" THEN s.cliHost
    ELSE IF s.apiHost # "" THEN s.apiHost
    ELSE IF s.envHost # "" THEN s.envHost
    ELSE "127.0.0.1"

\* api_bind_exposes_non_loopback
Exposed(host) == host = "0.0.0.0"

\* Mutant of AuthBoundaryResolved: a key that nobody asks for is enough.
SomeKeyConfigured(s) == EffectiveKey(s)

\* auth_boundary_resolved
AuthBoundaryResolved(s) == s.requireKey /\ EffectiveKey(s)

\* should_block_non_loopback_without_auth
Blocked(s) == Exposed(Host(s)) /\ ~AuthBoundaryResolved(s)

\* resolve_web_listen_options
Transport(s) ==
    IF s.cert = "" /\ s.certKey = ""
      THEN IF s.insecure THEN "http" ELSE "refused"
    ELSE IF s.cert = "there" /\ s.certKey = "there" THEN "https"
    ELSE "refused"

\* main, from the choice of --web to uvicorn.run
Starts(s) ==
    /\ s.requireKey => EffectiveKey(s)
    /\ ~Blocked(s)
    /\ Transport(s) # "refused"

\* Of the settings a server runs with, what is said about below: the address as
\* main has it, the key as the application has it.
Listening(s) ==
    [exposed |-> Exposed(Host(s)), same |-> s.same,
     requireKey |-> s.appRequiresKey, keyConfigured |-> s.appHasKey]

Listeners == {Listening(s) : s \in {t \in Settings : Starts(t)}}
NotListening == [exposed |-> FALSE]

\* What the middlewares look at (_get_config), as far as the settings decide it.
Served(l) ==
    {cfg \in ConfigOf({"admin", "dashboard"}) :
        cfg.requireKey = l.requireKey /\ cfg.keyConfigured = l.keyConfigured}

Strangers ==
    {r \in RequestOf({route.path : route \in Routes} \cup {<<>>, <<"other">>}) :
        r.key # "right" /\ ~r.session}

\* The endpoints that are meant for those who have no key yet.
KeptOut(l) ==
    \A cfg \in Served(l), passkey \in BOOLEAN, r \in Strangers :
        Handled(cfg, passkey, r) => ExemptFromKey(r)

\* Not so where the application has loaded another configuration than the gate,
\* and that one asks for no key.
AskForTheKey ==
    {l \in Listeners : l.exposed /\ (l.same \/ l.requireKey) => KeptOut(l)}
=============================================================================
