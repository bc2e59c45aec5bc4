------------------------------- MODULE SignIn -------------------------------
(***************************************************************************)
(* The ceremonies of WebAuthn and the middlewares of Access together:      *)
(* whether a passkey is registered decides if pages ask for a session.     *)
(* The properties say what a client meets, whatever the settings and the   *)
(* credentials of its requests, in each state of the passkey table.        *)
(***************************************************************************)
EXTENDS WebAuthn, Access

CONSTANTS
    Paths,      \* requests are made for these and for the routes
    SomeRoles   \* roles a principal may have

ASSUME PathsAssumption == Paths \subseteq Seq(STRING)
ASSUME RolesAssumption == SomeRoles \subseteq Roles

AllPaths == Paths \cup {route.path : route \in Routes}
Configs  == ConfigOf(SomeRoles)
Inputs   == RequestOf(AllPaths)

\* webauthn_html_gate_should_enforce asks for the number of passkeys.
AnyPasskey == registered # {}

LoginPage == <<"en", "login">>

\* A client's next request when it is redirected, with the same credentials.
Followed(r, answer) == [r EXCEPT !.method = answer.method, !.path = answer.to]

Redirected(answer) == answer.kind = "redirect"

\* What the sign-in page asks for (login.html, webauthn-login.js) before it has
\* a session; the key is what the client sends with every request.
SignInRequests(r) ==
    LET ask(method, path) ==
            [r EXCEPT !.method = method, !.path = path, !.session = FALSE]
    IN  {ask("GET", LoginPage), ask("GET", <<"static", "file">>),
         ask("GET", <<"auth", "webauthn", "status">>),
         ask("POST", <<"auth", "webauthn", "authentication">>)}

-----------------------------------------------------------------------------
(* The state enters only through AnyPasskey, so each property is a table   *)
(* over its two values, which TLC computes once.                           *)

\* A client that follows redirects has its answer after at most two of them.
RedirectsEndTable == [passkey \in BOOLEAN |->
    \A cfg \in Configs, r \in Inputs :
        LET first  == Answer(cfg, passkey, r)
            second == Answer(cfg, passkey, Followed(r, first))
        IN  \/ ~Redirected(first)
            \/ ~Redirected(second)
            \/ ~Redirected(Answer(cfg, passkey, Followed(r, second)))]
RedirectsEnd == RedirectsEndTable[AnyPasskey]

\* Some prefix, and "login": a prefix that is no locale is replaced.
AsksForLogin(r) == r.path # <<>> /\ Page(r.path) = <<"login">>

\* Whoever is sent from another page to the sign-in page gets the page, its
\* script and the endpoints of the ceremony, and once signed in is not sent there
\* again.
SentToSignInMaySignInTable == [passkey \in BOOLEAN |->
    \A cfg \in Configs, r \in Inputs :
        LET answer == Answer(cfg, passkey, r)
        IN  (Redirected(answer) /\ answer.to = LoginPage /\ ~AsksForLogin(r)) =>
            /\ \A s \in SignInRequests(r) : Handled(cfg, passkey, s)
            /\ ~Redirected(Answer(cfg, passkey, [r EXCEPT !.session = TRUE]))]
SentToSignInMaySignIn == SentToSignInMaySignInTable[AnyPasskey]

\* Signing in never loses access: what a client may do without a session it may
\* do with one, though the session brings a role and the key another.
SessionNeverHurtsTable == [passkey \in BOOLEAN |->
    \A cfg \in Configs, r \in Inputs :
        Handled(cfg, passkey, r) => Handled(cfg, passkey, [r EXCEPT !.session = TRUE])]
SessionNeverHurts == SessionNeverHurtsTable[AnyPasskey]
=============================================================================
