------------------------------- MODULE Access -------------------------------
(***************************************************************************)
(* What becomes of an HTTP request to the dashboard before a handler sees  *)
(* it: the middlewares of api/routes.py, outermost first (locale prefix,   *)
(* API key, passkey session, roles), and the table of routes.  A path is   *)
(* the sequence of its segments; one locale stands for all, "id" for every *)
(* session id.                                                             *)
(***************************************************************************)
EXTENDS Naturals, Sequences

Methods == {"GET", "HEAD", "POST", "PATCH"}
Reads   == {"GET", "HEAD"}
Slugs   == {"en"}

\* json: does the Accept header name application/json?  key: the API key sent.
\* session: does the session cookie verify?
RequestOf(Paths) ==
    [method : Methods, path : Paths, json : BOOLEAN,
     key : {"none", "wrong", "right"}, session : BOOLEAN]

\* The settings the middlewares look at.  keyRole and sessionRole are the role of
\* api_key_roles and that of roles_json or default_roles.
Roles == {"admin", "dashboard", "scanner", "reports_reader", "config_admin",
          "audit_logs.read"}
ConfigOf(Rs) ==
    [requireKey : BOOLEAN, keyConfigured : BOOLEAN, webauthn : BOOLEAN,
     rbac : BOOLEAN, keyRole : Rs, sessionRole : Rs]

First(path) == IF path = <<>> THEN "" ELSE Head(path)
Second(path) == IF Len(path) < 2 THEN "" ELSE path[2]

\* locale_path_segments: the page of a locale-prefixed path.
HasSlug(path) == First(path) \in Slugs
Page(path) == Tail(path)

-----------------------------------------------------------------------------
(* The routes the application registers.                                   *)

HtmlPages == {<<>>, <<"config">>, <<"reports">>, <<"assessment">>,
              <<"assessment", "export">>, <<"help">>, <<"about">>, <<"login">>}

PrefixedPaths(pages) == {<<slug>> \o page : slug \in Slugs, page \in pages}

GetPaths ==
    {<<"about", "json">>, <<"auth", "webauthn", "status">>, <<"findings">>,
     <<"findings", "csv">>, <<"findings", "id">>, <<"findings", "id", "csv">>,
     <<"health">>, <<"heatmap">>, <<"heatmap", "id">>, <<"list">>, <<"logs">>,
     <<"logs", "id">>, <<"report">>, <<"reports", "id">>, <<"status">>,
     <<"docs">>, <<"static", "file">>} \cup PrefixedPaths(HtmlPages)

PatchPaths == {<<"sessions", "id">>, <<"sessions", "id", "technician">>}

PostPaths ==
    {<<"auth", "webauthn", "registration">>, <<"auth", "webauthn", "authentication">>,
     <<"auth", "webauthn", "logout">>, <<"scan">>, <<"scan_database">>,
     <<"scan_pdf">>, <<"start">>} \cup PrefixedPaths({<<"config">>, <<"assessment">>})

Routes ==
    [method : {"GET"}, path : GetPaths]
    \cup [method : {"PATCH"}, path : PatchPaths]
    \cup [method : {"POST"}, path : PostPaths]

-----------------------------------------------------------------------------
(* Answers: "pass" lets the request on, the rest end it.                   *)

Pass         == [kind |-> "pass"]
Refuse(code) == [kind |-> "refuse", code |-> code]
\* A client repeats a GET as a GET; only a 307 keeps another method.
RedirectTo(path, method) == [kind |-> "redirect", to |-> path, method |-> method]

ApiEndpoints == {"health", "status", "list", "report", "scan", "start", "scan_database",
                 "docs", "redoc", "openapi.json"}
ApiTrees     == {"static", "auth", "heatmap", "logs", "findings"}

\* _is_api_or_asset_path
IsApiOrAssetPath(path) ==
    \/ Len(path) = 1 /\ First(path) \in ApiEndpoints
    \/ First(path) \in ApiTrees
    \/ Len(path) > 1 /\ First(path) \in {"sessions", "reports"}
    \/ First(path) = "about" /\ Second(path) = "json"

UnprefixedHtmlPaths == {<<>>, <<"config">>, <<"reports">>, <<"help">>, <<"about">>}

\* locale_html_middleware
LocaleAnswer(r) ==
    IF r.json \/ IsApiOrAssetPath(r.path) \/ HasSlug(r.path) THEN Pass
    ELSE IF r.path \in UnprefixedHtmlPaths THEN RedirectTo(<<"en">> \o r.path, r.method)
    ELSE RedirectTo(<<"en">> \o Tail(r.path), IF r.method \in Reads THEN r.method ELSE "GET")

HasKey(cfg, r) == cfg.keyConfigured /\ r.key = "right"

\* webauthn_session_satisfies_require_api_key, request_has_webauthn_session
HasSession(cfg, r) == cfg.webauthn /\ r.session

ExemptFromKey(r) ==
    \/ r.path = <<"health">>
    \/ First(r.path) = "auth" /\ Second(r.path) = "webauthn"
    \/ HasSlug(r.path) /\ r.method = "GET" /\ Page(r.path) = <<"login">>

\* optional_api_key_middleware
KeyAnswer(cfg, r) ==
    IF ExemptFromKey(r) \/ ~cfg.requireKey THEN Pass
    ELSE IF ~cfg.keyConfigured THEN Refuse(503)
    ELSE IF HasKey(cfg, r) \/ HasSession(cfg, r) THEN Pass
    ELSE Refuse(401)

PublicPages == {<<"help">>, <<"about">>, <<"login">>}

\* Mutant of PublicUnauthenticated: the sign-in page needs a session, too.
PublicWithoutLogin(r) ==
    r.method = "GET" /\ Page(r.path) \in PublicPages \ {<<"login">>}

\* is_locale_html_public_unauthenticated
PublicUnauthenticated(r) == r.method = "GET" /\ Page(r.path) \in PublicPages

\* webauthn_html_session_middleware; passkey: is any passkey registered?
GateAnswer(cfg, passkey, r) ==
    IF \/ ~cfg.webauthn \/ ~passkey
       \/ ~HasSlug(r.path)
       \/ PublicUnauthenticated(r)
       \/ HasSession(cfg, r)
      THEN Pass
    ELSE IF r.method = "GET" THEN RedirectTo(<<First(r.path), "login">>, "GET")
    ELSE Refuse(401)

-----------------------------------------------------------------------------
(* Roles (api/rbac.py).                                                    *)

\* Mutant of RbacPublic: static files need a role.
RbacPublicWithoutStatic(r) ==
    \/ r.path \in {<<"health">>, <<"about", "json">>}
    \/ First(r.path) = "auth" /\ Second(r.path) = "webauthn"
    \/ HasSlug(r.path) /\ r.method \in Reads /\ Page(r.path) \in PublicPages

\* is_rbac_public_route
RbacPublic(r) ==
    \/ r.path \in {<<"health">>, <<"about", "json">>}
    \/ First(r.path) = "static"
    \/ First(r.path) = "auth" /\ Second(r.path) = "webauthn"
    \/ HasSlug(r.path) /\ r.method \in Reads /\ Page(r.path) \in PublicPages

ReadRole(path) ==
    IF \/ path = <<"report">>
       \/ First(path) \in {"heatmap", "findings"}
       \/ First(path) = "reports" /\ Len(path) > 1
      THEN "reports_reader"
    ELSE IF \/ path \in {<<"status">>, <<"list">>, <<"openapi.json">>, <<"redoc">>}
            \/ First(path) = "docs"
      THEN "dashboard"
    ELSE IF First(path) = "logs" THEN "audit_logs.read"
    ELSE "none"

PageRole(method, page) ==
    IF page = <<"config">> /\ method # "PATCH" THEN "config_admin"
    ELSE IF page = <<"reports">> /\ method \in Reads THEN "reports_reader"
    ELSE IF \/ method \in Reads /\ page \in {<<>>, <<"assessment", "export">>}
            \/ method # "PATCH" /\ page = <<"assessment">>
      THEN "dashboard"
    ELSE "none"

\* classify_route_rbac: "none" is an unclassified route.
RequiredRole(r) ==
    IF HasSlug(r.path) THEN PageRole(r.method, Page(r.path))
    ELSE IF r.method \in Reads THEN ReadRole(r.path)
    ELSE IF r.method = "PATCH" /\ First(r.path) = "sessions" THEN "dashboard"
    ELSE IF r.method = "POST" /\ r.path \in {<<"scan">>, <<"start">>, <<"scan_database">>}
      THEN "scanner"
    ELSE IF r.method = "POST" /\ r.path = <<"scan_pdf">> THEN "reports_reader"
    ELSE "none"

\* Mutant of EffectiveRole: the session comes first.
SessionRoleFirst(cfg, r) ==
    IF HasSession(cfg, r) THEN cfg.sessionRole
    ELSE IF HasKey(cfg, r) THEN cfg.keyRole
    ELSE "none"

\* resolve_effective_roles_for_request: a valid key comes before a session.
EffectiveRole(cfg, r) ==
    IF HasKey(cfg, r) THEN cfg.keyRole
    ELSE IF HasSession(cfg, r) THEN cfg.sessionRole
    ELSE "none"

\* rbac_middleware_handler with principal_allows
RbacAnswer(cfg, r) ==
    IF ~cfg.rbac \/ RbacPublic(r) THEN Pass
    ELSE IF RequiredRole(r) = "none" THEN Refuse(403)
    ELSE IF EffectiveRole(cfg, r) = "none" THEN Refuse(401)
    ELSE IF EffectiveRole(cfg, r) \in {RequiredRole(r), "admin"} THEN Pass
    ELSE Refuse(403)

-----------------------------------------------------------------------------
\* The first layer that does not pass decides; then the route's handler runs.
Answer(cfg, passkey, r) ==
    IF LocaleAnswer(r) # Pass THEN LocaleAnswer(r)
    ELSE IF KeyAnswer(cfg, r) # Pass THEN KeyAnswer(cfg, r)
    ELSE IF GateAnswer(cfg, passkey, r) # Pass THEN GateAnswer(cfg, passkey, r)
    ELSE IF RbacAnswer(cfg, r) # Pass THEN RbacAnswer(cfg, r)
    ELSE IF [method |-> r.method, path |-> r.path] \in Routes THEN Pass
    ELSE Refuse(404)

Handled(cfg, passkey, r) == Answer(cfg, passkey, r) = Pass
=============================================================================
