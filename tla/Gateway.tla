------------------------------ MODULE Gateway -------------------------------
(***************************************************************************)
(* Which request reaches which handler (cmd/server/main.go): the           *)
(* middleware of the router, the routes, and the middleware of the group a *)
(* route is in.  The whole is a function from requests to answers; what    *)
(* the rate limiter counted so far is a parameter of it.                   *)
(***************************************************************************)
EXTENDS Integers, Sequences, FiniteSetsExt

Method == {"GET", "POST", "PUT", "PATCH", "DELETE", "OPTIONS"}

R(m, p) == [method |-> m, path |-> p]

\* Behind the rate limiter.
PublicRoutes ==
    {R("POST", "/auth/register"), R("POST", "/auth/login"), R("POST", "/auth/refresh"),
     R("GET", "/auth/jwks")}

\* Behind RequireAuth.
UserRoutes == {R("POST", "/auth/logout"), R("POST", "/auth/change-password")}

\* Behind RequireAuth and RequirePermission("manage:roles").
AdminRoutes ==
    {R("GET", "/admin/roles"), R("POST", "/admin/roles"), R("DELETE", "/admin/roles/id"),
     R("GET", "/admin/roles/id/permissions"), R("POST", "/admin/roles/id/permissions"),
     R("DELETE", "/admin/roles/id/permissions/pid"),
     R("GET", "/admin/permissions"), R("POST", "/admin/permissions"),
     R("DELETE", "/admin/permissions/id"),
     R("GET", "/admin/users"), R("POST", "/admin/users"),
     R("GET", "/admin/users/id/roles"), R("POST", "/admin/users/id/roles"),
     R("DELETE", "/admin/users/id/roles/rid"),
     R("PATCH", "/admin/users/id/deactivate"), R("PATCH", "/admin/users/id/activate")}

Routes == PublicRoutes \cup UserRoutes \cup AdminRoutes \cup {R("GET", "/health")}

Path == {r.path : r \in Routes} \cup {"/elsewhere"}

\* What the Authorization header holds: nothing, something other than "bearer" (in any
\* case) and a token, a token that does not verify, or one that does, without and
\* with the permission manage:roles.
Credential == {"none", "malformed", "invalid", "user", "admin"}

Request == [method : Method, path : Path, credential : Credential,
            json : BOOLEAN,       \* Content-Type is application/json, letter by letter
            preflight : BOOLEAN]  \* has the headers of a CORS preflight

RouteOf(q) == R(q.method, q.path)

\* enforceJSONContentType looks at the method only, so it comes before the routing and
\* asks a content type of a POST without a body too.
WrongContentType(q) == q.method \in {"POST", "PUT", "PATCH"} /\ ~q.json


\* RequireAuth, then RequirePermission.
Authorization(q) ==
    <<[stop |-> RouteOf(q) \in UserRoutes \cup AdminRoutes
                    /\ q.credential \in {"none", "malformed", "invalid"}, status |-> 401],
      [stop |-> RouteOf(q) \in AdminRoutes /\ q.credential # "admin", status |-> 403]>>

\* The checks a request passes, in the order of the code, each with the answer it
\* gives when it stops the request.  exhausted: the limiter has no quota left.
Chain(q, exhausted) ==
    <<[stop |-> WrongContentType(q), status |-> 415],
      [stop |-> q.method = "OPTIONS" /\ q.preflight, status |-> 200],
      [stop |-> \A r \in Routes : r.path # q.path, status |-> 404],
      [stop |-> RouteOf(q) \notin Routes, status |-> 405],
      [stop |-> RouteOf(q) \in PublicRoutes /\ exhausted, status |-> 429]>>
        \o Authorization(q)

\* The checks that stop the request.
Stops(q, exhausted) ==
    {i \in DOMAIN Chain(q, exhausted) : Chain(q, exhausted)[i].stop}

Served(q, exhausted) == Stops(q, exhausted) = {}

\* The first of them answers.
Refusal(q, exhausted) == Chain(q, exhausted)[Min(Stops(q, exhausted))].status

-----------------------------------------------------------------------------
(* What the README's section "API" lists, heading by heading               *)

DocumentedPublic ==
    {R("POST", "/auth/register"), R("POST", "/auth/login"), R("POST", "/auth/refresh"),
     R("GET", "/auth/jwks"), R("GET", "/health")}

DocumentedUser == {R("POST", "/auth/logout"), R("POST", "/auth/change-password")}

DocumentedAdmin ==
    {R("GET", "/admin/roles"), R("POST", "/admin/roles"), R("DELETE", "/admin/roles/id"),
     R("GET", "/admin/permissions"), R("POST", "/admin/permissions"),
     R("DELETE", "/admin/permissions/id"), R("POST", "/admin/roles/id/permissions"),
     R("DELETE", "/admin/roles/id/permissions/pid"), R("GET", "/admin/users"),
     R("POST", "/admin/users/id/roles"), R("DELETE", "/admin/users/id/roles/rid")}

\* The documented requests that have a body.
WithBody ==
    {r \in DocumentedPublic \cup DocumentedUser \cup DocumentedAdmin : r.method = "POST"}
        \ {R("POST", "/auth/logout")}

\* The credentials with which a request may be served: for a route the README does not
\* list, those of an admin.
Sufficient(route) ==
    CASE route \in DocumentedPublic -> Credential
      [] route \in DocumentedUser -> {"user", "admin"}
      [] OTHER -> {"admin"}

\* The routes whose clients share a quota: the README's heading names /health as well,
\* but main.go:164 registers it outside the group.
Limited == DocumentedPublic \ {R("GET", "/health")}

Enough(q, exhausted) ==
    q.credential \in Sufficient(RouteOf(q)) /\ (RouteOf(q) \in Limited => ~exhausted)

\* Nothing is served to those whom the README does not list, or past the limit, whatever
\* else a request says.  A documented endpoint is served to all others if they name the
\* JSON content type with every POST; the README asks that of no logout, and there
\* the two differ (main.go:205).  A stranger learns nothing of the admin routes but that
\* they want a token, or JSON.
ServedToTheEntitled ==
    \A q \in Request, exhausted \in BOOLEAN :
        /\ Served(q, exhausted) => Enough(q, exhausted)
        /\ /\ RouteOf(q) \in DocumentedPublic \cup DocumentedUser \cup DocumentedAdmin
           /\ Enough(q, exhausted) /\ (q.method = "POST" => q.json)
           => Served(q, exhausted)
        /\ RouteOf(q) \in AdminRoutes /\ q.credential \notin {"user", "admin"}
           => Refusal(q, exhausted) \in {401, 415}
=============================================================================
