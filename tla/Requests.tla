------------------------------ MODULE Requests ------------------------------
(***************************************************************************)
(* What an HTTP request passes on its way to a handler: the middleware      *)
(* chain and the route table of server/server.go (setupRoutes), with        *)
(* server/security_middleware.go and server/maintenance.go.                 *)
(*                                                                         *)
(* Each middleware is one step, because each reads the live configuration, *)
(* the blocklist files, the resolved proxies or the maintenance monitor for *)
(* itself: they may change between two of them.  Of the monitor (module  *)
(* HealthMonitor) a request sees only whether it is in maintenance, and    *)
(* that may change at any time here, which covers whatever the monitor     *)
(* does.  The decision of the rate limiter is module RateLimiter's and is   *)
(* left open, as is what a handler does (PasteStore).                       *)
(*                                                                         *)
(* A request is a record of the features the chain looks at; RequestKinds   *)
(* are the combinations an instance tries.                                  *)
(***************************************************************************)
EXTENDS Naturals, FiniteSets, Sequences

CONSTANTS
    Req,            \* requests in flight
    RequestKinds,   \* the requests clients send
    PrivateAddrs,   \* privateNets, the listen subnet and literal trusted proxies
    LoopbackAddrs,  \* the loopback addresses, which privateNets include
    ProxyHosts,     \* addresses the host names in trusted_proxies resolve to
    ClientAddrs,    \* addresses of other clients
    AllowLists,     \* the allowlists the operator may configure
    ExemptLists,    \* the routes web.csrf.exempt_paths may name
    MetricsLists,   \* the addresses metrics.allowed_ips may name
    BlockLists,     \* what the blocklist files may hold
    DeniedCountry,  \* the client addresses in a country geoip denies
    MaxChanges      \* how often configuration, files and DNS may change

VARIABLES
    maintenance, \* Monitor.InMaintenance
    live,       \* liveCfg: csrf (enabled, and the process has a secret), the
                \* Sec-Fetch check, allowlist, exempt paths, metrics.allowed_ips
    bootAllow,  \* the allowlist geoip.Open got at startup
    blocked,    \* addresses in the blocklist files
    resolved,   \* resolvedProxyIPs
    changes,    \* number of changes so far
    pc,         \* per request: the middleware it is about to enter
    req,        \* per request: its features
    client,     \* per request: RemoteAddr after realIPMiddleware
    listed,     \* per request: ctxKeyAllowlisted
    active,     \* stats.activeConn
    always,     \* history per request: what held ever since it arrived
    ever        \* history per request: what held at some time since it arrived

requestVars == <<maintenance, live, bootAllow, blocked, resolved, changes, pc, req, client,
                 listed, active, always, ever>>

Addrs == PrivateAddrs \cup ProxyHosts \cup ClientAddrs

Settings == [csrf : BOOLEAN, secFetch : BOOLEAN, allow : AllowLists, exempt : ExemptLists,
             metrics : MetricsLists]

\* site is the Sec-Fetch-Site header, ours whether Origin or Referer names our host.
Kind == [peer : Addrs, claims : ClientAddrs \cup {"none"},
         method : {"GET", "POST", "DELETE", "OPTIONS"}, route : STRING,
         path : {"plain", "slash", "dots"}, site : {"cross", "other"}, ours : BOOLEAN,
         frame : BOOLEAN, navigate : BOOLEAN, upgrade : BOOLEAN,
         bearer : {"none", "bad", "good"}, cookie : {"none", "valid", "invalid"},
         submitted : {"none", "cookie", "other", "invalid"}]

ASSUME RequestsAssumption ==
    /\ IsFiniteSet(Req)
    /\ RequestKinds \subseteq Kind /\ RequestKinds # {}
    /\ LoopbackAddrs \subseteq PrivateAddrs
    /\ AllowLists \cup BlockLists \cup {DeniedCountry} \subseteq SUBSET ClientAddrs
    /\ ExemptLists \subseteq SUBSET STRING
    /\ MetricsLists \subseteq SUBSET Addrs
    /\ MaxChanges \in Nat

Mutating(k) == k.method \in {"POST", "PUT", "PATCH", "DELETE"}

\* setupRoutes, the routes under /api/.
ApiRoutes == {"apiPastes", "apiNew", "versionNew", "remove", "dpaste", "scheduler"}

\* setupRoutes, the limiter each route is wrapped in.  POST /api/{version}/new
\* (versionNew) is registered without one.
LimiterOf(k) ==
    CASE k.route \in {"apiPastes", "documents", "upload"} ->
             IF Mutating(k) THEN "write" ELSE "read"
      [] k.route \in {"pastes", "apiNew", "dpaste"} -> IF Mutating(k) THEN "write" ELSE "none"
      [] k.route = "remove" -> "write"
      [] k.route \in {"view", "raw", "download", "emb"} -> "read"
      [] k.route = "healthz" -> "health"
      [] OTHER -> "none"

\* setupRoutes, the guards of single routes: requireOperatorToken on the
\* scheduler's mutating routes, metricsIPAllowlistMiddleware on /metrics.
GuardOf(k) ==
    CASE k.route = "scheduler" /\ Mutating(k) -> "operator"
      [] k.route = "metrics" -> "metrics"
      [] OTHER -> "none"

\* The order of r.Use in setupRoutes, as far as a middleware decides anything.
Chain == <<"realIP", "slash", "pathSecurity", "secFetch", "csrf", "cors", "allowlist",
           "blocklist", "geoip", "count", "maintenance", "limit", "guard", "handle">>

Stages == {Chain[i] : i \in 1..Len(Chain)}

After(stage) == Chain[(CHOOSE i \in 1..Len(Chain) : Chain[i] = stage) + 1]

\* Stages behind countRequests, whose deferred decrement runs at the end.
Counted(stage) == stage \in {"maintenance", "limit", "guard", "handle"}

RequestsTypeOK ==
    /\ maintenance \in BOOLEAN
    /\ live \in Settings
    /\ bootAllow \in AllowLists
    /\ blocked \in BlockLists
    /\ resolved \subseteq ProxyHosts
    /\ changes \in 0..MaxChanges
    /\ pc \in [Req -> Stages \cup {"idle"}]
    /\ req \in [Req -> RequestKinds]
    /\ client \in [Req -> Addrs]
    /\ listed \in [Req -> BOOLEAN]
    /\ active \in 0..Cardinality(Req)
    /\ always \in [Req -> [closed : BOOLEAN, csrf : BOOLEAN, secFetch : BOOLEAN,
                           blocked : SUBSET ClientAddrs, resolved : SUBSET ProxyHosts]]
    /\ ever \in [Req -> [noNonce : BOOLEAN, allow : SUBSET ClientAddrs, exempt : SUBSET STRING,
                         metrics : SUBSET Addrs, resolved : SUBSET ProxyHosts]]

\* The histories of a request that arrives now.
AlwaysFrom == [closed |-> maintenance, csrf |-> live.csrf, secFetch |-> live.secFetch,
               blocked |-> blocked, resolved |-> resolved]

EverFrom == [noNonce |-> FALSE, allow |-> live.allow, exempt |-> live.exempt,
             metrics |-> live.metrics, resolved |-> resolved]

RequestsInit ==
    /\ maintenance = FALSE
    /\ live \in Settings
    /\ bootAllow = live.allow
    /\ blocked \in BlockLists
    /\ resolved \in SUBSET ProxyHosts
    /\ changes = 0
    /\ pc = [r \in Req |-> "idle"]
    /\ req \in [Req -> {CHOOSE k \in RequestKinds : TRUE}]
    /\ client = [r \in Req |-> req[r].peer]
    /\ listed = [r \in Req |-> FALSE]
    /\ active = 0
    /\ always = [r \in Req |-> AlwaysFrom]
    /\ ever = [r \in Req |-> EverFrom]

----------------------------------------------------------------------------
\* A request leaves the chain: answered by a middleware or after its handler.
\* A panic is caught by recoverer, and the deferred decrement runs first.
Reply(r) ==
    /\ pc' = [pc EXCEPT ![r] = "idle"]
    /\ active' = IF Counted(pc[r]) THEN active - 1 ELSE active

Pass(r) == pc' = [pc EXCEPT ![r] = After(@)]

PassOrReply(r, ok) ==
    IF ok THEN Pass(r) /\ UNCHANGED active ELSE Reply(r)

Unshared == UNCHANGED <<maintenance, live, bootAllow, blocked, resolved, changes>>

Arrive(r) ==
    /\ pc[r] = "idle"
    /\ \E k \in RequestKinds :
          /\ req' = [req EXCEPT ![r] = k]
          /\ client' = [client EXCEPT ![r] = k.peer]
    /\ pc' = [pc EXCEPT ![r] = "realIP"]
    /\ listed' = [listed EXCEPT ![r] = FALSE]
    /\ always' = [always EXCEPT ![r] = AlwaysFrom]
    /\ ever' = [ever EXCEPT ![r] = EverFrom]
    /\ Unshared /\ UNCHANGED active

\* isTrustedPeer
TrustedPeer(a) == a \in PrivateAddrs \/ a \in resolved

\* realIPMiddleware: the address a trusted peer names replaces the peer's.
RealIP(r) ==
    /\ pc[r] = "realIP"
    /\ client' = [client EXCEPT ![r] =
          IF TrustedPeer(req[r].peer) /\ req[r].claims # "none" THEN req[r].claims ELSE @]
    /\ Pass(r) /\ Unshared /\ UNCHANGED <<req, listed, active, always, ever>>

\* noTrailingSlash redirects, pathSecurityMiddleware answers 400.
NormalizePath(r) ==
    /\ \/ pc[r] = "slash" /\ PassOrReply(r, req[r].path # "slash")
       \/ pc[r] = "pathSecurity" /\ PassOrReply(r, req[r].path # "dots")
    /\ Unshared /\ UNCHANGED <<req, client, listed, always, ever>>

\* secFetchMiddleware.  Only /emb may be framed by another site.
SecFetch(r) ==
    LET k == req[r] IN
    /\ pc[r] = "secFetch"
    /\ PassOrReply(r, \/ ~live.secFetch
                      \/ /\ k.site = "cross" /\ k.frame => k.route = "emb"
                         /\ k.site = "cross" /\ Mutating(k) =>
                               k.bearer # "none" \/ k.route \in live.exempt
                         /\ k.navigate /\ Mutating(k) => k.route \notin ApiRoutes)
    /\ Unshared /\ UNCHANGED <<req, client, listed, always, ever>>

\* csrfMiddleware, the bypass conditions: read-only, bearer or API token, WebSocket
\* upgrade, exempt path, same origin, no cookie.
CsrfBypass(k, exempt) ==
    \/ ~Mutating(k) \/ k.bearer # "none" \/ k.upgrade \/ k.route \in exempt
    \/ k.ours \/ k.cookie = "none"

\* The three checks of the submitted token.
CsrfTokenOK(k) == k.submitted = "cookie" /\ k.cookie = "valid"

\* csrfMiddleware.  Without a valid cookie it makes a new token first, and lets the
\* request pass unchecked when generateCSRFToken finds no random bytes.
Csrf(r) ==
    LET k == req[r] IN
    /\ pc[r] = "csrf"
    /\ \/ /\ PassOrReply(r, ~live.csrf \/ CsrfBypass(k, live.exempt) \/ CsrfTokenOK(k))
          /\ UNCHANGED ever
       \/ /\ live.csrf /\ k.cookie # "valid"
          /\ ever' = [ever EXCEPT ![r].noNonce = TRUE]
          /\ Pass(r) /\ UNCHANGED active
    /\ Unshared /\ UNCHANGED <<req, client, listed, always>>

\* corsMiddleware answers OPTIONS itself.
Cors(r) ==
    /\ pc[r] = "cors"
    /\ PassOrReply(r, req[r].method # "OPTIONS")
    /\ Unshared /\ UNCHANGED <<req, client, listed, always, ever>>

\* allowlistMiddleware
Allowlist(r) ==
    /\ pc[r] = "allowlist"
    /\ listed' = [listed EXCEPT ![r] = client[r] \in live.allow]
    /\ Pass(r) /\ Unshared /\ UNCHANGED <<req, client, active, always, ever>>

\* blocklistMiddleware reads the files anew for every request.
Blocklist(r) ==
    /\ pc[r] = "blocklist"
    /\ PassOrReply(r, listed[r] \/ client[r] \notin blocked)
    /\ Unshared /\ UNCHANGED <<req, client, listed, always, ever>>

\* The geoip middleware: its allowlist is the one of the startup configuration,
\* not the flag of allowlistMiddleware.
GeoIP(r) ==
    /\ pc[r] = "geoip"
    /\ PassOrReply(r, client[r] \in DeniedCountry => client[r] \in bootAllow)
    /\ Unshared /\ UNCHANGED <<req, client, listed, always, ever>>

\* countRequests
CountRequests(r) ==
    /\ pc[r] = "count"
    /\ active' = active + 1
    /\ Pass(r) /\ Unshared /\ UNCHANGED <<req, client, listed, always, ever>>

\* Mutated form: only POST is answered with 503.
MaintenanceGatePostOnly(r) ==
    /\ pc[r] = "maintenance"
    /\ PassOrReply(r, ~maintenance \/ req[r].method # "POST")
    /\ Unshared /\ UNCHANGED <<req, client, listed, always, ever>>

\* maintenanceMiddleware: write methods are answered with 503.
MaintenanceGate(r) ==
    /\ pc[r] = "maintenance"
    /\ PassOrReply(r, ~maintenance \/ ~Mutating(req[r]))
    /\ Unshared /\ UNCHANGED <<req, client, listed, always, ever>>

\* rateLimitMiddleware: allowlisted clients and routes without a limiter pass.
Limit(r) ==
    /\ pc[r] = "limit"
    /\ \/ Pass(r) /\ UNCHANGED active
       \/ LimiterOf(req[r]) # "none" /\ ~listed[r] /\ Reply(r)
    /\ Unshared /\ UNCHANGED <<req, client, listed, always, ever>>

\* metricsIPAllowlistMiddleware: loopback and allowed_ips, not the other private networks.
MetricsAllowed(a) == a \in LoopbackAddrs \cup live.metrics

\* requireOperatorToken, or metricsIPAllowlistMiddleware.
Guard(r) ==
    /\ pc[r] = "guard"
    /\ PassOrReply(r, /\ GuardOf(req[r]) = "operator" => req[r].bearer = "good"
                      /\ GuardOf(req[r]) = "metrics" => MetricsAllowed(client[r]))
    /\ Unshared /\ UNCHANGED <<req, client, listed, always, ever>>

\* The handler answers or panics; recoverer turns a panic into a 500.
Handle(r) ==
    /\ pc[r] = "handle"
    /\ Reply(r)
    /\ Unshared /\ UNCHANGED <<req, client, listed, always, ever>>

----------------------------------------------------------------------------
\* What the requests in flight have seen all the time, and what at some time.
Observed ==
    /\ always' = [r \in Req |->
          [closed |-> always[r].closed, csrf |-> always[r].csrf /\ live'.csrf,
           secFetch |-> always[r].secFetch /\ live'.secFetch,
           blocked |-> always[r].blocked \cap blocked',
           resolved |-> always[r].resolved \cap resolved']]
    /\ ever' = [r \in Req |->
          [noNonce |-> ever[r].noNonce, allow |-> ever[r].allow \cup live'.allow,
           exempt |-> ever[r].exempt \cup live'.exempt,
           metrics |-> ever[r].metrics \cup live'.metrics,
           resolved |-> ever[r].resolved \cup resolved']]

\* A reload replaces the live configuration; the blocklist task rewrites its
\* files; refreshDNSTrustedProxies replaces the map by what resolves now, so a
\* host whose lookup fails is dropped until the next refresh.
Reconfigure ==
    /\ changes < MaxChanges /\ changes' = changes + 1
    /\ \/ \E cfg \in Settings : live' = cfg /\ UNCHANGED <<blocked, resolved>>
       \/ \E b \in BlockLists : blocked' = b /\ UNCHANGED <<live, resolved>>
       \/ \E p \in SUBSET ProxyHosts : resolved' = p /\ UNCHANGED <<live, blocked>>
    /\ Observed
    /\ UNCHANGED <<maintenance, bootAllow, pc, req, client, listed, active>>

RequestStep ==
    \E r \in Req :
        \/ Arrive(r) \/ RealIP(r) \/ NormalizePath(r) \/ SecFetch(r) \/ Csrf(r) \/ Cors(r)
        \/ Allowlist(r) \/ Blocklist(r) \/ GeoIP(r) \/ CountRequests(r) \/ MaintenanceGate(r)
        \/ Limit(r) \/ Guard(r) \/ Handle(r)

\* The monitor enters or leaves maintenance.  A request that saw maintenance on
\* arrival has then not seen it all the time.
MonitorSwitches ==
    /\ maintenance' = ~maintenance
    /\ always' = [r \in Req |-> [always[r] EXCEPT !.closed = FALSE]]
    /\ UNCHANGED <<live, bootAllow, blocked, resolved, changes, pc, req, client, listed, active,
                   ever>>

RequestsNext == RequestStep \/ Reconfigure \/ MonitorSwitches

RequestsSpec == RequestsInit /\ [][RequestsNext]_requestVars

----------------------------------------------------------------------------
InHandler(r) == pc[r] = "handle"

\* The addresses a request may be taken to come from: its peer, unless the peer was
\* trusted all the time, and the address a peer names that was trusted at some time.
Sources(r) ==
    LET k == req[r] IN
    {a \in {k.peer} : k.claims = "none" \/ a \notin PrivateAddrs \cup always[r].resolved}
    \cup {a \in ClientAddrs : a = k.claims /\ k.peer \in PrivateAddrs \cup ever[r].resolved}

\* Whatever reloads, list updates and DNS refreshes happen on its way, no request
\* reaches a handler from an address that was in the blocklist, and on no allowlist,
\* ever since the request arrived: neither by naming another address in its headers
\* from an untrusted peer nor by coming through a proxy.
BlockedKeptOut ==
    \A r \in Req : InHandler(r) =>
        \E a \in Sources(r) : a \notin always[r].blocked \/ a \in ever[r].allow

\* A write method that arrives in maintenance does not reach its handler unless
\* the monitor left maintenance while the request was on its way.
ClosedToWrites ==
    \A r \in Req : InHandler(r) /\ always[r].closed => ~Mutating(req[r])

\* A form another site makes a browser send changes nothing.  With the CSRF check on
\* ever since it arrived, a mutating request that carries our cookie and no bearer token
\* comes from our own pages, repeats the token of the cookie, opens a WebSocket or names
\* a path some configuration exempted; or its cookie was none of ours and no random
\* bytes could be had.
NoForeignForm ==
    \A r \in Req :
        LET k == req[r] IN
        InHandler(r) /\ always[r].csrf /\ Mutating(k) /\ k.cookie # "none" =>
            \/ k.ours \/ k.bearer # "none" \/ k.upgrade \/ k.route \in ever[r].exempt
            \/ CsrfTokenOK(k) \/ (k.cookie = "invalid" /\ ever[r].noNonce)

\* With the Sec-Fetch check on ever since it arrived, what the browser marks as sent by
\* another site changes nothing without a bearer token or an exemption, whether or not
\* the CSRF check let it pass, and frames nothing but /emb.
NoCrossSite ==
    \A r \in Req :
        LET k == req[r] IN
        InHandler(r) /\ always[r].secFetch /\ k.site = "cross" =>
            /\ Mutating(k) => k.bearer # "none" \/ k.route \in ever[r].exempt
            /\ k.frame => k.route = "emb"

\* Metrics are answered to loopback and to addresses some configuration allowed while
\* the request was on its way, judged by the address the request really has.
MetricsKeptClose ==
    \A r \in Req : InHandler(r) /\ GuardOf(req[r]) = "metrics" =>
        \E a \in Sources(r) : a \in LoopbackAddrs \cup ever[r].metrics

\* The count of open requests that healthz reports is exact, panics included.
ActiveExact == active = Cardinality({r \in Req : Counted(pc[r])})

\* What the chain of middlewares promises together: blocked addresses, writes in
\* maintenance, foreign forms and strangers to the metrics are kept from the handlers,
\* and the count of open requests is exact.
RequestsGuarded ==
    /\ RequestsTypeOK /\ BlockedKeptOut /\ ClosedToWrites /\ NoForeignForm /\ NoCrossSite
    /\ MetricsKeptClose /\ ActiveExact

=============================================================================
