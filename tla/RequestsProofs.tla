--------------------------- MODULE RequestsProofs ---------------------------
(***************************************************************************)
(* Proofs about module Requests, for any number of requests in flight, any *)
(* request kinds, address lists and number of changes; about the limiter   *)
(* in the chain (RateLimiter), for any addresses, limits and windows; and  *)
(* about the secret behind its signed tokens (AppSecrets), for any number  *)
(* of processes and any lifetimes of captchas and windows.                 *)
(*                                                                         *)
(* The guarantees are about requests in a handler; the invariant says for  *)
(* every place behind a middleware what that middleware has established.   *)
(***************************************************************************)
EXTENDS Requests, RateLimiter, AppSecrets, Integers, FiniteSetTheorems, TLAPS

\* The stages behind a middleware.
BehindMaintenance == {"limit", "guard", "handle"}
BehindBlocklist   == {"geoip", "count", "maintenance"} \cup BehindMaintenance
BehindAllowlist   == {"blocklist"} \cup BehindBlocklist
BehindCsrf        == {"cors", "allowlist"} \cup BehindAllowlist
BehindSecFetch    == {"csrf"} \cup BehindCsrf
BehindRealIP      == {"slash", "pathSecurity", "secFetch"} \cup BehindSecFetch
AllStages         == {"realIP"} \cup BehindRealIP

\* The histories of a request hold what holds now.
Seen(r) ==
    /\ always[r].closed => maintenance
    /\ always[r].csrf => live.csrf
    /\ always[r].secFetch => live.secFetch
    /\ always[r].blocked \subseteq blocked /\ always[r].resolved \subseteq resolved
    /\ live.allow \subseteq ever[r].allow /\ live.exempt \subseteq ever[r].exempt
    /\ live.metrics \subseteq ever[r].metrics /\ resolved \subseteq ever[r].resolved

\* What the middlewares behind a request have established of it.
Origin(r) ==
    /\ pc[r] = "realIP" => client[r] = req[r].peer
    /\ pc[r] \in BehindRealIP => client[r] \in Sources(r)

Listed(r) ==
    /\ pc[r] \in BehindAllowlist /\ listed[r] => client[r] \in ever[r].allow
    /\ pc[r] \in BehindBlocklist => listed[r] \/ client[r] \notin always[r].blocked

Site(r) ==
    LET k == req[r] IN
    pc[r] \in BehindSecFetch /\ always[r].secFetch /\ k.site = "cross" =>
        /\ Mutating(k) => k.bearer # "none" \/ k.route \in ever[r].exempt
        /\ k.frame => k.route = "emb"

Token(r) ==
    pc[r] \in BehindCsrf /\ always[r].csrf =>
        \/ CsrfBypass(req[r], ever[r].exempt) \/ CsrfTokenOK(req[r])
        \/ (req[r].cookie # "valid" /\ ever[r].noNonce)

Gates(r) ==
    /\ pc[r] \in BehindMaintenance /\ always[r].closed => ~Mutating(req[r])
    /\ pc[r] = "handle" /\ GuardOf(req[r]) = "metrics" =>
          client[r] \in LoopbackAddrs \cup ever[r].metrics

Knows(r) == Seen(r) /\ Origin(r) /\ Listed(r) /\ Site(r) /\ Token(r) /\ Gates(r)

RequestsInv == RequestsTypeOK /\ ActiveExact /\ \A r \in Req : Knows(r)

AlwaysType == [closed : BOOLEAN, csrf : BOOLEAN, secFetch : BOOLEAN,
               blocked : SUBSET ClientAddrs, resolved : SUBSET ProxyHosts]

EverType == [noNonce : BOOLEAN, allow : SUBSET ClientAddrs, exempt : SUBSET STRING,
             metrics : SUBSET Addrs, resolved : SUBSET ProxyHosts]

\* The histories that start now are well formed.
LEMMA HistoriesTyped ==
    ASSUME live \in Settings, blocked \in BlockLists, resolved \subseteq ProxyHosts,
           maintenance \in BOOLEAN
    PROVE  AlwaysFrom \in AlwaysType /\ EverFrom \in EverType
<1>1. /\ live.csrf \in BOOLEAN /\ live.secFetch \in BOOLEAN /\ live.allow \in AllowLists
      /\ live.exempt \in ExemptLists /\ live.metrics \in MetricsLists
  BY DEF Settings
<1>2. /\ live.allow \in SUBSET ClientAddrs /\ blocked \in SUBSET ClientAddrs
      /\ live.exempt \in SUBSET STRING /\ live.metrics \in SUBSET Addrs
  BY <1>1, RequestsAssumption
<1> QED BY <1>1, <1>2 DEF AlwaysFrom, EverFrom, AlwaysType, EverType

\* The stages are those of the chain, and each is followed by the next one.
LEMMA ChainOrder ==
    /\ Stages = AllStages
    /\ After("realIP") = "slash" /\ After("slash") = "pathSecurity"
    /\ After("pathSecurity") = "secFetch" /\ After("secFetch") = "csrf"
    /\ After("csrf") = "cors" /\ After("cors") = "allowlist"
    /\ After("allowlist") = "blocklist" /\ After("blocklist") = "geoip"
    /\ After("geoip") = "count" /\ After("count") = "maintenance"
    /\ After("maintenance") = "limit" /\ After("limit") = "guard"
    /\ After("guard") = "handle"
<1>1. /\ Len(Chain) = 14
      /\ Chain[1] = "realIP" /\ Chain[2] = "slash" /\ Chain[3] = "pathSecurity"
      /\ Chain[4] = "secFetch" /\ Chain[5] = "csrf" /\ Chain[6] = "cors"
      /\ Chain[7] = "allowlist" /\ Chain[8] = "blocklist" /\ Chain[9] = "geoip"
      /\ Chain[10] = "count" /\ Chain[11] = "maintenance" /\ Chain[12] = "limit"
      /\ Chain[13] = "guard" /\ Chain[14] = "handle"
  BY DEF Chain
<1>2. \A i \in 1 .. 14 : i \in {1, 2, 3, 4, 5, 6, 7, 8, 9, 10, 11, 12, 13, 14}
  OBVIOUS
<1>3. ASSUME NEW k \in 1 .. 13, NEW s, s = Chain[k]
      PROVE  After(s) = Chain[k + 1]
  <2>1. \A i \in 1 .. Len(Chain) : Chain[i] = s => i = k
    BY <1>1, <1>2, <1>3
  <2>2. (CHOOSE i \in 1 .. Len(Chain) : Chain[i] = s) = k
    BY <1>1, <1>3, <2>1
  <2> QED BY <2>2 DEF After
<1>4. Stages = AllStages
  BY <1>1, <1>2
     DEF Stages, AllStages, BehindRealIP, BehindCsrf, BehindAllowlist, BehindBlocklist,
         BehindMaintenance, BehindSecFetch
<1> QED BY <1>1, <1>3, <1>4

\* The count stays exact when one request moves and the count follows it.
LEMMA CountFollows ==
    ASSUME NEW r \in Req, NEW stage, pc \in [Req -> Stages \cup {"idle"}], ActiveExact,
           pc' = [pc EXCEPT ![r] = stage],
           active' = IF Counted(stage) <=> Counted(pc[r]) THEN active
                     ELSE IF Counted(stage) THEN active + 1 ELSE active - 1
    PROVE  ActiveExact' /\ active' \in 0 .. Cardinality(Req)
<1> DEFINE C == {q \in Req : Counted(pc[q])}
           D == {q \in Req : Counted(pc'[q])}
<1>1. IsFiniteSet(C) /\ IsFiniteSet(D) /\ Cardinality(C) \in Nat /\ Cardinality(D) \in Nat
      /\ Cardinality(D) <= Cardinality(Req) /\ Cardinality(Req) \in Nat
  BY RequestsAssumption, FS_Subset, FS_CardinalityType
<1>2. D = IF Counted(stage) THEN C \cup {r} ELSE C \ {r}
  OBVIOUS
<1>3. r \in C <=> Counted(pc[r])
  OBVIOUS
<1>4. Counted(stage) \in BOOLEAN /\ Counted(pc[r]) \in BOOLEAN
  BY DEF Counted
<1> HIDE DEF C, D
<1>5. Cardinality(D) = IF Counted(stage) <=> Counted(pc[r]) THEN Cardinality(C)
                       ELSE IF Counted(stage) THEN Cardinality(C) + 1 ELSE Cardinality(C) - 1
  BY <1>1, <1>2, <1>3, <1>4, FS_AddElement, FS_RemoveElement
<1>6. active = Cardinality(C) /\ (ActiveExact' <=> active' = Cardinality(D))
  BY DEF ActiveExact, C, D, Counted
<1> QED BY <1>1, <1>5, <1>6

\* Nothing has arrived yet.
LEMMA InitEstablishes == RequestsInit => RequestsInv
<1> SUFFICES ASSUME RequestsInit PROVE RequestsInv
  OBVIOUS
<1>1. {r \in Req : Counted(pc[r])} = {} /\ ActiveExact
  BY FS_EmptySet DEF RequestsInit, Counted, ActiveExact
<1>2. req \in [Req -> RequestKinds] /\ 0 \in 0 .. Cardinality(Req)
  BY RequestsAssumption, FS_CardinalityType DEF RequestsInit
<1>3. client \in [Req -> Addrs]
  BY <1>2, RequestsAssumption DEF RequestsInit, Kind
<1>4. live \in Settings /\ blocked \in BlockLists /\ resolved \subseteq ProxyHosts
  BY DEF RequestsInit
<1>5. AlwaysFrom \in AlwaysType /\ EverFrom \in EverType
  BY <1>4, HistoriesTyped DEF RequestsInit
<1>6. /\ always \in [Req -> AlwaysType] /\ ever \in [Req -> EverType]
      /\ listed \in [Req -> BOOLEAN]
  BY <1>5 DEF RequestsInit
<1>7. bootAllow \in AllowLists /\ changes \in 0 .. MaxChanges
  <2>1. live.allow \in AllowLists
    BY <1>4 DEF Settings
  <2> QED BY <2>1, RequestsAssumption DEF RequestsInit
<1>8. pc \in [Req -> Stages \cup {"idle"}] /\ active \in 0 .. Cardinality(Req)
  BY <1>2 DEF RequestsInit
<1>9. RequestsTypeOK
  BY <1>2, <1>3, <1>4, <1>6, <1>7, <1>8 DEF RequestsInit, RequestsTypeOK, AlwaysType, EverType
<1>10. ASSUME NEW r \in Req PROVE Knows(r)
  <2>1. pc[r] = "idle" /\ always[r] = AlwaysFrom /\ ever[r] = EverFrom
    BY DEF RequestsInit
  <2>2. Seen(r)
    BY <2>1 DEF Seen, AlwaysFrom, EverFrom
  <2> QED BY <2>1, <2>2 
          DEF Knows, Origin, Listed, Site, Token, Gates, BehindRealIP, BehindSecFetch, BehindCsrf,
              BehindAllowlist, BehindBlocklist, BehindMaintenance
<1> QED BY <1>1, <1>9, <1>10 DEF RequestsInv

\* A request that leaves the chain or moves on past no check keeps what is known of all.
\* X is where it goes, and its own knowledge there is what remains to be shown.
LEMMA StepKeeps ==
    ASSUME NEW r \in Req, NEW stage \in Stages \cup {"idle"}, RequestsInv, Unshared,
           pc' = [pc EXCEPT ![r] = stage],
           active' = IF Counted(stage) <=> Counted(pc[r]) THEN active
                     ELSE IF Counted(stage) THEN active + 1 ELSE active - 1,
           req' \in [Req -> RequestKinds], client' \in [Req -> Addrs],
           listed' \in [Req -> BOOLEAN],
           always' \in [Req -> AlwaysType], ever' \in [Req -> EverType],
           \A q \in Req \ {r} : /\ req'[q] = req[q] /\ client'[q] = client[q]
                                /\ listed'[q] = listed[q]
                                /\ always'[q] = always[q] /\ ever'[q] = ever[q],
           Knows(r)'
    PROVE  RequestsInv'
<1>1. ActiveExact' /\ active' \in 0 .. Cardinality(Req)
  BY CountFollows DEF RequestsInv, RequestsTypeOK
<1>2. ASSUME NEW q \in Req \ {r} PROVE Knows(q)'
  <2>1. /\ Knows(q) /\ pc'[q] = pc[q] /\ req'[q] = req[q] /\ client'[q] = client[q]
        /\ listed'[q] = listed[q] /\ always'[q] = always[q] /\ ever'[q] = ever[q]
    BY DEF RequestsInv, RequestsTypeOK
  <2>2. Seen(q)'
    BY <2>1 DEF Knows, Seen, Unshared
  <2>3. Origin(q)' /\ Listed(q)'
    BY <2>1 DEF Knows, Origin, Sources, Listed
  <2>4. Site(q)' /\ Token(q)'
    BY <2>1 DEF Knows, Site, Token
  <2>5. Gates(q)'
    BY <2>1 DEF Knows, Gates
  <2> QED BY <2>2, <2>3, <2>4, <2>5 DEF Knows
<1>3. RequestsTypeOK'
  BY <1>1 DEF RequestsInv, RequestsTypeOK, Unshared, AlwaysType, EverType
<1> QED BY <1>1, <1>2, <1>3 DEF RequestsInv

\* The variables a step of one request leaves well formed.
LEMMA StayTyped ==
    ASSUME RequestsInv
    PROVE  /\ req \in [Req -> RequestKinds] /\ client \in [Req -> Addrs]
           /\ listed \in [Req -> BOOLEAN]
           /\ always \in [Req -> AlwaysType] /\ ever \in [Req -> EverType]
           /\ pc \in [Req -> Stages \cup {"idle"}] /\ live \in Settings
           /\ blocked \in BlockLists /\ resolved \subseteq ProxyHosts /\ maintenance \in BOOLEAN
BY DEF RequestsInv, RequestsTypeOK, AlwaysType, EverType

\* A request that leaves the chain proves nothing and owes nothing.
LEMMA ReplyKeeps ==
    ASSUME NEW r \in Req, RequestsInv, Unshared, Reply(r),
           UNCHANGED <<req, client, listed, always, ever>>
    PROVE  RequestsInv'
<1>1. ~Counted("idle")
  BY DEF Counted
<1>2. pc' = [pc EXCEPT ![r] = "idle"] /\ pc'[r] = "idle"
  BY StayTyped DEF Reply
<1>3. active' = IF Counted("idle") <=> Counted(pc[r]) THEN active
                ELSE IF Counted("idle") THEN active + 1 ELSE active - 1
  BY <1>1 DEF Reply
<1>4. Seen(r)'
  BY DEF RequestsInv, Knows, Seen, Unshared
<1>5. Knows(r)'
  BY <1>2, <1>4
     DEF Knows, Origin, Listed, Site, Token, Gates, BehindRealIP, BehindSecFetch, BehindCsrf,
         BehindAllowlist, BehindBlocklist, BehindMaintenance
<1> QED BY <1>2, <1>3, <1>5, StepKeeps, StayTyped

\* A request that a middleware lets pass, with what the middleware has checked.
LEMMA PassKeeps ==
    ASSUME NEW r \in Req, RequestsInv, Unshared, Pass(r), pc[r] \in Stages \ {"handle", "count"},
           UNCHANGED <<req, client, listed, always, ever, active>>,
           Knows(r)'
    PROVE  RequestsInv'
<1>1. After(pc[r]) \in Stages /\ (Counted(After(pc[r])) <=> Counted(pc[r]))
  BY ChainOrder DEF Counted, AllStages, BehindRealIP, BehindSecFetch, BehindCsrf,
                    BehindAllowlist, BehindBlocklist, BehindMaintenance
<1>2. pc' = [pc EXCEPT ![r] = After(pc[r])]
  BY DEF Pass
<1> QED BY <1>1, <1>2, StepKeeps, StayTyped

\* A middleware that lets a request pass or answers it.
LEMMA GateKeeps ==
    ASSUME NEW r \in Req, NEW ok, RequestsInv, Unshared, PassOrReply(r, ok),
           pc[r] \in Stages \ {"handle", "count"}, UNCHANGED <<req, client, listed, always, ever>>,
           ok /\ pc' = [pc EXCEPT ![r] = After(pc[r])] => Knows(r)'
    PROVE  RequestsInv'
<1>1. CASE ok
  <2>1. Pass(r) /\ UNCHANGED active
    BY <1>1 DEF PassOrReply
  <2>2. Knows(r)'
    BY <1>1, <2>1 DEF Pass
  <2> QED BY <2>1, <2>2, PassKeeps
<1>2. CASE ~ok
  BY <1>2, ReplyKeeps DEF PassOrReply
<1> QED BY <1>1, <1>2

\* A request that goes on to a place keeps what it knew, and has to show there only what
\* the middleware it leaves has checked.
LEMMA MovedOn ==
    ASSUME NEW r \in Req, RequestsInv, Unshared, pc[r] \in Stages \ {"handle"}, Pass(r),
           UNCHANGED <<req, always>>, Seen(r)',
           pc[r] # "realIP" => client'[r] = client[r],
           pc[r] # "allowlist" => listed'[r] = listed[r],
           pc[r] # "csrf" => ever'[r] = ever[r],
           pc[r] = "csrf" => \E b \in BOOLEAN : ever' = [ever EXCEPT ![r].noNonce = b],
           pc[r] = "realIP" => Origin(r)',
           pc[r] \in {"allowlist", "blocklist"} => Listed(r)',
           pc[r] = "secFetch" => Site(r)',
           pc[r] = "csrf" => Token(r)',
           pc[r] \in {"maintenance", "guard"} => Gates(r)'
    PROVE  Knows(r)'
<1> USE DEF BehindRealIP, BehindSecFetch, BehindCsrf, BehindAllowlist, BehindBlocklist,
            BehindMaintenance
<1>1. /\ Knows(r) /\ pc'[r] = After(pc[r]) /\ always'[r] = always[r] /\ req'[r] = req[r]
      /\ pc[r] \in AllStages \ {"handle"}
  BY StayTyped, ChainOrder DEF Pass, RequestsInv
<1>2. ever'[r].allow = ever[r].allow /\ ever'[r].exempt = ever[r].exempt
      /\ ever'[r].metrics = ever[r].metrics /\ ever'[r].resolved = ever[r].resolved
  BY StayTyped DEF EverType
<1>3. Origin(r)'
  <2>1. Sources(r)' = Sources(r)
    BY <1>1, <1>2 DEF Sources
  <2>2. CASE pc[r] = "realIP"
    BY <2>2
  <2>3. CASE pc[r] # "realIP"
    <3>1. pc[r] \in BehindRealIP /\ client[r] \in Sources(r) /\ client'[r] = client[r]
      BY <1>1, <2>3 DEF Knows, Origin, AllStages
    <3>2. pc'[r] # "realIP"
      BY <1>1, <2>3, ChainOrder DEF AllStages
    <3> QED BY <2>1, <3>1, <3>2 DEF Origin
  <2> QED BY <2>2, <2>3
<1>4. Listed(r)'
  <2>1. CASE pc[r] \in {"allowlist", "blocklist"}
    BY <2>1
  <2>2. CASE pc[r] \in {"realIP", "slash", "pathSecurity", "secFetch", "csrf", "cors"}
    BY <1>1, <2>2, ChainOrder DEF Listed
  <2>3. CASE pc[r] \in {"geoip", "count", "maintenance", "limit", "guard"}
    BY <1>1, <1>2, <2>3 DEF Knows, Listed
  <2> QED BY <1>1, <2>1, <2>2, <2>3 DEF AllStages
<1>5. Site(r)'
  <2>1. CASE pc[r] = "secFetch"
    BY <2>1
  <2>2. CASE pc[r] \in {"realIP", "slash", "pathSecurity"}
    BY <1>1, <2>2, ChainOrder DEF Site
  <2>3. CASE pc[r] \in BehindSecFetch
    BY <1>1, <1>2, <2>3 DEF Knows, Site
  <2> QED BY <1>1, <2>1, <2>2, <2>3 DEF AllStages
<1>6. Token(r)'
  <2>1. CASE pc[r] = "csrf"
    BY <2>1
  <2>2. CASE pc[r] \in {"realIP", "slash", "pathSecurity", "secFetch"}
    BY <1>1, <2>2, ChainOrder DEF Token
  <2>3. CASE pc[r] \in BehindCsrf
    BY <1>1, <2>3 DEF Knows, Token
  <2> QED BY <1>1, <2>1, <2>2, <2>3 DEF AllStages
<1>7. Gates(r)'
  <2>1. CASE pc[r] \in {"maintenance", "guard"}
    BY <2>1
  <2>2. CASE pc[r] = "limit"
    <3>1. pc'[r] = "guard" /\ (always[r].closed => ~Mutating(req[r]))
      BY <1>1, <2>2, ChainOrder DEF Knows, Gates
    <3> QED BY <1>1, <3>1 DEF Gates
  <2>3. CASE pc[r] \notin {"maintenance", "guard", "limit"}
    BY <1>1, <2>3, ChainOrder DEF Gates, AllStages
  <2> QED BY <2>1, <2>2, <2>3
<1> QED BY <1>3, <1>4, <1>5, <1>6, <1>7 DEF Knows

\* The histories hold what holds now as long as only the request moves.
LEMMA StillSeen ==
    ASSUME NEW r \in Req, RequestsInv, Unshared, UNCHANGED <<always, ever>>
    PROVE  Seen(r)'
BY DEF RequestsInv, Knows, Seen, Unshared

\* A request arrives: its histories start now.
LEMMA ArriveKeeps == ASSUME NEW r \in Req, RequestsInv, Arrive(r) PROVE RequestsInv'
<1> PICK k \in RequestKinds : req' = [req EXCEPT ![r] = k] /\ client' = [client EXCEPT ![r] = k.peer]
  BY DEF Arrive
<1>1. k.peer \in Addrs
  BY RequestsAssumption DEF Kind
<1>2. "realIP" \in Stages /\ ~Counted("realIP") /\ ~Counted(pc[r])
  BY ChainOrder DEF Arrive, AllStages, Counted
<1>3. req' \in [Req -> RequestKinds] /\ client' \in [Req -> Addrs] /\ listed' \in [Req -> BOOLEAN]
  BY <1>1, StayTyped DEF Arrive
<1>4. always' \in [Req -> AlwaysType] /\ ever' \in [Req -> EverType]
  BY StayTyped, HistoriesTyped DEF Arrive
<1>5. /\ pc'[r] = "realIP" /\ client'[r] = req'[r].peer
      /\ always'[r] = AlwaysFrom /\ ever'[r] = EverFrom
  BY StayTyped DEF Arrive
<1>6. Seen(r)'
  BY <1>5 DEF Arrive, Unshared, Seen, AlwaysFrom, EverFrom
<1>7. Knows(r)'
  BY <1>5, <1>6
     DEF Knows, Origin, Listed, Site, Token, Gates, BehindRealIP, BehindSecFetch, BehindCsrf,
         BehindAllowlist, BehindBlocklist, BehindMaintenance
<1>8. pc' = [pc EXCEPT ![r] = "realIP"] /\ active' = active /\ Unshared
  BY DEF Arrive
<1>9. \A q \in Req \ {r} : /\ req'[q] = req[q] /\ client'[q] = client[q] /\ listed'[q] = listed[q]
                           /\ always'[q] = always[q] /\ ever'[q] = ever[q]
  BY StayTyped DEF Arrive
<1> QED BY <1>2, <1>3, <1>4, <1>7, <1>8, <1>9, StepKeeps

\* The client is its peer or the address a trusted peer names.
LEMMA RealIPKeeps == ASSUME NEW r \in Req, RequestsInv, RealIP(r) PROVE RequestsInv'
<1> DEFINE from == IF TrustedPeer(req[r].peer) /\ req[r].claims # "none"
                   THEN req[r].claims ELSE client[r]
<1>1. /\ pc[r] = "realIP" /\ "realIP" \in Stages /\ "slash" \in Stages /\ Pass(r) /\ Unshared
      /\ UNCHANGED <<req, listed, active, always, ever>>
  BY ChainOrder DEF RealIP, AllStages, BehindRealIP
<1>2. Seen(r) /\ client[r] = req[r].peer /\ req[r] \in Kind
  BY <1>1, StayTyped, RequestsAssumption DEF RequestsInv, Knows, Origin
<1>3. from \in Sources(r) /\ from \in Addrs
  BY <1>2 DEF Sources, Seen, TrustedPeer, Kind, Addrs
<1>4. client' = [client EXCEPT ![r] = from]
  BY <1>2, StayTyped DEF RealIP
<1>5. client' \in [Req -> Addrs] /\ client'[r] \in Sources(r)
  BY <1>3, <1>4, StayTyped
<1>6. pc' = [pc EXCEPT ![r] = "slash"] /\ pc'[r] = "slash"
  BY <1>1, StayTyped, ChainOrder DEF Pass
<1>7. Origin(r)'
  BY <1>1, <1>5, <1>6 DEF Origin, Sources
<1>8. Knows(r)'
  BY <1>1, <1>7, MovedOn, StillSeen
<1>9. ~Counted("slash") /\ ~Counted(pc[r])
  BY <1>1 DEF Counted
<1>10. \A q \in Req \ {r} : client'[q] = client[q]
  BY <1>4, StayTyped
<1> QED BY <1>1, <1>5, <1>6, <1>8, <1>9, <1>10, StepKeeps, StayTyped

\* secFetchMiddleware: what passes it is what Site says.
LEMMA SecFetchKeeps == ASSUME NEW r \in Req, RequestsInv, SecFetch(r) PROVE RequestsInv'
<1> DEFINE k == req[r]
           ok == \/ ~live.secFetch
                 \/ /\ k.site = "cross" /\ k.frame => k.route = "emb"
                    /\ k.site = "cross" /\ Mutating(k) =>
                          k.bearer # "none" \/ k.route \in live.exempt
                    /\ k.navigate /\ Mutating(k) => k.route \notin ApiRoutes
<1>1. /\ pc[r] = "secFetch" /\ "secFetch" \in Stages /\ PassOrReply(r, ok) /\ Unshared
      /\ UNCHANGED <<req, client, listed, always, ever>>
  BY ChainOrder DEF SecFetch, AllStages, BehindRealIP
<1>2. Seen(r)
  BY DEF RequestsInv, Knows
<1>3. ASSUME ok PROVE Site(r)'
  BY <1>1, <1>2, <1>3 DEF Site, Seen
<1>4. ASSUME ok, pc' = [pc EXCEPT ![r] = After(pc[r])] PROVE Knows(r)'
  BY <1>1, <1>3, <1>4, MovedOn, StillSeen DEF Pass
<1> HIDE DEF ok
<1> QED BY <1>1, <1>4, GateKeeps

\* csrfMiddleware: what passes it is what Token says.
LEMMA CsrfKeeps == ASSUME NEW r \in Req, RequestsInv, Csrf(r) PROVE RequestsInv'
<1> DEFINE k == req[r]
           ok == ~live.csrf \/ CsrfBypass(k, live.exempt) \/ CsrfTokenOK(k)
<1>1. /\ pc[r] = "csrf" /\ "csrf" \in Stages /\ Unshared
      /\ UNCHANGED <<req, client, listed, always>>
  BY ChainOrder DEF Csrf, AllStages, BehindRealIP, BehindSecFetch
<1>2. Seen(r)
  BY DEF RequestsInv, Knows
<1>3. CASE PassOrReply(r, ok) /\ UNCHANGED ever
  <2>1. ASSUME ok PROVE Token(r)'
    BY <1>1, <1>2, <1>3, <2>1 DEF Token, Seen, CsrfBypass
  <2>2. \E b \in BOOLEAN : ever' = [ever EXCEPT ![r].noNonce = b]
    <3>1. ever[r] \in EverType
      BY StayTyped
    <3>2. ever' = [ever EXCEPT ![r].noNonce = ever[r].noNonce] /\ ever[r].noNonce \in BOOLEAN
      BY <1>3, <3>1, StayTyped DEF EverType
    <3> QED BY <3>2
  <2>3. ASSUME ok, pc' = [pc EXCEPT ![r] = After(pc[r])] PROVE Knows(r)'
    BY <1>1, <1>3, <2>1, <2>2, <2>3, MovedOn, StillSeen DEF Pass
  <2> HIDE DEF ok
  <2> QED BY <1>1, <1>3, <2>3, GateKeeps
<1>4. CASE /\ k.cookie # "valid" /\ Pass(r) /\ UNCHANGED active
           /\ ever' = [ever EXCEPT ![r].noNonce = TRUE]
  <2>1. /\ ever' \in [Req -> EverType] /\ ever'[r].noNonce
        /\ ever'[r].allow = ever[r].allow /\ ever'[r].exempt = ever[r].exempt
        /\ ever'[r].metrics = ever[r].metrics /\ ever'[r].resolved = ever[r].resolved
        /\ \A q \in Req \ {r} : ever'[q] = ever[q]
    BY <1>4, StayTyped DEF EverType
  <2>2. Seen(r)'
    BY <1>1, <1>2, <2>1 DEF Seen, Unshared
  <2>3. Token(r)'
    BY <1>1, <1>4, <2>1 DEF Token
  <2>4. \E b \in BOOLEAN : ever' = [ever EXCEPT ![r].noNonce = b]
    BY <1>4
  <2>5. Knows(r)'
    BY <1>1, <1>4, <2>2, <2>3, <2>4, MovedOn
  <2>6. pc' = [pc EXCEPT ![r] = "cors"] /\ "cors" \in Stages
    BY <1>1, <1>4, ChainOrder DEF Pass, AllStages, BehindRealIP, BehindSecFetch, BehindCsrf
  <2>7. ~Counted("cors") /\ ~Counted(pc[r])
    BY <1>1 DEF Counted
  <2> QED BY <1>1, <1>4, <2>1, <2>5, <2>6, <2>7, StepKeeps, StayTyped
<1> QED BY <1>3, <1>4 DEF Csrf

\* allowlistMiddleware sets the flag the blocklist and the limiters go by.
LEMMA AllowlistKeeps == ASSUME NEW r \in Req, RequestsInv, Allowlist(r) PROVE RequestsInv'
<1>1. /\ pc[r] = "allowlist" /\ pc[r] \in Stages /\ "blocklist" \in Stages /\ Pass(r) /\ Unshared
      /\ UNCHANGED <<req, client, active, always, ever>>
  BY ChainOrder DEF Allowlist, AllStages, BehindRealIP, BehindSecFetch, BehindCsrf,
                    BehindAllowlist
<1>2. PICK b \in BOOLEAN : b <=> client[r] \in live.allow
  OBVIOUS
<1>3. listed' = [listed EXCEPT ![r] = b]
  BY <1>2 DEF Allowlist
<1>4. listed' \in [Req -> BOOLEAN] /\ listed'[r] = b /\ \A q \in Req \ {r} : listed'[q] = listed[q]
  BY <1>3, StayTyped
<1>5. pc' = [pc EXCEPT ![r] = "blocklist"] /\ pc'[r] = "blocklist"
  BY <1>1, StayTyped, ChainOrder DEF Pass
<1>6. Seen(r)
  BY DEF RequestsInv, Knows
<1>7. Listed(r)'
  BY <1>1, <1>2, <1>4, <1>5, <1>6 DEF Listed, Seen, BehindBlocklist, BehindMaintenance
<1>8. Knows(r)'
  BY <1>1, <1>7, MovedOn, StillSeen
<1>9. ~Counted("blocklist") /\ ~Counted(pc[r])
  BY <1>1 DEF Counted
<1> QED BY <1>1, <1>4, <1>5, <1>8, <1>9, StepKeeps, StayTyped

\* A middleware that checks nothing later places rely on.
LEMMA PlainGateKeeps ==
    ASSUME NEW r \in Req, NEW ok, RequestsInv, Unshared, PassOrReply(r, ok),
           pc[r] \in {"slash", "pathSecurity", "cors", "geoip", "limit"},
           UNCHANGED <<req, client, listed, always, ever>>
    PROVE  RequestsInv'
<1>1. pc[r] \in Stages
  BY ChainOrder DEF AllStages, BehindRealIP, BehindSecFetch, BehindCsrf, BehindAllowlist,
                    BehindBlocklist, BehindMaintenance
<1>2. ASSUME pc' = [pc EXCEPT ![r] = After(pc[r])] PROVE Knows(r)'
  BY <1>1, <1>2, MovedOn, StillSeen DEF Pass
<1> QED BY <1>1, <1>2, GateKeeps

\* blocklistMiddleware, maintenanceMiddleware and the guards of single routes.
LEMMA CheckKeeps ==
    ASSUME NEW r \in Req, RequestsInv, Blocklist(r) \/ MaintenanceGate(r) \/ Guard(r)
    PROVE  RequestsInv'
<1>1. Seen(r) /\ {"blocklist", "maintenance", "guard"} \subseteq Stages
  BY ChainOrder DEF RequestsInv, Knows, AllStages, BehindRealIP, BehindSecFetch, BehindCsrf,
                    BehindAllowlist, BehindBlocklist, BehindMaintenance
<1>2. Knows(r)
  BY DEF RequestsInv
<1>3. CASE Blocklist(r)
  <2>1. ASSUME listed[r] \/ client[r] \notin blocked PROVE Listed(r)'
    BY <1>1, <1>2, <1>3, <2>1 DEF Blocklist, Listed, Seen, Knows, BehindAllowlist
  <2>2. ASSUME listed[r] \/ client[r] \notin blocked, pc' = [pc EXCEPT ![r] = After(pc[r])]
        PROVE  Knows(r)'
    BY <1>1, <1>3, <2>1, <2>2, MovedOn, StillSeen DEF Pass, Blocklist
  <2> QED BY <1>1, <1>3, <2>2, GateKeeps DEF Blocklist
<1>4. CASE MaintenanceGate(r)
  <2>1. ASSUME ~maintenance \/ ~Mutating(req[r]), pc' = [pc EXCEPT ![r] = After(pc[r])]
        PROVE  Gates(r)'
    <3>1. pc'[r] = "limit"
      BY <1>4, <2>1, StayTyped, ChainOrder DEF MaintenanceGate
    <3> QED BY <1>1, <1>4, <2>1, <3>1 DEF MaintenanceGate, Gates, Seen
  <2>2. ASSUME ~maintenance \/ ~Mutating(req[r]), pc' = [pc EXCEPT ![r] = After(pc[r])]
        PROVE  Knows(r)'
    BY <1>1, <1>4, <2>1, <2>2, MovedOn, StillSeen DEF Pass, MaintenanceGate
  <2> QED BY <1>1, <1>4, <2>2, GateKeeps DEF MaintenanceGate
<1>5. CASE Guard(r)
  <2> DEFINE ok == /\ GuardOf(req[r]) = "operator" => req[r].bearer = "good"
                   /\ GuardOf(req[r]) = "metrics" => client[r] \in LoopbackAddrs \cup live.metrics
  <2>1. ASSUME ok PROVE Gates(r)'
    BY <1>1, <1>2, <1>5, <2>1 DEF Guard, MetricsAllowed, Gates, Seen, Knows, BehindMaintenance
  <2>2. ASSUME ok, pc' = [pc EXCEPT ![r] = After(pc[r])] PROVE Knows(r)'
    BY <1>1, <1>5, <2>1, <2>2, MovedOn, StillSeen DEF Pass, Guard, MetricsAllowed
  <2>3. /\ PassOrReply(r, ok) /\ pc[r] = "guard" /\ Unshared
        /\ UNCHANGED <<req, client, listed, always, ever>>
    BY <1>5 DEF Guard, MetricsAllowed
  <2> HIDE DEF ok
  <2> QED BY <1>1, <2>2, <2>3, GateKeeps
<1> QED BY <1>3, <1>4, <1>5

\* countRequests
LEMMA CountKeeps == ASSUME NEW r \in Req, RequestsInv, CountRequests(r) PROVE RequestsInv'
<1>1. /\ pc[r] = "count" /\ pc[r] \in Stages /\ "maintenance" \in Stages /\ Pass(r) /\ Unshared
      /\ active' = active + 1 /\ UNCHANGED <<req, client, listed, always, ever>>
  BY ChainOrder DEF CountRequests, AllStages, BehindRealIP, BehindSecFetch, BehindCsrf,
                    BehindAllowlist, BehindBlocklist, BehindMaintenance
<1>2. pc' = [pc EXCEPT ![r] = "maintenance"]
  BY <1>1, ChainOrder DEF Pass
<1>3. Counted("maintenance") /\ ~Counted(pc[r])
  BY <1>1 DEF Counted
<1>4. Knows(r)'
  BY <1>1, MovedOn, StillSeen
<1> QED BY <1>1, <1>2, <1>3, <1>4, StepKeeps, StayTyped

\* Every middleware keeps the invariant: what it checks is what the stage behind it knows.
LEMMA RequestKeeps ==
    ASSUME NEW r \in Req, RequestsInv,
           \/ Arrive(r) \/ RealIP(r) \/ NormalizePath(r) \/ SecFetch(r) \/ Csrf(r) \/ Cors(r)
           \/ Allowlist(r) \/ Blocklist(r) \/ GeoIP(r) \/ CountRequests(r) \/ MaintenanceGate(r)
           \/ Limit(r) \/ Guard(r) \/ Handle(r)
    PROVE  RequestsInv'
<1>1. CASE NormalizePath(r)
  BY <1>1, PlainGateKeeps DEF NormalizePath
<1>2. CASE Cors(r)
  BY <1>2, PlainGateKeeps DEF Cors
<1>3. CASE GeoIP(r)
  <2>1. PICK ok \in BOOLEAN : PassOrReply(r, ok)
    BY <1>3 DEF GeoIP
  <2> QED BY <1>3, <2>1, PlainGateKeeps DEF GeoIP
<1>4. CASE Limit(r)
  <2>1. PICK ok \in BOOLEAN : PassOrReply(r, ok)
    BY <1>4 DEF Limit, PassOrReply
  <2> QED BY <1>4, <2>1, PlainGateKeeps DEF Limit
<1>5. CASE Handle(r)
  BY <1>5, ReplyKeeps DEF Handle
<1> QED BY <1>1, <1>2, <1>3, <1>4, <1>5, ArriveKeeps, RealIPKeeps, SecFetchKeeps, CsrfKeeps,
           AllowlistKeeps, CheckKeeps, CountKeeps

\* Histories that see more changes know less: what a request has proved stays proved.
LEMMA HistoriesGrow ==
    ASSUME NEW r \in Req, RequestsInv, always' \in [Req -> AlwaysType], ever' \in [Req -> EverType],
           UNCHANGED <<pc, req, client, listed>>,
           always'[r].closed => always[r].closed, always'[r].csrf => always[r].csrf,
           always'[r].secFetch => always[r].secFetch,
           always'[r].blocked \subseteq always[r].blocked,
           always'[r].resolved \subseteq always[r].resolved,
           ever'[r].noNonce = ever[r].noNonce,
           ever[r].allow \subseteq ever'[r].allow, ever[r].exempt \subseteq ever'[r].exempt,
           ever[r].metrics \subseteq ever'[r].metrics, ever[r].resolved \subseteq ever'[r].resolved,
           Seen(r)'
    PROVE  Knows(r)'
<1>1. Knows(r)
  BY DEF RequestsInv
<1>2. Sources(r) \subseteq Sources(r)'
  BY DEF Sources
<1>3. Origin(r)'
  BY <1>1, <1>2 DEF Knows, Origin
<1>4. Listed(r)'
  BY <1>1 DEF Knows, Listed
<1>5. Site(r)'
  BY <1>1 DEF Knows, Site
<1>6. Token(r)'
  BY <1>1 DEF Knows, Token, CsrfBypass
<1>7. Gates(r)'
  BY <1>1 DEF Knows, Gates
<1> QED BY <1>3, <1>4, <1>5, <1>6, <1>7 DEF Knows

\* The fields of the two histories.
LEMMA AlwaysFields ==
    ASSUME NEW h, NEW m, NEW c, NEW f, NEW b, NEW p,
           h = [closed |-> m, csrf |-> c, secFetch |-> f, blocked |-> b, resolved |-> p]
    PROVE  h.closed = m /\ h.csrf = c /\ h.secFetch = f /\ h.blocked = b /\ h.resolved = p
OBVIOUS

LEMMA EverFields ==
    ASSUME NEW h, NEW n, NEW a, NEW x, NEW m, NEW p,
           h = [noNonce |-> n, allow |-> a, exempt |-> x, metrics |-> m, resolved |-> p]
    PROVE  h.noNonce = n /\ h.allow = a /\ h.exempt = x /\ h.metrics = m /\ h.resolved = p
OBVIOUS

\* A change of configuration, files or names is seen by every request on its way.
LEMMA ReconfigureKeeps == ASSUME RequestsInv, Reconfigure PROVE RequestsInv'
<1>1. /\ live' \in Settings /\ blocked' \in BlockLists /\ resolved' \subseteq ProxyHosts
      /\ maintenance' = maintenance
  BY StayTyped DEF Reconfigure
<1>2. /\ live'.csrf \in BOOLEAN /\ live'.secFetch \in BOOLEAN /\ live'.allow \subseteq ClientAddrs
      /\ live'.exempt \subseteq STRING /\ live'.metrics \subseteq Addrs
      /\ blocked' \subseteq ClientAddrs
  BY <1>1, RequestsAssumption DEF Settings
<1>3. ASSUME NEW r \in Req
      PROVE  /\ always'[r] = [closed |-> always[r].closed, csrf |-> always[r].csrf /\ live'.csrf,
                              secFetch |-> always[r].secFetch /\ live'.secFetch,
                              blocked |-> always[r].blocked \cap blocked',
                              resolved |-> always[r].resolved \cap resolved']
             /\ ever'[r] = [noNonce |-> ever[r].noNonce, allow |-> ever[r].allow \cup live'.allow,
                            exempt |-> ever[r].exempt \cup live'.exempt,
                            metrics |-> ever[r].metrics \cup live'.metrics,
                            resolved |-> ever[r].resolved \cup resolved']
             /\ always'[r] \in AlwaysType /\ ever'[r] \in EverType
  <2>1. always[r] \in AlwaysType /\ ever[r] \in EverType
    BY StayTyped
  <2>2. /\ always'[r] = [closed |-> always[r].closed, csrf |-> always[r].csrf /\ live'.csrf,
                         secFetch |-> always[r].secFetch /\ live'.secFetch,
                         blocked |-> always[r].blocked \cap blocked',
                         resolved |-> always[r].resolved \cap resolved']
        /\ ever'[r] = [noNonce |-> ever[r].noNonce, allow |-> ever[r].allow \cup live'.allow,
                       exempt |-> ever[r].exempt \cup live'.exempt,
                       metrics |-> ever[r].metrics \cup live'.metrics,
                       resolved |-> ever[r].resolved \cup resolved']
    BY DEF Reconfigure, Observed
  <2>3. always'[r] \in AlwaysType
    BY <1>1, <1>2, <2>1, <2>2 DEF AlwaysType
  <2>4. ever'[r] \in EverType
    BY <1>1, <1>2, <2>1, <2>2 DEF EverType
  <2> QED BY <2>2, <2>3, <2>4
<1>4. always' \in [Req -> AlwaysType] /\ ever' \in [Req -> EverType]
  <2>1. /\ always' = [r \in Req |-> always'[r]] /\ ever' = [r \in Req |-> ever'[r]]
    BY DEF Reconfigure, Observed
  <2> QED BY <1>3, <2>1
<1>5. changes' \in 0 .. MaxChanges
  BY RequestsAssumption DEF Reconfigure, RequestsInv, RequestsTypeOK
<1>6. RequestsTypeOK' /\ ActiveExact'
  BY <1>1, <1>4, <1>5
     DEF Reconfigure, RequestsInv, RequestsTypeOK, ActiveExact, Counted, AlwaysType, EverType
<1>7. ASSUME NEW r \in Req PROVE Knows(r)'
  <2>1. Seen(r)
    BY DEF RequestsInv, Knows
  <2>2. /\ always'[r].closed = always[r].closed
        /\ always'[r].csrf = (always[r].csrf /\ live'.csrf)
        /\ always'[r].secFetch = (always[r].secFetch /\ live'.secFetch)
        /\ always'[r].blocked = always[r].blocked \cap blocked'
        /\ always'[r].resolved = always[r].resolved \cap resolved'
    <3>1. always'[r] = [closed |-> always[r].closed, csrf |-> always[r].csrf /\ live'.csrf,
                        secFetch |-> always[r].secFetch /\ live'.secFetch,
                        blocked |-> always[r].blocked \cap blocked',
                        resolved |-> always[r].resolved \cap resolved']
      BY <1>3
    <3> QED BY <3>1, AlwaysFields
  <2>3. /\ ever'[r].noNonce = ever[r].noNonce
        /\ ever'[r].allow = ever[r].allow \cup live'.allow
        /\ ever'[r].exempt = ever[r].exempt \cup live'.exempt
        /\ ever'[r].metrics = ever[r].metrics \cup live'.metrics
        /\ ever'[r].resolved = ever[r].resolved \cup resolved'
    <3>1. ever'[r] = [noNonce |-> ever[r].noNonce, allow |-> ever[r].allow \cup live'.allow,
                      exempt |-> ever[r].exempt \cup live'.exempt,
                      metrics |-> ever[r].metrics \cup live'.metrics,
                      resolved |-> ever[r].resolved \cup resolved']
      BY <1>3
    <3> QED BY <3>1, EverFields
  <2>4. /\ always'[r].csrf => always[r].csrf /\ live'.csrf
        /\ always'[r].secFetch => always[r].secFetch /\ live'.secFetch
    BY <2>2
  <2>5. Seen(r)'
    BY <1>1, <2>1, <2>2, <2>3, <2>4 DEF Seen
  <2>6. UNCHANGED <<pc, req, client, listed>>
    BY DEF Reconfigure
  <2> QED BY <1>4, <2>2, <2>3, <2>4, <2>5, <2>6, HistoriesGrow
<1> QED BY <1>6, <1>7 DEF RequestsInv

\* When the monitor switches, no request has seen maintenance all the time.
LEMMA SwitchKeeps == ASSUME RequestsInv, MonitorSwitches PROVE RequestsInv'
<1>1. ASSUME NEW r \in Req
      PROVE  /\ always'[r] = [always[r] EXCEPT !.closed = FALSE] /\ always'[r] \in AlwaysType
             /\ ~always'[r].closed /\ always'[r].csrf = always[r].csrf
             /\ always'[r].secFetch = always[r].secFetch
             /\ always'[r].blocked = always[r].blocked /\ always'[r].resolved = always[r].resolved
  <2>1. always[r] \in AlwaysType /\ always'[r] = [always[r] EXCEPT !.closed = FALSE]
    BY StayTyped DEF MonitorSwitches
  <2> QED BY <2>1 DEF AlwaysType
<1>2. always' \in [Req -> AlwaysType] /\ ever' \in [Req -> EverType]
  <2>1. always' = [r \in Req |-> always'[r]]
    BY DEF MonitorSwitches
  <2> QED BY <1>1, <2>1, StayTyped DEF MonitorSwitches
<1>3. RequestsTypeOK' /\ ActiveExact'
  BY <1>2
     DEF MonitorSwitches, RequestsInv, RequestsTypeOK, ActiveExact, Counted, AlwaysType, EverType
<1>4. ASSUME NEW r \in Req PROVE Knows(r)'
  <2>1. Seen(r)
    BY DEF RequestsInv, Knows
  <2>2. Seen(r)'
    BY <1>1, <2>1 DEF Seen, MonitorSwitches
  <2>3. UNCHANGED <<pc, req, client, listed, ever>>
    BY DEF MonitorSwitches
  <2> QED BY <1>1, <1>2, <2>2, <2>3, HistoriesGrow
<1> QED BY <1>3, <1>4 DEF RequestsInv

\* What is known at the handler is what the chain promises.
LEMMA KnownAtHandler == RequestsInv => RequestsGuarded
<1> SUFFICES ASSUME RequestsInv PROVE RequestsGuarded
  OBVIOUS
<1> USE DEF InHandler, BehindRealIP, BehindSecFetch, BehindCsrf, BehindAllowlist, BehindBlocklist,
            BehindMaintenance
<1>1. \A r \in Req : Knows(r) /\ req[r] \in Kind
  BY StayTyped, RequestsAssumption DEF RequestsInv
<1>2. BlockedKeptOut
  BY <1>1 DEF BlockedKeptOut, Knows, Origin, Listed
<1>3. ClosedToWrites
  BY <1>1 DEF ClosedToWrites, Knows, Gates
<1>4. NoForeignForm
  BY <1>1 DEF NoForeignForm, Knows, Token, CsrfBypass, Kind
<1>5. NoCrossSite
  BY <1>1 DEF NoCrossSite, Knows, Site
<1>6. MetricsKeptClose
  BY <1>1 DEF MetricsKeptClose, Knows, Origin, Gates
<1> QED BY <1>2, <1>3, <1>4, <1>5, <1>6 DEF RequestsInv, RequestsGuarded

\* Blocked addresses, writes in maintenance, foreign forms and strangers to the metrics do
\* not get past the middlewares of setupRoutes, judged by what held all the while they were
\* on their way, and the count of open requests is exact, for any number of requests racing
\* with reloads, list updates and the maintenance monitor.
THEOREM ChainGuards == RequestsSpec => []RequestsGuarded
<1>1. ASSUME RequestsInv, UNCHANGED requestVars PROVE RequestsInv'
  <2>1. RequestsTypeOK' /\ ActiveExact'
    BY <1>1 DEF requestVars, RequestsInv, RequestsTypeOK, ActiveExact, Counted
  <2>2. ASSUME NEW r \in Req PROVE Knows(r)'
    <3>1. Seen(r)'
      BY <1>1 DEF requestVars, RequestsInv, Knows, Seen
    <3> QED BY <1>1, <3>1, StayTyped, HistoriesGrow DEF requestVars
  <2> QED BY <2>1, <2>2 DEF RequestsInv
<1>2. RequestsInv /\ [RequestsNext]_requestVars => RequestsInv'
  BY <1>1, RequestKeeps, ReconfigureKeeps, SwitchKeeps DEF RequestsNext, RequestStep
<1>3. RequestsSpec => []RequestsInv
  BY <1>2, InitEstablishes, PTL DEF RequestsSpec
<1> QED BY <1>3, KnownAtHandler, PTL

(***************************************************************************)
(* The rate limiter.  A bucket belongs to one address, through the map or  *)
(* through a request that holds it.  What it has recorded in this window    *)
(* was let through, and what was let through by the bucket in the map is    *)
(* recorded there; so a full bucket means as many requests, and a bucket    *)
(* that is never overfull means no more.                                    *)
(***************************************************************************)
InWindow(e) == now < e.at + LimitWindow

HoldersOK ==
    /\ \A r \in Calls : /\ Holding(r) => call[r].bucket \in Buckets
                        /\ ~Holding(r) => call[r].bucket = NoBucket
    /\ \A r, q \in Calls : Holding(r) /\ Holding(q) /\ call[r].bucket = call[q].bucket =>
                             call[r].ip = call[q].ip

FiniteOK ==
    /\ \A b \in Buckets : IsFiniteSet(requests[b])
    /\ \A ip \in IPs : IsFiniteSet(admitted[ip]) /\ IsFiniteSet(strays[ip])

CountsOK == \A b \in Buckets : Cardinality(Recent(requests[b])) <= MaxLimit

\* Let through by the bucket in the map: recorded in it.
AdmittedRecorded ==
    \A ip \in IPs : \A e \in admitted[ip] :
        InWindow(e) => buckets[ip] # NoBucket /\ e \in requests[buckets[ip]]

Owns(ip, b) ==
    \/ buckets[ip] = b
    \/ \E r \in Calls : Holding(r) /\ call[r].bucket = b /\ call[r].ip = ip

\* Recorded in a bucket of an address: a request of that address, let through.
RecordedAdmitted ==
    \A ip \in IPs : \A b \in Buckets : Owns(ip, b) =>
        \A e \in requests[b] : InWindow(e) => e \in admitted[ip] \cup strays[ip]

LimiterInv ==
    /\ LimiterTypeOK /\ HoldersOK /\ BucketsApart /\ FiniteOK /\ CountsOK
    /\ AdmittedRecorded /\ RecordedAdmitted
\* The largest limit is one of the limits, and no limit exceeds it.
LEMMA MaxLimitBounds == MaxLimit \in Limits /\ MaxLimit \in Nat /\ \A l \in Limits : l \in Nat /\ l <= MaxLimit
<1>1. \E l \in Limits : \A k \in Limits : k <= l
  BY LimiterNumbers
<1>2. MaxLimit \in Limits /\ \A k \in Limits : k <= MaxLimit
  BY <1>1 DEF MaxLimit
<1> QED BY <1>2, LimiterNumbers

LEMMA NoCallTyped == NoCall \in Request /\ NoCall.pc = "idle" /\ NoCall.bucket = NoBucket
<1>1. (CHOOSE ip \in IPs : TRUE) \in IPs
  BY LimiterHeap
<1> QED BY <1>1, MaxLimitBounds DEF NoCall, Request

\* A map of a finite set has at most as many values as arguments.
LEMMA FewValues ==
    ASSUME NEW S, IsFiniteSet(S), NEW g
    PROVE  IsFiniteSet({g[x] : x \in S}) /\ Cardinality({g[x] : x \in S}) <= Cardinality(S)
<1> DEFINE T == {g[x] : x \in S}
           f == [x \in S |-> g[x]]
<1>1. f \in Surjection(S, T)
  BY DEF Surjection
<1> HIDE DEF T, f
<1>2. IsFiniteSet(T) /\ Cardinality(T) <= Cardinality(S)
  BY <1>1, FS_Surjection
<1> QED BY <1>2 DEF T

\* There is always a cell for a new bucket.
LEMMA SpareBucket ==
    ASSUME buckets \in [IPs -> Buckets \cup {NoBucket}], call \in [Calls -> Request]
    PROVE  Garbage # {}
<1> DEFINE B == {buckets[ip] : ip \in IPs}
           cell == [r \in Calls |-> call[r].bucket]
           C == {cell[r] : r \in Calls}
<1>1. IsFiniteSet(B) /\ Cardinality(B) <= Cardinality(IPs)
  BY FewValues, LimiterHeap
<1>2. IsFiniteSet(C) /\ Cardinality(C) <= Cardinality(Calls)
  <2> HIDE DEF cell
  <2> QED BY FewValues, LimiterHeap
<1>3. C = {call[r].bucket : r \in Calls}
  OBVIOUS
<1>4. Garbage = Buckets \ (B \cup C)
  BY <1>3 DEF Garbage
<1> HIDE DEF B, C, cell
<1>5. IsFiniteSet(B \cup C) /\ Cardinality(B \cup C) = Cardinality(B) + Cardinality(C) - Cardinality(B \cap C)
  BY <1>1, <1>2, FS_Union
<1>6. IsFiniteSet(B \cap C)
  BY <1>1, FS_Intersection, <1>2
<1>7. /\ Cardinality(B) \in Nat /\ Cardinality(C) \in Nat /\ Cardinality(B \cap C) \in Nat
      /\ Cardinality(IPs) \in Nat /\ Cardinality(Calls) \in Nat /\ Cardinality(B \cup C) \in Nat
      /\ Cardinality(Buckets) \in Nat
  BY <1>1, <1>2, <1>5, <1>6, LimiterHeap, FS_CardinalityType
<1>8. ASSUME Garbage = {} PROVE FALSE
  <2>1. Buckets \in SUBSET (B \cup C)
    BY <1>4, <1>8
  <2>2. Cardinality(Buckets) <= Cardinality(B \cup C)
    BY <2>1, <1>5, FS_Subset
  <2> QED BY <2>2, <1>1, <1>2, <1>5, <1>7, LimiterHeap
<1> QED BY <1>8

\* There is always a number that tells a new request from the recorded ones.
LEMMA SpareStamp ==
    ASSUME NEW seen, IsFiniteSet(seen), NEW t
    PROVE  \E n \in 0 .. Cardinality(seen) : [at |-> t, n |-> n] \notin seen
<1> DEFINE I == 0 .. Cardinality(seen)
           f == [n \in I |-> [at |-> t, n |-> n]]
<1>1. Cardinality(seen) \in Nat
  BY FS_CardinalityType
<1>2. IsFiniteSet(I) /\ Cardinality(I) = Cardinality(seen) + 1
  BY <1>1, FS_Interval
<1>3. ASSUME \A n \in I : [at |-> t, n |-> n] \in seen PROVE FALSE
  <2>1. f \in [I -> seen]
    BY <1>3
  <2>2. \A x, y \in I : f[x] = f[y] => x = y
    OBVIOUS
  <2> HIDE DEF I, f
  <2>3. \E x, y \in I : x # y /\ f[x] = f[y]
    BY <1>1, <1>2, <2>1, FS_PigeonHole
  <2> QED BY <2>2, <2>3
<1> QED BY <1>3

\* The request let through is new to its bucket and to the history of its address.
LEMMA StampIsNew ==
    ASSUME LimiterTypeOK, FiniteOK, NEW ip \in IPs, NEW b \in Buckets
    PROVE  /\ Stamp(ip, b) \in Event /\ Stamp(ip, b).at = now
           /\ Stamp(ip, b) \notin requests[b] \cup admitted[ip] \cup strays[ip]
<1> DEFINE seen == requests[b] \cup admitted[ip] \cup strays[ip]
           n == CHOOSE n \in 0 .. Cardinality(seen) : [at |-> now, n |-> n] \notin seen
<1>1. IsFiniteSet(seen)
  BY FS_Union DEF FiniteOK
<1>2. Stamp(ip, b) = [at |-> now, n |-> n]
  BY DEF Stamp
<1>3. n \in 0 .. Cardinality(seen) /\ [at |-> now, n |-> n] \notin seen
  <2> HIDE DEF seen
  <2> QED BY <1>1, SpareStamp
<1>4. Cardinality(seen) \in Nat
  BY <1>1, FS_CardinalityType
<1> HIDE DEF n
<1>5. n \in Nat
  BY <1>3, <1>4
<1>6. Stamp(ip, b) \in Event
  BY <1>2, <1>5 DEF Event, LimiterTypeOK
<1> QED BY <1>2, <1>3, <1>6
\* The recent entries of a finite set are finitely many, and no more than all of them.
LEMMA RecentFinite ==
    ASSUME NEW s, IsFiniteSet(s)
    PROVE  /\ Recent(s) \subseteq s /\ IsFiniteSet(Recent(s)) /\ Cardinality(Recent(s)) \in Nat
           /\ Within(s) \subseteq s /\ IsFiniteSet(Within(s)) /\ Cardinality(Within(s)) \in Nat
<1>1. Recent(s) \in SUBSET s /\ Within(s) \in SUBSET s
  BY DEF Recent, Within
<1> HIDE DEF Recent, Within
<1>2. IsFiniteSet(Recent(s)) /\ IsFiniteSet(Within(s))
  BY <1>1, FS_Subset
<1> QED BY <1>1, <1>2, FS_CardinalityType

\* A fresh bucket is referred to by nothing.
LEMMA FreshIsFree ==
    ASSUME LimiterTypeOK
    PROVE  LET fresh == CHOOSE b \in Garbage : TRUE
           IN  /\ fresh \in Buckets /\ \A i \in IPs : buckets[i] # fresh
               /\ \A q \in Calls : call[q].bucket # fresh
<1> DEFINE fresh == CHOOSE b \in Garbage : TRUE
<1>1. Garbage # {}
  BY SpareBucket DEF LimiterTypeOK
<1>2. fresh \in Garbage
  BY <1>1
<1> HIDE DEF fresh
<1>3. /\ fresh \in Buckets /\ \A i \in IPs : buckets[i] # fresh
      /\ \A q \in Calls : call[q].bucket # fresh
  BY <1>2 DEF Garbage
<1> QED BY <1>3 DEF fresh

\* What Lookup does, with its bucket named.
LEMMA LookupShape ==
    ASSUME LimiterInv, NEW r \in Calls, Lookup(r)
    PROVE  \E ip \in IPs, b \in Buckets :
             /\ ~Holding(r)
             /\ buckets' = [buckets EXCEPT ![ip] = b]
             /\ call' = [call EXCEPT ![r] = [pc |-> "holding", ip |-> ip, bucket |-> b,
                                             limit |-> limit]]
             /\ \/ buckets[ip] = b /\ requests' = requests
                \/ /\ buckets[ip] = NoBucket /\ requests' = [requests EXCEPT ![b] = {}]
                   /\ \A i \in IPs : buckets[i] # b
                   /\ \A q \in Calls : call[q].bucket # b
             /\ UNCHANGED <<limit, now, rounds, admitted, strays>>
<1> DEFINE fresh == CHOOSE b \in Garbage : TRUE
<1>1. /\ fresh \in Buckets /\ \A i \in IPs : buckets[i] # fresh
      /\ \A q \in Calls : call[q].bucket # fresh
  BY FreshIsFree DEF LimiterInv
<1>2. PICK ip \in IPs :
        LET b == IF buckets[ip] = NoBucket THEN fresh ELSE buckets[ip]
        IN  /\ buckets' = [buckets EXCEPT ![ip] = b]
            /\ requests' = IF buckets[ip] = NoBucket THEN [requests EXCEPT ![b] = {}]
                           ELSE requests
            /\ call' = [call EXCEPT ![r] = [pc |-> "holding", ip |-> ip, bucket |-> b,
                                            limit |-> limit]]
  BY DEF Lookup
<1>3. buckets[ip] \in Buckets \cup {NoBucket}
  BY DEF LimiterInv, LimiterTypeOK
<1>4. ~Holding(r) /\ UNCHANGED <<limit, now, rounds, admitted, strays>>
  BY DEF Lookup
<1> HIDE DEF fresh
<1>5. CASE buckets[ip] = NoBucket
  <2>1. fresh \in Buckets
    BY <1>1
  <2> USE <2>1
  <2> WITNESS ip \in IPs, fresh \in Buckets
  <2> QED BY <1>1, <1>2, <1>4, <1>5
<1>6. CASE buckets[ip] # NoBucket
  <2>1. buckets[ip] \in Buckets
    BY <1>3, <1>6
  <2> USE <2>1
  <2> WITNESS ip \in IPs, buckets[ip] \in Buckets
  <2> QED BY <1>2, <1>4, <1>6
<1> QED BY <1>5, <1>6

\* A lookup gives the address its own bucket, the one in the map or an empty new one.
LEMMA LookupKeeps == ASSUME LimiterInv, NEW r \in Calls, Lookup(r) PROVE LimiterInv'
<1> USE DEF Holding
<1>0. LimiterTypeOK /\ HoldersOK /\ BucketsApart /\ FiniteOK /\ CountsOK /\ AdmittedRecorded
      /\ RecordedAdmitted
  BY DEF LimiterInv
<1>1. PICK ip \in IPs, b \in Buckets :
             /\ ~Holding(r)
             /\ buckets' = [buckets EXCEPT ![ip] = b]
             /\ call' = [call EXCEPT ![r] = [pc |-> "holding", ip |-> ip, bucket |-> b,
                                             limit |-> limit]]
             /\ \/ buckets[ip] = b /\ requests' = requests
                \/ /\ buckets[ip] = NoBucket /\ requests' = [requests EXCEPT ![b] = {}]
                   /\ \A i \in IPs : buckets[i] # b
                   /\ \A q \in Calls : call[q].bucket # b
             /\ UNCHANGED <<limit, now, rounds, admitted, strays>>
  BY LookupShape
<1>2. [pc |-> "holding", ip |-> ip, bucket |-> b, limit |-> limit] \in Request
  BY <1>0 DEF LimiterTypeOK, Request
<1>3. LimiterTypeOK'
  BY <1>0, <1>1, <1>2 DEF LimiterTypeOK
<1>4. /\ call'[r].pc = "holding" /\ call'[r].ip = ip /\ call'[r].bucket = b
      /\ \A q \in Calls : q # r => call'[q] = call[q]
  BY <1>0, <1>1 DEF LimiterTypeOK
<1>5. buckets'[ip] = b /\ \A i \in IPs : i # ip => buckets'[i] = buckets[i]
  BY <1>0, <1>1 DEF LimiterTypeOK
<1>6. /\ \A c \in Buckets : requests'[c] = requests[c] \/ (c = b /\ requests'[c] = {})
      /\ requests'[b] = {} \/ (buckets[ip] = b /\ requests'[b] = requests[b])
      /\ \A c \in Buckets : c # b => requests'[c] = requests[c]
  BY <1>0, <1>1 DEF LimiterTypeOK
<1>7. b # NoBucket
  BY LimiterHeap
<1>8. \A q \in Calls : q # r /\ call[q].pc = "holding" /\ call[q].bucket = b => call[q].ip = ip
  BY <1>0, <1>1 DEF BucketsApart
<1>9. HoldersOK'
  BY <1>0, <1>4, <1>7, <1>8 DEF HoldersOK
<1>10. \A i \in IPs : buckets'[i] = b => i = ip
  BY <1>0, <1>1, <1>5, <1>7 DEF BucketsApart
<1>11. BucketsApart'
  BY <1>0, <1>4, <1>5, <1>7, <1>8, <1>10 DEF BucketsApart
<1>12. FiniteOK'
  BY <1>0, <1>1, <1>6, FS_EmptySet DEF FiniteOK
<1>14. CountsOK'
  <2>1. ASSUME NEW c \in Buckets PROVE Cardinality({e \in requests'[c] : now < e.at + LimitWindow}) <= MaxLimit
    <3>1. CASE requests'[c] = requests[c]
      BY <1>0, <3>1 DEF CountsOK, Recent
    <3>2. CASE requests'[c] = {}
      <4>1. {e \in requests'[c] : now < e.at + LimitWindow} = {}
        BY <3>2
      <4> QED BY <4>1, FS_EmptySet, MaxLimitBounds
    <3> QED BY <1>6, <3>1, <3>2
  <2> QED BY <1>1, <2>1 DEF CountsOK, Recent
<1>15. AdmittedRecorded'
  <2> SUFFICES ASSUME NEW i \in IPs, NEW e \in admitted[i], now < e.at + LimitWindow
               PROVE  buckets'[i] # NoBucket /\ e \in requests'[buckets'[i]]
    BY <1>1 DEF AdmittedRecorded, InWindow
  <2>1. buckets[i] # NoBucket /\ e \in requests[buckets[i]]
    BY <1>0 DEF AdmittedRecorded, InWindow
  <2>2. CASE i = ip
    BY <1>1, <1>5, <1>6, <1>7, <2>1, <2>2
  <2>3. CASE i # ip
    <3>1. buckets'[i] = buckets[i] /\ buckets[i] # b /\ buckets[i] \in Buckets
      BY <1>0, <1>5, <1>10, <2>1, <2>3 DEF LimiterTypeOK
    <3> QED BY <1>6, <2>1, <3>1
  <2> QED BY <2>2, <2>3
<1>16. RecordedAdmitted'
  <2> SUFFICES ASSUME NEW i \in IPs, NEW c \in Buckets, Owns(i, c)', NEW e \in requests'[c],
                      now < e.at + LimitWindow
               PROVE  e \in admitted[i] \cup strays[i]
    BY <1>1 DEF RecordedAdmitted, InWindow
  <2>1. requests'[c] = requests[c]
    BY <1>6
  <2>2. Owns(i, c)
    <3>1. CASE c = b
      <4>1. buckets[ip] = b
        BY <1>6, <2>1, <3>1, <1>1
      <4>2. i = ip
        BY <1>4, <1>8, <1>10, <3>1 DEF Owns
      <4> QED BY <3>1, <4>1, <4>2 DEF Owns
    <3>2. CASE c # b
      BY <1>4, <1>5, <3>2 DEF Owns
    <3> QED BY <3>1, <3>2
  <2> QED BY <1>0, <2>1, <2>2 DEF RecordedAdmitted, InWindow
<1> QED BY <1>3, <1>9, <1>11, <1>12, <1>14, <1>15, <1>16 DEF LimiterInv
\* When a request lets go of its bucket, the others hold what they held.
LEMMA LetGo ==
    ASSUME LimiterInv, NEW r \in Calls, Holding(r), Done(r)
    PROVE  /\ call[r].bucket \in Buckets /\ call[r].ip \in IPs
           /\ call[r].limit \in Nat /\ call[r].limit <= MaxLimit
           /\ call' \in [Calls -> Request]
           /\ call'[r].pc = "idle" /\ call'[r].bucket = NoBucket
           /\ \A q \in Calls : q # r => call'[q] = call[q]
<1>1. call[r] \in Request /\ call[r].bucket \in Buckets
  BY DEF LimiterInv, LimiterTypeOK, HoldersOK
<1>2. call[r].ip \in IPs /\ call[r].limit \in Limits
  BY <1>1 DEF Request
<1>3. call' = [call EXCEPT ![r] = NoCall] /\ call \in [Calls -> Request]
  BY DEF Done, LimiterInv, LimiterTypeOK
<1>4. call' \in [Calls -> Request] /\ call'[r] = NoCall /\ \A q \in Calls : q # r => call'[q] = call[q]
  BY <1>3, NoCallTyped
<1> QED BY <1>1, <1>2, <1>4, NoCallTyped, MaxLimitBounds

\* The parts of the invariant about who refers to a bucket survive a request that leaves.
LEMMA LeavingKeepsApart ==
    ASSUME LimiterInv, NEW r \in Calls, Holding(r), Done(r), buckets' = buckets
    PROVE  /\ HoldersOK' /\ BucketsApart'
           /\ \A i \in IPs, c \in Buckets : Owns(i, c)' => Owns(i, c)
<1>1. /\ call'[r].pc = "idle" /\ call'[r].bucket = NoBucket
      /\ \A q \in Calls : q # r => call'[q] = call[q]
  BY LetGo
<1>2. HoldersOK /\ BucketsApart
  BY DEF LimiterInv
<1>3. HoldersOK'
  BY <1>1, <1>2 DEF HoldersOK, Holding
<1>4. BucketsApart'
  BY <1>1, <1>2 DEF BucketsApart, Holding
<1>5. ASSUME NEW i \in IPs, NEW c \in Buckets, Owns(i, c)' PROVE Owns(i, c)
  BY <1>1, <1>5 DEF Owns, Holding
<1> QED BY <1>3, <1>4, <1>5

\* Whoever still refers to the bucket sees what r left in it.
LEMMA KeptWhileOwned ==
    ASSUME LimiterInv, NEW r \in Calls, Holding(r), Done(r), buckets' = buckets, NEW s,
           NEW b \in Buckets, b = call[r].bucket, NEW i \in IPs, Owns(i, b)'
    PROVE  Keep(r, s) = s /\ i = call[r].ip
<1>1. /\ call'[r].pc = "idle" /\ call'[r].bucket = NoBucket
      /\ \A q \in Calls : q # r => call'[q] = call[q]
      /\ call[r].ip \in IPs /\ call[r].bucket \in Buckets
  BY LetGo
<1>2. HoldersOK /\ BucketsApart
  BY DEF LimiterInv
<1>3. CASE buckets[i] = b
  BY <1>2, <1>3 DEF BucketsApart, Keep
<1>4. CASE buckets[i] # b
  <2>1. PICK q \in Calls : /\ call'[q].pc = "holding" /\ call'[q].bucket = b
                           /\ call'[q].ip = i
    BY <1>4 DEF Owns, Holding
  <2>2. q # r /\ call'[q] = call[q]
    BY <1>1, <2>1
  <2>3. call[q].ip = call[r].ip
    BY <1>2, <2>1, <2>2 DEF HoldersOK, Holding
  <2>4. Keep(r, s) = s
    BY <2>1, <2>2 DEF Keep
  <2> QED BY <2>1, <2>2, <2>3, <2>4
<1> QED BY <1>3, <1>4

\* A refusal only drops entries that have expired, or a bucket nobody refers to.
LEMMA RefuseKeeps == ASSUME LimiterInv, NEW r \in Calls, Refuse(r) PROVE LimiterInv'
<1>0. LimiterTypeOK /\ HoldersOK /\ BucketsApart /\ FiniteOK /\ CountsOK /\ AdmittedRecorded
      /\ RecordedAdmitted
  BY DEF LimiterInv
<1>1. PICK b : b = call[r].bucket
  OBVIOUS
<1>2. /\ Holding(r) /\ Done(r)
      /\ requests' = [requests EXCEPT ![b] = Keep(r, Recent(requests[b]))]
      /\ buckets' = buckets /\ limit' = limit /\ now' = now /\ rounds' = rounds
      /\ admitted' = admitted /\ strays' = strays
  BY <1>1 DEF Refuse
<1>3. b \in Buckets /\ call' \in [Calls -> Request]
  BY <1>1, <1>2, LetGo
<1>4. Recent(requests[b]) \subseteq requests[b] /\ IsFiniteSet(Recent(requests[b]))
  BY <1>0, <1>3, RecentFinite DEF FiniteOK
<1>5. Keep(r, Recent(requests[b])) = Recent(requests[b]) \/ Keep(r, Recent(requests[b])) = {}
  BY DEF Keep
<1>6. /\ requests'[b] = Keep(r, Recent(requests[b]))
      /\ \A c \in Buckets : c # b => requests'[c] = requests[c]
      /\ requests' \in [Buckets -> SUBSET Event]
  <2>1. requests \in [Buckets -> SUBSET Event]
    BY <1>0 DEF LimiterTypeOK
  <2>2. Keep(r, Recent(requests[b])) \in SUBSET Event
    BY <1>3, <1>4, <1>5, <2>1
  <2> QED BY <1>2, <1>3, <2>1, <2>2
<1>7. LimiterTypeOK'
  BY <1>0, <1>2, <1>3, <1>6 DEF LimiterTypeOK
<1>8. HoldersOK' /\ BucketsApart'
  BY <1>2, LeavingKeepsApart
<1>9. FiniteOK'
  BY <1>0, <1>2, <1>4, <1>5, <1>6, FS_EmptySet DEF FiniteOK
<1>10. CountsOK'
  <2>1. ASSUME NEW c \in Buckets PROVE Cardinality(Recent(requests'[c])) <= MaxLimit
    <3>1. requests'[c] = requests[c] \/ Recent(requests'[c]) = {}
          \/ Recent(requests'[c]) = Recent(requests[c])
      BY <1>5, <1>6 DEF Recent
    <3>2. Cardinality(Recent(requests[c])) <= MaxLimit
      BY <1>0 DEF CountsOK
    <3>3. CASE Recent(requests'[c]) = {}
      BY <3>3, FS_EmptySet, MaxLimitBounds
    <3> QED BY <3>1, <3>2, <3>3
  <2> QED BY <1>2, <2>1 DEF CountsOK, Recent
<1>11. AdmittedRecorded'
  <2> SUFFICES ASSUME NEW i \in IPs, NEW e \in admitted[i], now < e.at + LimitWindow
               PROVE  buckets[i] # NoBucket /\ e \in requests'[buckets[i]]
    BY <1>2 DEF AdmittedRecorded, InWindow
  <2>1. buckets[i] # NoBucket /\ e \in requests[buckets[i]] /\ buckets[i] \in Buckets
    BY <1>0 DEF AdmittedRecorded, InWindow, LimiterTypeOK
  <2>2. CASE buckets[i] = b
    <3>1. Owns(i, b)'
      BY <1>2, <2>2 DEF Owns
    <3>2. requests'[b] = Recent(requests[b])
      BY <1>1, <1>2, <1>3, <1>6, <3>1, KeptWhileOwned
    <3>3. e \in Recent(requests[b])
      BY <2>1, <2>2 DEF Recent
    <3> QED BY <2>1, <2>2, <3>2, <3>3
  <2>3. CASE buckets[i] # b
    BY <1>6, <2>1, <2>3
  <2> QED BY <2>2, <2>3
<1>12. RecordedAdmitted'
  <2> SUFFICES ASSUME NEW i \in IPs, NEW c \in Buckets, Owns(i, c)', NEW e \in requests'[c],
                      now < e.at + LimitWindow
               PROVE  e \in admitted[i] \cup strays[i]
    BY <1>2 DEF RecordedAdmitted, InWindow
  <2>1. e \in requests[c]
    BY <1>4, <1>5, <1>6
  <2>2. Owns(i, c)
    BY <1>2, LeavingKeepsApart
  <2> QED BY <1>0, <2>1, <2>2 DEF RecordedAdmitted, InWindow
<1> QED BY <1>7, <1>8, <1>9, <1>10, <1>11, <1>12 DEF LimiterInv
\* What Admit does to the history: e joins it, and nothing of this window leaves it.
LEMMA AdmitHistory ==
    ASSUME LimiterInv, NEW r \in Calls, Admit(r), NEW b, b = call[r].bucket, NEW ip, ip = call[r].ip,
           NEW e, e = Stamp(ip, b)
    PROVE  /\ admitted' \in [IPs -> SUBSET Event] /\ strays' \in [IPs -> SUBSET Event]
           /\ \A i \in IPs : IsFiniteSet(admitted'[i]) /\ IsFiniteSet(strays'[i])
           /\ e \in admitted'[ip] \cup strays'[ip]
           /\ \A i \in IPs : \A x \in admitted[i] \cup strays[i] :
                now < x.at + LimitWindow => x \in admitted'[i] \cup strays'[i]
           /\ \A i \in IPs : \A x \in admitted'[i] :
                \/ x \in admitted[i]
                \/ i = ip /\ buckets[ip] = b /\ x = e
<1>1. LimiterTypeOK /\ FiniteOK
  BY DEF LimiterInv
<1>2. Holding(r) /\ Done(r)
  BY DEF Admit
<1>3. b \in Buckets /\ ip \in IPs
  BY <1>2, LetGo
<1>4. e \in Event
  BY <1>1, <1>3, StampIsNew
<1>5. admitted \in [IPs -> SUBSET Event] /\ strays \in [IPs -> SUBSET Event]
  BY <1>1 DEF LimiterTypeOK
<1>6. \A i \in IPs : IsFiniteSet(admitted[i]) /\ IsFiniteSet(strays[i])
  BY <1>1 DEF FiniteOK
<1>7. ASSUME NEW s, IsFiniteSet(s), s \subseteq Event
      PROVE  /\ IsFiniteSet(Within(s) \cup {e}) /\ Within(s) \cup {e} \subseteq Event
             /\ \A x \in s : now < x.at + LimitWindow => x \in Within(s)
             /\ Within(s) \subseteq s
  <2>1. IsFiniteSet(Within(s)) /\ Within(s) \subseteq s
    BY <1>7, RecentFinite
  <2>2. IsFiniteSet(Within(s) \cup {e})
    BY <2>1, FS_AddElement
  <2>3. \A x \in s : now < x.at + LimitWindow => x \in Within(s)
    BY DEF Within
  <2> QED BY <1>4, <1>7, <2>1, <2>2, <2>3
<1>8. CASE buckets[ip] = b
  <2>1. admitted' = [admitted EXCEPT ![ip] = Within(admitted[ip]) \cup {e}] /\ strays' = strays
    BY <1>8 DEF Admit
  <2>2. admitted'[ip] = Within(admitted[ip]) \cup {e} /\ \A i \in IPs : i # ip => admitted'[i] = admitted[i]
    BY <1>3, <1>5, <2>1
  <2>3. /\ IsFiniteSet(admitted'[ip]) /\ admitted'[ip] \subseteq Event
        /\ \A x \in admitted[ip] : now < x.at + LimitWindow => x \in admitted'[ip]
        /\ \A x \in admitted'[ip] : x \in admitted[ip] \/ x = e
    <3>1. PICK s : s = admitted[ip]
      OBVIOUS
    <3>2. IsFiniteSet(s) /\ s \subseteq Event
      BY <1>3, <1>5, <1>6, <3>1
    <3>3. /\ IsFiniteSet(Within(s) \cup {e}) /\ Within(s) \cup {e} \subseteq Event
          /\ \A x \in s : now < x.at + LimitWindow => x \in Within(s)
          /\ Within(s) \subseteq s
      BY <1>7, <3>2
    <3> QED BY <2>2, <3>1, <3>3
  <2>4. admitted' \in [IPs -> SUBSET Event]
    <3>1. PICK w : w = Within(admitted[ip]) \cup {e}
      OBVIOUS
    <3>2. w \in SUBSET Event /\ admitted' = [admitted EXCEPT ![ip] = w]
      BY <2>1, <2>2, <2>3, <3>1
    <3> QED BY <1>3, <1>5, <3>2
  <2> QED BY <1>3, <1>5, <1>6, <1>8, <2>1, <2>2, <2>3, <2>4
<1>9. CASE buckets[ip] # b
  <2>1. strays' = [strays EXCEPT ![ip] = Within(strays[ip]) \cup {e}] /\ admitted' = admitted
    BY <1>9 DEF Admit
  <2>2. strays'[ip] = Within(strays[ip]) \cup {e} /\ \A i \in IPs : i # ip => strays'[i] = strays[i]
    BY <1>3, <1>5, <2>1
  <2>3. /\ IsFiniteSet(strays'[ip]) /\ strays'[ip] \subseteq Event
        /\ \A x \in strays[ip] : now < x.at + LimitWindow => x \in strays'[ip]
    <3>1. PICK s : s = strays[ip]
      OBVIOUS
    <3>2. IsFiniteSet(s) /\ s \subseteq Event
      BY <1>3, <1>5, <1>6, <3>1
    <3>3. /\ IsFiniteSet(Within(s) \cup {e}) /\ Within(s) \cup {e} \subseteq Event
          /\ \A x \in s : now < x.at + LimitWindow => x \in Within(s)
      BY <1>7, <3>2
    <3> QED BY <2>2, <3>1, <3>3
  <2>4. strays' \in [IPs -> SUBSET Event]
    <3>1. PICK w : w = Within(strays[ip]) \cup {e}
      OBVIOUS
    <3>2. w \in SUBSET Event /\ strays' = [strays EXCEPT ![ip] = w]
      BY <2>1, <2>2, <2>3, <3>1
    <3> QED BY <1>3, <1>5, <3>2
  <2> QED BY <1>3, <1>5, <1>6, <1>9, <2>1, <2>2, <2>3, <2>4
<1> QED BY <1>8, <1>9

\* A request let through is recorded in the bucket it held, which had room for it.
LEMMA AdmitKeeps == ASSUME LimiterInv, NEW r \in Calls, Admit(r) PROVE LimiterInv'
<1>0. LimiterTypeOK /\ HoldersOK /\ BucketsApart /\ FiniteOK /\ CountsOK /\ AdmittedRecorded
      /\ RecordedAdmitted
  BY DEF LimiterInv
<1>1. PICK b, ip, e : b = call[r].bucket /\ ip = call[r].ip /\ e = Stamp(ip, b)
  OBVIOUS
<1>2. /\ Holding(r) /\ Done(r) /\ ~Full(r)
      /\ requests' = [requests EXCEPT ![b] = Keep(r, Recent(requests[b]) \cup {e})]
      /\ buckets' = buckets /\ limit' = limit /\ now' = now /\ rounds' = rounds
  BY <1>1 DEF Admit
<1>3. /\ b \in Buckets /\ ip \in IPs /\ call' \in [Calls -> Request]
      /\ call[r].limit \in Nat /\ call[r].limit <= MaxLimit
  BY <1>1, <1>2, LetGo
<1>4. /\ admitted' \in [IPs -> SUBSET Event] /\ strays' \in [IPs -> SUBSET Event]
      /\ \A i \in IPs : IsFiniteSet(admitted'[i]) /\ IsFiniteSet(strays'[i])
      /\ e \in admitted'[ip] \cup strays'[ip]
      /\ \A i \in IPs : \A x \in admitted[i] \cup strays[i] :
           now < x.at + LimitWindow => x \in admitted'[i] \cup strays'[i]
      /\ \A i \in IPs : \A x \in admitted'[i] :
           \/ x \in admitted[i]
           \/ i = ip /\ buckets[ip] = b /\ x = e
  BY <1>1, AdmitHistory
<1>5. e \in Event
  BY <1>0, <1>1, <1>3, StampIsNew
<1>6. PICK kept : kept = Keep(r, Recent(requests[b]) \cup {e})
  OBVIOUS
<1>7. /\ Recent(requests[b]) \subseteq requests[b] /\ IsFiniteSet(Recent(requests[b]))
      /\ Cardinality(Recent(requests[b])) \in Nat
  BY <1>0, <1>3, RecentFinite DEF FiniteOK
<1>8. /\ IsFiniteSet(Recent(requests[b]) \cup {e})
      /\ Cardinality(Recent(requests[b]) \cup {e}) <= Cardinality(Recent(requests[b])) + 1
  <2>1. PICK s : s = Recent(requests[b])
    OBVIOUS
  <2>2. /\ IsFiniteSet(s \cup {e})
        /\ Cardinality(s \cup {e}) = IF e \in s THEN Cardinality(s) ELSE Cardinality(s) + 1
    BY <1>7, <2>1, FS_AddElement
  <2>3. Cardinality(s) \in Nat
    BY <1>7, <2>1
  <2>4. Cardinality(s \cup {e}) <= Cardinality(s) + 1
    BY <2>2, <2>3
  <2> QED BY <2>1, <2>2, <2>4
<1>9. kept = Recent(requests[b]) \cup {e} \/ kept = {}
  BY <1>6 DEF Keep
<1>10. requests \in [Buckets -> SUBSET Event]
  BY <1>0 DEF LimiterTypeOK
<1>11. kept \in SUBSET Event /\ IsFiniteSet(kept)
  BY <1>3, <1>5, <1>7, <1>8, <1>9, <1>10, FS_EmptySet
<1>12. /\ requests'[b] = kept /\ requests' \in [Buckets -> SUBSET Event]
       /\ \A c \in Buckets : c # b => requests'[c] = requests[c]
  <2>1. requests' = [requests EXCEPT ![b] = kept]
    BY <1>2, <1>6
  <2> QED BY <1>3, <1>10, <1>11, <2>1
<1>13. LimiterTypeOK'
  BY <1>0, <1>2, <1>3, <1>4, <1>12 DEF LimiterTypeOK
<1>14. HoldersOK' /\ BucketsApart'
  BY <1>2, LeavingKeepsApart
<1>15. FiniteOK'
  BY <1>0, <1>4, <1>11, <1>12 DEF FiniteOK
<1>16. CountsOK'
  <2>1. ASSUME NEW c \in Buckets PROVE Cardinality(Recent(requests'[c])) <= MaxLimit
    <3>1. CASE c = b
      <4>1. Cardinality(Recent(requests[b])) < call[r].limit
        BY <1>1, <1>2, <1>3, <1>7 DEF Full
      <4>2. Recent(kept) \in SUBSET (Recent(requests[b]) \cup {e})
        BY <1>9 DEF Recent
      <4>3. /\ Cardinality(Recent(kept)) <= Cardinality(Recent(requests[b]) \cup {e})
            /\ IsFiniteSet(Recent(kept))
        BY <1>8, <4>2, FS_Subset
      <4>4. Cardinality(Recent(kept)) \in Nat /\ Cardinality(Recent(requests[b]) \cup {e}) \in Nat
        BY <1>8, <4>3, FS_CardinalityType
      <4>5. Cardinality(Recent(kept)) <= MaxLimit
        BY <1>3, <1>7, <1>8, <4>1, <4>3, <4>4, MaxLimitBounds
      <4> QED BY <1>12, <3>1, <4>5
    <3>2. CASE c # b
      BY <1>0, <1>12, <3>2 DEF CountsOK
    <3> QED BY <3>1, <3>2
  <2> QED BY <1>2, <2>1 DEF CountsOK, Recent
<1>17. AdmittedRecorded'
  <2> SUFFICES ASSUME NEW i \in IPs, NEW x \in admitted'[i], now < x.at + LimitWindow
               PROVE  buckets[i] # NoBucket /\ x \in requests'[buckets[i]]
    BY <1>2 DEF AdmittedRecorded, InWindow
  <2>1. x \in admitted[i] => buckets[i] # NoBucket /\ x \in requests[buckets[i]]
    BY <1>0 DEF AdmittedRecorded, InWindow
  <2>2. CASE buckets[i] = b
    <3>1. Owns(i, b)'
      BY <1>2, <2>2 DEF Owns
    <3>2. requests'[b] = Recent(requests[b]) \cup {e}
      BY <1>1, <1>2, <1>3, <1>6, <1>12, <3>1, KeptWhileOwned
    <3>3. x \in requests[b] => x \in Recent(requests[b])
      BY DEF Recent
    <3>4. b # NoBucket
      BY <1>3, LimiterHeap
    <3> QED BY <1>4, <2>1, <2>2, <3>2, <3>3, <3>4
  <2>3. CASE buckets[i] # b
    <3>1. buckets[i] # NoBucket /\ x \in requests[buckets[i]]
      BY <1>4, <2>1, <2>3
    <3>2. buckets[i] \in Buckets
      BY <1>0, <3>1 DEF LimiterTypeOK
    <3> QED BY <1>12, <2>3, <3>1, <3>2
  <2> QED BY <2>2, <2>3
<1>18. RecordedAdmitted'
  <2> SUFFICES ASSUME NEW i \in IPs, NEW c \in Buckets, Owns(i, c)', NEW x \in requests'[c],
                      now < x.at + LimitWindow
               PROVE  x \in admitted'[i] \cup strays'[i]
    BY <1>2 DEF RecordedAdmitted, InWindow
  <2>1. Owns(i, c)
    BY <1>2, LeavingKeepsApart
  <2>2. x \in requests[c] => x \in admitted[i] \cup strays[i]
    BY <1>0, <2>1 DEF RecordedAdmitted, InWindow
  <2>3. CASE x \in requests[c]
    BY <1>4, <2>2, <2>3
  <2>4. CASE x \notin requests[c]
    <3>1. c = b /\ x = e
      BY <1>7, <1>9, <1>12, <2>4
    <3>2. i = ip
      BY <1>1, <1>2, <1>3, <3>1, KeptWhileOwned
    <3> QED BY <1>4, <3>1, <3>2
  <2> QED BY <2>3, <2>4
<1> QED BY <1>13, <1>14, <1>15, <1>16, <1>17, <1>18 DEF LimiterInv
\* The collector drops a bucket only when no request of this window went through it.
LEMMA CollectorKeeps == ASSUME LimiterInv, GC PROVE LimiterInv'
<1>0. LimiterTypeOK /\ HoldersOK /\ BucketsApart /\ FiniteOK /\ CountsOK /\ AdmittedRecorded
      /\ RecordedAdmitted
  BY DEF LimiterInv
<1>1. /\ rounds < MaxRounds /\ rounds' = rounds + 1
      /\ buckets' = [ip \in IPs |-> IF IdleBucket(ip) THEN NoBucket ELSE buckets[ip]]
      /\ requests' = requests /\ limit' = limit /\ call' = call /\ now' = now
      /\ admitted' = admitted /\ strays' = strays
  BY DEF GC
<1>2. \A i \in IPs : buckets'[i] = IF IdleBucket(i) THEN NoBucket ELSE buckets[i]
  BY <1>1
<1>3. buckets' \in [IPs -> Buckets \cup {NoBucket}]
  BY <1>0, <1>1 DEF LimiterTypeOK
<1>4. rounds' \in 0 .. MaxRounds
  BY <1>0, <1>1, LimiterNumbers DEF LimiterTypeOK
<1>5. LimiterTypeOK'
  BY <1>0, <1>1, <1>3, <1>4 DEF LimiterTypeOK
<1>6. HoldersOK' /\ FiniteOK'
  BY <1>0, <1>1 DEF HoldersOK, FiniteOK, Holding
<1>7. \A i \in IPs : buckets'[i] # NoBucket => buckets'[i] = buckets[i]
  BY <1>2
<1>8. BucketsApart'
  <2>1. ASSUME NEW i \in IPs, NEW j \in IPs, buckets'[i] = buckets'[j], buckets'[i] # NoBucket PROVE i = j
    BY <1>0, <1>7, <2>1 DEF BucketsApart
  <2>2. ASSUME NEW r \in Calls, NEW i \in IPs, call[r].pc = "holding", buckets'[i] = call[r].bucket
        PROVE  call[r].ip = i
    <3>1. call[r].bucket # NoBucket
      BY <1>0, <2>2, LimiterHeap DEF HoldersOK, Holding
    <3> QED BY <1>0, <1>7, <2>2, <3>1 DEF BucketsApart, Holding
  <2> QED BY <1>1, <2>1, <2>2 DEF BucketsApart, Holding
<1>9. CountsOK'
  BY <1>0, <1>1 DEF CountsOK, Recent
<1>10. AdmittedRecorded'
  <2> SUFFICES ASSUME NEW i \in IPs, NEW e \in admitted[i], now < e.at + LimitWindow
               PROVE  buckets'[i] # NoBucket /\ e \in requests[buckets'[i]]
    BY <1>1 DEF AdmittedRecorded, InWindow
  <2>1. buckets[i] # NoBucket /\ e \in requests[buckets[i]]
    BY <1>0 DEF AdmittedRecorded, InWindow
  <2>2. ~IdleBucket(i)
    BY <2>1 DEF IdleBucket, Recent
  <2> QED BY <1>2, <2>1, <2>2
<1>11. RecordedAdmitted'
  <2> SUFFICES ASSUME NEW i \in IPs, NEW c \in Buckets, Owns(i, c)', NEW e \in requests[c],
                      now < e.at + LimitWindow
               PROVE  e \in admitted[i] \cup strays[i]
    BY <1>1 DEF RecordedAdmitted, InWindow
  <2>1. Owns(i, c)
    BY <1>1, <1>7, LimiterHeap DEF Owns, Holding
  <2> QED BY <1>0, <2>1 DEF RecordedAdmitted, InWindow
<1> QED BY <1>5, <1>6, <1>8, <1>9, <1>10, <1>11 DEF LimiterInv

\* A new limit changes no bucket; calls on their way keep the limit they read.
LEMMA UpdateKeeps == ASSUME LimiterInv, NEW l \in Limits, UpdateLimit(l) PROVE LimiterInv'
BY DEF UpdateLimit, LimiterInv, LimiterTypeOK, HoldersOK, BucketsApart, FiniteOK, CountsOK,
       AdmittedRecorded, RecordedAdmitted, InWindow, Owns, Holding, Recent

\* As time passes, entries only leave the window.
LEMMA ClockKeeps == ASSUME LimiterInv, Clock PROVE LimiterInv'
<1>0. LimiterTypeOK /\ HoldersOK /\ BucketsApart /\ FiniteOK /\ CountsOK /\ AdmittedRecorded
      /\ RecordedAdmitted
  BY DEF LimiterInv
<1>1. /\ now < LimiterMaxTime /\ now' = now + 1
      /\ admitted' = [ip \in IPs |-> Within(admitted[ip])]
      /\ strays' = [ip \in IPs |-> Within(strays[ip])]
      /\ buckets' = buckets /\ requests' = requests /\ limit' = limit /\ call' = call
      /\ rounds' = rounds
  BY DEF Clock
<1>2. /\ admitted \in [IPs -> SUBSET Event] /\ strays \in [IPs -> SUBSET Event]
      /\ requests \in [Buckets -> SUBSET Event]
      /\ now \in 0 .. LimiterMaxTime /\ now \in Nat /\ LimitWindow \in Nat /\ LimiterMaxTime \in Nat
  BY <1>0, LimiterNumbers DEF LimiterTypeOK
<1>3. \A i \in IPs : /\ Within(admitted[i]) \subseteq admitted[i] /\ IsFiniteSet(Within(admitted[i]))
                     /\ Within(strays[i]) \subseteq strays[i] /\ IsFiniteSet(Within(strays[i]))
  BY <1>0, RecentFinite DEF FiniteOK
<1>4. admitted' \in [IPs -> SUBSET Event] /\ strays' \in [IPs -> SUBSET Event]
  BY <1>1, <1>2, <1>3
<1>5. \A i \in IPs : admitted'[i] = Within(admitted[i]) /\ strays'[i] = Within(strays[i])
  BY <1>1
<1>6. now' \in 0 .. LimiterMaxTime
  BY <1>1, <1>2
<1>7. LimiterTypeOK'
  BY <1>0, <1>1, <1>4, <1>6 DEF LimiterTypeOK
<1>8. HoldersOK' /\ BucketsApart'
  BY <1>0, <1>1 DEF HoldersOK, BucketsApart, Holding
<1>9. FiniteOK'
  BY <1>0, <1>1, <1>3, <1>5 DEF FiniteOK
<1>10. \A e \in Event : now' < e.at + LimitWindow => now < e.at + LimitWindow
  BY <1>1, <1>2 DEF Event
<1>11. CountsOK'
  <2>1. ASSUME NEW c \in Buckets PROVE Cardinality(Recent(requests[c])') <= MaxLimit
    <3>1. PICK s, t : s = Recent(requests[c]) /\ t = Recent(requests[c])'
      OBVIOUS
    <3>2. requests[c] \subseteq Event /\ requests'[c] = requests[c]
      BY <1>1, <1>2
    <3>3. t \in SUBSET s
      BY <1>10, <3>1, <3>2 DEF Recent
    <3>4. IsFiniteSet(s) /\ Cardinality(s) <= MaxLimit /\ Cardinality(s) \in Nat
      BY <1>0, <3>1, RecentFinite DEF FiniteOK, CountsOK
    <3>5. Cardinality(t) <= Cardinality(s) /\ IsFiniteSet(t)
      BY <3>3, <3>4, FS_Subset
    <3>6. Cardinality(t) \in Nat
      BY <3>5, FS_CardinalityType
    <3>7. Cardinality(t) <= MaxLimit
      BY <3>4, <3>5, <3>6, MaxLimitBounds
    <3> QED BY <3>1, <3>7
  <2> QED BY <2>1 DEF CountsOK
<1>12. AdmittedRecorded'
  <2> SUFFICES ASSUME NEW i \in IPs, NEW e \in admitted'[i], now' < e.at + LimitWindow
               PROVE  buckets[i] # NoBucket /\ e \in requests[buckets[i]]
    BY <1>1 DEF AdmittedRecorded, InWindow
  <2>1. e \in admitted[i] /\ e \in Event
    BY <1>2, <1>3, <1>5
  <2>2. now < e.at + LimitWindow
    BY <1>10, <2>1
  <2> QED BY <1>0, <2>1, <2>2 DEF AdmittedRecorded, InWindow
<1>13. RecordedAdmitted'
  <2> SUFFICES ASSUME NEW i \in IPs, NEW c \in Buckets, Owns(i, c), NEW e \in requests[c],
                      now' < e.at + LimitWindow
               PROVE  e \in admitted'[i] \cup strays'[i]
    BY <1>1 DEF RecordedAdmitted, InWindow, Owns, Holding
  <2>1. now < e.at + LimitWindow
    BY <1>2, <1>10
  <2>2. e \in admitted[i] \cup strays[i]
    BY <1>0, <2>1 DEF RecordedAdmitted, InWindow
  <2> QED BY <1>5, <2>1, <2>2 DEF Within
<1> QED BY <1>7, <1>8, <1>9, <1>11, <1>12, <1>13 DEF LimiterInv

\* At the start there are no buckets and no requests.
LEMMA LimiterStarts == LimiterInit => LimiterInv
<1> SUFFICES ASSUME LimiterInit PROVE LimiterInv
  OBVIOUS
<1> USE DEF LimiterInit
<1>1. call \in [Calls -> Request] /\ \A r \in Calls : call[r].pc = "idle" /\ call[r].bucket = NoBucket
  BY NoCallTyped
<1>2. LimiterTypeOK
  BY <1>1, LimiterNumbers DEF LimiterTypeOK
<1>3. HoldersOK /\ BucketsApart
  BY <1>1 DEF HoldersOK, BucketsApart, Holding
<1>4. FiniteOK
  BY FS_EmptySet DEF FiniteOK
<1>5. CountsOK
  <2>1. \A b \in Buckets : Recent(requests[b]) = {}
    BY DEF Recent
  <2> QED BY <2>1, FS_EmptySet, MaxLimitBounds DEF CountsOK
<1>6. AdmittedRecorded /\ RecordedAdmitted
  BY DEF AdmittedRecorded, RecordedAdmitted
<1> QED BY <1>2, <1>3, <1>4, <1>5, <1>6 DEF LimiterInv

LEMMA LimiterInductive == LimiterSpec => []LimiterInv
<1>1. ASSUME LimiterInv, UNCHANGED limiterVars PROVE LimiterInv'
  BY <1>1 DEF limiterVars, LimiterInv, LimiterTypeOK, HoldersOK, BucketsApart, FiniteOK, CountsOK,
              AdmittedRecorded, RecordedAdmitted, InWindow, Owns, Holding, Recent
<1>2. LimiterInv /\ [LimiterNext]_limiterVars => LimiterInv'
  BY <1>1, LookupKeeps, RefuseKeeps, AdmitKeeps, CollectorKeeps, UpdateKeeps, ClockKeeps DEF LimiterNext
<1> QED BY <1>2, LimiterStarts, PTL DEF LimiterSpec

\* What the bucket in the map has let through it has recorded, and it is never overfull.
LEMMA OnlyStraysPass == LimiterInv => LimitsKept
<1> SUFFICES ASSUME LimiterInv PROVE LimitsKept
  OBVIOUS
<1>1. ASSUME NEW ip \in IPs PROVE Cardinality(Within(admitted[ip])) <= MaxLimit
  <2>1. PICK s : s = Within(admitted[ip])
    OBVIOUS
  <2>2. CASE s = {}
    BY <2>1, <2>2, FS_EmptySet, MaxLimitBounds
  <2>3. CASE s # {}
    <3>1. \A e \in s : e \in admitted[ip] /\ now < e.at + LimitWindow
      BY <2>1 DEF Within
    <3>2. \A e \in s : buckets[ip] # NoBucket /\ e \in requests[buckets[ip]]
      BY <3>1 DEF LimiterInv, AdmittedRecorded, InWindow
    <3>3. buckets[ip] \in Buckets
      BY <2>3, <3>2 DEF LimiterInv, LimiterTypeOK
    <3>4. PICK t : t = Recent(requests[buckets[ip]])
      OBVIOUS
    <3>5. s \in SUBSET t
      BY <3>1, <3>2, <3>4 DEF Recent
    <3>6. IsFiniteSet(t) /\ Cardinality(t) \in Nat /\ Cardinality(t) <= MaxLimit
      BY <3>3, <3>4, RecentFinite DEF LimiterInv, FiniteOK, CountsOK
    <3>7. Cardinality(s) <= Cardinality(t) /\ IsFiniteSet(s)
      BY <3>5, <3>6, FS_Subset
    <3>8. Cardinality(s) \in Nat
      BY <3>7, FS_CardinalityType
    <3> QED BY <2>1, <3>6, <3>7, <3>8, MaxLimitBounds
  <2> QED BY <2>2, <2>3
<1> QED BY <1>1 DEF LimitsKept, OnlyStraysExceed, LimiterInv

\* rateLimiter.allow never lets an address beyond the largest limit in any window through the
\* bucket in the map, and never counts one address against another, for any number of
\* addresses, requests, limits and collector rounds.
THEOREM LimitsAreKept == LimiterSpec => []LimitsKept
BY LimiterInductive, OnlyStraysPass, PTL

\* A request the limiter refuses belongs to an address that had as many requests let
\* through in the last window as the limit read by allow permits: no false 429.
THEOREM RefusalsAreJust == LimiterSpec => RefusedOnlyAtLimit
<1>1. ASSUME LimiterInv, NEW r \in Calls, Refuse(r) PROVE Passed(call[r].ip) >= call[r].limit
  <2>1. PICK b, ip : b = call[r].bucket /\ ip = call[r].ip
    OBVIOUS
  <2>2. Holding(r) /\ Done(r) /\ Full(r)
    BY <1>1 DEF Refuse
  <2>3. b \in Buckets /\ ip \in IPs /\ call[r].limit \in Nat
    BY <1>1, <2>1, <2>2, LetGo
  <2>4. PICK s, t, u : s = Recent(requests[b]) /\ t = Within(admitted[ip]) /\ u = Within(strays[ip])
    OBVIOUS
  <2>5. Owns(ip, b)
    BY <2>1, <2>2 DEF Owns
  <2>6. \A e \in s : e \in requests[b] /\ now < e.at + LimitWindow
    BY <2>4 DEF Recent
  <2>7. \A e \in s : e \in admitted[ip] \cup strays[ip]
    BY <1>1, <2>3, <2>5, <2>6 DEF LimiterInv, RecordedAdmitted, InWindow
  <2>8. s \in SUBSET (t \cup u)
    BY <2>4, <2>6, <2>7 DEF Within
  <2>9. IsFiniteSet(t) /\ IsFiniteSet(u)
    BY <1>1, <2>3, <2>4, RecentFinite DEF LimiterInv, FiniteOK
  <2>10. IsFiniteSet(t \cup u) /\ Cardinality(t \cup u) = Cardinality(t) + Cardinality(u) - Cardinality(t \cap u)
    BY <2>9, FS_Union
  <2>11. IsFiniteSet(t \cap u)
    BY <2>9, FS_Intersection
  <2>12. Cardinality(s) <= Cardinality(t \cup u) /\ IsFiniteSet(s)
    BY <2>8, <2>10, FS_Subset
  <2>13. /\ Cardinality(s) \in Nat /\ Cardinality(t) \in Nat /\ Cardinality(u) \in Nat
         /\ Cardinality(t \cap u) \in Nat
    BY <2>9, <2>11, <2>12, FS_CardinalityType
  <2>14. Cardinality(s) >= call[r].limit
    BY <2>1, <2>2, <2>4 DEF Full
  <2>15. Passed(ip) = Cardinality(t) + Cardinality(u)
    BY <2>4 DEF Passed
  <2> QED BY <2>1, <2>3, <2>10, <2>12, <2>13, <2>14, <2>15
<1>2. LimiterInv /\ [LimiterNext]_limiterVars
        => [\A r \in Calls : Refuse(r) => Passed(call[r].ip) >= call[r].limit]_limiterVars
  BY <1>1
<1> QED BY <1>2, LimiterInductive, PTL DEF LimiterSpec, RefusedOnlyAtLimit

-----------------------------------------------------------------------------
(***************************************************************************)
(* AppSecrets.  OneSecret and TokensKeepWorking follow from what is known  *)
(* of the values on their way: a process about to insert has drawn a       *)
(* secret, and a token in a browser was signed with the secret of the      *)
(* table (or with none).                                                   *)
(***************************************************************************)
\* A process at the INSERT of EnsureAppSecret has its random bytes.
DrawnBeforeInsert ==
    \A p \in Procs : booting[p] \in {"ensureInsert", "loadInsert"} => generated[p] \in Secrets

\* A token in a browser carries the secret of the table and a time that has passed.
HeldIsOurs ==
    held # NoToken =>
        /\ held.key # NoSecret => held.key = secretRow
        /\ held.made <= clock

SecretsInv == SecretsSound /\ DrawnBeforeInsert /\ HeldIsOurs

\* A time at most one window after another lies in the same window or the next.
LEMMA NextWindow ==
    ASSUME NEW w \in Nat \ {0}, NEW made \in Nat, NEW t \in Nat, made <= t, t <= made + w
    PROVE  (made \div w) \in {t \div w, (t \div w) - 1}
<1> DEFINE a == made \div w
           b == t \div w
<1>1. a \in Int /\ w * a <= made /\ made < w * (a + 1)
  OBVIOUS
<1>2. b \in Int /\ w * b <= t /\ t < w * (b + 1)
  OBVIOUS
<1> HIDE DEF a, b
<1>3. w * a < w * (b + 1)
  BY <1>1, <1>2
<1>4. w * b < w * (a + 2)
  BY <1>1, <1>2
<1>5. a < b + 1 /\ b < a + 2
  BY <1>1, <1>2, <1>3, <1>4
<1> QED BY <1>1, <1>2, <1>5 DEF a, b

\* An empty table: nobody runs and no token has been given out.
LEMMA SecretsStart == SecretsInit => SecretsInv
BY SecretsAssumption
   DEF SecretsInit, SecretsInv, SecretsSound, SecretsTypeOK, OneSecret, TokensKeepWorking,
       DrawnBeforeInsert, HeldIsOurs, NoToken, NoVerdict

\* The end of a call of EnsureAppSecret caches nothing but the secret of the table.
LEMMA EnsureEnds ==
    ASSUME NEW p \in Procs, NEW result \in Secrets \cup {NoSecret}, SecretsInv,
           AfterEnsure(p, result)
    PROVE  /\ booting' \in [Procs -> {"down", "ensure", "ensureInsert", "ensureReread",
                                      "load", "loadInsert", "loadReread", "up"}]
           /\ csrfSecret' \in [Procs -> Secrets \cup {NoSecret}]
           /\ \A q \in Procs : booting'[q] \in {"ensureInsert", "loadInsert"}
                                  => q # p /\ booting[q] = booting'[q]
           /\ \A q \in Procs : csrfSecret'[q] \in {csrfSecret[q], result}
BY DEF AfterEnsure, SecretsInv, SecretsSound, SecretsTypeOK

\* A rejection has one of the reasons TokensKeepWorking allows.
LEMMA RejectedForCause ==
    ASSUME NEW p \in Procs, SecretsInv, Submit(p, held)
    PROVE  TokensKeepWorking'
<1> DEFINE own == csrfSecret[p]
<1>1. held \in Tokens /\ held.made \in Nat /\ clock \in Nat
  BY DEF Submit, SecretsInv, SecretsSound, SecretsTypeOK, Tokens
<1>2. verdict'.token = held /\ verdict'.time = clock /\ verdict'.keyed = (own # NoSecret)
  BY DEF Submit
<1>3. SUFFICES ASSUME verdict'.outcome = "rejected", held.key # NoSecret, own # NoSecret
               PROVE  \/ held.kind = "captcha" /\ clock > held.made + CaptchaTTL
                      \/ held.kind = "security_id" /\ clock > held.made + IDWindow
  BY <1>2 DEF TokensKeepWorking
<1>4. ~ValidToken(p, held)
  BY <1>3 DEF Submit
<1>5. held.key = own /\ held.made <= clock
  BY <1>1, <1>3 DEF Submit, SecretsInv, SecretsSound, OneSecret, HeldIsOurs
<1>6. CASE held.kind = "captcha"
  BY <1>1, <1>3, <1>4, <1>5, <1>6, SecretsAssumption DEF ValidToken
<1>7. CASE held.kind = "security_id"
  <2>1. (held.made \div IDWindow) \notin {clock \div IDWindow, (clock \div IDWindow) - 1}
    BY <1>3, <1>4, <1>5, <1>7 DEF ValidToken
  <2>2. ~(clock <= held.made + IDWindow)
    BY <1>1, <1>5, <2>1, NextWindow, SecretsAssumption
  <2> QED BY <1>1, <1>7, <2>2, SecretsAssumption
<1> QED BY <1>1, <1>3, <1>4, <1>5, <1>6, <1>7 DEF ValidToken, Tokens

\* Every step of a process, a browser and the clock keeps SecretsInv.
LEMMA StepPreserves == SecretsInv /\ [SecretsNext]_secretsVars => SecretsInv'
<1> SUFFICES ASSUME SecretsInv, [SecretsNext]_secretsVars PROVE SecretsInv'
  OBVIOUS
<1> USE SecretsAssumption DEF SecretsInv, SecretsSound
<1>1. CASE \E p \in Procs : ProcessStart(p)
  BY <1>1 DEF ProcessStart, SecretsTypeOK, OneSecret, TokensKeepWorking, DrawnBeforeInsert,
              HeldIsOurs
<1>2. CASE \E p \in Procs : EnsureSelect(p)
  <2> PICK p \in Procs : EnsureSelect(p)
    BY <1>2
  <2>1. UNCHANGED <<secretRow, clock, held, verdict>>
    BY DEF EnsureSelect
  <2>2. TokensKeepWorking' /\ HeldIsOurs'
    BY <2>1 DEF TokensKeepWorking, HeldIsOurs
  <2>3. CASE secretRow # NoSecret /\ AfterEnsure(p, secretRow) /\ UNCHANGED <<generated, drawn>>
    BY <2>1, <2>2, <2>3, EnsureEnds DEF SecretsTypeOK, OneSecret, DrawnBeforeInsert
  <2>4. CASE AfterEnsure(p, NoSecret) /\ UNCHANGED <<generated, drawn>>
    BY <2>1, <2>2, <2>4, EnsureEnds DEF SecretsTypeOK, OneSecret, DrawnBeforeInsert
  <2>5. CASE \E s \in Secrets \ drawn :
                /\ generated' = [generated EXCEPT ![p] = s]
                /\ drawn' = drawn \cup {s}
                /\ booting' = [booting EXCEPT ![p] =
                                  IF @ = "ensure" THEN "ensureInsert" ELSE "loadInsert"]
                /\ UNCHANGED csrfSecret
    BY <2>1, <2>2, <2>5 DEF SecretsTypeOK, OneSecret, DrawnBeforeInsert
  <2> QED BY <2>3, <2>4, <2>5 DEF EnsureSelect
<1>3. CASE \E p \in Procs : EnsureInsert(p)
  <2> PICK p \in Procs : EnsureInsert(p)
    BY <1>3
  <2>1. UNCHANGED <<generated, drawn, clock, held, verdict>>
    BY DEF EnsureInsert
  <2>2. TokensKeepWorking'
    BY <2>1 DEF TokensKeepWorking
  <2>3. CASE secretRow = NoSecret /\ secretRow' = generated[p] /\ AfterEnsure(p, generated[p])
    <3>1. generated[p] \in Secrets
      BY DEF EnsureInsert, DrawnBeforeInsert
    <3>2. HeldIsOurs' /\ OneSecret'
      BY <2>1, <2>3, <3>1, EnsureEnds DEF HeldIsOurs, OneSecret
    <3> QED BY <2>1, <2>2, <2>3, <3>1, <3>2, EnsureEnds DEF SecretsTypeOK, DrawnBeforeInsert
  <2>4. CASE /\ booting' = [booting EXCEPT ![p] =
                              IF @ = "ensureInsert" THEN "ensureReread" ELSE "loadReread"]
             /\ UNCHANGED <<secretRow, csrfSecret>>
    BY <2>1, <2>2, <2>4 DEF SecretsTypeOK, OneSecret, HeldIsOurs, DrawnBeforeInsert
  <2> QED BY <2>3, <2>4 DEF EnsureInsert
<1>4. CASE \E p \in Procs : EnsureReread(p)
  <2> PICK p \in Procs : EnsureReread(p)
    BY <1>4
  <2>1. UNCHANGED <<secretRow, generated, drawn, clock, held, verdict>>
    BY DEF EnsureReread
  <2>2. TokensKeepWorking' /\ HeldIsOurs'
    BY <2>1 DEF TokensKeepWorking, HeldIsOurs
  <2>3. \E result \in {secretRow, NoSecret} : AfterEnsure(p, result)
    BY DEF EnsureReread
  <2> QED BY <2>1, <2>2, <2>3, EnsureEnds DEF SecretsTypeOK, OneSecret, DrawnBeforeInsert
<1>5. CASE \E p \in Procs : ProcessEnds(p)
  BY <1>5 DEF ProcessEnds, SecretsTypeOK, OneSecret, TokensKeepWorking, DrawnBeforeInsert,
              HeldIsOurs
<1>6. CASE \E p \in Procs, kind \in {"csrf", "captcha", "security_id"} : HandOut(p, kind)
  <2> PICK p \in Procs, kind \in {"csrf", "captcha", "security_id"} : HandOut(p, kind)
    BY <1>6
  <2>1. UNCHANGED <<secretRow, booting, generated, csrfSecret, drawn, clock>>
        /\ verdict' = NoVerdict
    BY DEF HandOut
  <2>2. held' \in Tokens /\ HeldIsOurs'
    BY <2>1 DEF HandOut, SecretsTypeOK, OneSecret, HeldIsOurs, Tokens
  <2> QED BY <2>1, <2>2
             DEF SecretsTypeOK, OneSecret, TokensKeepWorking, DrawnBeforeInsert, NoVerdict
<1>7. CASE \E p \in Procs : Submit(p, held)
  <2> PICK p \in Procs : Submit(p, held)
    BY <1>7
  <2>1. TokensKeepWorking'
    BY RejectedForCause
  <2>2. UNCHANGED <<secretRow, booting, generated, csrfSecret, drawn, clock, held>>
    BY DEF Submit
  <2>3. verdict' \in [outcome : {"accepted", "rejected"}, token : Tokens,
                      keyed : BOOLEAN, time : 0..SecretsMaxTime]
    BY DEF Submit, SecretsTypeOK
  <2> QED BY <2>1, <2>2, <2>3 DEF SecretsTypeOK, OneSecret, DrawnBeforeInsert, HeldIsOurs
<1>8. CASE SecretsTime
  <2>1. clock' \in 0 .. SecretsMaxTime /\ clock <= clock'
    BY <1>8 DEF SecretsTime, SecretsTypeOK
  <2>2. HeldIsOurs'
    BY <1>8, <2>1 DEF SecretsTime, HeldIsOurs, SecretsTypeOK, Tokens
  <2> QED BY <1>8, <2>1, <2>2
             DEF SecretsTime, SecretsTypeOK, OneSecret, TokensKeepWorking, DrawnBeforeInsert,
                 NoVerdict
<1>9. CASE UNCHANGED secretsVars
  BY <1>9 DEF secretsVars, SecretsTypeOK, OneSecret, TokensKeepWorking, DrawnBeforeInsert,
              HeldIsOurs
<1> QED BY <1>1, <1>2, <1>3, <1>4, <1>5, <1>6, <1>7, <1>8, <1>9 DEF SecretsNext

\* Whoever wins the race on an empty table (EnsureAppSecret), every process that has a
\* secret has the same one, and the tokens signed with it keep working for their time.
THEOREM SecretsAreSound == SecretsSpec => []SecretsSound
<1>1. SecretsSpec => []SecretsInv
  BY SecretsStart, StepPreserves, PTL DEF SecretsSpec
<1>2. SecretsInv => SecretsSound
  BY DEF SecretsInv
<1> QED BY <1>1, <1>2, PTL

=============================================================================
