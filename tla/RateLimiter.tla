----------------------------- MODULE RateLimiter -----------------------------
(***************************************************************************)
(* The per-IP sliding-window rate limiter: a map from addresses to         *)
(* buckets, the requests that pass through it, the collector that drops    *)
(* idle buckets, and limits changed by a configuration reload.             *)
(*                                                                         *)
(* allow looks the bucket up under rl.mu and counts under b.mu: between    *)
(* the two steps a request holds a pointer to a bucket that the collector  *)
(* may already have removed from the map.                                  *)
(*                                                                         *)
(* A bucket's list of times is only filtered and counted, so it is a set   *)
(* here, in which a number tells the requests of one instant apart.        *)
(***************************************************************************)
EXTENDS Naturals, FiniteSets

CONSTANTS
    IPs,        \* client addresses
    Calls,      \* requests in flight
    Buckets,    \* heap cells for buckets
    NoBucket,   \* no entry in the map
    Limits,     \* limits the operator may configure
    LimitWindow,\* the window
    LimiterMaxTime, \* bound on the clock
    MaxRounds   \* bound on the collector's rounds

ASSUME LimiterNumbers ==
    /\ Limits \subseteq Nat /\ LimitWindow \in Nat \ {0}
    /\ \E l \in Limits : \A k \in Limits : k <= l
    /\ LimiterMaxTime \in Nat /\ MaxRounds \in Nat
\* Each address and each request can hold a bucket of its own.
ASSUME LimiterHeap == /\ NoBucket \notin Buckets /\ IPs # {}
                      /\ IsFiniteSet(Buckets) /\ IsFiniteSet(IPs) /\ IsFiniteSet(Calls)
                      /\ Cardinality(Buckets) > Cardinality(IPs) + Cardinality(Calls)

VARIABLES
    buckets,    \* rl.buckets: the bucket of an address, or NoBucket
    requests,   \* the requests each bucket has recorded
    limit,      \* rl.limit
    call,       \* the requests in flight
    now,        \* wall clock
    rounds,     \* rounds of the collector so far
    admitted,   \* history: the requests of an address let through
    strays      \* history: the same, for requests counted in a dropped bucket

limiterVars == <<buckets, requests, limit, call, now, rounds, admitted, strays>>

Event   == [at : 0 .. LimiterMaxTime, n : Nat]
Request == [pc : {"idle", "holding"}, ip : IPs, bucket : Buckets \cup {NoBucket},
            limit : Limits]

MaxLimit == CHOOSE l \in Limits : \A k \in Limits : k <= l

\* No call: the locals of allow are gone.
NoCall == [pc |-> "idle", ip |-> CHOOSE ip \in IPs : TRUE, bucket |-> NoBucket, limit |-> MaxLimit]

LimiterTypeOK ==
    /\ buckets \in [IPs -> Buckets \cup {NoBucket}]
    /\ requests \in [Buckets -> SUBSET Event]
    /\ limit \in Limits
    /\ call \in [Calls -> Request]
    /\ now \in 0 .. LimiterMaxTime /\ rounds \in 0 .. MaxRounds
    /\ admitted \in [IPs -> SUBSET Event] /\ strays \in [IPs -> SUBSET Event]

\* Mutated form: an entry exactly one window old still counts.
RecentInclusive(s) == {e \in s : now <= e.at + LimitWindow}

\* The entries after the cutoff now - window.
Recent(s) == {e \in s : now < e.at + LimitWindow}

\* The same for the history, kept apart from the code's own pruning.
Within(s) == {e \in s : now < e.at + LimitWindow}

-----------------------------------------------------------------------------
Holding(r) == call[r].pc = "holding"

\* Buckets nothing refers to.
Garbage == Buckets \ ({buckets[ip] : ip \in IPs} \cup {call[r].bucket : r \in Calls})

\* rateLimiter.allow up to rl.mu.Unlock: find or make the bucket, read the limit.
Lookup(r) ==
    /\ ~Holding(r)
    /\ \E ip \in IPs :
         LET fresh == CHOOSE b \in Garbage : TRUE
             b     == IF buckets[ip] = NoBucket THEN fresh ELSE buckets[ip]
         IN  /\ buckets' = [buckets EXCEPT ![ip] = b]
             /\ requests' = IF buckets[ip] = NoBucket THEN [requests EXCEPT ![b] = {}]
                            ELSE requests
             /\ call' = [call EXCEPT ![r] = [pc |-> "holding", ip |-> ip, bucket |-> b,
                                           limit |-> limit]]
    /\ UNCHANGED <<limit, now, rounds, admitted, strays>>

\* What a bucket holds after r is done with it; an unreachable one is reclaimed.
Keep(r, s) ==
    IF \/ buckets[call[r].ip] = call[r].bucket
       \/ \E q \in Calls \ {r} : call[q].bucket = call[r].bucket
    THEN s ELSE {}

Done(r) == call' = [call EXCEPT ![r] = NoCall]

Full(r) == Cardinality(Recent(requests[call[r].bucket])) >= call[r].limit

\* The request being let through, told apart from the others of this instant.
Stamp(ip, b) ==
    LET seen == requests[b] \cup admitted[ip] \cup strays[ip]
    IN  [at |-> now, n |-> CHOOSE n \in 0 .. Cardinality(seen) : [at |-> now, n |-> n] \notin seen]

\* ipBucket.allow: drop expired entries, then refuse ...
Refuse(r) ==
    LET b == call[r].bucket IN
    /\ Holding(r) /\ Full(r)
    /\ requests' = [requests EXCEPT ![b] = Keep(r, Recent(@))]
    /\ Done(r)
    /\ UNCHANGED <<buckets, limit, now, rounds, admitted, strays>>

\* ... or record the request and let it through.
Admit(r) ==
    LET b == call[r].bucket  ip == call[r].ip  e == Stamp(ip, b) IN
    /\ Holding(r) /\ ~Full(r)
    /\ requests' = [requests EXCEPT ![b] = Keep(r, Recent(@) \cup {e})]
    /\ IF buckets[ip] = b
       THEN admitted' = [admitted EXCEPT ![ip] = Within(@) \cup {e}] /\ UNCHANGED strays
       ELSE strays' = [strays EXCEPT ![ip] = Within(@) \cup {e}] /\ UNCHANGED admitted
    /\ Done(r)
    /\ UNCHANGED <<buckets, limit, now, rounds>>

\* Mutated form: the collector drops every bucket.
IdleAlways(ip) == buckets[ip] # NoBucket

IdleBucket(ip) == buckets[ip] # NoBucket /\ Recent(requests[buckets[ip]]) = {}

\* One round of the collector; it holds rl.mu throughout.
GC ==
    /\ rounds < MaxRounds /\ \E ip \in IPs : IdleBucket(ip)
    /\ rounds' = rounds + 1
    /\ buckets' = [ip \in IPs |-> IF IdleBucket(ip) THEN NoBucket ELSE buckets[ip]]
    /\ UNCHANGED <<requests, limit, call, now, admitted, strays>>

\* OnConfigChange after a reload.
UpdateLimit(l) ==
    /\ l # limit
    /\ limit' = l
    /\ UNCHANGED <<buckets, requests, call, now, rounds, admitted, strays>>

Clock ==
    /\ now < LimiterMaxTime
    /\ now' = now + 1
    /\ admitted' = [ip \in IPs |-> Within(admitted[ip])]
    /\ strays' = [ip \in IPs |-> Within(strays[ip])]
    /\ UNCHANGED <<buckets, requests, limit, call, rounds>>

-----------------------------------------------------------------------------
LimiterInit ==
    /\ buckets = [ip \in IPs |-> NoBucket]
    /\ requests = [b \in Buckets |-> {}]
    /\ limit \in Limits
    /\ call = [r \in Calls |-> NoCall]
    /\ now = 0 /\ rounds = 0
    /\ admitted = [ip \in IPs |-> {}] /\ strays = [ip \in IPs |-> {}]

LimiterNext ==
    \/ \E r \in Calls : Lookup(r) \/ Refuse(r) \/ Admit(r)
    \/ GC
    \/ \E l \in Limits : UpdateLimit(l)
    \/ Clock

LimiterSpec == LimiterInit /\ [][LimiterNext]_limiterVars

-----------------------------------------------------------------------------
\* Requests of an address let through in the window that ends now.
Passed(ip) == Cardinality(Within(admitted[ip])) + Cardinality(Within(strays[ip]))

\* A client is refused only when as many of its requests as the limit allows were
\* really let through in the last window: neither the collector, a reload nor stale
\* entries cause a false 429.
RefusedOnlyAtLimit ==
    [][\A r \in Calls : Refuse(r) => Passed(call[r].ip) >= call[r].limit]_limiterVars

\* However lookups, counts and the collector interleave, the only requests a window
\* lets through beyond the limit are those that held a bucket the collector dropped.
OnlyStraysExceed == \A ip \in IPs : Cardinality(Within(admitted[ip])) <= MaxLimit

\* Addresses never share a bucket: one client's requests do not count against another.
BucketsApart ==
    /\ \A i, j \in IPs : buckets[i] = buckets[j] /\ buckets[i] # NoBucket => i = j
    /\ \A r \in Calls : \A i \in IPs :
          Holding(r) /\ buckets[i] = call[r].bucket => call[r].ip = i

\* What the limiter promises together: only requests that held a dropped bucket pass
\* beyond the limit, and no bucket counts two addresses.
LimitsKept == LimiterTypeOK /\ OnlyStraysExceed /\ BucketsApart

=============================================================================
