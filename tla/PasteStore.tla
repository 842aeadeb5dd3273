----------------------------- MODULE PasteStore -----------------------------
(***************************************************************************)
(* Pastes, their owner tokens and the read cache: the SQLite tables        *)
(* `pastes' and `api_tokens', the paste cache, the HTTP handlers that      *)
(* create, read and delete pastes (native, compatibility and GraphQL), the *)
(* maintenance commands run in a second process, and the sweeps.           *)
(*                                                                         *)
(* A handler is a goroutine r in Req; it moves from one database or cache  *)
(* call to the next, so every label of pc is a point where other handlers  *)
(* may run.  A paste's columns other than `views' never change after the   *)
(* INSERT, and an id whose row is gone is not drawn again (8 random        *)
(* alphanumerics), so a copy of a row held by a handler or by the cache is *)
(* known from its id.                                                      *)
(***************************************************************************)
EXTENDS Naturals, FiniteSets

CONSTANTS
    IDs,            \* paste ids
    Tokens,         \* secrets: owner tokens and compat delete tokens
    Operator,       \* the operator's server.token
    NoToken,        \* no token presented / no hash stored
    Req,            \* handlers in flight
    Ops,            \* the operations clients use
    Burns,          \* burn_after values clients ask for
    Lifetimes,      \* expiry durations clients ask for, 0 = never
    Second,         \* ticks of the clock in a second
    CacheTTL,       \* pasteCacheTTL
    CacheSurvives,  \* TRUE for a redis/valkey cache, FALSE for the memory driver
    Faults,         \* TRUE: any database or cache call may fail
    MaxTime,        \* bound on the clock
    MaxReads        \* bound on the reads of one paste

ReadOps   == {"read", "compatRead", "lenPeek", "stikked", "graphql"}
DeleteOps == {"delete", "webDelete", "compatDelete"}
CreateOps == {"create", "createReuse", "compatCreate"}

ASSUME IDAssumption == IDs # {}
ASSUME TokenAssumption == /\ NoToken \notin Tokens /\ Operator \notin Tokens
                          /\ Operator # NoToken
ASSUME NumberAssumption == /\ Burns \subseteq Nat /\ Lifetimes \subseteq Nat
                           /\ Second \in Nat \ {0}
                           /\ CacheTTL \in Nat /\ MaxTime \in Nat /\ MaxReads \in Nat
ASSUME SwitchAssumption == /\ CacheSurvives \in BOOLEAN /\ Faults \in BOOLEAN

Never == 0      \* expires_at IS NULL; the clock starts a second later

VARIABLES
    stored,     \* ids with a row in pastes
    used,       \* ids that have or had a row
    row,        \* the immutable columns of each row
    views,      \* the views column
    tokStored,  \* tokens with a row in api_tokens
    tokRow,     \* that row: resource_id, expires_at, revoked_at
    cache,      \* expiry of the cached copy of a paste, 0 = no copy
    drawn,      \* ids generateID has returned
    minted,     \* tokens that have been generated
    now,        \* wall clock
    req,        \* the handlers' control state and locals
    served,     \* history: responses that carried the paste's content
    granted,    \* history: pastes whose owner token was stored and not revoked since
    acked       \* history: pastes whose deletion was confirmed to a client

pasteVars == <<stored, used, row, views>>
tokenVars == <<tokStored, tokRow>>
drawVars  == <<drawn, minted>>
history   == <<served, granted, acked>>
vars      == <<pasteVars, tokenVars, cache, drawVars, now, req, history>>

AnyToken == Tokens \cup {Operator, NoToken}

Labels == {"idle", "cacheGet", "evict", "dbRead", "cacheSet", "check", "expire",
           "purge", "count", "drop", "serve", "verify", "remove", "inval",
           "compatCheck", "compatRemove", "lookup", "erase", "revoke", "ack",
           "pick", "resolve", "insert", "grant"}

Row    == [burn : Nat, expires : Nat, owner : Tokens \cup {NoToken},
           hash : Tokens \cup {NoToken}]
TokRow == [resource : IDs, expires : Nat, revoked : BOOLEAN]

\* A handler: where it is, what it was asked (the paste, the token, the burn and
\* expiry of the paste to create), and two history bits: had the row been removed,
\* and had its deletion been confirmed, when the request began?
Request == [pc : Labels, op : ReadOps \cup DeleteOps \cup CreateOps \cup {"dataDelete"},
            id : IDs, tok : AnyToken, burn : Nat, expires : Nat,
            gone : BOOLEAN, late : BOOLEAN]
AnID    == CHOOSE i \in IDs : TRUE
Idle    == [pc |-> "idle", op |-> "read", id |-> AnID, tok |-> NoToken, burn |-> 0,
            expires |-> Never, gone |-> FALSE, late |-> FALSE]

TypeOK ==
    /\ stored \subseteq used /\ used \subseteq drawn /\ drawn \subseteq IDs
    /\ row \in [IDs -> Row]
    /\ views \in [IDs -> Nat]
    /\ tokStored \subseteq minted /\ minted \subseteq Tokens
    /\ tokRow \in [Tokens -> TokRow]
    /\ cache \in [IDs -> Nat]
    /\ now \in Nat
    /\ req \in [Req -> Request]
    /\ served \in [IDs -> Nat]
    /\ granted \subseteq used /\ acked \subseteq used

-----------------------------------------------------------------------------
\* Handlers move between labels; going back to "idle" sends the response.
At(r, label)   == req[r].pc = label
Goto(r, label) == req' = [req EXCEPT ![r].pc = label]
Respond(r)     == req' = [req EXCEPT ![r] = Idle]

\* A request about paste i reaches the server; what was already gone is noted.
Begin(r, o, i, t, d, label) ==
    /\ At(r, "idle")
    /\ o \in Ops
    /\ req' = [req EXCEPT ![r] =
                 [pc |-> label, op |-> o, id |-> i, tok |-> t, burn |-> d.burn,
                  expires |-> d.expires, gone |-> i \in used \ stored, late |-> i \in acked]]
    /\ UNCHANGED <<pasteVars, tokenVars, cache, drawVars, now, history>>

NoDraft == [burn |-> 0, expires |-> Never]

\* ExpiresAt.Before(time.Now()): the handlers' expiry test.
Expired(i) == row[i].expires # Never /\ row[i].expires < now

\* Mutated form: burn-limited pastes are cached like any other.
CacheableAlways(i) == TRUE

\* cachePaste and getCachedPaste both refuse burn-limited pastes.
Cacheable(i) == row[i].burn = 0

\* VerifyAPIToken and ValidateAPIToken: the row exists and is neither revoked nor expired.
ValidateAPIToken(t) ==
    /\ t \in tokStored
    /\ ~tokRow[t].revoked
    /\ ~(tokRow[t].expires # Never /\ tokRow[t].expires <= now)
VerifyAPIToken(t, i) == ValidateAPIToken(t) /\ tokRow[t].resource = i

CacheDelete(i) ==
    cache' = [cache EXCEPT ![i] = 0] \/ (Faults /\ UNCHANGED cache)

-----------------------------------------------------------------------------
(***************************************************************************)
(* Reading.  The native readers look into the cache first; the             *)
(* compatibility readers go straight to the database; StikkedJSON and      *)
(* GraphQL do not count views.                                             *)
(***************************************************************************)
StartRead(r, o, label) ==
    \E i \in IDs :
        /\ served[i] < MaxReads /\ views[i] < MaxReads
        /\ Begin(r, o, i, NoToken, NoDraft, label)

GetPaste(r)       == StartRead(r, "read", "cacheGet")
GetRawPaste(r)    == StartRead(r, "read", "cacheGet")
GetPasteForWeb(r) == StartRead(r, "read", "cacheGet")
RenderPasteView(r) == GetPasteForWeb(r)
HandleEmbed(r)     == GetPasteForWeb(r)
HandleDownload(r)  == GetPasteForWeb(r)
HandleURLRedirect(r) == GetPasteForWeb(r)
PastebinRaw(r)    == StartRead(r, "compatRead", "dbRead")
HastebinGet(r)    == StartRead(r, "compatRead", "dbRead")
LenGet(r)         == \E o \in {"compatRead", "lenPeek"} : StartRead(r, o, "dbRead")
StikkedJSON(r)    == StartRead(r, "stikked", "dbRead")
ResolvePaste(r)   == StartRead(r, "graphql", "dbRead")

BeginRead(r) ==
    \/ GetPaste(r) \/ GetRawPaste(r)
    \/ RenderPasteView(r) \/ HandleEmbed(r) \/ HandleDownload(r) \/ HandleURLRedirect(r)
    \/ PastebinRaw(r) \/ HastebinGet(r) \/ LenGet(r) \/ StikkedJSON(r) \/ ResolvePaste(r)

\* memoryCache.Get: an expired entry is deleted under a second lock acquisition.
CacheGet(r) ==
    LET i == req[r].id IN
    /\ At(r, "cacheGet")
    /\ \/ cache[i] # 0 /\ cache[i] >= now /\ Goto(r, IF Cacheable(i) THEN "check" ELSE "dbRead")
       \/ cache[i] # 0 /\ cache[i] < now /\ Goto(r, "evict")
       \/ cache[i] = 0 /\ Goto(r, "dbRead")
       \/ Faults /\ Goto(r, "dbRead")
    /\ UNCHANGED <<pasteVars, tokenVars, cache, drawVars, now, history>>

CacheEvict(r) ==
    /\ At(r, "evict")
    /\ cache' = [cache EXCEPT ![req[r].id] = 0]
    /\ Goto(r, "dbRead")
    /\ UNCHANGED <<pasteVars, tokenVars, drawVars, now, history>>

GetPasteByID(r) ==
    /\ At(r, "dbRead")
    /\ \/ req[r].id \in stored /\ Goto(r, CASE req[r].op = "read" -> "cacheSet"
                                         [] req[r].op = "graphql" -> "serve"
                                         [] OTHER -> "check")
       \/ req[r].id \notin stored /\ Respond(r)
       \/ Faults /\ Respond(r)
    /\ UNCHANGED <<pasteVars, tokenVars, cache, drawVars, now, history>>

CachePaste(r) ==
    LET i == req[r].id IN
    /\ At(r, "cacheSet")
    /\ \/ Cacheable(i) /\ cache' = [cache EXCEPT ![i] = now + CacheTTL]
       \/ (~Cacheable(i) \/ Faults) /\ UNCHANGED cache
    /\ Goto(r, "check")
    /\ UNCHANGED <<pasteVars, tokenVars, drawVars, now, history>>

\* The expiry test, then LenGet's withholding of one-time pastes.
CheckLive(r) ==
    LET i == req[r].id IN
    /\ At(r, "check")
    /\ \/ Expired(i) /\ Goto(r, "expire")
       \/ ~Expired(i) /\ req[r].op = "stikked" /\ Goto(r, "serve")
       \/ ~Expired(i) /\ req[r].op = "lenPeek" /\ row[i].burn = 1 /\ Respond(r)
       \/ /\ ~Expired(i) /\ req[r].op # "stikked" /\ ~(req[r].op = "lenPeek" /\ row[i].burn = 1)
          /\ Goto(r, "count")
    /\ UNCHANGED <<pasteVars, tokenVars, cache, drawVars, now, history>>

\* db.DeletePaste of an expired paste, its error ignored.
ExpirePaste(r) ==
    /\ At(r, "expire")
    /\ stored' = stored \ {req[r].id} \/ (Faults /\ UNCHANGED stored)
    /\ IF req[r].op = "read" THEN Goto(r, "purge") ELSE Respond(r)
    /\ UNCHANGED <<used, row, views, tokenVars, cache, drawVars, now, history>>

PurgeExpired(r) ==
    /\ At(r, "purge")
    /\ CacheDelete(req[r].id)
    /\ Respond(r)
    /\ UNCHANGED <<pasteVars, tokenVars, drawVars, now, history>>

\* Mutated form: the burn threshold is off by one.
BurnReachedLate(i, v) == row[i].burn > 0 /\ v > row[i].burn

BurnReached(i, v) == row[i].burn > 0 /\ v >= row[i].burn

\* Mutated form: no transaction, so a failure after the UPDATE loses the DELETE.
IncrementWithoutTx(r) ==
    LET i == req[r].id IN
    /\ At(r, "count")
    /\ \/ i \in stored /\ views' = [views EXCEPT ![i] = @ + 1]
       \/ i \notin stored /\ UNCHANGED views
    /\ stored' = IF i \in stored /\ BurnReached(i, views[i] + 1) /\ ~Faults
                   THEN stored \ {i} ELSE stored
    /\ Goto(r, "serve")
    /\ UNCHANGED <<used, row, tokenVars, cache, drawVars, now, history>>

\* One transaction; on an error the handler still serves the copy it loaded.
IncrementViewsAndCheckBurn(r) ==
    LET i == req[r].id
        v == views[i] + 1
    IN
    /\ At(r, "count")
    /\ \/ /\ i \in stored
          /\ views' = [views EXCEPT ![i] = v]
          /\ IF BurnReached(i, v)
               THEN stored' = stored \ {i} /\ Goto(r, "drop")
               ELSE UNCHANGED stored /\ Goto(r, "serve")
       \/ /\ i \notin stored \/ Faults
          /\ UNCHANGED <<stored, views>> /\ Goto(r, "serve")
    /\ UNCHANGED <<used, row, tokenVars, cache, drawVars, now, history>>

DropBurned(r) ==
    /\ At(r, "drop")
    /\ CacheDelete(req[r].id)
    /\ Goto(r, "serve")
    /\ UNCHANGED <<pasteVars, tokenVars, drawVars, now, history>>

Serve(r) ==
    /\ At(r, "serve")
    /\ served' = [served EXCEPT ![req[r].id] = @ + 1]
    /\ Respond(r)
    /\ UNCHANGED <<pasteVars, tokenVars, cache, drawVars, now, granted, acked>>

Read(r) ==
    \/ BeginRead(r) \/ CacheGet(r) \/ CacheEvict(r) \/ GetPasteByID(r) \/ CachePaste(r)
    \/ CheckLive(r) \/ ExpirePaste(r) \/ PurgeExpired(r) \/ IncrementViewsAndCheckBurn(r)
    \/ DropBurned(r) \/ Serve(r)

-----------------------------------------------------------------------------
(***************************************************************************)
(* Deleting: the native two-tier handler, the form of the web pages        *)
(* ("webDelete", which does the same and leaves the cache alone), the two  *)
(* compatibility handlers, and the maintenance command `data delete'       *)
(* ("dataDelete"), which runs in a process without a cache.                *)
(***************************************************************************)
StartDelete(r, o, label) ==
    \E i \in IDs, t \in minted \cup {Operator} : Begin(r, o, i, t, NoDraft, label)

DeleteHandler(r)  == StartDelete(r, "delete", "verify")
HandleRemoveSubmit(r) == StartDelete(r, "webDelete", "verify")
PastebinDelete(r) == StartDelete(r, "compatDelete", "compatCheck")
LenRemove(r)      == StartDelete(r, "compatDelete", "compatCheck")

BeginDelete(r) == DeleteHandler(r) \/ HandleRemoveSubmit(r) \/ PastebinDelete(r) \/ LenRemove(r)

\* Mutated form: a database error lets the request through.
VerifyFailOpen(r) ==
    LET ok == req[r].tok = Operator \/ VerifyAPIToken(req[r].tok, req[r].id) IN
    /\ At(r, "verify")
    /\ \/ (ok \/ Faults) /\ Goto(r, "remove")
       \/ ~ok /\ Respond(r)
    /\ UNCHANGED <<pasteVars, tokenVars, cache, drawVars, now, history>>

\* Tier 1, the operator's token; tier 2, an owner token for this very paste.
Verify(r) ==
    LET ok == req[r].tok = Operator \/ VerifyAPIToken(req[r].tok, req[r].id) IN
    /\ At(r, "verify")
    /\ \/ ok /\ Goto(r, "remove")
       \/ (~ok \/ Faults) /\ Respond(r)
    /\ UNCHANGED <<pasteVars, tokenVars, cache, drawVars, now, history>>

\* db.DeletePaste: no row, or a failure, ends the handler with an error.
DeletePaste(r, from, to) ==
    /\ At(r, from)
    /\ \/ req[r].id \in stored /\ stored' = stored \ {req[r].id} /\ Goto(r, to)
       \/ (req[r].id \notin stored \/ Faults) /\ UNCHANGED stored /\ Respond(r)
    /\ UNCHANGED <<used, row, views, tokenVars, cache, drawVars, now, history>>

Remove(r) == DeletePaste(r, "remove", IF req[r].op = "webDelete" THEN "ack" ELSE "inval")

InvalidatePasteCache(r) ==
    /\ At(r, "inval")
    /\ CacheDelete(req[r].id)
    /\ Goto(r, "ack")
    /\ UNCHANGED <<pasteVars, tokenVars, drawVars, now, history>>

\* DeletePasteByToken: the stored hash is read and compared, then the row is
\* deleted by a second statement that does not look at the rows it affected.
CompatCheck(r) ==
    LET ok == req[r].id \in stored /\ row[req[r].id].hash = req[r].tok IN
    /\ At(r, "compatCheck")
    /\ \/ ok /\ Goto(r, "compatRemove")
       \/ (~ok \/ Faults) /\ Respond(r)
    /\ UNCHANGED <<pasteVars, tokenVars, cache, drawVars, now, history>>

CompatRemove(r) ==
    /\ At(r, "compatRemove")
    /\ \/ stored' = stored \ {req[r].id} /\ Goto(r, "ack")
       \/ Faults /\ UNCHANGED stored /\ Respond(r)
    /\ UNCHANGED <<used, row, views, tokenVars, cache, drawVars, now, history>>

\* runDataDelete: GetAPITokenByPrefix, DeletePaste, RevokeAPIToken.
BeginDataDelete(r) ==
    \E t \in minted : Begin(r, "dataDelete", AnID, t, NoDraft, "lookup")

DataLookup(r) ==
    LET t == req[r].tok IN
    /\ At(r, "lookup")
    /\ \/ /\ t \in tokStored /\ ~tokRow[t].revoked
          /\ req' = [req EXCEPT ![r].id = tokRow[t].resource, ![r].pc = "erase"]
       \/ /\ t \notin tokStored \/ tokRow[t].revoked \/ Faults
          /\ Respond(r)
    /\ UNCHANGED <<pasteVars, tokenVars, cache, drawVars, now, history>>

DataErase(r) == DeletePaste(r, "erase", "revoke")

RevokeAPIToken(t) ==
    /\ t \in tokStored /\ ~tokRow[t].revoked
    /\ tokRow' = [tokRow EXCEPT ![t].revoked = TRUE]
    /\ granted' = granted \ {tokRow[t].resource}

DataRevoke(r) ==
    LET t == req[r].tok IN
    /\ At(r, "revoke")
    /\ \/ RevokeAPIToken(t) /\ Goto(r, "ack")
       \/ /\ t \notin tokStored \/ tokRow[t].revoked \/ Faults
          /\ UNCHANGED <<tokRow, granted>> /\ Respond(r)
    /\ UNCHANGED <<pasteVars, tokStored, cache, drawVars, now, served, acked>>

Acknowledge(r) ==
    /\ At(r, "ack")
    /\ acked' = acked \cup {req[r].id}
    /\ Respond(r)
    /\ UNCHANGED <<pasteVars, tokenVars, cache, drawVars, now, served, granted>>

Delete(r) ==
    \/ BeginDelete(r) \/ Verify(r) \/ Remove(r) \/ InvalidatePasteCache(r) \/ CompatCheck(r)
    \/ CompatRemove(r) \/ BeginDataDelete(r) \/ DataLookup(r) \/ DataErase(r)
    \/ DataRevoke(r) \/ Acknowledge(r)

-----------------------------------------------------------------------------
(***************************************************************************)
(* Creating: createFromRequest without ("create") or with ("createReuse")  *)
(* an incoming token; the compatibility handlers ("compatCreate") all go   *)
(* through createPasteInternal.                                            *)
(***************************************************************************)
StartCreate(r, o, T, B, L) ==
    \E t \in T, b \in B \cap Burns, l \in L \cap Lifetimes :
        Begin(r, o, AnID, t, [burn |-> b, expires |-> IF l = 0 THEN Never ELSE now + l], "pick")

CreateFromRequest(r) == \/ StartCreate(r, "create", {NoToken}, Burns, Lifetimes)
                        \/ StartCreate(r, "createReuse", minted, Burns, Lifetimes)
HandleWebCreate(r) == CreateFromRequest(r)
PastebinCreate(r) == StartCreate(r, "compatCreate", {NoToken}, {0}, Lifetimes)
LenCreate(r)      == StartCreate(r, "compatCreate", {NoToken}, {0, 1}, Lifetimes)
StikkedCreate(r)  == StartCreate(r, "compatCreate", {NoToken}, {0}, Lifetimes)
HastebinCreate(r) == StartCreate(r, "compatCreate", {NoToken}, {0}, {0})
DpasteCreate(r)   == StartCreate(r, "compatCreate", {NoToken}, {0}, Lifetimes)
RootUpload(r)     == StartCreate(r, "compatCreate", {NoToken}, {0}, Lifetimes)
TermbinServe(r)   == StartCreate(r, "compatCreate", {NoToken}, {0}, {0})

BeginCreate(r) ==
    \/ CreateFromRequest(r) \/ HandleWebCreate(r) \/ PastebinCreate(r) \/ LenCreate(r)
    \/ StikkedCreate(r)
    \/ HastebinCreate(r) \/ DpasteCreate(r) \/ RootUpload(r) \/ TermbinServe(r)

\* generateID and the GetPasteByID probe: a fresh id is kept, one that is taken is
\* drawn again (no change of state) and given up after ten of them.
PickID(r) ==
    /\ At(r, "pick")
    /\ \/ \E i \in IDs \ drawn :
            /\ drawn' = drawn \cup {i}
            /\ req' = [req EXCEPT ![r].id = i, ![r].pc = "resolve"]
       \/ stored # {} /\ Respond(r) /\ UNCHANGED drawn
    /\ UNCHANGED <<pasteVars, tokenVars, cache, minted, now, history>>

\* An incoming token that still validates is reused, otherwise one is generated.
ResolveToken(r) ==
    /\ At(r, "resolve")
    /\ \/ ValidateAPIToken(req[r].tok) /\ UNCHANGED minted /\ Goto(r, "insert")
       \/ /\ ~ValidateAPIToken(req[r].tok) \/ Faults
          /\ \E t \in Tokens \ minted :
               /\ minted' = minted \cup {t}
               /\ req' = [req EXCEPT ![r].tok = t, ![r].pc = "insert"]
    /\ UNCHANGED <<pasteVars, tokenVars, cache, drawn, now, history>>

NewRow(r) ==
    [burn    |-> req[r].burn,
     expires |-> req[r].expires,
     owner   |-> IF req[r].op = "compatCreate" THEN NoToken ELSE req[r].tok,
     hash    |-> IF req[r].op = "compatCreate" THEN req[r].tok ELSE NoToken]

\* INSERT INTO pastes: the primary key refuses an id that is taken.
CreatePaste(r) ==
    LET i == req[r].id IN
    /\ At(r, "insert")
    /\ \/ /\ i \notin stored
          /\ stored' = stored \cup {i} /\ used' = used \cup {i}
          /\ row' = [row EXCEPT ![i] = NewRow(r)]
          /\ views' = [views EXCEPT ![i] = 0]
          /\ IF req[r].op = "compatCreate" THEN Respond(r) ELSE Goto(r, "grant")
       \/ /\ i \in stored \/ Faults
          /\ UNCHANGED pasteVars /\ Respond(r)
    /\ UNCHANGED <<tokenVars, cache, drawVars, now, history>>

\* expiresAt.Unix(): the row of a token keeps whole seconds, rounded down, where the
\* paste's keeps nanoseconds, and is compared with time.Now().Unix().
TokenExpiry(e) == IF e = Never THEN Never ELSE (e \div Second) * Second

\* INSERT INTO api_tokens: token_hash is UNIQUE; a failure is only logged and
\* the response is sent with the token all the same.
CreateAPIToken(r) ==
    LET t == req[r].tok IN
    /\ At(r, "grant")
    /\ \/ /\ t \notin tokStored
          /\ tokStored' = tokStored \cup {t}
          /\ tokRow' = [tokRow EXCEPT ![t] = [resource |-> req[r].id,
                                              expires  |-> TokenExpiry(req[r].expires),
                                              revoked  |-> FALSE]]
          /\ granted' = granted \cup {req[r].id}
       \/ (t \in tokStored \/ Faults) /\ UNCHANGED <<tokenVars, granted>>
    /\ Respond(r)
    /\ UNCHANGED <<pasteVars, cache, drawVars, now, served, acked>>

Create(r) ==
    \/ BeginCreate(r) \/ PickID(r) \/ ResolveToken(r) \/ CreatePaste(r) \/ CreateAPIToken(r)

-----------------------------------------------------------------------------
(***************************************************************************)
(* Sweeps, commands and the environment.                                   *)
(***************************************************************************)
\* Mutated form: the sweep forgets the expired pastes.
SweepableBurned(i) == BurnReached(i, views[i])

\* The expire-pastes task: DeleteExpiredPastes, then DeleteBurnedPastes.
Sweepable(i) == \/ row[i].expires # Never /\ row[i].expires <= now
                \/ BurnReached(i, views[i])
ExpirePastesTask ==
    /\ \E i \in stored : Sweepable(i)
    /\ stored' = {i \in stored : ~Sweepable(i)}
    /\ UNCHANGED <<used, row, views, tokenVars, cache, drawVars, now, req, history>>

\* Mutated forms: tokens without an expiry are taken for expired; revoked ones are kept.
StaleWithoutNull(t) == tokRow[t].revoked \/ tokRow[t].expires <= now
StaleExpired(t)     == tokRow[t].expires # Never /\ tokRow[t].expires <= now

\* The token_cleanup task: DeleteExpiredAPITokens.
Stale(t) == \/ tokRow[t].revoked
            \/ tokRow[t].expires # Never /\ tokRow[t].expires <= now
TokenCleanupTask ==
    /\ \E t \in tokStored : Stale(t)
    /\ tokStored' = {t \in tokStored : ~Stale(t)}
    /\ UNCHANGED <<pasteVars, tokRow, cache, drawVars, now, req, history>>

\* `--maintenance token revoke <prefix>'.
TokenRevokeCommand ==
    /\ "tokenRevoke" \in Ops
    /\ \E t \in minted : RevokeAPIToken(t)
    /\ UNCHANGED <<pasteVars, tokStored, cache, drawVars, now, req, served, acked>>

\* memoryCache.reaper.
Reaper ==
    /\ \E i \in IDs : cache[i] # 0 /\ cache[i] < now
    /\ cache' = [i \in IDs |-> IF cache[i] < now THEN 0 ELSE cache[i]]
    /\ UNCHANGED <<pasteVars, tokenVars, drawVars, now, req, history>>

Tick ==
    /\ now < MaxTime
    /\ now' = now + 1
    /\ UNCHANGED <<pasteVars, tokenVars, cache, drawVars, req, history>>

\* The server stops in the middle of whatever it was doing and starts again.
Restart ==
    /\ "restart" \in Ops
    /\ req' = [r \in Req |-> Idle]
    /\ cache' = IF CacheSurvives THEN cache ELSE [i \in IDs |-> 0]
    /\ UNCHANGED <<pasteVars, tokenVars, drawVars, now, history>>

Init ==
    /\ stored = {} /\ used = {} /\ drawn = {}
    /\ row = [i \in IDs |-> [burn |-> 0, expires |-> Never, owner |-> NoToken,
                              hash |-> NoToken]]
    /\ views = [i \in IDs |-> 0]
    /\ tokStored = {} /\ minted = {}
    /\ tokRow = [t \in Tokens |-> [resource |-> AnID, expires |-> Never, revoked |-> FALSE]]
    /\ cache = [i \in IDs |-> 0]
    /\ now = Second
    /\ req = [r \in Req |-> Idle]
    /\ served = [i \in IDs |-> 0]
    /\ granted = {} /\ acked = {}

Next ==
    \/ \E r \in Req : Read(r) \/ Delete(r) \/ Create(r)
    \/ ExpirePastesTask \/ TokenCleanupTask \/ TokenRevokeCommand \/ Reaper
    \/ Tick \/ Restart

Spec == Init /\ [][Next]_vars

\* The scheduler runs both sweeps for ever; handlers, clients, the operator and
\* crashes promise nothing.
FairSpec == Spec /\ WF_vars(ExpirePastesTask) /\ WF_vars(TokenCleanupTask)

-----------------------------------------------------------------------------
\* The paste life cycle this module implements.
Life == INSTANCE PasteLife WITH
    state <- [i \in IDs |-> IF i \in stored THEN "live"
                            ELSE IF i \in used THEN "gone" ELSE "absent"],
    Limits <- Burns,
    limit <- [i \in IDs |-> row[i].burn],
    count <- views

(***************************************************************************)
(* Properties.                                                             *)
(***************************************************************************)
\* A burn-limited paste whose row is gone is never served to a request that
\* arrived after it went: no cache entry, no late fill and no retry can bring
\* its content back (getCachedPaste, cachePaste, IncrementViewsAndCheckBurn).
BurnedNotServedAgain ==
    \A r \in Req : At(r, "serve") /\ row[req[r].id].burn > 0 => ~req[r].gone

\* The overshoot of a burn limit is bounded by the concurrency: beyond its
\* burn_after views a paste is served only to handlers that had loaded it before
\* the last counted view (GetPaste serves its copy even when counting fails).
BurnOvershootBounded ==
    \A i \in IDs : row[i].burn > 0 => served[i] <= row[i].burn + Cardinality(Req) - 1

\* The reasons for which the row of paste i may disappear in a step.
Outlived(i) == row[i].expires # Never /\ row[i].expires <= now
HoldsToken(r, i) ==
    /\ req[r].id = i /\ req[r].tok # NoToken
    /\ \/ req[r].op \in {"delete", "webDelete"} /\ req[r].tok \in {Operator, row[i].owner}
       \/ req[r].op = "compatDelete" /\ req[r].tok = row[i].hash
       \/ req[r].op = "dataDelete" /\ req[r].tok = row[i].owner

RemovalHasCause ==
    \A i \in stored \ stored' :
        Outlived(i) \/ BurnReached(i, views'[i]) \/ \E r \in Req : HoldsToken(r, i)

\* A row disappears only because it expired, because its burn limit was reached,
\* or through a delete handler holding the operator's token or the paste's own
\* token; owner tokens and compat delete tokens are never mixed up.
RemovalAuthorised == [][RemovalHasCause]_vars

\* The owner token in a create response deletes the paste: once it is stored, and not
\* revoked since, VerifyAPIToken accepts it for its paste up to the whole second in which
\* the paste expires, whatever the cleanup task, other requests, requests that reuse the
\* token, failing calls and restarts did in between.
OwnerCanDelete ==
    \A i \in granted \cap stored :
        LET ends == TokenExpiry(row[i].expires) IN
        ends = Never \/ now < ends => VerifyAPIToken(row[i].owner, i)

\* A deletion that was confirmed to the client holds for every later request: no
\* handler that began after it serves the paste (invalidatePasteCache).
DeletedNotServed == \A r \in Req : At(r, "serve") => ~req[r].late

\* The life cycle every paste goes through.
LifeSpec == Life!Spec

\* An expired paste does not stay in the database: some reader or the
\* expire-pastes task removes it.
ExpiredEventuallyRemoved ==
    \A i \in IDs : (i \in stored /\ Outlived(i)) ~> i \notin stored

\* A revoked token does not stay in the database.
RevokedEventuallyRemoved ==
    \A t \in Tokens : (t \in tokStored /\ tokRow[t].revoked) ~> t \notin tokStored

-----------------------------------------------------------------------------
(***************************************************************************)
(* The inductive invariant behind the safety properties.                   *)
(***************************************************************************)
LoadedLabels == {"cacheSet", "check", "expire", "purge", "count", "drop", "serve"}
ReadLabels   == {"cacheGet", "evict", "dbRead"} \cup LoadedLabels
ChosenLabels == {"resolve", "insert"}

\* A row that is still there has views left.
RowsOK == \A i \in stored : row[i].burn > 0 => views[i] < row[i].burn

\* Only pastes without a burn limit have a cached copy.
CacheOK == \A i \in IDs : cache[i] # 0 => i \in used /\ row[i].burn = 0

\* A token row belongs to the paste that was created with that token.
TokensOK ==
    \A t \in tokStored : /\ tokRow[t].resource \in used
                          /\ row[tokRow[t].resource].owner = t

\* What a handler's position says about its paste and its token.
ReqOK(r) ==
    LET q == req[r] IN
    /\ q.pc \in ReadLabels /\ q.gone => q.id \in used \ stored
    /\ q.pc \in LoadedLabels => q.id \in used /\ (row[q.id].burn > 0 => ~q.gone)
    /\ q.pc = "expire" => row[q.id].expires # Never /\ row[q.id].expires < now
    /\ q.pc \in ChosenLabels => q.id \in drawn \ used
    /\ q.pc \in {"pick"} \cup ChosenLabels => q.burn \in Burns
    /\ q.pc \in {"insert", "grant", "lookup", "erase"} => q.tok \in minted
    /\ q.pc \in {"grant", "erase"} => q.id \in used /\ row[q.id].owner = q.tok
    /\ q.pc = "grant" => row[q.id].expires = q.expires
    /\ q.pc \in {"verify", "remove"} => q.op \in {"delete", "webDelete"}
    /\ q.pc \in {"compatCheck", "compatRemove"} => q.op = "compatDelete"
    /\ q.pc \in {"lookup", "erase"} => q.op = "dataDelete"
    /\ q.pc \in {"verify", "remove", "compatCheck", "compatRemove"} => q.tok # NoToken
    /\ q.pc = "remove" => q.tok = Operator \/ (q.id \in used /\ row[q.id].owner = q.tok)
    /\ q.pc = "compatRemove" => q.id \in used /\ row[q.id].hash = q.tok
    /\ q.pc \in {"inval", "revoke", "ack"} => q.id \in used

\* No two handlers have drawn the same id.
DrawsDistinct ==
    \A r, s \in Req :
        req[r].pc \in ChosenLabels /\ req[s].pc \in ChosenLabels /\ req[r].id = req[s].id
            => r = s

IInv == TypeOK /\ RowsOK /\ CacheOK /\ TokensOK /\ DrawsDistinct /\ \A r \in Req : ReqOK(r)
=============================================================================
