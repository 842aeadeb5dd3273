-------------------------- MODULE PasteStoreProofs --------------------------
(***************************************************************************)
(* Proofs about PasteStore for every set of ids, tokens and handlers, every *)
(* choice of operations, burn limits and lifetimes, with or without        *)
(* failing calls.                                                          *)
(***************************************************************************)
EXTENDS PasteStore, FiniteSetTheorems, TLAPS

(***************************************************************************)
(* The inductive invariant.                                                *)
(***************************************************************************)
\* The neutral contents of a handler slot are well typed: IDs is not empty.
LEMMA IdleType == Idle \in Request /\ AnID \in IDs
  BY IDAssumption DEF Idle, AnID, Request, Labels, AnyToken, ReadOps, Never

\* The expiry of a token row is a point in time.
LEMMA TokenExpiryType == ASSUME NEW e \in Nat PROVE TokenExpiry(e) \in Nat
  <1>1. PICK d \in Nat : d = e \div Second
    BY NumberAssumption
  <1>2. d * Second \in Nat
    BY NumberAssumption
  <1> QED
    BY <1>1, <1>2 DEF TokenExpiry, Never

\* The initial state, empty tables and no handler running, satisfies it.
LEMMA InitInv == Init => IInv
  <1> SUFFICES ASSUME Init PROVE IInv
    OBVIOUS
  <1>1. TypeOK
    BY IdleType, TokenAssumption, NumberAssumption DEF Init, TypeOK, Row, TokRow, Never
  <1>2. RowsOK /\ CacheOK /\ TokensOK
    BY DEF Init, RowsOK, CacheOK, TokensOK
  <1>3. DrawsDistinct /\ \A r \in Req : ReqOK(r)
    BY DEF Init, DrawsDistinct, ReqOK, Idle, LoadedLabels, ReadLabels, ChosenLabels
  <1> QED
    BY <1>1, <1>2, <1>3 DEF IInv

\* What no step undoes: rows keep their columns, a row that is gone stays gone,
\* drawn ids and tokens stay drawn, time does not go back.
Monotone ==
    /\ used \subseteq used' /\ drawn \subseteq drawn' /\ minted \subseteq minted'
    /\ stored' \cap used \subseteq stored
    /\ \A i \in used : row'[i] = row[i]
    /\ now <= now'

\* An idle slot claims nothing.
LEMMA IdleReq ==
  ASSUME NEW r \in Req, req'[r] = Idle
  PROVE  ReqOK(r)' /\ req'[r].pc \notin ChosenLabels
  BY DEF ReqOK, Idle, LoadedLabels, ReadLabels, ChosenLabels

\* Moving on to a label changes the label of that handler and nothing else.
LEMMA GotoReq ==
  ASSUME NEW r \in Req, req \in [Req -> Request], NEW label \in Labels, Goto(r, label)
  PROVE  /\ req' \in [Req -> Request] /\ \A s \in Req \ {r} : req'[s] = req[s]
         /\ req'[r].pc = label /\ req'[r].op = req[r].op /\ req'[r].id = req[r].id
         /\ req'[r].tok = req[r].tok /\ req'[r].burn = req[r].burn
         /\ req'[r].expires = req[r].expires /\ req'[r].gone = req[r].gone
  <1>1. req[r] \in Request /\ req'[r] = [req[r] EXCEPT !.pc = label]
    BY DEF Goto
  <1>2. req'[r] \in Request
    BY <1>1 DEF Request
  <1>3. req' = [req EXCEPT ![r] = req'[r]] /\ \A s \in Req \ {r} : req'[s] = req[s]
    BY <1>1 DEF Goto
  <1> QED
    BY <1>1, <1>2, <1>3 DEF Request

\* A response empties the slot.
LEMMA RespondReq ==
  ASSUME NEW r \in Req, req \in [Req -> Request], Respond(r)
  PROVE  /\ req' \in [Req -> Request] /\ req'[r] = Idle
         /\ \A s \in Req \ {r} : req'[s] = req[s]
  BY IdleType DEF Respond

\* A step of handler r leaves what the others know about their pastes true.
LEMMA FrameReq ==
  ASSUME NEW s \in Req, IInv, Monotone, now' \in Nat, req'[s] = req[s],
         req[s].pc \in ChosenLabels => req[s].id \notin used'
  PROVE  ReqOK(s)'
  <1>1. ReqOK(s) /\ now \in Nat /\ req[s] \in Request
    BY DEF IInv, TypeOK
  <1>2. row \in [IDs -> Row] /\ used \subseteq IDs
    BY DEF IInv, TypeOK
  <1>3. \A i \in used : row'[i].expires < now => row'[i].expires < now'
    BY <1>1, <1>2 DEF Monotone, Row
  <1> QED
    BY <1>1, <1>3 DEF ReqOK, Monotone, LoadedLabels, ReadLabels, ChosenLabels

\* The shape of every invariance proof below: a step of handler r has to keep the
\* types and the tables right, and to establish what r's new position claims.
LEMMA StepInv ==
  ASSUME NEW r \in Req, IInv, Monotone,
         TypeOK', RowsOK', CacheOK', TokensOK',
         \A s \in Req \ {r} : req'[s] = req[s],
         used' # used => /\ req[r].pc = "insert" /\ used' = used \cup {req[r].id}
                         /\ req'[r].pc \notin ChosenLabels,
         req'[r].pc \in ChosenLabels =>
             \/ req[r].pc \in ChosenLabels /\ req'[r].id = req[r].id
             \/ req'[r].id \notin drawn,
         ReqOK(r)'
  PROVE  IInv'
  <1>1. ASSUME NEW s \in Req PROVE ReqOK(s)'
    <2>1. CASE s = r
      BY <2>1
    <2>2. CASE s # r
      <3>1. req[s].pc \in ChosenLabels => req[s].id \notin used'
        BY <2>2 DEF IInv, ReqOK, DrawsDistinct, ChosenLabels
      <3> QED
        BY <2>2, <3>1, FrameReq DEF TypeOK
    <2> QED
      BY <2>1, <2>2
  <1>2. DrawsDistinct'
    <2>1. ASSUME NEW s \in Req \ {r}, req[s].pc \in ChosenLabels,
                 req'[r].pc \in ChosenLabels, req'[r].id = req[s].id
          PROVE  FALSE
      BY <2>1 DEF IInv, ReqOK, DrawsDistinct
    <2> QED
      BY <2>1 DEF IInv, DrawsDistinct
  <1> QED
    BY <1>1, <1>2 DEF IInv

\* A request that begins, of any operation and at any first label that says
\* nothing about the tables.
LEMMA BeginInv ==
  ASSUME NEW r \in Req, NEW o \in ReadOps \cup DeleteOps \cup CreateOps \cup {"dataDelete"},
         NEW i \in IDs, NEW t \in AnyToken, NEW d \in [burn : Nat, expires : Nat],
         NEW label \in {"cacheGet", "dbRead", "pick", "verify", "compatCheck", "lookup"},
         label = "pick" => d.burn \in Burns,
         label = "lookup" => o = "dataDelete" /\ t \in minted,
         label = "verify" => o \in {"delete", "webDelete"} /\ t # NoToken,
         label = "compatCheck" => o = "compatDelete" /\ t # NoToken,
         IInv, Begin(r, o, i, t, d, label)
  PROVE  IInv'
  <1> USE DEF Begin, At, pasteVars, tokenVars, drawVars, history
  <1>1. TypeOK'
    BY DEF IInv, TypeOK, Request, Labels
  <1>2. RowsOK' /\ CacheOK' /\ TokensOK' /\ Monotone
    BY DEF IInv, TypeOK, RowsOK, CacheOK, TokensOK, Monotone
  <1>3. /\ req'[r].pc = label /\ req'[r].op = o /\ req'[r].tok = t /\ req'[r].id = i
        /\ req'[r].burn = d.burn
        /\ req'[r].gone => i \in used' \ stored'
        /\ minted' = minted
    BY DEF IInv, TypeOK
  <1>4. ReqOK(r)'
    BY <1>3 DEF ReqOK, LoadedLabels, ReadLabels, ChosenLabels
  <1>5. \A s \in Req \ {r} : req'[s] = req[s]
    BY DEF IInv, TypeOK
  <1> QED
    BY <1>1, <1>2, <1>3, <1>4, <1>5, StepInv DEF ChosenLabels

(***************************************************************************)
(* Reading.                                                                *)
(***************************************************************************)
LEMMA ReadInv == ASSUME NEW r \in Req, IInv, Read(r) PROVE IInv'
  <1> USE DEF pasteVars, tokenVars, drawVars, history, At, Goto, Respond
  <1>0. req \in [Req -> Request] /\ IInv /\ TypeOK /\ ReqOK(r) /\ Idle \in Request
    BY IdleType DEF IInv, TypeOK
  <1>1. CASE BeginRead(r)
    <2>1. PICK o \in ReadOps, i \in IDs, label \in {"cacheGet", "dbRead"} :
            Begin(r, o, i, NoToken, NoDraft, label)
      BY <1>1 DEF BeginRead, StartRead, GetPaste, GetRawPaste, GetPasteForWeb, RenderPasteView,
              HandleEmbed, HandleDownload, HandleURLRedirect, PastebinRaw,
                  HastebinGet, LenGet, StikkedJSON, ResolvePaste, ReadOps
    <2> QED
      BY <2>1, BeginInv DEF AnyToken, NoDraft, Never
  <1>2. CASE CacheGet(r) \/ GetPasteByID(r) \/ CheckLive(r)
    <2> HIDE DEF Goto, Respond
    <2>0. UNCHANGED <<pasteVars, tokenVars, cache, drawVars, now, history>>
      BY <1>2 DEF CacheGet, GetPasteByID, CheckLive
    <2>1. RowsOK' /\ CacheOK' /\ TokensOK' /\ Monotone
      BY <1>0, <2>0 DEF IInv, TypeOK, RowsOK, CacheOK, TokensOK, Monotone
    <2>2. /\ req' \in [Req -> Request] /\ \A s \in Req \ {r} : req'[s] = req[s]
          /\ req'[r].pc \notin ChosenLabels /\ ReqOK(r)'
      <3>1. CASE Respond(r)
        BY <1>0, <3>1, RespondReq, IdleReq
      <3>2. CASE CacheGet(r)
        <4>1. PICK label \in {"check", "dbRead", "evict"} :
                /\ Goto(r, label) /\ req[r].pc = "cacheGet"
                /\ label = "check" => cache[req[r].id] # 0 /\ Cacheable(req[r].id)
          BY <3>2 DEF CacheGet
        <4>2. label = "check" => req[r].id \in used /\ row[req[r].id].burn = 0
          BY <1>0, <4>1 DEF IInv, TypeOK, Request, CacheOK
        <4>3. /\ req' \in [Req -> Request] /\ \A s \in Req \ {r} : req'[s] = req[s]
              /\ req'[r].pc = label /\ req'[r].op = req[r].op /\ req'[r].id = req[r].id
              /\ req'[r].tok = req[r].tok /\ req'[r].gone = req[r].gone
          BY <1>0, <4>1, GotoReq DEF Labels
        <4>4. ReqOK(r)'
          BY <1>0, <2>0, <4>1, <4>2, <4>3 DEF ReqOK, LoadedLabels, ReadLabels, ChosenLabels
        <4> QED
          BY <4>1, <4>3, <4>4 DEF ChosenLabels
      <3>3. CASE GetPasteByID(r) /\ ~Respond(r)
        <4>1. PICK label \in {"cacheSet", "serve", "check"} :
                Goto(r, label) /\ req[r].pc = "dbRead" /\ req[r].id \in stored
          BY <3>3 DEF GetPasteByID
        <4>2. req[r].id \in used /\ ~req[r].gone
          BY <1>0, <4>1 DEF TypeOK, ReqOK, ReadLabels
        <4>3. /\ req' \in [Req -> Request] /\ \A s \in Req \ {r} : req'[s] = req[s]
              /\ req'[r].pc = label /\ req'[r].op = req[r].op /\ req'[r].id = req[r].id
              /\ req'[r].tok = req[r].tok /\ req'[r].gone = req[r].gone
          BY <1>0, <4>1, GotoReq DEF Labels
        <4>4. ReqOK(r)'
          BY <1>0, <2>0, <4>1, <4>2, <4>3 DEF ReqOK, LoadedLabels, ReadLabels, ChosenLabels
        <4> QED
          BY <4>1, <4>3, <4>4 DEF ChosenLabels
      <3>4. CASE CheckLive(r) /\ ~Respond(r)
        <4>1. PICK label \in {"expire", "serve", "count"} :
                /\ Goto(r, label) /\ req[r].pc = "check"
                /\ label = "expire" => Expired(req[r].id)
          BY <3>4 DEF CheckLive
        <4>3. /\ req' \in [Req -> Request] /\ \A s \in Req \ {r} : req'[s] = req[s]
              /\ req'[r].pc = label /\ req'[r].op = req[r].op /\ req'[r].id = req[r].id
              /\ req'[r].tok = req[r].tok /\ req'[r].gone = req[r].gone
          BY <1>0, <4>1, GotoReq DEF Labels
        <4>4. ReqOK(r)'
          BY <1>0, <2>0, <4>1, <4>3 DEF Expired, ReqOK, LoadedLabels, ReadLabels, ChosenLabels
        <4> QED
          BY <4>1, <4>3, <4>4 DEF ChosenLabels
      <3> QED
        BY <1>2, <3>1, <3>2, <3>3, <3>4
    <2>3. TypeOK'
      BY <1>0, <2>0, <2>2 DEF TypeOK
    <2> QED
      BY <1>0, <2>0, <2>1, <2>2, <2>3, StepInv
  <1>3. CASE CacheEvict(r) \/ CachePaste(r) \/ PurgeExpired(r) \/ DropBurned(r)
    <2> USE DEF CacheEvict, CachePaste, PurgeExpired, DropBurned, CacheDelete
    <2>1. TypeOK'
      <3>1. req' \in [Req -> Request]
        <4>1. CASE PurgeExpired(r)
          BY <1>0, <4>1
        <4>2. CASE ~PurgeExpired(r)
          <5>1. PICK label \in {"dbRead", "check", "serve"} : req' = [req EXCEPT ![r].pc = label]
            BY <1>3, <4>2
          <5> QED
            BY <1>0, <5>1 DEF Request, Labels
        <4> QED
          BY <4>1, <4>2
      <3>2. cache' \in [IDs -> Nat]
        <4>1. \/ UNCHANGED cache
              \/ \E n \in {0, now + CacheTTL} : cache' = [cache EXCEPT ![req[r].id] = n]
          BY <1>3
        <4>2. now + CacheTTL \in Nat
          BY <1>0, NumberAssumption DEF TypeOK
        <4> QED
          BY <1>0, <4>1, <4>2 DEF TypeOK
      <3> QED
        BY <1>0, <1>3, <3>1, <3>2 DEF TypeOK
    <2>2. RowsOK' /\ TokensOK' /\ Monotone
      BY <1>0, <1>3 DEF IInv, TypeOK, RowsOK, TokensOK, Monotone
    <2>3. CacheOK'
      <3>1. CacheOK /\ cache \in [IDs -> Nat] /\ UNCHANGED <<row, used>>
        BY <1>0, <1>3 DEF IInv, TypeOK
      <3>2. \/ UNCHANGED cache
            \/ cache' = [cache EXCEPT ![req[r].id] = 0]
            \/ /\ cache' = [cache EXCEPT ![req[r].id] = now + CacheTTL]
               /\ Cacheable(req[r].id) /\ req[r].pc = "cacheSet"
        BY <1>3
      <3>3. req[r].pc = "cacheSet" => req[r].id \in used
        BY <1>0 DEF ReqOK, LoadedLabels
      <3> QED
        BY <3>1, <3>2, <3>3 DEF CacheOK, Cacheable
    <2>4. \A s \in Req \ {r} : req'[s] = req[s]
      BY <1>0, <1>3
    <2>5. ReqOK(r)'
      BY <1>0, <1>3 DEF ReqOK, Request, LoadedLabels, ReadLabels, ChosenLabels, Idle
    <2>6. req'[r].pc \notin ChosenLabels /\ used' = used
      BY <1>0, <1>3 DEF ChosenLabels, Idle, Request
    <2> QED
      BY <1>0, <2>1, <2>2, <2>3, <2>4, <2>5, <2>6, StepInv
  <1>4. CASE ExpirePaste(r) \/ IncrementViewsAndCheckBurn(r)
    <2> USE DEF ExpirePaste, IncrementViewsAndCheckBurn
    <2>1. TypeOK'
      <3>1. req' \in [Req -> Request]
        BY <1>0, <1>4 DEF Request, Labels
      <3>2. views' \in [IDs -> Nat] /\ stored' \subseteq stored
        BY <1>0, <1>4 DEF TypeOK, Request
      <3> QED
        BY <1>0, <1>4, <3>1, <3>2 DEF TypeOK
    <2>2. CacheOK' /\ TokensOK' /\ Monotone
      BY <1>0, <1>4 DEF IInv, TypeOK, CacheOK, TokensOK, Monotone
    <2>3. RowsOK'
      BY <1>0, <1>4 DEF IInv, TypeOK, RowsOK, BurnReached, Row
    <2>4. \A s \in Req \ {r} : req'[s] = req[s]
      BY <1>0, <1>4
    <2>5. ReqOK(r)'
      BY <1>0, <1>4 DEF ReqOK, Request, LoadedLabels, ReadLabels, ChosenLabels, Idle
    <2>6. req'[r].pc \notin ChosenLabels /\ used' = used
      BY <1>0, <1>4 DEF ChosenLabels, Idle, Request
    <2> QED
      BY <1>0, <2>1, <2>2, <2>3, <2>4, <2>5, <2>6, StepInv
  <1>5. CASE Serve(r)
    <2> USE DEF Serve
    <2>1. TypeOK'
      <3>1. req' \in [Req -> Request]
        BY <1>0, <1>5
      <3>2. served' \in [IDs -> Nat]
        BY <1>0, <1>5 DEF TypeOK, Request
      <3> QED
        BY <1>0, <1>5, <3>1, <3>2 DEF TypeOK
    <2>2. RowsOK' /\ CacheOK' /\ TokensOK' /\ Monotone
      BY <1>0, <1>5 DEF IInv, TypeOK, RowsOK, CacheOK, TokensOK, Monotone
    <2>3. req'[r] = Idle /\ used' = used /\ \A s \in Req \ {r} : req'[s] = req[s]
      BY <1>0, <1>5
    <2>4. req'[r].pc \notin ChosenLabels /\ ReqOK(r)'
      BY <2>3, IdleReq
    <2> QED
      BY <1>0, <2>1, <2>2, <2>3, <2>4, StepInv
  <1> QED
    BY <1>1, <1>2, <1>3, <1>4, <1>5 DEF Read

\* Revoking a token changes nothing else of its row.
LEMMA RevokeType ==
  ASSUME NEW t \in Tokens, TypeOK, RevokeAPIToken(t)
  PROVE  /\ tokRow' \in [Tokens -> TokRow]
         /\ \A u \in Tokens : tokRow'[u].resource = tokRow[u].resource
  <1>1. tokRow \in [Tokens -> TokRow]
    BY DEF TypeOK
  <1>2. ASSUME NEW u \in Tokens
        PROVE  tokRow'[u] \in TokRow /\ tokRow'[u].resource = tokRow[u].resource
    <2>1. CASE u = t
      BY <1>1, <2>1 DEF RevokeAPIToken, TokRow
    <2>2. CASE u # t
      BY <1>1, <2>2 DEF RevokeAPIToken
    <2> QED
      BY <2>1, <2>2
  <1> QED
    BY <1>1, <1>2 DEF RevokeAPIToken

(***************************************************************************)
(* Deleting.                                                               *)
(***************************************************************************)
LEMMA DeleteInv == ASSUME NEW r \in Req, IInv, Delete(r) PROVE IInv'
  <1> USE DEF pasteVars, tokenVars, drawVars, history, At, Goto, Respond
  <1>0. req \in [Req -> Request] /\ IInv /\ TypeOK /\ ReqOK(r) /\ Idle \in Request
    BY IdleType DEF IInv, TypeOK
  <1>1. CASE BeginDelete(r)
    <2>1. PICK i \in IDs, t \in minted \cup {Operator} :
            \/ Begin(r, "delete", i, t, NoDraft, "verify")
            \/ Begin(r, "webDelete", i, t, NoDraft, "verify")
            \/ Begin(r, "compatDelete", i, t, NoDraft, "compatCheck")
      BY <1>1 DEF BeginDelete, StartDelete, DeleteHandler, HandleRemoveSubmit, PastebinDelete, LenRemove
    <2>2. t \in AnyToken /\ t # NoToken /\ NoDraft \in [burn : Nat, expires : Nat]
      BY <1>0, TokenAssumption DEF TypeOK, AnyToken, NoDraft, Never
    <2>3. CASE Begin(r, "delete", i, t, NoDraft, "verify")
      BY <2>2, <2>3, BeginInv DEF DeleteOps
    <2>4. CASE Begin(r, "compatDelete", i, t, NoDraft, "compatCheck")
      BY <2>2, <2>4, BeginInv DEF DeleteOps
    <2>5. CASE Begin(r, "webDelete", i, t, NoDraft, "verify")
      BY <2>2, <2>5, BeginInv DEF DeleteOps
    <2> QED
      BY <2>1, <2>3, <2>4, <2>5
  <1>2. CASE BeginDataDelete(r)
    <2>1. PICK t \in minted : Begin(r, "dataDelete", AnID, t, NoDraft, "lookup")
      BY <1>2 DEF BeginDataDelete
    <2>2. t \in AnyToken /\ NoDraft \in [burn : Nat, expires : Nat]
      BY <1>0 DEF TypeOK, AnyToken, NoDraft, Never
    <2> QED
      BY <2>1, <2>2, IdleType, BeginInv
  <1>3. CASE Verify(r) \/ CompatCheck(r) \/ DataLookup(r)
    <2> HIDE DEF Goto, Respond
    <2>0. /\ UNCHANGED <<pasteVars, tokenVars, cache, drawVars, now, history>>
          /\ TokensOK
      BY <1>0, <1>3 DEF Verify, CompatCheck, DataLookup, IInv
    <2>1. RowsOK' /\ CacheOK' /\ TokensOK' /\ Monotone
      BY <1>0, <2>0 DEF IInv, TypeOK, RowsOK, CacheOK, TokensOK, Monotone
    <2>2. /\ req' \in [Req -> Request] /\ \A s \in Req \ {r} : req'[s] = req[s]
          /\ req'[r].pc \notin ChosenLabels /\ ReqOK(r)'
      <3>1. CASE Respond(r)
        BY <1>0, <3>1, RespondReq, IdleReq
      <3>2. CASE Verify(r) /\ ~Respond(r)
        <4>1. /\ Goto(r, "remove") /\ req[r].pc = "verify"
              /\ req[r].tok = Operator \/ VerifyAPIToken(req[r].tok, req[r].id)
          BY <3>2 DEF Verify
        <4>2. req[r].tok = Operator \/ (req[r].id \in used /\ row[req[r].id].owner = req[r].tok)
          BY <2>0, <4>1 DEF VerifyAPIToken, ValidateAPIToken, TokensOK
        <4>3. /\ req' \in [Req -> Request] /\ \A s \in Req \ {r} : req'[s] = req[s]
              /\ req'[r].pc = "remove" /\ req'[r].op = req[r].op /\ req'[r].id = req[r].id
              /\ req'[r].tok = req[r].tok /\ req'[r].gone = req[r].gone
          BY <1>0, <4>1, GotoReq DEF Labels
        <4>4. ReqOK(r)'
          BY <1>0, <2>0, <4>1, <4>2, <4>3 DEF ReqOK, LoadedLabels, ReadLabels, ChosenLabels
        <4> QED
          BY <4>1, <4>3, <4>4 DEF ChosenLabels
      <3>3. CASE CompatCheck(r) /\ ~Respond(r)
        <4>1. /\ Goto(r, "compatRemove") /\ req[r].pc = "compatCheck"
              /\ req[r].id \in stored /\ row[req[r].id].hash = req[r].tok
          BY <3>3 DEF CompatCheck
        <4>2. req[r].id \in used
          BY <1>0, <4>1 DEF TypeOK
        <4>3. /\ req' \in [Req -> Request] /\ \A s \in Req \ {r} : req'[s] = req[s]
              /\ req'[r].pc = "compatRemove" /\ req'[r].op = req[r].op /\ req'[r].id = req[r].id
              /\ req'[r].tok = req[r].tok /\ req'[r].gone = req[r].gone
          BY <1>0, <4>1, GotoReq DEF Labels
        <4>4. ReqOK(r)'
          BY <1>0, <2>0, <4>1, <4>2, <4>3 DEF ReqOK, LoadedLabels, ReadLabels, ChosenLabels
        <4> QED
          BY <4>1, <4>3, <4>4 DEF ChosenLabels
      <3>4. CASE DataLookup(r) /\ ~Respond(r)
        <4> DEFINE i == tokRow[req[r].tok].resource
        <4>1. /\ req[r].pc = "lookup" /\ req[r].tok \in tokStored
              /\ req' = [req EXCEPT ![r].id = i, ![r].pc = "erase"]
          BY <3>4 DEF DataLookup
        <4>2. i \in used /\ row[i].owner = req[r].tok /\ i \in IDs
          BY <1>0, <2>0, <4>1 DEF TokensOK, TypeOK
        <4>3. [req[r] EXCEPT !.id = i, !.pc = "erase"] \in Request
          BY <1>0, <4>2 DEF Request, Labels
        <4>4. req' = [req EXCEPT ![r] = [req[r] EXCEPT !.id = i, !.pc = "erase"]]
          BY <1>0, <4>1
        <4>5. /\ req'[r].pc = "erase" /\ req'[r].id = i /\ req'[r].tok = req[r].tok
              /\ req'[r].op = req[r].op
          BY <1>0, <4>4 DEF Request
        <4>6. req[r].tok \in minted /\ req[r].op = "dataDelete"
          BY <1>0, <4>1 DEF ReqOK
        <4>7. ReqOK(r)'
          BY <2>0, <4>2, <4>5, <4>6 DEF ReqOK, LoadedLabels, ReadLabels, ChosenLabels
        <4> QED
          BY <1>0, <4>3, <4>4, <4>5, <4>7 DEF ChosenLabels
      <3> QED
        BY <1>3, <3>1, <3>2, <3>3, <3>4
    <2>3. TypeOK'
      BY <1>0, <2>0, <2>2 DEF TypeOK
    <2> QED
      BY <1>0, <2>0, <2>1, <2>2, <2>3, StepInv
  <1>4. CASE Remove(r) \/ CompatRemove(r) \/ DataErase(r)
    <2> USE DEF Remove, CompatRemove, DataErase, DeletePaste
    <2>1. TypeOK'
      BY <1>0, <1>4 DEF TypeOK, Request, Labels
    <2>2. RowsOK' /\ CacheOK' /\ TokensOK' /\ Monotone
      BY <1>0, <1>4 DEF IInv, TypeOK, RowsOK, CacheOK, TokensOK, Monotone
    <2>3. \A s \in Req \ {r} : req'[s] = req[s]
      BY <1>0, <1>4
    <2>4. ReqOK(r)'
      BY <1>0, <1>4 DEF TypeOK, ReqOK, Request, LoadedLabels, ReadLabels, ChosenLabels, Idle
    <2>5. req'[r].pc \notin ChosenLabels /\ used' = used
      BY <1>0, <1>4 DEF ChosenLabels, Idle, Request
    <2> QED
      BY <1>0, <2>1, <2>2, <2>3, <2>4, <2>5, StepInv
  <1>5. CASE InvalidatePasteCache(r) \/ DataRevoke(r) \/ Acknowledge(r)
    <2> USE DEF InvalidatePasteCache, DataRevoke, Acknowledge, CacheDelete
    <2>0. /\ tokRow' \in [Tokens -> TokRow]
          /\ \A u \in Tokens : tokRow'[u].resource = tokRow[u].resource
      <3>1. CASE RevokeAPIToken(req[r].tok)
        BY <1>0, <3>1, RevokeType DEF TypeOK, RevokeAPIToken
      <3>2. CASE UNCHANGED tokRow
        BY <1>0, <3>2 DEF TypeOK
      <3> QED
        BY <1>5, <3>1, <3>2
    <2>1. TypeOK'
      <3>1. req' \in [Req -> Request]
        BY <1>0, <1>5 DEF Request, Labels
      <3>2. cache' \in [IDs -> Nat] /\ acked' \subseteq used
        BY <1>0, <1>5 DEF TypeOK, ReqOK
      <3>3. granted' \subseteq used
        BY <1>0, <1>5 DEF TypeOK, RevokeAPIToken
      <3> QED
        BY <1>0, <1>5, <2>0, <3>1, <3>2, <3>3 DEF TypeOK
    <2>2. RowsOK' /\ CacheOK' /\ Monotone
      BY <1>0, <1>5 DEF IInv, TypeOK, RowsOK, CacheOK, Monotone
    <2>3. TokensOK'
      BY <1>0, <1>5, <2>0 DEF IInv, TypeOK, TokensOK
    <2>4. \A s \in Req \ {r} : req'[s] = req[s]
      BY <1>0, <1>5
    <2>5. ReqOK(r)'
      BY <1>0, <1>5 DEF ReqOK, Request, LoadedLabels, ReadLabels, ChosenLabels, Idle
    <2>6. req'[r].pc \notin ChosenLabels /\ used' = used
      BY <1>0, <1>5 DEF ChosenLabels, Idle, Request
    <2> QED
      BY <1>0, <2>1, <2>2, <2>3, <2>4, <2>5, <2>6, StepInv
  <1> QED
    BY <1>1, <1>2, <1>3, <1>4, <1>5 DEF Delete

(***************************************************************************)
(* Creating.                                                               *)
(***************************************************************************)
LEMMA CreateInv == ASSUME NEW r \in Req, IInv, Create(r) PROVE IInv'
  <1> USE DEF pasteVars, tokenVars, drawVars, history, At, Goto, Respond
  <1>0. req \in [Req -> Request] /\ IInv /\ TypeOK /\ ReqOK(r) /\ Idle \in Request
    BY IdleType DEF IInv, TypeOK
  <1>1. CASE BeginCreate(r)
    <2>1. PICK o \in CreateOps, t \in minted \cup {NoToken}, b \in Burns, l \in Lifetimes :
            Begin(r, o, AnID, t, [burn |-> b, expires |-> IF l = 0 THEN Never ELSE now + l],
                  "pick")
      BY <1>1 DEF BeginCreate, StartCreate, CreateFromRequest, HandleWebCreate, PastebinCreate, LenCreate,
                  StikkedCreate, HastebinCreate, DpasteCreate, RootUpload, TermbinServe,
                  CreateOps
    <2> DEFINE d == [burn |-> b, expires |-> IF l = 0 THEN Never ELSE now + l]
    <2>2. d \in [burn : Nat, expires : Nat] /\ d.burn \in Burns
      BY <1>0, NumberAssumption DEF TypeOK, Never
    <2>3. t \in AnyToken
      BY <1>0 DEF TypeOK, AnyToken
    <2>4. Begin(r, o, AnID, t, d, "pick")
      BY <2>1
    <2> HIDE DEF d
    <2> QED
      BY <1>0, <2>2, <2>3, <2>4, IdleType, BeginInv
  <1>2. CASE PickID(r)
    <2>0. /\ drawn \subseteq drawn' /\ drawn' \subseteq IDs
          /\ UNCHANGED <<pasteVars, tokenVars, cache, minted, now, history>>
          /\ \/ req' = [req EXCEPT ![r] = Idle]
             \/ \E i \in IDs \ drawn :
                  i \in drawn' /\ req' = [req EXCEPT ![r].id = i, ![r].pc = "resolve"]
      BY <1>0, <1>2 DEF PickID, TypeOK
    <2>1. TypeOK'
      <3>1. req' \in [Req -> Request]
        <4>1. CASE req' = [req EXCEPT ![r] = Idle]
          BY <1>0, <4>1
        <4>2. ASSUME NEW i \in IDs, req' = [req EXCEPT ![r].id = i, ![r].pc = "resolve"]
              PROVE  req' \in [Req -> Request]
          <5>1. \A q \in Request : [q EXCEPT !.id = i, !.pc = "resolve"] \in Request
            <6>1. "resolve" \in Labels
              BY DEF Labels
            <6> QED
              BY <6>1 DEF Request
          <5>2. req' = [req EXCEPT ![r] = [req[r] EXCEPT !.id = i, !.pc = "resolve"]]
            BY <1>0, <4>2
          <5> QED
            BY <1>0, <5>1, <5>2
        <4> QED
          BY <2>0, <4>1, <4>2
      <3> QED
        BY <1>0, <2>0, <3>1 DEF TypeOK
    <2>2. RowsOK' /\ CacheOK' /\ TokensOK' /\ Monotone
      BY <1>0, <2>0 DEF IInv, TypeOK, RowsOK, CacheOK, TokensOK, Monotone
    <2>3. \A s \in Req \ {r} : req'[s] = req[s]
      BY <1>0, <2>0
    <2>4. ReqOK(r)' /\ (req'[r].pc \in ChosenLabels => req'[r].id \notin drawn)
      <3>1. CASE req' = [req EXCEPT ![r] = Idle]
        BY <1>0, <3>1, IdleReq
      <3>2. CASE \E i \in IDs \ drawn :
                   i \in drawn' /\ req' = [req EXCEPT ![r].id = i, ![r].pc = "resolve"]
        <4>1. PICK i \in IDs \ drawn :
                i \in drawn' /\ req' = [req EXCEPT ![r].id = i, ![r].pc = "resolve"]
          BY <3>2
        <4>2. /\ req'[r].id = i /\ req'[r].pc = "resolve" /\ i \notin used'
              /\ req'[r].burn = req[r].burn /\ req[r].pc = "pick"
          BY <1>0, <1>2, <2>0, <4>1 DEF Request, TypeOK, PickID
        <4> QED
          BY <1>0, <4>1, <4>2 DEF ReqOK, LoadedLabels, ReadLabels, ChosenLabels
      <3> QED
        BY <2>0, <3>1, <3>2
    <2> QED
      BY <1>0, <2>0, <2>1, <2>2, <2>3, <2>4, StepInv
  <1>3. CASE ResolveToken(r)
    <2>0. PICK t \in Tokens :
            /\ minted \subseteq minted' /\ t \in minted' /\ minted' \subseteq Tokens
            /\ req' = [req EXCEPT ![r].tok = t, ![r].pc = "insert"]
            /\ UNCHANGED <<pasteVars, tokenVars, cache, drawn, now, history>>
      <3>1. CASE ValidateAPIToken(req[r].tok) /\ UNCHANGED minted /\ Goto(r, "insert")
        <4>1. req' = [req EXCEPT ![r].tok = req[r].tok, ![r].pc = "insert"]
          BY <1>0, <3>1 DEF Request
        <4> QED
          BY <1>0, <1>3, <3>1, <4>1 DEF ResolveToken, TypeOK, ValidateAPIToken
      <3>2. CASE \E t \in Tokens \ minted :
                   /\ minted' = minted \cup {t}
                   /\ req' = [req EXCEPT ![r].tok = t, ![r].pc = "insert"]
        BY <1>0, <1>3, <3>2 DEF ResolveToken, TypeOK
      <3> QED
        BY <1>3, <3>1, <3>2 DEF ResolveToken
    <2>1. TypeOK'
      <3>1. [req[r] EXCEPT !.tok = t, !.pc = "insert"] \in Request
        <4>1. t \in AnyToken /\ "insert" \in Labels /\ req[r] \in Request
          BY <1>0, <2>0 DEF AnyToken, Labels
        <4> QED
          BY <4>1 DEF Request
      <3>2. req' = [req EXCEPT ![r] = [req[r] EXCEPT !.tok = t, !.pc = "insert"]]
        BY <1>0, <2>0 DEF Request
      <3>3. req' \in [Req -> Request]
        BY <1>0, <3>1, <3>2
      <3> QED
        BY <1>0, <2>0, <3>3 DEF TypeOK
    <2>2. RowsOK' /\ CacheOK' /\ TokensOK' /\ Monotone
      BY <1>0, <2>0 DEF IInv, TypeOK, RowsOK, CacheOK, TokensOK, Monotone
    <2>3. \A s \in Req \ {r} : req'[s] = req[s]
      BY <1>0, <2>0
    <2>4. /\ req'[r].id = req[r].id /\ req'[r].pc = "insert" /\ req'[r].tok = t
          /\ req'[r].burn = req[r].burn
      BY <1>0, <2>0 DEF Request
    <2>5. req[r].pc = "resolve"
      BY <1>3 DEF ResolveToken
    <2>6. ReqOK(r)'
      BY <1>0, <2>0, <2>4, <2>5 DEF ReqOK, LoadedLabels, ReadLabels, ChosenLabels
    <2> QED
      BY <1>0, <2>0, <2>1, <2>2, <2>3, <2>4, <2>5, <2>6, StepInv DEF ChosenLabels
  <1>4. CASE CreatePaste(r)
    <2> USE DEF CreatePaste
    <2>0. req[r].id \in IDs \ used /\ req[r].id \in drawn /\ req[r].pc = "insert"
      BY <1>0, <1>4 DEF TypeOK, ReqOK, ChosenLabels
    <2>1. TypeOK'
      <3>1. NewRow(r) \in Row
        BY <1>0, <1>4 DEF TypeOK, ReqOK, Request, NewRow, Row
      <3>2. req' \in [Req -> Request]
        BY <1>0, <1>4 DEF Request, Labels
      <3> QED
        BY <1>0, <1>4, <2>0, <3>1, <3>2 DEF TypeOK
    <2>2. Monotone
      BY <1>0, <1>4, <2>0 DEF TypeOK, Monotone
    <2>3. RowsOK'
      BY <1>0, <1>4, <2>0, <2>1 DEF IInv, TypeOK, RowsOK, Row
    <2>4. CacheOK' /\ TokensOK'
      BY <1>0, <1>4, <2>0 DEF IInv, TypeOK, CacheOK, TokensOK
    <2>5. \A s \in Req \ {r} : req'[s] = req[s]
      BY <1>0, <1>4
    <2>6. ReqOK(r)'
      BY <1>0, <1>4, <2>0 DEF TypeOK, NewRow, ReqOK, Request, LoadedLabels, ReadLabels,
                              ChosenLabels, Idle
    <2>7. /\ req'[r].pc \notin ChosenLabels
          /\ used' # used => used' = used \cup {req[r].id}
      BY <1>0, <1>4 DEF ChosenLabels, Idle, Request
    <2> QED
      BY <1>0, <2>0, <2>1, <2>2, <2>3, <2>4, <2>5, <2>6, <2>7, StepInv
  <1>5. CASE CreateAPIToken(r)
    <2> USE DEF CreateAPIToken
    <2>1. TypeOK'
      <3>1. req' \in [Req -> Request] /\ granted' \subseteq used
        BY <1>0, <1>5 DEF TypeOK, ReqOK
      <3>2. [resource |-> req[r].id, expires |-> TokenExpiry(req[r].expires),
             revoked |-> FALSE] \in TokRow
        BY <1>0, TokenExpiryType DEF Request, TokRow
      <3>3. tokRow' \in [Tokens -> TokRow] /\ tokStored' \subseteq minted
        BY <1>0, <1>5, <3>2 DEF TypeOK, ReqOK
      <3> QED
        BY <1>0, <1>5, <3>1, <3>3 DEF TypeOK
    <2>2. RowsOK' /\ CacheOK' /\ Monotone
      BY <1>0, <1>5 DEF IInv, TypeOK, RowsOK, CacheOK, Monotone
    <2>3. TokensOK'
      BY <1>0, <1>5 DEF IInv, TypeOK, TokensOK, ReqOK
    <2>4. req'[r] = Idle /\ used' = used /\ \A s \in Req \ {r} : req'[s] = req[s]
      BY <1>0, <1>5
    <2>5. req'[r].pc \notin ChosenLabels /\ ReqOK(r)'
      BY <2>4, IdleReq
    <2> QED
      BY <1>0, <2>1, <2>2, <2>3, <2>4, <2>5, StepInv
  <1> QED
    BY <1>1, <1>2, <1>3, <1>4, <1>5 DEF Create

(***************************************************************************)
(* Sweeps, commands and the environment.                                   *)
(***************************************************************************)
LEMMA SystemInv ==
  ASSUME IInv, \/ ExpirePastesTask \/ TokenCleanupTask \/ TokenRevokeCommand
               \/ Reaper \/ Tick \/ Restart \/ UNCHANGED vars
  PROVE  IInv'
  <1> USE DEF pasteVars, tokenVars, drawVars, history, vars, ExpirePastesTask,
              TokenCleanupTask, TokenRevokeCommand, Reaper, Tick, Restart
  <1>0. /\ tokRow' \in [Tokens -> TokRow]
        /\ \A u \in Tokens : tokRow'[u].resource = tokRow[u].resource
    <2>1. CASE \E t \in minted : RevokeAPIToken(t)
      BY <2>1, RevokeType DEF IInv, TypeOK
    <2>2. CASE UNCHANGED tokRow
      BY <2>2 DEF IInv, TypeOK
    <2> QED
      BY <2>1, <2>2
  <1>1. TypeOK'
    <2>1. now' \in Nat /\ cache' \in [IDs -> Nat] /\ req' \in [Req -> Request]
      BY IdleType DEF IInv, TypeOK
    <2>2. granted' \subseteq used
      BY DEF IInv, TypeOK, RevokeAPIToken
    <2> QED
      BY <1>0, <2>1, <2>2 DEF IInv, TypeOK
  <1>2. RowsOK' /\ CacheOK' /\ Monotone
    BY DEF IInv, TypeOK, RowsOK, CacheOK, Monotone
  <1>3. TokensOK'
    BY <1>0 DEF IInv, TypeOK, TokensOK
  <1>4. (\A s \in Req : req'[s] = Idle) \/ req' = req
    OBVIOUS
  <1>5. \A s \in Req : ReqOK(s)'
    <2>1. CASE req' = req
      <3>1. \A s \in Req : req[s].pc \in ChosenLabels => req[s].id \notin used'
        BY DEF IInv, ReqOK
      <3> QED
        BY <1>1, <1>2, <2>1, <3>1, FrameReq DEF TypeOK
    <2>2. CASE \A s \in Req : req'[s] = Idle
      BY <2>2, IdleReq
    <2> QED
      BY <1>4, <2>1, <2>2
  <1>6. DrawsDistinct'
    BY <1>4, IdleReq DEF IInv, DrawsDistinct
  <1> QED
    BY <1>1, <1>2, <1>3, <1>5, <1>6 DEF IInv

\* IInv is an invariant of the specification.
THEOREM Invariance == Spec => []IInv
  <1>1. IInv /\ [Next]_vars => IInv'
    BY ReadInv, DeleteInv, CreateInv, SystemInv DEF Next
  <1> QED
    BY <1>1, InitInv, PTL DEF Spec

\* The tables, the cache and the handlers' locals are always well formed.
THEOREM TypeCorrect == Spec => []TypeOK
  BY Invariance, PTL DEF IInv

\* A burned (or deleted, or expired) burn-limited paste is never served to a
\* request that arrives after its row is gone.
THEOREM NotServedAgain == Spec => []BurnedNotServedAgain
  <1>1. IInv => BurnedNotServedAgain
    BY DEF IInv, ReqOK, LoadedLabels, BurnedNotServedAgain, At
  <1> QED
    BY <1>1, Invariance, PTL

(***************************************************************************)
(* Rows disappear for a reason.                                            *)
(***************************************************************************)
\* Every step that removes a row is an expiry, a burn or an authorised deletion.
LEMMA RemovalStep ==
  ASSUME IInv, [Next]_vars, NEW i \in stored, i \notin stored'
  PROVE  Outlived(i) \/ BurnReached(i, views'[i]) \/ \E r \in Req : HoldsToken(r, i)
  <1> USE DEF pasteVars, At
  <1>1. CASE ExpirePastesTask
    <2>1. Sweepable(i) /\ views' = views
      BY <1>1 DEF ExpirePastesTask
    <2> QED
      BY <2>1 DEF Sweepable, Outlived, BurnReached
  <1>2. ASSUME NEW r \in Req, Read(r) PROVE Outlived(i) \/ BurnReached(i, views'[i])
    <2>0. ReqOK(r) /\ TypeOK /\ row[i] \in Row
      BY DEF IInv, TypeOK
    <2>1. CASE ExpirePaste(r)
      BY <2>0, <2>1 DEF ExpirePaste, ReqOK, Outlived, Row, TypeOK
    <2>2. CASE IncrementViewsAndCheckBurn(r)
      BY <2>0, <2>2 DEF IncrementViewsAndCheckBurn, BurnReached, TypeOK
    <2>3. CASE UNCHANGED stored
      BY <2>3
    <2> QED
      BY <1>2, <2>1, <2>2, <2>3
        DEF Read, BeginRead, StartRead, GetPaste, GetRawPaste, GetPasteForWeb, RenderPasteView,
              HandleEmbed, HandleDownload, HandleURLRedirect, PastebinRaw,
            HastebinGet, LenGet, StikkedJSON, ResolvePaste, Begin, CacheGet, CacheEvict, GetPasteByID, CachePaste, CheckLive,
            PurgeExpired, DropBurned, Serve
  <1>3. ASSUME NEW r \in Req, Delete(r) PROVE HoldsToken(r, i)
    <2>0. ReqOK(r) /\ TypeOK
      BY DEF IInv
    <2>1. CASE Remove(r) \/ CompatRemove(r) \/ DataErase(r)
      BY <2>0, <2>1, TokenAssumption
        DEF Remove, CompatRemove, DataErase, DeletePaste, ReqOK, HoldsToken, TypeOK
    <2>2. CASE UNCHANGED stored
      BY <2>2
    <2> QED
      BY <1>3, <2>1, <2>2
        DEF Delete, BeginDelete, StartDelete, DeleteHandler, HandleRemoveSubmit, PastebinDelete, LenRemove,
            BeginDataDelete, Begin, Verify, InvalidatePasteCache,
            CompatCheck, DataLookup, DataRevoke, Acknowledge
  <1>4. ASSUME NEW r \in Req, Create(r) PROVE FALSE
    BY <1>4 DEF Create, BeginCreate, StartCreate, CreateFromRequest, HandleWebCreate, PastebinCreate, LenCreate,
                StikkedCreate, HastebinCreate, DpasteCreate, RootUpload, TermbinServe, Begin,
                PickID, ResolveToken, CreatePaste, CreateAPIToken
  <1>5. ASSUME \/ TokenCleanupTask \/ TokenRevokeCommand \/ Reaper \/ Tick \/ Restart
               \/ UNCHANGED vars
        PROVE  FALSE
    BY <1>5 DEF TokenCleanupTask, TokenRevokeCommand, Reaper, Tick, Restart, vars
  <1> QED
    BY <1>1, <1>2, <1>3, <1>4, <1>5 DEF Next

\* A row disappears only because it expired, because its burn limit was reached, or
\* through a delete handler that holds the operator's or the paste's own token.
THEOREM RemovalsAuthorised == Spec => RemovalAuthorised
  <1>1. IInv /\ [Next]_vars => [RemovalHasCause]_vars
    BY RemovalStep DEF RemovalHasCause
  <1> QED
    BY <1>1, Invariance, PTL DEF Spec, RemovalAuthorised

(***************************************************************************)
(* The store implements the life cycle of PasteLife.                       *)
(***************************************************************************)
\* Every step is a step of the life cycle, or leaves the pastes as they are.
LEMMA LifeStep == IInv /\ IInv' /\ [Next]_vars => [Life!Next]_(Life!vars)
  <1> SUFFICES ASSUME IInv, IInv', [Next]_vars PROVE [Life!Next]_(Life!vars)
    OBVIOUS
  <1> USE DEF pasteVars, At
  <1>0. TypeOK /\ TypeOK'
    BY DEF IInv
  <1>1. ASSUME UNCHANGED pasteVars PROVE UNCHANGED Life!vars
    BY <1>1 DEF Life!vars
  <1>2. ASSUME stored' \subseteq stored, UNCHANGED <<used, row, views>>
        PROVE  Life!Next
    <2>1. Life!Remove(stored \ stored')
      BY <1>0, <1>2 DEF Life!Remove, TypeOK
    <2> QED
      BY <1>0, <2>1 DEF Life!Next, Life!Remove, TypeOK
  <1>3. ASSUME NEW r \in Req, Read(r) PROVE [Life!Next]_(Life!vars)
    <2>1. CASE ExpirePaste(r)
      BY <1>2, <2>1 DEF ExpirePaste
    <2>2. CASE IncrementViewsAndCheckBurn(r)
      <3> DEFINE i == req[r].id
      <3>1. CASE UNCHANGED <<stored, views>>
        BY <1>1, <2>2, <3>1 DEF IncrementViewsAndCheckBurn
      <3>2. CASE i \in stored /\ views' = [views EXCEPT ![i] = @ + 1]
        <4>1. i \in IDs /\ row[i].burn \in Nat /\ views[i] \in Nat
          BY <1>0, <3>2 DEF TypeOK, Row
        <4>2. stored' = IF BurnReached(i, views[i] + 1) THEN stored \ {i} ELSE stored
          BY <1>0, <2>2, <3>2, <4>1 DEF IncrementViewsAndCheckBurn, TypeOK
        <4>3. Life!View(i)
          BY <1>0, <2>2, <3>2, <4>1, <4>2
            DEF Life!View, Life!LastView, BurnReached, IncrementViewsAndCheckBurn, TypeOK
        <4> QED
          BY <4>1, <4>3 DEF Life!Next, Life!View
      <3> QED
        BY <2>2, <3>1, <3>2 DEF IncrementViewsAndCheckBurn
    <2>3. CASE UNCHANGED pasteVars
      BY <1>1, <2>3
    <2> QED
      BY <1>3, <2>1, <2>2, <2>3
        DEF Read, BeginRead, StartRead, GetPaste, GetRawPaste, GetPasteForWeb, RenderPasteView,
              HandleEmbed, HandleDownload, HandleURLRedirect, PastebinRaw,
            HastebinGet, LenGet, StikkedJSON, ResolvePaste, Begin, CacheGet, CacheEvict, GetPasteByID, CachePaste, CheckLive,
            PurgeExpired, DropBurned, Serve
  <1>4. ASSUME NEW r \in Req, Delete(r) PROVE [Life!Next]_(Life!vars)
    <2>1. CASE Remove(r) \/ CompatRemove(r) \/ DataErase(r)
      BY <1>2, <2>1 DEF Remove, CompatRemove, DataErase, DeletePaste
    <2>2. CASE UNCHANGED pasteVars
      BY <1>1, <2>2
    <2> QED
      BY <1>4, <2>1, <2>2
        DEF Delete, BeginDelete, StartDelete, DeleteHandler, HandleRemoveSubmit, PastebinDelete, LenRemove,
            BeginDataDelete, Begin, Verify, InvalidatePasteCache,
            CompatCheck, DataLookup, DataRevoke, Acknowledge
  <1>5. ASSUME NEW r \in Req, Create(r) PROVE [Life!Next]_(Life!vars)
    <2>1. CASE CreatePaste(r) /\ ~UNCHANGED pasteVars
      <3> DEFINE i == req[r].id
      <3>1. i \in IDs \ used
        BY <1>0, <2>1 DEF CreatePaste, IInv, ReqOK, ChosenLabels, TypeOK
      <3>2. NewRow(r).burn \in Burns
        BY <2>1 DEF CreatePaste, NewRow, IInv, ReqOK, ChosenLabels
      <3>3. /\ stored' = stored \cup {i} /\ used' = used \cup {i}
            /\ row' = [row EXCEPT ![i] = NewRow(r)] /\ views' = [views EXCEPT ![i] = 0]
        BY <2>1 DEF CreatePaste
      <3>4. [j \in IDs |-> row'[j].burn]
              = [[j \in IDs |-> row[j].burn] EXCEPT ![i] = NewRow(r).burn]
        BY <1>0, <3>1, <3>3 DEF TypeOK
      <3>5. [j \in IDs |-> IF j \in stored' THEN "live" ELSE IF j \in used' THEN "gone" ELSE "absent"]
              = [[j \in IDs |-> IF j \in stored THEN "live"
                                ELSE IF j \in used THEN "gone" ELSE "absent"]
                   EXCEPT ![i] = "live"]
        BY <1>0, <3>1, <3>3 DEF TypeOK
      <3>6. i \notin stored
        BY <1>0, <3>1 DEF TypeOK
      <3>7. Life!Create(i)
        BY <3>1, <3>2, <3>3, <3>4, <3>5, <3>6 DEF Life!Create
      <3> QED
        BY <3>1, <3>7 DEF Life!Next, Life!Create
    <2>2. CASE UNCHANGED pasteVars
      BY <1>1, <2>2
    <2> QED
      BY <1>5, <2>1, <2>2
        DEF Create, BeginCreate, StartCreate, CreateFromRequest, HandleWebCreate, PastebinCreate, LenCreate,
            StikkedCreate, HastebinCreate, DpasteCreate, RootUpload, TermbinServe, Begin,
            PickID, ResolveToken, CreatePaste, CreateAPIToken
  <1>6. CASE ExpirePastesTask
    BY <1>2, <1>6 DEF ExpirePastesTask
  <1>7. CASE \/ TokenCleanupTask \/ TokenRevokeCommand \/ Reaper \/ Tick \/ Restart
             \/ UNCHANGED vars
    BY <1>1, <1>7 DEF TokenCleanupTask, TokenRevokeCommand, Reaper, Tick, Restart, vars
  <1> QED
    BY <1>3, <1>4, <1>5, <1>6, <1>7 DEF Next

\* Whatever the interleaving of readers, deleters, sweeps and restarts, every paste
\* is created once, counts its views one by one, goes with the view that reaches its
\* burn limit, and never comes back.
THEOREM ImplementsLife == Spec => LifeSpec
  <1>1. Init => Life!Init
    BY DEF Init, Life!Init
  <1> QED
    BY <1>1, LifeStep, Invariance, PTL DEF Spec, LifeSpec, Life!Spec

(***************************************************************************)
(* Owner tokens.  A token that was stored for a paste and not revoked is   *)
(* there, for that paste, until its own expiry: only revocation or the     *)
(* cleanup takes it away, and nothing replaces it.                         *)
(***************************************************************************)
\* The token of paste i has come to its end.
TokenEnded(i) ==
    LET ends == TokenExpiry(row[i].expires) IN ends # Never /\ ends <= now

GrantKept(i) ==
    LET t == row[i].owner IN
    \/ TokenEnded(i)
    \/ /\ t \in tokStored /\ tokRow[t].resource = i /\ ~tokRow[t].revoked
       /\ tokRow[t].expires = TokenExpiry(row[i].expires)

OwnerInv == \A i \in granted : GrantKept(i)

\* Tokens are not touched by a step that changes no token row and no history of theirs.
LEMMA OwnerFrame ==
  ASSUME IInv, OwnerInv, now' \in Nat, now <= now',
         UNCHANGED <<tokStored, tokRow, granted>>,
         \A i \in used : row'[i] = row[i]
  PROVE  OwnerInv'
  <1>1. granted \subseteq used /\ used \subseteq IDs /\ row \in [IDs -> Row] /\ now \in Nat
    BY DEF IInv, TypeOK
  <1>2. ASSUME NEW i \in granted PROVE GrantKept(i)'
    <2>1. row'[i] = row[i] /\ row[i].expires \in Nat /\ TokenExpiry(row[i].expires) \in Nat
      BY <1>1, TokenExpiryType DEF Row
    <2>2. TokenExpiry(row[i].expires)' = TokenExpiry(row[i].expires)
      BY <2>1 DEF TokenExpiry
    <2>3. TokenEnded(i) => TokenEnded(i)'
      BY <1>1, <2>1, <2>2 DEF TokenEnded
    <2> QED
      BY <2>1, <2>2, <2>3 DEF OwnerInv, GrantKept
  <1> QED
    BY <1>2 DEF OwnerInv

\* A revoked token takes its paste out of the pastes with a token.
LEMMA OwnerRevoke ==
  ASSUME NEW t \in Tokens, IInv, OwnerInv, RevokeAPIToken(t), UNCHANGED <<row, tokStored, now>>
  PROVE  OwnerInv'
  <1>1. /\ tokRow \in [Tokens -> TokRow] /\ granted' = granted \ {tokRow[t].resource}
        /\ tokRow' = [tokRow EXCEPT ![t].revoked = TRUE]
        /\ tokStored \subseteq Tokens
    BY DEF RevokeAPIToken, IInv, TypeOK
  <1>2. ASSUME NEW i \in granted' PROVE GrantKept(i)'
    <2>1. GrantKept(i) /\ i # tokRow[t].resource
      BY <1>1, <1>2 DEF OwnerInv
    <2>2. CASE TokenEnded(i)
      BY <2>2 DEF TokenEnded, GrantKept, TokenExpiry
    <2>3. CASE ~TokenEnded(i)
      <3>1. row[i].owner \in tokStored /\ row[i].owner # t
        BY <2>1, <2>3 DEF GrantKept
      <3>2. tokRow'[row[i].owner] = tokRow[row[i].owner]
        BY <1>1, <3>1
      <3> QED
        BY <2>1, <2>3, <3>1, <3>2 DEF GrantKept, TokenExpiry
    <2> QED
      BY <2>2, <2>3
  <1> QED
    BY <1>2 DEF OwnerInv

\* Readers grant nothing.
LEMMA OwnerRead == ASSUME NEW r \in Req, IInv, OwnerInv, Read(r) PROVE OwnerInv'
  <1>1. UNCHANGED <<row, tokenVars, now, granted>>
    BY DEF Read, BeginRead, StartRead, GetPaste, GetRawPaste, GetPasteForWeb, RenderPasteView,
           HandleEmbed, HandleDownload, HandleURLRedirect, PastebinRaw, HastebinGet, LenGet,
           StikkedJSON, ResolvePaste, Begin, CacheGet, CacheEvict, GetPasteByID, CachePaste,
           CheckLive, ExpirePaste, PurgeExpired, IncrementViewsAndCheckBurn, DropBurned, Serve,
           pasteVars, history
  <1>2. now \in Nat
    BY DEF IInv, TypeOK
  <1> QED
    BY <1>1, <1>2, OwnerFrame DEF tokenVars

\* A handler that deletes stays clear of the labels of readers and creators.
LEMMA DeleteMoves ==
  ASSUME NEW r \in Req, IInv, Delete(r)
  PROVE  /\ req'[r].pc \notin ReadLabels \cup {"pick", "resolve", "insert", "grant"}
         /\ \A s \in Req \ {r} : req'[s] = req[s]
  <1>0. req \in [Req -> Request]
    BY DEF IInv, TypeOK
  <1> DEFINE DL == {"verify", "remove", "inval", "compatCheck", "compatRemove", "lookup",
                    "erase", "revoke", "ack"}
  <1>4. \/ \E label \in DL : Goto(r, label)
        \/ Respond(r)
        \/ \E o, i, t : \E label \in DL : Begin(r, o, i, t, NoDraft, label)
        \/ req' = [req EXCEPT ![r].id = tokRow[req[r].tok].resource, ![r].pc = "erase"]
    BY DEF Delete, BeginDelete, StartDelete, DeleteHandler, HandleRemoveSubmit, PastebinDelete,
           LenRemove, BeginDataDelete, Verify, Remove, DeletePaste, InvalidatePasteCache,
           CompatCheck, CompatRemove, DataLookup, DataErase, DataRevoke, Acknowledge
  <1>5. req'[r].pc \in DL \cup {"idle"} /\ \A s \in Req \ {r} : req'[s] = req[s]
    <2>1. ASSUME NEW label \in DL, Goto(r, label)
          PROVE  req'[r].pc = label /\ \A s \in Req \ {r} : req'[s] = req[s]
      BY <1>0, <2>1, GotoReq DEF Labels
    <2>2. CASE Respond(r)
      BY <1>0, <2>2, RespondReq DEF Idle
    <2>3. ASSUME NEW o, NEW i, NEW t, NEW label \in DL, Begin(r, o, i, t, NoDraft, label)
          PROVE  req'[r].pc = label /\ \A s \in Req \ {r} : req'[s] = req[s]
      BY <1>0, <2>3 DEF Begin
    <2>4. CASE req' = [req EXCEPT ![r].id = tokRow[req[r].tok].resource, ![r].pc = "erase"]
      BY <1>0, <2>4 DEF Request
    <2> QED
      BY <1>4, <2>1, <2>2, <2>3, <2>4
  <1> QED
    BY <1>5 DEF ReadLabels, LoadedLabels

\* Deleting may revoke a token, and grants none.
LEMMA OwnerDelete == ASSUME NEW r \in Req, IInv, OwnerInv, Delete(r) PROVE OwnerInv'
  <1>1. now \in Nat /\ tokStored \subseteq Tokens
    BY DEF IInv, TypeOK
  <1>2. CASE DataRevoke(r)
    <2>1. UNCHANGED <<row, tokStored, now>>
      BY <1>2 DEF DataRevoke, pasteVars
    <2>2. CASE RevokeAPIToken(req[r].tok)
      BY <1>1, <2>1, <2>2, OwnerRevoke DEF RevokeAPIToken
    <2>3. CASE UNCHANGED <<tokRow, granted>>
      BY <1>1, <2>1, <2>3, OwnerFrame
    <2> QED
      BY <1>2, <2>2, <2>3 DEF DataRevoke
  <1>3. CASE ~DataRevoke(r)
    <2>1. UNCHANGED <<row, tokenVars, now, granted>>
      BY <1>3 DEF Delete, BeginDelete, StartDelete, DeleteHandler, HandleRemoveSubmit,
         PastebinDelete, LenRemove, BeginDataDelete, Begin, Verify, Remove, DeletePaste,
         InvalidatePasteCache, CompatCheck, CompatRemove, DataLookup, DataErase, Acknowledge,
         pasteVars, history
    <2> QED
      BY <1>1, <2>1, OwnerFrame DEF tokenVars
  <1> QED
    BY <1>2, <1>3

\* Creating: the new row is nobody's that has a token, and a token that is stored for the
\* new paste was in no row, so whoever had it before has seen it end.
LEMMA OwnerCreate ==
  ASSUME NEW r \in Req, IInv, OwnerInv, Create(r)
  PROVE  OwnerInv'
  <1>0. /\ req \in [Req -> Request] /\ req[r] \in Request /\ ReqOK(r) /\ now \in Nat
        /\ tokRow \in [Tokens -> TokRow] /\ row \in [IDs -> Row]
        /\ used \subseteq IDs /\ granted \subseteq used
        /\ tokStored \subseteq Tokens /\ minted \subseteq Tokens
    BY DEF IInv, TypeOK
  <1>1. CASE BeginCreate(r) \/ PickID(r) \/ ResolveToken(r)
    <2>1. UNCHANGED <<row, tokenVars, now, granted>>
      BY <1>1 DEF BeginCreate, CreateFromRequest, HandleWebCreate, PastebinCreate, LenCreate,
         StikkedCreate, HastebinCreate, DpasteCreate, RootUpload, TermbinServe, StartCreate,
         Begin, PickID, ResolveToken, pasteVars, history
    <2> QED
      BY <1>0, <2>1, OwnerFrame DEF tokenVars
  <1>2. CASE CreatePaste(r)
    <2>1. req[r].id \notin used /\ UNCHANGED <<tokenVars, now, granted>>
      BY <1>0, <1>2 DEF CreatePaste, At, ReqOK, ChosenLabels, history
    <2>2. \A i \in used : row'[i] = row[i]
      BY <1>0, <1>2, <2>1 DEF CreatePaste, pasteVars
    <2> QED
      BY <1>0, <2>1, <2>2, OwnerFrame DEF tokenVars
  <1>3. CASE CreateAPIToken(r)
    <2>0. PICK i, t, e : i \in IDs /\ i = req[r].id /\ t = req[r].tok /\ e = req[r].expires
      BY <1>0 DEF Request
    <2>1. UNCHANGED <<row, now>> /\ i \in used /\ t \in Tokens /\ row[i].owner = t
          /\ row[i].expires = e
      BY <1>0, <1>3, <2>0 DEF CreateAPIToken, At, ReqOK, pasteVars
    <2>2. CASE UNCHANGED <<tokenVars, granted>>
      BY <1>0, <2>1, <2>2, OwnerFrame DEF tokenVars
    <2>3. CASE /\ t \notin tokStored /\ tokStored' = tokStored \cup {t}
               /\ tokRow' = [tokRow EXCEPT ![t] = [resource |-> i,
                                                   expires |-> TokenExpiry(e),
                                                   revoked |-> FALSE]]
               /\ granted' = granted \cup {i}
      <3>1. tokRow'[t] = [resource |-> i, expires |-> TokenExpiry(e), revoked |-> FALSE]
        BY <1>0, <2>1, <2>3
      <3>2. GrantKept(i)'
        <4>1. row'[i].owner = t /\ t \in tokStored'
          BY <2>1, <2>3
        <4>2. tokRow'[t].resource = i /\ ~tokRow'[t].revoked
          BY <3>1
        <4>3. tokRow'[t].expires = TokenExpiry(row[i].expires)
          BY <2>1, <3>1
        <4>4. TokenExpiry(row[i].expires)' = TokenExpiry(row[i].expires)
          BY <2>1 DEF TokenExpiry
        <4> QED
          BY <4>1, <4>2, <4>3, <4>4 DEF GrantKept
      <3>3. ASSUME NEW j \in granted PROVE GrantKept(j)'
        <4>1. GrantKept(j)
          BY <3>3 DEF OwnerInv
        <4>2. CASE TokenEnded(j)
          BY <2>1, <4>2 DEF GrantKept, TokenEnded, TokenExpiry
        <4>3. CASE ~TokenEnded(j)
          <5>1. row[j].owner \in tokStored /\ row[j].owner # t
            BY <2>3, <4>1, <4>3 DEF GrantKept
          <5>2. tokRow'[row[j].owner] = tokRow[row[j].owner]
            BY <1>0, <2>3, <5>1
          <5>3. TokenExpiry(row[j].expires)' = TokenExpiry(row[j].expires) /\ row' = row
            BY <2>1 DEF TokenExpiry
          <5> QED
            BY <2>3, <4>1, <4>3, <5>1, <5>2, <5>3 DEF GrantKept
        <4> QED
          BY <4>2, <4>3
      <3> QED
        BY <2>3, <3>2, <3>3 DEF OwnerInv
    <2> QED
      BY <1>3, <2>0, <2>2, <2>3 DEF CreateAPIToken
  <1> QED
    BY <1>1, <1>2, <1>3 DEF Create

\* The sweeps, the commands and the environment: the cleanup takes only tokens that
\* are revoked or have ended.
LEMMA OwnerSystem ==
  ASSUME IInv, OwnerInv,
         \/ ExpirePastesTask \/ TokenCleanupTask \/ TokenRevokeCommand
         \/ Reaper \/ Tick \/ Restart \/ UNCHANGED vars
  PROVE  OwnerInv'
  <1> USE DEF pasteVars, tokenVars, drawVars, history, vars
  <1>0. now \in Nat /\ minted \subseteq Tokens
    BY DEF IInv, TypeOK
  <1>1. CASE TokenCleanupTask
    <2>1. /\ UNCHANGED <<row, tokRow, now, granted>>
          /\ tokStored' = {t \in tokStored : ~Stale(t)}
      BY <1>1 DEF TokenCleanupTask
    <2>2. ASSUME NEW i \in granted PROVE GrantKept(i)'
      <3>1. GrantKept(i)
        BY <2>2 DEF OwnerInv
      <3>2. CASE TokenEnded(i)
        BY <2>1, <3>2 DEF GrantKept, TokenEnded, TokenExpiry
      <3>3. CASE ~TokenEnded(i)
        <4>1. ~Stale(row[i].owner)
          BY <3>1, <3>3 DEF GrantKept, Stale, TokenEnded
        <4> QED
          BY <2>1, <3>1, <3>3, <4>1 DEF GrantKept, TokenExpiry
      <3> QED
        BY <3>2, <3>3
    <2> QED
      BY <2>1, <2>2 DEF OwnerInv
  <1>2. CASE TokenRevokeCommand
    <2>1. PICK u \in minted : RevokeAPIToken(u)
      BY <1>2 DEF TokenRevokeCommand
    <2>2. UNCHANGED <<row, tokStored, now>>
      BY <1>2 DEF TokenRevokeCommand
    <2> QED
      BY <1>0, <2>1, <2>2, OwnerRevoke
  <1>3. CASE ExpirePastesTask \/ Reaper \/ Tick \/ Restart \/ UNCHANGED vars
    <2>1. UNCHANGED <<row, tokStored, tokRow, granted>> /\ now <= now' /\ now' \in Nat
      BY <1>0, <1>3 DEF ExpirePastesTask, Reaper, Tick, Restart
    <2> QED
      BY <1>0, <2>1, OwnerFrame
  <1> QED
    BY <1>1, <1>2, <1>3

\* The token a create response carries, once CreateAPIToken has stored it, deletes the
\* paste until it is revoked or its own expiry has come, the whole second in which the
\* paste expires; for any number of pastes and handlers, with failing calls, restarts and
\* requests that send a token to be reused.
THEOREM OwnersCanDelete == Spec => []OwnerCanDelete
  <1>1. Init => OwnerInv
    BY DEF Init, OwnerInv
  <1>2. IInv /\ IInv' /\ OwnerInv /\ [Next]_vars => OwnerInv'
    BY OwnerRead, OwnerDelete, OwnerCreate, OwnerSystem DEF Next
  <1>3. IInv /\ OwnerInv => OwnerCanDelete
    <2> SUFFICES ASSUME IInv, OwnerInv, NEW i \in granted \cap stored,
                        \/ TokenExpiry(row[i].expires) = Never
                        \/ now < TokenExpiry(row[i].expires)
                 PROVE  VerifyAPIToken(row[i].owner, i)
      BY DEF OwnerCanDelete
    <2>1. row[i].expires \in Nat /\ now \in Nat
      BY DEF IInv, TypeOK, Row
    <2>2. TokenExpiry(row[i].expires) \in Nat
      BY <2>1, TokenExpiryType
    <2>3. ~TokenEnded(i)
      BY <2>1, <2>2 DEF TokenEnded
    <2>4. GrantKept(i)
      BY DEF OwnerInv
    <2> QED
      BY <2>3, <2>4 DEF GrantKept, TokenEnded, VerifyAPIToken, ValidateAPIToken
  <1> QED
    BY <1>1, <1>2, <1>3, Invariance, PTL DEF Spec

(***************************************************************************)
(* The overshoot of a burn limit.  As long as the row is there, every      *)
(* response counted a view first; once it is gone, only handlers that had  *)
(* loaded it can still respond.                                            *)
(***************************************************************************)
\* Handler s has a copy of paste i; it has counted its view, or found the row gone.
HasLoaded(s, i)  == req[s].pc \in LoadedLabels /\ req[s].id = i
HasCounted(s, i) == req[s].pc \in {"drop", "serve"} /\ req[s].id = i

Loaded(i)  == {s \in Req : HasLoaded(s, i)}
Counted(i) == {s \in Req : HasCounted(s, i)}

OvershootOK(i) ==
    row[i].burn > 0 =>
        /\ i \in stored => served[i] + Cardinality(Counted(i)) <= views[i]
        /\ i \notin stored => served[i] + Cardinality(Loaded(i)) <= row[i].burn + Cardinality(Req) - 1

\* Readers count: nobody uses the two interfaces that do not.
CountsViews(s) == req[s].pc \in ReadLabels => req[s].op \notin {"stikked", "graphql"}

OvershootInv ==
    /\ \A s \in Req : CountsViews(s)
    /\ \A i \in IDs \ used : served[i] = 0
    /\ \A i \in used : OvershootOK(i)

\* Cardinalities of sets of handlers: a subset is no larger, one handler more or less
\* changes it by one.
LEMMA HandlerCounts ==
  ASSUME IsFiniteSet(Req), NEW S \in SUBSET Req
  PROVE  /\ Cardinality(S) \in Nat /\ Cardinality(Req) \in Nat
         /\ Cardinality(S) <= Cardinality(Req)
         /\ \A T \in SUBSET S : Cardinality(T) <= Cardinality(S)
         /\ \A r \in S : \A T \in SUBSET (S \ {r}) : Cardinality(T) <= Cardinality(S) - 1
         /\ \A r \in Req : \A T \in SUBSET (S \cup {r}) : Cardinality(T) <= Cardinality(S) + 1
  <1>1. IsFiniteSet(S) /\ Cardinality(S) <= Cardinality(Req)
    BY FS_Subset
  <1>2. Cardinality(S) \in Nat /\ Cardinality(Req) \in Nat
    BY <1>1, FS_CardinalityType
  <1>3. \A T \in SUBSET S : Cardinality(T) <= Cardinality(S)
    BY <1>1, FS_Subset
  <1>4. ASSUME NEW r \in S, NEW T \in SUBSET (S \ {r})
        PROVE  Cardinality(T) <= Cardinality(S) - 1
    <2>1. IsFiniteSet(S \ {r}) /\ Cardinality(S \ {r}) = Cardinality(S) - 1
      BY <1>1, FS_RemoveElement
    <2> QED
      BY <2>1, FS_Subset
  <1>5. ASSUME NEW r \in Req, NEW T \in SUBSET (S \cup {r})
        PROVE  Cardinality(T) <= Cardinality(S) + 1
    <2>1. IsFiniteSet(S \cup {r}) /\ Cardinality(S \cup {r}) \in {Cardinality(S), Cardinality(S) + 1}
      BY <1>1, FS_AddElement
    <2>2. Cardinality(T) <= Cardinality(S \cup {r})
      BY <2>1, FS_Subset
    <2> QED
      BY <1>2, <2>1, <2>2, FS_Subset, FS_CardinalityType
  <1> QED
    BY <1>1, <1>2, <1>3, <1>4, <1>5

\* A step in which nobody counts a view of i, loads it after it is gone, or responds
\* with it.  When the row goes, fewer responses than burn_after were sent.
LEMMA OvershootFrame ==
  ASSUME IsFiniteSet(Req), IInv, NEW i \in used, OvershootOK(i),
         row'[i] = row[i], served'[i] = served[i],
         i \in stored' => i \in stored /\ views'[i] = views[i],
         i \in stored' => \A s \in Req : HasCounted(s, i)' => HasCounted(s, i),
         i \notin stored => \A s \in Req : HasLoaded(s, i)' => HasLoaded(s, i)
  PROVE  OvershootOK(i)'
  <1>0. /\ views[i] \in Nat /\ served[i] \in Nat /\ row[i].burn \in Nat
        /\ (i \in stored /\ row[i].burn > 0 => views[i] < row[i].burn)
    BY DEF IInv, TypeOK, Row, RowsOK
  <1>1. /\ Counted(i) \in SUBSET Req /\ Counted(i)' \in SUBSET Req
        /\ Loaded(i) \in SUBSET Req /\ Loaded(i)' \in SUBSET Req
    BY DEF Counted, Loaded
  <1>2. /\ Cardinality(Counted(i)) \in Nat /\ Cardinality(Counted(i)') \in Nat
        /\ Cardinality(Loaded(i)) \in Nat /\ Cardinality(Loaded(i)') \in Nat
        /\ Cardinality(Req) \in Nat /\ Cardinality(Loaded(i)') <= Cardinality(Req)
    BY <1>1, HandlerCounts
  <1>3. CASE i \in stored'
    <2>1. Counted(i)' \in SUBSET Counted(i)
      BY <1>3 DEF Counted
    <2>2. Cardinality(Counted(i)') <= Cardinality(Counted(i))
      BY <1>1, <2>1, HandlerCounts
    <2> QED
      BY <1>0, <1>2, <1>3, <2>2 DEF OvershootOK
  <1>4. CASE i \notin stored' /\ i \notin stored
    <2>1. Loaded(i)' \in SUBSET Loaded(i)
      BY <1>4 DEF Loaded
    <2>2. Cardinality(Loaded(i)') <= Cardinality(Loaded(i))
      BY <1>1, <2>1, HandlerCounts
    <2> QED
      BY <1>0, <1>2, <1>4, <2>2 DEF OvershootOK
  <1>5. CASE i \notin stored' /\ i \in stored
    BY <1>0, <1>2, <1>5 DEF OvershootOK
  <1> QED
    BY <1>3, <1>4, <1>5

\* Handler s neither loads a copy nor finishes counting.
Calm(s) ==
    /\ CountsViews(s)'
    /\ req'[s].pc \in LoadedLabels => req[s].pc \in LoadedLabels /\ req'[s].id = req[s].id
    /\ req'[s].pc \in {"drop", "serve"} => req[s].pc \in {"drop", "serve"}

LEMMA CalmStep ==
  ASSUME IsFiniteSet(Req), IInv, OvershootInv, UNCHANGED <<used, row, served>>,
         \A i \in used : i \in stored' => i \in stored /\ views'[i] = views[i],
         \A s \in Req : Calm(s)
  PROVE  OvershootInv'
  <1>1. ASSUME NEW i \in used PROVE OvershootOK(i)'
    <2>1. \A s \in Req : HasCounted(s, i)' => HasCounted(s, i)
      BY DEF Calm, HasCounted, LoadedLabels
    <2>2. \A s \in Req : HasLoaded(s, i)' => HasLoaded(s, i)
      BY DEF Calm, HasLoaded
    <2>3. OvershootOK(i)
      BY <1>1 DEF OvershootInv
    <2> QED
      BY <1>1, <2>1, <2>2, <2>3, OvershootFrame
  <1> QED
    BY <1>1 DEF OvershootInv, Calm

\* A handler that does nothing is calm, and so is one with nothing to serve.
LEMMA CalmCases ==
  ASSUME NEW s \in Req, OvershootInv,
         \/ req'[s] = req[s]
         \/ req'[s].pc \notin ReadLabels
         \/ /\ req'[s].pc \in {"cacheGet", "dbRead"}
            /\ req'[s].op \notin {"stikked", "graphql"}
         \/ /\ req[s].pc \in ReadLabels /\ req'[s].op = req[s].op /\ req'[s].id = req[s].id
            /\ req'[s].pc \in LoadedLabels => req[s].pc \in LoadedLabels
            /\ req'[s].pc \in {"drop", "serve"} => req[s].pc \in {"drop", "serve"}
  PROVE  Calm(s)
  BY DEF OvershootInv, Calm, CountsViews, ReadLabels, LoadedLabels

\* The steps of a reader.
LEMMA OvershootRead ==
  ASSUME IsFiniteSet(Req), NEW r \in Req, IInv, OvershootInv, Read(r),
         ~Faults, Ops \cap {"stikked", "graphql"} = {}
  PROVE  OvershootInv'
  <1>0. /\ req \in [Req -> Request] /\ req[r] \in Request /\ ReqOK(r) /\ req[r].id \in IDs
        /\ stored \subseteq used /\ used \subseteq IDs /\ views \in [IDs -> Nat]
        /\ served \in [IDs -> Nat] /\ row \in [IDs -> Row]
    BY DEF IInv, TypeOK, Request
  <1>1. CASE BeginRead(r)
    <2>1. PICK o \in ReadOps, i \in IDs, label \in {"cacheGet", "dbRead"} :
            Begin(r, o, i, NoToken, NoDraft, label)
      BY <1>1 DEF BeginRead, StartRead, GetPaste, GetRawPaste, GetPasteForWeb, RenderPasteView,
              HandleEmbed, HandleDownload, HandleURLRedirect, PastebinRaw,
                  HastebinGet, LenGet, StikkedJSON, ResolvePaste, ReadOps
    <2>2. /\ req'[r].pc = label /\ req'[r].op = o /\ o \in Ops
          /\ \A s \in Req \ {r} : req'[s] = req[s]
          /\ UNCHANGED <<stored, used, row, views, served>>
      BY <1>0, <2>1 DEF Begin, pasteVars, history
    <2>3. \A s \in Req : Calm(s)
      BY <2>2, CalmCases
    <2> QED
      BY <2>2, <2>3, CalmStep
  <1>2. CASE CacheEvict(r) \/ CachePaste(r) \/ ExpirePaste(r) \/ PurgeExpired(r) \/ DropBurned(r)
             \/ CheckLive(r)
    <2>1. /\ UNCHANGED <<used, row, views, served>> /\ stored' \subseteq stored
          /\ req[r].pc \in ReadLabels
      BY <1>2 DEF CacheEvict, CachePaste, ExpirePaste, PurgeExpired, DropBurned, CheckLive, At,
                  pasteVars, history, ReadLabels, LoadedLabels
    <2>2. CASE Respond(r)
      <3>1. req'[r].pc = "idle" /\ \A s \in Req \ {r} : req'[s] = req[s]
        BY <1>0, <2>2, RespondReq DEF Idle
      <3>2. \A s \in Req : Calm(s)
        BY <3>1, CalmCases DEF ReadLabels, LoadedLabels
      <3> QED
        BY <2>1, <3>2, CalmStep
    <2>3. CASE ~Respond(r)
      <3>1. PICK label \in ReadLabels :
              /\ Goto(r, label)
              /\ label \in LoadedLabels => req[r].pc \in LoadedLabels
              /\ label \in {"drop", "serve"} => req[r].pc \in {"drop", "serve"}
        <4>1. req[r].op # "stikked"
          BY <2>1 DEF OvershootInv, CountsViews
        <4> QED
          BY <1>2, <2>3, <4>1 DEF CacheEvict, CachePaste, ExpirePaste, PurgeExpired, DropBurned,
             CheckLive, At, ReadLabels, LoadedLabels
      <3>2. /\ req'[r].pc = label /\ req'[r].op = req[r].op /\ req'[r].id = req[r].id
            /\ \A s \in Req \ {r} : req'[s] = req[s]
        BY <1>0, <3>1, GotoReq DEF ReadLabels, LoadedLabels, Labels
      <3>3. Calm(r)
        BY <2>1, <3>1, <3>2, CalmCases
      <3>4. \A s \in Req : Calm(s)
        BY <3>2, <3>3, CalmCases
      <3> QED
        BY <2>1, <3>4, CalmStep
    <2> QED
      BY <2>2, <2>3
  <1>3. CASE CacheGet(r) \/ GetPasteByID(r)
    <2>1. UNCHANGED <<stored, used, row, views, served>> /\ req[r].pc \in {"cacheGet", "dbRead"}
      BY <1>3 DEF CacheGet, GetPasteByID, At, pasteVars, history
    <2>2. req[r].op \notin {"stikked", "graphql"}
      BY <2>1 DEF OvershootInv, CountsViews, ReadLabels
    <2>3. /\ \A s \in Req \ {r} : req'[s] = req[s]
          /\ req'[r].pc \in {"idle", "evict", "dbRead", "cacheSet", "check"}
          /\ req'[r].pc # "idle" => req'[r].op = req[r].op /\ req'[r].id = req[r].id
          /\ req'[r].pc \in {"cacheSet", "check"} =>
                 req[r].id \in stored \/ row[req[r].id].burn = 0
      <3>1. CASE Respond(r)
        BY <1>0, <3>1, RespondReq DEF Idle
      <3>2. CASE ~Respond(r)
        <4>1. PICK label \in {"evict", "dbRead", "cacheSet", "check"} :
                /\ Goto(r, label)
                /\ label \in {"cacheSet", "check"} =>
                       req[r].id \in stored \/ row[req[r].id].burn = 0
          BY <1>3, <2>2, <3>2 DEF CacheGet, GetPasteByID, Cacheable
        <4> QED
          BY <1>0, <4>1, GotoReq DEF Labels
      <3> QED
        BY <3>1, <3>2
    <2>4. \A s \in Req : CountsViews(s)'
      <3>1. CountsViews(r)'
        BY <2>2, <2>3 DEF CountsViews, ReadLabels, LoadedLabels
      <3>2. \A s \in Req \ {r} : CountsViews(s)'
        BY <2>3 DEF OvershootInv, CountsViews
      <3> QED
        BY <3>1, <3>2
    <2>5. ASSUME NEW i \in used PROVE OvershootOK(i)'
      <3>1. OvershootOK(i)
        BY <2>5 DEF OvershootInv
      <3>2. \A s \in Req : HasCounted(s, i)' => HasCounted(s, i)
        BY <2>3 DEF HasCounted
      <3>3. CASE row[i].burn = 0
        BY <2>1, <3>3 DEF OvershootOK
      <3>4. CASE row[i].burn # 0
        <4>1. i \notin stored => \A s \in Req : HasLoaded(s, i)' => HasLoaded(s, i)
          BY <2>3, <3>4 DEF HasLoaded, LoadedLabels
        <4> QED
          BY <2>1, <2>5, <3>1, <3>2, <4>1, OvershootFrame
      <3> QED
        BY <3>3, <3>4
    <2> QED
      BY <2>1, <2>4, <2>5 DEF OvershootInv
  <1>4. CASE IncrementViewsAndCheckBurn(r)
    <2>0. PICK k \in IDs : k = req[r].id
      BY <1>0
    <2>1. /\ req[r].pc = "count" /\ UNCHANGED <<used, row, served>>
          /\ req[r].op \notin {"stikked", "graphql"}
      BY <1>4 DEF IncrementViewsAndCheckBurn, At, history, OvershootInv, CountsViews,
                  ReadLabels, LoadedLabels
    <2>2. \/ /\ k \in stored /\ views' = [views EXCEPT ![k] = views[k] + 1]
             /\ stored' = stored /\ Goto(r, "serve")
          \/ /\ k \in stored /\ views' = [views EXCEPT ![k] = views[k] + 1]
             /\ stored' = stored \ {k} /\ Goto(r, "drop")
          \/ k \notin stored /\ UNCHANGED <<stored, views>> /\ Goto(r, "serve")
      BY <1>4, <2>0 DEF IncrementViewsAndCheckBurn
    <2>3. /\ req'[r].pc \in {"drop", "serve"} /\ req'[r].id = k /\ req'[r].op = req[r].op
          /\ \A s \in Req \ {r} : req'[s] = req[s]
      BY <1>0, <2>0, <2>2, GotoReq DEF Labels
    <2>4. \A s \in Req : CountsViews(s)'
      BY <2>1, <2>3 DEF OvershootInv, CountsViews
    <2>5. ASSUME NEW i \in used PROVE OvershootOK(i)'
      <3>0. OvershootOK(i)
        BY <2>5 DEF OvershootInv
      <3>1. \A s \in Req : HasLoaded(s, i)' => HasLoaded(s, i)
        BY <2>0, <2>1, <2>3 DEF HasLoaded, LoadedLabels
      <3>2. CASE i # k \/ i \notin stored \/ i \notin stored'
        <4>1. i \in stored' => i \in stored /\ views'[i] = views[i] /\ i # k
          BY <1>0, <2>2, <2>5, <3>2
        <4>2. i \in stored' => \A s \in Req : HasCounted(s, i)' => HasCounted(s, i)
          BY <2>3, <4>1 DEF HasCounted
        <4> QED
          BY <2>1, <2>5, <3>0, <3>1, <4>1, <4>2, OvershootFrame
      <3>3. CASE i = k /\ i \in stored /\ i \in stored'
        <4>1. views'[i] = views[i] + 1
          BY <1>0, <2>2, <3>3
        <4>2. Counted(i)' \in SUBSET (Counted(i) \cup {r}) /\ Counted(i) \in SUBSET Req
          BY <2>3 DEF Counted, HasCounted
        <4>3. /\ Cardinality(Counted(i)') <= Cardinality(Counted(i)) + 1
              /\ Cardinality(Counted(i)) \in Nat
          BY <4>2, HandlerCounts
        <4>4. Counted(i)' \in SUBSET Req
          BY DEF Counted
        <4>5. Cardinality(Counted(i)') \in Nat
          BY <4>4, HandlerCounts
        <4> QED
          BY <1>0, <2>1, <3>0, <3>3, <4>1, <4>3, <4>5 DEF OvershootOK
      <3> QED
        BY <3>2, <3>3
    <2> QED
      BY <2>1, <2>4, <2>5 DEF OvershootInv
  <1>5. CASE Serve(r)
    <2>0. PICK k \in IDs : k = req[r].id
      BY <1>0
    <2>1. /\ req[r].pc = "serve" /\ UNCHANGED <<stored, used, row, views>>
          /\ served' = [served EXCEPT ![k] = served[k] + 1] /\ Respond(r)
      BY <1>5, <2>0 DEF Serve, At, pasteVars
    <2>2. req'[r].pc = "idle" /\ \A s \in Req \ {r} : req'[s] = req[s]
      BY <1>0, <2>1, RespondReq DEF Idle
    <2>3. k \in used
      BY <1>0, <2>0, <2>1 DEF ReqOK, LoadedLabels
    <2>4. \A s \in Req : CountsViews(s)'
      BY <2>2 DEF OvershootInv, CountsViews, ReadLabels, LoadedLabels
    <2>5. ASSUME NEW i \in used PROVE OvershootOK(i)'
      <3>0. OvershootOK(i)
        BY <2>5 DEF OvershootInv
      <3>1. CASE i # k
        <4>1. served'[i] = served[i]
          BY <1>0, <2>1, <3>1
        <4>2. \A s \in Req : (HasCounted(s, i)' => HasCounted(s, i)) /\ (HasLoaded(s, i)' => HasLoaded(s, i))
          BY <2>2 DEF HasCounted, HasLoaded, LoadedLabels
        <4> QED
          BY <2>1, <2>5, <3>0, <4>1, <4>2, OvershootFrame
      <3>2. CASE i = k
        <4>1. served'[i] = served[i] + 1 /\ served[i] \in Nat /\ views[i] \in Nat
              /\ row[i].burn \in Nat
          BY <1>0, <2>1, <3>2 DEF Row
        <4>2. /\ r \in Counted(i) /\ Counted(i) \in SUBSET Req /\ Counted(i)' \in SUBSET (Counted(i) \ {r})
              /\ r \in Loaded(i) /\ Loaded(i) \in SUBSET Req /\ Loaded(i)' \in SUBSET (Loaded(i) \ {r})
          BY <2>0, <2>1, <2>2, <3>2 DEF Counted, Loaded, HasCounted, HasLoaded, LoadedLabels
        <4>3. /\ Cardinality(Counted(i)') <= Cardinality(Counted(i)) - 1
              /\ Cardinality(Loaded(i)') <= Cardinality(Loaded(i)) - 1
              /\ Cardinality(Counted(i)) \in Nat /\ Cardinality(Loaded(i)) \in Nat
              /\ Cardinality(Req) \in Nat
          BY <4>2, HandlerCounts
        <4>4. Counted(i)' \in SUBSET Req /\ Loaded(i)' \in SUBSET Req
          BY DEF Counted, Loaded
        <4>5. Cardinality(Counted(i)') \in Nat /\ Cardinality(Loaded(i)') \in Nat
          BY <4>4, HandlerCounts
        <4> QED
          BY <2>1, <3>0, <4>1, <4>3, <4>5 DEF OvershootOK
      <3> QED
        BY <3>1, <3>2
    <2>6. \A i \in IDs \ used : served'[i] = 0
      BY <1>0, <2>1, <2>3 DEF OvershootInv
    <2> QED
      BY <2>1, <2>4, <2>5, <2>6 DEF OvershootInv
  <1> QED
    BY <1>1, <1>2, <1>3, <1>4, <1>5 DEF Read

\* A paste that is created has been served to nobody.
LEMMA OvershootCreate ==
  ASSUME IsFiniteSet(Req), NEW r \in Req, IInv, IInv', OvershootInv, Create(r)
  PROVE  OvershootInv'
  <1>0. /\ req \in [Req -> Request] /\ req[r] \in Request /\ ReqOK(r)
        /\ stored \subseteq used /\ used \subseteq IDs /\ views \in [IDs -> Nat]
        /\ served \in [IDs -> Nat] /\ row \in [IDs -> Row]
    BY DEF IInv, TypeOK
  <1> DEFINE CL == {"pick", "resolve", "insert", "grant"}
  <1>1. req'[r].pc \notin ReadLabels /\ \A s \in Req \ {r} : req'[s] = req[s]
    <2>1. \/ \E label \in CL : Goto(r, label)
          \/ Respond(r)
          \/ \E o, i, t, d : Begin(r, o, i, t, d, "pick")
          \/ \E i : req' = [req EXCEPT ![r].id = i, ![r].pc = "resolve"]
          \/ \E t : req' = [req EXCEPT ![r].tok = t, ![r].pc = "insert"]
      BY DEF Create, BeginCreate, StartCreate, CreateFromRequest, HandleWebCreate,
             PastebinCreate, LenCreate, StikkedCreate, HastebinCreate, DpasteCreate, RootUpload,
             TermbinServe, PickID, ResolveToken, CreatePaste, CreateAPIToken
    <2>2. ASSUME NEW label \in CL, Goto(r, label)
          PROVE  req'[r].pc = label /\ \A s \in Req \ {r} : req'[s] = req[s]
      BY <1>0, <2>2, GotoReq DEF Labels
    <2>3. CASE Respond(r)
      BY <1>0, <2>3, RespondReq DEF Idle, ReadLabels, LoadedLabels
    <2>4. ASSUME NEW o, NEW i, NEW t, NEW d, Begin(r, o, i, t, d, "pick")
          PROVE  req'[r].pc = "pick" /\ \A s \in Req \ {r} : req'[s] = req[s]
      BY <1>0, <2>4 DEF Begin
    <2>5. ASSUME NEW i, req' = [req EXCEPT ![r].id = i, ![r].pc = "resolve"]
          PROVE  req'[r].pc = "resolve" /\ \A s \in Req \ {r} : req'[s] = req[s]
      BY <1>0, <2>5 DEF Request
    <2>6. ASSUME NEW t, req' = [req EXCEPT ![r].tok = t, ![r].pc = "insert"]
          PROVE  req'[r].pc = "insert" /\ \A s \in Req \ {r} : req'[s] = req[s]
      BY <1>0, <2>6 DEF Request
    <2>7. CL \cap ReadLabels = {}
      BY DEF ReadLabels, LoadedLabels
    <2> QED
      BY <2>1, <2>2, <2>3, <2>4, <2>5, <2>6, <2>7
  <1>2. \A s \in Req : Calm(s)
    BY <1>1, CalmCases
  <1>3. CASE UNCHANGED pasteVars /\ UNCHANGED served
    BY <1>2, <1>3, CalmStep DEF pasteVars
  <1>4. CASE CreatePaste(r) /\ ~UNCHANGED pasteVars
    <2>0. PICK k \in IDs : k = req[r].id
      BY <1>0 DEF Request
    <2>1. /\ stored' = stored \cup {k} /\ used' = used \cup {k} /\ k \notin used
          /\ row' = [row EXCEPT ![k] = NewRow(r)] /\ views' = [views EXCEPT ![k] = 0]
          /\ served' = served
      BY <1>0, <1>4, <2>0 DEF CreatePaste, At, ReqOK, ChosenLabels, history
    <2>2. ASSUME NEW i \in used PROVE OvershootOK(i)'
      <3>1. \A s \in Req : (HasCounted(s, i)' => HasCounted(s, i)) /\ (HasLoaded(s, i)' => HasLoaded(s, i))
        BY <1>2 DEF Calm, HasCounted, HasLoaded, LoadedLabels
      <3>2. row'[i] = row[i] /\ views'[i] = views[i] /\ OvershootOK(i)
            /\ (i \in stored' => i \in stored)
        BY <1>0, <2>1, <2>2 DEF OvershootInv
      <3> QED
        BY <2>1, <2>2, <3>1, <3>2, OvershootFrame
    <2>3. OvershootOK(k)'
      <3>1. \A s \in Req : ~HasCounted(s, k)
        BY <2>1 DEF IInv, ReqOK, HasCounted, LoadedLabels
      <3>2. \A s \in Req : HasCounted(s, k)' => HasCounted(s, k)
        BY <1>2 DEF Calm, HasCounted, LoadedLabels
      <3>3. Counted(k)' = {}
        BY <3>1, <3>2 DEF Counted
      <3>4. served'[k] = 0 /\ views'[k] = 0 /\ k \in stored'
        BY <1>0, <2>1 DEF OvershootInv
      <3> QED
        BY <3>3, <3>4, FS_EmptySet DEF OvershootOK
    <2> QED
      BY <1>2, <2>1, <2>2, <2>3 DEF OvershootInv, Calm
  <1> QED
    BY <1>3, <1>4 DEF Create, BeginCreate, StartCreate, CreateFromRequest, HandleWebCreate,
       PastebinCreate, LenCreate, StikkedCreate, HastebinCreate, DpasteCreate, RootUpload,
       TermbinServe, Begin, PickID, ResolveToken, CreatePaste, CreateAPIToken, pasteVars, history

\* Deleting, the sweeps and the environment: rows go, and no copy is loaded.
LEMMA OvershootOther ==
  ASSUME IsFiniteSet(Req), IInv, OvershootInv,
         \/ \E r \in Req : Delete(r)
         \/ ExpirePastesTask \/ TokenCleanupTask \/ TokenRevokeCommand
         \/ Reaper \/ Tick \/ Restart \/ UNCHANGED vars
  PROVE  OvershootInv'
  <1>1. ASSUME NEW r \in Req, Delete(r) PROVE OvershootInv'
    <2>1. UNCHANGED <<used, row, views, served>> /\ stored' \subseteq stored
      BY <1>1 DEF Delete, BeginDelete, StartDelete, DeleteHandler, HandleRemoveSubmit,
           PastebinDelete, LenRemove, BeginDataDelete, Begin, Verify, Remove, DeletePaste,
           InvalidatePasteCache, CompatCheck, CompatRemove, DataLookup, DataErase, DataRevoke,
           Acknowledge, pasteVars, history
    <2>2. \A s \in Req : Calm(s)
      BY <1>1, DeleteMoves, CalmCases
    <2> QED
      BY <2>1, <2>2, CalmStep
  <1>2. CASE \/ ExpirePastesTask \/ TokenCleanupTask \/ TokenRevokeCommand
             \/ Reaper \/ Tick \/ Restart \/ UNCHANGED vars
    <2>1. UNCHANGED <<used, row, views, served>> /\ stored' \subseteq stored
      BY <1>2 DEF ExpirePastesTask, TokenCleanupTask, TokenRevokeCommand, Reaper, Tick, Restart,
                  vars, pasteVars, history
    <2>2. \A s \in Req : req'[s] = req[s] \/ req'[s] = Idle
      BY <1>2 DEF ExpirePastesTask, TokenCleanupTask, TokenRevokeCommand, Reaper, Tick, Restart,
                  vars
    <2>3. \A s \in Req : Calm(s)
      BY <2>2, CalmCases DEF Idle, ReadLabels, LoadedLabels
    <2> QED
      BY <2>1, <2>3, CalmStep
  <1> QED
    BY <1>1, <1>2

\* For any number of handlers, a paste with a burn limit is served at most as many
\* times beyond it as there are other handlers in flight, as long as counting succeeds
\* and only the interfaces that count are used (IncrementViewsAndCheckBurn; StikkedJSON
\* and GraphQL do not count).
THEOREM OvershootIsBounded ==
  ASSUME IsFiniteSet(Req), ~Faults, Ops \cap {"stikked", "graphql"} = {}
  PROVE  Spec => []BurnOvershootBounded
  <1>1. Init => OvershootInv
    BY DEF Init, OvershootInv, CountsViews, Idle, ReadLabels, LoadedLabels
  <1>2. IInv /\ IInv' /\ OvershootInv /\ [Next]_vars => OvershootInv'
    BY OvershootRead, OvershootCreate, OvershootOther DEF Next
  <1>3. IInv /\ OvershootInv => BurnOvershootBounded
    <2> SUFFICES ASSUME IInv, OvershootInv, NEW i \in IDs, row[i].burn > 0
                 PROVE  served[i] <= row[i].burn + Cardinality(Req) - 1
      BY DEF BurnOvershootBounded
    <2>1. /\ served[i] \in Nat /\ views[i] \in Nat /\ row[i].burn \in Nat
          /\ Loaded(i) \in SUBSET Req /\ Counted(i) \in SUBSET Req
      BY DEF IInv, TypeOK, Row, Loaded, Counted
    <2>2. /\ Cardinality(Loaded(i)) \in Nat /\ Cardinality(Counted(i)) \in Nat
          /\ Cardinality(Req) \in Nat
      BY <2>1, HandlerCounts
    <2>3. CASE i \notin used
      BY <2>1, <2>2, <2>3 DEF OvershootInv
    <2>4. CASE i \in stored
      <3>1. views[i] < row[i].burn /\ i \in used
        BY <2>4 DEF IInv, RowsOK, TypeOK
      <3>2. served[i] + Cardinality(Counted(i)) <= views[i]
        BY <2>4, <3>1 DEF OvershootInv, OvershootOK
      <3> QED
        BY <2>1, <2>2, <3>1, <3>2
    <2>5. CASE i \in used /\ i \notin stored
      <3>1. served[i] + Cardinality(Loaded(i)) <= row[i].burn + Cardinality(Req) - 1
        BY <2>5 DEF OvershootInv, OvershootOK
      <3> QED
        BY <2>1, <2>2, <3>1
    <2> QED
      BY <2>3, <2>4, <2>5
  <1> QED
    BY <1>1, <1>2, <1>3, Invariance, PTL DEF Spec

=============================================================================
