-------------------------- MODULE ApiServer_proofs --------------------------
(***************************************************************************)
(* Theorems about ApiServer for every tree of blocks, every set of clients *)
(* and requests and every size of the pool.                                *)
(***************************************************************************)
EXTENDS ApiServer, IndexerStore_proofs, FiniteSetTheorems, TLAPS

(* What one query returns. *)

LEMMA TakeFirstRows ==
    ASSUME NEW S, NEW rows \in TakeFirst(S)
    PROVE  rows \subseteq S
  BY DEF TakeFirst

LEMMA BlockRowType ==
    ASSUME NEW b \in Blocks
    PROVE  BlockRow(b) \in RowValues
  BY DEF BlockRow, RowValues

LEMMA FactRowType ==
    ASSUME StoreTypeOK, NEW e \in Events
    PROVE  FactRow(e) \in RowValues
  BY DEF FactRow, RowValues, StoreTypeOK

LEMMA TokenRowType ==
    ASSUME NEW t \in KnownTokens
    PROVE  TokenRow(t) \in RowValues
  BY DEF TokenRow, RowValues

LEMMA ListRows ==
    ASSUME StoreTypeOK, NEW q, NEW kind, NEW rows \in ListByUser(q, kind)
    PROVE  rows \subseteq RowValues
  BY FactRowType DEF ListByUser, VisibleEvents

(* What each route asks. *)
LEMMA RowsOfRoute ==
    ASSUME NEW q
    PROVE  /\ q.route = "health"   => Rows(q) = {{}}
           /\ q.route = "latest"   => Rows(q) = GetLatestCanonicalBlock
           /\ q.route = "number"   => Rows(q) = GetBlockByNumber(q)
           /\ q.route = "hash"     => Rows(q) = GetBlockByHash(q)
           /\ q.route = "deposit"  => Rows(q) = GetDeposit(q)
           /\ q.route = "deposits" => Rows(q) = ListByUser(q, "deposit")
           /\ q.route = "trades"   => Rows(q) = ListByUser(q, "trade")
           /\ q.route = "token"    => Rows(q) = GetTokenMetadata(q)
  BY Zenon DEF Rows

LEMMA QueryRows ==
    ASSUME StoreTypeOK, NEW q, q.route \in Routes, NEW rows \in Rows(q)
    PROVE  rows \subseteq RowValues
<1>1. CASE q.route = "health"
  BY <1>1, RowsOfRoute
<1>2. CASE q.route = "latest"
  <2>1. rows \in TakeFirst({BlockRow(b) : b \in LatestCanonicalRows})
    BY <1>2, RowsOfRoute DEF GetLatestCanonicalBlock
  <2> QED
    BY <2>1, TakeFirstRows, BlockRowType
    DEF LatestCanonicalRows, CanonicalRows
<1>3. CASE q.route = "number"
  <2>1. rows \in TakeFirst({BlockRow(b) : b \in {c \in StoredBlocks : Number[c] = q.key}})
    BY <1>3, RowsOfRoute DEF GetBlockByNumber
  <2> QED
    BY <2>1, TakeFirstRows, BlockRowType DEF StoredBlocks
<1>4. CASE q.route = "hash"
  <2>1. rows \in TakeFirst({BlockRow(b) : b \in {c \in StoredBlocks : Equals(q, c)}})
    BY <1>4, RowsOfRoute DEF GetBlockByHash
  <2> QED
    BY <2>1, TakeFirstRows, BlockRowType DEF StoredBlocks
<1>5. CASE q.route = "deposit"
  <2>1. rows \in TakeFirst({FactRow(e) : e \in {f \in VisibleEvents :
                                            Kind[f] = "deposit" /\ Equals(q, f)}})
    BY <1>5, RowsOfRoute DEF GetDeposit
  <2> QED
    BY <2>1, TakeFirstRows, FactRowType DEF VisibleEvents
<1>6. CASE q.route = "deposits"
  BY <1>6, ListRows, RowsOfRoute
<1>7. CASE q.route = "trades"
  BY <1>7, ListRows, RowsOfRoute
<1>8. CASE q.route = "token"
  <2>1. rows \in TakeFirst({TokenRow(t) : t \in {s \in KnownTokens : Equals(q, s)}})
    BY <1>8, RowsOfRoute DEF GetTokenMetadata
  <2> QED
    BY <2>1, TakeFirstRows, TokenRowType
<1> QED
  BY <1>1, <1>2, <1>3, <1>4, <1>5, <1>6, <1>7, <1>8 DEF Routes

-----------------------------------------------------------------------------
(* The busy connections. *)

LEMMA BusyIsFinite == IsFiniteSet(Busy) /\ Cardinality(Busy) \in Nat
<1>1. Busy \in SUBSET Clients
  BY DEF Busy
<1> QED
  BY <1>1, ServerAssumption, FS_Subset, FS_CardinalityType

(* A client that leaves its query frees a connection; no other is taken. *)
LEMMA NoMoreBusy ==
    ASSUME phase \in [Clients -> Phases], Busy' \subseteq Busy
    PROVE  Cardinality(Busy') <= Cardinality(Busy) /\ Cardinality(Busy') \in Nat
  BY BusyIsFinite, FS_Subset, FS_CardinalityType

LEMMA OneMoreBusy ==
    ASSUME phase \in [Clients -> Phases], NEW c \in Clients,
           phase' = [phase EXCEPT ![c] = "querying"]
    PROVE  Cardinality(Busy') <= Cardinality(Busy) + 1 /\ Cardinality(Busy') \in Nat
<1>1. Busy' = Busy \cup {c}
  BY DEF Busy
<1> QED
  BY <1>1, BusyIsFinite, FS_AddElement

(* The part of TypeOK that is the server's. *)
ServerTypeOK ==
    /\ server \in Servers
    /\ opened \in 0 .. PoolSize
    /\ Cardinality(Busy) <= opened
    /\ request \in [Clients -> Requests \cup {None}]
    /\ phase \in [Clients -> Phases]
    /\ answer \in [Clients -> Replies]
    /\ \A c \in Clients : phase[c] \in {"waiting", "querying"} => request[c] \in Requests
    /\ failures \in 0 .. MaxFailures

LEMMA ErrorType ==
    ASSUME NEW status \in {0, 200, 400, 404, 500, 503}
    PROVE  Reply(status, {}) \in Replies
  BY DEF Replies, Reply

LEMMA FailureType ==
    ASSUME NEW q
    PROVE  Failure(q) \in Replies
  BY ErrorType DEF Failure

LEMMA QueryType ==
    ASSUME StoreTypeOK, NEW q, q.route \in Routes, NEW rows \in Rows(q)
    PROVE  Found(q, rows) \in Replies
  BY QueryRows DEF Found, Replies, Reply

-----------------------------------------------------------------------------
(* The steps of the server.  Each keeps the server's types. *)

LEMMA UnchangedServer ==
    ASSUME ServerTypeOK, UNCHANGED <<opened, request, phase, answer, failures>>,
           server' \in Servers
    PROVE  ServerTypeOK'
  BY DEF ServerTypeOK, Busy

(* A client leaves the queue or its query with an answer. *)
LEMMA AnAnswer ==
    ASSUME ServerTypeOK, NEW c \in Clients, NEW reply \in Replies,
           Answer(c, reply), UNCHANGED <<server, opened, request>>,
           failures' \in 0 .. MaxFailures
    PROVE  ServerTypeOK'
<1>1. Busy' \subseteq Busy
  BY DEF Answer, Busy, ServerTypeOK
<1>2. Cardinality(Busy') <= opened
  BY <1>1, NoMoreBusy, BusyIsFinite DEF ServerTypeOK
<1> QED
  BY <1>2 DEF ServerTypeOK, Answer, Phases

LEMMA AskStep ==
    ASSUME ServerTypeOK, NEW c \in Clients, Ask(c)
    PROVE  ServerTypeOK'
<1>1. PICK r \in Requests :
         /\ request' = [request EXCEPT ![c] = r]
         /\ \/ Answer(c, Reply(400, {}))
            \/ phase' = [phase EXCEPT ![c] = "waiting"] /\ UNCHANGED answer
  BY DEF Ask
<1>2. /\ request' \in [Clients -> Requests \cup {None}]
      /\ \A d \in Clients : phase'[d] \in {"waiting", "querying"} => request'[d] \in Requests
      /\ phase' \in [Clients -> Phases]
  BY <1>1 DEF ServerTypeOK, Answer, Phases
<1>3. Busy' \subseteq Busy
  BY <1>1 DEF Answer, Busy, ServerTypeOK
<1>4. Cardinality(Busy') <= opened
  BY <1>3, NoMoreBusy, BusyIsFinite DEF ServerTypeOK
<1>5. answer' \in [Clients -> Replies]
  BY <1>1, ErrorType DEF Answer, ServerTypeOK
<1> QED
  BY <1>2, <1>4, <1>5 DEF ServerTypeOK, Ask

LEMMA ConnectStep ==
    ASSUME ServerTypeOK, NEW c \in Clients, Connect(c)
    PROVE  ServerTypeOK'
<1>1. phase' = [phase EXCEPT ![c] = "querying"]
  BY DEF Connect
<1>2. Cardinality(Busy') <= Cardinality(Busy) + 1 /\ Cardinality(Busy') \in Nat
  BY <1>1, OneMoreBusy DEF ServerTypeOK
<1>3. opened' \in 0 .. PoolSize /\ Cardinality(Busy') <= opened'
  BY <1>2, BusyIsFinite, ServerAssumption DEF ServerTypeOK, Connect, Idle
<1> QED
  BY <1>1, <1>3 DEF ServerTypeOK, Connect, Phases

LEMMA RespondStep ==
    ASSUME ServerTypeOK, NEW c \in Clients, Respond(c)
    PROVE  ServerTypeOK'
<1>1. NoAnswer \in Replies
  BY ErrorType DEF NoAnswer
<1>2. Busy' \subseteq Busy
  BY DEF Respond, Busy, ServerTypeOK
<1>3. Cardinality(Busy') <= opened
  BY <1>2, NoMoreBusy, BusyIsFinite DEF ServerTypeOK
<1> QED
  BY <1>1, <1>3 DEF ServerTypeOK, Respond, Phases

LEMMA CloseIdleStep ==
    ASSUME ServerTypeOK, CloseIdle
    PROVE  ServerTypeOK'
<1>1. opened' \in 0 .. PoolSize /\ Cardinality(Busy) <= opened'
  BY BusyIsFinite, ServerAssumption DEF ServerTypeOK, CloseIdle, Idle
<1> QED
  BY <1>1 DEF ServerTypeOK, CloseIdle, Busy

LEMMA LoseDatabaseStep ==
    ASSUME ServerTypeOK, LoseDatabase
    PROVE  ServerTypeOK'
<1>1. Busy' = {}
  BY DEF LoseDatabase, Busy
<1>2. Cardinality(Busy') = 0 /\ opened' \in 0 .. PoolSize /\ opened' = 0
  BY <1>1, FS_EmptySet, ServerAssumption DEF LoseDatabase
<1>3. NoAnswer \in Replies
  BY ErrorType DEF NoAnswer
<1>4. answer' \in [Clients -> Replies]
  BY <1>3, FailureType DEF LoseDatabase, ServerTypeOK
<1>5. failures' \in 0 .. MaxFailures
  BY ServerAssumption DEF LoseDatabase, ServerTypeOK
<1>6. /\ server' \in Servers
      /\ request' \in [Clients -> Requests \cup {None}]
      /\ phase' \in [Clients -> Phases]
      /\ \A c \in Clients : phase'[c] \in {"waiting", "querying"} => request'[c] \in Requests
  BY DEF LoseDatabase, ServerTypeOK, Servers, Exited, Phases
<1> QED
  BY <1>2, <1>4, <1>5, <1>6 DEF ServerTypeOK

-----------------------------------------------------------------------------
(* The inductive invariant: the server's types, the tables the indexer     *)
(* moves underneath it, and no busy client once the pool may go.           *)
IInv == TypeOK /\ TablesAgree /\ PoolOutlivesItsRequests

LEMMA TypeOKParts == TypeOK <=> StoreTypeOK /\ ServerTypeOK
  BY DEF TypeOK, ServerTypeOK

LEMMA Initially == Init => IInv
<1> SUFFICES ASSUME Init PROVE IInv
  OBVIOUS
<1>1. StoreTypeOK
  BY DEF Init, StoreInit, StoreTypeOK, RowStates
<1>2. NoAnswer \in Replies
  BY ErrorType DEF NoAnswer
<1>3. Busy = {} /\ Cardinality({}) = 0
  BY FS_EmptySet DEF Init, Busy
<1>4. ServerTypeOK
  BY <1>2, <1>3, ServerAssumption DEF Init, ServerTypeOK, Servers, Phases
<1> QED
  BY <1>1, <1>4, TypeOKParts, TablesAgreeInitially DEF IInv, Init, PoolOutlivesItsRequests

LEMMA PoolStep == TypeOK /\ PoolOutlivesItsRequests /\ [Next]_vars => PoolOutlivesItsRequests'
<1> SUFFICES ASSUME TypeOK, PoolOutlivesItsRequests, [Next]_vars
             PROVE  PoolOutlivesItsRequests'
  OBVIOUS
<1> USE DEF PoolOutlivesItsRequests
<1>1. CASE WriteCache
  BY <1>1 DEF WriteCache, apiVars
<1>2. CASE Listen \/ HandleShutdown \/ CloseApp \/ DestroyDb \/ CloseIdle
  BY <1>2 DEF Listen, HandleShutdown, CloseApp, DestroyDb, CloseIdle
<1>3. CASE LoseDatabase
  BY <1>3 DEF LoseDatabase, Busy, TypeOK
<1>4. ASSUME NEW c \in Clients, Ask(c) \/ Serve(c) \/ ConnectFails(c)
      PROVE  PoolOutlivesItsRequests'
  <2>1. server' = server /\ server \notin {"destroying", "clean"}
    BY <1>4 DEF Ask, Serve, Connect, TimeOut, Query, Respond, ConnectFails
  <2> QED
    BY <2>1
<1>5. CASE UNCHANGED vars
  BY <1>5 DEF vars, apiVars
<1> QED
  BY <1>1, <1>2, <1>3, <1>4, <1>5 DEF Next

LEMMA Step == IInv /\ [Next]_vars => IInv'
<1> SUFFICES ASSUME IInv, [Next]_vars PROVE IInv'
  OBVIOUS
<1>0. StoreTypeOK /\ ServerTypeOK /\ TablesAgree
  BY TypeOKParts DEF IInv
<1>c. ASSUME UNCHANGED storeVars PROVE StoreTypeOK' /\ TablesAgree'
  BY <1>0, <1>c, TablesAgreeUnlessWritten DEF storeVars, StoreTypeOK
<1>p. PoolOutlivesItsRequests'
  BY PoolStep DEF IInv
<1> SUFFICES StoreTypeOK' /\ TablesAgree' /\ ServerTypeOK'
  BY <1>p DEF IInv, TypeOK, ServerTypeOK
<1>1. CASE WriteCache
  BY <1>0, <1>1, IndexerKeepsTheTables, UnchangedServer DEF WriteCache, apiVars, ServerTypeOK
<1>2. CASE Listen \/ HandleShutdown \/ CloseApp
  BY <1>0, <1>2, <1>c, UnchangedServer
  DEF Listen, HandleShutdown, CloseApp, Servers, Exited
<1>3. CASE DestroyDb
  <2>1. Busy' = {} /\ Cardinality({}) = 0
    BY <1>3, FS_EmptySet DEF IInv, PoolOutlivesItsRequests, DestroyDb, Busy
  <2>2. ServerTypeOK'
    BY <1>0, <1>3, <2>1, ServerAssumption DEF DestroyDb, ServerTypeOK, Servers, Exited
  <2> QED
    BY <1>3, <1>c, <2>2 DEF DestroyDb
<1>4. CASE CloseIdle
  BY <1>0, <1>4, <1>c, CloseIdleStep DEF CloseIdle
<1>5. CASE LoseDatabase
  BY <1>0, <1>5, <1>c, LoseDatabaseStep DEF LoseDatabase
<1>6. ASSUME NEW c \in Clients, TimeOut(c) \/ ConnectFails(c) PROVE ServerTypeOK'
  <2>1. Answer(c, Failure(request[c])) /\ UNCHANGED <<server, opened, request>>
    BY <1>6 DEF TimeOut, ConnectFails
  <2>2. failures' \in 0 .. MaxFailures
    BY <1>0, <1>6, ServerAssumption DEF TimeOut, ConnectFails, ServerTypeOK
  <2> QED
    BY <1>0, <2>1, <2>2, FailureType, AnAnswer
<1>7. ASSUME NEW c \in Clients, Query(c) PROVE ServerTypeOK'
  <2>1. PICK rows \in Rows(request[c]) : Answer(c, Found(request[c], rows))
    BY <1>7 DEF Query
  <2>2. request[c].route \in Routes
    BY <1>0, <1>7, ServerAssumption DEF Query, ServerTypeOK
  <2>3. Found(request[c], rows) \in Replies
    BY <1>0, <2>2, QueryType
  <2>4. UNCHANGED <<server, opened, request>> /\ failures' \in 0 .. MaxFailures
    BY <1>0, <1>7 DEF Query, ServerTypeOK
  <2> QED
    BY <1>0, <2>1, <2>3, <2>4, AnAnswer
<1>8. CASE \E c \in Clients : Ask(c) \/ Serve(c) \/ ConnectFails(c)
  <2>1. UNCHANGED storeVars
    BY <1>8 DEF Ask, Serve, Connect, TimeOut, Query, Respond, ConnectFails
  <2>2. ServerTypeOK'
    BY <1>0, <1>6, <1>7, <1>8, AskStep, ConnectStep, RespondStep DEF Serve
  <2> QED
    BY <1>c, <2>1, <2>2
<1>9. CASE UNCHANGED vars
  BY <1>0, <1>9, <1>c, UnchangedServer DEF vars, apiVars, ServerTypeOK
<1> QED
  BY <1>1, <1>2, <1>3, <1>4, <1>5, <1>8, <1>9 DEF Next

LEMMA Invariant == Spec => []IInv
  BY Initially, Step, PTL DEF Spec

(* Every variable keeps its type; in particular the pool never holds more  *)
(* than PoolSize connections nor lends one twice.                          *)
THEOREM ApiTypeCorrect == Spec => []TypeOK
<1>1. IInv => TypeOK
  BY DEF IInv
<1> QED
  BY <1>1, Invariant, PTL

(* The pool is not destroyed under a request. *)
THEOREM PoolIsDestroyedLast == Spec => []PoolOutlivesItsRequests
<1>1. IInv => PoolOutlivesItsRequests
  BY DEF IInv
<1> QED
  BY <1>1, Invariant, PTL

-----------------------------------------------------------------------------
(* What an answer says, against what the documentation promises.  The      *)
(* cases in which the code does not keep the promise, an address that is   *)
(* not spelt in lower case and a block asked for by its number or hash,    *)
(* are excluded by name.                                                   *)

Items(rows) == {r.item : r \in rows}

AsksAsStored ==
    \A q \in Requests :
        Valid(q) => q.spelling = "lower" /\ q.route \notin {"number", "hash"}

LEMMA PromisedOfRoute ==
    ASSUME NEW q
    PROVE  /\ q.route = "health"   => Promised(q) = {}
           /\ q.route = "latest"   => Promised(q) = LatestCanonicalRows
           /\ q.route = "deposit"  => Promised(q) = Recorded("deposit") \cap {q.key}
           /\ q.route = "deposits" =>
                Promised(q) = {e \in Recorded("deposit") : q.key \in UsersOf[e]}
           /\ q.route = "trades"   =>
                Promised(q) = {e \in Recorded("trade") : q.key \in UsersOf[e]}
           /\ q.route = "token"    => Promised(q) = KnownTokens \cap {q.key}
  BY Zenon DEF Promised

(* The join on block_metadata shows the records of the canonical blocks. *)
LEMMA RecordedAreVisible ==
    ASSUME ReadsShowTheCanonicalBlocks, NEW kind
    PROVE  Recorded(kind) = {e \in VisibleEvents : Kind[e] = kind}
<1>1. VisibleEvents \subseteq Events
  BY DEF VisibleEvents
<1> QED
  BY <1>1 DEF Recorded, ReadsShowTheCanonicalBlocks

LEMMA LatestRow ==
    ASSUME NEW q, q.route = "latest", NEW rows \in Rows(q)
    PROVE  /\ rows = {} => Promised(q) = {}
           /\ rows # {} => \E b \in Promised(q) : Items(rows) = {b}
<1>1. Promised(q) = LatestCanonicalRows
  BY PromisedOfRoute
<1>2. rows \in TakeFirst({BlockRow(b) : b \in LatestCanonicalRows})
  BY RowsOfRoute DEF GetLatestCanonicalBlock
<1>3. CASE LatestCanonicalRows = {}
  BY <1>1, <1>2, <1>3 DEF TakeFirst
<1>4. CASE LatestCanonicalRows # {}
  <2>1. PICK b \in LatestCanonicalRows : rows = {BlockRow(b)}
    BY <1>2, <1>4 DEF TakeFirst
  <2>2. Items(rows) = {b}
    BY <2>1 DEF Items, BlockRow
  <2> QED
    BY <1>1, <2>1, <2>2
<1> QED
  BY <1>3, <1>4

(* A lookup by key finds at most one row. *)
LEMMA OneRowByKey ==
    ASSUME NEW S, NEW k, NEW row, row.item = k,
           NEW rows \in TakeFirst(IF k \in S THEN {row} ELSE {})
    PROVE  Items(rows) = S \cap {k}
<1>1. CASE k \in S
  <2>1. rows = {row}
    BY <1>1 DEF TakeFirst
  <2> QED
    BY <1>1, <2>1 DEF Items
<1>2. CASE k \notin S
  BY <1>2 DEF TakeFirst, Items
<1> QED
  BY <1>1, <1>2

LEMMA OtherRows ==
    ASSUME ReadsShowTheCanonicalBlocks,
           NEW q, q.route \in Routes \ {"latest", "number", "hash"}, q.spelling = "lower",
           NEW rows \in Rows(q)
    PROVE  Items(rows) = Promised(q)
<1>1. CASE q.route = "health"
  BY <1>1, RowsOfRoute, PromisedOfRoute DEF Items
<1>2. CASE q.route = "deposit"
  <2>1. rows \in TakeFirst(IF q.key \in Recorded("deposit") THEN {FactRow(q.key)} ELSE {})
    BY <1>2, RowsOfRoute, RecordedAreVisible DEF GetDeposit, Equals
  <2>2. FactRow(q.key).item = q.key
    BY DEF FactRow
  <2>3. \A S : rows \in TakeFirst(IF q.key \in S THEN {FactRow(q.key)} ELSE {})
                  => Items(rows) = S \cap {q.key}
    BY <2>2, OneRowByKey
  <2> QED
    BY <1>2, <2>1, <2>3, PromisedOfRoute
<1>3. ASSUME NEW kind, q.spelling = "lower", rows \in ListByUser(q, kind)
      PROVE  Items(rows) = {e \in Recorded(kind) : q.key \in UsersOf[e]}
  <2>1. rows = {FactRow(e) : e \in {f \in Recorded(kind) : q.key \in UsersOf[f]}}
    BY <1>3, RecordedAreVisible DEF ListByUser, Equals
  <2>2. \A e : FactRow(e).item = e
    BY DEF FactRow
  <2>3. Items(rows) = {FactRow(e).item : e \in {f \in Recorded(kind) : q.key \in UsersOf[f]}}
    BY <2>1 DEF Items
  <2> QED
    BY <2>2, <2>3
<1>4. CASE q.route = "deposits"
  BY <1>3, <1>4, RowsOfRoute, PromisedOfRoute
<1>5. CASE q.route = "trades"
  BY <1>3, <1>5, RowsOfRoute, PromisedOfRoute
<1>6. CASE q.route = "token"
  <2>1. rows \in TakeFirst(IF q.key \in KnownTokens THEN {TokenRow(q.key)} ELSE {})
    BY <1>6, RowsOfRoute DEF GetTokenMetadata, Equals
  <2>2. TokenRow(q.key).item = q.key
    BY DEF TokenRow
  <2>3. Items(rows) = KnownTokens \cap {q.key}
    BY <2>1, <2>2, OneRowByKey
  <2> QED
    BY <1>6, <2>3, PromisedOfRoute
<1> QED
  BY <1>1, <1>2, <1>4, <1>5, <1>6 DEF Routes

-----------------------------------------------------------------------------
(* Only a query answers with 200 or 404, and it answers a valid request.   *)

QueriesAreValid ==
    \A c \in Clients : phase[c] \in {"waiting", "querying"} =>
                          request[c] \in Requests /\ Valid(request[c])

LEMMA ValidInitially == Init => QueriesAreValid
  BY DEF Init, QueriesAreValid

LEMMA ValidStep == TypeOK /\ QueriesAreValid /\ [Next]_vars => QueriesAreValid'
<1> SUFFICES ASSUME TypeOK, QueriesAreValid, [Next]_vars PROVE QueriesAreValid'
  OBVIOUS
<1> USE DEF QueriesAreValid
<1>0. phase \in [Clients -> Phases] /\ request \in [Clients -> Requests \cup {None}]
  BY DEF TypeOK
<1>1. CASE UNCHANGED <<request, phase>>
  BY <1>1
<1>2. CASE LoseDatabase
  BY <1>0, <1>2 DEF LoseDatabase, Busy
<1>3. ASSUME NEW c \in Clients, Ask(c) PROVE QueriesAreValid'
  BY <1>0, <1>3 DEF Ask, Answer
<1>4. ASSUME NEW c \in Clients, Serve(c) \/ ConnectFails(c) PROVE QueriesAreValid'
  BY <1>0, <1>4 DEF Serve, Connect, TimeOut, Query, Respond, ConnectFails, Answer
<1> QED
  BY <1>1, <1>2, <1>3, <1>4
  DEF Next, WriteCache, Listen, HandleShutdown, CloseApp,
      DestroyDb, CloseIdle, vars, apiVars

LEMMA QueriesAnswerTruly ==
    ASSUME AsksAsStored, ReadsShowTheCanonicalBlocks,
           NEW q \in Requests, Valid(q), NEW rows \in Rows(q)
    PROVE  TrueOf(Items(Found(q, rows).rows), q)
<1>1. q.route \in Routes \ {"number", "hash"} /\ q.spelling = "lower"
  BY ServerAssumption DEF AsksAsStored
<1>2. Found(q, rows).rows = rows
  BY DEF Found, Reply
<1>3. CASE q.route = "latest"
  <2>1. Items({}) = {}
    BY DEF Items
  <2> QED
    BY <1>2, <1>3, <2>1, LatestRow DEF TrueOf
<1>4. CASE q.route # "latest"
  BY <1>1, <1>2, <1>4, OtherRows DEF TrueOf
<1> QED
  BY <1>3, <1>4

LEMMA TrueStep ==
    ASSUME AsksAsStored, ReadsShowTheCanonicalBlocks, TypeOK, QueriesAreValid,
           [Next]_vars, NEW c \in Clients,
           answer'[c] # answer[c], answer'[c].status \in {200, 404}
    PROVE  TrueOf(Items(answer'[c].rows), request[c])
<1>0. answer \in [Clients -> Replies]
  BY DEF TypeOK
<1>1. CASE UNCHANGED answer
  BY <1>1
<1>2. \A q : Failure(q).status \notin {200, 404}
  BY DEF Failure, Reply
<1>3. NoAnswer.status \notin {200, 404} /\ Reply(400, {}).status \notin {200, 404}
  BY DEF NoAnswer, Reply
<1>4. CASE LoseDatabase
  BY <1>0, <1>2, <1>3, <1>4 DEF LoseDatabase
<1>5. ASSUME NEW d \in Clients, Ask(d) \/ Respond(d) \/ TimeOut(d) \/ ConnectFails(d)
      PROVE  FALSE
  BY <1>0, <1>2, <1>3, <1>5 DEF Ask, Respond, TimeOut, ConnectFails, Answer
<1>6. ASSUME NEW d \in Clients, Query(d)
      PROVE  TrueOf(Items(answer'[c].rows), request[c])
  <2>1. PICK rows \in Rows(request[d]) : answer' = [answer EXCEPT ![d] = Found(request[d], rows)]
    BY <1>6 DEF Query, Answer
  <2>2. d = c /\ answer'[c] = Found(request[c], rows)
    BY <1>0, <2>1
  <2>3. request[c] \in Requests /\ Valid(request[c])
    BY <1>6, <2>2 DEF Query, QueriesAreValid
  <2> QED
    BY <2>1, <2>2, <2>3, QueriesAnswerTruly
<1> QED
  BY <1>1, <1>4, <1>5, <1>6
  DEF Next, WriteCache, Listen, HandleShutdown, CloseApp,
      DestroyDb, CloseIdle, Serve, Connect, vars, apiVars

(* The records of every stored block are read through the join, whatever   *)
(* the indexer writes, as long as no transaction is included twice.        *)
LEMMA FactsStep ==
    ASSUME NothingIsReincluded, IInv, StoredBlocksHaveFacts, [Next]_vars
    PROVE  StoredBlocksHaveFacts'
<1>1. CASE WriteCache
  BY <1>1, IndexerKeepsTheFacts DEF WriteCache, IInv, TypeOK
<1>2. CASE UNCHANGED storeVars
  BY <1>2 DEF storeVars, StoredBlocksHaveFacts
<1> QED
  BY <1>1, <1>2
  DEF Next, Listen, HandleShutdown, CloseApp, DestroyDb, CloseIdle, LoseDatabase, Ask,
      Serve, Connect, TimeOut, Query, Respond, ConnectFails, vars

(* While batches of whatever fork are inserted and rewound to whatever     *)
(* height, each answer shows exactly what the documentation promises of    *)
(* the blocks that are canonical at that moment: if no transaction is in   *)
(* two blocks, if keys are spelt as the cache spells them, and if nobody   *)
(* asks for a given block, the one route that shows orphaned rows.         *)
THEOREM AnswersAreTrueAsStored ==
    ASSUME NothingIsReincluded, AsksAsStored PROVE Spec => AnswersAreTrue
<1>1. Init => StoredBlocksHaveFacts
  BY DEF Init, StoreInit, StoredBlocksHaveFacts
<1>2. IInv /\ StoredBlocksHaveFacts /\ [Next]_vars => StoredBlocksHaveFacts'
  BY FactsStep
<1>3. IInv /\ StoredBlocksHaveFacts => ReadsShowTheCanonicalBlocks
  BY ReadsFollow DEF IInv, TypeOK, TablesAgree
<1>4. IInv /\ QueriesAreValid /\ [Next]_vars => QueriesAreValid'
  BY ValidStep DEF IInv
<1>5. IInv /\ ReadsShowTheCanonicalBlocks /\ QueriesAreValid /\ [Next]_vars
        => [\A c \in Clients :
              answer'[c] # answer[c] /\ answer'[c].status \in {200, 404} =>
                 TrueOf(Shown(c)', request[c])]_vars
  BY TrueStep DEF IInv, Shown, Items
<1> QED
  BY <1>1, <1>2, <1>3, <1>4, <1>5, Invariant, ValidInitially, PTL DEF Spec, AnswersAreTrue

=============================================================================
