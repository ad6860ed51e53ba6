------------------------------ MODULE ApiServer ------------------------------
(***************************************************************************)
(* The API process (apps/api): its start and shutdown, the requests of     *)
(* its clients, the connection pool of packages/database they share, and   *)
(* the indexer that moves the cache underneath them, by any of the writes  *)
(* of IndexerWrites at any moment.                                         *)
(***************************************************************************)
EXTENDS ReadQueries, IndexerWrites, FiniteSets

CONSTANTS
    Clients,       \* the connections of clients, one request at a time each
    Requests,      \* the requests they make
    PoolSize,      \* Pool({max})
    MaxFailures    \* bound on the losses of the database in a behaviour

ASSUME ServerAssumption ==
    /\ IsFiniteSet(Clients)
    /\ \A r \in Requests : r.route \in Routes
    /\ PoolSize \in Nat \ {0}
    /\ MaxFailures \in Nat

VARIABLES
    server,        \* the state of the process
    opened,        \* the open connections of the pool
    request,       \* request[c]: what client c asked
    phase,         \* phase[c]: where its request is
    answer,        \* answer[c]: what it was answered
    failures       \* losses of the database so far

apiVars == <<server, opened, request, phase, answer, failures>>
vars == <<storeVars, apiVars>>

Exited   == {"clean", "killed", "crashed", "failed"}
Servers  == {"starting", "listening", "closing", "destroying"} \cup Exited
Phases   == {"idle", "waiting", "querying", "answered"}
NoAnswer == Reply(0, {})

RowValues ==
    [item : Blocks \cup Events \cup KnownTokens, block : Blocks \cup {None},
     isCanonical : BOOLEAN]

Replies == [status : {0, 200, 400, 404, 500, 503}, rows : SUBSET RowValues]

Busy == {c \in Clients : phase[c] = "querying"}
Idle == opened - Cardinality(Busy)

TypeOK ==
    /\ StoreTypeOK
    /\ server \in Servers
    /\ opened \in 0 .. PoolSize
    /\ Cardinality(Busy) <= opened
    /\ request \in [Clients -> Requests \cup {None}]
    /\ phase \in [Clients -> Phases]
    /\ answer \in [Clients -> Replies]
    /\ \A c \in Clients : phase[c] \in {"waiting", "querying"} => request[c] \in Requests
    /\ failures \in 0 .. MaxFailures

Init ==
    /\ StoreInit
    /\ server = "starting"
    /\ opened = 0
    /\ request = [c \in Clients |-> None]
    /\ phase = [c \in Clients |-> "idle"]
    /\ answer = [c \in Clients |-> NoAnswer]
    /\ failures = 0

-----------------------------------------------------------------------------
(* The indexer, a process of its own. *)
WriteCache ==
    /\ IndexBatch \/ IndexRecovery
    /\ UNCHANGED apiVars

-----------------------------------------------------------------------------
(* The process. *)

(* app.listen resolves, and the signal handlers are installed; or rejects, *)
(* and the process exits with 1.                                           *)
Listen ==
    /\ server = "starting"
    /\ server' \in {"listening", "failed"}
    /\ UNCHANGED <<storeVars, opened, request, phase, answer, failures>>

(* SIGINT or SIGTERM: before the handlers are there it kills the process,  *)
(* once isShuttingDown is set it does nothing.                             *)
HandleShutdown ==
    /\ \/ server = "starting" /\ server' = "killed"
       \/ server = "listening" /\ server' = "closing"
    /\ UNCHANGED <<storeVars, opened, request, phase, answer, failures>>

\* Mutant: db.destroy() does not wait for app.close().
CloseApp_NoWait ==
    /\ server = "closing"
    /\ server' = "destroying"
    /\ UNCHANGED <<storeVars, opened, request, phase, answer, failures>>

(* await app.close(): every request in flight has its answer. *)
CloseApp ==
    /\ server = "closing"
    /\ \A c \in Clients : phase[c] = "idle"
    /\ server' = "destroying"
    /\ UNCHANGED <<storeVars, opened, request, phase, answer, failures>>

\* Mutant: process.exit is not called, and idle connections keep the process.
DestroyDb_NoExit ==
    /\ server = "destroying"
    /\ opened = 0
    /\ server' = "clean"
    /\ UNCHANGED <<storeVars, opened, request, phase, answer, failures>>

(* await db.destroy(), then process.exit(0); an error exits with 1. *)
DestroyDb ==
    /\ server = "destroying"
    /\ server' \in {"clean", "failed"}
    /\ opened' = 0
    /\ UNCHANGED <<storeVars, request, phase, answer, failures>>

-----------------------------------------------------------------------------
(* Requests. *)

Answer(c, reply) ==
    /\ phase' = [phase EXCEPT ![c] = "answered"]
    /\ answer' = [answer EXCEPT ![c] = reply]

(* Requests arrive while the server listens; an invalid one is refused at *)
(* once, a valid one asks the pool for a connection.                      *)
Ask(c) ==
    /\ server = "listening"
    /\ phase[c] = "idle"
    /\ \E r \in Requests :
          /\ request' = [request EXCEPT ![c] = r]
          /\ \/ ~Valid(r) /\ Answer(c, Reply(400, {}))
             \/ Valid(r) /\ phase' = [phase EXCEPT ![c] = "waiting"] /\ UNCHANGED answer
    /\ UNCHANGED <<storeVars, server, opened, failures>>

\* Mutant: the pool opens a connection whenever it is asked for one.
Connect_Unbounded(c) ==
    /\ phase[c] = "waiting"
    /\ opened' = opened + 1
    /\ phase' = [phase EXCEPT ![c] = "querying"]
    /\ UNCHANGED <<storeVars, server, request, answer, failures>>

(* The pool hands out an idle connection, or opens one below its limit. *)
Connect(c) ==
    /\ phase[c] = "waiting"
    /\ Idle > 0 \/ opened < PoolSize
    /\ opened' = IF Idle > 0 THEN opened ELSE opened + 1
    /\ phase' = [phase EXCEPT ![c] = "querying"]
    /\ UNCHANGED <<storeVars, server, request, answer, failures>>

\* Mutant: the pool has no connectionTimeoutMillis.
TimeOut_Never(c) == FALSE /\ UNCHANGED vars

(* connectionTimeoutMillis: all connections are busy for too long. *)
TimeOut(c) ==
    /\ phase[c] = "waiting"
    /\ Idle = 0 /\ opened = PoolSize
    /\ Answer(c, Failure(request[c]))
    /\ UNCHANGED <<storeVars, server, opened, request, failures>>

(* The database cannot be reached, or refuses the connection. *)
ConnectFails(c) ==
    /\ phase[c] = "waiting"
    /\ failures < MaxFailures
    /\ failures' = failures + 1
    /\ Answer(c, Failure(request[c]))
    /\ UNCHANGED <<storeVars, server, opened, request>>

(* The query reads its snapshot and the connection goes back to the pool. *)
Query(c) ==
    /\ phase[c] = "querying"
    /\ \E rows \in Rows(request[c]) : Answer(c, Found(request[c], rows))
    /\ UNCHANGED <<storeVars, server, opened, request, failures>>

(* The client has its answer. *)
Respond(c) ==
    /\ phase[c] = "answered"
    /\ phase' = [phase EXCEPT ![c] = "idle"]
    /\ request' = [request EXCEPT ![c] = None]
    /\ answer' = [answer EXCEPT ![c] = NoAnswer]
    /\ UNCHANGED <<storeVars, server, opened, failures>>

(* idleTimeoutMillis: the pool closes a connection nobody uses. *)
CloseIdle ==
    /\ server \notin Exited
    /\ Idle > 0
    /\ opened' = opened - 1
    /\ UNCHANGED <<storeVars, server, request, phase, answer, failures>>

(* The connections to the database break.  The queries on them throw; an  *)
(* idle one makes the pool emit an `error` nobody listens to, and that    *)
(* ends the process with the requests in it.                              *)
LoseDatabase ==
    /\ server \notin Exited
    /\ failures < MaxFailures
    /\ opened > 0
    /\ failures' = failures + 1
    /\ opened' = 0
    /\ \/ /\ Idle > 0
          /\ server' = "crashed"
          /\ phase' = [c \in Clients |-> "idle"]
          /\ request' = [c \in Clients |-> None]
          /\ answer' = [c \in Clients |-> NoAnswer]
       \/ /\ Idle = 0
          /\ phase' = [c \in Clients |-> IF c \in Busy THEN "answered" ELSE phase[c]]
          /\ answer' = [c \in Clients |-> IF c \in Busy THEN Failure(request[c]) ELSE answer[c]]
          /\ UNCHANGED <<server, request>>
    /\ UNCHANGED storeVars

Serve(c) == Connect(c) \/ TimeOut(c) \/ Query(c) \/ Respond(c)

Next ==
    \/ WriteCache
    \/ Listen \/ HandleShutdown \/ CloseApp \/ DestroyDb
    \/ CloseIdle \/ LoseDatabase
    \/ \E c \in Clients : Ask(c) \/ Serve(c) \/ ConnectFails(c)

Spec == Init /\ [][Next]_vars

(* The event loop runs whatever it can, the pool answers or times out, the *)
(* database answers or fails.  Clients, signals, failures and the indexer  *)
(* may stay away.                                                          *)
FairSpec ==
    /\ Spec
    /\ WF_vars(Listen) /\ WF_vars(CloseApp) /\ WF_vars(DestroyDb)
    /\ \A c \in Clients : WF_vars(Serve(c))

-----------------------------------------------------------------------------
(* Safety. *)

(* An answer of 200 or 404 shows exactly what the documentation promises   *)
(* at the moment it was read, while batches are inserted and rewound under *)
(* the question: all that is canonical and nothing that was orphaned       *)
(* (docs/query-layer.md:11, docs/http-api.md:21-35).  Of several highest   *)
(* blocks the latest is one.                                               *)
Shown(c) == {r.item : r \in answer[c].rows}

TrueOf(shown, q) ==
    IF q.route = "latest" /\ Promised(q) # {}
    THEN \E b \in Promised(q) : shown = {b}
    ELSE shown = Promised(q)

AnswersAreTrue ==
    [][\A c \in Clients :
          answer'[c] # answer[c] /\ answer'[c].status \in {200, 404} =>
             TrueOf(Shown(c)', request[c])]_vars

(* The pool is destroyed only when no request needs it any more            *)
(* (index.ts:61-66).                                                       *)
PoolOutlivesItsRequests ==
    server \in {"destroying", "clean"} => \A c \in Clients : phase[c] = "idle"

(* Liveness, under FairSpec. *)

(* A request that was accepted is answered, with an error at worst,        *)
(* shutdown or not; unless the process dies of a broken idle connection.   *)
AcceptedRequestsAreAnswered ==
    \A c \in Clients : (phase[c] = "waiting") ~> (phase[c] = "answered" \/ server = "crashed")

(* A signal ends the process, however many requests are in flight. *)
SignalEndsTheProcess == (server = "closing") ~> (server \in Exited)
=============================================================================
