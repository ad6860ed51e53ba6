----------------------------- MODULE ReadQueries -----------------------------
(***************************************************************************)
(* The query layer of packages/query and the validation in front of it:    *)
(* what each route of the API answers from one snapshot of the cache.  A   *)
(* request names its route, a key and how the key is spelt: "lower" as the *)
(* cache stores it, "checksum" in the mixed case of EIP-55, or "malformed".*)
(* An answer is a status and the rows of its body; the order of a list is  *)
(* left out.                                                               *)
(***************************************************************************)
EXTENDS IndexerStore

CONSTANTS
    Kind,          \* Kind[e]: "deposit" or "trade", the table event e lies in
    UsersOf,       \* UsersOf[e]: user_address, or {user_0, user_1}
    KnownTokens    \* the tokens with a row in token_metadata

ASSUME KindAssumption == Kind \in [Events -> {"deposit", "trade"}]

Routes == {"health", "latest", "number", "hash", "deposit", "deposits", "trades", "token"}

(* The conditions of the routes: no route takes block number 0. *)
Valid(request) ==
    \/ request.route \in {"health", "latest"}
    \/ /\ request.spelling # "malformed"
       /\ request.route = "number" => request.key > 0

-----------------------------------------------------------------------------
(* The rows of the tables. *)
BlockRow(b) == [item |-> b, block |-> b, isCanonical |-> metadata[b] = "canonical"]
FactRow(e)  == [item |-> e, block |-> facts[e], isCanonical |-> TRUE]
TokenRow(t) == [item |-> t, block |-> None, isCanonical |-> TRUE]

StoredBlocks == {b \in Blocks : metadata[b] # "absent"}

(* executeTakeFirst: any one of the rows, none if there is none. *)
TakeFirst(rows) == IF rows = {} THEN {{}} ELSE {{r} : r \in rows}

(* `column = value`: the stored spelling is lower case. *)
Equals(request, value) == request.spelling = "lower" /\ request.key = value

GetBlockByNumber(request) ==
    TakeFirst({BlockRow(b) : b \in {c \in StoredBlocks : Number[c] = request.key}})

GetBlockByHash(request) ==
    TakeFirst({BlockRow(b) : b \in {c \in StoredBlocks : Equals(request, c)}})

GetLatestCanonicalBlock == TakeFirst({BlockRow(b) : b \in LatestCanonicalRows})

(* The fact queries join the canonical block of the fact. *)
GetDeposit(request) ==
    TakeFirst({FactRow(e) : e \in {f \in VisibleEvents :
                                      Kind[f] = "deposit" /\ Equals(request, f)}})

\* Mutant: the list is not joined with block_metadata.
ListByUser_Unjoined(request, kind) ==
    {{FactRow(e) : e \in {f \in Events : /\ facts[f] # None /\ Kind[f] = kind
                                         /\ \E u \in UsersOf[f] : Equals(request, u)}}}

ListByUser(request, kind) ==
    {{FactRow(e) : e \in {f \in VisibleEvents : /\ Kind[f] = kind
                                                /\ \E u \in UsersOf[f] : Equals(request, u)}}}

GetTokenMetadata(request) ==
    TakeFirst({TokenRow(t) : t \in {s \in KnownTokens : Equals(request, s)}})

(* The sets of rows a query may return. *)
Rows(request) ==
    CASE request.route = "health"   -> {{}}
      [] request.route = "latest"   -> GetLatestCanonicalBlock
      [] request.route = "number"   -> GetBlockByNumber(request)
      [] request.route = "hash"     -> GetBlockByHash(request)
      [] request.route = "deposit"  -> GetDeposit(request)
      [] request.route = "deposits" -> ListByUser(request, "deposit")
      [] request.route = "trades"   -> ListByUser(request, "trade")
      [] request.route = "token"    -> GetTokenMetadata(request)

Reply(status, rows) == [status |-> status, rows |-> rows]

(* A single entity that is not there is 404; an empty list is a list. *)
Found(request, rows) ==
    IF rows = {} /\ request.route \notin {"health", "deposits", "trades"}
    THEN Reply(404, {}) ELSE Reply(200, rows)

(* A query that throws: the health route has its own answer. *)
Failure(request) == Reply(IF request.route = "health" THEN 503 ELSE 500, {})

-----------------------------------------------------------------------------
(* What the documentation promises of each answer, from the blocks the    *)
(* cache counts as canonical and the records the chain has in them: every  *)
(* route shows what is canonical, orphaned blocks are filtered out         *)
(* (docs/query-layer.md:11), a list holds all records of the account       *)
(* (docs/http-api.md:27-31), and an address or a hash means its value,     *)
(* however it is spelt.                                                    *)
Recorded(kind) == {e \in Events : Kind[e] = kind /\ \E b \in CanonicalRows : e \in Records[b]}

Promised(request) ==
    CASE request.route = "latest"   -> LatestCanonicalRows
      [] request.route = "number"   -> CanonicalRowsAt(request.key)
      [] request.route = "hash"     -> CanonicalRows \cap {request.key}
      [] request.route = "deposit"  -> Recorded("deposit") \cap {request.key}
      [] request.route = "deposits" -> {e \in Recorded("deposit") : request.key \in UsersOf[e]}
      [] request.route = "trades"   -> {e \in Recorded("trade") : request.key \in UsersOf[e]}
      [] request.route = "token"    -> KnownTokens \cap {request.key}
      [] OTHER                      -> {}
=============================================================================
