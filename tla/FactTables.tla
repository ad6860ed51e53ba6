------------------------------ MODULE FactTables ------------------------------
(***************************************************************************)
(* The raw_* tables of the cache and KyselyRecordRepository.saveRecords,   *)
(* which inserts the records of one batch inside the batch's transaction.  *)
(* A row is the record it was made of; the table is its recordType.        *)
(***************************************************************************)
EXTENDS EventDecoding, Sequences

CONSTANT Columns     \* Columns[t]: the columns table t has in the database

VARIABLE tables      \* the rows of all tables

(* saveRecords inserts table by table. *)
InsertOrder == <<"deposit", "withdrawal", "trade", "order_fill", "swap">>

-----------------------------------------------------------------------------
(* Columns. *)
LogColumns == {"tx_hash", "log_index", "chain_id", "block_number", "block_hash",
               "block_timestamp", "transaction_index", "raw_topics", "raw_data"}

TransferColumns == LogColumns \cup {"user_address", "token_address", "amount"}

TradeColumns ==
    LogColumns \cup {"order_hash_0", "user_0", "token_0", "amount_0", "protocol_take_0",
                     "order_hash_1", "user_1", "token_1", "amount_1", "protocol_take_1"}

SwapColumns == LogColumns \cup {"intent_hash", "taker_address", "leg_count"}

FillColumns == {"fill_id", "tx_hash", "log_index", "chain_id", "block_number",
                "order_hash", "trade_id", "amount_filled", "block_timestamp"}

(* What the migrations create. *)
MigratedColumns ==
    [deposit    |-> TransferColumns,
     withdrawal |-> TransferColumns \cup {"withdrawal_type", "request_block"},
     trade      |-> TradeColumns,
     order_fill |-> FillColumns,
     swap       |-> SwapColumns]

(* What schema.ts declares: the price of a trade as well. *)
DeclaredColumns ==
    [MigratedColumns EXCEPT !["trade"] = TradeColumns \cup {"price_0_to_1"}]

(* What saveRecords names in its INSERTs. *)
WrittenColumns == DeclaredColumns

-----------------------------------------------------------------------------
(* Keys. *)

(* The primary keys.  A swap has no log index in its key, a fill no chain. *)
Key(r) ==
    CASE r.recordType = "order_fill" -> <<"order_fill", r.fillId>>
      [] r.recordType = "swap"       -> <<"swap", r.intent, r.at.tx, r.at.chain>>
      [] OTHER                       -> <<r.recordType, r.at.tx, r.at.index, r.at.chain>>

(* The order of the node's logs, and of the records within one. *)
Precedes(r, s) ==
    \/ r.at.block < s.at.block
    \/ r.at.block = s.at.block /\ r.at.index < s.at.index
    \/ r.at.block = s.at.block /\ r.at.index = s.at.index /\ r.at.nth < s.at.nth

(* Of the records of one key, the first. *)
FirstOfKey(records) ==
    {r \in records : \A s \in records : Precedes(s, r) => Key(s) # Key(r)}

-----------------------------------------------------------------------------
(* saveRecords. *)

Rank(table) == CHOOSE i \in 1 .. Len(InsertOrder) : InsertOrder[i] = table

(* The rows a fill's foreign key may find: those of earlier batches, and  *)
(* those of this one inserted before the fills.                           *)
TradesBeforeFills(records) ==
    {t \in tables : t.recordType = "trade"}
        \cup {t \in records : t.recordType = "trade" /\ Rank("trade") < Rank("order_fill")}

(* PostgreSQL takes every INSERT of the batch: the columns exist, the      *)
(* values fit, the foreign keys hold.                                      *)
Accepts(records) ==
    \A r \in records :
        /\ WrittenColumns[r.recordType] \subseteq Columns[r.recordType]
        /\ r.recordType = "swap" => r.legCount # None
        /\ r.recordType = "order_fill" =>
              \E t \in TradesBeforeFills(records) :
                  /\ t.at.tx = r.at.tx /\ t.at.index = r.at.index
                  /\ t.at.chain = r.at.chain

\* Mutant: INSERT without ON CONFLICT, its error swallowed per table.
SaveRecords_OncePerTable(records) ==
    tables' = tables \cup {r \in FirstOfKey(records) :
                              \A s \in tables : s.recordType # r.recordType}

(* INSERT ... ON CONFLICT DO NOTHING for each record in turn. *)
SaveRecords(records) ==
    LET taken == {Key(s) : s \in tables}
    IN  tables' = tables \cup {r \in FirstOfKey(records) : Key(r) \notin taken}
=============================================================================
