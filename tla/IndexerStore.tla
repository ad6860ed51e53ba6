---------------------------- MODULE IndexerStore ----------------------------
(***************************************************************************)
(* The three tables of the PostgreSQL cache the indexing pipeline touches: *)
(* checkpoints, block_metadata and the raw_* fact tables, for one chain    *)
(* and one indexer name.  A query reads one committed snapshot; the two    *)
(* transactions the pipeline runs, the recovery and the batch, are atomic. *)
(***************************************************************************)
EXTENDS BlockTree

VARIABLES
    checkpoint,    \* checkpoints.latest_indexed_block, None before the first batch
    metadata,      \* block_metadata: "absent", or the row's is_canonical flag
    facts          \* facts[e]: the block_hash in the row of primary key e, or None

storeVars == <<checkpoint, metadata, facts>>

RowStates == {"absent", "canonical", "orphaned"}

StoreTypeOK ==
    /\ checkpoint \in Int \cup {None}
    /\ metadata \in [Blocks -> RowStates]
    /\ facts \in [Events -> Blocks \cup {None}]

StoreInit ==
    /\ checkpoint = None
    /\ metadata = [b \in Blocks |-> "absent"]
    /\ facts = [e \in Events |-> None]

-----------------------------------------------------------------------------
(* Reads. *)

CanonicalRows == {b \in Blocks : metadata[b] = "canonical"}

(* getLatestCanonicalBlock: ORDER BY block_number DESC LIMIT 1; any of the *)
(* highest rows, were there several.                                       *)
LatestCanonicalRows ==
    {b \in CanonicalRows : \A c \in CanonicalRows : Number[c] <= Number[b]}

(* getBlockByNumber of the store: canonical rows only. *)
CanonicalRowsAt(n) == {b \in CanonicalRows : Number[b] = n}

(* The events a canonical read returns: the row joins a canonical block. *)
VisibleEvents == {e \in Events : facts[e] \in CanonicalRows}

-----------------------------------------------------------------------------
(* Writes: the new contents of each table. *)

\* Mutant: ON CONFLICT DO UPDATE.
SaveRecords_Overwriting(batch) ==
    [e \in Events |-> IF \E b \in batch : e \in Records[b]
                      THEN CHOOSE b \in batch : e \in Records[b]
                      ELSE facts[e]]

(* saveRecords: INSERT ... ON CONFLICT DO NOTHING, the first writer wins. *)
SaveRecords(batch) ==
    [e \in Events |-> IF facts[e] = None /\ \E b \in batch : e \in Records[b]
                      THEN CHOOSE b \in batch : e \in Records[b]
                      ELSE facts[e]]

\* Mutant: the conflict is on the height, without the block hash.
SaveBlocks_OnePerHeight(batch) ==
    [b \in Blocks |-> IF b \in batch /\ \A c \in Blocks :
                                          Number[c] = Number[b] => metadata[c] = "absent"
                      THEN "canonical" ELSE metadata[b]]

(* saveBlock for each header: a new row is canonical (the column default), *)
(* an existing row, orphaned or not, is left as it is.                     *)
SaveBlocks(batch) ==
    [b \in Blocks |-> IF b \in batch /\ metadata[b] = "absent"
                      THEN "canonical" ELSE metadata[b]]

\* Mutant: > for >=.
MarkNonCanonical_Exclusive(first) ==
    [b \in Blocks |-> IF b \in CanonicalRows /\ Number[b] > first
                      THEN "orphaned" ELSE metadata[b]]

\* Mutant: the orphaned rows are deleted instead of flagged.
MarkNonCanonical_Deleting(first) ==
    [b \in Blocks |-> IF Number[b] >= first THEN "absent" ELSE metadata[b]]

(* markNonCanonical: is_canonical = false at heights >= first. *)
MarkNonCanonical(first) ==
    [b \in Blocks |-> IF b \in CanonicalRows /\ Number[b] >= first
                      THEN "orphaned" ELSE metadata[b]]

(* saveCheckpoint: an upsert, so the row moves down as readily as up. *)
SaveCheckpoint(blockNumber) == checkpoint' = blockNumber

-----------------------------------------------------------------------------
(* The two transactions. *)

\* Mutant: the records are left out of the transaction.
BatchTransaction_NoRecords(batch, to) ==
    /\ facts' = facts
    /\ metadata' = SaveBlocks(batch)
    /\ SaveCheckpoint(to)

(* Records, block metadata and checkpoint of one batch, all or nothing. *)
BatchTransaction(batch, to) ==
    /\ facts' = SaveRecords(batch)
    /\ metadata' = SaveBlocks(batch)
    /\ SaveCheckpoint(to)

\* Mutant: only the checkpoint is rewound.
RecoveryTransaction_CheckpointOnly(rollbackToBlock) ==
    /\ metadata' = metadata
    /\ SaveCheckpoint(rollbackToBlock)
    /\ UNCHANGED facts

\* Mutant: the rows are orphaned, the stored checkpoint stays.
RecoveryTransaction_MarkOnly(rollbackToBlock) ==
    /\ metadata' = MarkNonCanonical(rollbackToBlock + 1)
    /\ UNCHANGED <<checkpoint, facts>>

(* ReorgManager.markNonCanonical: orphan the rows above the ancestor and *)
(* rewind the checkpoint to it; facts are never touched.                 *)
RecoveryTransaction(rollbackToBlock) ==
    /\ metadata' = MarkNonCanonical(rollbackToBlock + 1)
    /\ SaveCheckpoint(rollbackToBlock)
    /\ UNCHANGED facts
=============================================================================
