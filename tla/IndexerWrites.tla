--------------------------- MODULE IndexerWrites ---------------------------
(***************************************************************************)
(* What an indexer may write into the cache, whatever it has read of the   *)
(* node and whenever it read it: the view of it that a reader of the cache *)
(* needs.  IndexingPipeline says how the writes come about, and implements *)
(* this; ApiServer reads the cache underneath them.                        *)
(***************************************************************************)
EXTENDS IndexerStore, SyncPlanner

CONSTANT StartBlock    \* IndexingPipelineConfig.startBlock

ASSUME StartBlockAssumption == StartBlock \in Nat

(* A batch: the heights right above the checkpoint up to the height of     *)
(* some head, with the logs of the chain the node was on when it was asked *)
(* for them, be that the chain of the rows below, another or one that ends *)
(* lower.  A checkpoint below 0 is refused by the planner.                 *)
IndexBatch ==
    /\ checkpoint # None => checkpoint >= 0
    /\ LET from == NextFrom(StartBlock, checkpoint) IN
       \E last, t \in Blocks :
          /\ from <= Number[last]
          /\ BatchTransaction(BranchLogs(t, from, Number[last]), Number[last])

(* A recovery: down to any height at or below the checkpoint.  The walk    *)
(* may have met the common ancestor, a height without a row (genesis       *)
(* included, hence -1), or the floor of its depth.                         *)
IndexRecovery ==
    /\ checkpoint # None
    /\ CanonicalRows # {}
    /\ \E n \in -1 .. checkpoint : RecoveryTransaction(n)

-----------------------------------------------------------------------------
(* Safety. *)

(* No canonical row lies above the checkpoint: what reads show was        *)
(* committed by a batch the checkpoint accounts for, across failures and  *)
(* rewinds.  The pipeline relies on it when it inserts rows above the     *)
(* checkpoint without looking at what is there (pipeline.ts:258-286).     *)
CanonicalBehindCheckpoint ==
    \A b \in CanonicalRows : checkpoint # None /\ Number[b] <= checkpoint

(* Two competing blocks of one height are never both canonical, although  *)
(* the primary key (chain_id, block_number, block_hash) of block_metadata *)
(* admits both and saveBlock never demotes a row.                         *)
OneCanonicalBlockPerHeight ==
    \A b, c \in CanonicalRows : Number[b] = Number[c] => b = c

(* Every fact row has its block_metadata row and lies in the block it     *)
(* names: no crash or failure between the inserts of a batch leaves a     *)
(* fact the canonical join can never classify.                            *)
FactsAreAnchored ==
    \A e \in Events :
        facts[e] # None => metadata[facts[e]] # "absent" /\ e \in Records[facts[e]]

(* A canonical read returns exactly the records of the canonical blocks:   *)
(* the facts, inserted once (ON CONFLICT DO NOTHING, repository.ts:87) and *)
(* joined by block hash, and the flags, flipped by every reorganisation,   *)
(* agree although no write ever touches both after the insert.             *)
ReadsShowTheCanonicalBlocks ==
    VisibleEvents = UNION {Records[b] : b \in CanonicalRows}
=============================================================================
