------------------------- MODULE IndexerStore_proofs -------------------------
(***************************************************************************)
(* Lemmas about the two transactions of the cache, for every tree of       *)
(* blocks; the proofs about the pipeline and about the API rest on them.   *)
(***************************************************************************)
EXTENDS IndexerWrites, TLAPS

(* What the tables give back. *)

LEMMA SaveRecordsType ==
    ASSUME StoreTypeOK, NEW S \in SUBSET Blocks
    PROVE  SaveRecords(S) \in [Events -> Blocks \cup {None}]
<1> SUFFICES ASSUME NEW e \in Events
             PROVE  (IF facts[e] = None /\ \E b \in S : e \in Records[b]
                     THEN CHOOSE b \in S : e \in Records[b]
                     ELSE facts[e]) \in Blocks \cup {None}
  BY DEF SaveRecords
<1>1. CASE facts[e] = None /\ \E b \in S : e \in Records[b]
  <2>1. (CHOOSE b \in S : e \in Records[b]) \in S
    BY <1>1, Zenon
  <2> QED
    BY <1>1, <2>1
<1>2. CASE ~(facts[e] = None /\ \E b \in S : e \in Records[b])
  BY <1>2 DEF StoreTypeOK
<1> QED
  BY <1>1, <1>2

LEMMA BatchTransactionType ==
    ASSUME StoreTypeOK, NEW S \in SUBSET Blocks, NEW to \in Int, BatchTransaction(S, to)
    PROVE  StoreTypeOK'
<1>1. SaveBlocks(S) \in [Blocks -> RowStates]
  BY DEF SaveBlocks, StoreTypeOK, RowStates
<1> QED
  BY <1>1, SaveRecordsType DEF StoreTypeOK, BatchTransaction, SaveCheckpoint

LEMMA RecoveryTransactionType ==
    ASSUME StoreTypeOK, NEW n \in Int, RecoveryTransaction(n)
    PROVE  StoreTypeOK'
<1>1. MarkNonCanonical(n + 1) \in [Blocks -> RowStates]
  BY DEF MarkNonCanonical, StoreTypeOK, RowStates
<1> QED
  BY <1>1 DEF StoreTypeOK, RecoveryTransaction, SaveCheckpoint

(* Only a block of the batch becomes canonical; no row becomes absent. *)
LEMMA SaveBlocksRows ==
    ASSUME StoreTypeOK, NEW S \in SUBSET Blocks, metadata' = SaveBlocks(S)
    PROVE  /\ CanonicalRows' = CanonicalRows \cup {b \in S : metadata[b] = "absent"}
           /\ \A b \in S : metadata'[b] # "absent"
           /\ \A b \in Blocks : metadata[b] # "absent" => metadata'[b] = metadata[b]
  BY DEF StoreTypeOK, CanonicalRows, SaveBlocks, RowStates

(* A rewind keeps the canonical rows up to the target; none becomes absent. *)
LEMMA MarkNonCanonicalRows ==
    ASSUME StoreTypeOK, NEW n \in Int, metadata' = MarkNonCanonical(n + 1)
    PROVE  /\ CanonicalRows' = {b \in CanonicalRows : Number[b] <= n}
           /\ \A b \in Blocks : metadata[b] # "absent" => metadata'[b] # "absent"
  BY ChainTypes DEF ChainTypes, StoreTypeOK, CanonicalRows, MarkNonCanonical, RowStates

(* A fact that is new lies in a block of the batch that holds its record. *)
LEMMA SaveRecordsFacts ==
    ASSUME StoreTypeOK, NEW S \in SUBSET Blocks, facts' = SaveRecords(S), NEW e \in Events
    PROVE  \/ facts'[e] = facts[e]
           \/ facts[e] = None /\ facts'[e] \in S /\ e \in Records[facts'[e]]
<1>1. facts'[e] = IF facts[e] = None /\ \E b \in S : e \in Records[b]
                  THEN CHOOSE b \in S : e \in Records[b]
                  ELSE facts[e]
  BY DEF SaveRecords
<1>2. CASE facts[e] = None /\ \E b \in S : e \in Records[b]
  <2>1. /\ (CHOOSE b \in S : e \in Records[b]) \in S
        /\ e \in Records[CHOOSE b \in S : e \in Records[b]]
    BY <1>2, Zenon
  <2> QED
    BY <1>1, <1>2, <2>1
<1>3. CASE ~(facts[e] = None /\ \E b \in S : e \in Records[b])
  BY <1>1, <1>3
<1> QED
  BY <1>2, <1>3

-----------------------------------------------------------------------------
(* What the transactions preserve. *)

TablesAgree == CanonicalBehindCheckpoint /\ OneCanonicalBlockPerHeight /\ FactsAreAnchored

LEMMA TablesAgreeUnlessWritten ==
    ASSUME TablesAgree, UNCHANGED storeVars
    PROVE  TablesAgree'
  BY DEF TablesAgree, CanonicalBehindCheckpoint, OneCanonicalBlockPerHeight,
         FactsAreAnchored, CanonicalRows, storeVars

LEMMA TablesAgreeInitially == StoreInit => TablesAgree
  BY DEF StoreInit, TablesAgree, CanonicalBehindCheckpoint, OneCanonicalBlockPerHeight,
         FactsAreAnchored, CanonicalRows

(* A batch of one block per height, right above the checkpoint. *)
LEMMA BatchKeepsTablesAgreed ==
    ASSUME StoreTypeOK, TablesAgree,
           NEW S \in SUBSET Blocks, NEW from, NEW to \in Int,
           from = NextFrom(StartBlock, checkpoint), from <= to,
           \A b \in S : Number[b] \in from .. to,
           \A b, c \in S : Number[b] = Number[c] => b = c,
           BatchTransaction(S, to)
    PROVE  TablesAgree'
<1> USE DEF TablesAgree
<1> USE ChainTypes, StartBlockAssumption, NoneAssumption
<1>1. /\ CanonicalRows' = CanonicalRows \cup {b \in S : metadata[b] = "absent"}
      /\ \A b \in S : metadata'[b] # "absent"
      /\ \A b \in Blocks : metadata[b] # "absent" => metadata'[b] = metadata[b]
  BY SaveBlocksRows DEF BatchTransaction
<1>2. checkpoint' = to
  BY DEF BatchTransaction, SaveCheckpoint
<1>3. from \in Int
  BY DEF NextFrom, StoreTypeOK
<1>4. \A b \in CanonicalRows : Number[b] < from
  BY DEF CanonicalBehindCheckpoint, NextFrom, StoreTypeOK, CanonicalRows
<1>5. CanonicalRows \subseteq Blocks
  BY DEF CanonicalRows
<1>6. CanonicalBehindCheckpoint'
  BY <1>1, <1>2, <1>3, <1>4, <1>5 DEF CanonicalBehindCheckpoint
<1>7. OneCanonicalBlockPerHeight'
  <2> SUFFICES ASSUME NEW b \in CanonicalRows', NEW c \in CanonicalRows',
                      Number[b] = Number[c]
               PROVE  b = c
    BY DEF OneCanonicalBlockPerHeight
  <2>1. (b \in CanonicalRows \/ b \in S) /\ (c \in CanonicalRows \/ c \in S)
    BY <1>1
  <2> QED
    BY <2>1, <1>3, <1>4, <1>5 DEF OneCanonicalBlockPerHeight
<1>8. FactsAreAnchored'
  <2> SUFFICES ASSUME NEW e \in Events, facts'[e] # None
               PROVE  metadata'[facts'[e]] # "absent" /\ e \in Records[facts'[e]]
    BY DEF FactsAreAnchored
  <2>1. \/ facts'[e] = facts[e]
        \/ facts'[e] \in S /\ e \in Records[facts'[e]]
    BY SaveRecordsFacts DEF BatchTransaction
  <2>2. facts[e] \in Blocks \cup {None}
    BY DEF StoreTypeOK
  <2> QED
    BY <2>1, <2>2, <1>1 DEF FactsAreAnchored
<1> QED
  BY <1>6, <1>7, <1>8

LEMMA RecoveryKeepsTablesAgreed ==
    ASSUME StoreTypeOK, TablesAgree, checkpoint # None,
           NEW n \in Int, n <= checkpoint, RecoveryTransaction(n)
    PROVE  TablesAgree'
<1> USE DEF TablesAgree
<1> USE ChainTypes, NoneAssumption
<1>1. /\ CanonicalRows' = {b \in CanonicalRows : Number[b] <= n}
      /\ \A b \in Blocks : metadata[b] # "absent" => metadata'[b] # "absent"
  BY MarkNonCanonicalRows DEF RecoveryTransaction
<1>2. CanonicalBehindCheckpoint'
  BY <1>1 DEF CanonicalBehindCheckpoint, RecoveryTransaction, SaveCheckpoint
<1>3. OneCanonicalBlockPerHeight'
  BY <1>1 DEF OneCanonicalBlockPerHeight
<1>4. FactsAreAnchored'
  BY <1>1 DEF FactsAreAnchored, RecoveryTransaction, StoreTypeOK
<1> QED
  BY <1>2, <1>3, <1>4

(* The records of every stored block are in the fact tables, in its name. *)
StoredBlocksHaveFacts ==
    \A b \in Blocks : metadata[b] # "absent" => \A e \in Records[b] : facts[e] = b

LEMMA BatchStoresItsFacts ==
    ASSUME NothingIsReincluded, StoreTypeOK, FactsAreAnchored, StoredBlocksHaveFacts,
           NEW S \in SUBSET Blocks, NEW to, BatchTransaction(S, to)
    PROVE  StoredBlocksHaveFacts'
<1> USE ChainTypes
<1> SUFFICES ASSUME NEW b \in Blocks, metadata'[b] # "absent", NEW e \in Records[b]
             PROVE  facts'[e] = b
  BY DEF StoredBlocksHaveFacts
<1>1. e \in Events
  OBVIOUS
<1>2. \A c \in Blocks : e \in Records[c] => c = b
  BY DEF NothingIsReincluded
<1>3. facts'[e] = IF facts[e] = None /\ \E c \in S : e \in Records[c]
                  THEN CHOOSE c \in S : e \in Records[c]
                  ELSE facts[e]
  BY <1>1 DEF BatchTransaction, SaveRecords
<1>4. CASE facts[e] # None
  <2>1. facts[e] \in Blocks /\ e \in Records[facts[e]]
    BY <1>1, <1>4 DEF FactsAreAnchored, StoreTypeOK
  <2> QED
    BY <1>2, <1>3, <1>4, <2>1
<1>5. CASE facts[e] = None
  <2>1. metadata[b] = "absent"
    BY <1>5 DEF StoredBlocksHaveFacts
  <2>2. b \in S
    BY <2>1 DEF BatchTransaction, SaveBlocks
  <2>3. (CHOOSE c \in S : e \in Records[c]) \in {c \in S : e \in Records[c]}
    BY <2>2, Zenon
  <2> QED
    BY <1>1, <1>2, <1>3, <1>5, <2>2, <2>3
<1> QED
  BY <1>4, <1>5

LEMMA RecoveryKeepsTheFacts ==
    ASSUME StoredBlocksHaveFacts, NEW n, RecoveryTransaction(n)
    PROVE  StoredBlocksHaveFacts'
<1>1. \A b \in Blocks : metadata[b] = "absent" => metadata'[b] = "absent"
  BY DEF RecoveryTransaction, MarkNonCanonical, CanonicalRows
<1> QED
  BY <1>1 DEF RecoveryTransaction, StoredBlocksHaveFacts

LEMMA ReadsFollow ==
    ASSUME StoreTypeOK, FactsAreAnchored, StoredBlocksHaveFacts
    PROVE  ReadsShowTheCanonicalBlocks
<1> USE DEF StoreTypeOK
<1>1. ASSUME NEW e \in VisibleEvents
      PROVE  e \in UNION {Records[b] : b \in CanonicalRows}
  <2>1. facts[e] \in CanonicalRows /\ facts[e] \in Blocks /\ e \in Events
    BY DEF VisibleEvents, CanonicalRows
  <2>2. facts[e] # None
    BY <2>1, ChainTypes
  <2>3. e \in Records[facts[e]]
    BY <2>1, <2>2 DEF FactsAreAnchored
  <2> QED
    BY <2>1, <2>3
<1>2. ASSUME NEW b \in CanonicalRows, NEW e \in Records[b]
      PROVE  e \in VisibleEvents
  BY <1>2, ChainTypes DEF StoredBlocksHaveFacts, VisibleEvents, CanonicalRows
<1> QED
  BY <1>1, <1>2 DEF ReadsShowTheCanonicalBlocks

-----------------------------------------------------------------------------
(* The writes of an indexer. *)

LEMMA BranchLogsHeights ==
    ASSUME NEW t \in Blocks, NEW m, NEW n
    PROVE  /\ BranchLogs(t, m, n) \in SUBSET Blocks
           /\ \A b \in BranchLogs(t, m, n) : Number[b] \in m .. n
           /\ \A b, c \in BranchLogs(t, m, n) : Number[b] = Number[c] => b = c
  BY ChainTypes, BranchIsAChain DEF BranchLogs

LEMMA IndexerKeepsTheTables ==
    ASSUME StoreTypeOK, TablesAgree, IndexBatch \/ IndexRecovery
    PROVE  StoreTypeOK' /\ TablesAgree'
<1>1. CASE IndexBatch
  <2> DEFINE from == NextFrom(StartBlock, checkpoint)
  <2>1. PICK last \in Blocks, t \in Blocks :
           /\ from <= Number[last]
           /\ BatchTransaction(BranchLogs(t, from, Number[last]), Number[last])
    BY <1>1 DEF IndexBatch
  <2>2. Number[last] \in Int
    BY ChainTypes
  <2>3. StoreTypeOK'
    BY <2>1, <2>2, BranchLogsHeights, BatchTransactionType
  <2>4. TablesAgree'
    BY <2>1, <2>2, BranchLogsHeights, BatchKeepsTablesAgreed
  <2> QED
    BY <2>3, <2>4
<1>2. CASE IndexRecovery
  <2>1. PICK n \in -1 .. checkpoint : RecoveryTransaction(n)
    BY <1>2 DEF IndexRecovery
  <2>2. checkpoint # None /\ n \in Int /\ n <= checkpoint
    BY <1>2, <2>1 DEF IndexRecovery, StoreTypeOK
  <2> QED
    BY <2>1, <2>2, RecoveryTransactionType, RecoveryKeepsTablesAgreed
<1> QED
  BY <1>1, <1>2

LEMMA IndexerKeepsTheFacts ==
    ASSUME NothingIsReincluded, StoreTypeOK, TablesAgree, StoredBlocksHaveFacts,
           IndexBatch \/ IndexRecovery
    PROVE  StoredBlocksHaveFacts'
<1>1. CASE IndexBatch
  BY <1>1, BranchLogsHeights, BatchStoresItsFacts DEF IndexBatch, TablesAgree
<1>2. CASE IndexRecovery
  BY <1>2, RecoveryKeepsTheFacts DEF IndexRecovery
<1> QED
  BY <1>1, <1>2
=============================================================================
