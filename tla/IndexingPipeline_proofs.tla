----------------------- MODULE IndexingPipeline_proofs -----------------------
(***************************************************************************)
(* Theorems about IndexingPipeline for every tree of blocks, every pattern *)
(* of reorganisations and every configuration.                             *)
(***************************************************************************)
EXTENDS IndexingPipeline, IndexerStore_proofs, TLAPS

LEMMA PlanType ==
    ASSUME NEW cur \in Int \cup {None}, NEW h \in Nat
    PROVE  Plan(StartBlock, h, cur, BatchSize)
              \in [from : Int, to : Int, caughtUp : BOOLEAN, remaining : Int]
  BY PipelineConfig, StartBlockAssumption, NoneAssumption DEF Plan, NextFrom

(* The local variables of a call of execute() that has ended. *)
LocalsOK ==
    /\ current \in Int \cup {None}
    /\ stored \in Blocks \cup {None}
    /\ scan \in Nat /\ floor \in Nat
    /\ target \in Int
    /\ range \in [from : Int, to : Int, caughtUp : BOOLEAN, remaining : Int]
    /\ batch \in SUBSET Blocks

LEMMA EndIterationType ==
    ASSUME NEW how \in Outcomes, EndIteration(how)
    PROVE  LocalsOK' /\ pc' \in Steps /\ outcome' \in Outcomes
  BY DEF EndIteration, LocalsOK, NoRange, Steps

-----------------------------------------------------------------------------
LEMMA TypeInitially == Init => TypeOK
  BY ChainTypes, TheHeadStaysInTheTree, PipelineConfig
  DEF Init, TypeOK, ChainInit, StoreInit, StoreTypeOK, RowStates, Steps, NoRange, Outcomes

LEMMA TypeStep == TypeOK /\ [Next]_vars => TypeOK'
<1> SUFFICES ASSUME TypeOK, [Next]_vars PROVE TypeOK'
  OBVIOUS
<1> USE ChainTypes, TheHeadStaysInTheTree, PipelineConfig
<1> USE DEF TypeOK
<1>u. ASSUME UNCHANGED storeVars PROVE StoreTypeOK'
  BY <1>u DEF storeVars, StoreTypeOK
<1>1. CASE ReadCheckpoint
  BY <1>1, <1>u DEF ReadCheckpoint, StoreTypeOK, Steps, Outcomes
<1>2. CASE FindLatestStored
  BY <1>2, <1>u DEF FindLatestStored, LatestCanonicalRows, CanonicalRows, Steps
<1>3. CASE ProbeLatest
  <2>1. PICK b \in BlocksAt(Number[stored]) :
           \/ b = stored /\ pc' = "head" /\ UNCHANGED <<scan, floor>>
           \/ /\ pc' = "walkStored"
              /\ scan' = Number[stored]
              /\ floor' = IF Number[stored] > MaxRollbackDepth
                          THEN Number[stored] - MaxRollbackDepth ELSE 0
    BY <1>3 DEF ProbeLatest
  <2>2. Number[b] = Number[stored] /\ Number[b] \in Nat
    BY <2>1 DEF BlocksAt, BestChain
  <2>3. scan' \in Nat /\ floor' \in Nat /\ pc' \in Steps
    BY <2>1, <2>2 DEF Steps
  <2> QED
    BY <1>3, <1>u, <2>3 DEF ProbeLatest
<1>4. CASE WalkStored
  BY <1>4, <1>u DEF WalkStored, RollBackTo, CanonicalRowsAt, CanonicalRows, Steps
<1>5. CASE WalkRpc
  BY <1>5, <1>u DEF WalkRpc, RollBackTo, Steps
<1>6. CASE BlockNotFound
  BY <1>6, <1>u, EndIterationType DEF BlockNotFound, LocalsOK, Outcomes
<1>7. CASE Recover
  BY <1>7, RecoveryTransactionType DEF Recover, Steps
<1>8. CASE FetchHead
  <2> DEFINE plan == Plan(StartBlock, HeadNumber, current, BatchSize)
  <2>1. plan \in [from : Int, to : Int, caughtUp : BOOLEAN, remaining : Int]
    BY PlanType DEF HeadNumber
  <2>2. CASE EndIteration("failed") \/ EndIteration("caughtUp")
    BY <1>8, <2>2, <1>u, EndIterationType DEF FetchHead, LocalsOK, Outcomes
  <2>3. CASE /\ range' = plan /\ pc' = "logs"
             /\ UNCHANGED <<current, stored, scan, floor, target, batch, outcome>>
    BY <1>8, <2>1, <2>3, <1>u DEF FetchHead, Steps
  <2> QED
    BY <1>8, <2>2, <2>3 DEF FetchHead
<1>9. CASE FetchLogs
  BY <1>9, <1>u DEF FetchLogs, BlocksWithLogs, BranchLogs, Steps
<1>10. CASE Commit
  <2>1. range.to \in Int
    OBVIOUS
  <2>2. (IF range.caughtUp THEN "caughtUp" ELSE "behind") \in Outcomes
    BY DEF Outcomes
  <2> QED
    BY <1>10, <2>1, <2>2, BatchTransactionType, EndIterationType DEF Commit, LocalsOK
<1>11. CASE Fail
  BY <1>11, <1>u, EndIterationType DEF Fail, LocalsOK, Outcomes
<1>12. CASE LoseAcknowledgement
  <2>1. StoreTypeOK'
    BY <1>12, RecoveryTransactionType, BatchTransactionType DEF LoseAcknowledgement
  <2> QED
    BY <1>12, <2>1, EndIterationType DEF LoseAcknowledgement, LocalsOK, Outcomes
<1>13. CASE ChainGrows
  BY <1>13, <1>u DEF ChainGrows, Grow, iterVars
<1>14. CASE ChainReorganises
  BY <1>14, <1>u DEF ChainReorganises, Reorganise, iterVars
<1>15. CASE UNCHANGED vars
  BY <1>15, <1>u DEF vars, iterVars
<1> QED
  BY <1>1, <1>2, <1>3, <1>4, <1>5, <1>6, <1>7, <1>8, <1>9, <1>10, <1>11, <1>12,
     <1>13, <1>14, <1>15 DEF Next, Execute

(* Every variable keeps its type. *)
THEOREM TypeCorrect == Spec => []TypeOK
  BY TypeInitially, TypeStep, PTL DEF Spec

-----------------------------------------------------------------------------
(***************************************************************************)
(* The inductive invariant.  What the tables promise follows from the      *)
(* tables before a transaction and from what execute() remembers when it   *)
(* starts one; LocalsFollowStore says what that is.                        *)
(***************************************************************************)
IInv == TypeOK /\ TablesAgree /\ LocalsFollowStore

(* Between calls there is nothing to remember. *)
LEMMA NothingToRemember ==
    ASSUME NEW how, EndIteration(how)
    PROVE  LocalsFollowStore'
  BY DEF EndIteration, LocalsFollowStore

(* A non-empty planned range starts right after the position it is planned *)
(* from and holds at most BatchSize heights.                               *)
LEMMA PlannedRange ==
    ASSUME NEW cur \in Int \cup {None}, NEW h \in Nat,
           NEW plan, plan = Plan(StartBlock, h, cur, BatchSize),
           plan.to >= plan.from
    PROVE  /\ plan.from = NextFrom(StartBlock, cur)
           /\ plan.from <= plan.to /\ plan.to < plan.from + BatchSize
           /\ plan.to <= h
  BY PipelineConfig, StartBlockAssumption, NoneAssumption DEF Plan, NextFrom

LEMMA LocalsFollowStoreStep == IInv /\ [Next]_vars => LocalsFollowStore'
<1> SUFFICES ASSUME IInv, [Next]_vars PROVE LocalsFollowStore'
  OBVIOUS
<1> USE DEF IInv, TypeOK, LocalsFollowStore
<1> USE ChainTypes, PipelineConfig, StartBlockAssumption, NoneAssumption
<1>1. CASE ReadCheckpoint
  BY <1>1 DEF ReadCheckpoint, storeVars
<1>2. CASE FindLatestStored
  BY <1>2 DEF FindLatestStored, LatestCanonicalRows, CanonicalRows, storeVars
<1>3. CASE ProbeLatest
  <2>1. PICK b \in BlocksAt(Number[stored]) :
           \/ pc' = "head"
           \/ /\ pc' = "walkStored"
              /\ scan' = Number[stored]
              /\ floor' = IF Number[stored] > MaxRollbackDepth
                          THEN Number[stored] - MaxRollbackDepth ELSE 0
    BY <1>3 DEF ProbeLatest
  <2>2. stored \in CanonicalRows /\ stored \in Blocks /\ Number[stored] \in Nat
    BY <1>3 DEF ProbeLatest, CanonicalRows
  <2>3. checkpoint # None /\ Number[stored] <= checkpoint
    BY <2>2 DEF TablesAgree, CanonicalBehindCheckpoint
  <2> QED
    BY <1>3, <2>1, <2>2, <2>3 DEF ProbeLatest, storeVars
<1>4. CASE WalkStored
  BY <1>4 DEF WalkStored, RollBackTo, CanonicalRowsAt, CanonicalRows, storeVars, StoreTypeOK
<1>5. CASE WalkRpc
  BY <1>5 DEF WalkRpc, RollBackTo, CanonicalRows, storeVars, StoreTypeOK
<1>6. CASE BlockNotFound
  BY <1>6, NothingToRemember DEF BlockNotFound
<1>7. CASE Recover
  BY <1>7 DEF Recover, RecoveryTransaction, SaveCheckpoint
<1>8. CASE FetchHead
  <2> DEFINE plan == Plan(StartBlock, HeadNumber, current, BatchSize)
  <2>1. CASE EndIteration("failed") \/ EndIteration("caughtUp")
    BY <2>1, NothingToRemember
  <2>2. CASE /\ plan.to >= plan.from
             /\ range' = plan /\ pc' = "logs"
             /\ UNCHANGED <<current, stored, scan, floor, target, batch, outcome>>
    <3>1. HeadNumber \in Nat
      BY DEF HeadNumber
    <3>2. /\ plan.from = NextFrom(StartBlock, current)
          /\ plan.from <= plan.to /\ plan.to < plan.from + BatchSize
      BY <2>2, <3>1, PlannedRange
    <3>3. current = checkpoint /\ checkpoint' = checkpoint
      BY <1>8 DEF FetchHead, storeVars
    <3> HIDE DEF plan
    <3> QED
      BY <2>2, <3>2, <3>3
  <2> QED
    BY <1>8, <2>1, <2>2 DEF FetchHead
<1>9. CASE FetchLogs
  <2>1. /\ \A b \in batch' : Number[b] \in range.from .. range.to
        /\ \A b, c \in batch' : Number[b] = Number[c] => b = c
    BY <1>9, BranchLogsHeights DEF FetchLogs, BlocksWithLogs
  <2> QED
    BY <1>9, <2>1 DEF FetchLogs, storeVars
<1>10. CASE Commit
  BY <1>10, NothingToRemember DEF Commit
<1>11. CASE Fail
  BY <1>11, NothingToRemember DEF Fail
<1>12. CASE LoseAcknowledgement
  BY <1>12, NothingToRemember DEF LoseAcknowledgement
<1>13. CASE ChainGrows \/ ChainReorganises \/ UNCHANGED vars
  BY <1>13 DEF ChainGrows, ChainReorganises, vars, iterVars, storeVars, CanonicalRows
<1> QED
  BY <1>1, <1>2, <1>3, <1>4, <1>5, <1>6, <1>7, <1>8, <1>9, <1>10, <1>11, <1>12, <1>13
  DEF Next, Execute

(* A step writes the tables as one batch, as one rewind, or not at all. *)
LEMMA StoreSteps ==
    ASSUME [Next]_vars
    PROVE  \/ pc = "commit" /\ BatchTransaction(batch, range.to)
           \/ pc = "recover" /\ RecoveryTransaction(target)
           \/ UNCHANGED storeVars
  BY DEF Next, Execute, vars, ReadCheckpoint, FindLatestStored, ProbeLatest, WalkStored,
         WalkRpc, BlockNotFound, Recover, FetchHead, FetchLogs, Commit, Fail,
         LoseAcknowledgement, ChainGrows, ChainReorganises

LEMMA TablesAgreeStep == IInv /\ [Next]_vars => TablesAgree'
<1> SUFFICES ASSUME IInv, [Next]_vars PROVE TablesAgree'
  OBVIOUS
<1> USE DEF IInv, TypeOK, LocalsFollowStore
<1>1. CASE pc = "commit" /\ BatchTransaction(batch, range.to)
  <2>1. range.to \in Int
    OBVIOUS
  <2> QED
    BY <1>1, <2>1, BatchKeepsTablesAgreed
<1>2. CASE pc = "recover" /\ RecoveryTransaction(target)
  BY <1>2, RecoveryKeepsTablesAgreed
<1>3. CASE UNCHANGED storeVars
  BY <1>3, TablesAgreeUnlessWritten
<1> QED
  BY <1>1, <1>2, <1>3, StoreSteps

LEMMA IInvInitially == Init => IInv
<1> SUFFICES ASSUME Init PROVE IInv
  OBVIOUS
<1>1. TypeOK
  BY TypeInitially
<1>2. TablesAgree
  BY TablesAgreeInitially DEF Init
<1>3. LocalsFollowStore
  BY DEF Init, LocalsFollowStore
<1> QED
  BY <1>1, <1>2, <1>3 DEF IInv

LEMMA IInvStep == IInv /\ [Next]_vars => IInv'
  BY TypeStep, TablesAgreeStep, LocalsFollowStoreStep DEF IInv

LEMMA IInvAlways == Spec => []IInv
  BY IInvInitially, IInvStep, PTL DEF Spec

(* No canonical row ever lies above the checkpoint, whatever fails, crashes *)
(* or reorganises between a read of the store and the write based on it.   *)
THEOREM NothingCanonicalAboveTheCheckpoint == Spec => []CanonicalBehindCheckpoint
<1>1. IInv => CanonicalBehindCheckpoint
  BY DEF IInv, TablesAgree
<1> QED
  BY <1>1, IInvAlways, PTL

(* Two competing blocks of one height are never both canonical. *)
THEOREM NoCompetingCanonicalBlocks == Spec => []OneCanonicalBlockPerHeight
<1>1. IInv => OneCanonicalBlockPerHeight
  BY DEF IInv, TablesAgree
<1> QED
  BY <1>1, IInvAlways, PTL

(* Every fact names a stored block that holds its record. *)
THEOREM EveryFactHasItsBlock == Spec => []FactsAreAnchored
<1>1. IInv => FactsAreAnchored
  BY DEF IInv, TablesAgree
<1> QED
  BY <1>1, IInvAlways, PTL

(* What execute() remembers across its awaits stays true of the store. *)
THEOREM CallsNeverActOnAStaleStore == Spec => []LocalsFollowStore
<1>1. IInv => LocalsFollowStore
  BY DEF IInv
<1> QED
  BY <1>1, IInvAlways, PTL

-----------------------------------------------------------------------------
(* The implementation of CanonicalIndex. *)

LEMMA BatchIsAnAppend ==
    ASSUME IInv, pc = "commit", BatchTransaction(batch, range.to)
    PROVE  Index!Append
<1> USE DEF IInv, TypeOK
<1> USE ChainTypes, PipelineConfig, StartBlockAssumption, NoneAssumption
<1>1. /\ checkpoint' = range.to
      /\ range.to \in Int /\ range.from \in Int
      /\ range.from = Index!Indexed + 1
      /\ range.from <= range.to /\ range.to < range.from + BatchSize
      /\ Index!Indexed \in Int
  BY DEF BatchTransaction, SaveCheckpoint, LocalsFollowStore, NextFrom, Index!Indexed,
         StoreTypeOK
<1>2. checkpoint' \in Index!Indexed + 1 .. Index!Indexed + BatchSize
  BY <1>1
<1>3. batch \in Index!Batches(checkpoint')
  BY <1>1 DEF LocalsFollowStore, Index!Batches
<1>4. /\ CanonicalRows' = CanonicalRows \cup (batch \ OrphanedRows)
      /\ OrphanedRows' = OrphanedRows
  BY DEF BatchTransaction, SaveBlocks, CanonicalRows, OrphanedRows, StoreTypeOK, RowStates
<1>5. facts' \in [Events -> Blocks \cup {None}]
  BY SaveRecordsType DEF BatchTransaction
<1>6. ASSUME NEW e \in Events
      PROVE  IF facts[e] = None /\ \E b \in batch : e \in Records[b]
             THEN facts'[e] \in {b \in batch : e \in Records[b]}
             ELSE facts'[e] = facts[e]
  <2>1. facts'[e] = IF facts[e] = None /\ \E b \in batch : e \in Records[b]
                    THEN CHOOSE b \in batch : e \in Records[b]
                    ELSE facts[e]
    BY DEF BatchTransaction, SaveRecords
  <2>2. (\E b \in batch : e \in Records[b]) =>
           (CHOOSE b \in batch : e \in Records[b]) \in {b \in batch : e \in Records[b]}
    BY Zenon
  <2> QED
    BY <2>1, <2>2
<1> QED
  BY <1>2, <1>3, <1>4, <1>5, <1>6 DEF Index!Append

LEMMA RecoveryIsARewind ==
    ASSUME IInv, pc = "recover", RecoveryTransaction(target)
    PROVE  Index!Rewind
<1> USE DEF IInv, TypeOK
<1> USE ChainTypes, NoneAssumption
<1>1. checkpoint' = target /\ target \in Int /\ checkpoint # None /\ target <= checkpoint
  BY DEF RecoveryTransaction, SaveCheckpoint, LocalsFollowStore
<1>2. CanonicalRows' = {b \in CanonicalRows : Number[b] <= target}
  BY MarkNonCanonicalRows DEF RecoveryTransaction
<1>3. OrphanedRows' = OrphanedRows \cup {b \in CanonicalRows : Number[b] >= target + 1}
  BY DEF RecoveryTransaction, MarkNonCanonical, OrphanedRows, CanonicalRows, StoreTypeOK,
         RowStates
<1>4. \A b \in CanonicalRows : Number[b] \in Int
  BY DEF CanonicalRows
<1>5. OrphanedRows' = OrphanedRows \cup (CanonicalRows \ CanonicalRows')
  BY <1>1, <1>2, <1>3, <1>4
<1> QED
  BY <1>1, <1>2, <1>5 DEF Index!Rewind, RecoveryTransaction

LEMMA StepImplementsIndex == IInv /\ [Next]_vars => [Index!Next]_(Index!vars)
<1> SUFFICES ASSUME IInv, [Next]_vars PROVE [Index!Next]_(Index!vars)
  OBVIOUS
<1>1. CASE pc = "commit" /\ BatchTransaction(batch, range.to)
  BY <1>1, BatchIsAnAppend DEF Index!Next
<1>2. CASE pc = "recover" /\ RecoveryTransaction(target)
  BY <1>2, RecoveryIsARewind DEF Index!Next
<1>3. CASE UNCHANGED storeVars
  BY <1>3 DEF storeVars, Index!vars, CanonicalRows, OrphanedRows
<1> QED
  BY <1>1, <1>2, <1>3, StoreSteps

(* Through every failure, lost acknowledgement and reorganisation the cache *)
(* moves by whole batches right above the checkpoint and by whole rewinds.  *)
THEOREM PipelineImplementsIndex == Spec => ImplementsCanonicalIndex
<1>1. Init => Index!Init
  BY DEF Init, StoreInit, Index!Init, CanonicalRows, OrphanedRows
<1> QED
  BY <1>1, StepImplementsIndex, IInvAlways, PTL DEF Spec, ImplementsCanonicalIndex, Index!Spec

-----------------------------------------------------------------------------
LEMMA CheckpointStepHolds == IInv /\ [Next]_vars => [CheckpointStep]_vars
<1> SUFFICES ASSUME IInv, [Next]_vars PROVE CheckpointStep
  OBVIOUS
<1> USE DEF IInv, TypeOK
<1> USE ChainTypes, PipelineConfig, StartBlockAssumption, NoneAssumption
<1>1. CASE pc = "commit" /\ BatchTransaction(batch, range.to)
  <2>1. CanonicalRows' = CanonicalRows \cup {b \in batch : metadata[b] = "absent"}
    BY <1>1, SaveBlocksRows DEF BatchTransaction
  <2>2. /\ checkpoint' = range.to
        /\ range.to \in Int /\ range.from \in Int
        /\ range.from = NextFrom(StartBlock, checkpoint)
        /\ range.from <= range.to /\ range.to < range.from + BatchSize
        /\ \A b \in batch : Number[b] \in range.from .. range.to
    BY <1>1 DEF BatchTransaction, SaveCheckpoint, LocalsFollowStore
  <2> QED
    BY <2>1, <2>2 DEF CheckpointStep, NextFrom, StoreTypeOK
<1>2. CASE pc = "recover" /\ RecoveryTransaction(target)
  <2>1. CanonicalRows' = {b \in CanonicalRows : Number[b] <= target}
    BY <1>2, MarkNonCanonicalRows DEF RecoveryTransaction
  <2>2. checkpoint # None /\ target <= checkpoint /\ checkpoint' = target
    BY <1>2 DEF LocalsFollowStore, RecoveryTransaction, SaveCheckpoint
  <2> QED
    BY <2>1, <2>2 DEF CheckpointStep, StoreTypeOK
<1>3. CASE UNCHANGED storeVars
  BY <1>3 DEF storeVars, CheckpointStep
<1> QED
  BY <1>1, <1>2, <1>3, StoreSteps

(* The checkpoint and the rows only move together, without gaps. *)
THEOREM CheckpointAndRowsMoveTogether == Spec => CheckpointMovesWithRows
  BY CheckpointStepHolds, IInvAlways, PTL DEF Spec, CheckpointMovesWithRows

-----------------------------------------------------------------------------
(***************************************************************************)
(* The implementation of IndexerWrites.  What a call has planned when it   *)
(* comes to write: the end of the range is the height of a block, the      *)
(* batch is the logs of one chain, and the walk never left the tables.     *)
(***************************************************************************)
WritesArePlanned ==
    /\ pc \in {"logs", "commit"} =>
          /\ checkpoint # None => checkpoint >= 0
          /\ \E last \in Blocks : range.to = Number[last]
    /\ pc = "commit" => \E t \in Blocks : batch = BranchLogs(t, range.from, range.to)
    /\ pc = "recover" => -1 <= target
    /\ pc \in {"walkStored", "walkRpc", "recover"} => CanonicalRows # {}

LEMMA NothingIsPlanned ==
    ASSUME NEW how, EndIteration(how)
    PROVE  WritesArePlanned'
  BY DEF EndIteration, WritesArePlanned

LEMMA HeadIsPlanned ==
    ASSUME IInv, FetchHead
    PROVE  WritesArePlanned'
<1> USE DEF IInv, TypeOK
<1> USE ChainTypes, PipelineConfig, StartBlockAssumption, NoneAssumption
<1> DEFINE plan == Plan(StartBlock, HeadNumber, current, BatchSize)
<1>1. CASE EndIteration("failed") \/ EndIteration("caughtUp")
  BY <1>1, NothingIsPlanned
<1>2. CASE /\ ~PlanRejects(StartBlock, HeadNumber, current, BatchSize)
           /\ plan.to >= plan.from
           /\ range' = plan /\ pc' = "logs"
  <2>1. HeadNumber \in Nat
    BY DEF HeadNumber
  <2>2. plan.from = NextFrom(StartBlock, current) /\ plan.from <= plan.to /\ plan.to <= HeadNumber
    BY <1>2, <2>1, PlannedRange
  <2>3. current = checkpoint /\ checkpoint' = checkpoint
    BY DEF FetchHead, storeVars, LocalsFollowStore
  <2>4. checkpoint # None => checkpoint >= 0
    BY <1>2, <2>3 DEF PlanRejects, StoreTypeOK
  <2>5. plan.to \in Int /\ plan.from \in Nat
    BY <2>1, <2>2, <2>3, <2>4, PlanType DEF NextFrom, StoreTypeOK
  <2>6. plan.to \in 0 .. Number[head]
    BY <2>1, <2>2, <2>5 DEF HeadNumber
  <2>7. PICK last \in Branch[head] : Number[last] = plan.to
    BY <2>6, BranchIsAChain
  <2> HIDE DEF plan
  <2> QED
    BY <1>2, <2>3, <2>4, <2>7 DEF WritesArePlanned
<1> QED
  BY <1>1, <1>2 DEF FetchHead

LEMMA WritesArePlannedStep == IInv /\ WritesArePlanned /\ [Next]_vars => WritesArePlanned'
<1> SUFFICES ASSUME IInv, WritesArePlanned, [Next]_vars PROVE WritesArePlanned'
  OBVIOUS
<1> USE DEF IInv, TypeOK, WritesArePlanned
<1>1. CASE ReadCheckpoint \/ FindLatestStored
  BY <1>1 DEF ReadCheckpoint, FindLatestStored
<1>2. CASE ProbeLatest
  <2>1. CanonicalRows' = CanonicalRows /\ CanonicalRows # {}
    BY <1>2 DEF ProbeLatest, storeVars, CanonicalRows, LocalsFollowStore
  <2>2. pc' \in {"head", "walkStored"}
    BY <1>2 DEF ProbeLatest
  <2> QED
    BY <2>1, <2>2
<1>3. CASE WalkStored \/ WalkRpc
  <2>1. CanonicalRows' = CanonicalRows /\ CanonicalRows # {}
    BY <1>3 DEF WalkStored, WalkRpc, storeVars, CanonicalRows
  <2>2. \/ pc' \in {"walkStored", "walkRpc"}
        \/ pc' = "recover" /\ target' \in {scan - 1, scan, floor}
    BY <1>3 DEF WalkStored, WalkRpc, RollBackTo
  <2> QED
    BY <2>1, <2>2
<1>4. CASE Recover
  BY <1>4 DEF Recover
<1>5. CASE FetchHead
  BY <1>5, HeadIsPlanned
<1>6. CASE FetchLogs
  BY <1>6 DEF FetchLogs, BlocksWithLogs, storeVars
<1>7. CASE BlockNotFound \/ Commit \/ Fail \/ LoseAcknowledgement
  BY <1>7, NothingIsPlanned DEF BlockNotFound, Commit, Fail, LoseAcknowledgement
<1>8. CASE ChainGrows \/ ChainReorganises \/ UNCHANGED vars
  BY <1>8 DEF ChainGrows, ChainReorganises, vars, iterVars, storeVars, CanonicalRows
<1> QED
  BY <1>1, <1>2, <1>3, <1>4, <1>5, <1>6, <1>7, <1>8 DEF Next, Execute

LEMMA WriteStep ==
    ASSUME IInv, WritesArePlanned, [Next]_vars, storeVars' # storeVars
    PROVE  IndexBatch \/ IndexRecovery
<1> USE DEF IInv, TypeOK, LocalsFollowStore
<1>1. CASE pc = "commit" /\ BatchTransaction(batch, range.to)
  <2>1. PICK last \in Blocks : range.to = Number[last]
    BY <1>1 DEF WritesArePlanned
  <2>2. PICK t \in Blocks : batch = BranchLogs(t, range.from, range.to)
    BY <1>1 DEF WritesArePlanned
  <2>3. /\ checkpoint # None => checkpoint >= 0
        /\ range.from = NextFrom(StartBlock, checkpoint) /\ range.from <= range.to
    BY <1>1 DEF WritesArePlanned
  <2>4. BatchTransaction(BranchLogs(t, NextFrom(StartBlock, checkpoint), Number[last]), Number[last])
    BY <1>1, <2>1, <2>2, <2>3
  <2> QED
    BY <2>1, <2>3, <2>4 DEF IndexBatch
<1>2. CASE pc = "recover" /\ RecoveryTransaction(target)
  <2>1. checkpoint # None /\ CanonicalRows # {} /\ target \in -1 .. checkpoint
    BY <1>2 DEF WritesArePlanned, StoreTypeOK
  <2> QED
    BY <1>2, <2>1 DEF IndexRecovery
<1>3. CASE UNCHANGED storeVars
  BY <1>3
<1> QED
  BY <1>1, <1>2, <1>3, StoreSteps

(* Whatever the chain does between the awaits of execute() and whatever    *)
(* fails, the cache changes by the writes of IndexerWrites only, so that   *)
(* what holds of the readers above those holds above the pipeline.         *)
THEOREM PipelineWritesAsAnIndexer == Spec => WritesAsAnIndexer
<1>1. Init => WritesArePlanned
  BY DEF Init, WritesArePlanned
<1>2. IInv /\ WritesArePlanned /\ [Next]_vars
        => [storeVars' # storeVars => IndexBatch \/ IndexRecovery]_vars
  BY WriteStep
<1> QED
  BY <1>1, <1>2, WritesArePlannedStep, IInvAlways, PTL DEF Spec, WritesAsAnIndexer
=============================================================================
