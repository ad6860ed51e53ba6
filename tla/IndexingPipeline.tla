-------------------------- MODULE IndexingPipeline --------------------------
(***************************************************************************)
(* One IndexingPipeline (apps/indexer/src/pipeline.ts) with its            *)
(* ReorgDetector and ReorgManager (apps/indexer/src/reorg.ts), run again   *)
(* and again by the daemon against a store and a chain that moves on       *)
(* between any two awaits.  Every `await` of execute() is a step of its    *)
(* own; what happens between two awaits belongs to the step before it.     *)
(***************************************************************************)
EXTENDS EvmChain, IndexerWrites

CONSTANTS
    BatchSize,           \* IndexingPipelineConfig.batchSize
    MaxRollbackDepth,    \* reorgConfig.maxRollbackDepth
    MidIterationReorgs,  \* may the chain reorganise while execute() runs?
    MaxFailures          \* bound on the failures and crashes of a behaviour

ASSUME PipelineConfig ==
    /\ BatchSize \in Nat \ {0}
    /\ MaxRollbackDepth \in Nat
    /\ MidIterationReorgs \in BOOLEAN
    /\ MaxFailures \in Nat

VARIABLES
    pc,        \* the await execute() is about to make; "idle" between calls
    current,   \* currentIndexedBlock
    stored,    \* the block_metadata row last read by the detector
    scan,      \* blockNum of findCommonAncestor
    floor,     \* minBlock of findCommonAncestor
    target,    \* rollbackToBlock
    range,     \* the planned range
    batch,     \* the blocks whose logs were fetched
    outcome,   \* how the last execute() ended
    failures   \* failures so far

iterVars == <<current, stored, scan, floor, target, range, batch>>
vars == <<head, storeVars, pc, iterVars, outcome, failures>>

Steps == {"idle", "latestStored", "probe", "walkStored", "walkRpc", "recover",
          "head", "logs", "commit"}
Outcomes == {"none", "caughtUp", "behind", "failed"}
NoRange == [from |-> 0, to |-> -1, caughtUp |-> FALSE, remaining |-> 0]

TypeOK ==
    /\ head \in Blocks
    /\ StoreTypeOK
    /\ pc \in Steps
    /\ current \in Int \cup {None}
    /\ stored \in Blocks \cup {None}
    /\ scan \in Nat
    /\ floor \in Nat
    /\ target \in Int
    /\ range \in [from : Int, to : Int, caughtUp : BOOLEAN, remaining : Int]
    /\ batch \in SUBSET Blocks
    /\ outcome \in Outcomes
    /\ failures \in 0 .. MaxFailures

Init ==
    /\ ChainInit
    /\ StoreInit
    /\ pc = "idle"
    /\ current = None /\ stored = None
    /\ scan = 0 /\ floor = 0 /\ target = 0
    /\ range = NoRange /\ batch = {}
    /\ outcome = "none"
    /\ failures = 0

-----------------------------------------------------------------------------
(* execute() returns or throws: its local variables are gone. *)
EndIteration(how) ==
    /\ pc' = "idle"
    /\ current' = None /\ stored' = None
    /\ scan' = 0 /\ floor' = 0 /\ target' = 0
    /\ range' = NoRange /\ batch' = {}
    /\ outcome' = how

(* The checkpoint is read; reorg detection follows. *)
ReadCheckpoint ==
    /\ pc = "idle"
    /\ pc' = "latestStored"
    /\ current' = checkpoint
    /\ outcome' = "none"
    /\ UNCHANGED <<head, storeVars, stored, scan, floor, target, range, batch, failures>>

(* check(): the highest canonical row, if any block was ever stored. *)
FindLatestStored ==
    /\ pc = "latestStored"
    /\ \/ /\ CanonicalRows = {}
          /\ pc' = "head"
          /\ UNCHANGED stored
       \/ \E b \in LatestCanonicalRows :
          /\ stored' = b
          /\ pc' = "probe"
    /\ UNCHANGED <<head, storeVars, current, scan, floor, target, range, batch,
                   outcome, failures>>

\* Mutant: the lowest height of the walk is not clamped at 0.
ProbeLatest_Unclamped ==
    /\ pc = "probe"
    /\ \E b \in BlocksAt(Number[stored]) :
       \/ /\ b = stored
          /\ pc' = "head"
          /\ UNCHANGED <<scan, floor>>
       \/ /\ b # stored
          /\ pc' = "walkStored"
          /\ scan' = Number[stored]
          /\ floor' = Number[stored] - MaxRollbackDepth
    /\ stored' = None
    /\ UNCHANGED <<head, storeVars, current, target, range, batch, outcome, failures>>

(* check(): the node's block at the height of that row. *)
ProbeLatest ==
    /\ pc = "probe"
    /\ \E b \in BlocksAt(Number[stored]) :
       \/ /\ b = stored
          /\ pc' = "head"
          /\ UNCHANGED <<scan, floor>>
       \/ /\ b # stored
          /\ pc' = "walkStored"
          /\ scan' = Number[stored]
          /\ floor' = IF Number[stored] > MaxRollbackDepth
                      THEN Number[stored] - MaxRollbackDepth ELSE 0
    /\ stored' = None
    /\ UNCHANGED <<head, storeVars, current, target, range, batch, outcome, failures>>

(* findCommonAncestor returns n. *)
RollBackTo(n) ==
    /\ target' = n
    /\ pc' = "recover"
    /\ stored' = None /\ scan' = 0 /\ floor' = 0

(* findCommonAncestor: the canonical row at height scan.  A height without *)
(* a row ends the walk below it.                                           *)
WalkStored ==
    /\ pc = "walkStored"
    /\ \/ /\ CanonicalRowsAt(scan) = {}
          /\ RollBackTo(scan - 1)
       \/ \E b \in CanonicalRowsAt(scan) :
          /\ stored' = b
          /\ pc' = "walkRpc"
          /\ UNCHANGED <<scan, floor, target>>
    /\ UNCHANGED <<head, storeVars, current, range, batch, outcome, failures>>

\* Mutant: the walk keeps one height above the match.
WalkRpc_OffByOne ==
    /\ pc = "walkRpc"
    /\ \E b \in BlocksAt(scan) :
       \/ /\ b = stored
          /\ RollBackTo(scan + 1)
       \/ /\ b # stored /\ scan > floor
          /\ scan' = scan - 1
          /\ pc' = "walkStored"
          /\ stored' = None
          /\ UNCHANGED <<floor, target>>
       \/ /\ b # stored /\ scan = floor
          /\ RollBackTo(floor)
    /\ UNCHANGED <<head, storeVars, current, range, batch, outcome, failures>>

\* Mutant: the walk does not step down.
WalkRpc_NoStep ==
    /\ pc = "walkRpc"
    /\ \E b \in BlocksAt(scan) :
       \/ /\ b = stored
          /\ RollBackTo(scan)
       \/ /\ b # stored
          /\ pc' = "walkStored"
          /\ stored' = None
          /\ UNCHANGED <<scan, floor, target>>
    /\ UNCHANGED <<head, storeVars, current, range, batch, outcome, failures>>

(* findCommonAncestor: compare with the node's block; step down, or give *)
(* up at the lowest height the depth allows.                             *)
WalkRpc ==
    /\ pc = "walkRpc"
    /\ \E b \in BlocksAt(scan) :
       \/ /\ b = stored
          /\ RollBackTo(scan)
       \/ /\ b # stored /\ scan > floor
          /\ scan' = scan - 1
          /\ pc' = "walkStored"
          /\ stored' = None
          /\ UNCHANGED <<floor, target>>
       \/ /\ b # stored /\ scan = floor
          /\ RollBackTo(floor)
    /\ UNCHANGED <<head, storeVars, current, range, batch, outcome, failures>>

(* The node does not know the height: its chain is shorter than the store. *)
BlockNotFound ==
    /\ pc \in {"probe", "walkRpc"}
    /\ BlocksAt(Number[stored]) = {}
    /\ EndIteration("failed")
    /\ UNCHANGED <<head, storeVars, failures>>

\* Mutant: the local checkpoint is not refreshed after the recovery.
Recover_StaleCurrent ==
    /\ pc = "recover"
    /\ RecoveryTransaction(target)
    /\ pc' = "head"
    /\ target' = 0
    /\ UNCHANGED <<head, current, stored, scan, floor, range, batch, outcome, failures>>

(* The recovery transaction, and the local checkpoint with it. *)
Recover ==
    /\ pc = "recover"
    /\ RecoveryTransaction(target)
    /\ current' = target
    /\ target' = 0
    /\ pc' = "head"
    /\ UNCHANGED <<head, stored, scan, floor, range, batch, outcome, failures>>

(* The head is read and the range planned: the planner may throw, or find *)
(* nothing to do.                                                         *)
FetchHead ==
    /\ pc = "head"
    /\ LET plan == Plan(StartBlock, HeadNumber, current, BatchSize) IN
       \/ /\ PlanRejects(StartBlock, HeadNumber, current, BatchSize)
          /\ EndIteration("failed")
       \/ /\ ~PlanRejects(StartBlock, HeadNumber, current, BatchSize)
          /\ plan.to < plan.from
          /\ EndIteration("caughtUp")
       \/ /\ ~PlanRejects(StartBlock, HeadNumber, current, BatchSize)
          /\ plan.to >= plan.from
          /\ range' = plan
          /\ pc' = "logs"
          /\ UNCHANGED <<current, stored, scan, floor, target, batch, outcome>>
    /\ UNCHANGED <<head, storeVars, failures>>

(* The logs of the range are fetched, decoded and normalised. *)
FetchLogs ==
    /\ pc = "logs"
    /\ batch' = BlocksWithLogs(range.from, range.to)
    /\ pc' = "commit"
    /\ UNCHANGED <<head, storeVars, current, stored, scan, floor, target, range,
                   outcome, failures>>

(* The batch transaction; execute() returns. *)
Commit ==
    /\ pc = "commit"
    /\ BatchTransaction(batch, range.to)
    /\ EndIteration(IF range.caughtUp THEN "caughtUp" ELSE "behind")
    /\ UNCHANGED <<head, failures>>

-----------------------------------------------------------------------------
\* Mutant: the records are written outside the transaction.
Fail_TornBatch ==
    /\ pc # "idle"
    /\ failures < MaxFailures
    /\ failures' = failures + 1
    /\ EndIteration("failed")
    /\ facts' = SaveRecords(batch)
    /\ UNCHANGED <<head, checkpoint, metadata>>

(* The pending RPC call, query or transaction fails, or the process dies: *)
(* execute() throws or vanishes, an open transaction is rolled back.      *)
Fail ==
    /\ pc # "idle"
    /\ failures < MaxFailures
    /\ failures' = failures + 1
    /\ EndIteration("failed")
    /\ UNCHANGED <<head, storeVars>>

(* The database commits but the acknowledgement is lost (or the process *)
(* dies before it arrives): execute() throws after the effect.          *)
LoseAcknowledgement ==
    /\ failures < MaxFailures
    /\ failures' = failures + 1
    /\ \/ pc = "recover" /\ RecoveryTransaction(target)
       \/ pc = "commit" /\ BatchTransaction(batch, range.to)
    /\ EndIteration("failed")
    /\ UNCHANGED head

(* The chain moves on. *)
ChainGrows ==
    /\ Grow
    /\ UNCHANGED <<storeVars, pc, iterVars, outcome, failures>>

ChainReorganises ==
    /\ MidIterationReorgs \/ pc = "idle"
    /\ Reorganise
    /\ UNCHANGED <<storeVars, pc, iterVars, outcome, failures>>

-----------------------------------------------------------------------------
Execute ==
    \/ ReadCheckpoint \/ FindLatestStored \/ ProbeLatest \/ WalkStored \/ WalkRpc
    \/ BlockNotFound \/ Recover \/ FetchHead \/ FetchLogs \/ Commit

Next == Execute \/ Fail \/ LoseAcknowledgement \/ ChainGrows \/ ChainReorganises

Spec == Init /\ [][Next]_vars

(* The daemon calls execute() again after every return and every throw *)
(* until it is stopped, and every await of execute() is answered.      *)
FairSpec == Spec /\ WF_vars(Execute)

-----------------------------------------------------------------------------
(* Safety. *)

(* Once an iteration has checked for a reorganisation it plans and writes *)
(* on top of a cache that equals the best chain: exactly the logged       *)
(* blocks from StartBlock up to the local checkpoint are canonical.       *)
PlansOnTheBestChain ==
    pc \in {"head", "logs", "commit"} =>
        CanonicalRows =
            {b \in BestChain \cap LoggedBlocks :
                current # None /\ Number[b] \in StartBlock .. current}

(* What a call of execute() remembers stays true of the store until it    *)
(* writes, however long it waits for the node in between and whatever     *)
(* failed before: nobody else moves the checkpoint or the rows the walk   *)
(* compares (pipeline.ts:149-258), the walk stays at or below the         *)
(* checkpoint, and the planned range and the fetched blocks lie right     *)
(* above it, one block per height.                                        *)
LocalsFollowStore ==
    /\ pc # "idle" => current = checkpoint
    /\ pc \in {"probe", "walkRpc"} => stored \in CanonicalRows
    /\ pc \in {"walkStored", "walkRpc"} =>
          /\ checkpoint # None
          /\ floor <= scan /\ scan <= checkpoint
    /\ pc = "walkRpc" => Number[stored] = scan
    /\ pc = "recover" => checkpoint # None /\ target <= checkpoint
    /\ pc \in {"logs", "commit"} =>
          /\ range.from = NextFrom(StartBlock, checkpoint)
          /\ range.from <= range.to /\ range.to < range.from + BatchSize
    /\ pc = "commit" =>
          /\ \A b \in batch : Number[b] \in range.from .. range.to
          /\ \A b, c \in batch : Number[b] = Number[c] => b = c

(* The rollback target is a common ancestor (reorg.ts:162, "The last      *)
(* known good (common ancestor) block number"): every canonical row at or *)
(* below it is on the best chain.                                         *)
RollbackTargetIsAncestor ==
    pc = "recover" =>
        \A b \in CanonicalRows : Number[b] <= target => OnBestChain(b)

(* saveBlock "inserts a block header as canonical" (blockMetadata.ts:78): *)
(* when a batch commits, the blocks it indexed are the canonical ones.    *)
CommittedBlocksAreCanonical ==
    [][pc = "commit" /\ checkpoint' = range.to =>
          \A b \in batch : metadata'[b] = "canonical"]_vars

(* The checkpoint only moves with the rows: it goes down only to a height *)
(* above which no row stays canonical, and when it goes up every row that *)
(* becomes canonical lies in the heights just passed, which follow the    *)
(* old checkpoint without a gap and are at most BatchSize.                *)
CheckpointStep ==
    checkpoint' # checkpoint =>
        LET old == IF checkpoint = None THEN StartBlock - 1 ELSE checkpoint IN
        IF checkpoint' < old
        THEN \A b \in CanonicalRows' : Number[b] <= checkpoint'
        ELSE /\ checkpoint' - old <= BatchSize
             /\ \A b \in CanonicalRows' \ CanonicalRows : Number[b] \in old + 1 .. checkpoint'
             /\ CanonicalRows \subseteq CanonicalRows'

CheckpointMovesWithRows == [][CheckpointStep]_vars

-----------------------------------------------------------------------------
(* Liveness, under FairSpec. *)

(* Every call of execute() ends, whatever the walk meets. *)
IterationEnds == pc # "idle" ~> pc = "idle"

(* A row whose block left the best chain does not stay canonical: reads   *)
(* "guarantee that orphaned blocks are filtered out" (query-layer.md:11), *)
(* once the detector has had its turn.                                    *)
OrphansAreEventuallyFiltered ==
    \A b \in Blocks :
        (b \in CanonicalRows /\ ~OnBestChain(b)) ~> (b \notin CanonicalRows \/ OnBestChain(b))

(* Every logged block of the best chain from StartBlock on is eventually  *)
(* canonical in the cache, or leaves the chain.                           *)
BestChainIsEventuallyIndexed ==
    \A b \in LoggedBlocks :
        (OnBestChain(b) /\ Number[b] >= StartBlock) ~> (b \in CanonicalRows \/ ~OnBestChain(b))

-----------------------------------------------------------------------------
(* The pipeline implements the atomic index of CanonicalIndex: through    *)
(* every interleaving of its reads with the chain, every failed call and  *)
(* every lost acknowledgement, the cache only ever moves by whole batches *)
(* and whole rewinds.                                                     *)
OrphanedRows == {b \in Blocks : metadata[b] = "orphaned"}

Index == INSTANCE CanonicalIndex
            WITH height <- checkpoint, canonical <- CanonicalRows, retired <- OrphanedRows

ImplementsCanonicalIndex == Index!Spec

(* Nor does a reader of the cache see anything else: each write of the     *)
(* pipeline is one IndexerWrites allows.  Whatever moved between its       *)
(* awaits, a batch begins right above the checkpoint that is stored when   *)
(* it commits and holds the logs of one chain, complete as far as that     *)
(* chain reaches (pipeline.ts:196-286), and a rewind never passes the      *)
(* checkpoint it was planned from (reorg.ts:97-132).                       *)
WritesAsAnIndexer == [][storeVars' # storeVars => IndexBatch \/ IndexRecovery]_vars
=============================================================================
