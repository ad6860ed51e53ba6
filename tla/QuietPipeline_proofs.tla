------------------------ MODULE QuietPipeline_proofs ------------------------
(***************************************************************************)
(* On a quiet chain the pipeline keeps the cache equal to the best chain,  *)
(* for every tree of blocks, every depth of the walk and any number of     *)
(* failures.                                                               *)
(***************************************************************************)
EXTENDS QuietPipeline, IndexingPipeline_proofs

-----------------------------------------------------------------------------
(* Branches. *)

(* A branch holds the branches of its blocks, one block per height. *)
LEMMA BranchUpTo ==
    ASSUME NEW t \in Blocks, NEW x \in Branch[t], NEW y \in Branch[t],
           Number[x] <= Number[y]
    PROVE  x \in Branch[y]
<1>1. x \in Blocks /\ y \in Blocks /\ Number[x] \in Nat /\ Number[y] \in Nat
  BY ChainTypes
<1>2. PICK z \in Branch[y] : Number[z] = Number[x]
  BY <1>1, BranchIsAChain
<1>3. z \in Branch[t]
  BY <1>1, <1>2, BranchIsAChain
<1> QED
  BY <1>2, <1>3, BranchIsAChain

(* Two branches that share a block are the same below it. *)
LEMMA SameBelow ==
    ASSUME NEW s \in Blocks, NEW t \in Blocks, NEW y \in Branch[s] \cap Branch[t],
           NEW x \in Blocks, Number[x] <= Number[y]
    PROVE  x \in Branch[s] <=> x \in Branch[t]
<1>1. y \in Blocks
  BY ChainTypes
<1>2. Branch[y] \subseteq Branch[s] /\ Branch[y] \subseteq Branch[t]
  BY BranchIsAChain
<1> QED
  BY <1>1, <1>2, BranchUpTo

(* A block that extends a branch is higher than its last block. *)
LEMMA ExtensionIsHigher ==
    ASSUME NEW h \in Blocks, NEW b \in Blocks \ Branch[h], Branch[b] = Branch[h] \cup {b}
    PROVE  Number[h] < Number[b]
<1>1. Number[h] \in Nat /\ Number[b] \in Nat
  BY ChainTypes
<1>2. CASE Number[b] <= Number[h]
  <2>1. PICK x \in Branch[h] : Number[x] = Number[b]
    BY <1>1, <1>2, BranchIsAChain
  <2>2. x \in Branch[b] /\ b \in Branch[b]
    BY <2>1, BranchIsAChain
  <2>3. x = b
    BY <2>1, <2>2, BranchIsAChain
  <2> QED
    BY <2>1, <2>3
<1> QED
  BY <1>1, <1>2

(* The best chain has one block per height up to the head. *)
LEMMA BestChainIsABranch ==
    ASSUME head \in Blocks
    PROVE  /\ BestChain \subseteq Blocks
           /\ \A x, y \in BestChain : Number[x] = Number[y] => x = y
           /\ \A x \in BestChain : Number[x] <= HeadNumber
           /\ head \in BestChain
  BY ChainTypes, BranchIsAChain DEF BestChain, HeadNumber

-----------------------------------------------------------------------------
(* The moves of the head. *)

LEMMA HeadMoves ==
    ASSUME QuietChain, TypeOK, [Next]_vars, head' # head
    PROVE  /\ UNCHANGED <<storeVars, pc, iterVars>>
           /\ \/ Grow
              \/ pc = "idle" /\ Reorganise
  BY DEF Next, Execute, vars, ReadCheckpoint, FindLatestStored, ProbeLatest, WalkStored,
         WalkRpc, BlockNotFound, Recover, FetchHead, FetchLogs, Commit, Fail,
         LoseAcknowledgement, ChainGrows, ChainReorganises, QuietChain

LEMMA FutureOfTheHead ==
    ASSUME QuietChain, TypeOK, Grow \/ Reorganise
    PROVE  head' \in Blocks /\ head' \in Future[head] /\ Future[head'] \subseteq Future[head]
<1>1. head' \in Blocks /\ head' \in Future[head]
  <2>1. CASE Grow
    BY <2>1 DEF Grow, QuietChain, FutureIsClosed, BestChain, TypeOK
  <2>2. CASE Reorganise
    BY <2>2 DEF Reorganise, QuietChain, FutureIsClosed, TypeOK
  <2> QED
    BY <2>1, <2>2
<1> QED
  BY <1>1 DEF QuietChain, FutureIsClosed, TypeOK

(* What is abandoned stays so, and is not on the best chain. *)
LEMMA AbandonedIsOffTheChain ==
    ASSUME QuietChain, TypeOK, NEW b, Abandoned(b)
    PROVE  ~OnBestChain(b)
  BY DEF Abandoned, QuietChain, FutureIsClosed, TypeOK, OnBestChain, BestChain

LEMMA AbandonedForGood ==
    ASSUME QuietChain, TypeOK, Grow \/ Reorganise, NEW b, Abandoned(b)
    PROVE  Abandoned(b)'
  BY FutureOfTheHead DEF Abandoned

(* A block of the best chain stays on it, or is abandoned. *)
LEMMA OnTheChainOrAbandoned ==
    ASSUME QuietChain, TypeOK, Grow \/ Reorganise, NEW b, OnBestChain(b)
    PROVE  OnBestChain(b)' \/ Abandoned(b)'
<1>1. CASE Grow
  BY <1>1 DEF Grow, OnBestChain, BestChain
<1>2. CASE Reorganise
  <2>1. /\ <<head, head'>> \in Reorgs
        /\ head' \in Blocks
    BY <1>2 DEF Reorganise
  <2>2. CASE b \notin Branch[head']
    <3>1. b \in Branch[head] \ Branch[head']
      BY <2>2 DEF OnBestChain, BestChain
    <3>2. b \in Left
      BY <2>1, <3>1 DEF Left
    <3>3. \A d \in Future[head'] : b \notin Branch[d]
      BY <2>1, <3>1 DEF QuietChain
    <3> QED
      BY <3>2, <3>3 DEF Abandoned
  <2> QED
    BY <2>2 DEF OnBestChain, BestChain
<1> QED
  BY <1>1, <1>2

LEMMA GrowthIsAbove ==
    ASSUME TypeOK, Grow
    PROVE  /\ BestChain \subseteq BestChain' /\ BestChain' \subseteq Blocks
           /\ \A b \in BestChain' \ BestChain : HeadNumber < Number[b]
           /\ HeadNumber < HeadNumber'
           /\ \A m, n \in Int : n <= HeadNumber => BlocksWithLogs(m, n)' = BlocksWithLogs(m, n)
<1>1. PICK b \in Blocks \ Branch[head] : Branch[b] = Branch[head] \cup {b} /\ head' = b
  BY DEF Grow, BestChain
<1>2. Number[head] < Number[b]
  BY <1>1, ExtensionIsHigher DEF TypeOK
<1>3. BestChain' = BestChain \cup {b}
  BY <1>1 DEF BestChain
<1>4. BestChain \subseteq Blocks /\ Number[head] \in Nat /\ Number[b] \in Nat
  BY <1>1, ChainTypes DEF BestChain, TypeOK
<1>5. ASSUME NEW m \in Int, NEW n \in Int, n <= HeadNumber
      PROVE  BlocksWithLogs(m, n)' = BlocksWithLogs(m, n)
  <2>1. Number[b] \notin m .. n
    BY <1>2, <1>4, <1>5 DEF HeadNumber
  <2> QED
    BY <1>3, <2>1 DEF BlocksWithLogs, BranchLogs, BestChain
<1> QED
  BY <1>1, <1>2, <1>3, <1>4, <1>5 DEF HeadNumber

-----------------------------------------------------------------------------
(* The branch the cache holds. *)

LEMMA HoldsStays ==
    ASSUME QuietChain, TypeOK, NEW t \in Blocks, Holds(t), UNCHANGED storeVars,
           head' = head \/ Grow \/ Reorganise
    PROVE  Holds(t)'
<1>1. CanonicalRows' = CanonicalRows /\ checkpoint' = checkpoint
  BY DEF storeVars, CanonicalRows
<1>2. \A b \in Branch[t] : OnBestChain(b)' \/ Abandoned(b)'
  <2>1. CASE head' = head
    BY <2>1 DEF Holds, OnBestChain, BestChain, Abandoned
  <2>2. CASE Grow \/ Reorganise
    BY <2>2, OnTheChainOrAbandoned, AbandonedForGood DEF Holds
  <2> QED
    BY <2>1, <2>2
<1> QED
  BY <1>1, <1>2 DEF Holds

LEMMA OrphansStayAbandoned ==
    ASSUME QuietChain, TypeOK, \A b \in OrphanedRows : Abandoned(b), UNCHANGED storeVars,
           head' = head \/ Grow \/ Reorganise
    PROVE  \A b \in OrphanedRows' : Abandoned(b)'
<1>1. OrphanedRows' = OrphanedRows
  BY DEF storeVars, OrphanedRows
<1>2. CASE head' = head
  BY <1>1, <1>2 DEF Abandoned
<1>3. CASE Grow \/ Reorganise
  BY <1>1, <1>3, AbandonedForGood
<1> QED
  BY <1>2, <1>3

(* Where a branch meets the best chain, it has met it below as well. *)
LEMMA MeetsBelow ==
    ASSUME TypeOK, NEW t \in Blocks, NEW n \in Int, StartBlock <= n, Meets(t, n),
           NEW m \in Int, m <= n
    PROVE  Meets(t, m)
<1> SUFFICES ASSUME m >= StartBlock
             PROVE  \E b \in Branch[t] \cap BestChain : Number[b] = m
  BY DEF Meets
<1>1. PICK y \in Branch[t] \cap BestChain : Number[y] = n
  BY DEF Meets
<1>2. y \in Blocks
  BY ChainTypes
<1>3. m \in 0 .. Number[y]
  BY <1>1, PipelineConfig, StartBlockAssumption
<1>4. PICK z \in Branch[y] : Number[z] = m
  BY <1>2, <1>3, BranchIsAChain
<1>5. z \in Branch[t] /\ z \in Branch[head]
  BY <1>1, <1>2, <1>4, BranchIsAChain DEF BestChain, TypeOK
<1> QED
  BY <1>4, <1>5 DEF BestChain

(* Where the two meet they agree on everything below. *)
LEMMA AgreeBelow ==
    ASSUME TypeOK, NEW t \in Blocks, Holds(t), checkpoint # None,
           NEW n \in Int, n <= checkpoint, Meets(t, n)
    PROVE  {b \in CanonicalRows : Number[b] <= n}
              = {b \in BestChain \cap LoggedBlocks : Number[b] \in StartBlock .. n}
<1>1. CASE n < StartBlock
  <2>1. \A b \in CanonicalRows : Number[b] \in Int /\ Number[b] >= StartBlock
    BY DEF Holds
  <2> QED
    BY <1>1, <2>1, ChainTypes, PipelineConfig, StartBlockAssumption DEF BestChain, TypeOK
<1>2. CASE n >= StartBlock
  <2>1. PICK y \in Branch[t] \cap Branch[head] : Number[y] = n
    BY <1>2 DEF Meets, BestChain
  <2>2. \A b \in Blocks : Number[b] <= n => (b \in Branch[t] <=> b \in Branch[head])
    BY <2>1, SameBelow DEF TypeOK
  <2>3. Branch[t] \subseteq Blocks /\ Branch[head] \subseteq Blocks /\ checkpoint \in Int
    BY ChainTypes DEF TypeOK, StoreTypeOK
  <2>4. \A b \in Blocks : Number[b] \in Nat
    BY ChainTypes
  <2> QED
    BY <2>2, <2>3, <2>4, PipelineConfig, StartBlockAssumption DEF Holds, BestChain
<1> QED
  BY <1>1, <1>2, PipelineConfig, StartBlockAssumption

(* A height of the branch without a row holds a block that is still on the *)
(* best chain, for every block a reorganisation leaves has a row.          *)
LEMMA NoRowMeets ==
    ASSUME QuietChain, TypeOK, NEW t \in Blocks, Holds(t), checkpoint # None,
           NEW n \in Int, n <= checkpoint, CanonicalRowsAt(n) = {}
    PROVE  Meets(t, n)
<1> SUFFICES ASSUME n >= StartBlock
             PROVE  \E b \in Branch[t] \cap BestChain : Number[b] = n
  BY DEF Meets
<1>1. checkpoint \in Int /\ checkpoint <= Number[t] /\ Number[t] \in Nat
  BY ChainTypes DEF Holds, TypeOK, StoreTypeOK
<1>2. n \in 0 .. Number[t] /\ n \in StartBlock .. checkpoint
  BY <1>1, PipelineConfig, StartBlockAssumption
<1>3. PICK y \in Branch[t] : Number[y] = n
  BY <1>2, BranchIsAChain
<1>4. y \notin LoggedBlocks
  BY <1>2, <1>3 DEF Holds, CanonicalRowsAt
<1>5. OnBestChain(y)
  BY <1>3, <1>4 DEF Holds, Abandoned, QuietChain
<1> QED
  BY <1>3, <1>5 DEF OnBestChain

-----------------------------------------------------------------------------
(* The inductive invariant. *)

QuietInv == IInv /\ CacheIsOneBranch

(* While nothing is remembered, only the rows matter. *)
LEMMA IdleCache ==
    ASSUME pc' \in {"idle", "latestStored"},
           \A b \in OrphanedRows' : Abandoned(b)',
           \E t \in Blocks : Holds(t)'
    PROVE  CacheIsOneBranch'
  BY DEF CacheIsOneBranch

LEMMA QuietInitially ==
    ASSUME QuietChain, Init
    PROVE  CacheIsOneBranch
<1>1. CanonicalRows = {} /\ OrphanedRows = {} /\ pc = "idle" /\ head \in Blocks
  BY ChainTypes, TheHeadStaysInTheTree DEF Init, ChainInit, StoreInit, CanonicalRows, OrphanedRows
<1>2. Holds(head)
  BY <1>1 DEF Holds, Init, StoreInit, OnBestChain, BestChain
<1> QED
  BY <1>1, <1>2 DEF CacheIsOneBranch

(* A batch moves the cache onto the best chain. *)
LEMMA BatchHolds ==
    ASSUME QuietChain, QuietInv, pc = "commit", BatchTransaction(batch, range.to),
           head' = head
    PROVE  /\ Holds(head)'
           /\ \A b \in OrphanedRows' : Abandoned(b)'
           /\ \A b \in batch : metadata'[b] = "canonical"
<1> USE DEF QuietInv, IInv
<1> USE ChainTypes, PipelineConfig, StartBlockAssumption, NoneAssumption
<1>1. /\ range.from \in Int /\ range.to \in Int
      /\ range.from = NextFrom(StartBlock, checkpoint)
      /\ range.from <= range.to
      /\ current = checkpoint /\ checkpoint \in Int \cup {None}
  BY DEF TypeOK, LocalsFollowStore, StoreTypeOK
<1>2. /\ batch = {b \in BestChain \cap LoggedBlocks : Number[b] \in range.from .. range.to}
      /\ range.to <= HeadNumber
  BY DEF CacheIsOneBranch, BlocksWithLogs, BranchLogs, BestChain
<1>3. batch \subseteq Blocks /\ BestChain \subseteq Blocks /\ head \in Blocks
  BY BestChainIsABranch DEF TypeOK
<1>4. \A b \in batch : metadata[b] = "absent"
  <2> SUFFICES ASSUME NEW b \in batch PROVE metadata[b] = "absent"
    OBVIOUS
  <2>1. b \notin OrphanedRows
    BY <1>2, AbandonedIsOffTheChain DEF CacheIsOneBranch, OnBestChain
  <2>2. b \notin CanonicalRows
    BY <1>1, <1>2, <1>3 DEF TablesAgree, CanonicalBehindCheckpoint, NextFrom
  <2> QED
    BY <1>3, <2>1, <2>2 DEF CanonicalRows, OrphanedRows, TypeOK, StoreTypeOK, RowStates
<1>5. /\ CanonicalRows' = CanonicalRows \cup batch
      /\ OrphanedRows' = OrphanedRows
      /\ \A b \in batch : metadata'[b] = "canonical"
  BY <1>3, <1>4
  DEF BatchTransaction, SaveBlocks, CanonicalRows, OrphanedRows, TypeOK, StoreTypeOK, RowStates
<1>6. CanonicalRows = {b \in BestChain \cap LoggedBlocks :
                         checkpoint # None /\ Number[b] \in StartBlock .. checkpoint}
  <2>1. PICK t \in Blocks : Holds(t) /\ (current # None => Meets(t, current))
    BY DEF CacheIsOneBranch
  <2>2. CASE checkpoint = None
    BY <2>1, <2>2 DEF Holds
  <2>3. CASE checkpoint # None
    <3>1. {b \in CanonicalRows : Number[b] <= checkpoint}
            = {b \in BestChain \cap LoggedBlocks : Number[b] \in StartBlock .. checkpoint}
      BY <1>1, <2>1, <2>3, AgreeBelow
    <3>2. \A b \in CanonicalRows : Number[b] <= checkpoint
      BY DEF TablesAgree, CanonicalBehindCheckpoint
    <3> QED
      BY <2>3, <3>1, <3>2
  <2> QED
    BY <2>2, <2>3
<1>7. checkpoint # None => StartBlock - 1 <= checkpoint
  BY DEF CacheIsOneBranch, Holds
<1>8. checkpoint' = range.to /\ StartBlock <= range.from
  BY <1>1, <1>7 DEF BatchTransaction, SaveCheckpoint, NextFrom
<1>9. \A b \in Blocks : Number[b] \in StartBlock .. range.to <=>
          \/ Number[b] \in range.from .. range.to
          \/ checkpoint # None /\ Number[b] \in StartBlock .. checkpoint
  BY <1>1, <1>7 DEF NextFrom
<1>10. CanonicalRows' = {b \in BestChain \cap LoggedBlocks :
                           Number[b] \in StartBlock .. range.to}
  BY <1>2, <1>3, <1>5, <1>6, <1>9
<1>11. Holds(head)'
  BY <1>1, <1>2, <1>8, <1>10 DEF Holds, BestChain, OnBestChain, HeadNumber
<1>12. \A b \in OrphanedRows' : Abandoned(b)'
  BY <1>5 DEF CacheIsOneBranch, Abandoned
<1> QED
  BY <1>5, <1>11, <1>12

(* A rewind to where the two part keeps the branch below. *)
LEMMA RecoveryHolds ==
    ASSUME QuietChain, QuietInv, pc = "recover", RecoveryTransaction(target), head' = head,
           NEW t \in Blocks, Holds(t), TargetParts(t)
    PROVE  /\ Holds(t)'
           /\ \A b \in OrphanedRows' : Abandoned(b)'
<1> USE DEF QuietInv, IInv
<1> USE ChainTypes, PipelineConfig, StartBlockAssumption, NoneAssumption
<1>1. /\ checkpoint' = target /\ target \in Int /\ checkpoint \in Int
      /\ target <= checkpoint /\ StartBlock - 1 <= target
  BY DEF RecoveryTransaction, SaveCheckpoint, LocalsFollowStore, TypeOK, StoreTypeOK,
         TargetParts
<1>2. CanonicalRows' = {b \in CanonicalRows : Number[b] <= target}
  BY <1>1, MarkNonCanonicalRows DEF RecoveryTransaction, TypeOK
<1>3. OrphanedRows' = OrphanedRows \cup {b \in CanonicalRows : Number[b] >= target + 1}
  BY DEF RecoveryTransaction, MarkNonCanonical, OrphanedRows, CanonicalRows, TypeOK,
         StoreTypeOK, RowStates
<1>4. Branch[t] \subseteq Blocks /\ Number[t] \in Nat /\ \A b \in Blocks : Number[b] \in Nat
  OBVIOUS
<1>5. CanonicalRows' = {b \in Branch[t] \cap LoggedBlocks : Number[b] \in StartBlock .. target}
  BY <1>1, <1>2, <1>4 DEF Holds
<1>6. target <= Number[t]
  BY <1>1, <1>4 DEF Holds
<1>7. Holds(t)'
  BY <1>1, <1>5, <1>6 DEF Holds, OnBestChain, BestChain, Abandoned
<1>8. \A b \in CanonicalRows : Number[b] >= target + 1 => Abandoned(b)
  BY <1>1, <1>4 DEF TargetParts, Holds
<1>9. \A b \in OrphanedRows' : Abandoned(b)'
  BY <1>3, <1>8 DEF CacheIsOneBranch, Abandoned
<1> QED
  BY <1>7, <1>9

(* The walk starts at the highest row, which has left the best chain. *)
LEMMA ProbeKnows ==
    ASSUME QuietChain, QuietInv, ProbeLatest
    PROVE  CacheIsOneBranch'
<1> USE DEF QuietInv, IInv
<1> USE ChainTypes, PipelineConfig, StartBlockAssumption, NoneAssumption
<1>1. /\ UNCHANGED <<head, storeVars, current>>
      /\ pc = "probe"
      /\ stored \in LatestCanonicalRows
      /\ current = checkpoint
  BY DEF ProbeLatest, CacheIsOneBranch, LocalsFollowStore
<1>2. PICK t \in Blocks : Holds(t)
  BY DEF CacheIsOneBranch
<1>3. Holds(t)' /\ \A b \in OrphanedRows' : Abandoned(b)'
  BY <1>1, <1>2, HoldsStays, OrphansStayAbandoned DEF CacheIsOneBranch
<1>4. /\ stored \in CanonicalRows /\ \A c \in CanonicalRows : Number[c] <= Number[stored]
      /\ stored \in Blocks /\ Number[stored] \in Nat
  BY <1>1 DEF LatestCanonicalRows, CanonicalRows
<1>5. /\ stored \in Branch[t] /\ checkpoint # None /\ checkpoint \in Int
      /\ StartBlock <= Number[stored] /\ Number[stored] <= checkpoint
  BY <1>2, <1>4 DEF Holds, TypeOK, StoreTypeOK
<1>6. CASE pc' = "head" /\ stored \in BestChain
  <2>1. Meets(t, checkpoint)
    <3>1. CASE Number[stored] = checkpoint
      BY <1>5, <1>6, <3>1 DEF Meets
    <3>2. CASE Number[stored] # checkpoint
      <4>1. CanonicalRowsAt(checkpoint) = {}
        BY <1>4, <1>5, <3>2 DEF CanonicalRowsAt
      <4> QED
        BY <1>2, <1>5, <4>1, NoRowMeets
    <3> QED
      BY <3>1, <3>2
  <2>2. Meets(t, current)'
    BY <1>1, <2>1 DEF Meets, BestChain
  <2> QED
    BY <1>3, <1>6, <2>2 DEF CacheIsOneBranch
<1>7. CASE /\ pc' = "walkStored"
           /\ scan' = Number[stored]
           /\ floor' = IF Number[stored] > MaxRollbackDepth
                       THEN Number[stored] - MaxRollbackDepth ELSE 0
  <2>1. CanonicalRows' = CanonicalRows
    BY <1>1 DEF CanonicalRows, storeVars
  <2>2. floor' = 0 \/ Number[stored] = floor' + MaxRollbackDepth
    BY <1>4, <1>7
  <2>3. \A b \in CanonicalRows : ~(Number[b] > Number[stored])
    BY <1>4 DEF CanonicalRows
  <2>4. WalkKnows'
    BY <1>4, <1>5, <1>7, <2>1, <2>2, <2>3 DEF WalkKnows
  <2> QED
    BY <1>3, <1>7, <2>4 DEF CacheIsOneBranch
<1>8. PICK b \in BlocksAt(Number[stored]) :
           \/ b = stored /\ pc' = "head"
           \/ /\ pc' = "walkStored"
              /\ scan' = Number[stored]
              /\ floor' = IF Number[stored] > MaxRollbackDepth
                          THEN Number[stored] - MaxRollbackDepth ELSE 0
  BY DEF ProbeLatest
<1> QED
  BY <1>6, <1>7, <1>8 DEF BlocksAt

(* A height without a row ends the walk where the chains have met. *)
LEMMA WalkStoredKnows ==
    ASSUME QuietChain, QuietInv, WalkStored
    PROVE  CacheIsOneBranch'
<1> USE DEF QuietInv, IInv
<1> USE ChainTypes, PipelineConfig, StartBlockAssumption, NoneAssumption
<1>1. /\ UNCHANGED <<head, storeVars>> /\ CanonicalRows' = CanonicalRows
      /\ WalkKnows /\ scan \in Nat
      /\ checkpoint # None /\ checkpoint \in Int /\ scan <= checkpoint
  BY DEF WalkStored, CacheIsOneBranch, LocalsFollowStore, TypeOK, StoreTypeOK, storeVars,
         CanonicalRows
<1>2. PICK t \in Blocks : Holds(t)
  BY DEF CacheIsOneBranch
<1>3. Holds(t)' /\ \A b \in OrphanedRows' : Abandoned(b)'
  BY <1>1, <1>2, HoldsStays, OrphansStayAbandoned DEF CacheIsOneBranch
<1>4. CASE CanonicalRowsAt(scan) = {} /\ RollBackTo(scan - 1)
  <2>1. Meets(t, scan)
    BY <1>1, <1>2, <1>4, NoRowMeets
  <2>2. Meets(t, scan - 1)
    BY <1>1, <2>1, MeetsBelow DEF WalkKnows
  <2>3. \A b \in CanonicalRows : Number[b] > scan - 1 => ~OnBestChain(b)
    BY <1>1, <1>4 DEF WalkKnows, CanonicalRowsAt, CanonicalRows
  <2>4. TargetParts(t)'
    BY <1>1, <1>4, <2>2, <2>3
    DEF RollBackTo, TargetParts, Meets, WalkKnows, OnBestChain, BestChain
  <2> QED
    BY <1>3, <1>4, <2>4 DEF CacheIsOneBranch, RollBackTo
<1>5. CASE pc' = "walkRpc" /\ UNCHANGED <<scan, floor, target>>
  <2>1. WalkKnows'
    BY <1>1, <1>5 DEF WalkKnows, OnBestChain, BestChain
  <2> QED
    BY <1>3, <1>5, <2>1 DEF CacheIsOneBranch
<1> QED
  BY <1>4, <1>5 DEF WalkStored

(* The walk ends at a common block, or goes on below a row that has left;  *)
(* it never gives up at the depth limit, for nothing that deep is left.    *)
LEMMA WalkRpcKnows ==
    ASSUME QuietChain, QuietInv, WalkRpc
    PROVE  CacheIsOneBranch'
<1> USE DEF QuietInv, IInv
<1> USE ChainTypes, PipelineConfig, StartBlockAssumption, NoneAssumption
<1>1. /\ UNCHANGED <<head, storeVars>> /\ CanonicalRows' = CanonicalRows
      /\ WalkKnows /\ scan \in Nat /\ floor \in Nat
      /\ stored \in CanonicalRows /\ Number[stored] = scan
  BY DEF WalkRpc, CacheIsOneBranch, LocalsFollowStore, TypeOK, storeVars, CanonicalRows
<1>2. PICK t \in Blocks : Holds(t)
  BY DEF CacheIsOneBranch
<1>3. Holds(t)' /\ \A b \in OrphanedRows' : Abandoned(b)'
  BY <1>1, <1>2, HoldsStays, OrphansStayAbandoned DEF CacheIsOneBranch
<1>4. CanonicalRows \subseteq Branch[t] /\ stored \in Blocks
  BY <1>1, <1>2 DEF Holds, CanonicalRows
<1>5. PICK b \in BlocksAt(scan) :
        \/ b = stored /\ RollBackTo(scan)
        \/ /\ b # stored /\ scan > floor
           /\ scan' = scan - 1 /\ pc' = "walkStored" /\ floor' = floor
        \/ b # stored /\ scan = floor
  BY DEF WalkRpc
<1>6. CASE b = stored /\ RollBackTo(scan)
  <2>1. Meets(t, scan)
    BY <1>1, <1>4, <1>5, <1>6 DEF Meets, BlocksAt
  <2>2. TargetParts(t)'
    BY <1>1, <1>6, <2>1 DEF RollBackTo, TargetParts, Meets, WalkKnows, OnBestChain, BestChain
  <2> QED
    BY <1>3, <1>6, <2>2 DEF CacheIsOneBranch, RollBackTo
<1>7. ASSUME b # stored
      PROVE  ~OnBestChain(stored) /\ stored \in Left /\ Number[stored] > StartBlock
  <2>1. ~OnBestChain(stored)
    BY <1>1, <1>5, <1>7, BestChainIsABranch DEF BlocksAt, OnBestChain, TypeOK
  <2>2. stored \in Left
    BY <1>1, <1>2, <1>4, <2>1 DEF Holds, Abandoned
  <2> QED
    BY <2>1, <2>2 DEF QuietChain
<1>8. CASE /\ b # stored /\ scan > floor
           /\ scan' = scan - 1 /\ pc' = "walkStored" /\ floor' = floor
  <2>1. \A c \in CanonicalRows : Number[c] > scan - 1 => ~OnBestChain(c)
    <3> SUFFICES ASSUME NEW c \in CanonicalRows, Number[c] > scan - 1
                 PROVE  ~OnBestChain(c)
      OBVIOUS
    <3>1. Number[c] \in Nat
      BY DEF CanonicalRows
    <3>2. CASE Number[c] = scan
      BY <1>1, <1>7, <1>8, <3>2 DEF TablesAgree, OneCanonicalBlockPerHeight
    <3>3. CASE Number[c] > scan
      BY <1>1, <3>3 DEF WalkKnows
    <3> QED
      BY <1>1, <3>1, <3>2, <3>3
  <2>2. WalkKnows'
    BY <1>1, <1>7, <1>8, <2>1 DEF WalkKnows, OnBestChain, BestChain
  <2> QED
    BY <1>3, <1>8, <2>2 DEF CacheIsOneBranch
<1>9. CASE b # stored /\ scan = floor
  <2>1. floor # 0
    BY <1>1, <1>7, <1>9
  <2>2. PICK c \in CanonicalRows : Number[c] = floor + MaxRollbackDepth
    BY <1>1, <2>1 DEF WalkKnows
  <2>3. c \in Blocks /\ Number[stored] <= Number[c]
    BY <1>1, <1>9, <2>2 DEF CanonicalRows
  <2>4. stored \in Branch[c]
    BY <1>1, <1>4, <2>2, <2>3, BranchUpTo
  <2>5. Number[c] - Number[stored] < MaxRollbackDepth
    BY <1>7, <1>9, <2>3, <2>4 DEF QuietChain
  <2> QED
    BY <1>1, <1>9, <2>2, <2>5
<1> QED
  BY <1>5, <1>6, <1>8, <1>9

(* The head grows under what execute() has learnt, or moves between calls. *)
LEMMA ChainMovesOn ==
    ASSUME QuietChain, QuietInv, UNCHANGED <<storeVars, pc, iterVars>>,
           Grow \/ (pc = "idle" /\ Reorganise)
    PROVE  CacheIsOneBranch'
<1> USE DEF QuietInv, IInv
<1> USE ChainTypes, PipelineConfig, StartBlockAssumption, NoneAssumption
<1>1. PICK t \in Blocks :
        /\ Holds(t)
        /\ pc = "recover" => TargetParts(t)
        /\ pc \in {"head", "logs", "commit"} /\ current # None => Meets(t, current)
  BY DEF CacheIsOneBranch
<1>2. Holds(t)' /\ \A b \in OrphanedRows' : Abandoned(b)'
  BY <1>1, HoldsStays, OrphansStayAbandoned DEF CacheIsOneBranch
<1>3. CASE pc = "idle"
  BY <1>2, <1>3, IdleCache
<1>4. CASE Grow
  <2> USE <1>4
  <2>1. /\ UNCHANGED <<pc, current, stored, scan, floor, target, range, batch>>
        /\ CanonicalRows' = CanonicalRows /\ LatestCanonicalRows' = LatestCanonicalRows
    BY DEF iterVars, storeVars, CanonicalRows, LatestCanonicalRows
  <2>2. /\ BestChain \subseteq BestChain' /\ BestChain' \subseteq Blocks
        /\ HeadNumber < HeadNumber' /\ HeadNumber \in Nat /\ HeadNumber' \in Nat
    BY GrowthIsAbove, FutureOfTheHead DEF HeadNumber, TypeOK
  <2>3. ASSUME NEW n, Meets(t, n)
        PROVE  Meets(t, n)'
    BY <2>2, <2>3 DEF Meets
  <2>4. \A b \in CanonicalRows : ~OnBestChain(b) => ~OnBestChain(b)'
    <3> SUFFICES ASSUME NEW b \in CanonicalRows, ~OnBestChain(b)
                 PROVE  ~OnBestChain(b)'
      OBVIOUS
    <3>1. Abandoned(b)
      BY <1>1 DEF Holds
    <3>2. Abandoned(b)'
      BY <3>1, AbandonedForGood
    <3>3. head' \in Future[head']
      BY FutureOfTheHead DEF QuietChain, FutureIsClosed
    <3> QED
      BY <3>2, <3>3 DEF Abandoned, OnBestChain, BestChain
  <2>5. pc = "recover" => TargetParts(t)'
    BY <1>1, <2>1, <2>3, <2>4 DEF TargetParts
  <2>6. pc \in {"head", "logs", "commit"} /\ current # None => Meets(t, current)'
    BY <1>1, <2>1, <2>3
  <2>7. pc \in {"walkStored", "walkRpc"} => WalkKnows'
    BY <2>1, <2>4 DEF WalkKnows, CacheIsOneBranch
  <2>8. pc \in {"logs", "commit"} => range.to <= HeadNumber'
    <3>1. range.to \in Int
      BY DEF TypeOK
    <3> QED
      BY <2>2, <3>1 DEF CacheIsOneBranch
  <2>9. pc = "commit" => batch = BlocksWithLogs(range.from, range.to)'
    <3>1. range.to \in Int /\ range.from \in Int
      BY DEF TypeOK
    <3>2. pc = "commit" =>
             BlocksWithLogs(range.from, range.to)' = BlocksWithLogs(range.from, range.to)
      BY <2>1, <3>1, GrowthIsAbove DEF CacheIsOneBranch, BlocksWithLogs
    <3> QED
      BY <3>2 DEF CacheIsOneBranch
  <2> QED
    BY <1>2, <2>1, <2>5, <2>6, <2>7, <2>8, <2>9 DEF CacheIsOneBranch
<1> QED
  BY <1>3, <1>4

LEMMA QuietStep ==
    ASSUME QuietChain, QuietInv, [Next]_vars
    PROVE  CacheIsOneBranch'
<1> USE DEF QuietInv, IInv
<1> USE ChainTypes, PipelineConfig, StartBlockAssumption, NoneAssumption
<1>1. PICK t \in Blocks :
        /\ Holds(t)
        /\ pc = "recover" => TargetParts(t)
        /\ pc \in {"head", "logs", "commit"} /\ current # None => Meets(t, current)
  BY DEF CacheIsOneBranch
<1>2. ASSUME UNCHANGED <<head, storeVars>>
      PROVE  Holds(t)' /\ \A b \in OrphanedRows' : Abandoned(b)'
  BY <1>1, <1>2, HoldsStays, OrphansStayAbandoned DEF CacheIsOneBranch
<1>3. ASSUME UNCHANGED <<head, storeVars>>, NEW how, EndIteration(how)
      PROVE  CacheIsOneBranch'
  BY <1>2, <1>3, IdleCache DEF EndIteration
<1>4. CASE ReadCheckpoint
  BY <1>2, <1>4, IdleCache DEF ReadCheckpoint
<1>5. CASE FindLatestStored
  <2>1. UNCHANGED <<head, storeVars, current, range, batch>> /\ current = checkpoint
    BY <1>5 DEF FindLatestStored, LocalsFollowStore
  <2>2. CASE CanonicalRows = {} /\ pc' = "head"
    <3>1. current # None => Meets(t, current)
      <4> SUFFICES ASSUME current # None PROVE Meets(t, current)
        OBVIOUS
      <4>1. checkpoint \in Int /\ CanonicalRowsAt(checkpoint) = {}
        BY <2>1, <2>2 DEF CanonicalRowsAt, TypeOK, StoreTypeOK
      <4> QED
        BY <1>1, <2>1, <4>1, NoRowMeets
    <3>2. current' # None => Meets(t, current)'
      BY <2>1, <3>1 DEF Meets, BestChain
    <3> QED
      BY <1>2, <2>1, <2>2, <3>2 DEF CacheIsOneBranch
  <2>3. CASE pc' = "probe" /\ stored' \in LatestCanonicalRows
    <3>1. LatestCanonicalRows' = LatestCanonicalRows
      BY <2>1 DEF LatestCanonicalRows, CanonicalRows, storeVars
    <3> QED
      BY <1>2, <2>1, <2>3, <3>1 DEF CacheIsOneBranch
  <2> QED
    BY <1>5, <2>2, <2>3 DEF FindLatestStored
<1>6. CASE ProbeLatest
  BY <1>6, ProbeKnows
<1>7. CASE WalkStored
  BY <1>7, WalkStoredKnows
<1>8. CASE WalkRpc
  BY <1>8, WalkRpcKnows
<1>9. CASE BlockNotFound
  BY <1>3, <1>9 DEF BlockNotFound
<1>10. CASE Recover
  <2>1. pc = "recover" /\ RecoveryTransaction(target) /\ head' = head
        /\ pc' = "head" /\ current' = target
    BY <1>10 DEF Recover
  <2>2. Holds(t)' /\ \A b \in OrphanedRows' : Abandoned(b)'
    BY <1>1, <2>1, RecoveryHolds
  <2>3. Meets(t, current)'
    BY <1>1, <2>1 DEF TargetParts, Meets, BestChain
  <2> QED
    BY <2>1, <2>2, <2>3 DEF CacheIsOneBranch
<1>11. CASE FetchHead
  <2> DEFINE plan == Plan(StartBlock, HeadNumber, current, BatchSize)
  <2>1. UNCHANGED <<head, storeVars>> /\ pc = "head"
    BY <1>11 DEF FetchHead
  <2>2. CASE EndIteration("failed") \/ EndIteration("caughtUp")
    BY <1>3, <2>1, <2>2
  <2>3. CASE /\ plan.to >= plan.from
             /\ range' = plan /\ pc' = "logs" /\ current' = current
    <3>1. HeadNumber \in Nat /\ current \in Int \cup {None}
      BY DEF HeadNumber, TypeOK
    <3>2. plan.to <= HeadNumber
      BY <2>3, <3>1 DEF Plan, NextFrom
    <3>3. range'.to <= HeadNumber'
      BY <2>1, <2>3, <3>2 DEF HeadNumber
    <3>4. current' # None => Meets(t, current)'
      BY <1>1, <2>1, <2>3 DEF Meets, BestChain
    <3> HIDE DEF plan
    <3> QED
      BY <1>2, <2>1, <2>3, <3>3, <3>4 DEF CacheIsOneBranch
  <2> QED
    BY <1>11, <2>2, <2>3 DEF FetchHead
<1>12. CASE FetchLogs
  <2>1. /\ UNCHANGED <<head, storeVars, current, range>> /\ pc = "logs" /\ pc' = "commit"
        /\ batch' = BlocksWithLogs(range.from, range.to)
    BY <1>12 DEF FetchLogs
  <2>2. range'.to <= HeadNumber'
    BY <2>1 DEF CacheIsOneBranch, HeadNumber
  <2>3. batch' = BlocksWithLogs(range.from, range.to)'
    BY <2>1 DEF BlocksWithLogs, BestChain
  <2>4. current' # None => Meets(t, current)'
    BY <1>1, <2>1 DEF Meets, BestChain
  <2> QED
    BY <1>2, <2>1, <2>2, <2>3, <2>4 DEF CacheIsOneBranch
<1>13. CASE Commit
  BY <1>13, BatchHolds, IdleCache DEF Commit, EndIteration, TypeOK
<1>14. CASE Fail
  BY <1>3, <1>14 DEF Fail
<1>15. CASE LoseAcknowledgement
  <2>1. CASE pc = "recover" /\ RecoveryTransaction(target)
    BY <1>1, <1>15, <2>1, RecoveryHolds, IdleCache DEF LoseAcknowledgement, EndIteration
  <2>2. CASE pc = "commit" /\ BatchTransaction(batch, range.to)
    BY <1>15, <2>2, BatchHolds, IdleCache DEF LoseAcknowledgement, EndIteration, TypeOK
  <2> QED
    BY <1>15, <2>1, <2>2 DEF LoseAcknowledgement
<1>16. CASE ChainGrows
  <2> HIDE DEF QuietInv, IInv
  <2>1. Grow \/ (pc = "idle" /\ Reorganise)
    BY <1>16 DEF ChainGrows
  <2>2. UNCHANGED <<storeVars, pc, iterVars>>
    BY <1>16 DEF ChainGrows
  <2> QED
    BY <2>1, <2>2, ChainMovesOn
<1>17. CASE ChainReorganises
  <2>1. pc = "idle" /\ Reorganise /\ UNCHANGED <<storeVars, pc, iterVars>>
    BY <1>17 DEF ChainReorganises, QuietChain
  <2> HIDE DEF QuietInv, IInv
  <2> QED
    BY <2>1, ChainMovesOn
<1>18. CASE UNCHANGED vars
  <2>1. /\ UNCHANGED <<head, storeVars, pc, current, stored, scan, floor, target, range, batch>>
        /\ UNCHANGED <<CanonicalRows, OrphanedRows, LatestCanonicalRows, HeadNumber, BestChain>>
    BY <1>18 DEF vars, iterVars, storeVars, CanonicalRows, OrphanedRows,
                 LatestCanonicalRows, HeadNumber, BestChain
  <2>2. (pc = "recover" => TargetParts(t)')
        /\ (pc \in {"head", "logs", "commit"} /\ current # None => Meets(t, current)')
    BY <1>1, <2>1 DEF TargetParts, Meets, OnBestChain
  <2>3. pc \in {"walkStored", "walkRpc"} => WalkKnows'
    BY <2>1 DEF WalkKnows, OnBestChain, CacheIsOneBranch
  <2>4. BlocksWithLogs(range.from, range.to)' = BlocksWithLogs(range.from, range.to)
    BY <2>1 DEF BlocksWithLogs
  <2> QED
    BY <1>2, <2>1, <2>2, <2>3, <2>4 DEF CacheIsOneBranch
<1> QED
  BY <1>4, <1>5, <1>6, <1>7, <1>8, <1>9, <1>10, <1>11, <1>12, <1>13, <1>14, <1>15,
     <1>16, <1>17, <1>18 DEF Next, Execute

(* The cache is one branch, cut at the checkpoint, on every quiet chain. *)
THEOREM TheCacheIsOneBranch == ASSUME QuietChain PROVE Spec => []CacheIsOneBranch
<1>1. Init => CacheIsOneBranch
  BY QuietInitially
<1>2. IInv /\ CacheIsOneBranch /\ [Next]_vars => CacheIsOneBranch'
  BY QuietStep DEF QuietInv
<1> QED
  BY <1>1, <1>2, IInvAlways, PTL DEF Spec

-----------------------------------------------------------------------------
(* What follows from it. *)

LEMMA RowsAreTheBestChain ==
    ASSUME QuietInv
    PROVE  PlansOnTheBestChain
<1> USE DEF QuietInv, IInv
<1> SUFFICES ASSUME pc \in {"head", "logs", "commit"}
             PROVE  CanonicalRows = {b \in BestChain \cap LoggedBlocks :
                                       current # None /\ Number[b] \in StartBlock .. current}
  BY DEF PlansOnTheBestChain
<1>1. current = checkpoint /\ checkpoint \in Int \cup {None}
  BY DEF LocalsFollowStore, TypeOK, StoreTypeOK
<1>2. PICK t \in Blocks : Holds(t) /\ (current # None => Meets(t, current))
  BY DEF CacheIsOneBranch
<1>3. CASE checkpoint = None
  BY <1>1, <1>2, <1>3 DEF Holds
<1>4. CASE checkpoint # None
  <2>1. {b \in CanonicalRows : Number[b] <= checkpoint}
          = {b \in BestChain \cap LoggedBlocks : Number[b] \in StartBlock .. checkpoint}
    BY <1>1, <1>2, <1>4, AgreeBelow
  <2>2. \A b \in CanonicalRows : Number[b] <= checkpoint
    BY DEF TablesAgree, CanonicalBehindCheckpoint
  <2> QED
    BY <1>1, <1>4, <2>1, <2>2
<1> QED
  BY <1>1, <1>3, <1>4

(* Once execute() has checked for a reorganisation the cache equals the *)
(* best chain from StartBlock up to the checkpoint.                     *)
THEOREM PlansOnTheChain == ASSUME QuietChain PROVE Spec => []PlansOnTheBestChain
<1>1. IInv /\ CacheIsOneBranch => PlansOnTheBestChain
  BY RowsAreTheBestChain DEF QuietInv
<1> QED
  BY <1>1, IInvAlways, TheCacheIsOneBranch, PTL

LEMMA TargetIsCommon ==
    ASSUME QuietInv
    PROVE  RollbackTargetIsAncestor
<1> USE DEF QuietInv, IInv
<1> SUFFICES ASSUME pc = "recover", NEW b \in CanonicalRows, Number[b] <= target
             PROVE  OnBestChain(b)
  BY DEF RollbackTargetIsAncestor
<1>1. PICK t \in Blocks : Holds(t) /\ TargetParts(t)
  BY DEF CacheIsOneBranch
<1>2. checkpoint # None /\ target \in Int /\ target <= checkpoint
  BY DEF LocalsFollowStore, TypeOK
<1>3. b \in {c \in BestChain \cap LoggedBlocks : Number[c] \in StartBlock .. target}
  BY <1>1, <1>2, AgreeBelow DEF TargetParts
<1> QED
  BY <1>3 DEF OnBestChain

(* The walk ends at a common ancestor of the cache and the chain. *)
THEOREM WalksToAnAncestor == ASSUME QuietChain PROVE Spec => []RollbackTargetIsAncestor
<1>1. IInv /\ CacheIsOneBranch => RollbackTargetIsAncestor
  BY TargetIsCommon DEF QuietInv
<1> QED
  BY <1>1, IInvAlways, TheCacheIsOneBranch, PTL

LEMMA CommitStep ==
    ASSUME QuietChain, QuietInv, [Next]_vars, pc = "commit", checkpoint' = range.to
    PROVE  \A b \in batch : metadata'[b] = "canonical"
<1> USE DEF QuietInv, IInv
<1>1. CASE BatchTransaction(batch, range.to) /\ head' = head
  BY <1>1, BatchHolds
<1>2. CASE UNCHANGED storeVars
  <2>1. checkpoint = range.to
    BY <1>2 DEF storeVars
  <2>2. /\ range.from = NextFrom(StartBlock, checkpoint) /\ range.from <= range.to
        /\ range.to \in Int /\ checkpoint \in Int \cup {None}
    BY DEF LocalsFollowStore, TypeOK, StoreTypeOK
  <2> QED
    BY <2>1, <2>2, NoneAssumption DEF NextFrom
<1> QED
  BY <1>1, <1>2, StoreSteps, HeadMoves

(* What a batch indexed is canonical once it has committed. *)
THEOREM CommittedIsCanonical == ASSUME QuietChain PROVE Spec => CommittedBlocksAreCanonical
<1>1. IInv /\ CacheIsOneBranch /\ [Next]_vars =>
        [pc = "commit" /\ checkpoint' = range.to =>
            \A b \in batch : metadata'[b] = "canonical"]_vars
  BY CommitStep DEF QuietInv
<1> QED
  BY <1>1, IInvAlways, TheCacheIsOneBranch, PTL DEF Spec, CommittedBlocksAreCanonical

-----------------------------------------------------------------------------
(* The reads, on any chain. *)

LEMMA StoredBlocksHaveFactsStep ==
    ASSUME NothingIsReincluded, IInv, StoredBlocksHaveFacts, [Next]_vars
    PROVE  StoredBlocksHaveFacts'
<1>1. CASE BatchTransaction(batch, range.to)
  BY <1>1, BatchStoresItsFacts DEF IInv, TypeOK, TablesAgree
<1>2. CASE RecoveryTransaction(target)
  BY <1>2, RecoveryKeepsTheFacts
<1>3. CASE UNCHANGED storeVars
  BY <1>3 DEF storeVars, StoredBlocksHaveFacts
<1> QED
  BY <1>1, <1>2, <1>3, StoreSteps

(* However the chain reorganises and whatever fails, a canonical read      *)
(* returns exactly the records of the canonical blocks, unless a reorgani- *)
(* sation includes a transaction again.                                    *)
THEOREM ReadsAreCanonical ==
    ASSUME NothingIsReincluded PROVE Spec => []ReadsShowTheCanonicalBlocks
<1>1. Init => StoredBlocksHaveFacts
  BY DEF Init, StoreInit, StoredBlocksHaveFacts
<1>2. IInv /\ StoredBlocksHaveFacts /\ [Next]_vars => StoredBlocksHaveFacts'
  BY StoredBlocksHaveFactsStep
<1>3. IInv /\ StoredBlocksHaveFacts => ReadsShowTheCanonicalBlocks
  BY ReadsFollow DEF IInv, TypeOK, TablesAgree
<1> QED
  BY <1>1, <1>2, <1>3, IInvAlways, PTL DEF Spec
=============================================================================
