---------------------------- MODULE QuietPipeline ----------------------------
(***************************************************************************)
(* What the detector's walk (reorg.ts:49-132) needs of the chain to keep   *)
(* the cache equal to it, and the invariant that then holds.  IndexingPi-  *)
(* peline says what is true of the cache on every chain; the runs that     *)
(* show violations show why the rest needs the conditions below.           *)
(***************************************************************************)
EXTENDS IndexingPipeline

CONSTANT Future    \* Future[b]: where the head may be once it has been at b

(* Future is closed under the moves of the head. *)
FutureIsClosed ==
    /\ Future \in [Blocks -> SUBSET Blocks]
    /\ \A b \in Blocks : b \in Future[b] /\ \A c \in Future[b] : Future[c] \subseteq Future[b]
    /\ \A b, c \in Blocks :
          Branch[c] = Branch[b] \cup {c} \/ <<b, c>> \in Reorgs => c \in Future[b]

(* The blocks some reorganisation leaves. *)
Left == UNION {Branch[p[1]] \ Branch[p[2]] : p \in Reorgs}

(* A quiet chain reorganises between two calls of execute() only, leaves a *)
(* block for good, leaves no block at or below StartBlock nor one that has *)
(* MaxRollbackDepth others on top of it, and every block it leaves holds a *)
(* log, so that the walk finds a row at its height.                        *)
QuietChain ==
    /\ ~MidIterationReorgs
    /\ FutureIsClosed
    /\ \A p \in Reorgs : \A b \in Branch[p[1]] \ Branch[p[2]] :
          \A d \in Future[p[2]] : b \notin Branch[d]
    /\ \A b \in Left : b \in LoggedBlocks /\ Number[b] > StartBlock
    /\ \A b \in Left, t \in Blocks :
          b \in Branch[t] => Number[t] - Number[b] < MaxRollbackDepth

-----------------------------------------------------------------------------
(* Left, and for good. *)
Abandoned(b) == b \in Left /\ \A d \in Future[head] : b \notin Branch[d]

(* The branch of t and the best chain share the block at height n. *)
Meets(t, n) == n >= StartBlock => \E b \in Branch[t] \cap BestChain : Number[b] = n

(* The canonical rows are the branch of t, cut at the checkpoint, *)
(* and what is not on the best chain of it never will be.         *)
Holds(t) ==
    /\ CanonicalRows =
         {b \in Branch[t] \cap LoggedBlocks :
             checkpoint # None /\ Number[b] \in StartBlock .. checkpoint}
    /\ checkpoint # None => StartBlock - 1 <= checkpoint /\ checkpoint <= Number[t]
    /\ \A b \in Branch[t] : OnBestChain(b) \/ Abandoned(b)

(* What the walk has found out: above scan no row is on the best chain. *)
WalkKnows ==
    /\ StartBlock <= scan
    /\ \A b \in CanonicalRows : Number[b] > scan => ~OnBestChain(b)
    /\ floor = 0 \/ \E b \in CanonicalRows : Number[b] = floor + MaxRollbackDepth

(* The rollback target is where the two part. *)
TargetParts(t) ==
    /\ StartBlock - 1 <= target
    /\ Meets(t, target)
    /\ \A b \in CanonicalRows : Number[b] > target => ~OnBestChain(b)

(* On a quiet chain the cache is at all times one branch, the one the head *)
(* was on when the last batch was fetched, cut at the checkpoint; the rows *)
(* that were orphaned never come back to the best chain; and whatever      *)
(* step execute() is at, what it has learnt so far is true of that branch  *)
(* and of the chain as it is now (pipeline.ts:149-291, reorg.ts:49-132).   *)
CacheIsOneBranch ==
    /\ \A b \in OrphanedRows : Abandoned(b)
    /\ \E t \in Blocks :
          /\ Holds(t)
          /\ pc = "recover" => TargetParts(t)
          /\ pc \in {"head", "logs", "commit"} /\ current # None => Meets(t, current)
    /\ pc = "probe" => stored \in LatestCanonicalRows
    /\ pc \in {"walkStored", "walkRpc"} => WalkKnows
    /\ pc \in {"logs", "commit"} => range.to <= HeadNumber
    /\ pc = "commit" => batch = BlocksWithLogs(range.from, range.to)
=============================================================================
