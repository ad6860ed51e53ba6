------------------------------ MODULE EvmChain ------------------------------
(***************************************************************************)
(* The chain behind the RPC node.  The node's current best chain is one    *)
(* branch of the tree of blocks, named by its last block.  A reorganisa-   *)
(* tion moves the head to a block of another branch.                       *)
(***************************************************************************)
EXTENDS BlockTree

CONSTANTS
    Genesis,       \* where the chain starts
    Reorgs         \* the pairs <<b, c>> such that the head may move from b to c

ASSUME TheHeadStaysInTheTree ==
    /\ Genesis \in Blocks
    /\ Reorgs \subseteq Blocks \X Blocks

VARIABLE head      \* the last block of the best chain

\* Mutant: the upper end of the range is left out.
BlocksWithLogs_HalfOpen(m, n) ==
    BranchLogs(head, m, n - 1)

(* What the RPC node answers. *)
BestChain            == Branch[head]
HeadNumber           == Number[head]
OnBestChain(b)       == b \in BestChain
BlocksAt(n)          == {b \in BestChain : Number[b] = n}
BlocksWithLogs(m, n) == BranchLogs(head, m, n)

ChainInit == head = Genesis

(* A new block is appended to the best chain. *)
Grow ==
    \E b \in Blocks \ BestChain :
        /\ Branch[b] = BestChain \cup {b}
        /\ head' = b

(* The best chain becomes another branch. *)
Reorganise ==
    \E b \in Blocks :
        /\ <<head, b>> \in Reorgs
        /\ head' = b
=============================================================================
