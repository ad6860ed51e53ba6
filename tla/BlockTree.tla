----------------------------- MODULE BlockTree -----------------------------
(***************************************************************************)
(* The blocks of the chain, which the code in src/ only reads: a constant  *)
(* tree of every block the network may ever produce.  Of a block's content *)
(* the indexer looks at three things: its number, its hash (the identity   *)
(* of the block here) and the logs the watched contracts emitted in it.    *)
(***************************************************************************)
EXTENDS Nullable

CONSTANTS
    Blocks,        \* every block of the tree; a block stands for its hash
    Number,        \* Number[b]: the height of b
    Branch,        \* Branch[b]: b and all its ancestors
    LoggedBlocks,  \* the blocks that hold a log of a watched contract
    Events,        \* identities (tx_hash, log_index) of normalised records
    Records        \* Records[b]: the events whose record lies in b

ASSUME ChainTypes ==
    /\ None \notin Blocks
    /\ Number \in [Blocks -> Nat]
    /\ Branch \in [Blocks -> SUBSET Blocks]
    /\ LoggedBlocks \subseteq Blocks
    /\ Records \in [Blocks -> SUBSET Events]

(* A branch is a chain: a block per height from 0 up to its last block. *)
ASSUME BranchIsAChain ==
    \A b \in Blocks :
        /\ b \in Branch[b]
        /\ \A x \in Branch[b] : Number[x] <= Number[b] /\ Branch[x] \subseteq Branch[b]
        /\ \A x, y \in Branch[b] : Number[x] = Number[y] => x = y
        /\ \A n \in 0 .. Number[b] : \E x \in Branch[b] : Number[x] = n

(* A record comes from a log, and a transaction is in a chain only once; *)
(* another branch may well include it again.                             *)
ASSUME RecordsComeFromLogs ==
    \A b \in Blocks :
        /\ Records[b] # {} => b \in LoggedBlocks
        /\ \A x \in Branch[b] : x # b => Records[x] \cap Records[b] = {}

(* No transaction is in two blocks of the tree: what a reorganisation *)
(* drops is not included again.                                       *)
NothingIsReincluded ==
    \A b, c \in Blocks : b # c => Records[b] \cap Records[c] = {}

(* The logged blocks of the chain that ends in t, at heights m .. n. *)
BranchLogs(t, m, n) == {b \in Branch[t] \cap LoggedBlocks : Number[b] \in m .. n}
=============================================================================
