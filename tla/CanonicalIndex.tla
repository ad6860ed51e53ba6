--------------------------- MODULE CanonicalIndex ---------------------------
(***************************************************************************)
(* What the indexing pipeline promises whoever reads the cache, without    *)
(* its iterations, calls, walks and failures: the cache moves in whole     *)
(* batches.  Either it appends the blocks of the heights right above the   *)
(* checkpoint, at most BatchSize of them and one block per height, with    *)
(* all their records; or it rewinds, and then nothing above the new        *)
(* checkpoint stays canonical.  A retired block never comes back, a fact   *)
(* is never changed, and nothing else ever happens.                        *)
(***************************************************************************)
EXTENDS Nullable

CONSTANTS Blocks, Number, Events, Records, StartBlock, BatchSize

VARIABLES
    height,      \* the last height accounted for, None at first
    canonical,   \* the blocks reads show
    retired,     \* the blocks that were canonical once
    facts        \* facts[e]: the block event e was first recorded in, or None

vars == <<height, canonical, retired, facts>>

Init ==
    /\ height = None
    /\ canonical = {} /\ retired = {}
    /\ facts = [e \in Events |-> None]

Indexed == IF height = None THEN StartBlock - 1 ELSE height

(* The blocks of one batch: at most one per height, all of them new heights. *)
Batches(to) ==
    {S \in SUBSET {b \in Blocks : Number[b] \in Indexed + 1 .. to} :
        \A x, y \in S : Number[x] = Number[y] => x = y}

Append ==
    /\ height' \in Indexed + 1 .. Indexed + BatchSize
    /\ \E S \in Batches(height') :
        /\ canonical' = canonical \cup (S \ retired)
        /\ facts' \in [Events -> Blocks \cup {None}]
        /\ \A e \in Events :
             IF facts[e] = None /\ \E b \in S : e \in Records[b]
             THEN facts'[e] \in {b \in S : e \in Records[b]}
             ELSE facts'[e] = facts[e]
    /\ retired' = retired

Rewind ==
    /\ height # None
    /\ height' \in Int
    /\ height' <= height
    /\ canonical' = {b \in canonical : Number[b] <= height'}
    /\ retired' = retired \cup (canonical \ canonical')
    /\ facts' = facts

Next == Append \/ Rewind

Spec == Init /\ [][Next]_vars
=============================================================================
