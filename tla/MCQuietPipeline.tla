--------------------------- MODULE MCQuietPipeline ---------------------------
(***************************************************************************)
(* The block trees of MCIndexingPipeline under a head that only moves      *)
(* onwards, from a fork to a later one.                                    *)
(***************************************************************************)
EXTENDS MCIndexingPipeline, QuietPipeline

MCFuture ==
    [x \in MCBlocks |-> {y \in MCBlocks : \/ Rank(x) < Rank(y)
                                          \/ Rank(x) = Rank(y) /\ x[2] <= y[2]}]

ASSUME TheChainIsQuiet == QuietChain /\ NothingIsReincluded
=============================================================================
