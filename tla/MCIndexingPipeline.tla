------------------------- MODULE MCIndexingPipeline -------------------------
(***************************************************************************)
(* Block trees for TLC: the trunk "a" from genesis to Top, a fork "b" that *)
(* leaves it after height ForkB and ends at TopB, and a fork "c" that      *)
(* leaves b after ForkC and ends at TopC (a fork is empty when its top is  *)
(* not above the height where it leaves).  A block is <<fork, height>>.    *)
(***************************************************************************)
EXTENDS IndexingPipeline

CONSTANTS Top, ForkB, TopB, ForkC, TopC

Run(fork, m, n) == {<<fork, i>> : i \in m .. n}

Trunk == Run("a", 0, Top)
B     == Run("b", ForkB + 1, TopB)
C     == Run("c", ForkC + 1, TopC)

MCGenesis == <<"a", 0>>
MCBlocks  == Trunk \cup B \cup C
MCNumber  == [x \in MCBlocks |-> x[2]]
MCBranch  ==
    [x \in MCBlocks |->
        CASE x[1] = "a" -> Run("a", 0, x[2])
          [] x[1] = "b" -> Run("a", 0, ForkB) \cup Run("b", ForkB + 1, x[2])
          [] x[1] = "c" -> Run("a", 0, ForkB) \cup Run("b", ForkB + 1, ForkC)
                               \cup Run("c", ForkC + 1, x[2])]

(* Which blocks hold logs: all but genesis; or every second block of the  *)
(* trunk and, from where the forks leave it, all; or the first fork's     *)
(* only; or those at odd heights.                                         *)
AllLogged   == MCBlocks \ {MCGenesis}
SparseTrunk == {x \in AllLogged : x[2] % 2 = 0 \/ x[2] >= ForkB}
ForkLogged  == B
OddLogged   == {x \in MCBlocks : x[2] % 2 = 1}

(* Where the head may jump: to a later fork that is at least as high; or  *)
(* back to the fork it came from as well; or to any block that neither    *)
(* descends from it nor is an ancestor of it, lower ones included.        *)
Competing(x, y) == x \notin MCBranch[y] /\ y \notin MCBranch[x]
Rank(x)     == CASE x[1] = "a" -> 1 [] x[1] = "b" -> 2 [] x[1] = "c" -> 3
AnyHeight   == {p \in MCBlocks \X MCBlocks : Competing(p[1], p[2])}
BothWays    == {p \in AnyHeight : p[2][2] >= p[1][2]}
Onwards     == {p \in BothWays : Rank(p[1]) < Rank(p[2])}
Never       == {}

(* The records: one per logged block; or the competing blocks of a height *)
(* include the same transaction.                                          *)
OwnEvents     == LoggedBlocks
OwnRecords    == [x \in MCBlocks |-> {x} \cap LoggedBlocks]
SharedEvents  == {x[2] : x \in LoggedBlocks}
SharedRecords == [x \in MCBlocks |-> {x[2]} \cap {y[2] : y \in {x} \cap LoggedBlocks}]
=============================================================================
