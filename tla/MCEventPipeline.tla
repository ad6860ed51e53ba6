--------------------------- MODULE MCEventPipeline ---------------------------
(***************************************************************************)
(* Two replicas of one indexer on the chain "main" and an indexer of the   *)
(* chain "side".  Main's logs: two deposits of one transaction, a trade,   *)
(* withdrawals of three kinds, one emitted by a proxy, a routed swap, an   *)
(* event no profile knows and one no handler keeps.  Side's: a deposit,    *)
(* then a swap whose data is missing, which the database refuses, then a   *)
(* withdrawal whose data is missing, which the handler throws at.          *)
(***************************************************************************)
EXTENDS EventPipeline

CONSTANTS r1, r2, side, TopMain, TopSide

MCProcesses == {r1, r2, side}
MCName  == [p \in MCProcesses |-> IF p = side THEN "sidechain" ELSE "sera"]
MCChain == [p \in MCProcesses |-> IF p = side THEN "side" ELSE "main"]
MCTop   == [c \in {"main", "side"} |-> IF c = "main" THEN TopMain ELSE TopSide]
MCWatched == {"VAULT", "SERA", "SERA_SOR", "PROXY"}

Mixed(value) == <<value, "mixed">>

MCPrefix == [h \in {Lower(Mixed(v)) : v \in {"order0", "order1"}} |->
                IF h[1] = "order0" THEN "0xaa" ELSE "0xbb"]
MCTxOrder == [h \in {Lower(Mixed(v)) : v \in {"t1", "t2", "t3"}} |->
                 CASE h[1] = "t1" -> 3 [] h[1] = "t2" -> 1 [] h[1] = "t3" -> 2]

(* A log whose arguments are all there. *)
Log(chain, block, tx, index, address, topic0, topics, args) ==
    [chain |-> chain, block |-> block, tx |-> Mixed(tx), index |-> index,
     address |-> address, topic0 |-> topic0, topics |-> topics, data |-> TRUE,
     args |-> args]

NoData(log) == [log EXCEPT !.data = FALSE]

Transfer(who, token) == [user |-> Mixed(who), token |-> Mixed(token), amount |-> 7]

Match == [orderHash0 |-> Mixed("order0"), orderHash1 |-> Mixed("order1"),
          user0 |-> Mixed("alice"), user1 |-> Mixed("bob"),
          token0 |-> Mixed("usd"), token1 |-> Mixed("eur"), amount0 |-> 2, amount1 |-> 5,
          protocolTake0 |-> 0, protocolTake1 |-> 1]

MCLogs ==
    {Log("main", 1, "t1", 0, "VAULT", "Deposited", 3, Transfer("alice", "usd")),
     Log("main", 1, "t1", 1, "VAULT", "Deposited", 3, Transfer("alice", "eur")),
     Log("main", 1, "t2", 2, "SERA", "OrderMatched", 4, Match),
     Log("main", 1, "t2", 3, "SERA", "Transfer", 3, << >>),
     Log("main", 2, "t3", 0, "PROXY", "Withdrawn", 3, Transfer("bob", "usd")),
     Log("main", 2, "t3", 1, "SERA_SOR", "IntentMatched", 3,
         [intentHash |-> Mixed("intent"), taker |-> Mixed("bob"), legCount |-> 1]),
     Log("main", 2, "t3", 2, "SERA_SOR", "IntentLegMatched", 3,
         [intentHash |-> Mixed("intent"), legIndex |-> 0,
          takerOrderHash |-> Mixed("order0"), makerOrderHash |-> Mixed("order1")]),
     Log("main", 2, "t3", 3, "SERA", "InstantWithdraw", 4,
         [user |-> Mixed("alice"), uuid |-> 1, token |-> Mixed("usd"),
          recipient |-> Mixed("bob"), amount |-> 1]),
     Log("main", 2, "t3", 4, "SERA", "WithdrawRequested", 4,
         [user |-> Mixed("alice"), token |-> Mixed("usd"), requestBlock |-> 3, amount |-> 1]),
     Log("side", 1, "t1", 0, "VAULT", "Deposited", 3, Transfer("alice", "usd")),
     NoData(Log("side", 2, "t2", 0, "SERA_SOR", "IntentMatched", 3,
                [intentHash |-> Mixed("intent"), taker |-> Mixed("bob")])),
     NoData(Log("side", 3, "t3", 0, "SERA", "Withdraw", 3,
                [token |-> Mixed("usd"), to |-> Mixed("bob")]))}
=============================================================================
