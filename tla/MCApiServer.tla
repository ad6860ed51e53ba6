----------------------------- MODULE MCApiServer -----------------------------
(***************************************************************************)
(* A chain a0 - a1 - a2 and a fork b1 - b2 that replaces a1 and a2.  The   *)
(* deposits of alice lie in a1 and in the competing a2 and b2, a trade of  *)
(* alice and bob in b2; a0 and b1 hold no logs, so that the cache may      *)
(* carry b2 on top of a1.                                                  *)
(***************************************************************************)
EXTENDS ApiServer

CONSTANTS c1, c2, a0, a1, a2, b1, b2, dep1, dep2, dep3, trade, alice, bob, usd

MCBlocks  == {a0, a1, a2, b1, b2}
MCNumber  == [b \in MCBlocks |-> CASE b = a0 -> 0 [] b \in {a1, b1} -> 1 [] OTHER -> 2]
MCBranch  == [b \in MCBlocks |-> CASE b = a0 -> {a0} [] b = a1 -> {a0, a1}
                                   [] b = a2 -> {a0, a1, a2} [] b = b1 -> {a0, b1}
                                   [] b = b2 -> {a0, b1, b2}]
MCLogged  == {a1, a2, b2}
MCEvents  == {dep1, dep2, dep3, trade}
MCRecords == [b \in MCBlocks |-> CASE b = a1 -> {dep1} [] b = a2 -> {dep2}
                                   [] b = b2 -> {dep3, trade} [] OTHER -> {}]
MCKind    == [e \in MCEvents |-> IF e = trade THEN "trade" ELSE "deposit"]
MCUsersOf == [e \in MCEvents |-> IF e = trade THEN {alice, bob} ELSE {alice}]

Request(route, key, spelling) == [route |-> route, key |-> key, spelling |-> spelling]

(* Every route but those of a given block, keys spelt as the cache spells them. *)
StoredSpelling ==
    {Request("health", None, "lower"), Request("latest", None, "lower"),
     Request("deposit", dep2, "lower"), Request("deposits", alice, "lower"),
     Request("trades", bob, "lower"), Request("token", usd, "lower"),
     Request("deposits", alice, "malformed")}

(* As a wallet spells an address. *)
WalletSpelling == StoredSpelling \cup {Request("deposits", alice, "checksum")}

(* The routes of a given block: 0, which is refused, and a block that a *)
(* batch stores and a recovery orphans.                                 *)
BlockRequests ==
    {Request("number", 0, "lower"), Request("number", 2, "lower"), Request("hash", a2, "lower")}
=============================================================================
