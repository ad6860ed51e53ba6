---------------------------- MODULE EventDecoding ----------------------------
(***************************************************************************)
(* What packages/contracts makes of a raw log: AbiEventDecoder finds the   *)
(* event of one of four ABI profiles, and the handler registered for it    *)
(* turns the event into rows of the fact tables.                           *)
(*                                                                         *)
(* A log is a record: its place (chain, block, tx, index), the emitting    *)
(* `address`, the event its first topic names (`topic0`), how many         *)
(* `topics` it has, whether its `data` holds the unindexed arguments, and  *)
(* the arguments `args` the contract emitted.  Addresses and hashes are    *)
(* pairs <<value, spelling>>: the same value may be spelt in lower or in   *)
(* mixed (checksum) case.                                                  *)
(***************************************************************************)
EXTENDS Nullable, FiniteSets

CONSTANT Prefix    \* Prefix[h]: the first ten characters of the order hash h

Lower(hex) == <<hex[1], "lower">>

-----------------------------------------------------------------------------
(* The events of the ABI profiles: which arguments are topics of the log  *)
(* and which are in its data.                                             *)
Event(indexed, data) == [indexed |-> indexed, data |-> data]

VAULT_ABI ==
    [Deposited |-> Event({"token", "user"}, {"amount"}),
     Withdrawn |-> Event({"token", "user"}, {"amount"})]

SERA_ABI ==
    [OrderMatched |->
        Event({"orderHash0", "user0", "orderHash1"},
              {"token0", "amount0", "protocolTake0",
               "user1", "token1", "amount1", "protocolTake1"}),
     InstantWithdraw   |-> Event({"user", "uuid", "token"}, {"amount", "recipient"}),
     WithdrawRequested |-> Event({"user", "token", "requestBlock"}, {"amount"}),
     Withdraw          |-> Event({"token", "to"}, {"amount"})]

SERA_SOR_ABI ==
    [IntentMatched    |-> Event({"intentHash", "taker"}, {"legCount"}),
     IntentLegMatched |-> Event({"intentHash", "legIndex"},
                                {"takerOrderHash", "makerOrderHash"})]

SERA_BATCHER_ABI ==
    [BatchExecuted       |-> Event({}, {"attempted", "failedMask"}),
     MatchFailed         |-> Event({"orderHash0", "orderHash1", "batchIndex"}, {"reason"}),
     AtomicBatchExecuted |-> Event({}, {"matchCount"}),
     AtomicBatchFailed   |-> Event({}, {"batchIndex", "reason"}),
     IntentFailed        |-> Event({"intentIndex"}, {"reason"})]

ABI_MAP == [VAULT |-> VAULT_ABI, SERA |-> SERA_ABI,
            SERA_SOR |-> SERA_SOR_ABI, SERA_BATCHER |-> SERA_BATCHER_ABI]

AddressArgs == {"token", "user", "to", "recipient", "taker",
                "user0", "user1", "token0", "token1"}

-----------------------------------------------------------------------------
(* The decoder. *)

(* decodeEventLog({strict: false}) of viem: the event must be in the ABI   *)
(* and every indexed argument have its topic; missing data is forgiven.    *)
Decodes(abi, log) ==
    /\ log.topic0 \in DOMAIN abi
    /\ Cardinality(abi[log.topic0].indexed) < log.topics

(* normalizeArgs: the arguments that were found, addresses in lower case. *)
NormalizeArgs(event, log) ==
    [a \in event.indexed \cup (IF log.data THEN event.data ELSE {}) |->
        IF a \in AddressArgs THEN Lower(log.args[a]) ELSE log.args[a]]

\* Mutant: the other profiles are not scanned.
Decode_OwnProfileOnly(log) ==
    IF log.address \in DOMAIN ABI_MAP /\ Decodes(ABI_MAP[log.address], log)
    THEN [type |-> log.topic0, log |-> log,
          args |-> NormalizeArgs(ABI_MAP[log.address][log.topic0], log)]
    ELSE [type |-> "UnknownEvent", log |-> log, args |-> << >>]

(* decode: the profile of the address, else any other profile that knows  *)
(* the event (a proxy, a new deployment), else UnknownEvent.              *)
Decode(log) ==
    LET fitting == {c \in DOMAIN ABI_MAP : Decodes(ABI_MAP[c], log)}
        profile == IF log.address \in fitting THEN log.address
                   ELSE CHOOSE c \in fitting : TRUE
    IN  IF fitting = {}
        THEN [type |-> "UnknownEvent", log |-> log, args |-> << >>]
        ELSE [type |-> log.topic0, log |-> log,
              args |-> NormalizeArgs(ABI_MAP[profile][log.topic0], log)]

-----------------------------------------------------------------------------
(* The handlers: the records one event becomes.  `at` is the place of the  *)
(* record; the records of one event are numbered in the order the handler  *)
(* returns them.                                                           *)
At(e, nth) == [chain |-> e.log.chain, block |-> e.log.block, tx |-> Lower(e.log.tx),
               index |-> e.log.index, nth |-> nth]

DepositedHandler(e) ==
    {[recordType |-> "deposit", at |-> At(e, 0), user |-> e.args.user,
      token |-> e.args.token, amount |-> e.args.amount]}

Withdrawal(e, user, type, requestBlock) ==
    {[recordType |-> "withdrawal", at |-> At(e, 0), user |-> user,
      token |-> e.args.token, amount |-> e.args.amount,
      withdrawalType |-> type, requestBlock |-> requestBlock]}

WithdrawnHandler(e)         == Withdrawal(e, e.args.user, "standard", None)
InstantWithdrawHandler(e)   == Withdrawal(e, e.args.user, "instant", None)
WithdrawRequestedHandler(e) == Withdrawal(e, e.args.user, "emergency", e.args.requestBlock)
WithdrawHandler(e)          == Withdrawal(e, e.args.to, "emergency", None)

(* One fill of a trade; its key ends in ten characters of the order hash. *)
Fill(e, nth, orderHash, amount) ==
    [recordType |-> "order_fill", at |-> At(e, nth), orderHash |-> Lower(orderHash),
     fillId |-> <<Lower(e.log.tx), e.log.index, Prefix[Lower(orderHash)]>>,
     amount |-> amount]

(* A trade and the fills of its two orders; the price is an integer. *)
OrderMatchedHandler(e) ==
    {[recordType |-> "trade", at |-> At(e, 0),
      orders  |-> <<Lower(e.args.orderHash0), Lower(e.args.orderHash1)>>,
      users   |-> <<e.args.user0, e.args.user1>>,
      tokens  |-> <<e.args.token0, e.args.token1>>,
      amounts |-> <<e.args.amount0, e.args.amount1>>,
      takes   |-> <<e.args.protocolTake0, e.args.protocolTake1>>,
      price   |-> IF e.args.amount0 = 0 THEN 0 ELSE e.args.amount1 \div e.args.amount0],
     Fill(e, 1, e.args.orderHash0, e.args.amount0),
     Fill(e, 2, e.args.orderHash1, e.args.amount1)}

(* legCount is Number(undefined), NaN, when the data was missing. *)
IntentMatchedHandler(e) ==
    {[recordType |-> "swap", at |-> At(e, 0), intent |-> Lower(e.args.intentHash),
      taker |-> e.args.taker,
      legCount |-> IF "legCount" \in DOMAIN e.args THEN e.args.legCount ELSE None]}

(* The arguments a handler calls a method of: it throws if one is missing. *)
Dereferenced ==
    [Deposited         |-> {"user", "token", "amount"},
     Withdrawn         |-> {"user", "token", "amount"},
     InstantWithdraw   |-> {"user", "token", "amount"},
     WithdrawRequested |-> {"user", "token", "amount"},
     Withdraw          |-> {"to", "token", "amount"},
     OrderMatched      |-> {"user0", "user1", "token0", "token1", "orderHash0", "orderHash1",
                            "amount0", "amount1", "protocolTake0", "protocolTake1"},
     IntentMatched     |-> {"taker", "intentHash"}]

(* EventHandlerRegistry.handle: events without a handler, and the handlers *)
(* of IntentLegMatched, MatchFailed and IntentFailed, give no record.      *)
Handle(e) ==
    CASE e.type = "Deposited"         -> DepositedHandler(e)
      [] e.type = "Withdrawn"         -> WithdrawnHandler(e)
      [] e.type = "InstantWithdraw"   -> InstantWithdrawHandler(e)
      [] e.type = "WithdrawRequested" -> WithdrawRequestedHandler(e)
      [] e.type = "Withdraw"          -> WithdrawHandler(e)
      [] e.type = "OrderMatched"      -> OrderMatchedHandler(e)
      [] e.type = "IntentMatched"     -> IntentMatchedHandler(e)
      [] OTHER                        -> {}

-----------------------------------------------------------------------------
(* The pipeline's use of the two. *)

(* normalize throws a NormalizerError. *)
NormalizerFails(log) ==
    LET e == Decode(log)
    IN  e.type \in DOMAIN Dereferenced /\ ~(Dereferenced[e.type] \subseteq DOMAIN e.args)

RecordsOf(log) == IF NormalizerFails(log) THEN {} ELSE Handle(Decode(log))
=============================================================================
