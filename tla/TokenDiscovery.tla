---------------------------- MODULE TokenDiscovery ----------------------------
(***************************************************************************)
(* DefaultDiscoveryEngine of packages/metadata with the three rules of     *)
(* discoveryRules.ts: which tokens a sequence of records names, and which  *)
(* observation of each is kept.  It is a pure function of its input.       *)
(***************************************************************************)
EXTENDS Integers, Sequences

(* The candidate fields a rule looks at, by record type: trades and fills *)
(* have no rule, and the fields of the swap rule are optional.            *)
TokenFields ==
    [deposit    |-> [token |-> "Deposit"],
     withdrawal |-> [token |-> "Withdrawal"],
     swap       |-> [inputToken |-> "Swap", outputToken |-> "Swap", feeToken |-> "Swap"]]

(* discover: one candidate per field the record has. *)
Candidates(r) ==
    IF r.recordType \notin DOMAIN TokenFields THEN {}
    ELSE {[token |-> r[f], chain |-> r.at.chain, block |-> r.at.block, tx |-> r.at.tx,
           index |-> r.at.index, reason |-> TokenFields[r.recordType][f]] :
             f \in DOMAIN TokenFields[r.recordType] \cap DOMAIN r}

CONSTANT TxOrder     \* TxOrder[h]: the rank of a transaction hash in localeCompare

(* The comparator of the sort: block, transaction hash, log index. *)
Earlier(c, d) ==
    \/ c.block < d.block
    \/ c.block = d.block /\ TxOrder[c.tx] < TxOrder[d.tx]
    \/ c.block = d.block /\ c.tx = d.tx /\ c.index < d.index

\* Mutant: the group is not sorted, its first candidate is taken.
Canonical_FirstSeen(records, group) ==
    LET i == CHOOSE i \in DOMAIN records :
                 /\ Candidates(records[i]) \cap group # {}
                 /\ \A j \in 1 .. i - 1 : Candidates(records[j]) \cap group = {}
    IN  CHOOSE c \in Candidates(records[i]) \cap group : TRUE

(* candidates[0] after the (stable) sort: none is earlier, and of equals   *)
(* the one whose record came first.                                        *)
Canonical(records, group) ==
    LET first == {c \in group : \A d \in group : ~Earlier(d, c)}
        i     == CHOOSE i \in DOMAIN records :
                     /\ Candidates(records[i]) \cap first # {}
                     /\ \A j \in 1 .. i - 1 : Candidates(records[j]) \cap first = {}
    IN  CHOOSE c \in Candidates(records[i]) \cap first : TRUE

(* discoverTokens: the candidates of the chain, grouped by token. *)
DiscoverTokens(records, chain) ==
    LET found  == {c \in UNION {Candidates(records[i]) : i \in DOMAIN records} :
                      c.chain = chain}
        Group(t) == {c \in found : c.token = t}
    IN  {Canonical(records, Group(t)) : t \in {c.token : c \in found}}
=============================================================================
