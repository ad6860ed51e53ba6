------------------------ MODULE TokenDiscovery_proofs ------------------------
(***************************************************************************)
(* What discoverTokens finds in a batch, for every set of logs and every   *)
(* order of their records.                                                 *)
(***************************************************************************)
EXTENDS EventPipeline_proofs, FiniteSetTheorems, FunctionTheorems

(* The least number principle. *)
LessThan == {pair \in Nat \X Nat : pair[1] < pair[2]}

LEMMA LessThanIsWellFounded == IsWellFoundedOn(LessThan, Nat)
  BY NatLessThanWellFounded DEF OpToRel, LessThan

LEMMA LeastNumber ==
    ASSUME NEW S \in SUBSET Nat, S # {}
    PROVE  \E m \in S : \A n \in S : m <= n
<1>1. PICK m \in S : \A n \in S : ~(<<n, m>> \in LessThan)
  BY WFMin, LessThanIsWellFounded
<1>2. ASSUME NEW n \in S PROVE m <= n
  <2>1. m \in Nat /\ n \in Nat
    OBVIOUS
  <2>2. ~(<<n, m>> \in LessThan)
    BY <1>1
  <2>3. ~(n < m)
    BY <2>1, <2>2 DEF LessThan
  <2> QED
    BY <2>1, <2>3
<1> QED
  BY <1>2

-----------------------------------------------------------------------------
(* A deposit or a withdrawal is the one record of its log, and names one   *)
(* token.                                                                  *)
Transfers == {r \in AllRecords : r.recordType \in {"deposit", "withdrawal"}}

PlaceOf(l) ==
    [chain |-> l.chain, block |-> l.block, tx |-> Lower(l.tx), index |-> l.index, nth |-> 0]

LEMMA TransferOfLog ==
    ASSUME NEW l \in Logs, NEW r \in Normalized[l],
           r.recordType \in {"deposit", "withdrawal"}
    PROVE  /\ Normalized[l] = {r}
           /\ r.at = PlaceOf(l)
           /\ "token" \in DOMAIN r
<1> DEFINE e == Decode(l)
<1>1. e.log = l
  BY DEF Decode
<1>2. Normalized[l] = Handle(e) /\ r \in Handle(e)
  BY DEF Normalized, RecordsOf
<1> HIDE DEF e
<1>3. At(e, 0) = PlaceOf(l)
  BY <1>1 DEF At, PlaceOf
<1>4. Handle(e) # OrderMatchedHandler(e)
  <2>1. \A nth, h, a : Fill(e, nth, h, a).recordType = "order_fill"
    BY DEF Fill
  <2> QED
    BY <1>2, <2>1 DEF OrderMatchedHandler
<1>5. Handle(e) # IntentMatchedHandler(e)
  BY <1>2 DEF IntentMatchedHandler
<1>6. CASE Handle(e) = DepositedHandler(e)
  BY <1>2, <1>3, <1>6 DEF DepositedHandler
<1>7. CASE Handle(e) \in {WithdrawnHandler(e), InstantWithdrawHandler(e),
                          WithdrawRequestedHandler(e), WithdrawHandler(e)}
  BY <1>2, <1>3, <1>7 DEF WithdrawnHandler, InstantWithdrawHandler, WithdrawRequestedHandler,
                          WithdrawHandler, Withdrawal
<1> QED
  BY <1>2, <1>4, <1>5, <1>6, <1>7, HandlersOfTypes

LEMMA LogOfTransfer ==
    ASSUME NEW r \in Transfers
    PROVE  \E l \in Logs : Normalized[l] = {r} /\ r.at = PlaceOf(l) /\ "token" \in DOMAIN r
<1>1. PICK l \in Logs : r \in Normalized[l]
  BY DEF Transfers, AllRecords
<1> QED
  BY <1>1, TransferOfLog DEF Transfers

(* The place of a transfer tells which it is. *)
LEMMA TransferAtPlace ==
    ASSUME NEW r \in Transfers, NEW s \in Transfers, r.at.chain = s.at.chain,
           r.at.block = s.at.block, r.at.index = s.at.index
    PROVE  r = s
<1>1. PICK l \in Logs : Normalized[l] = {r} /\ r.at = PlaceOf(l)
  BY LogOfTransfer
<1>2. PICK m \in Logs : Normalized[m] = {s} /\ s.at = PlaceOf(m)
  BY LogOfTransfer
<1>3. l = m
  BY <1>1, <1>2, DiscoveryAssumption DEF PlaceOf
<1> QED
  BY <1>1, <1>2, <1>3

LEMMA FiniteTransfers == IsFiniteSet(Transfers)
<1> DEFINE log == [r \in Transfers |->
                      CHOOSE l \in Logs : Normalized[l] = {r} /\ r.at = PlaceOf(l)]
<1>1. \A r \in Transfers : log[r] \in Logs /\ Normalized[log[r]] = {r}
  BY LogOfTransfer
<1>2. log \in Injection(Transfers, Logs)
  <2>1. log \in [Transfers -> Logs]
    BY <1>1
  <2>2. \A r, s \in Transfers : log[r] = log[s] => r = s
    BY <1>1, Zenon
  <2> HIDE DEF log
  <2>3. IsInjective(log)
    BY <2>1, <2>2 DEF IsInjective
  <2> QED
    BY <2>1, <2>3 DEF Injection
<1> QED
  BY <1>2, FS_Injection, DiscoveryAssumption

-----------------------------------------------------------------------------
(* The observation a transfer gives. *)
Observation(r) ==
    [token |-> r.token, chain |-> r.at.chain, block |-> r.at.block, tx |-> r.at.tx,
     index |-> r.at.index, reason |-> IF r.recordType = "deposit" THEN "Deposit"
                                      ELSE "Withdrawal"]

LEMMA OneCandidate ==
    ASSUME NEW r \in Transfers
    PROVE  Candidates(r) = {Observation(r)}
<1>1. "token" \in DOMAIN r
  BY LogOfTransfer
<1>2. CASE r.recordType = "deposit"
  BY <1>1, <1>2 DEF Candidates, TokenFields, Observation
<1>3. CASE r.recordType = "withdrawal"
  BY <1>1, <1>3 DEF Candidates, TokenFields, Observation
<1> QED
  BY <1>2, <1>3 DEF Transfers

(* Of the transfers in T that name token t, r is the first. *)
IsFirst(T, t, r) ==
    /\ r \in T /\ r.token = t
    /\ \A s \in T : s.token = t => ~Earlier(Observation(s), Observation(r))

LEMMA PlaceType ==
    ASSUME NEW r \in Transfers
    PROVE  r.at.block \in Nat /\ r.at.index \in Nat /\ TxOrder[r.at.tx] \in Nat
<1>1. PICK l \in Logs : r.at = PlaceOf(l)
  BY LogOfTransfer
<1>2. l.block \in Nat /\ l.index \in Nat /\ TxOrder[Lower(l.tx)] \in Nat
  BY LogAssumption, DiscoveryAssumption
<1> QED
  BY <1>1, <1>2 DEF PlaceOf

LEMMA SameRankSameHash ==
    ASSUME NEW r \in Transfers, NEW s \in Transfers, TxOrder[r.at.tx] = TxOrder[s.at.tx]
    PROVE  r.at.tx = s.at.tx
<1>1. PICK l \in Logs : r.at = PlaceOf(l)
  BY LogOfTransfer
<1>2. PICK m \in Logs : s.at = PlaceOf(m)
  BY LogOfTransfer
<1> QED
  BY <1>1, <1>2, DiscoveryAssumption DEF PlaceOf

LEMMA EarlierTransfer ==
    ASSUME NEW r \in Transfers, NEW s \in Transfers
    PROVE  Earlier(Observation(s), Observation(r)) <=>
             \/ s.at.block < r.at.block
             \/ s.at.block = r.at.block /\ TxOrder[s.at.tx] < TxOrder[r.at.tx]
             \/ s.at.block = r.at.block /\ s.at.tx = r.at.tx /\ s.at.index < r.at.index
  BY DEF Earlier, Observation

(* The comparator has a least element in every set of transfers of a token: *)
(* the least block, in it the least hash, in it the least index.            *)
LEMMA FirstExists ==
    ASSUME NEW T \in SUBSET Transfers, NEW t \in {r.token : r \in T}
    PROVE  \E r \in T : IsFirst(T, t, r)
<1> DEFINE G == {r \in T : r.token = t}
<1>1. G # {} /\ G \subseteq Transfers
  OBVIOUS
<1> HIDE DEF G
<1>2. PICK r1 \in G : \A s \in G : r1.at.block <= s.at.block
  <2> DEFINE S == {s.at.block : s \in G}
  <2>1. S \subseteq Nat /\ S # {}
    BY <1>1, PlaceType
  <2>2. PICK m \in S : \A n \in S : m <= n
    <3> HIDE DEF S
    <3> QED
      BY <2>1, LeastNumber
  <2> QED
    BY <2>2
<1> DEFINE B == {r \in G : r.at.block = r1.at.block}
<1>3. PICK r2 \in B : \A s \in B : TxOrder[r2.at.tx] <= TxOrder[s.at.tx]
  <2> DEFINE S == {TxOrder[s.at.tx] : s \in B}
  <2>1. S \subseteq Nat /\ S # {}
    BY <1>1, PlaceType
  <2>2. PICK m \in S : \A n \in S : m <= n
    <3> HIDE DEF S
    <3> QED
      BY <2>1, LeastNumber
  <2> QED
    BY <2>2
<1> DEFINE H == {r \in B : r.at.tx = r2.at.tx}
<1>4. PICK r3 \in H : \A s \in H : r3.at.index <= s.at.index
  <2> DEFINE S == {s.at.index : s \in H}
  <2>1. S \subseteq Nat /\ S # {}
    BY <1>1, PlaceType
  <2>2. PICK m \in S : \A n \in S : m <= n
    <3> HIDE DEF S
    <3> QED
      BY <2>1, LeastNumber
  <2> QED
    BY <2>2
<1>5. r3 \in G /\ r3.at.block = r1.at.block /\ r3.at.tx = r2.at.tx
  OBVIOUS
<1>6. ASSUME NEW s \in G PROVE ~Earlier(Observation(s), Observation(r3))
  <2>1. s \in Transfers /\ r3 \in Transfers /\ r1.at.block <= s.at.block
    BY <1>1, <1>2, <1>5
  <2>2. /\ s.at.block \in Nat /\ s.at.index \in Nat /\ TxOrder[s.at.tx] \in Nat
        /\ r3.at.block \in Nat /\ r3.at.index \in Nat /\ TxOrder[r3.at.tx] \in Nat
    BY <2>1, PlaceType
  <2>3. s.at.block = r3.at.block => TxOrder[r3.at.tx] <= TxOrder[s.at.tx]
    BY <1>3, <1>5
  <2>4. s.at.block = r3.at.block /\ s.at.tx = r3.at.tx => r3.at.index <= s.at.index
    BY <1>4, <1>5
  <2> HIDE DEF B, H
  <2> QED
    BY <1>5, <2>1, <2>2, <2>3, <2>4, EarlierTransfer
<1> QED
  BY <1>5, <1>6 DEF IsFirst, G

LEMMA FirstIsUnique ==
    ASSUME NEW T \in SUBSET Transfers, NEW c, \A r \in T : r.at.chain = c,
           NEW t, NEW r, IsFirst(T, t, r), NEW s, IsFirst(T, t, s)
    PROVE  r = s
<1>1. r \in Transfers /\ s \in Transfers /\ r.at.chain = s.at.chain
  BY DEF IsFirst
<1>2. ~Earlier(Observation(s), Observation(r)) /\ ~Earlier(Observation(r), Observation(s))
  BY DEF IsFirst
<1>3. /\ s.at.block \in Nat /\ s.at.index \in Nat /\ TxOrder[s.at.tx] \in Nat
      /\ r.at.block \in Nat /\ r.at.index \in Nat /\ TxOrder[r.at.tx] \in Nat
  BY <1>1, PlaceType
<1>4. s.at.block = r.at.block /\ TxOrder[s.at.tx] = TxOrder[r.at.tx]
  BY <1>1, <1>2, <1>3, EarlierTransfer
<1>5. s.at.tx = r.at.tx
  BY <1>1, <1>4, SameRankSameHash
<1>6. s.at.index = r.at.index
  BY <1>1, <1>2, <1>3, <1>4, <1>5, EarlierTransfer
<1> QED
  BY <1>1, <1>4, <1>6, TransferAtPlace

-----------------------------------------------------------------------------
(* What discoverTokens returns, in whatever order the transfers come. *)
TokensOf(T) == {r.token : r \in T}
Kept(T, t)  == CHOOSE r \in T : IsFirst(T, t, r)

LEMMA KeptIsFirst ==
    ASSUME NEW T \in SUBSET Transfers, NEW t \in TokensOf(T)
    PROVE  Kept(T, t) \in T /\ IsFirst(T, t, Kept(T, t))
  BY FirstExists DEF TokensOf, Kept

(* An order of a finite set lists each of its elements once. *)
LEMMA OrdersListTheSet ==
    ASSUME NEW T, IsFiniteSet(T), NEW records \in SetToSeqs(T)
    PROVE  /\ records \in [DOMAIN records -> T]
           /\ \A i, j \in DOMAIN records : records[i] = records[j] => i = j
           /\ \A r \in T : \E i \in DOMAIN records : records[i] = r
<1> DEFINE D == 1 .. Cardinality(T)
<1>1. Cardinality(T) \in Nat
  BY FS_CardinalityType
<1>2. records \in [D -> T] /\ \A i, j \in D : i # j => records[i] # records[j]
  BY DEF SetToSeqs
<1>3. Cardinality(D) = Cardinality(T)
  BY <1>1, FS_Interval
<1> HIDE DEF D
<1>4. records \in Injection(D, T)
  BY <1>2 DEF Injection, IsInjective
<1>5. records \in Surjection(D, T)
  BY <1>3, <1>4, FS_Injection
<1> QED
  BY <1>2, <1>5 DEF Surjection

LEMMA SetToSeqIsAnOrder ==
    ASSUME NEW T, IsFiniteSet(T)
    PROVE  SetToSeq(T) \in SetToSeqs(T)
<1> DEFINE D == 1 .. Cardinality(T)
<1>1. PICK f \in Bijection(D, T) : TRUE
  BY FS_CardinalityType DEF ExistsBijection
<1>2. f \in [D -> T] /\ IsInjective(f)
  BY <1>1 DEF Bijection, Injection
<1>3. SetToSeq(T) \in [D -> T] /\ IsInjective(SetToSeq(T))
  BY <1>2 DEF SetToSeq
<1>4. \A i, j \in D : i # j => SetToSeq(T)[i] # SetToSeq(T)[j]
  BY <1>3 DEF IsInjective
<1> QED
  BY <1>3, <1>4 DEF SetToSeqs

LEMMA CanonicalIsKept ==
    ASSUME NEW T \in SUBSET Transfers, NEW c, \A r \in T : r.at.chain = c,
           IsFiniteSet(T), NEW records \in SetToSeqs(T), NEW t \in TokensOf(T)
    PROVE  Canonical(records, {Observation(r) : r \in {r \in T : r.token = t}})
             = Observation(Kept(T, t))
<1> DEFINE group == {Observation(r) : r \in {r \in T : r.token = t}}
           k     == Kept(T, t)
           first == {x \in group : \A d \in group : ~Earlier(d, x)}
           Has(i) == Candidates(records[i]) \cap first # {}
           IsLeast(i) == Has(i) /\ \A j \in 1 .. i - 1 : ~Has(j)
<1>1. k \in T /\ IsFirst(T, t, k) /\ k.token = t
  BY KeptIsFirst DEF IsFirst
<1> HIDE DEF k
<1>2. first = {Observation(k)}
  <2>1. ASSUME NEW x \in first PROVE x = Observation(k)
    <3>1. PICK r \in T : r.token = t /\ x = Observation(r)
      OBVIOUS
    <3>2. \A s \in T : s.token = t => ~Earlier(Observation(s), Observation(r))
      BY <2>1, <3>1
    <3>3. IsFirst(T, t, r)
      BY <3>1, <3>2 DEF IsFirst
    <3> QED
      BY <1>1, <3>1, <3>3, FirstIsUnique
  <2>2. Observation(k) \in first
    BY <1>1 DEF IsFirst
  <2> QED
    BY <2>1, <2>2
<1> HIDE DEF first
<1>3. \A i \in DOMAIN records : Candidates(records[i]) = {Observation(records[i])}
  BY OrdersListTheSet, OneCandidate
<1>4. ASSUME NEW r \in T, Observation(r) = Observation(k) PROVE r = k
  <2>1. /\ Observation(r).chain = r.at.chain /\ Observation(k).chain = k.at.chain
        /\ Observation(r).block = r.at.block /\ Observation(k).block = k.at.block
        /\ Observation(r).index = r.at.index /\ Observation(k).index = k.at.index
    BY DEF Observation
  <2> QED
    BY <1>1, <1>4, <2>1, TransferAtPlace
<1>5. PICK n \in DOMAIN records : records[n] = k
  BY <1>1, OrdersListTheSet
<1>6. \A i \in DOMAIN records : Has(i) <=> i = n
  BY <1>2, <1>3, <1>4, <1>5, OrdersListTheSet
<1>7. DOMAIN records = 1 .. Cardinality(T) /\ Cardinality(T) \in Nat
  BY FS_CardinalityType DEF SetToSeqs
<1>8. IsLeast(n)
  <2>1. Has(n)
    BY <1>6
  <2>2. ASSUME NEW j \in 1 .. n - 1 PROVE j \in DOMAIN records /\ j # n
    BY <1>7
  <2> HIDE DEF Has
  <2> QED
    BY <1>6, <2>1, <2>2
<1>9. (CHOOSE i \in DOMAIN records : IsLeast(i)) = n
  <2> HIDE DEF Has
  <2> QED
    BY <1>6, <1>8
<1>10. Canonical(records, group) = CHOOSE x \in Candidates(records[n]) \cap first : TRUE
  BY <1>9, Zenon DEF Canonical, first
<1>11. Candidates(records[n]) \cap first = {Observation(k)}
  BY <1>2, <1>3, <1>5
<1>12. Canonical(records, group) = Observation(k)
  BY <1>10, <1>11
<1> QED
  BY <1>12 DEF k

LEMMA WhatIsFound ==
    ASSUME NEW T \in SUBSET Transfers, NEW c, \A r \in T : r.at.chain = c,
           IsFiniteSet(T), NEW records \in SetToSeqs(T)
    PROVE  DiscoverTokens(records, c) = {Observation(Kept(T, t)) : t \in TokensOf(T)}
<1> DEFINE found == {x \in UNION {Candidates(records[i]) : i \in DOMAIN records} :
                        x.chain = c}
           Group(t) == {x \in found : x.token = t}
<1>1. found = {Observation(r) : r \in T}
  <2>1. \A r \in T : Candidates(r) = {Observation(r)} /\ Observation(r).chain = c
    BY OneCandidate DEF Observation
  <2> QED
    BY <2>1, OrdersListTheSet
<1> HIDE DEF found
<1>2. \A r \in T : Observation(r).token = r.token
  BY DEF Observation
<1>3. {x.token : x \in found} = TokensOf(T)
  BY <1>1, <1>2 DEF TokensOf
<1>4. \A t : Group(t) = {Observation(r) : r \in {r \in T : r.token = t}}
  BY <1>1, <1>2
<1>5. \A t \in TokensOf(T) : Canonical(records, Group(t)) = Observation(Kept(T, t))
  BY <1>4, CanonicalIsKept
<1>6. DiscoverTokens(records, c) = {Canonical(records, Group(t)) : t \in {x.token : x \in found}}
  BY Zenon DEF DiscoverTokens, found
<1> QED
  BY <1>3, <1>5, <1>6

(* One observation for each token. *)
LEMMA OneForEachToken ==
    ASSUME NEW T \in SUBSET Transfers, IsFiniteSet(T)
    PROVE  Cardinality({Observation(Kept(T, t)) : t \in TokensOf(T)})
             = Cardinality(TokensOf(T))
<1> DEFINE K == {Observation(Kept(T, t)) : t \in TokensOf(T)}
           f == [t \in TokensOf(T) |-> Observation(Kept(T, t))]
           g == [r \in T |-> r.token]
<1>1. g \in Surjection(T, TokensOf(T))
  BY DEF Surjection, TokensOf
<1>2. IsFiniteSet(TokensOf(T))
  BY <1>1, FS_Surjection
<1>3. \A t \in TokensOf(T) : f[t].token = t
  BY KeptIsFirst DEF IsFirst, Observation
<1>4. f \in [TokensOf(T) -> K]
  OBVIOUS
<1>5. \A x \in K : \E t \in TokensOf(T) : f[t] = x
  OBVIOUS
<1> HIDE DEF f, K
<1>6. f \in Bijection(TokensOf(T), K)
  BY <1>3, <1>4, <1>5 DEF Bijection, Injection, Surjection, IsInjective
<1> QED
  BY <1>2, <1>6, FS_Bijection DEF ExistsBijection, K

-----------------------------------------------------------------------------
(* The transfers of a batch about to be committed. *)
LEMMA DiscoveryInBatch ==
    ASSUME IInv, NEW p \in Processes, pc[p] = "commit"
    PROVE  LET named == {r \in batch[p] : r.recordType \in {"deposit", "withdrawal"}}
               first == {r \in named :
                            \A s \in named : s.token = r.token => r.at.block <= s.at.block}
               Found(records) == DiscoverTokens(records, Chain[p])
               kept  == Found(SetToSeq(named))
           IN  /\ {<<d.token, d.block>> : d \in kept} = {<<r.token, r.at.block>> : r \in first}
               /\ Cardinality(kept) = Cardinality({r.token : r \in named})
               /\ \A records \in SetToSeqs(named) : Found(records) = kept
<1> DEFINE named == {r \in batch[p] : r.recordType \in {"deposit", "withdrawal"}}
           first == {r \in named :
                        \A s \in named : s.token = r.token => r.at.block <= s.at.block}
           kept  == DiscoverTokens(SetToSeq(named), Chain[p])
           K     == {Observation(Kept(named, t)) : t \in TokensOf(named)}
<1>1. named \in SUBSET Transfers
  BY DEF IInv, TypeInv, TypeOK, Transfers
<1>2. \A r \in named : r.at.chain = Chain[p]
  <2>1. batch[p] = BatchOf(Chain[p], range[p].from, range[p].to)
    BY DEF IInv, CallsAreCovered
  <2>2. ASSUME NEW r \in batch[p] PROVE r.at.chain = Chain[p]
    <3>1. PICK l \in LogsBetween(Chain[p], range[p].from, range[p].to) : r \in Normalized[l]
      BY <2>1 DEF BatchOf
    <3> QED
      BY <3>1, RecordOfLog DEF LogsBetween
  <2> QED
    BY <2>2
<1> HIDE DEF named
<1>3. IsFiniteSet(named)
  BY <1>1, FiniteTransfers, FS_Subset
<1>4. \A records \in SetToSeqs(named) : DiscoverTokens(records, Chain[p]) = K
  BY <1>1, <1>2, <1>3, WhatIsFound
<1>5. kept = K
  BY <1>3, <1>4, SetToSeqIsAnOrder
<1>6. {<<d.token, d.block>> : d \in K} = {<<r.token, r.at.block>> : r \in first}
  <2>1. ASSUME NEW t \in TokensOf(named)
        PROVE  /\ Kept(named, t) \in first
               /\ Observation(Kept(named, t)).token = Kept(named, t).token
               /\ Observation(Kept(named, t)).block = Kept(named, t).at.block
               /\ Kept(named, t).token = t
    <3> DEFINE k == Kept(named, t)
    <3>1. k \in named /\ IsFirst(named, t, k)
      BY <1>1, KeptIsFirst
    <3>2. k.token = t
      BY <3>1 DEF IsFirst
    <3> HIDE DEF k
    <3>3. ASSUME NEW s \in named, s.token = k.token PROVE k.at.block <= s.at.block
      <4>1. ~Earlier(Observation(s), Observation(k))
        BY <3>1, <3>2, <3>3 DEF IsFirst
      <4>2. ~(s.at.block < k.at.block)
        BY <1>1, <3>1, <4>1, EarlierTransfer
      <4> QED
        BY <1>1, <3>1, <4>2, PlaceType
    <3>4. k \in first
      BY <3>1, <3>3
    <3> QED
      BY <3>2, <3>4 DEF Observation, k
  <2>2. ASSUME NEW r \in first
        PROVE  \E t \in TokensOf(named) : Kept(named, t).token = r.token
                                         /\ Kept(named, t).at.block = r.at.block
    <3>1. r.token \in TokensOf(named)
      BY DEF TokensOf
    <3> DEFINE k == Kept(named, r.token)
    <3>2. k \in first /\ k.token = r.token
      BY <2>1, <3>1
    <3> HIDE DEF k
    <3>3. k.at.block <= r.at.block /\ r.at.block <= k.at.block
      BY <3>2
    <3>4. k.at.block = r.at.block
      BY <1>1, <3>2, <3>3, PlaceType
    <3> QED
      BY <3>1, <3>2, <3>4 DEF k
  <2> HIDE DEF first
  <2>3. \A d \in K : \E r \in first : d.token = r.token /\ d.block = r.at.block
    BY <2>1
  <2>4. \A r \in first : \E d \in K : d.token = r.token /\ d.block = r.at.block
    BY <2>1, <2>2
  <2> QED
    BY <2>3, <2>4
<1>7. Cardinality(K) = Cardinality({r.token : r \in named})
  BY <1>1, <1>3, OneForEachToken DEF TokensOf
<1> QED
  BY <1>4, <1>5, <1>6, <1>7 DEF named

(* Whatever the order of the records, each token a deposit or a withdrawal *)
(* names is found once, in the first block that names it.                  *)
THEOREM OrderDoesNotMatter == Spec => []DiscoveryIgnoresTheOrder
<1>1. IInv => DiscoveryIgnoresTheOrder
  BY DiscoveryInBatch DEF DiscoveryIgnoresTheOrder
<1> QED
  BY <1>1, Invariant, PTL
=============================================================================
