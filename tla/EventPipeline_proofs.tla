------------------------ MODULE EventPipeline_proofs ------------------------
(***************************************************************************)
(* Theorems about EventPipeline for every set of logs, processes, names    *)
(* and chains.                                                             *)
(***************************************************************************)
EXTENDS EventPipeline, TLAPS

(* A record lies where its log lies. *)

LEMMA HandlersOfTypes ==
    ASSUME NEW e
    PROVE  Handle(e) \in {DepositedHandler(e), WithdrawnHandler(e), InstantWithdrawHandler(e),
                          WithdrawRequestedHandler(e), WithdrawHandler(e),
                          OrderMatchedHandler(e), IntentMatchedHandler(e), {}}
  BY Zenon DEF Handle

LEMMA PlaceOfRecord ==
    ASSUME NEW log, NEW r \in RecordsOf(log)
    PROVE  r.at.chain = log.chain /\ r.at.block = log.block
<1> DEFINE e == Decode(log)
<1>1. e.log = log
  BY DEF Decode
<1>2. r \in Handle(e)
  BY DEF RecordsOf
<1> HIDE DEF e
<1>3. \A nth : At(e, nth).chain = log.chain /\ At(e, nth).block = log.block
  BY <1>1 DEF At
<1>4. \E nth : r.at = At(e, nth)
  <2>1. \A nth, h, a : Fill(e, nth, h, a).at = At(e, nth)
    BY DEF Fill
  <2>2. CASE r \in OrderMatchedHandler(e)
    BY <2>1, <2>2 DEF OrderMatchedHandler
  <2>3. CASE r \in IntentMatchedHandler(e)
    BY <2>3 DEF IntentMatchedHandler
  <2>4. CASE r \in DepositedHandler(e)
    BY <2>4 DEF DepositedHandler
  <2>5. CASE \/ r \in WithdrawnHandler(e) \/ r \in InstantWithdrawHandler(e)
             \/ r \in WithdrawRequestedHandler(e) \/ r \in WithdrawHandler(e)
    BY <2>5 DEF WithdrawnHandler, InstantWithdrawHandler, WithdrawRequestedHandler,
                WithdrawHandler, Withdrawal
  <2> QED
    BY <1>2, <2>2, <2>3, <2>4, <2>5, HandlersOfTypes
<1> QED
  BY <1>3, <1>4

-----------------------------------------------------------------------------
(* Types. *)

LEMMA NextRange ==
    ASSUME NEW cur \in Nat \cup {None}, NEW h \in Nat
    PROVE  LET plan == Plan(StartBlock, h, cur, BatchSize)
           IN  /\ plan.from \in Nat
               /\ plan.from = NextFrom(StartBlock, cur)
               /\ plan.to >= plan.from => plan.to \in Nat /\ plan.to <= h
  BY ConfigAssumption, NoneAssumption DEF Plan, NextFrom

LEMMA CheckpointType ==
    ASSUME TypeOK, NEW p \in Processes
    PROVE  GetCheckpoint(p) \in Nat \cup {None}
  BY DEF GetCheckpoint, TypeOK, NoRow, Names

LEMMA EndIterationType ==
    ASSUME TypeOK, NEW p \in Processes, EndIteration(p)
    PROVE  /\ pc' \in [Processes -> Steps]
           /\ current' \in [Processes -> Nat \cup {None}]
           /\ range' \in [Processes -> [from : Nat, to : Nat \cup {-1}]]
           /\ batch' \in [Processes -> SUBSET AllRecords]
  BY DEF EndIteration, TypeOK, Steps, NoRange

LEMMA TransactionType ==
    ASSUME TypeOK, NEW p \in Processes, pc[p] = "commit", range[p].to \in Nat,
           BatchTransaction(p)
    PROVE  /\ tables' \subseteq AllRecords
           /\ checkpoints' \in [Names -> {NoRow} \cup [chain : ChainIds, block : Nat]]
<1>1. tables' \subseteq AllRecords
  BY DEF BatchTransaction, SaveRecords, FirstOfKey, TypeOK
<1>2. [chain |-> Chain[p], block |-> range[p].to] \in [chain : ChainIds, block : Nat]
  BY DEF ChainIds
<1> QED
  BY <1>1, <1>2 DEF BatchTransaction, SaveCheckpoint, TypeOK

(* A range that is being worked on is not empty and lies below the head. *)
RangesArePlanned ==
    /\ \A c \in ChainIds : heads[c] <= Top[c]
    /\ \A p \in Processes : pc[p] \in {"logs", "commit"} =>
          /\ range[p].to \in Nat
          /\ range[p].to <= heads[Chain[p]]
          /\ range[p].from = NextFrom(StartBlock, current[p])

TypeInv == TypeOK /\ RangesArePlanned

LEMMA TypeInitially == Init => TypeInv
  BY ConfigAssumption, NoneAssumption
  DEF Init, TypeInv, TypeOK, RangesArePlanned, NoRange, Steps

LEMMA TypeStep == TypeInv /\ [Next]_vars => TypeInv'
<1> SUFFICES ASSUME TypeInv, [Next]_vars PROVE TypeInv'
  OBVIOUS
<1>0. TypeOK /\ RangesArePlanned
  BY DEF TypeInv
<1> USE ConfigAssumption DEF RangesArePlanned
<1>e. ASSUME NEW p \in Processes, EndIteration(p), heads' = heads PROVE RangesArePlanned'
  BY <1>0, <1>e DEF EndIteration, TypeOK
<1>1. ASSUME NEW p \in Processes, ReadCheckpoint(p) PROVE TypeInv'
  BY <1>0, <1>1, CheckpointType DEF TypeInv, ReadCheckpoint, TypeOK, Steps
<1>2. ASSUME NEW p \in Processes, PlanRange(p) PROVE TypeInv'
  <2> DEFINE plan == Plan(StartBlock, heads[Chain[p]], current[p], BatchSize)
  <2>1. /\ plan.from \in Nat
        /\ plan.from = NextFrom(StartBlock, current[p])
        /\ plan.to >= plan.from => plan.to \in Nat /\ plan.to <= heads[Chain[p]]
    <3>1. heads[Chain[p]] \in Nat /\ current[p] \in Nat \cup {None}
      BY <1>0 DEF TypeOK, ChainIds
    <3> QED
      BY <3>1, NextRange
  <2>2. \/ plan.to < plan.from /\ EndIteration(p)
        \/ /\ plan.to >= plan.from
           /\ range' = [range EXCEPT ![p] = [from |-> plan.from, to |-> plan.to]]
           /\ pc' = [pc EXCEPT ![p] = "logs"]
           /\ UNCHANGED <<current, batch>>
    BY <1>2 DEF PlanRange
  <2> HIDE DEF plan
  <2>3. CASE plan.to < plan.from /\ EndIteration(p)
    BY <1>0, <1>2, <1>e, <2>3, EndIterationType DEF TypeInv, PlanRange, TypeOK
  <2>4. CASE /\ plan.to >= plan.from
             /\ range' = [range EXCEPT ![p] = [from |-> plan.from, to |-> plan.to]]
             /\ pc' = [pc EXCEPT ![p] = "logs"]
             /\ UNCHANGED <<current, batch>>
    BY <1>0, <1>2, <2>1, <2>4 DEF TypeInv, PlanRange, TypeOK, Steps
  <2> QED
    BY <2>2, <2>3, <2>4
<1>3. ASSUME NEW p \in Processes, FetchLogs(p) PROVE TypeInv'
  <2> DEFINE logs == LogsBetween(Chain[p], range[p].from, range[p].to)
  <2>1. \/ EndIteration(p)
        \/ /\ batch' = [batch EXCEPT ![p] = UNION {Normalized[l] : l \in logs}]
           /\ pc' = [pc EXCEPT ![p] = "commit"]
           /\ UNCHANGED <<current, range>>
    BY <1>3 DEF FetchLogs
  <2>2. UNION {Normalized[l] : l \in logs} \subseteq AllRecords
    BY DEF AllRecords, LogsBetween
  <2> HIDE DEF logs
  <2>3. pc[p] = "logs" /\ UNCHANGED <<heads, checkpoints, tables, failures>>
    BY <1>3 DEF FetchLogs
  <2>4. CASE EndIteration(p)
    BY <1>0, <1>e, <2>3, <2>4, EndIterationType DEF TypeInv, TypeOK
  <2>5. CASE /\ batch' = [batch EXCEPT ![p] = UNION {Normalized[l] : l \in logs}]
             /\ pc' = [pc EXCEPT ![p] = "commit"]
             /\ UNCHANGED <<current, range>>
    BY <1>0, <2>2, <2>3, <2>5 DEF TypeInv, TypeOK, Steps
  <2> QED
    BY <2>1, <2>4, <2>5
<1>4. ASSUME NEW p \in Processes, Commit(p) \/ LoseAcknowledgement(p) PROVE TypeInv'
  <2>1. /\ pc[p] = "commit" /\ EndIteration(p) /\ heads' = heads
        /\ failures' \in 0 .. MaxFailures
        /\ BatchTransaction(p) \/ UNCHANGED <<tables, checkpoints>>
    BY <1>0, <1>4 DEF Commit, LoseAcknowledgement, TypeOK
  <2>2. /\ tables' \subseteq AllRecords
        /\ checkpoints' \in [Names -> {NoRow} \cup [chain : ChainIds, block : Nat]]
    BY <1>0, <2>1, TransactionType DEF TypeOK
  <2> QED
    BY <1>0, <1>e, <2>1, <2>2, EndIterationType DEF TypeInv, TypeOK
<1>5. ASSUME NEW p \in Processes, Fail(p) PROVE TypeInv'
  BY <1>0, <1>5, <1>e, EndIterationType DEF TypeInv, Fail, TypeOK
<1>6. ASSUME NEW c \in ChainIds, ChainGrows(c) PROVE TypeInv'
  BY <1>0, <1>6 DEF TypeInv, ChainGrows, TypeOK, locals
<1>7. CASE UNCHANGED vars
  BY <1>0, <1>7 DEF TypeInv, TypeOK, vars, locals
<1> QED
  BY <1>1, <1>2, <1>3, <1>4, <1>5, <1>6, <1>7 DEF Next, Execute

LEMMA TypeInvariant == Spec => []TypeInv
  BY TypeInitially, TypeStep, PTL DEF Spec

(* Every variable keeps its type, and so every row its chain and height. *)
THEOREM EventTypeCorrect == Spec => []TypeOK
<1>1. TypeInv => TypeOK
  BY DEF TypeInv
<1> QED
  BY <1>1, TypeInvariant, PTL

-----------------------------------------------------------------------------
(* What a batch adds to the tables.  Two records with one key lie in one   *)
(* block, so a block's facts do not depend on the batch it comes in.       *)

Facts(c, n) == FirstOfKey(UNION {Normalized[l] : l \in LogsAt(c, n)})

LEMMA FactsOfBlock ==
    ASSUME NEW c \in ChainIds, NEW n \in 0 .. Top[c]
    PROVE  FactsOf[c][n] = Facts(c, n)
  BY DEF FactsOf, Facts

LEMMA RecordOfLog ==
    ASSUME NEW l \in Logs, NEW r \in Normalized[l]
    PROVE  r \in RecordsOf(l) /\ r.at.chain = l.chain /\ r.at.block = l.block
           /\ r.at.block \in Nat
  BY PlaceOfRecord, LogAssumption DEF Normalized

LEMMA SameKeySameBlock ==
    ASSUME NEW r \in AllRecords, NEW s \in AllRecords, Key(r) = Key(s)
    PROVE  r.at.chain = s.at.chain /\ r.at.block = s.at.block
<1>1. PICK l \in Logs : r \in Normalized[l]
  BY DEF AllRecords
<1>2. PICK m \in Logs : s \in Normalized[m]
  BY DEF AllRecords
<1>3. r \in RecordsOf(l) /\ s \in RecordsOf(m)
  BY <1>1, <1>2, RecordOfLog
<1>4. l.chain = m.chain /\ l.block = m.block
  BY <1>3, LogAssumption
<1> QED
  BY <1>1, <1>2, <1>4, RecordOfLog

BatchOf(c, m, n) == UNION {Normalized[l] : l \in LogsBetween(c, m, n)}

LEMMA BatchRecords ==
    ASSUME NEW c, NEW m \in Nat, NEW k \in Nat, NEW r \in BatchOf(c, m, k)
    PROVE  /\ r \in AllRecords /\ r.at.chain = c /\ r.at.block \in m .. k
           /\ r \in BatchOf(c, r.at.block, r.at.block)
<1>1. PICK l \in LogsBetween(c, m, k) : r \in Normalized[l]
  BY DEF BatchOf
<1>2. /\ l \in Logs /\ l.chain = c /\ l.address \in Watched
      /\ l.block \in m .. k /\ l.block \in Nat
  BY <1>1, LogAssumption DEF LogsBetween
<1>3. r.at.chain = c /\ r.at.block = l.block
  BY <1>1, <1>2, RecordOfLog
<1>4. l \in LogsBetween(c, r.at.block, r.at.block)
  BY <1>2, <1>3 DEF LogsBetween
<1> QED
  BY <1>1, <1>2, <1>3, <1>4 DEF AllRecords, BatchOf

(* The first records of a batch are the facts of its blocks. *)
LEMMA FactsOfBatch ==
    ASSUME NEW c, NEW m \in Nat, NEW k \in Nat, NEW n \in m .. k, NEW r
    PROVE  r \in Facts(c, n) <=> r \in FirstOfKey(BatchOf(c, m, k)) /\ r.at.block = n
<1> DEFINE B == BatchOf(c, m, k)
           A == BatchOf(c, n, n)
<1>1. Facts(c, n) = FirstOfKey(A)
  BY DEF Facts, BatchOf, LogsAt
<1>2. n \in Nat
  OBVIOUS
<1>3. A \subseteq B
  BY <1>2, LogAssumption DEF BatchOf, LogsBetween
<1>4. \A s \in A : s \in AllRecords /\ s.at.block = n
  BY <1>2, BatchRecords
<1>5. \A s \in B : s \in AllRecords /\ s \in BatchOf(c, s.at.block, s.at.block)
  BY BatchRecords
<1> HIDE DEF A, B
<1>6. ASSUME r \in FirstOfKey(A) PROVE r \in FirstOfKey(B) /\ r.at.block = n
  <2>1. r \in A /\ r \in B /\ r \in AllRecords /\ r.at.block = n
    BY <1>3, <1>4, <1>6 DEF FirstOfKey
  <2>2. ASSUME NEW s \in B, Key(s) = Key(r) PROVE s \in A
    <3>1. s.at.block = n
      BY <1>5, <2>1, <2>2, SameKeySameBlock
    <3> QED
      BY <1>5, <2>2, <3>1 DEF A
  <2> QED
    BY <1>6, <2>1, <2>2 DEF FirstOfKey
<1>7. ASSUME r \in FirstOfKey(B), r.at.block = n PROVE r \in FirstOfKey(A)
  <2>1. r \in A
    BY <1>5, <1>7 DEF FirstOfKey, A
  <2> QED
    BY <1>3, <1>7, <2>1 DEF FirstOfKey
<1> QED
  BY <1>1, <1>6, <1>7 DEF B

(* The rows hold every fact of the chain from StartBlock up to a height. *)
Covers(rows, c, h) == \A n \in StartBlock .. h : FactsOf[c][n] \subseteq rows

LEMMA BatchIsStored ==
    ASSUME tables \subseteq AllRecords, BlocksAreStoredWhole,
           NEW c \in ChainIds, NEW m \in Nat, NEW k \in Nat, k <= Top[c],
           SaveRecords(BatchOf(c, m, k))
    PROVE  /\ BlocksAreStoredWhole'
           /\ tables \subseteq tables'
           /\ \A n \in m .. k : FactsOf[c][n] \subseteq tables'
<1> DEFINE B == BatchOf(c, m, k)
           Taken == {Key(s) : s \in tables}
<1>1. tables' = tables \cup {r \in FirstOfKey(B) : Key(r) \notin Taken}
  BY DEF SaveRecords
<1>2. Top[c] \in Nat
  BY ConfigAssumption
<1>3. \A s \in B : s.at.chain = c /\ s.at.block \in m .. k /\ s \in AllRecords
  BY BatchRecords
<1>4. FirstOfKey(B) \subseteq B
  BY DEF FirstOfKey
<1>f. \A n \in m .. k : \A r : r \in Facts(c, n) <=> r \in FirstOfKey(B) /\ r.at.block = n
  BY FactsOfBatch
<1> HIDE DEF B
<1>5. ASSUME NEW n \in m .. k PROVE n \in 0 .. Top[c] /\ FactsOf[c][n] = Facts(c, n)
  BY <1>2, <1>5, FactsOfBlock
<1>6. ASSUME NEW n \in m .. k, NEW r \in Facts(c, n) PROVE r \in tables'
  <2>1. r \in FirstOfKey(B) /\ r.at.block = n
    BY <1>f
  <2>2. CASE Key(r) \notin Taken
    BY <1>1, <2>1, <2>2
  <2>3. CASE Key(r) \in Taken
    <3>1. PICK s \in tables : Key(s) = Key(r)
      BY <2>3
    <3>2. s.at.chain = c /\ s.at.block = n
      BY <1>3, <1>4, <2>1, <3>1, SameKeySameBlock
    <3>3. s \in RowsOf(c, n)
      BY <3>2 DEF RowsOf
    <3>4. RowsOf(c, n) = Facts(c, n)
      BY <1>5, <3>3 DEF BlocksAreStoredWhole
    <3> QED
      BY <1>1, <3>4 DEF RowsOf
  <2> QED
    BY <2>2, <2>3
<1>7. \A n \in m .. k : FactsOf[c][n] \subseteq tables'
  BY <1>5, <1>6
<1>8. ASSUME NEW d \in ChainIds, NEW n \in 0 .. Top[d]
      PROVE  RowsOf(d, n)' \in {{}, FactsOf[d][n]}
  <2>0. RowsOf(d, n) \in {{}, FactsOf[d][n]}
    BY DEF BlocksAreStoredWhole
  <2>1. CASE d = c /\ n \in m .. k
    <3>1. FactsOf[c][n] = Facts(c, n)
      BY <1>5, <2>1
    <3>2. \A r \in Facts(c, n) : r.at.chain = c /\ r.at.block = n
      BY <1>3, <1>4, <1>f, <2>1
    <3>3. \A r \in tables' : r.at.chain = c /\ r.at.block = n
                               => r \in RowsOf(c, n) \/ r \in Facts(c, n)
      BY <1>1, <1>f, <2>1 DEF RowsOf
    <3>4. Facts(c, n) \subseteq RowsOf(c, n)'
      BY <1>6, <2>1, <3>2 DEF RowsOf
    <3>5. RowsOf(c, n)' \subseteq Facts(c, n)
      BY <2>0, <2>1, <3>1, <3>3 DEF RowsOf
    <3> QED
      BY <2>1, <3>1, <3>4, <3>5
  <2>2. CASE ~(d = c /\ n \in m .. k)
    <3>1. RowsOf(d, n)' = RowsOf(d, n)
      BY <1>1, <1>3, <1>4, <2>2 DEF RowsOf
    <3> QED
      BY <2>0, <3>1
  <2> QED
    BY <2>1, <2>2
<1>9. BlocksAreStoredWhole'
  BY <1>8 DEF BlocksAreStoredWhole
<1> QED
  BY <1>1, <1>7, <1>9

-----------------------------------------------------------------------------
(* The inductive invariant.  What is covered stays covered, since rows are *)
(* never removed; so a checkpoint may be relied on however old it is, and  *)
(* however far another process has moved the row back meanwhile.           *)

RowsAreCovered ==
    \A n \in Names : checkpoints[n] # NoRow =>
        /\ checkpoints[n].chain \in ChainIds
        /\ checkpoints[n].block \in Nat
        /\ checkpoints[n].block <= Top[checkpoints[n].chain]
        /\ Covers(tables, checkpoints[n].chain, checkpoints[n].block)

CallsAreCovered ==
    \A p \in Processes :
        /\ current[p] # None => Covers(tables, Chain[p], current[p])
        /\ pc[p] = "commit" => batch[p] = BatchOf(Chain[p], range[p].from, range[p].to)

IInv == TypeInv /\ BlocksAreStoredWhole /\ RowsAreCovered /\ CallsAreCovered

LEMMA StillCovered ==
    ASSUME NEW c, NEW h, tables \subseteq tables', Covers(tables, c, h)
    PROVE  Covers(tables', c, h)
  BY DEF Covers

LEMMA Initially == Init => IInv
<1> SUFFICES ASSUME Init PROVE IInv
  OBVIOUS
<1>1. TypeInv
  BY TypeInitially
<1>2. BlocksAreStoredWhole
  BY DEF Init, BlocksAreStoredWhole, RowsOf
<1>3. RowsAreCovered /\ CallsAreCovered
  BY DEF Init, RowsAreCovered, CallsAreCovered
<1> QED
  BY <1>1, <1>2, <1>3 DEF IInv

LEMMA ReadIsCovered ==
    ASSUME TypeInv, RowsAreCovered, NEW p \in Processes, GetCheckpoint(p) # None
    PROVE  Covers(tables, Chain[p], GetCheckpoint(p)) /\ GetCheckpoint(p) <= Top[Chain[p]]
           /\ GetCheckpoint(p) \in Nat
<1>1. checkpoints[Name[p]].chain = Chain[p] /\ GetCheckpoint(p) = checkpoints[Name[p]].block
  BY DEF GetCheckpoint
<1>2. checkpoints[Name[p]] # NoRow
  BY <1>1 DEF NoRow
<1> QED
  BY <1>1, <1>2 DEF RowsAreCovered, Names

(* The batch transaction keeps the tables whole and the new row covered. *)
LEMMA TransactionIsCovered ==
    ASSUME IInv, NEW p \in Processes, pc[p] = "commit", BatchTransaction(p)
    PROVE  BlocksAreStoredWhole' /\ tables \subseteq tables' /\ RowsAreCovered'
<1> DEFINE c == Chain[p]
           m == range[p].from
           k == range[p].to
<1>1. c \in ChainIds /\ m \in Nat /\ k \in Nat /\ k <= Top[c]
      /\ m = NextFrom(StartBlock, current[p]) /\ current[p] \in Nat \cup {None}
  BY ConfigAssumption DEF IInv, TypeInv, TypeOK, RangesArePlanned, ChainIds
<1>2. SaveRecords(BatchOf(c, m, k))
  BY DEF IInv, CallsAreCovered, BatchTransaction
<1>3. tables \subseteq AllRecords /\ BlocksAreStoredWhole
  BY DEF IInv, TypeInv, TypeOK
<1>4. /\ BlocksAreStoredWhole'
      /\ tables \subseteq tables'
      /\ \A n \in m .. k : FactsOf[c][n] \subseteq tables'
  BY <1>1, <1>2, <1>3, BatchIsStored
<1>5. current[p] # None => Covers(tables', c, current[p])
  BY <1>4, StillCovered DEF IInv, CallsAreCovered
<1>6. Covers(tables', c, k)
  BY <1>1, <1>4, <1>5, ConfigAssumption DEF Covers, NextFrom
<1>7. checkpoints' = [checkpoints EXCEPT ![Name[p]] = [chain |-> c, block |-> k]]
  BY DEF BatchTransaction, SaveCheckpoint
<1>8. ASSUME NEW n \in Names, checkpoints'[n] # NoRow
      PROVE  /\ checkpoints'[n].chain \in ChainIds
             /\ checkpoints'[n].block \in Nat
             /\ checkpoints'[n].block <= Top[checkpoints'[n].chain]
             /\ Covers(tables', checkpoints'[n].chain, checkpoints'[n].block)
  <2>1. checkpoints \in [Names -> {NoRow} \cup [chain : ChainIds, block : Nat]]
    BY DEF IInv, TypeInv, TypeOK
  <2>2. CASE n = Name[p]
    <3>1. checkpoints'[n].chain = c /\ checkpoints'[n].block = k
      BY <1>7, <2>1, <2>2
    <3> QED
      BY <1>1, <1>6, <3>1 DEF Covers
  <2>3. CASE n # Name[p]
    <3>1. checkpoints'[n] = checkpoints[n]
      BY <1>7, <2>1, <2>3
    <3> QED
      BY <1>4, <1>8, <3>1 DEF IInv, RowsAreCovered, Covers
  <2> QED
    BY <2>2, <2>3
<1>9. RowsAreCovered'
  BY <1>8 DEF RowsAreCovered
<1> QED
  BY <1>4, <1>9

LEMMA Step == IInv /\ [Next]_vars => IInv'
<1> SUFFICES ASSUME IInv, [Next]_vars PROVE IInv'
  OBVIOUS
<1>0. TypeInv /\ TypeOK /\ TypeInv'
  BY TypeStep DEF IInv, TypeInv
<1>u. ASSUME UNCHANGED <<tables, checkpoints>>
      PROVE  BlocksAreStoredWhole' /\ RowsAreCovered'
  BY <1>u DEF IInv, BlocksAreStoredWhole, RowsOf, RowsAreCovered, Covers
<1>e. ASSUME NEW p \in Processes, EndIteration(p), tables \subseteq tables'
      PROVE  CallsAreCovered'
  BY <1>0, <1>e DEF EndIteration, CallsAreCovered, IInv, TypeOK, Covers
<1>1. ASSUME NEW p \in Processes, ReadCheckpoint(p) PROVE IInv'
  <2>1. GetCheckpoint(p) # None => Covers(tables, Chain[p], GetCheckpoint(p))
    BY <1>0, ReadIsCovered DEF IInv
  <2>2. CallsAreCovered'
    BY <1>0, <1>1, <2>1 DEF ReadCheckpoint, CallsAreCovered, IInv, TypeOK, Covers
  <2> QED
    BY <1>0, <1>1, <1>u, <2>2 DEF IInv, ReadCheckpoint
<1>2. ASSUME NEW p \in Processes, PlanRange(p) PROVE IInv'
  <2>1. /\ UNCHANGED <<tables, checkpoints>>
        /\ EndIteration(p) \/ (/\ \E r : range' = [range EXCEPT ![p] = r]
                              /\ pc' = [pc EXCEPT ![p] = "logs"]
                              /\ UNCHANGED <<current, batch>>)
    BY <1>2 DEF PlanRange
  <2>2. CASE EndIteration(p)
    BY <1>0, <1>u, <1>e, <2>1, <2>2 DEF IInv
  <2>3. CASE /\ \E r : range' = [range EXCEPT ![p] = r]
             /\ pc' = [pc EXCEPT ![p] = "logs"]
             /\ UNCHANGED <<current, batch>>
    <3>1. CallsAreCovered'
      BY <1>0, <2>1, <2>3 DEF CallsAreCovered, IInv, TypeOK, Covers
    <3> QED
      BY <1>0, <1>u, <2>1, <3>1 DEF IInv
  <2> QED
    BY <2>1, <2>2, <2>3
<1>3. ASSUME NEW p \in Processes, FetchLogs(p) PROVE IInv'
  <2>1. /\ UNCHANGED <<tables, checkpoints>>
        /\ \/ EndIteration(p)
           \/ /\ batch' = [batch EXCEPT ![p] = BatchOf(Chain[p], range[p].from, range[p].to)]
              /\ pc' = [pc EXCEPT ![p] = "commit"]
              /\ UNCHANGED <<current, range>>
    BY <1>3 DEF FetchLogs, BatchOf
  <2>2. CASE EndIteration(p)
    BY <1>0, <1>u, <1>e, <2>1, <2>2 DEF IInv
  <2>3. CASE /\ batch' = [batch EXCEPT ![p] = BatchOf(Chain[p], range[p].from, range[p].to)]
             /\ pc' = [pc EXCEPT ![p] = "commit"]
             /\ UNCHANGED <<current, range>>
    <3>1. CallsAreCovered'
      BY <1>0, <2>1, <2>3 DEF CallsAreCovered, IInv, TypeOK, Covers
    <3> QED
      BY <1>0, <1>u, <2>1, <3>1 DEF IInv
  <2> QED
    BY <2>1, <2>2, <2>3
<1>4. ASSUME NEW p \in Processes, Commit(p) \/ LoseAcknowledgement(p) PROVE IInv'
  <2>1. /\ pc[p] = "commit" /\ EndIteration(p)
        /\ BatchTransaction(p) \/ UNCHANGED <<tables, checkpoints>>
    BY <1>4 DEF Commit, LoseAcknowledgement
  <2>2. BlocksAreStoredWhole' /\ tables \subseteq tables' /\ RowsAreCovered'
    BY <1>u, <2>1, TransactionIsCovered
  <2> QED
    BY <1>0, <1>e, <2>1, <2>2 DEF IInv
<1>5. ASSUME NEW p \in Processes, Fail(p) PROVE IInv'
  BY <1>0, <1>5, <1>u, <1>e DEF IInv, Fail
<1>6. CASE \/ \E c \in ChainIds : ChainGrows(c)
           \/ UNCHANGED vars
  <2>1. UNCHANGED <<tables, checkpoints, pc, current, range, batch>>
    BY <1>6 DEF ChainGrows, vars, locals
  <2>2. CallsAreCovered'
    BY <2>1 DEF CallsAreCovered, IInv, Covers
  <2> QED
    BY <1>0, <1>u, <2>1, <2>2 DEF IInv
<1> QED
  BY <1>1, <1>2, <1>3, <1>4, <1>5, <1>6 DEF Next, Execute

LEMMA Invariant == Spec => []IInv
  BY Initially, Step, PTL DEF Spec

(* However many processes write it, a block is stored whole. *)
THEOREM StoredWhole == Spec => []BlocksAreStoredWhole
<1>1. IInv => BlocksAreStoredWhole
  BY DEF IInv
<1> QED
  BY <1>1, Invariant, PTL

(* However many processes move a checkpoint, nothing is missing behind it. *)
THEOREM NoGap == Spec => []NoGapBehindTheCheckpoint
<1>1. IInv => NoGapBehindTheCheckpoint
  BY ReadIsCovered DEF IInv, NoGapBehindTheCheckpoint, Covers
<1> QED
  BY <1>1, Invariant, PTL

-----------------------------------------------------------------------------
(* The checkpoints table forgets a row only when two chains share a name. *)

OneChainPerName == \A p, q \in Processes : Name[p] = Name[q] => Chain[p] = Chain[q]

LEMMA CheckpointStays ==
    ASSUME OneChainPerName, TypeInv, [Next]_vars,
           NEW p \in Processes, GetCheckpoint(p) # None
    PROVE  GetCheckpoint(p)' # None
<1>0. /\ checkpoints \in [Names -> {NoRow} \cup [chain : ChainIds, block : Nat]]
      /\ Name[p] \in Names
  BY DEF TypeInv, TypeOK, Names
<1>1. CASE UNCHANGED checkpoints
  BY <1>1 DEF GetCheckpoint
<1>2. ASSUME NEW q \in Processes, pc[q] = "commit", SaveCheckpoint(q, range[q].to)
      PROVE  GetCheckpoint(p)' # None
  <2>1. range[q].to # None
    BY <1>2, NoneAssumption DEF TypeInv, RangesArePlanned
  <2>2. CASE Name[p] = Name[q]
    <3>1. /\ checkpoints'[Name[p]].chain = Chain[p]
          /\ checkpoints'[Name[p]].block = range[q].to
      BY <1>0, <1>2, <2>2 DEF SaveCheckpoint, OneChainPerName
    <3> QED
      BY <2>1, <3>1 DEF GetCheckpoint
  <2>3. CASE Name[p] # Name[q]
    <3>1. checkpoints'[Name[p]] = checkpoints[Name[p]]
      BY <1>0, <1>2, <2>3 DEF SaveCheckpoint
    <3> QED
      BY <3>1 DEF GetCheckpoint
  <2> QED
    BY <2>2, <2>3
<1> QED
  BY <1>1, <1>2
  DEF Next, Execute, ReadCheckpoint, PlanRange, FetchLogs, Commit, Fail,
      LoseAcknowledgement, BatchTransaction, ChainGrows, vars

(* As long as no two chains share an indexer name, a process that has a    *)
(* checkpoint never reads null again.                                      *)
THEOREM CheckpointsAreKept == ASSUME OneChainPerName PROVE Spec => CheckpointIsNotForgotten
<1>1. TypeInv /\ [Next]_vars
        => [\A p \in Processes : GetCheckpoint(p) # None => GetCheckpoint(p)' # None]_vars
  BY CheckpointStays
<1> QED
  BY <1>1, TypeInvariant, PTL DEF Spec, CheckpointIsNotForgotten

=============================================================================
