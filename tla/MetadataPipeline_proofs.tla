----------------------- MODULE MetadataPipeline_proofs -----------------------
(***************************************************************************)
(* Theorems about MetadataPipeline for any number of tokens, callers and   *)
(* failures.                                                               *)
(***************************************************************************)
EXTENDS MetadataPipeline, FiniteSetTheorems, TLAPS

LEMMA FailedRow ==
    ASSUME NEW job \in Job
    PROVE  /\ Failed(job) \in Job
           /\ Failed(job).attempts = job.attempts + 1
           /\ RowOK(Failed(job))
<1>1. /\ Failed(job) \in Job
      /\ Failed(job).attempts = job.attempts + 1
      /\ Failed(job).status = IF job.attempts + 1 >= MaxAttempts THEN "Dead" ELSE "Failed"
  BY DEF Failed, Job, Status
<1>2. job.attempts + 1 # 0
  BY DEF Job
<1>3. RowOK(Failed(job))
  BY <1>1, <1>2 DEF RowOK
<1> QED
  BY <1>1, <1>3

LEMMA EligibleType ==
    ASSUME TypeOK
    PROVE  Eligible \subseteq Item
<1> SUFFICES ASSUME NEW t \in Tokens, queue[t] # None
             PROVE  [token |-> t, block |-> queue[t].block] \in Item
  BY DEF Eligible
<1> QED
  BY DEF TypeOK, Item, Job

(* The rows of the queue after one of them has changed. *)
LEMMA RowChange ==
    ASSUME TypeOK, NEW t \in Tokens, NEW row \in Job \cup {None}, RowOK(row),
           queue' = [queue EXCEPT ![t] = row]
    PROVE  queue' \in [Tokens -> Job \cup {None}] /\ \A u \in Tokens : RowOK(queue'[u])
<1>1. queue' \in [Tokens -> Job \cup {None}]
  BY DEF TypeOK
<1>2. \A u \in Tokens : queue'[u] = IF u = t THEN row ELSE queue[u]
  BY DEF TypeOK
<1> QED
  BY <1>1, <1>2 DEF TypeOK

LEMMA DeleteRow ==
    ASSUME TypeOK, NEW t \in Tokens, Delete(t)
    PROVE  queue' \in [Tokens -> Job \cup {None}] /\ \A u \in Tokens : RowOK(queue'[u])
  BY RowChange DEF Delete, RowOK

LEMMA RecordFailureRow ==
    ASSUME TypeOK, NEW t \in Tokens, RecordFailure(t)
    PROVE  queue' \in [Tokens -> Job \cup {None}] /\ \A u \in Tokens : RowOK(queue'[u])
<1> DEFINE row == IF queue[t] = None THEN None ELSE Failed(queue[t])
<1>1. row \in Job \cup {None} /\ RowOK(row)
  BY FailedRow DEF TypeOK, RowOK
<1>2. queue' = [queue EXCEPT ![t] = row]
  BY DEF RecordFailure, TypeOK
<1> HIDE DEF row
<1> QED
  BY <1>1, <1>2, RowChange

LEMMA EnqueueRows ==
    ASSUME TypeOK, NEW d \in Discoverers, Enqueue(d)
    PROVE  queue' \in [Tokens -> Job \cup {None}] /\ \A u \in Tokens : RowOK(queue'[u])
<1>1. ASSUME NEW t \in Tokens
      PROVE  queue'[t] \in Job \cup {None} /\ RowOK(queue'[t])
  <2>1. CASE queue[t] = None /\ \E i \in newItems[d] : i.token = t
    <3>1. PICK i \in newItems[d] : i = CHOOSE j \in newItems[d] : j.token = t
      BY <2>1, Zenon
    <3>2. i.block \in Heights
      BY DEF TypeOK, Item
    <3>3. queue'[t] = [status |-> "Pending", attempts |-> 0, due |-> TRUE, block |-> i.block]
      BY <2>1, <3>1 DEF Enqueue
    <3> QED
      BY <3>2, <3>3, MetadataConfig DEF Job, Status, RowOK
  <2>2. CASE ~(queue[t] = None /\ \E i \in newItems[d] : i.token = t)
    BY <2>2 DEF Enqueue, TypeOK
  <2> QED
    BY <2>1, <2>2
<1>2. queue' = [t \in Tokens |-> queue'[t]]
  BY DEF Enqueue
<1> QED
  BY <1>1, <1>2

LEMMA DelayRow ==
    ASSUME TypeOK, NEW t \in Tokens, DelayPasses(t)
    PROVE  queue' \in [Tokens -> Job \cup {None}] /\ \A u \in Tokens : RowOK(queue'[u])
<1> DEFINE row == [queue[t] EXCEPT !.due = TRUE]
<1>1. row \in Job /\ RowOK(row)
  BY DEF TypeOK, DelayPasses, RowOK, Job
<1>2. queue' = [queue EXCEPT ![t] = row]
  BY DEF DelayPasses, TypeOK
<1> HIDE DEF row
<1> QED
  BY <1>1, <1>2, RowChange

-----------------------------------------------------------------------------
LEMMA TypeInitially == Init => TypeOK
  BY MetadataConfig DEF Init, TypeOK, RowOK, Steps

(* The items of the workers. *)
ItemsOK ==
    /\ items \in [Workers -> SUBSET Item]
    /\ step \in [Workers -> Steps]
    /\ \A w \in Workers : step[w] = "idle" <=> items[w] = {}

LEMMA GoToType ==
    ASSUME ItemsOK, NEW w \in Workers, step[w] # "idle",
           NEW s \in Steps \ {"idle"}, GoTo(w, s)
    PROVE  ItemsOK'
  BY DEF ItemsOK, GoTo

LEMMA NextItemType ==
    ASSUME ItemsOK, NEW w \in Workers, NEW i, NextItem(w, i)
    PROVE  ItemsOK'
  BY DEF ItemsOK, NextItem, Steps

LEMMA TakeItemsType ==
    ASSUME TypeOK, NEW w \in Workers, TakeItems(w)
    PROVE  ItemsOK'
<1>1. Leading(Eligible) \in SUBSET Item /\ Leading(Eligible) # {}
  BY EligibleType DEF TakeItems, Leading
<1> QED
  BY <1>1 DEF TypeOK, ItemsOK, TakeItems, Steps

LEMMA CurrentType ==
    ASSUME TypeOK, NEW w \in Workers, NEW i \in Current(w)
    PROVE  i \in items[w] /\ i \in Item /\ i.token \in Tokens /\ i.block \in Heights
  BY DEF TypeOK, Current, Item

LEMMA TypeStep == TypeOK /\ [Next]_vars => TypeOK'
<1> SUFFICES ASSUME TypeOK, [Next]_vars PROVE TypeOK'
  OBVIOUS
<1>q. ASSUME UNCHANGED queue
      PROVE  queue' \in [Tokens -> Job \cup {None}] /\ \A u \in Tokens : RowOK(queue'[u])
  BY <1>q DEF TypeOK
<1>i. ASSUME UNCHANGED wVars PROVE ItemsOK'
  BY <1>i DEF TypeOK, ItemsOK, wVars
<1>o. ItemsOK
  BY DEF TypeOK, ItemsOK
<1>f. failures < MaxFailures /\ failures' = failures + 1 => failures' \in 0 .. MaxFailures
  BY MetadataConfig DEF TypeOK
<1>1. ASSUME NEW d \in Discoverers, Discover(d) PROVE TypeOK'
  BY <1>1, <1>q, <1>i DEF Discover, TypeOK, ItemsOK
<1>2. ASSUME NEW d \in Discoverers, CheckRepository(d) PROVE TypeOK'
  BY <1>2, <1>q, <1>i DEF CheckRepository, TypeOK, ItemsOK
<1>3. ASSUME NEW d \in Discoverers, CheckQueue(d) PROVE TypeOK'
  <2>1. checking[d] \in Item
    BY <1>3 DEF CheckQueue, TypeOK
  <2> QED
    BY <1>3, <2>1, <1>q, <1>i DEF CheckQueue, TypeOK, ItemsOK
<1>4. ASSUME NEW d \in Discoverers, Enqueue(d) PROVE TypeOK'
  BY <1>4, EnqueueRows, <1>i DEF Enqueue, TypeOK, ItemsOK
<1>5. ASSUME NEW d \in Discoverers, FillingFails(d) PROVE TypeOK'
  BY <1>5, <1>q, <1>i, <1>f DEF FillingFails, TypeOK, ItemsOK
<1>6. ASSUME NEW w \in Workers, TakeItems(w) PROVE TypeOK'
  BY <1>6, TakeItemsType, <1>q DEF TakeItems, TypeOK, ItemsOK, dVars
<1>7. ASSUME NEW w \in Workers, Process(w) PROVE TypeOK'
  <2>1. ItemsOK'
    BY <1>7, <1>o, GoToType DEF Process, Steps
  <2> QED
    BY <1>7, <2>1, <1>q DEF Process, TypeOK, ItemsOK, dVars
<1>8. ASSUME NEW w \in Workers, Upsert(w) PROVE TypeOK'
  <2>1. ItemsOK'
    BY <1>8, <1>o, GoToType DEF Upsert, Steps
  <2>2. enriched' \in [Tokens -> Heights \cup {None}]
    BY <1>8, CurrentType DEF Upsert, Enrich, TypeOK
  <2> QED
    BY <1>8, <2>1, <2>2, <1>q DEF Upsert, TypeOK, ItemsOK, dVars
<1>9. ASSUME NEW w \in Workers, MarkCompleted(w) PROVE TypeOK'
  <2>1. PICK i \in Current(w) : Delete(i.token) /\ NextItem(w, i)
    BY <1>9 DEF MarkCompleted
  <2>2. ItemsOK'
    BY <2>1, <1>o, NextItemType
  <2> QED
    BY <1>9, <2>1, <2>2, CurrentType, DeleteRow DEF MarkCompleted, TypeOK, ItemsOK, dVars
<1>10. ASSUME NEW w \in Workers, MarkFailed(w) PROVE TypeOK'
  <2>1. PICK i \in Current(w) : RecordFailure(i.token) /\ NextItem(w, i)
    BY <1>10 DEF MarkFailed
  <2>2. ItemsOK'
    BY <2>1, <1>o, NextItemType
  <2> QED
    BY <1>10, <2>1, <2>2, CurrentType, RecordFailureRow
    DEF MarkFailed, TypeOK, ItemsOK, dVars
<1>11. ASSUME NEW w \in Workers, QueryFails(w) PROVE TypeOK'
  <2>1. ItemsOK'
    BY <1>11, <1>o, GoToType DEF QueryFails, Steps
  <2>2. enriched' \in [Tokens -> Heights \cup {None}]
    BY <1>11, CurrentType DEF QueryFails, Enrich, TypeOK
  <2>3. queue' \in [Tokens -> Job \cup {None}] /\ \A u \in Tokens : RowOK(queue'[u])
    BY <1>11, <1>q, CurrentType, DeleteRow DEF QueryFails
  <2> QED
    BY <1>11, <2>1, <2>2, <2>3, <1>f DEF QueryFails, TypeOK, ItemsOK, dVars
<1>12. ASSUME NEW w \in Workers, Abandon(w) PROVE TypeOK'
  <2>1. ItemsOK'
    BY <1>12, <1>o DEF Abandon, ItemsOK, Steps
  <2>2. queue' \in [Tokens -> Job \cup {None}] /\ \A u \in Tokens : RowOK(queue'[u])
    BY <1>12, <1>q, CurrentType, RecordFailureRow DEF Abandon
  <2> QED
    BY <1>12, <2>1, <2>2, <1>f DEF Abandon, TypeOK, ItemsOK, dVars
<1>13. ASSUME NEW t \in Tokens, DelayPasses(t) PROVE TypeOK'
  BY <1>13, DelayRow, <1>i DEF DelayPasses, TypeOK, ItemsOK, dVars
<1>14. CASE UNCHANGED vars
  BY <1>14, <1>q, <1>i DEF vars, TypeOK, ItemsOK, dVars
<1> QED
  BY <1>1, <1>2, <1>3, <1>4, <1>5, <1>6, <1>7, <1>8, <1>9, <1>10, <1>11, <1>12, <1>13,
     <1>14 DEF Next, Fill, Work

(* Every variable of the metadata pipeline keeps its type, and the rows of *)
(* metadata_queue keep their status in step with their attempts            *)
(* (metadataQueue.ts:108-109).                                             *)
THEOREM MetadataTypeCorrect == Spec => []TypeOK
  BY TypeInitially, TypeStep, PTL DEF Spec

-----------------------------------------------------------------------------
(* A worker completes a job only after the metadata of its token has been *)
(* stored, by itself or another.                                          *)
CompletesTheEnriched ==
    \A w \in Workers :
        step[w] = "complete" => \A i \in Current(w) : enriched[i.token] # None

LEMMA BlockIsNotNone == \A b \in Heights : b # None
  BY MetadataConfig, NoneAssumption

LEMMA EnrichedStays ==
    ASSUME TypeOK, [Next]_vars
    PROVE  \A t \in Tokens : enriched[t] # None => enriched'[t] # None
<1>1. ASSUME NEW i \in Item, Enrich(i)
      PROVE  \A t \in Tokens : enriched[t] # None => enriched'[t] # None
  <2>1. i.token \in Tokens /\ i.block # None
    BY BlockIsNotNone DEF Item
  <2> QED
    BY <1>1, <2>1 DEF Enrich, TypeOK
<1>2. \/ UNCHANGED enriched
      \/ \E w \in Workers : \E i \in Current(w) : Enrich(i)
  BY DEF Next, vars, dVars, wVars, Discover, Fill, CheckRepository, CheckQueue, Enqueue,
         FillingFails, Work, TakeItems, Process, Upsert, MarkCompleted, MarkFailed,
         QueryFails, Abandon, DelayPasses
<1> QED
  BY <1>1, <1>2, CurrentType

LEMMA CompletesStep == TypeOK /\ CompletesTheEnriched /\ [Next]_vars => CompletesTheEnriched'
<1> SUFFICES ASSUME TypeOK, CompletesTheEnriched, [Next]_vars,
                    NEW w \in Workers, step'[w] = "complete", NEW i \in Current(w)'
             PROVE  enriched'[i.token] # None
  BY DEF CompletesTheEnriched
<1>1. CASE step[w] = "complete" /\ items'[w] = items[w]
  <2>1. i \in Current(w)
    BY <1>1 DEF Current
  <2> QED
    BY <1>1, <2>1, CurrentType, EnrichedStays DEF CompletesTheEnriched
<1>2. CASE Upsert(w)
  <2>1. i \in Current(w) /\ Current(w)' = Current(w)
    BY <1>2 DEF Upsert, GoTo, Current
  <2>2. PICK j \in Current(w) : Enrich(j)
    BY <1>2 DEF Upsert
  <2>3. j \in items[w] /\ i \in items[w]
    BY <2>1, <2>2 DEF Current
  <2>4. i = j
    <3>1. /\ i.block \in Nat /\ i.token \in Nat
          /\ j.block \in Nat /\ j.token \in Nat
      BY <2>1, <2>2, CurrentType, MetadataConfig
    <3>2. i # j => Before(i, j) /\ Before(j, i)
      BY <2>1, <2>2, <2>3 DEF Current
    <3> QED
      BY <3>1, <3>2 DEF Before
  <2> QED
    BY <2>2, <2>4, CurrentType, BlockIsNotNone DEF Enrich, TypeOK
<1>3. (step[w] = "complete" /\ items'[w] = items[w]) \/ Upsert(w)
  BY DEF Next, vars, dVars, wVars, Discover, Fill, CheckRepository, CheckQueue, Enqueue,
         FillingFails, Work, TakeItems, Process, Upsert, MarkCompleted, MarkFailed, GoTo,
         NextItem, QueryFails, Abandon, DelayPasses, TypeOK
<1> QED
  BY <1>1, <1>2, <1>3

LEMMA NoTokenIsForgottenStep ==
    ASSUME TypeOK, CompletesTheEnriched, [Next]_vars
    PROVE  \A t \in Tokens :
              queue[t] # None \/ enriched[t] # None => queue'[t] # None \/ enriched'[t] # None
<1> SUFFICES ASSUME NEW t \in Tokens, queue[t] # None, queue'[t] = None
             PROVE  enriched'[t] # None
  BY EnrichedStays
<1>1. ASSUME NEW u \in Tokens, RecordFailure(u) PROVE FALSE
  <2>1. Failed(queue[t]) # None
    BY FailedRow, NoneIsNoRow DEF TypeOK
  <2> QED
    BY <1>1, <2>1 DEF RecordFailure, TypeOK
<1>2. ASSUME NEW u \in Tokens, DelayPasses(u) PROVE FALSE
  <2>1. queue' \in [Tokens -> Job \cup {None}]
    BY <1>2, DelayRow
  <2>2. [queue[t] EXCEPT !.due = TRUE] \in Job
    BY DEF TypeOK, Job
  <2> QED
    BY <1>2, <2>2, NoneIsNoRow DEF DelayPasses, TypeOK
<1>3. \E w \in Workers : step[w] = "complete" /\ \E i \in Current(w) : Delete(i.token)
  BY <1>1, <1>2, CurrentType
  DEF Next, vars, dVars, wVars, Discover, Fill, CheckRepository, CheckQueue, Enqueue,
      FillingFails, Work, TakeItems, Process, Upsert, MarkCompleted, MarkFailed,
      QueryFails, Abandon
<1>4. PICK w \in Workers : step[w] = "complete" /\ \E i \in Current(w) : Delete(i.token)
  BY <1>3
<1>5. PICK i \in Current(w) : Delete(i.token)
  BY <1>4
<1>6. i.token = t
  BY <1>5, CurrentType DEF Delete, TypeOK
<1>7. enriched[t] # None
  BY <1>4, <1>5, <1>6 DEF CompletesTheEnriched
<1> QED
  BY <1>7, EnrichedStays

(* A token once queued is never forgotten, whichever workers hold its job *)
(* and whatever fails between the two writes (metadataPipeline.ts:149).   *)
THEOREM QueuedTokensAreKept == Spec => NoTokenIsForgotten
<1>1. Init => TypeOK /\ CompletesTheEnriched
  BY TypeInitially DEF Init, CompletesTheEnriched
<1>2. TypeOK /\ CompletesTheEnriched /\ [Next]_vars => TypeOK' /\ CompletesTheEnriched'
  BY TypeStep, CompletesStep
<1>3. TypeOK /\ CompletesTheEnriched /\ [Next]_vars =>
        [\A t \in Tokens :
            queue[t] # None \/ enriched[t] # None =>
                queue'[t] # None \/ enriched'[t] # None]_vars
  BY NoTokenIsForgottenStep
<1> QED
  BY <1>1, <1>2, <1>3, PTL DEF Spec, NoTokenIsForgotten

-----------------------------------------------------------------------------
(* The life of each token.  A worker's item is of a token that is queued *)
(* or known, however long ago it took it.                                *)
ItemsAreOfQueued ==
    \A w \in Workers : \A i \in items[w] :
        queue[i.token] # None \/ enriched[i.token] # None

LifeInv == TypeOK /\ CompletesTheEnriched /\ ItemsAreOfQueued

LEMMA ItemsAreOfQueuedStep == LifeInv /\ [Next]_vars => ItemsAreOfQueued'
<1> SUFFICES ASSUME LifeInv, [Next]_vars, NEW w \in Workers, NEW i \in items'[w]
             PROVE  queue'[i.token] # None \/ enriched'[i.token] # None
  BY DEF ItemsAreOfQueued
<1> USE DEF LifeInv
<1>1. CASE i \in items[w]
  BY <1>1, NoTokenIsForgottenStep DEF ItemsAreOfQueued, TypeOK, Item
<1>2. CASE \E v \in Workers : TakeItems(v)
  <2>1. i \in items[w] \/ i \in Eligible
    BY <1>2 DEF TakeItems, TypeOK, Leading
  <2>2. UNCHANGED queue
    BY <1>2 DEF TakeItems
  <2> QED
    BY <1>1, <2>1, <2>2 DEF Eligible
<1>3. ASSUME NEW v \in Workers, \E j : NextItem(v, j) PROVE i \in items[w]
  BY <1>3 DEF NextItem, TypeOK
<1>4. ASSUME NEW v \in Workers, Abandon(v) PROVE i \in items[w]
  BY <1>4 DEF Abandon, TypeOK
<1>5. i \in items[w] \/ \E v \in Workers : TakeItems(v)
  BY <1>3, <1>4
  DEF Next, vars, dVars, wVars, Discover, Fill, CheckRepository, CheckQueue, Enqueue,
      FillingFails, Work, Process, Upsert, MarkCompleted, MarkFailed, GoTo, QueryFails,
      DelayPasses
<1> QED
  BY <1>1, <1>2, <1>5

(* What a step shows of the queue and of the metadata. *)
Statuses == [t \in Tokens |-> IF queue[t] = None THEN "Absent" ELSE queue[t].status]
Attempts == [t \in Tokens |-> IF queue[t] = None THEN 0 ELSE queue[t].attempts]
Known    == {t \in Tokens : enriched[t] # None}

LEMMA StatusIsNotAbsent ==
    ASSUME TypeOK, NEW t \in Tokens
    PROVE  queue[t] = None <=> Statuses[t] = "Absent"
  BY DEF TypeOK, Statuses, Job, Status

LEMMA FailureShows ==
    ASSUME TypeOK, NEW t \in Tokens, RecordFailure(t), UNCHANGED enriched
    PROVE  Lifecycle!Fail(t) \/ UNCHANGED Lifecycle!vars
<1>1. CASE queue[t] = None
  <2>1. queue' = queue
    BY <1>1 DEF RecordFailure, TypeOK
  <2> QED
    BY <2>1 DEF Lifecycle!vars
<1>2. CASE queue[t] # None
  <2> DEFINE row == Failed(queue[t])
  <2>1. queue' = [queue EXCEPT ![t] = row]
    BY <1>2 DEF RecordFailure, TypeOK
  <2>2. row \in Job /\ row # None /\ row.attempts = queue[t].attempts + 1
    BY <1>2, FailedRow, NoneIsNoRow DEF TypeOK
  <2>3. row.status = IF queue[t].attempts + 1 >= MaxAttempts THEN "Dead" ELSE "Failed"
    BY DEF Failed
  <2> HIDE DEF row
  <2>4. \A u \in Tokens : queue'[u] = IF u = t THEN row ELSE queue[u]
    BY <2>1 DEF TypeOK
  <2>5. Statuses' = [Statuses EXCEPT ![t] = row.status]
    BY <2>2, <2>4 DEF Statuses
  <2>6. Attempts' = [Attempts EXCEPT ![t] = row.attempts]
    BY <2>2, <2>4 DEF Attempts
  <2>7. Attempts[t] = queue[t].attempts /\ Statuses[t] # "Absent"
    BY <1>2, StatusIsNotAbsent DEF Attempts
  <2>8. Lifecycle!Fail(t)
    BY <2>2, <2>3, <2>5, <2>6, <2>7 DEF Lifecycle!Fail, Statuses, Attempts
  <2> QED
    BY <2>8
<1> QED
  BY <1>1, <1>2

LEMMA CompletionShows ==
    ASSUME TypeOK, NEW t \in Tokens, Delete(t), enriched[t] # None, UNCHANGED enriched
    PROVE  Lifecycle!Complete(t)
<1>1. \A u \in Tokens : queue'[u] = IF u = t THEN None ELSE queue[u]
  BY DEF Delete, TypeOK
<1>2. Statuses' = [Statuses EXCEPT ![t] = "Absent"]
  BY <1>1 DEF Statuses
<1>3. Attempts' = [Attempts EXCEPT ![t] = 0]
  BY <1>1 DEF Attempts
<1>4. t \in Known /\ UNCHANGED Known
  BY DEF Known
<1> QED
  BY <1>2, <1>3, <1>4 DEF Lifecycle!Complete, Statuses, Attempts, Known

LEMMA EnrichmentShows ==
    ASSUME TypeOK, NEW i \in Item, Enrich(i), UNCHANGED queue,
           queue[i.token] # None \/ enriched[i.token] # None
    PROVE  Lifecycle!Enrich(i.token) \/ UNCHANGED Lifecycle!vars
<1>1. i.token \in Tokens /\ i.block # None
  BY BlockIsNotNone DEF Item
<1>2. \A u \in Tokens : enriched'[u] = IF u = i.token THEN i.block ELSE enriched[u]
  BY DEF Enrich, TypeOK
<1>3. Known' = Known \cup {i.token}
  BY <1>1, <1>2 DEF Known
<1>4. CASE queue[i.token] # None
  <2>1. Statuses[i.token] # "Absent"
    BY <1>1, <1>4, StatusIsNotAbsent
  <2> QED
    BY <1>3, <2>1 DEF Lifecycle!Enrich, Statuses, Known
<1>5. CASE enriched[i.token] # None
  <2>1. Known' = Known
    BY <1>1, <1>3, <1>5 DEF Known
  <2> QED
    BY <2>1 DEF Lifecycle!vars, Known
<1> QED
  BY <1>4, <1>5

LEMMA EnqueuingShows ==
    ASSUME TypeOK, NEW d \in Discoverers, Enqueue(d)
    PROVE  Lifecycle!Queue
<1> DEFINE T == {t \in Tokens : queue[t] = None /\ \E i \in newItems[d] : i.token = t}
<1>1. ASSUME NEW t \in T
      PROVE  queue'[t] # None /\ queue'[t].status = "Pending" /\ queue'[t].attempts = 0
  <2>1. queue'[t].status = "Pending" /\ queue'[t].attempts = 0
    BY DEF Enqueue
  <2>2. queue'[t] \in Job
    <3>1. PICK i \in newItems[d] : i = CHOOSE j \in newItems[d] : j.token = t
      BY Zenon
    <3>2. i.block \in Heights
      BY DEF TypeOK, Item
    <3>3. queue'[t] = [status |-> "Pending", attempts |-> 0, due |-> TRUE, block |-> i.block]
      BY <3>1 DEF Enqueue
    <3> QED
      BY <3>2, <3>3 DEF Job, Status
  <2> QED
    BY <2>1, <2>2, NoneIsNoRow
<1>2. \A t \in Tokens \ T : queue'[t] = queue[t]
  BY DEF Enqueue
<1>3. Statuses' = [t \in Tokens |-> IF t \in T THEN "Pending" ELSE Statuses[t]]
  <2> HIDE DEF T
  <2> QED
    BY <1>1, <1>2 DEF Statuses
<1>4. Attempts' = Attempts
  <2>1. \A t \in T : Attempts[t] = 0
    BY DEF Attempts
  <2> HIDE DEF T
  <2> QED
    BY <1>1, <1>2, <2>1 DEF Attempts
<1>5. T \in SUBSET {t \in Tokens : Statuses[t] = "Absent"}
  BY DEF Statuses
<1>6. Known' = Known
  BY DEF Enqueue, Known
<1> HIDE DEF T
<1> QED
  BY <1>3, <1>4, <1>5, <1>6 DEF Lifecycle!Queue, Statuses, Attempts, Known

LEMMA DelayShowsNothing ==
    ASSUME TypeOK, NEW t \in Tokens, DelayPasses(t)
    PROVE  UNCHANGED Lifecycle!vars
<1> DEFINE row == [queue[t] EXCEPT !.due = TRUE]
<1>1. row \in Job /\ row.status = queue[t].status /\ row.attempts = queue[t].attempts
  BY DEF TypeOK, DelayPasses, Job
<1>2. row # None
  BY <1>1, NoneIsNoRow
<1>3. \A u \in Tokens : queue'[u] = IF u = t THEN row ELSE queue[u]
  BY DEF DelayPasses, TypeOK
<1>4. queue[t] # None /\ UNCHANGED enriched
  BY DEF DelayPasses
<1> HIDE DEF row
<1>5. Statuses' = Statuses
  BY <1>1, <1>2, <1>3, <1>4 DEF Statuses
<1>6. Attempts' = Attempts
  BY <1>1, <1>2, <1>3, <1>4 DEF Attempts
<1> QED
  BY <1>4, <1>5, <1>6 DEF Lifecycle!vars, Statuses, Attempts

LEMMA NothingShows ==
    ASSUME UNCHANGED <<queue, enriched>>
    PROVE  UNCHANGED Lifecycle!vars
  BY DEF Lifecycle!vars

LEMMA StepImplementsLifecycle == LifeInv /\ [Next]_vars => [Lifecycle!Next]_(Lifecycle!vars)
<1> SUFFICES ASSUME LifeInv, [Next]_vars
             PROVE  Lifecycle!Next \/ UNCHANGED Lifecycle!vars
  OBVIOUS
<1>0. TypeOK /\ CompletesTheEnriched /\ ItemsAreOfQueued
  BY DEF LifeInv
<1>f. ASSUME NEW w \in Workers, NEW i \in Current(w), RecordFailure(i.token),
             UNCHANGED enriched
      PROVE  Lifecycle!Next \/ UNCHANGED Lifecycle!vars
  BY <1>0, <1>f, CurrentType, FailureShows DEF Lifecycle!Next
<1>c. ASSUME NEW w \in Workers, NEW i \in Current(w), step[w] = "complete",
             Delete(i.token), UNCHANGED enriched
      PROVE  Lifecycle!Next \/ UNCHANGED Lifecycle!vars
  BY <1>0, <1>c, CurrentType, CompletionShows DEF Lifecycle!Next, CompletesTheEnriched
<1>e. ASSUME NEW w \in Workers, NEW i \in Current(w), Enrich(i), UNCHANGED queue
      PROVE  Lifecycle!Next \/ UNCHANGED Lifecycle!vars
  BY <1>0, <1>e, CurrentType, EnrichmentShows DEF Lifecycle!Next, ItemsAreOfQueued
<1>1. ASSUME NEW d \in Discoverers, Enqueue(d)
      PROVE  Lifecycle!Next
  BY <1>0, <1>1, EnqueuingShows DEF Lifecycle!Next
<1>2. ASSUME NEW w \in Workers, Upsert(w) \/ MarkCompleted(w) \/ MarkFailed(w)
      PROVE  Lifecycle!Next \/ UNCHANGED Lifecycle!vars
  BY <1>2, <1>f, <1>c, <1>e DEF Upsert, MarkCompleted, MarkFailed
<1>3. ASSUME NEW w \in Workers, QueryFails(w)
      PROVE  Lifecycle!Next \/ UNCHANGED Lifecycle!vars
  BY <1>3, <1>c, <1>e, NothingShows DEF QueryFails
<1>4. ASSUME NEW w \in Workers, Abandon(w)
      PROVE  Lifecycle!Next \/ UNCHANGED Lifecycle!vars
  BY <1>4, <1>f, NothingShows DEF Abandon
<1>5. ASSUME NEW t \in Tokens, DelayPasses(t) PROVE UNCHANGED Lifecycle!vars
  BY <1>0, <1>5, DelayShowsNothing
<1>6. ASSUME \/ \E d \in Discoverers : \/ Discover(d) \/ CheckRepository(d) \/ CheckQueue(d)
                                       \/ FillingFails(d)
             \/ \E w \in Workers : TakeItems(w) \/ Process(w)
             \/ UNCHANGED vars
      PROVE  UNCHANGED Lifecycle!vars
  <2>1. UNCHANGED <<queue, enriched>>
    BY <1>6 DEF Discover, CheckRepository, CheckQueue, FillingFails, TakeItems, Process, vars
  <2> QED
    BY <2>1, NothingShows
<1> QED
  BY <1>1, <1>2, <1>3, <1>4, <1>5, <1>6 DEF Next, Fill, Work

(* The two tables show the life of each token and nothing else, whichever *)
(* workers and callers share them and whatever fails between the queries. *)
THEOREM TokensLiveTheirLife == Spec => ImplementsTokenLifecycle
<1>1. Init => Lifecycle!Init
  BY DEF Init, Lifecycle!Init
<1>2. Init => LifeInv
  BY TypeInitially DEF Init, LifeInv, CompletesTheEnriched, ItemsAreOfQueued
<1>3. LifeInv /\ [Next]_vars => LifeInv'
  BY TypeStep, CompletesStep, ItemsAreOfQueuedStep DEF LifeInv
<1> QED
  BY <1>1, <1>2, <1>3, StepImplementsLifecycle, PTL
  DEF Spec, ImplementsTokenLifecycle, Lifecycle!Spec

-----------------------------------------------------------------------------
(* The attempts of a job.  AttemptsAreBounded is not inductive: once a job *)
(* is Dead it may fail again for every worker that still holds it, and for *)
(* none that takes items later.                                            *)
Holders(t) == {w \in Workers : \E i \in items[w] : i.token = t}

OneItemPerToken ==
    \A w \in Workers : \A i, j \in items[w] : i.token = j.token => i = j

DeadJobsRunOut ==
    \A t \in Tokens : queue[t] # None /\ queue[t].attempts >= MaxAttempts =>
        queue[t].attempts + Cardinality(Holders(t)) <= MaxAttempts - 1 + Cardinality(Workers)

AttemptsInv == TypeOK /\ OneItemPerToken /\ DeadJobsRunOut

LEMMA HoldersAreFinite ==
    ASSUME NEW t
    PROVE  /\ IsFiniteSet(Holders(t))
           /\ Cardinality(Holders(t)) \in Nat /\ Cardinality(Workers) \in Nat
           /\ Cardinality(Holders(t)) <= Cardinality(Workers)
<1>1. Holders(t) \subseteq Workers
  BY DEF Holders
<1> QED
  BY <1>1, MetadataConfig, FS_Subset, FS_CardinalityType

LEMMA OneItemInitially == Init => OneItemPerToken /\ DeadJobsRunOut
  BY DEF Init, OneItemPerToken, DeadJobsRunOut

LEMMA OneItemStep == TypeOK /\ OneItemPerToken /\ [Next]_vars => OneItemPerToken'
<1> SUFFICES ASSUME TypeOK, OneItemPerToken, [Next]_vars PROVE OneItemPerToken'
  OBVIOUS
<1>1. ASSUME \A w \in Workers : items'[w] \subseteq items[w] PROVE OneItemPerToken'
  BY <1>1 DEF OneItemPerToken
<1>2. ASSUME NEW w \in Workers, TakeItems(w) PROVE OneItemPerToken'
  <2>1. \A i, j \in Leading(Eligible) : i.token = j.token => i = j
    BY DEF Leading, Eligible
  <2>2. \A v \in Workers : items'[v] = items[v] \/ items'[v] = Leading(Eligible)
    BY <1>2 DEF TakeItems, TypeOK
  <2> QED
    BY <2>1, <2>2 DEF OneItemPerToken
<1>3. ASSUME NEW w \in Workers, NEW i, NextItem(w, i)
      PROVE  \A v \in Workers : items'[v] \subseteq items[v]
  BY <1>3 DEF NextItem, TypeOK
<1>4. ASSUME NEW w \in Workers, Abandon(w)
      PROVE  \A v \in Workers : items'[v] \subseteq items[v]
  BY <1>4 DEF Abandon, TypeOK
<1> QED
  BY <1>1, <1>2, <1>3, <1>4
  DEF Next, vars, dVars, wVars, Discover, Fill, CheckRepository, CheckQueue, Enqueue,
      FillingFails, Work, Process, Upsert, MarkCompleted, MarkFailed, GoTo, QueryFails,
      DelayPasses

(* What a step does to a job that is Dead after it: nothing, or one more *)
(* failure that one of its holders spends.                               *)
LEMMA DeadJobStep ==
    ASSUME TypeOK, OneItemPerToken, [Next]_vars,
           NEW t \in Tokens, queue'[t] # None, queue'[t].attempts >= MaxAttempts
    PROVE  /\ queue[t] # None
           /\ \/ /\ queue'[t].attempts = queue[t].attempts
                 /\ Holders(t)' \subseteq Holders(t)
              \/ /\ queue'[t].attempts = queue[t].attempts + 1
                 /\ \E w \in Holders(t) : Holders(t)' \subseteq Holders(t) \ {w}
<1> DEFINE Kept  == /\ queue[t] # None
                    /\ queue'[t].attempts = queue[t].attempts
                    /\ Holders(t)' \subseteq Holders(t)
           Spent == /\ queue[t] # None
                    /\ queue'[t].attempts = queue[t].attempts + 1
                    /\ \E w \in Holders(t) : Holders(t)' \subseteq Holders(t) \ {w}
           Fewer == \A v \in Workers : items'[v] \subseteq items[v]
<1>k. ASSUME queue'[t] = queue[t], Fewer PROVE Kept
  BY <1>k DEF Holders
<1>r. ASSUME NEW w \in Workers, NEW i \in Current(w), RecordFailure(i.token),
             Fewer, i \notin items'[w]
      PROVE  Kept \/ Spent
  <2>1. CASE i.token = t
    <3>1. queue[t] # None /\ queue'[t] = Failed(queue[t])
      BY <1>r, <2>1 DEF RecordFailure, TypeOK
    <3>2. queue'[t].attempts = queue[t].attempts + 1
      BY <3>1, FailedRow DEF TypeOK
    <3>3. w \in Holders(t)
      BY <2>1, CurrentType DEF Holders
    <3>4. w \notin Holders(t)'
      BY <1>r, <2>1, CurrentType DEF Holders, OneItemPerToken
    <3>5. Holders(t)' \subseteq Holders(t)
      BY <1>r DEF Holders
    <3> QED
      BY <3>1, <3>2, <3>3, <3>4, <3>5
  <2>2. CASE i.token # t
    BY <1>k, <1>r, <2>2 DEF RecordFailure, TypeOK
  <2> QED
    BY <2>1, <2>2
<1>d. ASSUME NEW w \in Workers, NEW i \in Current(w), Delete(i.token), Fewer PROVE Kept
  BY <1>k, <1>d DEF Delete, TypeOK
<1>n. ASSUME NEW w \in Workers, NEW i, NextItem(w, i) PROVE Fewer /\ i \notin items'[w]
  BY <1>n DEF NextItem, TypeOK
<1>1. ASSUME NEW d \in Discoverers, Discover(d) \/ CheckRepository(d) \/ CheckQueue(d)
                                    \/ FillingFails(d)
      PROVE  Kept
  BY <1>1, <1>k DEF Discover, CheckRepository, CheckQueue, FillingFails, wVars
<1>2. ASSUME NEW d \in Discoverers, Enqueue(d) PROVE Kept
  <2>1. queue'[t] = queue[t] \/ queue'[t].attempts = 0
    BY <1>2 DEF Enqueue, TypeOK
  <2> QED
    BY <1>2, <2>1, <1>k, MetadataConfig DEF Enqueue, wVars
<1>3. ASSUME NEW w \in Workers, TakeItems(w) PROVE Kept
  <2>1. queue'[t] = queue[t] /\ queue[t].status = "Dead"
    BY <1>3 DEF TakeItems, TypeOK, RowOK
  <2>2. \A i \in Leading(Eligible) : i.token # t
    BY <2>1 DEF Leading, Eligible
  <2>3. \A v \in Workers : items'[v] = items[v] \/ items'[v] = Leading(Eligible)
    BY <1>3 DEF TakeItems, TypeOK
  <2> QED
    BY <2>1, <2>2, <2>3 DEF Holders
<1>4. ASSUME NEW w \in Workers, Process(w) \/ Upsert(w) PROVE Kept
  BY <1>4, <1>k DEF Process, Upsert, GoTo
<1>5. ASSUME NEW w \in Workers, MarkCompleted(w) PROVE Kept
  BY <1>5, <1>d, <1>n DEF MarkCompleted
<1>6. ASSUME NEW w \in Workers, MarkFailed(w) PROVE Kept \/ Spent
  BY <1>6, <1>r, <1>n DEF MarkFailed
<1>7. ASSUME NEW w \in Workers, QueryFails(w) PROVE Kept
  BY <1>7, <1>k, <1>d DEF QueryFails, GoTo
<1>8. ASSUME NEW w \in Workers, Abandon(w) PROVE Kept \/ Spent
  <2>1. Fewer /\ items'[w] = {}
    BY <1>8 DEF Abandon, TypeOK
  <2> QED
    BY <1>8, <2>1, <1>k, <1>r DEF Abandon
<1>9. ASSUME NEW u \in Tokens, DelayPasses(u) PROVE Kept
  <2>1. queue[t] # None /\ queue'[t].attempts = queue[t].attempts
    BY <1>9 DEF DelayPasses, TypeOK, Job
  <2> QED
    BY <1>9, <2>1 DEF DelayPasses, wVars, Holders
<1>10. CASE UNCHANGED vars
  BY <1>10, <1>k DEF vars, wVars
<1> QED
  BY <1>1, <1>2, <1>3, <1>4, <1>5, <1>6, <1>7, <1>8, <1>9, <1>10 DEF Next, Fill, Work

LEMMA DeadJobsRunOutStep ==
    AttemptsInv /\ [Next]_vars => DeadJobsRunOut'
<1> SUFFICES ASSUME AttemptsInv, [Next]_vars,
                    NEW t \in Tokens, queue'[t] # None, queue'[t].attempts >= MaxAttempts
             PROVE  queue'[t].attempts + Cardinality(Holders(t)')
                       <= MaxAttempts - 1 + Cardinality(Workers)
  BY DEF DeadJobsRunOut
<1> DEFINE H  == Cardinality(Holders(t))
           H1 == Cardinality(Holders(t)')
           W  == Cardinality(Workers)
<1>1. H \in Nat /\ W \in Nat /\ H <= W /\ IsFiniteSet(Holders(t))
  BY HoldersAreFinite
<1>2. queue[t] # None /\ queue[t].attempts \in Nat
  BY DeadJobStep DEF AttemptsInv, TypeOK, Job
<1>3. CASE queue'[t].attempts = queue[t].attempts /\ Holders(t)' \subseteq Holders(t)
  <2>1. H1 \in Nat /\ H1 <= H
    BY <1>1, <1>3, FS_Subset, FS_CardinalityType
  <2>2. queue[t].attempts + H <= MaxAttempts - 1 + W
    BY <1>2, <1>3 DEF AttemptsInv, DeadJobsRunOut
  <2> HIDE DEF H, H1, W
  <2>3. queue[t].attempts + H1 <= MaxAttempts - 1 + W
    BY <2>1, <2>2, <1>1, <1>2, MetadataConfig
  <2> QED
    BY <2>3, <1>3 DEF H1, W
<1>4. ASSUME NEW w \in Holders(t), Holders(t)' \subseteq Holders(t) \ {w},
             queue'[t].attempts = queue[t].attempts + 1
      PROVE  queue'[t].attempts + H1 <= MaxAttempts - 1 + W
  <2>1. IsFiniteSet(Holders(t) \ {w}) /\ Cardinality(Holders(t) \ {w}) = H - 1
    BY <1>1, FS_RemoveElement
  <2>2. H1 \in Nat /\ H1 <= H - 1
    BY <1>4, <2>1, FS_Subset, FS_CardinalityType
  <2>3. queue[t].attempts >= MaxAttempts => queue[t].attempts + H <= MaxAttempts - 1 + W
    BY <1>2 DEF AttemptsInv, DeadJobsRunOut
  <2> HIDE DEF H, H1, W
  <2>4. queue[t].attempts + 1 + H1 <= MaxAttempts - 1 + W
    <3>1. CASE queue[t].attempts >= MaxAttempts
      BY <3>1, <2>2, <2>3, <1>1, <1>2, MetadataConfig
    <3>2. CASE queue[t].attempts + 1 <= MaxAttempts
      BY <3>2, <2>2, <1>1, <1>2, MetadataConfig
    <3> QED
      BY <3>1, <3>2, <1>2, MetadataConfig
  <2> QED
    BY <2>4, <1>4
<1> QED
  BY <1>3, <1>4, DeadJobStep DEF AttemptsInv

(* A job fails at most once for each holder beyond the limit, whatever the *)
(* workers do (metadataQueue.ts:41-50, 109).                               *)
THEOREM AttemptsStayBounded == Spec => []AttemptsAreBounded
<1>1. Init => AttemptsInv
  BY TypeInitially, OneItemInitially DEF AttemptsInv
<1>2. AttemptsInv /\ [Next]_vars => AttemptsInv'
  BY TypeStep, OneItemStep, DeadJobsRunOutStep DEF AttemptsInv
<1>3. AttemptsInv => AttemptsAreBounded
  <2> SUFFICES ASSUME AttemptsInv, NEW t \in Tokens, queue[t] # None
               PROVE  queue[t].attempts <= MaxAttempts - 1 + Cardinality(Workers)
    BY DEF AttemptsAreBounded
  <2>1. queue[t].attempts \in Nat /\ Cardinality(Workers) \in Nat
        /\ Cardinality(Holders(t)) \in Nat
    BY HoldersAreFinite DEF AttemptsInv, TypeOK, Job
  <2> QED
    BY <2>1, MetadataConfig DEF AttemptsInv, DeadJobsRunOut
<1> QED
  BY <1>1, <1>2, <1>3, PTL DEF Spec
=============================================================================
