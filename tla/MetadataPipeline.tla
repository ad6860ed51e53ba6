-------------------------- MODULE MetadataPipeline --------------------------
(***************************************************************************)
(* Token enrichment (packages/metadata, packages/database): enqueueBatch   *)
(* turns discovered tokens into jobs of the table metadata_queue, and      *)
(* processQueue works the jobs off into token_metadata.  Any number of     *)
(* callers run both against one database; every awaited query is atomic,   *)
(* and nothing holds a lock or a transaction from one query to the next.   *)
(***************************************************************************)
EXTENDS Nullable, FiniteSets

CONSTANTS
    Tokens,        \* the tokens of one chain; a token is its address, a number
    Heights,       \* the blocks in which tokens are discovered
    Workers,       \* the callers of processQueue
    Discoverers,   \* the callers of enqueueBatch
    MaxItems,      \* maxItems of processQueue
    MaxAttempts,   \* failures until a job is Dead, 5 in the code
    MaxFailures    \* bound on the database failures and crashes of a behaviour

ASSUME MetadataConfig ==
    /\ Tokens \subseteq Nat /\ Heights \subseteq Nat
    /\ MaxItems \in Nat \ {0}
    /\ MaxAttempts \in Nat \ {0}
    /\ MaxFailures \in Nat
    /\ IsFiniteSet(Workers)

VARIABLES
    queue,     \* queue[t]: the row of t in metadata_queue, None without one
    enriched,  \* enriched[t]: the block in the row of t in token_metadata, or None
    batch,     \* batch[d]: the items of DiscoveryBatch still to look up
    checking,  \* checking[d]: the item that is not in the repository, or None
    newItems,  \* newItems[d]: the items to enqueue
    filling,   \* filling[d]: enqueueBatch is running
    items,     \* items[w]: the items processQueue has yet to finish
    step,      \* step[w]: what it is about to do with the first of them
    failures   \* failures so far

dVars == <<batch, checking, newItems, filling>>
wVars == <<items, step>>
vars  == <<queue, enriched, dVars, wVars, failures>>

Item   == [token : Tokens, block : Heights]
Status == {"Pending", "Failed", "Dead"}
Steps  == {"idle", "process", "upsert", "complete", "fail"}

(* A job row.  Of run_at only matters whether it has passed. *)
Job == [status : Status, attempts : Nat, block : Heights, due : BOOLEAN]

ASSUME NoneIsNoRow == None \notin Job /\ None \notin Item

(* The table's rows are those of the status lifecycle: Dead from the      *)
(* MaxAttempts-th failure on, Pending before the first.                   *)
RowOK(row) ==
    row # None =>
        /\ row \in Job
        /\ row.status = "Dead" <=> row.attempts >= MaxAttempts
        /\ row.status = "Pending" <=> row.attempts = 0

TypeOK ==
    /\ queue \in [Tokens -> Job \cup {None}]
    /\ \A t \in Tokens : RowOK(queue[t])
    /\ enriched \in [Tokens -> Heights \cup {None}]
    /\ batch \in [Discoverers -> SUBSET Item]
    /\ checking \in [Discoverers -> Item \cup {None}]
    /\ newItems \in [Discoverers -> SUBSET Item]
    /\ filling \in [Discoverers -> BOOLEAN]
    /\ items \in [Workers -> SUBSET Item]
    /\ step \in [Workers -> Steps]
    /\ \A w \in Workers : step[w] = "idle" <=> items[w] = {}
    /\ failures \in 0 .. MaxFailures

Init ==
    /\ queue = [t \in Tokens |-> None]
    /\ enriched = [t \in Tokens |-> None]
    /\ batch = [d \in Discoverers |-> {}]
    /\ checking = [d \in Discoverers |-> None]
    /\ newItems = [d \in Discoverers |-> {}]
    /\ filling = [d \in Discoverers |-> FALSE]
    /\ items = [w \in Workers |-> {}]
    /\ step = [w \in Workers |-> "idle"]
    /\ failures = 0

-----------------------------------------------------------------------------
(* enqueueBatch. *)

(* The discovery engine hands over a batch, one item per token. *)
Discover(d) ==
    /\ ~filling[d]
    /\ \E S \in SUBSET Item :
        /\ S # {} /\ \A i, j \in S : i.token = j.token => i = j
        /\ batch' = [batch EXCEPT ![d] = S]
    /\ filling' = [filling EXCEPT ![d] = TRUE]
    /\ UNCHANGED <<queue, enriched, checking, newItems, wVars, failures>>

(* repository.exists: a token with metadata is skipped. *)
CheckRepository(d) ==
    /\ checking[d] = None
    /\ \E i \in batch[d] :
        /\ batch' = [batch EXCEPT ![d] = @ \ {i}]
        /\ checking' = [checking EXCEPT ![d] = IF enriched[i.token] = None THEN i ELSE None]
    /\ UNCHANGED <<queue, enriched, newItems, filling, wVars, failures>>

(* queue.exists: a token with a job, Dead or not, is skipped. *)
CheckQueue(d) ==
    /\ checking[d] # None
    /\ newItems' = [newItems EXCEPT ![d] =
                       IF queue[checking[d].token] = None THEN @ \cup {checking[d]} ELSE @]
    /\ checking' = [checking EXCEPT ![d] = None]
    /\ UNCHANGED <<queue, enriched, batch, filling, wVars, failures>>

(* queue.enqueue: one INSERT ... ON CONFLICT DO NOTHING; enqueueBatch returns. *)
Enqueue(d) ==
    /\ filling[d] /\ batch[d] = {} /\ checking[d] = None
    /\ queue' = [t \in Tokens |->
          IF queue[t] = None /\ \E i \in newItems[d] : i.token = t
          THEN [status |-> "Pending", attempts |-> 0, due |-> TRUE,
                block |-> (CHOOSE i \in newItems[d] : i.token = t).block]
          ELSE queue[t]]
    /\ newItems' = [newItems EXCEPT ![d] = {}]
    /\ filling' = [filling EXCEPT ![d] = FALSE]
    /\ UNCHANGED <<enriched, batch, checking, wVars, failures>>

(* A query fails, the caller's transaction rolls back or the process dies. *)
FillingFails(d) ==
    /\ filling[d]
    /\ failures < MaxFailures /\ failures' = failures + 1
    /\ batch' = [batch EXCEPT ![d] = {}]
    /\ checking' = [checking EXCEPT ![d] = None]
    /\ newItems' = [newItems EXCEPT ![d] = {}]
    /\ filling' = [filling EXCEPT ![d] = FALSE]
    /\ UNCHANGED <<queue, enriched, wVars>>

-----------------------------------------------------------------------------
(* processQueue. *)

(* ORDER BY block_number_observed, token_address. *)
Before(i, j) == i.block < j.block \/ (i.block = j.block /\ i.token < j.token)
Leading(S)   == {i \in S : Cardinality({j \in S : Before(j, i)}) < MaxItems}

\* Mutant: Dead jobs are selected as well.
Eligible_Dead ==
    {[token |-> t, block |-> queue[t].block] :
        t \in {u \in Tokens : queue[u] # None /\ queue[u].due}}

\* Mutant: only Pending jobs are selected.
Eligible_PendingOnly ==
    {[token |-> t, block |-> queue[t].block] :
        t \in {u \in Tokens : queue[u] # None /\ queue[u].status = "Pending" /\ queue[u].due}}

(* The jobs nextPending may select. *)
Eligible ==
    {[token |-> t, block |-> queue[t].block] :
        t \in {u \in Tokens : queue[u] # None /\ queue[u].status # "Dead" /\ queue[u].due}}

(* queue.nextPending: up to maxItems jobs; the rows are not marked. *)
TakeItems(w) ==
    /\ step[w] = "idle" /\ Leading(Eligible) # {}
    /\ items' = [items EXCEPT ![w] = Leading(Eligible)]
    /\ step' = [step EXCEPT ![w] = "process"]
    /\ UNCHANGED <<queue, enriched, dVars, failures>>

(* The item at hand, the first of those that are left. *)
Current(w) == {i \in items[w] : \A j \in items[w] \ {i} : Before(i, j)}

(* The item is done: the next one, or processQueue returns. *)
NextItem(w, i) ==
    /\ items' = [items EXCEPT ![w] = @ \ {i}]
    /\ step' = [step EXCEPT ![w] = IF items'[w] = {} THEN "idle" ELSE "process"]

GoTo(w, s) == step' = [step EXCEPT ![w] = s] /\ UNCHANGED items

(* processor.process: a snapshot, complete or of an unsupported token; or *)
(* a transient RPC failure, invalid decimals or no processor at all.      *)
Process(w) ==
    /\ step[w] = "process"
    /\ \/ GoTo(w, "upsert")
       \/ GoTo(w, "fail")
    /\ UNCHANGED <<queue, enriched, dVars, failures>>

(* The row that repository.upsert writes. *)
Enrich(i) == enriched' = [enriched EXCEPT ![i.token] = i.block]

(* repository.upsert: the snapshot replaces any other. *)
Upsert(w) ==
    /\ step[w] = "upsert"
    /\ \E i \in Current(w) : Enrich(i)
    /\ GoTo(w, "complete")
    /\ UNCHANGED <<queue, dVars, failures>>

(* queue.markCompleted: the token's row is deleted, whoever's job it is. *)
Delete(t) == queue' = [queue EXCEPT ![t] = None]

MarkCompleted(w) ==
    /\ step[w] = "complete"
    /\ \E i \in Current(w) : Delete(i.token) /\ NextItem(w, i)
    /\ UNCHANGED <<enriched, dVars, failures>>

\* Mutant: the threshold is compared with the count before the increment.
Failed_OffByOne(job) ==
    [status   |-> IF job.attempts >= MaxAttempts THEN "Dead" ELSE "Failed",
     attempts |-> job.attempts + 1,
     due      |-> FALSE,
     block    |-> job.block]

(* The row after one more failure: retried after a delay, or Dead. *)
Failed(job) ==
    [status   |-> IF job.attempts + 1 >= MaxAttempts THEN "Dead" ELSE "Failed",
     attempts |-> job.attempts + 1,
     due      |-> FALSE,
     block    |-> job.block]

\* Mutant: the UPDATE is an upsert.
RecordFailure_Upsert(t) ==
    queue' = [queue EXCEPT ![t] =
                 IF @ = None
                 THEN [status |-> "Failed", attempts |-> 1, due |-> FALSE,
                       block |-> CHOOSE b \in Heights : TRUE]
                 ELSE Failed(@)]

(* queue.markFailed: an UPDATE, without effect on a row that is gone. *)
RecordFailure(t) ==
    queue' = [queue EXCEPT ![t] = IF @ = None THEN None ELSE Failed(@)]

MarkFailed(w) ==
    /\ step[w] = "fail"
    /\ \E i \in Current(w) : RecordFailure(i.token) /\ NextItem(w, i)
    /\ UNCHANGED <<enriched, dVars, failures>>

\* Mutant: a failed upsert is logged and the job completed.
QueryFails_Swallowed(w) ==
    /\ step[w] \in {"upsert", "complete"}
    /\ failures < MaxFailures /\ failures' = failures + 1
    /\ GoTo(w, "complete")
    /\ UNCHANGED <<queue, enriched, dVars>>

(* upsert or markCompleted throws, before or after its effect: the catch *)
(* block records a failure of the enrichment.                            *)
QueryFails(w) ==
    /\ step[w] \in {"upsert", "complete"}
    /\ failures < MaxFailures /\ failures' = failures + 1
    /\ \/ UNCHANGED <<queue, enriched>>
       \/ step[w] = "upsert" /\ UNCHANGED queue /\ \E i \in Current(w) : Enrich(i)
       \/ step[w] = "complete" /\ UNCHANGED enriched /\ \E i \in Current(w) : Delete(i.token)
    /\ GoTo(w, "fail")
    /\ UNCHANGED dVars

(* markFailed throws out of processQueue, before or after its effect, or *)
(* the process dies: the remaining items are dropped.                    *)
Abandon(w) ==
    /\ step[w] # "idle"
    /\ failures < MaxFailures /\ failures' = failures + 1
    /\ \/ UNCHANGED queue
       \/ step[w] = "fail" /\ \E i \in Current(w) : RecordFailure(i.token)
    /\ items' = [items EXCEPT ![w] = {}]
    /\ step' = [step EXCEPT ![w] = "idle"]
    /\ UNCHANGED <<enriched, dVars>>

(* The delay of a failed job passes (one to sixteen minutes). *)
DelayPasses(t) ==
    /\ queue[t] # None /\ ~queue[t].due
    /\ queue' = [queue EXCEPT ![t].due = TRUE]
    /\ UNCHANGED <<enriched, dVars, wVars, failures>>

-----------------------------------------------------------------------------
Fill(d) == CheckRepository(d) \/ CheckQueue(d) \/ Enqueue(d)
Work(w) == TakeItems(w) \/ Process(w) \/ Upsert(w) \/ MarkCompleted(w) \/ MarkFailed(w)

Next ==
    \/ \E d \in Discoverers : Discover(d) \/ Fill(d) \/ FillingFails(d)
    \/ \E w \in Workers : Work(w) \/ QueryFails(w) \/ Abandon(w)
    \/ \E t \in Tokens : DelayPasses(t)

Spec == Init /\ [][Next]_vars

(* Somebody keeps calling processQueue, its calls are answered, and time *)
(* passes.                                                               *)
FairSpec ==
    /\ Spec
    /\ \A w \in Workers : WF_vars(Work(w))
    /\ \A t \in Tokens : WF_vars(DelayPasses(t))

-----------------------------------------------------------------------------
(* A token once queued is never forgotten: its job leaves the table only *)
(* when its metadata is there, and the metadata stays, although the two  *)
(* are written apart (metadataPipeline.ts:149-154) and a job is deleted  *)
(* by whoever finishes first.                                            *)
NoTokenIsForgotten ==
    [][\A t \in Tokens :
          queue[t] # None \/ enriched[t] # None =>
              queue'[t] # None \/ enriched'[t] # None]_vars

(* To a reader of the two tables the pipeline is the life of each token:   *)
(* whichever workers hold its job at once, whatever fails between the      *)
(* queries and however late a worker finishes, a job is neither revived    *)
(* nor made by a failure, and only known tokens lose theirs                *)
(* (metadataPipeline.ts:128-191, metadataQueue.ts:72-126).                 *)
Lifecycle == INSTANCE TokenLifecycle
    WITH status   <- [t \in Tokens |-> IF queue[t] = None THEN "Absent" ELSE queue[t].status],
         attempts <- [t \in Tokens |-> IF queue[t] = None THEN 0 ELSE queue[t].attempts],
         known    <- {t \in Tokens : enriched[t] # None}

ImplementsTokenLifecycle == Lifecycle!Spec

(* A job is tried at most as often as the limit says, give or take the   *)
(* workers that hold it at once: nothing claims a row, but a Dead one is *)
(* not handed out again (metadataQueue.ts:41-50, 109).                   *)
AttemptsAreBounded ==
    \A t \in Tokens : queue[t] # None =>
        queue[t].attempts <= MaxAttempts - 1 + Cardinality(Workers)

(* Every job is settled: its token is enriched or the job is Dead,       *)
(* whatever the node answers, whichever query fails and whoever else     *)
(* holds the job.                                                        *)
EveryJobIsSettled ==
    \A t \in Tokens :
        queue[t] # None ~> enriched[t] # None \/ (queue[t] # None /\ queue[t].status = "Dead")
=============================================================================
