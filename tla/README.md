# Sera Analytics: TLA+ models, checks and proofs

Sera Analytics indexes the events of the Sera contracts from an EVM chain into
PostgreSQL and serves them over HTTP. This directory holds a TLA+ development of
it: the indexing pipeline with reorganisation recovery, the planner it uses, the
decoding of the logs, the tables it writes, the daemon that runs it, the queue
that enriches the tokens it finds, and the HTTP server that answers from the
tables. TLC checks small instances; TLAPS proves the safety
properties for every value of the constants. Paths below are relative to `src/`.

## 1. The system

| Component | State | Operations | Talks to |
|---|---|---|---|
| Sync planner, `packages/shared/src/sync.ts` | none | `calculateSyncRange` | called by pipeline and orchestrator |
| Indexing pipeline, `apps/indexer/src/pipeline.ts` | locals of one `execute()` | `execute` | planner, detector, reader, all stores |
| Reorg detector and manager, `apps/indexer/src/reorg.ts` | locals of one walk | `check`, `findCommonAncestor`, `markNonCanonical` | reader, block metadata, checkpoint |
| Relational cache, `packages/database/src` | `checkpoints`, `block_metadata`, `raw_*` | `saveRecords`, `saveBlock`, `saveCheckpoint`, `markNonCanonical`, reads | PostgreSQL |
| Blockchain reader, `packages/contracts/src/reader.ts` | none | `getLatestBlockNumber`, `getLogs`, `getBlockByNumber` | the RPC node |
| Continuous indexer daemon, `apps/indexer/src/daemon.ts` | state, failure count, shutdown flag, pending timers | `start`, `stop`, `_runLoop`, `_sleep` | pipeline, process signals |
| Service process, `apps/indexer/src/index.ts` | `shuttingDown`, the pool | bootstrap, `handleShutdown` | daemon, database |
| Sync orchestrator, `apps/indexer/src/orchestrator.ts` | none | `executeIteration` | planner, reader |
| Decoder, handlers, normalizer, `packages/contracts/src` | none | `decode`, `handle`, `normalize` | pipeline |
| Metadata queue and pipeline, `packages/metadata/src`, `packages/database/src/metadataQueue.ts` | `metadata_queue`, `token_metadata` | `enqueueBatch`, `processQueue` | RPC node, PostgreSQL |
| Token discovery, `packages/metadata/src/discovery*.ts` | rule registry | `discoverTokens` | facts, metadata queue |
| Query layer, `packages/query/src` | none | fact, block and metadata queries | PostgreSQL |
| HTTP API, `apps/api/src` | requests in flight, shutdown flag | routes, validation, `handleShutdown` | query layer |
| Database client, `packages/database/src/client.ts` | the connection pool | `getDb`, `destroy` | PostgreSQL |
| Health checks, observability, configuration, logging | counters | verdicts | all |

The chain, the store and the daemon are three actors that move independently.
`execute()` awaits the store or the node at every step, and the chain grows or
reorganises between any two of them; the process may die at any of them. The
stores are shared by all that run against one database.

Where the difficulty lies:

- *interleaving and stale reads*: the checkpoint, the highest row, the node's
  blocks, the head and the logs are five separate reads; nothing pins them to
  one chain;
- *atomicity and failure*: records, block rows and checkpoint are written by
  many statements; the recovery by two; commits whose acknowledgement is lost;
- *long sequences*: forks on forks, the return to an earlier fork, a
  transaction included twice, blocks that hold no logs;
- *boundaries*: an empty range, a head below the start block, a full batch, the
  rollback depth, the genesis block;
- *time*: backoff, a stop during a sleep or during a batch, the forced stop, two
  signal handlers, a batch that hangs;
- *concurrent workers* on the metadata queue: no row is locked or claimed, a
  completion is two writes, and discovery checks two tables one after the other;
- *several indexers on one database*: replicas that commit overlapping ranges
  and move one checkpoint up and back;
- *identity*: a fact is found again by a key made of parts of its log, and a key
  that takes two facts for one loses the second;
- *a shared pool* smaller than the number of requests, that breaks while they
  wait and is destroyed at a shutdown.

What makes each component correct: the planner covers every block once and in
order; the pipeline keeps the cache a prefix of the best chain that moves by
whole batches and whole rewinds; the detector rolls back to a common ancestor
and to no lower height than it must; every log becomes its rows once, whichever
process writes them, and no checkpoint outruns its facts; reads show exactly the records of the
canonical blocks; the daemon retries for ever, tells its health and shuts down
in order; the metadata queue loses no token and settles every job in a bounded
number of attempts; the discovery does not depend on the order of facts; the
server answers every request it accepted, with what the cache held at one
moment, and goes when it is told to.

`PROJECT.json` lists the components with their status and the hazards line by line.

## 2. The modules

```
Nullable <- BlockTree <- EvmChain -----------------.
                      <- IndexerStore <- IndexerWrites <- IndexingPipeline <- MCIndexingPipeline
         <- SyncPlanner <------------------'      |         |   |  <- IndexingPipeline_proofs
         <- CanonicalIndex  <-- INSTANCE ---------|---------'   |
            QuietPipeline <-----------------------|-------------'
            QuietPipeline, MCIndexingPipeline     |<- MCQuietPipeline
            QuietPipeline, IndexingPipeline_proofs|<- QuietPipeline_proofs
IndexerStore <- ReadQueries <- ApiServer <- MCApiServer, ApiServer_proofs
                IndexerWrites <--'
IndexerWrites <- IndexerStore_proofs <- IndexingPipeline_proofs, ApiServer_proofs
Nullable <- ContinuousIndexer <- MCContinuousIndexer, ContinuousIndexer_proofs
         <- MetadataPipeline <- MCMetadataPipeline, MetadataPipeline_proofs
TokenLifecycle <-- INSTANCE --'
         <- EventDecoding <- FactTables <- EventPipeline <- MCEventPipeline
SyncPlanner, TokenDiscovery <---------------'          <- EventPipeline_proofs
                                                       <- TokenDiscovery_proofs
```

**`Nullable`** declares `None`, the `null` of the stores and the planner.

**`SyncPlanner`** is `calculateSyncRange`: `PlanRejects` holds for the inputs that
throw, `Plan` returns the range, with an empty range as `[from, from - 1]`.

**`BlockTree`** is the environment at rest. The blocks the network may ever produce
form a tree, given as a constant. A block stands for its hash. `Records[b]` are the
identities `(tx_hash, log_index)` of the records in `b`; another branch may include
the same ones. `BranchLogs` is what `getLogs` answers on a given branch.

**`EvmChain`** makes it move: the best chain is the branch that ends at `head`.
`Grow` appends a block; `Reorganise` moves the head along a pair in `Reorgs`, so
that a configuration says which reorganisations may happen.

**`IndexerStore`** is the cache of one indexer on one chain.

| Variable | Table |
|---|---|
| `checkpoint` | `checkpoints.latest_indexed_block` |
| `metadata[b]` | the `block_metadata` row of hash `b`: absent, or its `is_canonical` |
| `facts[e]` | the `block_hash` in the `raw_*` row with key `e` |

Inserts leave an existing row alone (`ON CONFLICT DO NOTHING`); the checkpoint
upsert overwrites. The two transactions, `BatchTransaction` and
`RecoveryTransaction`, are atomic; section 6 says how their failure is modelled.

**`IndexerWrites`** is what a reader of the cache has to reckon with: every write an
indexer may do, whatever it read and when. `IndexBatch` stores the logs of any
branch, the one below or another, from right above the checkpoint up to any
height; `IndexRecovery` rewinds to any height at or below the checkpoint, -1
included, whether the walk met an ancestor, a missing row or its floor. The
invariants of the tables are stated here. `IndexingPipeline` writes nothing else
(`WritesAsAnIndexer`), and `ApiServer` reads what is written so.

**`IndexingPipeline`** runs `execute()` again and again. `pc` names the await it is
about to make; the other variables are its locals and those of the detector.

| Action | Code |
|---|---|
| `ReadCheckpoint` | `checkpointStore.getCheckpoint`, pipeline.ts:149 |
| `FindLatestStored`, `ProbeLatest` | `ReorgDetector.check`, reorg.ts:62-101 |
| `WalkStored`, `WalkRpc` | the loop of `findCommonAncestor`, reorg.ts:103-131 |
| `BlockNotFound` | `getBlockByNumber` throws: the node's chain is shorter than the store |
| `Recover` | the recovery transaction and the rewound local checkpoint, pipeline.ts:176-193 |
| `FetchHead` | head and plan, with the three early exits, pipeline.ts:195-225 |
| `FetchLogs` | logs, decoding, normalisation, pipeline.ts:227-253 |
| `Commit` | the batch transaction, pipeline.ts:255-333 |
| `Fail` | the pending call fails or the process dies; an open transaction rolls back |
| `LoseAcknowledgement` | the transaction commits, the caller never learns |
| `ChainGrows`, `ChainReorganises` | the environment |

A crash and a thrown error are one action because a call keeps nothing beyond
its locals: both forget them and leave the store as it was.

**`CanonicalIndex`** is the abstract specification: an index that appends whole
batches right above its height and rewinds, with no iterations, walks or
failures. The refinement maps `height` to the checkpoint, `canonical` and
`retired` to the rows with either flag, and keeps `facts`.

**`QuietPipeline`** states what the detector needs of the chain (`QuietChain`,
`NothingIsReincluded`) and the invariant that then holds of the pipeline,
`CacheIsOneBranch`. Its constant `Future` says where the head may still go.

**`ContinuousIndexer`** is the daemon with the `handleShutdown` of the process
around it. JavaScript runs one callback at a time, so an action is a callback
with every continuation it settles: a `stop()` that aborts a sleep resolves the
sleep, leaves the loop, resolves the stop promise and lets `handleShutdown` go
on, all in one step. `sleepLeft` and `stopLeft` are the two timers, in ticks.
The states `Error` and `Stopping` are set and overwritten inside one callback
and are never seen between two; they have no value here. While a batch runs the
loop is `executing` (on reads and RPC calls), `recovering` (in the recovery
transaction), `recovered` (on the calls after it) or `committing` (in the batch
transaction), so that a loop that is `executing` after it was anything else has
begun a batch, right behind another one too. Transactions have a connection of
the pool checked out; closing the pool waits for them and makes further ones fail.

**`MetadataPipeline`** is token enrichment: any number of callers of
`enqueueBatch` (`Discoverers`) and of `processQueue` (`Workers`) share the tables
`metadata_queue` (`queue[t]`) and `token_metadata` (`enriched[t]`). The chain is
one, so a token is its address, a number that gives the tie-breaking order. No
application of the repository calls `processQueue` yet, only tests and
benchmarks do; the callers are therefore an arbitrary set and hold a connection
without a transaction around the call.

| Action | Code |
|---|---|
| `Discover` | `enqueueBatch` is called with one item per token |
| `CheckRepository`, `CheckQueue` | the two lookups of each item, metadataPipeline.ts:54-59 |
| `Enqueue` | the insert, conflicts ignored, metadataQueue.ts:27-31 |
| `FillingFails` | a query fails or the caller dies; nothing was written |
| `TakeItems` | `nextPending`, metadataQueue.ts:41-51; the rows stay as they are |
| `Process` | the processor: a snapshot, or a failure of the node or the data |
| `Upsert`, `MarkCompleted` | the two writes of a completion, metadataPipeline.ts:149-154 |
| `MarkFailed` | one more attempt, then a delay or `Dead`, metadataQueue.ts:104-115 |
| `QueryFails` | one of the two writes throws, with or without its effect: the catch block counts it as a failed enrichment |
| `Abandon` | `markFailed` throws, or the process dies: the remaining items are dropped |
| `DelayPasses` | `run_at` passes |

**`TokenLifecycle`** is the abstract specification of the queue: the life of each
token, queued, failed, dead, enriched, completed, with no callers, queries or
delays. The refinement reads `status` and `attempts` off the rows of
`metadata_queue` and `known` off those of `token_metadata`. A token may be queued
again after its job was completed; section 4 names the race that does it.

**`EventDecoding`** takes a log to its records, in three steps: `Decode` finds the
event in the ABI profile of the emitting address, or in any other that fits;
`NormalizeArgs` keeps the arguments that are there and puts addresses in lower
case; `Handle` is the registry with one operator per handler. A log that lacks its
data decodes all the same, and a handler that calls a method of a missing
argument throws (`Dereferenced`, `NormalizerFails`).

**`FactTables`** has the five tables as one set of rows. `Key` is the primary key,
which is what `ON CONFLICT DO NOTHING` looks at; `Accepts` is what PostgreSQL
checks, columns, values and the foreign key from a fill to its trade, given that
`saveRecords` inserts table by table. The columns a database really has are the
constant `Columns`; `MigratedColumns` and `DeclaredColumns` are those of the
migrations and those of `schema.ts`.

**`TokenDiscovery`** is `discoverTokens` as an operator from a sequence of records
to the observations kept.

**`EventPipeline`** has several processes, each with an indexer name and a chain,
on one database. Where `IndexingPipeline` looks at one process and a chain that
reorganises, it looks at what the batches contain and at who else writes.

| Action | Code |
|---|---|
| `ReadCheckpoint` | the row of the name, if it is of the chain, checkpoint.ts:44-65 |
| `PlanRange` | head and plan, pipeline.ts:195-225 |
| `FetchLogs` | logs, decoding, normalisation; one log that throws ends the call |
| `Commit` | records and checkpoint in one transaction, or a refusal |
| `Fail`, `LoseAcknowledgement` | as in `IndexingPipeline`, for each process |

**`ReadQueries`** is what each route asks and of which rows it makes its answer.
`Rows` is a set of sets of rows: `executeTakeFirst` without an order may return any
row. `Promised` is what the documents say of the same request: every route shows what is
canonical, a list all the chain's records in the canonical blocks. It is stated
from the blocks and their records (`Recorded`), not from the fact tables and the
joins the queries make.

**`ApiServer`** is the process of `apps/api` over the tables of `IndexerStore`,
which an indexer moves underneath it by any of the writes of `IndexerWrites`.

| Action | Code |
|---|---|
| `Listen`, `HandleShutdown`, `CloseApp`, `DestroyDb` | start and shutdown, index.ts:42-78 |
| `Ask` | a request arrives and is validated, app.ts |
| `Connect`, `CloseIdle` | the pool lends, opens and closes connections, client.ts:17-22 |
| `TimeOut` | `connectionTimeoutMillis`, client.ts:21 |
| `ConnectFails`, `LoseDatabase` | the database refuses or breaks; a broken idle connection ends the process, for nobody listens to the pool's `error` |
| `Query`, `Respond` | one snapshot is read, the client has its answer |
| `WriteCache` | a batch or a recovery of the indexer process commits, pipeline.ts:159-286 |

Definitions under a comment `Mutant:` are deliberate mistakes. None is used by a
specification; substituting one for the definition it varies breaks the property
that guards against that mistake.

## 3. The runs that pass

| Run | Shows | Bounds |
|---|---|---|
| `pipeline_chaos` | types, the agreement of the tables, the refinement, that the writes are those of `IndexerWrites`, and the end of every call, whatever the chain does at any moment | trunk of height 3, fork of height 4 from genesis; every reorganisation between incomparable blocks, shorter chains and returns included, in the middle of a call too; 2 failures; batch 2; rollback depth 2; competing blocks include the same transactions |
| `pipeline_quiet` | the cache is one branch at all times and equals the best chain whenever the pipeline plans or writes; every block of it is indexed, orphans disappear | trunk of height 6, fork of height 7 after 4, fork on the fork of height 8 after 5; blocks without logs below the fork; start block 2; batch 3; rollback depth 5; 2 failures |
| `daemon_lifecycle` | the daemon's state, retries and shutdown, with a batch that may hang for ever | a poll of 2 ticks, backoff from 1 to 6 with 15 % jitter, stop timeout of 4, failures counted up to 5 |
| `metadata_workers` | the refinement to `TokenLifecycle`; every job is settled, no token is lost, attempts are bounded | 2 tokens, 2 workers taking up to 2 items, 1 discoverer, `Dead` after 2 failures, 1 failed query or crash |
| `events_facts` | every fact of every kind of log is stored once, blocks whole, checkpoints behind their facts, with two replicas and a second chain on one database | main chain of 2 blocks with 9 logs, side chain of 3; batch 2; 1 failure |
| `api_requests` | answers show what is canonical, and are given; the shutdown is orderly | trunk of heights 0 to 2, fork of 2 blocks after genesis, one block of each without logs; 4 facts; 7 requests over the 6 routes that take no block; every batch and every rewind; 2 clients, pool of 1; 1 loss of the database |

`pipeline_quiet` assumes what the detector needs and section 4 shows to be
needed: reorganisations happen between two calls, lie within the rollback depth,
only replace blocks that hold logs, do not return to an orphaned block and do not
re-include its transactions. `QuietPipeline` states these conditions, and
`MCQuietPipeline` assumes them, so that TLC evaluates them on the trees of the
run. Within them, its properties hold through failures, nested forks and
half-indexed forks. `pipeline_chaos` assumes nothing of the chain.

Why the bounds suffice. A batch of 2 or 3 against chains of 4 to 8 blocks gives
full, partial, empty and exactly fitting ranges, batches inside a fork and across
its base. A rollback depth of 2 against a fork of 3 or 4 blocks gives walks that
match, meet a missing row, and run into the depth. Two failures allow a failed
call followed by a lost acknowledgement, in either order and at any two steps.
The start block lies above genesis, so that the head is below it at first. In the
daemon a poll fits into the stop timeout and the longest backoff does not, as with
the defaults (5 s, 10 s, 30 s), and the fourth failure reaches the maximum
backoff. `MaxFailures` bounds the failures of a behaviour in the model only; the
theorems hold for any value of it. `CountedFailures` caps a counter of which the
code, past the maximum, uses only that it is positive. In the queue two failures
instead of five give one that is retried and one that is not; two workers are
what it takes to hold a job twice, two tokens to have an item left over when a
worker gives up, and the failed query can fall between the two writes of a
completion, before or after either of them. The processor may fail any number of
times on top of it.

The logs of `events_facts` have every event with a handler that gives a record,
one that gives none, one no profile knows and one emitted by an address without a
profile, two logs of one transaction, and logs without data of both kinds: one
the handler throws at, one the database refuses. Two replicas and one failure
are enough for a batch committed twice, in either order, and for a checkpoint
moved back to a height another process has passed. The two chains have names of
their own; with one name for both, `CheckpointIsNotForgotten` fails. No two
orders of the trade share a key prefix and no intent is matched twice in a
transaction; `EveryFactIsEventuallyStored` fails where they do. The columns are
those `schema.ts` declares.

With one connection and two clients of `api_requests` one waits while the other
queries; the requests are spelt as the cache spells them, one is malformed, and
none asks for a given block (section 4 says why of both). The indexer does not
follow a chain: at any moment it may write the logs of either fork on whatever
the cache holds and rewind to any height, so that the cache may hold `b2` on top
of `a1`, `a1` and `a2` orphaned and facts of both forks side by side. An answer may
then mix the forks at different heights, as the cache does; `pipeline_racing_reorg` and
`pipeline_sparse` show that the pipeline really leaves it so. What is promised,
and checked, is that the answer shows exactly what the cache counts as canonical.

### Properties

Of the pipeline: `CanonicalBehindCheckpoint`, `OneCanonicalBlockPerHeight`,
`FactsAreAnchored`, `ReadsShowTheCanonicalBlocks` relate the tables, which no
single write keeps in agreement. `LocalsFollowStore` says that what a call
remembers over its awaits is still true when it writes. `PlansOnTheBestChain`,
`RollbackTargetIsAncestor` and `CacheIsOneBranch` relate cache and chain, the
last one at every await. `CommittedBlocksAreCanonical`,
`CheckpointMovesWithRows` constrain steps. `ImplementsCanonicalIndex` is the
refinement, and `WritesAsAnIndexer` says that the cache changes only by the writes
of `IndexerWrites`, over every race of the chain with the awaits. `IterationEnds`, `OrphansAreEventuallyFiltered`,
`BestChainIsEventuallyIndexed` are liveness.

Of the daemon: `StateTellsHealth`, `ShutdownWaitsForTheBatch`,
`NoBatchAfterStop` (after a sleep, by a late `start()` or right behind the batch
that was running when `stop()` came), and as liveness `StopResolves`, `SignalEndsTheProcess`,
`RetriesForEver`, `LoopLeavesAfterStop`.

Of the events: `BlocksAreStoredWhole` and `NoGapBehindTheCheckpoint` relate the
rows to the logs and the checkpoint, over processes that overlap;
`CheckpointIsNotForgotten` relates a process to the writes of the others;
`DiscoveryIgnoresTheOrder` compares all orders of a batch, and
`EveryFactIsEventuallyStored` is the liveness that keys, columns, foreign key and
decoder must all allow.

Of the server: `AnswersAreTrue` compares each answer, at the step that makes it,
with the documents, and so the fact tables and the flags, which no write keeps in
step, with the chain's records; `PoolOutlivesItsRequests` is an invariant, `AcceptedRequestsAreAnswered` and `SignalEndsTheProcess` liveness.

Of the queue: `ImplementsTokenLifecycle` is the refinement; `NoTokenIsForgotten`
relates the two tables over every step;
`AttemptsAreBounded` says how far past the limit a `Dead` job can get, for it may
fail once more for each worker that still holds it; `EveryJobIsSettled` is
liveness.

## 4. The runs that find a disagreement

Each checks one sentence of the code's comments or documents and finds a
behaviour that contradicts it. The quotations are in `PROJECT.json`.

| Run | What happens |
|---|---|
| `pipeline_flip_back` | The chain returns to a fork whose rows were orphaned. `saveBlock` leaves existing rows alone and nothing sets `is_canonical` again: the blocks stay hidden for ever. |
| `pipeline_sparse` | The walk takes a height without logs for the end of stored history and stops above orphaned rows. |
| `pipeline_racing_reorg` | The chain reorganises after the probe and before the fetch: new blocks land on rows of the old fork, and the probe looks only at the highest row. |
| `pipeline_reincluded` | A transaction included again after a reorganisation keeps the fact row of its first block, and the canonical join hides it. |
| `events_migrated` | `saveRecords` inserts `price_0_to_1`, which no migration creates: a batch with a trade is refused in every retry, and nothing behind it is indexed. |
| `api_orphans` | A block is read by its number (BlockQueries.ts:64) or its hash (BlockQueries.ts:45) whether or not it is canonical: an orphaned block is answered with status 200, `isCanonical` false in its body, by number even in place of the canonical one. |

Other disagreements met on the way have no run of their own. In the recovery and
the services:

- when the walk reaches the rollback depth it rolls back to it without comparing
  anything below (reorg.ts:130-131): after a deeper reorganisation orphaned rows
  stay canonical;
- blocks without logs leave no row (pipeline.ts:264-273, against "every block in
  range", pipeline.ts:91): when a fork with logs replaces them, the detector sees
  nothing and the logs are never indexed;
- a `stop()` during a batch finds no sleep to abort, and the batch then begins one
  (daemon.ts:178, 230): the shutdown waits for a full interval, which
  continuous-indexer.md:93 says it does not;
- a worker that stores the metadata and deletes the job between the two lookups
  of `enqueueBatch` (metadataPipeline.ts:54, 58) makes a known token be queued and
  enriched again, against metadataPipeline.ts:41;

in the facts and the reads:

- the checkpoint is keyed by the name alone and read by name and chain
  (checkpoint.ts:44-100): two chains under one name forget each other's;
- the service watches `VAULT` and `SERA` only (index.ts:73), so the events of the
  order router, which have a profile and a handler, are never fetched;
- the price of a trade is an integer division (orderMatched.handler.ts), while
  technical_design.md:330 has it as NUMERIC(38,18); the timestamp of a row is
  the time of its insertion (repository.ts:79), so a rebuilt cache differs in it;
- an address in checksum spelling passes the validation (validation.ts:6) and is
  compared with lower-case columns (DepositQueries.ts:119): the account has no
  deposits, with status 200, against http-api.md:30. `AnswersAreTrue` fails so in
  `api_requests` with `WalletSpelling` for its requests;
- block 0 cannot be asked for by its number (validation.ts:30);
- the swap rule of the discovery reads fields that no swap record has
  (discoveryRules.ts:93-134, normalizer.ts:56-61), and no service runs the engine;

and smaller ones:

- the jitter multiplies the backoff after it was capped (daemon.ts:281), so a
  delay may exceed `maxBackoffMs`, which `Delays` models;
- the state `Stopping`, documented for a daemon that finishes its last batch, is
  set only after that batch (daemon.ts:253), and `Stopped`, documented as
  terminal (continuous-indexer.md:48), is overwritten when a batch outlives the
  stop timeout (daemon.ts:185, 229, 246);
- a walk that reaches height 0 without a stored row rolls back to -1
  (reorg.ts:111), a checkpoint the planner rejects in every later call
  (sync.ts:51);
- blocks are indexed up to the head although ARCHITECTURE.md:135 speaks of six
  confirmations (the constant is only logged, index.ts:92);
- `MetadataQueue.exists` is documented to look for jobs that are "Pending or
  Failed" (interfaces.ts:370) and finds `Dead` ones too (metadataQueue.ts:133).

## 5. Fairness

The temporal properties of the pipeline hold under `FairSpec`, weak fairness of
`Execute` as a whole: the loop of the daemon calls `execute()` again after every
return and every throw (daemon.ts:197-250), and each await is answered or rejected.
A pending await stays enabled whatever the chain does, so weak fairness is
enough. Nothing is assumed of the chain or of failures, which are finitely many
in a behaviour because `MaxFailures` bounds them.

The daemon's hold under `TimedSpec`: timers fire, a transaction that was opened
ends, because the database answers or the connection breaks, and a pool that can
close does. It assumes nothing of the RPC node: a batch may hang
for ever, and `StopResolves` and `SignalEndsTheProcess` hold all the same. That
the loop itself leaves needs the batch to end, so `LoopLeavesAfterStop` names
`WF_vars(BatchEnds)` as its hypothesis.

The queue's hold under `FairSpec`: weak fairness of each worker's own steps and of
every delay. It says that somebody keeps calling `processQueue` and that its
queries and RPC calls are answered, with a success or an error. It does not say
that enrichment ever succeeds. Nothing is assumed of the discoverers. A worker
that holds items has a step to take at any time, so weak fairness is enough.

The event pipeline's hold under weak fairness of each process's `Execute`, for the
reason the pipeline's do. A log without data stalls its indexer for ever, which
the property excuses by name and nothing else.

The server's hold under `FairSpec`: weak fairness of the start and shutdown steps
and of each request's own steps, for the event loop runs what is ready, and the
pool lends a connection or times out (client.ts:21). Clients, signals, failures
and the indexer may stay away. A request waiting for the pool has a step to take
at any time, so weak fairness is enough.

The runs of the daemon and the server switch the deadlock check off because their
processes end. The others keep it.

## 6. Abstractions

- A query reads one committed snapshot and a transaction is atomic; PostgreSQL is
  taken to keep that promise. A transaction that fails at any of its statements
  leaves nothing (`Fail`), and one that commits may still report a failure
  (`LoseAcknowledgement`).
- The headers of a batch are derived from the fetched logs (pipeline.ts:350-371),
  as in the model; the parent hash, stored as an empty string and never read
  by the detector, is left out.
- In `IndexingPipeline` the decoder and the normalizer are the map from a block to
  its records; `EventPipeline` models them.
- Hashes, addresses and order-hash prefixes are values with a spelling, lower or
  mixed case; `viem`'s decoding is whether the event's topics are there.
- `EventPipeline` has chains that only grow and no `block_metadata`, whose rows
  nothing there would change.
- In the server a query takes the snapshot at one moment and holds its connection
  until then. Which waiter gets a free connection is left open (the pool serves
  them in turn). Requests that arrive on kept-alive connections while the server
  closes, and are refused by Fastify with 503, are left out, and so is the order
  of the lists.
- `raw_order_fills` carries no block hash and takes no part in the canonical join;
  it is a table of `FactTables`, not of `IndexerStore`.
- The `currentIndexedBlock` argument and pipelines without stores exist for tests
  only: the service passes neither.
- Heights are integers without overflow: they are far below 2^53.
- Of `run_at` the model keeps whether it has passed, of a metadata row the block
  it was observed in. An unsupported token gets a row like a complete one, so
  both are one outcome of `Process`.
- Every query of the metadata pipeline commits on its own. `enqueueBatch` inside
  a caller's transaction becomes visible at the commit, which `Enqueue` then
  stands for, and a rollback is `FillingFails`.
- A tick stands for about a second, scaled down; jitter is every delay in the
  rounded interval.

## 7. What is proved

`tlapm` checks the eight proof modules. The assumptions are those on the constants:
`NoneAssumption`, `ChainTypes`, `BranchIsAChain`, `RecordsComeFromLogs`,
`TheHeadStaysInTheTree`, `StartBlockAssumption`, `PipelineConfig`, `DaemonConfig`, `MetadataConfig`, `NoneIsNoRow`,
`ConfigAssumption`, `LogAssumption`, `DiscoveryAssumption`, `KindAssumption`,
`ServerAssumption`. They hold of every tree of blocks and every configuration the
code accepts. In `IndexingPipeline_proofs` nothing restricts `Reorgs`, the
failures or the moment a reorganisation happens. Where a theorem needs more, the
hypothesis is part of its statement.

| Theorem | Statement |
|---|---|
| `TypeCorrect` | `Spec => []TypeOK` |
| `NothingCanonicalAboveTheCheckpoint` | `Spec => []CanonicalBehindCheckpoint` |
| `NoCompetingCanonicalBlocks` | `Spec => []OneCanonicalBlockPerHeight` |
| `EveryFactHasItsBlock` | `Spec => []FactsAreAnchored` |
| `CallsNeverActOnAStaleStore` | `Spec => []LocalsFollowStore` |
| `CheckpointAndRowsMoveTogether` | `Spec => CheckpointMovesWithRows` |
| `PipelineImplementsIndex` | `Spec => ImplementsCanonicalIndex` |
| `PipelineWritesAsAnIndexer` | `Spec => WritesAsAnIndexer` |
| `TheCacheIsOneBranch` | `QuietChain` implies `Spec => []CacheIsOneBranch` |
| `PlansOnTheChain` | `QuietChain` implies `Spec => []PlansOnTheBestChain` |
| `WalksToAnAncestor` | `QuietChain` implies `Spec => []RollbackTargetIsAncestor` |
| `CommittedIsCanonical` | `QuietChain` implies `Spec => CommittedBlocksAreCanonical` |
| `ReadsAreCanonical` | `NothingIsReincluded` implies `Spec => []ReadsShowTheCanonicalBlocks` |
| `DaemonTypeCorrect` | `Spec => []TypeOK` |
| `ShutdownWaits` | `Spec => ShutdownWaitsForTheBatch` |
| `NoBatchOnceStopped` | `Spec => NoBatchAfterStop` |
| `HealthIsTold` | `Spec => []StateTellsHealth` |
| `MetadataTypeCorrect` | `Spec => []TypeOK` |
| `TokensLiveTheirLife` | `Spec => ImplementsTokenLifecycle` |
| `QueuedTokensAreKept` | `Spec => NoTokenIsForgotten` |
| `AttemptsStayBounded` | `Spec => []AttemptsAreBounded` |
| `EventTypeCorrect` | `Spec => []TypeOK` |
| `StoredWhole` | `Spec => []BlocksAreStoredWhole` |
| `NoGap` | `Spec => []NoGapBehindTheCheckpoint` |
| `CheckpointsAreKept` | `OneChainPerName` implies `Spec => CheckpointIsNotForgotten` |
| `OrderDoesNotMatter` | `Spec => []DiscoveryIgnoresTheOrder` |
| `ApiTypeCorrect` | `Spec => []TypeOK` |
| `PoolIsDestroyedLast` | `Spec => []PoolOutlivesItsRequests` |
| `AnswersAreTrueAsStored` | `NothingIsReincluded` and `AsksAsStored` imply `Spec => AnswersAreTrue` |

The argument for the pipeline. The agreement of the tables is not inductive: a
commit writes rows into heights chosen many awaits earlier, and one that found
the checkpoint moved could put a second canonical block at an old height. The
inductive invariant is `IInv == TypeOK /\ TablesAgree /\ LocalsFollowStore`. The
last conjunct carries the position of the call: the local checkpoint is the
stored one, the walk and its target stay at or below it, the range begins right
above it and the fetched blocks lie in it, one per height because a branch is a
chain. Only the two transactions disturb the tables (`StoreSteps`).
`BatchKeepsTablesAgreed` and `RecoveryKeepsTablesAgreed` treat each from what
`LocalsFollowStore` says of its arguments. The refinement and the action
property follow from the same two cases: a batch is an `Append` or a stutter, a
recovery a `Rewind`, every other step a stutter. That a batch is one `IndexerWrites`
allows needs `WritesArePlanned` besides: the range was planned from the stored
checkpoint up to the height of a block of the tree (`HeadIsPlanned`), and the
fetched logs are those of one branch, whichever the node was on. The rest is
`WriteStep`.

On a quiet chain. That a batch is planned on the best chain is not inductive: it
depends on what a walk found out before, and a walk on rows written by earlier
calls, before the chain moved. `CacheIsOneBranch` carries all of it. There is a
block `t`, the head at the last fetch, such that the canonical rows are the
branch of `t` cut at the checkpoint (`Holds`); a block of that branch is on the
best chain or `Abandoned`, for good. Above `scan` the walk has seen no row of the
best chain (`WalkKnows`); the target is where the two branches part
(`TargetParts`); once the check is done they meet at the local checkpoint
(`Meets`). With `IInv` it is inductive:

- where the branches share a block they are the same below it (`SameBelow`), so
  the rows up to a meeting point are those of the best chain (`AgreeBelow`);
- a height without a row is a meeting point, because a block that is left has a
  log (`NoRowMeets`): so the walk may stop there;
- the walk never reaches its floor above an abandoned row, because such a row
  would have `MaxRollbackDepth` others on top of it (`WalkRpcKnows`);
- the head may grow under a call, which moves no meeting point; a reorganisation
  between two calls turns what it leaves into abandoned blocks (`ChainMovesOn`);
- a batch on a meeting point makes the head the new `t` (`BatchHolds`), a
  recovery to one keeps `t` (`RecoveryHolds`).

Each conjunct of `QuietChain` is needed: `pipeline_flip_back`, `pipeline_sparse` and
`pipeline_racing_reorg` are what happens without those on the return to a fork,
on blocks without logs and on the moment of a reorganisation; a walk
of `MaxRollbackDepth` blocks ends on a block it did not compare, and a recovery
below the start block would make the pipeline index blocks from before it
(reorg.ts:111). `ReadsAreCanonical` needs no quiet chain, only
that a record's transaction is in one block of the tree (`pipeline_reincluded`):
a row of a canonical block was saved with its records, and no other block can
have taken their keys.

The daemon's proofs: `HealthInv` adds that a daemon that was never started has no
failures; the two action properties follow from the actions. Its `TypeOK` needs
every delay to be a number. A power of two is the number of subsets of a finite
set (`PowerOfTwo`), which takes the place of an induction; capping, jitter and
rounding keep it in range (`DelayType`).

For the queue, `NoTokenIsForgotten` needs `CompletesTheEnriched`: a worker about
to delete a job finds the metadata stored, which stays true because rows of
`token_metadata` are replaced and never deleted (`EnrichedStays`).
`AttemptsAreBounded` is not inductive, since nothing in it stops a `Dead` job from
failing again. `DeadJobsRunOut` counts the workers that still hold the job: a
failure adds an attempt and takes a holder away, and no worker takes a `Dead` job
again. `OneItemPerToken` makes sure that a holder can fail it only once
(`DeadJobStep`). Workers are any finite set.

The refinement to `TokenLifecycle` takes one step at a time: a failure, a deletion
and an upsert each show as one abstract action or as nothing (`FailureShows`,
`CompletionShows`, `EnrichmentShows`), an insert as `Queue`, a delay not at all. Two
invariants make it hold: `CompletesTheEnriched`, so that only known tokens lose
their job, and `ItemsAreOfQueued`, so that a worker that finishes long after
others enriches no token that was never queued.

For the events, `LogAssumption` says that records with one key lie in one block, as
a transaction does. So a block's facts are the same whatever batch they come in
(`FactsOfBatch`), and a batch completes every block it touches and harms none
(`BatchIsStored`). `NoGapBehindTheCheckpoint` is not inductive: a process commits a
range it planned from a checkpoint read long ago. The inductive invariant says
that every checkpoint row, and every checkpoint a call remembers, is covered by
the tables; what is covered stays so because rows are never removed, which is why
a row that moves back does no harm. `OneChainPerName` is what the key of the
checkpoints table needs.

For the discovery, `DiscoveryAssumption` says that the logs are finitely many, that
a log's index is its own within a block and that `localeCompare` tells two hashes
apart. Then a deposit or a withdrawal is the one record of its log and its place
tells which it is (`TransferAtPlace`), so that no two candidates of a token are equal
to the comparator (`FirstIsUnique`). A first one exists: of the least block, in it
of the least hash, in it of the least index (`FirstExists`, by the least number
principle). An order of a finite set lists each element once
(`OrdersListTheSet`), so whatever the order, `Canonical` finds the candidate that is
first (`CanonicalIsKept`), one for each token (`OneForEachToken`).

For the server, what its cache is like is proved of `IndexerWrites`, and so of any
indexer that writes as it says: `IndexerKeepsTheTables` keeps `TablesAgree`, and
`IndexerKeepsTheFacts` keeps `StoredBlocksHaveFacts`, that a stored block, orphaned or
not, has all its records in the fact tables under its own hash. The latter needs
`NothingIsReincluded`; without it a read misses records (`pipeline_reincluded`).
Then the join shows the records of the canonical blocks (`ReadsFollow`), and
`AnswersAreTrueAsStored` goes route by route. Its hypothesis `AsksAsStored` excludes just the
requests section 4 speaks of: other spellings, and the routes of a given block, by
number and by hash (`api_orphans`). A connection is busy for one client, so the pool's
count follows from the cardinality of the busy clients.

Only model-checked: all liveness, because the prover does not reason about fairness
with `ENABLED`: `IterationEnds`, `OrphansAreEventuallyFiltered`,
`BestChainIsEventuallyIndexed`, `StopResolves`, `SignalEndsTheProcess`,
`RetriesForEver`, `LoopLeavesAfterStop`, `EveryJobIsSettled`,
`EveryFactIsEventuallyStored` and `AcceptedRequestsAreAnswered`. Every other
property of a passing run is stated by a theorem.

## 8. Not modelled

- Several indexers of one chain under reorganisations: a recovery orphans the rows
  of all and rewinds one checkpoint (reorg.ts:173, blockMetadata.ts:174).
  `EventPipeline` and `IndexingPipeline` together exceed what TLC can explore.
- The sync orchestrator: a stateless wrapper of the planner and the reader that no
  service runs.
- The health checks: thresholds over counters and lags that nothing in the system
  acts on. The metadata health reads its counters without the tags they are
  written with (metadata/health.ts:24-28).
- The order of lists, the withdrawal queries and `getTrade`: no route asks the
  latter, and they join `block_metadata` as the others do.
- `upsertMany` of the metadata repository and the tables no code writes.
- Contract functions and addresses, indexes, logging, metrics and tracing,
  environment parsing and benchmarks: data, or no decision of the program depends
  on them.

## 9. Running

```
tlc -config pipeline_chaos.cfg MCIndexingPipeline.tla
tlc -config pipeline_quiet.cfg MCQuietPipeline.tla
tlc -config daemon_lifecycle.cfg MCContinuousIndexer.tla
tlc -config metadata_workers.cfg MCMetadataPipeline.tla
tlc -config events_facts.cfg MCEventPipeline.tla
tlc -config api_requests.cfg MCApiServer.tla
tlapm IndexingPipeline_proofs.tla
tlapm QuietPipeline_proofs.tla
tlapm ContinuousIndexer_proofs.tla
tlapm MetadataPipeline_proofs.tla
tlapm EventPipeline_proofs.tla
tlapm TokenDiscovery_proofs.tla
tlapm ApiServer_proofs.tla
```
