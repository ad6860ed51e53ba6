---------------------------- MODULE EventPipeline ----------------------------
(***************************************************************************)
(* Several indexer processes on one database: what IndexingPipeline does   *)
(* to the fact tables and to the checkpoints table when its logs are       *)
(* decoded and normalised, and when it is not the only writer.  A process  *)
(* is configured with an indexer name and a chain; two may share both (a   *)
(* rolling deployment), a name, or a chain.  The chains only grow here:    *)
(* reorganisations are the subject of IndexingPipeline.                    *)
(***************************************************************************)
EXTENDS FactTables, SyncPlanner, TokenDiscovery, SequencesExt

CONSTANTS
    Processes,     \* the indexer processes
    Name,          \* Name[p]: IndexingPipelineConfig.indexerName
    Chain,         \* Chain[p]: IndexingPipelineConfig.chainId
    StartBlock,    \* IndexingPipelineConfig.startBlock, of every process
    BatchSize,     \* IndexingPipelineConfig.batchSize
    Watched,       \* IndexingPipelineConfig.contractAddresses
    Logs,          \* every log the chains will ever hold
    Top,           \* Top[c]: the height at which chain c stops growing
    MaxFailures    \* bound on the failures and crashes of a behaviour

ChainIds == {Chain[p] : p \in Processes}
Names    == {Name[p] : p \in Processes}

ASSUME ConfigAssumption ==
    /\ StartBlock \in Nat
    /\ BatchSize \in Nat \ {0}
    /\ MaxFailures \in Nat
    /\ Top \in [ChainIds -> Nat]

(* The place of a log is where its chain put it; a transaction lies in one *)
(* block, and only there do its records meet those with the same key.      *)
ASSUME LogAssumption ==
    /\ \A l \in Logs : l.block \in Nat /\ l.index \in Nat
    /\ \A l, m \in Logs :
          \A r \in RecordsOf(l), s \in RecordsOf(m) :
             Key(r) = Key(s) => l.chain = m.chain /\ l.block = m.block

(* There are finitely many logs, the index of a log is its own in its block, *)
(* and localeCompare tells any two hashes apart.                             *)
ASSUME DiscoveryAssumption ==
    /\ IsFiniteSet(Logs)
    /\ \A l \in Logs : TxOrder[Lower(l.tx)] \in Nat
    /\ \A l, m \in Logs :
          /\ l.chain = m.chain /\ l.block = m.block /\ l.index = m.index => l = m
          /\ TxOrder[Lower(l.tx)] = TxOrder[Lower(m.tx)] => Lower(l.tx) = Lower(m.tx)

VARIABLES
    heads,         \* heads[c]: the height of chain c
    checkpoints,   \* checkpoints[n]: the row of indexer_name n, or NoRow
    pc,            \* pc[p]: the await execute() is about to make
    current,       \* current[p]: currentIndexedBlock
    range,         \* range[p]: the planned range
    batch,         \* batch[p]: allNormalizedRecords
    failures       \* failures so far

locals == <<pc, current, range, batch>>
vars == <<heads, checkpoints, tables, locals, failures>>

(* What the decoder and the normaliser make of each log, and the logs the *)
(* normaliser throws at.                                                  *)
Normalized == [l \in Logs |-> RecordsOf(l)]
Poison     == {l \in Logs : NormalizerFails(l)}
AllRecords == UNION {Normalized[l] : l \in Logs}
NoRow   == [chain |-> None, block |-> None]
NoRange == [from |-> 0, to |-> -1]
Steps   == {"idle", "head", "logs", "commit"}

TypeOK ==
    /\ heads \in [ChainIds -> Nat]
    /\ checkpoints \in [Names -> {NoRow} \cup [chain : ChainIds, block : Nat]]
    /\ tables \subseteq AllRecords
    /\ pc \in [Processes -> Steps]
    /\ current \in [Processes -> Nat \cup {None}]
    /\ range \in [Processes -> [from : Nat, to : Nat \cup {-1}]]
    /\ batch \in [Processes -> SUBSET AllRecords]
    /\ failures \in 0 .. MaxFailures

Init ==
    /\ heads = [c \in ChainIds |-> 0]
    /\ checkpoints = [n \in Names |-> NoRow]
    /\ tables = {}
    /\ pc = [p \in Processes |-> "idle"]
    /\ current = [p \in Processes |-> None]
    /\ range = [p \in Processes |-> NoRange]
    /\ batch = [p \in Processes |-> {}]
    /\ failures = 0

-----------------------------------------------------------------------------
(* The checkpoints table. *)

(* getCheckpoint: the row of the name, if it is of the chain. *)
GetCheckpoint(p) ==
    IF checkpoints[Name[p]].chain = Chain[p] THEN checkpoints[Name[p]].block ELSE None

\* Mutant: the update has no condition, so the rows of all names take the values.
SaveCheckpoint_EveryRow(p, height) ==
    checkpoints' = [n \in Names |-> [chain |-> Chain[p], block |-> height]]

\* Mutant: the chain is missing from the inserted values.
SaveCheckpoint_NoChain(p, height) ==
    checkpoints' = [checkpoints EXCEPT ![Name[p]] = [chain |-> None, block |-> height]]

(* saveCheckpoint: the upsert conflicts on the name and sets the chain. *)
SaveCheckpoint(p, height) ==
    checkpoints' = [checkpoints EXCEPT ![Name[p]] = [chain |-> Chain[p], block |-> height]]

-----------------------------------------------------------------------------
(* One iteration of process p. *)

EndIteration(p) ==
    /\ pc' = [pc EXCEPT ![p] = "idle"]
    /\ current' = [current EXCEPT ![p] = None]
    /\ range' = [range EXCEPT ![p] = NoRange]
    /\ batch' = [batch EXCEPT ![p] = {}]

ReadCheckpoint(p) ==
    /\ pc[p] = "idle"
    /\ current' = [current EXCEPT ![p] = GetCheckpoint(p)]
    /\ pc' = [pc EXCEPT ![p] = "head"]
    /\ UNCHANGED <<heads, checkpoints, tables, range, batch, failures>>

(* The head of the chain is read and the range planned. *)
PlanRange(p) ==
    /\ pc[p] = "head"
    /\ LET plan == Plan(StartBlock, heads[Chain[p]], current[p], BatchSize) IN
       \/ /\ plan.to < plan.from
          /\ EndIteration(p)
       \/ /\ plan.to >= plan.from
          /\ range' = [range EXCEPT ![p] = [from |-> plan.from, to |-> plan.to]]
          /\ pc' = [pc EXCEPT ![p] = "logs"]
          /\ UNCHANGED <<current, batch>>
    /\ UNCHANGED <<heads, checkpoints, tables, failures>>

LogsBetween(c, m, n) ==
    {l \in Logs : l.chain = c /\ l.address \in Watched /\ l.block \in m .. n}

(* The logs of the range are fetched, decoded and normalised; one log the *)
(* normaliser throws at fails the iteration.                              *)
FetchLogs(p) ==
    /\ pc[p] = "logs"
    /\ LET logs == LogsBetween(Chain[p], range[p].from, range[p].to) IN
       \/ /\ logs \cap Poison # {}
          /\ EndIteration(p)
       \/ /\ logs \cap Poison = {}
          /\ batch' = [batch EXCEPT ![p] = UNION {Normalized[l] : l \in logs}]
          /\ pc' = [pc EXCEPT ![p] = "commit"]
          /\ UNCHANGED <<current, range>>
    /\ UNCHANGED <<heads, checkpoints, tables, failures>>

(* The transaction of the batch: all its rows and the checkpoint. *)
BatchTransaction(p) ==
    /\ Accepts(batch[p])
    /\ SaveRecords(batch[p])
    /\ SaveCheckpoint(p, range[p].to)

\* Mutant: the checkpoint moves in a transaction of its own.
Commit_Split(p) ==
    /\ pc[p] = "commit"
    /\ SaveCheckpoint(p, range[p].to)
    /\ \/ Accepts(batch[p]) /\ SaveRecords(batch[p])
       \/ UNCHANGED tables
    /\ EndIteration(p)
    /\ UNCHANGED <<heads, failures>>

Commit(p) ==
    /\ pc[p] = "commit"
    /\ \/ BatchTransaction(p)
       \/ ~Accepts(batch[p]) /\ UNCHANGED <<tables, checkpoints>>
    /\ EndIteration(p)
    /\ UNCHANGED <<heads, failures>>

(* The node or the database fails, or the process dies and is restarted. *)
Fail(p) ==
    /\ pc[p] # "idle"
    /\ failures < MaxFailures
    /\ failures' = failures + 1
    /\ EndIteration(p)
    /\ UNCHANGED <<heads, checkpoints, tables>>

(* The transaction commits, but the process dies before it hears of it. *)
LoseAcknowledgement(p) ==
    /\ pc[p] = "commit"
    /\ failures < MaxFailures
    /\ failures' = failures + 1
    /\ BatchTransaction(p)
    /\ EndIteration(p)
    /\ UNCHANGED heads

ChainGrows(c) ==
    /\ heads[c] < Top[c]
    /\ heads' = [heads EXCEPT ![c] = @ + 1]
    /\ UNCHANGED <<checkpoints, tables, locals, failures>>

Execute(p) == ReadCheckpoint(p) \/ PlanRange(p) \/ FetchLogs(p) \/ Commit(p)

Next ==
    \/ \E p \in Processes : Execute(p) \/ Fail(p) \/ LoseAcknowledgement(p)
    \/ \E c \in ChainIds : ChainGrows(c)

Spec == Init /\ [][Next]_vars

(* Every daemon calls execute() again after each return and each throw. *)
FairSpec == Spec /\ \A p \in Processes : WF_vars(Execute(p))

-----------------------------------------------------------------------------
(* Safety. *)

LogsAt(c, n)  == LogsBetween(c, n, n)
RowsOf(c, n)  == {r \in tables : r.at.chain = c /\ r.at.block = n}
FactsOf == [c \in ChainIds |-> [n \in 0 .. Top[c] |->
               FirstOfKey(UNION {Normalized[l] : l \in LogsAt(c, n)})]]

(* A block is in the tables with all its facts or with none, and they are  *)
(* the facts its logs determine, whatever the batches, the retries and the *)
(* other processes that wrote it ("Wiping the database and running the     *)
(* indexer always recreates the identical state", README.md:31).           *)
BlocksAreStoredWhole ==
    \A c \in ChainIds : \A n \in 0 .. Top[c] : RowsOf(c, n) \in {{}, FactsOf[c][n]}

(* A process that reads a checkpoint may rely on it: every fact of its     *)
(* chain from StartBlock up to the checkpoint is in the tables, although   *)
(* another process may have moved the row up, or back, since it was read   *)
(* (pipeline.ts:149, checkpoint.ts:70).                                    *)
NoGapBehindTheCheckpoint ==
    \A p \in Processes :
        GetCheckpoint(p) # None =>
            \A n \in StartBlock .. GetCheckpoint(p) : FactsOf[Chain[p]][n] \subseteq tables

(* getCheckpoint "returns null if no checkpoint has been saved yet"        *)
(* (checkpoint.ts:9): once a process has one, it never reads null again.   *)
CheckpointIsNotForgotten ==
    [][\A p \in Processes : GetCheckpoint(p) # None => GetCheckpoint(p)' # None]_vars

(* The tokens discovered in a batch, and the observation kept of each, do  *)
(* not depend on the order of the records (discoveryEngine.ts:52-78): each *)
(* token a deposit or a withdrawal names is found exactly once, in the     *)
(* first block that names it, and any order of the records keeps the same  *)
(* observation.                                                            *)
DiscoveryIgnoresTheOrder ==
    \A p \in Processes : pc[p] = "commit" =>
        LET named == {r \in batch[p] : r.recordType \in {"deposit", "withdrawal"}}
            first == {r \in named : \A s \in named : s.token = r.token => r.at.block <= s.at.block}
            Found(records) == DiscoverTokens(records, Chain[p])
            kept  == Found(SetToSeq(named))
        IN  /\ {<<d.token, d.block>> : d \in kept} = {<<r.token, r.at.block>> : r \in first}
            /\ Cardinality(kept) = Cardinality({r.token : r \in named})
            /\ \A records \in SetToSeqs(named) : Found(records) = kept

(* Liveness, under FairSpec. *)

(* Every fact of a watched log is eventually a row of its own: no key      *)
(* takes two facts for one, no other process starves this one, and an      *)
(* event that has a handler leaves a row whatever the profile of its       *)
(* address.  A log without data is the one excuse: its batch, and all that *)
(* lies behind it, never commits (decoder.ts:237, daemon.ts:233).          *)
EveryFactIsEventuallyStored ==
    \A c \in ChainIds : \A n \in StartBlock .. Top[c] :
        (heads[c] >= n)
            ~> \/ \E l \in LogsBetween(c, StartBlock, n + BatchSize - 1) : ~l.data
               \/ \A l \in LogsAt(c, n) :
                      /\ l.topic0 \in DOMAIN Dereferenced => Normalized[l] # {}
                      /\ Normalized[l] \subseteq tables
=============================================================================
