-------------------------- MODULE ContinuousIndexer --------------------------
(***************************************************************************)
(* The daemon that calls IndexingPipeline.execute() for ever               *)
(* (apps/indexer/src/daemon.ts), inside the service process that owns it   *)
(* (apps/indexer/src/index.ts).  JavaScript runs one callback at a time:   *)
(* an action is a callback with all the continuations it settles, up to    *)
(* the next pending timer, batch or signal.  Time is counted in ticks; a   *)
(* timer that is due fires before the next tick.                           *)
(***************************************************************************)
EXTENDS Nullable

CONSTANTS
    PollingInterval,   \* config.pollingIntervalMs
    InitialBackoff,    \* config.initialBackoffMs
    MaxBackoff,        \* config.maxBackoffMs
    JitterPercent,     \* config.jitterFactor, in percent
    ShutdownTimeout,   \* config.shutdownTimeoutMs
    CountedFailures    \* bound: consecutive failures are counted up to here

ASSUME DaemonConfig ==
    /\ {PollingInterval, InitialBackoff, MaxBackoff, ShutdownTimeout} \subseteq Nat \ {0}
    /\ JitterPercent \in 0 .. 100
    /\ CountedFailures \in Nat \ {0}

VARIABLES
    state,               \* _state
    consecutiveFailures, \* _consecutiveFailures
    shutdownRequested,   \* _shutdownRequested
    loop,                \* where _runLoop is
    sleepLeft,           \* ticks left of the pending _sleep, None without one
    stopLeft,            \* ticks left of stop()'s timeout, None without one
    stopped,             \* _stoppedPromise has resolved
    handlers,            \* the daemon's signal handlers are registered
    process              \* handleShutdown of the service process

vars == <<state, consecutiveFailures, shutdownRequested, loop, sleepLeft, stopLeft,
          stopped, handlers, process>>

(* "Error" and "Stopping" are set and overwritten within one callback.     *)
(* While a batch runs, the loop is "executing" (on reads and RPC calls, up *)
(* to the first transaction), "recovering" (in the recovery transaction),  *)
(* "recovered" (on the calls after it) or "committing" (in the batch       *)
(* transaction).  A transaction has a connection of the pool checked out.  *)
DaemonState == {"Starting", "Syncing", "Idle", "BackingOff", "Recovering", "Stopped"}
Running     == {"executing", "recovering", "recovered", "committing"}
Transacting == {"recovering", "committing"}
LoopStates  == {"unstarted", "sleeping", "exited"} \cup Running
ProcessStates == {"serving", "stopping", "closing", "exited"}

TypeOK ==
    /\ state \in DaemonState
    /\ consecutiveFailures \in 0 .. CountedFailures
    /\ shutdownRequested \in BOOLEAN
    /\ loop \in LoopStates
    /\ sleepLeft \in Nat \cup {None}
    /\ sleepLeft # None <=> loop = "sleeping"
    /\ stopLeft \in 0 .. ShutdownTimeout \cup {None}
    /\ stopped \in BOOLEAN
    /\ handlers \in BOOLEAN
    /\ process \in ProcessStates

Init ==
    /\ state = "Starting" /\ consecutiveFailures = 0
    /\ shutdownRequested = FALSE
    /\ loop = "unstarted" /\ sleepLeft = None
    /\ stopLeft = None /\ stopped = FALSE
    /\ handlers = FALSE
    /\ process = "serving"

-----------------------------------------------------------------------------
(* _computeBackoff: the delays it may return for the nth failure in a row. *)
Lower(a, b)  == IF a < b THEN a ELSE b
Rounded(hundredths) == (hundredths + 50) \div 100
BaseDelay(n) == Lower(InitialBackoff * 2 ^ Lower(n - 1, 30), MaxBackoff)
Delays(n)    == Rounded(BaseDelay(n) * (100 - JitterPercent)) ..
                    Rounded(BaseDelay(n) * (100 + JitterPercent))

-----------------------------------------------------------------------------
\* Mutant: the service does not await daemon.stop().
HandleShutdown_NoWait(signalled) ==
    process' = IF signalled /\ process = "serving" THEN "closing" ELSE process

\* Mutant: a daemon that has stopped before the signal is not noticed.
HandleShutdown_MissesResolved(signalled) ==
    LET now == IF signalled /\ process = "serving" THEN "stopping" ELSE process
    IN  process' = IF now = "stopping" /\ stopped' /\ ~stopped THEN "closing" ELSE now

(* handleShutdown of the service process: on the first signal it waits for *)
(* daemon.stop(), and once that has resolved it closes the database.       *)
HandleShutdown(signalled) ==
    LET now == IF signalled /\ process = "serving" THEN "stopping" ELSE process
    IN  process' = IF now = "stopping" /\ stopped' THEN "closing" ELSE now

(* The loop ends: Stopping, the handlers off, Stopped; stop() clears its *)
(* timeout.                                                              *)
LeaveLoop ==
    /\ loop' = "exited" /\ sleepLeft' = None
    /\ state' = "Stopped"
    /\ handlers' = FALSE
    /\ stopped' = TRUE /\ stopLeft' = None

\* Mutant: the abort controller of the sleep is kept.
BeginBatch_StaleAbort ==
    /\ loop' = "executing"
    /\ state' = IF consecutiveFailures' > 0 THEN "Recovering" ELSE "Syncing"
    /\ UNCHANGED <<sleepLeft, stopLeft, stopped, handlers>>

(* An iteration of the loop starts. *)
BeginBatch ==
    /\ loop' = "executing" /\ sleepLeft' = None
    /\ state' = IF consecutiveFailures' > 0 THEN "Recovering" ELSE "Syncing"
    /\ UNCHANGED <<stopLeft, stopped, handlers>>

\* Mutant: the loop does not look at _shutdownRequested.
LoopTop_Endless == BeginBatch

\* Mutant: the loop gives up after two failures in a row.
LoopTop_GivesUp ==
    \/ (shutdownRequested' \/ consecutiveFailures' > 1) /\ LeaveLoop
    \/ ~(shutdownRequested' \/ consecutiveFailures' > 1) /\ BeginBatch

(* while (!this._shutdownRequested) *)
LoopTop ==
    \/ shutdownRequested' /\ LeaveLoop
    \/ ~shutdownRequested' /\ BeginBatch

(* _sleep: the loop waits for a timer that stop() may abort. *)
BeginSleep(delay) ==
    /\ loop' = "sleeping" /\ sleepLeft' = delay
    /\ UNCHANGED <<stopLeft, stopped, handlers>>

-----------------------------------------------------------------------------
Alive == process # "exited"

(* start(), which a daemon that is not Starting ignores.  The loop's first *)
(* callback runs inside it.                                                *)
Start ==
    /\ Alive /\ state = "Starting"
    /\ UNCHANGED <<consecutiveFailures, shutdownRequested>>
    /\ \/ shutdownRequested /\ LeaveLoop
       \/ /\ ~shutdownRequested
          /\ handlers' = TRUE
          /\ loop' = "executing" /\ state' = "Syncing"
          /\ UNCHANGED <<sleepLeft, stopLeft, stopped>>
    /\ HandleShutdown(FALSE)

(* The recovery or the batch transaction of execute() begins; a destroyed *)
(* connection pool begins none.                                           *)
OpenTransaction ==
    /\ process \in {"serving", "stopping"}
    /\ \/ loop = "executing" /\ loop' \in Transacting
       \/ loop = "recovered" /\ loop' = "committing"
    /\ UNCHANGED <<state, consecutiveFailures, shutdownRequested, sleepLeft, stopLeft,
                   stopped, handlers, process>>

(* The recovery transaction ends, and execute() goes on. *)
CloseTransaction ==
    /\ Alive /\ loop = "recovering"
    /\ loop' = "recovered"
    /\ UNCHANGED <<state, consecutiveFailures, shutdownRequested, sleepLeft, stopLeft,
                   stopped, handlers, process>>

\* Mutant: _consecutiveFailures is not reset.
BatchSucceeds_KeepsCount ==
    /\ Alive /\ loop \in Running \ {"recovering"}
    /\ UNCHANGED <<consecutiveFailures, shutdownRequested>>
    /\ \/ state' = "Idle" /\ BeginSleep(PollingInterval)
       \/ loop = "committing" /\ LoopTop
    /\ HandleShutdown(FALSE)

\* Mutant: behind, the loop goes on without looking at _shutdownRequested.
BatchSucceeds_Tight ==
    /\ Alive /\ loop \in Running \ {"recovering"}
    /\ consecutiveFailures' = 0
    /\ UNCHANGED shutdownRequested
    /\ \/ state' = "Idle" /\ BeginSleep(PollingInterval)
       \/ loop = "committing" /\ BeginBatch
    /\ HandleShutdown(FALSE)

(* execute() returns: caught up, with or without a batch, the daemon *)
(* sleeps; behind, it goes on.                                       *)
BatchSucceeds ==
    /\ Alive /\ loop \in Running \ {"recovering"}
    /\ consecutiveFailures' = 0
    /\ UNCHANGED shutdownRequested
    /\ \/ state' = "Idle" /\ BeginSleep(PollingInterval)
       \/ loop = "committing" /\ LoopTop
    /\ HandleShutdown(FALSE)

(* execute() throws: Error, then BackingOff. *)
BatchFails ==
    /\ Alive /\ loop \in Running
    /\ consecutiveFailures' = Lower(consecutiveFailures + 1, CountedFailures)
    /\ UNCHANGED shutdownRequested
    /\ state' = "BackingOff"
    /\ \E delay \in Delays(consecutiveFailures') : BeginSleep(delay)
    /\ HandleShutdown(FALSE)

(* The sleep's timer fires. *)
Wake ==
    /\ Alive /\ loop = "sleeping" /\ sleepLeft = 0
    /\ UNCHANGED <<consecutiveFailures, shutdownRequested>>
    /\ LoopTop
    /\ HandleShutdown(FALSE)

\* Mutant: no force-resolve timeout.
FirstStop_NoTimeout ==
    /\ ~shutdownRequested
    /\ shutdownRequested' = TRUE
    /\ \/ loop = "sleeping" /\ LeaveLoop
       \/ /\ loop # "sleeping"
          /\ UNCHANGED <<state, loop, sleepLeft, stopLeft, stopped, handlers>>

(* The first stop(): a pending sleep is aborted, and the loop leaves; else *)
(* stop() waits under its timeout.                                         *)
FirstStop ==
    /\ ~shutdownRequested
    /\ shutdownRequested' = TRUE
    /\ \/ loop = "sleeping" /\ LeaveLoop
       \/ /\ loop # "sleeping"
          /\ stopLeft' = ShutdownTimeout
          /\ UNCHANGED <<state, loop, sleepLeft, stopped, handlers>>

(* stop() is called; a second call only awaits the same promise. *)
Stop ==
    /\ Alive
    /\ FirstStop
    /\ UNCHANGED consecutiveFailures
    /\ HandleShutdown(FALSE)

(* SIGINT or SIGTERM.  The daemon's handler and the service's both call *)
(* stop(); the service ignores further signals.                         *)
Signal ==
    /\ process = "serving" /\ loop # "unstarted"
    /\ \/ FirstStop
       \/ /\ shutdownRequested
          /\ UNCHANGED <<shutdownRequested, state, loop, sleepLeft, stopLeft, stopped, handlers>>
    /\ UNCHANGED consecutiveFailures
    /\ HandleShutdown(TRUE)

(* stop()'s timeout fires: Stopped, whatever the loop is doing. *)
ForceStopped ==
    /\ Alive /\ stopLeft = 0
    /\ state' = "Stopped"
    /\ stopped' = TRUE /\ stopLeft' = None
    /\ UNCHANGED <<consecutiveFailures, shutdownRequested, loop, sleepLeft, handlers>>
    /\ HandleShutdown(FALSE)

(* The pool is closed, which waits for the connections checked out, and *)
(* the process exits.                                                   *)
Exit ==
    /\ process = "closing" /\ loop \notin Transacting
    /\ process' = "exited"
    /\ UNCHANGED <<state, consecutiveFailures, shutdownRequested, loop, sleepLeft,
                   stopLeft, stopped, handlers>>

(* A tick of the clock; a timer that is due fires first. *)
Timers == {t \in {sleepLeft, stopLeft} : t # None}
Elapse(t) == IF t = None THEN None ELSE t - 1

Tick ==
    /\ Alive /\ Timers # {} /\ 0 \notin Timers
    /\ sleepLeft' = Elapse(sleepLeft) /\ stopLeft' = Elapse(stopLeft)
    /\ UNCHANGED <<state, consecutiveFailures, shutdownRequested, loop, stopped,
                   handlers, process>>

-----------------------------------------------------------------------------
BatchEnds == BatchSucceeds \/ BatchFails
Clock     == Tick \/ Wake \/ ForceStopped
TransactionEnds == loop \in Transacting /\ (CloseTransaction \/ BatchEnds)

Next == Start \/ OpenTransaction \/ CloseTransaction \/ BatchEnds \/ Clock
            \/ Stop \/ Signal \/ Exit

Spec == Init /\ [][Next]_vars

(* Timers fire, transactions end and the pool closes; a batch may hang   *)
(* for ever on a call of the node that is never answered.                *)
TimedSpec == Spec /\ WF_vars(Clock) /\ WF_vars(TransactionEnds) /\ WF_vars(Exit)

-----------------------------------------------------------------------------
(* The state tells the health: Syncing and Idle mean that the last batch  *)
(* succeeded, BackingOff and Recovering that it failed, on every path     *)
(* through sleeps, retries and shutdown.                                  *)
StateTellsHealth ==
    /\ state \in {"Syncing", "Idle"} => consecutiveFailures = 0
    /\ state \in {"BackingOff", "Recovering"} => consecutiveFailures > 0

(* The service closes its database before the shutdown timeout only when  *)
(* the loop has left: a shutdown never cuts short a batch it had time to  *)
(* wait for (index.ts:108-113), and it never tears a transaction.         *)
ShutdownWaitsForTheBatch ==
    [][/\ process # "closing" /\ process' = "closing" =>
             loop' = "exited" \/ stopped \/ stopLeft = 0
       /\ process # "exited" /\ process' = "exited" => loop \notin Transacting]_vars

(* After stop() the daemon takes up no new batch: neither right behind the *)
(* batch that was running when it was called, as the loop does when it is  *)
(* behind the head, nor when a sleep ends or a late start() comes          *)
(* (daemon.ts:198, 232).                                                   *)
NoBatchAfterStop ==
    [][shutdownRequested /\ loop # "executing" => loop' # "executing"]_vars

(* stop() resolves, even when the batch it waits for hangs for ever. *)
StopResolves == shutdownRequested ~> stopped

(* A signal ends the process, whatever the daemon was doing and whether *)
(* or not it was already stopping.                                      *)
SignalEndsTheProcess == process \in {"stopping", "closing"} ~> process = "exited"

(* "The daemon never self-terminates" (continuous-indexer.md:50): a batch *)
(* follows every sleep, unless a stop is requested.                       *)
RetriesForEver == loop = "sleeping" ~> loop \in Running \/ shutdownRequested

(* After stop() the loop leaves, unless the process exits first or the *)
(* last batch hangs for ever.                                          *)
LoopLeavesAfterStop ==
    WF_vars(BatchEnds) =>
        ((shutdownRequested /\ loop \in Running \cup {"sleeping"})
            ~> (loop = "exited" \/ ~Alive))
=============================================================================
