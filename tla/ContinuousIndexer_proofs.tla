----------------------- MODULE ContinuousIndexer_proofs -----------------------
(***************************************************************************)
(* Theorems about ContinuousIndexer for every polling interval, backoff,   *)
(* jitter and shutdown timeout.                                            *)
(***************************************************************************)
EXTENDS ContinuousIndexer, FiniteSetTheorems, TLAPS

(* How a callback may leave the shutdown: the loop left, the timeout fired, *)
(* or nothing changed.                                                      *)
LEMMA StoppedBecause ==
    ASSUME [Next]_vars, stopped'
    PROVE  loop' = "exited" \/ stopLeft = 0 \/ stopped
  BY DEF Next, vars, Start, OpenTransaction, CloseTransaction, BatchEnds, BatchSucceeds,
         BatchFails, Clock, Tick, Wake, ForceStopped, Stop, Signal, FirstStop, Exit,
         LoopTop, LeaveLoop, BeginBatch, BeginSleep

(* Only a callback that sees stop() resolved moves the service on to close *)
(* its database, and only Exit ends the process.                           *)
LEMMA ProcessSteps ==
    ASSUME [Next]_vars
    PROVE  /\ process # "closing" /\ process' = "closing" => stopped'
           /\ process # "exited" /\ process' = "exited" => loop \notin Transacting
  BY DEF Next, vars, Start, OpenTransaction, CloseTransaction, BatchEnds, BatchSucceeds,
         BatchFails, Clock, Tick, Wake, ForceStopped, Stop, Signal, Exit, HandleShutdown

(* The service waits for the running batch as long as the shutdown timeout *)
(* lasts, and never tears a transaction.                                   *)
THEOREM ShutdownWaits == Spec => ShutdownWaitsForTheBatch
<1>1. [Next]_vars =>
        [/\ process # "closing" /\ process' = "closing" =>
               loop' = "exited" \/ stopped \/ stopLeft = 0
         /\ process # "exited" /\ process' = "exited" => loop \notin Transacting]_vars
  BY StoppedBecause, ProcessSteps
<1> QED
  BY <1>1, PTL DEF Spec, ShutdownWaitsForTheBatch

(* Once a stop is requested no batch starts, not even right behind the one *)
(* that was running.                                                       *)
THEOREM NoBatchOnceStopped == Spec => NoBatchAfterStop
<1>1. [Next]_vars =>
        [shutdownRequested /\ loop # "executing" => loop' # "executing"]_vars
  BY DEF Next, vars, Start, OpenTransaction, CloseTransaction, BatchEnds, BatchSucceeds,
         BatchFails, Clock, Tick, Wake, ForceStopped, Stop, Signal, FirstStop, Exit,
         LoopTop, LeaveLoop, BeginBatch, BeginSleep, Transacting
<1> QED
  BY <1>1, PTL DEF Spec, NoBatchAfterStop

-----------------------------------------------------------------------------
(* The state tells the health; a daemon that was never started has *)
(* no failures, which makes it inductive.                              *)
HealthInv ==
    /\ consecutiveFailures \in Nat
    /\ state = "Starting" => consecutiveFailures = 0
    /\ StateTellsHealth

LEMMA HealthStep == HealthInv /\ [Next]_vars => HealthInv'
<1> SUFFICES ASSUME HealthInv, [Next]_vars PROVE HealthInv'
  OBVIOUS
<1> USE DaemonConfig DEF HealthInv, StateTellsHealth
<1>1. CASE Start
  BY <1>1 DEF Start, LeaveLoop
<1>2. CASE BatchSucceeds
  BY <1>2 DEF BatchSucceeds, BeginSleep, LoopTop, LeaveLoop, BeginBatch
<1>3. CASE BatchFails
  <2>1. consecutiveFailures' \in Nat /\ consecutiveFailures' > 0
    BY <1>3 DEF BatchFails, Lower
  <2> QED
    BY <1>3, <2>1 DEF BatchFails
<1>4. CASE Wake
  BY <1>4 DEF Wake, LoopTop, LeaveLoop, BeginBatch
<1>5. CASE Stop \/ Signal
  BY <1>5 DEF Stop, Signal, FirstStop, LeaveLoop
<1>6. CASE ForceStopped
  BY <1>6 DEF ForceStopped
<1>7. CASE OpenTransaction \/ CloseTransaction \/ Tick \/ Exit \/ UNCHANGED vars
  BY <1>7 DEF OpenTransaction, CloseTransaction, Tick, Exit, vars
<1> QED
  BY <1>1, <1>2, <1>3, <1>4, <1>5, <1>6, <1>7 DEF Next, BatchEnds, Clock

(* Syncing and Idle mean that the last batch succeeded, BackingOff and *)
(* Recovering that it failed.                                          *)
THEOREM HealthIsTold == Spec => []StateTellsHealth
<1>1. Init => HealthInv
  BY DEF Init, HealthInv, StateTellsHealth
<1>2. HealthInv => StateTellsHealth
  BY DEF HealthInv
<1> QED
  BY <1>1, <1>2, HealthStep, PTL DEF Spec

-----------------------------------------------------------------------------
(* Types. *)

(* A power of two is the number of subsets of a set. *)
LEMMA PowerOfTwo == \A k \in Nat : 2 ^ k \in Nat
<1> SUFFICES ASSUME NEW k \in Nat PROVE 2 ^ k \in Nat
  OBVIOUS
<1>1. IsFiniteSet(1 .. k) /\ Cardinality(1 .. k) = k
  BY FS_Interval
<1>2. IsFiniteSet(SUBSET (1 .. k)) /\ Cardinality(SUBSET (1 .. k)) = 2 ^ k
  BY <1>1, FS_SUBSET
<1> QED
  BY <1>2, FS_CardinalityType

(* A delay is a number of ticks, whatever the backoff and its jitter. *)
LEMMA DelayType ==
    ASSUME NEW n \in Nat \ {0}
    PROVE  Delays(n) \subseteq Nat
<1> USE DaemonConfig
<1>1. Lower(n - 1, 30) \in Nat
  BY DEF Lower
<1>2. 2 ^ Lower(n - 1, 30) \in Nat
  BY <1>1, PowerOfTwo
<1> DEFINE pow == 2 ^ Lower(n - 1, 30)
<1>3. InitialBackoff * pow \in Nat
  <2> HIDE DEF pow
  <2>1. pow \in Nat
    BY <1>2 DEF pow
  <2> QED
    BY <2>1
<1>4. BaseDelay(n) \in Nat
  <2> HIDE DEF pow
  <2>1. BaseDelay(n) = Lower(InitialBackoff * pow, MaxBackoff)
    BY DEF BaseDelay, pow
  <2> QED
    BY <1>3, <2>1 DEF Lower
<1>5. 100 - JitterPercent \in Nat
  OBVIOUS
<1> DEFINE low == BaseDelay(n) * (100 - JitterPercent)
<1>6. low \in Nat
  <2> HIDE DEF BaseDelay
  <2> QED
    BY <1>4, <1>5
<1>7. Rounded(low) \in Nat
  <2> HIDE DEF low
  <2> QED
    BY <1>6 DEF Rounded
<1> HIDE DEF low
<1>8. Delays(n) = Rounded(low) .. Rounded(BaseDelay(n) * (100 + JitterPercent))
  BY DEF Delays, low
<1> QED
  BY <1>7, <1>8

(* A daemon that was not started has no loop. *)
TypeInv == TypeOK /\ (state = "Starting" => loop = "unstarted")

LEMMA ShutdownType ==
    ASSUME TypeOK, NEW signalled \in BOOLEAN, HandleShutdown(signalled)
    PROVE  process' \in ProcessStates
  BY DEF TypeOK, HandleShutdown, ProcessStates

LEMMA TypeStep == TypeInv /\ [Next]_vars => TypeInv'
<1> SUFFICES ASSUME TypeInv, [Next]_vars PROVE TypeInv'
  OBVIOUS
<1> USE DaemonConfig, NoneAssumption DEF TypeInv, TypeOK, DaemonState, LoopStates, Running, Transacting
<1>1. CASE Start
  BY <1>1, ShutdownType DEF Start, LeaveLoop
<1>2. CASE OpenTransaction \/ CloseTransaction
  BY <1>2 DEF OpenTransaction, CloseTransaction
<1>3. CASE BatchSucceeds
  BY <1>3, ShutdownType DEF BatchSucceeds, BeginSleep, LoopTop, LeaveLoop, BeginBatch
<1>4. CASE BatchFails
  <2>1. consecutiveFailures' \in 1 .. CountedFailures
    BY <1>4 DEF BatchFails, Lower
  <2>2. PICK delay \in Delays(consecutiveFailures') : BeginSleep(delay)
    BY <1>4 DEF BatchFails
  <2>3. delay \in Nat
    <3>1. consecutiveFailures' \in Nat \ {0}
      BY <2>1
    <3> QED
      BY <2>2, <3>1, DelayType
  <2> QED
    BY <1>4, <2>1, <2>2, <2>3, ShutdownType DEF BatchFails, BeginSleep
<1>5. CASE Wake
  BY <1>5, ShutdownType DEF Wake, LoopTop, LeaveLoop, BeginBatch
<1>6. CASE Stop \/ Signal
  <2>1. stopLeft' \in 0 .. ShutdownTimeout \cup {None}
    <3>1. stopLeft' \in {ShutdownTimeout, None, stopLeft}
      BY <1>6 DEF Stop, Signal, FirstStop, LeaveLoop
    <3>2. ShutdownTimeout \in 0 .. ShutdownTimeout
      OBVIOUS
    <3>3. stopLeft \in 0 .. ShutdownTimeout \cup {None}
      OBVIOUS
    <3> QED
      BY <3>1, <3>2, <3>3
  <2>2. process' \in ProcessStates
    BY <1>6, ShutdownType DEF Stop, Signal
  <2>3. shutdownRequested' \in BOOLEAN /\ stopped' \in BOOLEAN /\ handlers' \in BOOLEAN
    BY <1>6 DEF Stop, Signal, FirstStop, LeaveLoop
  <2>4. CASE LeaveLoop
    BY <1>6, <2>1, <2>2, <2>3, <2>4 DEF Stop, Signal, LeaveLoop
  <2>5. CASE UNCHANGED <<state, loop, sleepLeft>>
    BY <1>6, <2>1, <2>2, <2>3, <2>5 DEF Stop, Signal
  <2> QED
    BY <1>6, <2>4, <2>5 DEF Stop, Signal, FirstStop
<1>7. CASE ForceStopped
  BY <1>7, ShutdownType DEF ForceStopped
<1>8. CASE Tick
  BY <1>8 DEF Tick, Timers, Elapse
<1>9. CASE Exit
  BY <1>9 DEF Exit, ProcessStates
<1>10. CASE UNCHANGED vars
  BY <1>10 DEF vars
<1> HIDE DEF TypeInv, TypeOK, DaemonState, LoopStates, Running, Transacting
<1> QED
  BY <1>1, <1>2, <1>3, <1>4, <1>5, <1>6, <1>7, <1>8, <1>9, <1>10 DEF Next, BatchEnds, Clock

(* Every variable of the daemon and the service keeps its type; a timer *)
(* never runs below zero, and one is pending exactly while it sleeps.   *)
THEOREM DaemonTypeCorrect == Spec => []TypeOK
<1>1. Init => TypeInv
  <2> SUFFICES ASSUME Init PROVE TypeInv
    OBVIOUS
  <2>1. consecutiveFailures \in 0 .. CountedFailures
    BY DaemonConfig DEF Init
  <2> QED
    BY <2>1 DEF Init, TypeInv, TypeOK, DaemonState, LoopStates, ProcessStates
<1>2. TypeInv => TypeOK
  BY DEF TypeInv
<1> QED
  BY <1>1, <1>2, TypeStep, PTL DEF Spec
=============================================================================
