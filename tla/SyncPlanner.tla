---------------------------- MODULE SyncPlanner ----------------------------
(***************************************************************************)
(* The stateless range planner, calculateSyncRange in                      *)
(* packages/shared/src/sync.ts.  It is a pure function; the pipeline and   *)
(* the orchestrator both call it.                                          *)
(***************************************************************************)
EXTENDS Nullable

(* The inputs that make calculateSyncRange throw a ValidationError. *)
PlanRejects(start, latest, current, size) ==
    \/ start < 0
    \/ latest < 0
    \/ current # None /\ current < 0
    \/ size <= 0

(* The first block of the next range: the block after the checkpoint. *)
NextFrom(start, current) == IF current = None THEN start ELSE current + 1

\* Mutant: the range is not cut at the latest block.
Plan_BeyondTheHead(start, latest, current, size) ==
    LET from == NextFrom(start, current)
        to   == from + size - 1
    IN  IF latest < from
        THEN [from |-> from, to |-> from - 1, caughtUp |-> TRUE, remaining |-> 0]
        ELSE [from |-> from, to |-> to, caughtUp |-> to >= latest,
              remaining |-> latest - to]

(* The planned range.  An empty range is [from, from - 1]. *)
Plan(start, latest, current, size) ==
    LET from      == NextFrom(start, current)
        candidate == from + size - 1
        to        == IF candidate < latest THEN candidate ELSE latest
    IN  IF latest < from
        THEN [from |-> from, to |-> from - 1, caughtUp |-> TRUE, remaining |-> 0]
        ELSE [from |-> from, to |-> to, caughtUp |-> to >= latest,
              remaining |-> latest - to]
=============================================================================
