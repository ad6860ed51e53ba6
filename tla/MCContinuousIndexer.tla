------------------------- MODULE MCContinuousIndexer -------------------------
(***************************************************************************)
(* ContinuousIndexer for TLC.  A tick is about a second, scaled down: the  *)
(* service polls every 5 s, backs off from 1 s up to 30 s and gives a stop *)
(* 10 s, so that a poll fits into the shutdown timeout and the longest     *)
(* backoff does not.                                                       *)
(***************************************************************************)
EXTENDS ContinuousIndexer
=============================================================================
