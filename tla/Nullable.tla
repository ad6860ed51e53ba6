------------------------------ MODULE Nullable ------------------------------
(***************************************************************************)
(* The `null` that the stores and the planner exchange: a checkpoint that  *)
(* was never written, a block_metadata lookup that found no row, a fact    *)
(* that was never inserted.                                                *)
(***************************************************************************)
EXTENDS Integers

CONSTANT None

ASSUME NoneAssumption == None \notin Int
=============================================================================
