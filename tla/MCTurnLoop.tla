----------------------------- MODULE MCTurnLoop -----------------------------
(* A small instance of the turn loop. *)
EXTENDS TurnLoop
=============================================================================
