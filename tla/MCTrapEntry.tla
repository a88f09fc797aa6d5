---------------------------- MODULE MCTrapEntry ----------------------------
(***************************************************************************)
(* TrapEntry for TLC: two places of main(), two register contents, and     *)
(* traps nested up to three deep, one more than it takes for a trap to be  *)
(* both interrupted and interrupting.                                      *)
(***************************************************************************)
EXTENDS TrapEntry
=============================================================================
