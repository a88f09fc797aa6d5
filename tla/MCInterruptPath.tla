-------------------------- MODULE MCInterruptPath --------------------------
(***************************************************************************)
(* InterruptPath for TLC: three expiries and three changes, so that one    *)
(* can fall on a handler that serves another and a third follow it.        *)
(***************************************************************************)
EXTENDS InterruptPath
=============================================================================
