-------------------------- MODULE MCTraceMessages --------------------------
(***************************************************************************)
(* TraceMessages for TLC: the whole of ctrace_test_main, with a floating   *)
(* point unit, and an address whose two words differ.                      *)
(***************************************************************************)
EXTENDS TraceMessages

SomeAddress == <<4660, 41220>>
=============================================================================
