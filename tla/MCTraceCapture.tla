--------------------------- MODULE MCTraceCapture ---------------------------
(***************************************************************************)
(* TraceCapture for TLC: sequence numbers of two bits, so that a log of    *)
(* five records wraps around, with a gap, a duplicate and an exchange.     *)
(***************************************************************************)
EXTENDS TraceCapture

AnyFirst == 0 .. Modulus - 1
=============================================================================
