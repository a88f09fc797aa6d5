---------------------------- MODULE MCScheduler ----------------------------
(***************************************************************************)
(* Scheduler for TLC: three tasks whose periods divide each other like 5,  *)
(* 10, 100 and 1000 do, and a tick counter of a modulus they do not divide, *)
(* so that the counter's overflow falls out of phase as it does at 2^32.   *)
(***************************************************************************)
EXTENDS Scheduler

MCPeriod == <<2, 4, 8>>
MCPeriods == [i \in 0 .. 2 |-> MCPeriod[i + 1]]

\* An index before the queue, one inside, as s5 would leave it, the right one, and
\* one behind.
AnyIndex == {-1, 1, 2, 5}
=============================================================================
