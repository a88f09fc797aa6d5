----------------------------- MODULE TickLatch -----------------------------
(***************************************************************************)
(* What the scheduler relies on of the timer, the interrupt controller and *)
(* the first half of handle_trap: a latch that an expiry of the running    *)
(* timer sets and the handler of one tick clears.  Stopping the timer may  *)
(* or may not take back a tick that waits.                                 *)
(***************************************************************************)
VARIABLES on, waiting

tlVars == <<on, waiting>>

Init == on = FALSE /\ waiting = FALSE

Start == on' = TRUE /\ UNCHANGED waiting
Stop == on' = FALSE /\ (waiting' = waiting \/ waiting' = FALSE)
Expire == on /\ waiting' = TRUE /\ UNCHANGED on
Deliver == waiting /\ waiting' = FALSE /\ UNCHANGED on

Next == Start \/ Stop \/ Expire \/ Deliver

Spec == Init /\ [][Next]_tlVars
=============================================================================
