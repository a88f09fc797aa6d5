---------------------------- MODULE MCScenarios ----------------------------
(***************************************************************************)
(* Application for TLC: ints of 16 bits, wide enough for what f returns    *)
(* and narrow enough for z to overflow, an array of four, and RAM that is  *)
(* full of a number which is no index, no letter and no OneToFifty.        *)
(***************************************************************************)
EXTENDS Application

\* None negative, in several orders, and each of the three.
MCPowerUp ==
  {[x |-> n[1], y |-> n[2], z |-> n[3]] :
     n \in {<<204, 0, 1>>, <<300, 200, 200>>, <<-20, -7, 0>>, <<200, -7, 2>>, <<0, 0, -7>>}}

RamWords == {120}
=============================================================================
