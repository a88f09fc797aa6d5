----------------------------- MODULE TraceSetup -----------------------------
(***************************************************************************)
(* The user configures the board: with EthConfig the way of the frames,    *)
(* then with TraceConfig the unit that starts to send at the end.          *)
(***************************************************************************)
EXTENDS TraceConfig, EthConfig

setupVars == <<vars, ethVars>>
SetupInit == Init /\ EthInit
SetupNext ==
  \/ EthNext /\ UNCHANGED vars
  \/ EthDone /\ Next /\ UNCHANGED ethVars
SetupSpec == SetupInit /\ [][SetupNext]_setupVars /\ WF_setupVars(SetupNext)
=============================================================================
