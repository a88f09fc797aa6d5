---------------------------- MODULE Application ----------------------------
(***************************************************************************)
(* scenarios_a3 as a whole: Scenarios and Dhrystone.  The scheduler calls  *)
(* one task after the other, so that dhry() runs only while no task of     *)
(* Scenarios does; the button interrupt comes at any time, and a reset     *)
(* stops whichever task runs.                                              *)
(***************************************************************************)
EXTENDS Scenarios, Dhrystone

appVars == <<vars, dhryVars>>

AppInit == Init /\ DhryInit

\* A step of a task, or of the interrupt, that is not a reset.
ScenarioTask ==
  /\ place = "none"
  /\ \/ Task5ms \/ NextPass \/ Compare \/ Swap \/ BsReturns
     \/ SetSignal \/ ReadX \/ WriteY \/ ReadZ \/ WriteZ
  /\ UNCHANGED dhryVars
DhryTask == pc = "idle" /\ (Dhry \/ DhryStep) /\ UNCHANGED vars
AppPress == Press /\ UNCHANGED dhryVars
AppReset == Reset /\ DhryReset

AppNext == ScenarioTask \/ DhryTask \/ AppPress \/ AppReset

\* dhry() goes on once it is called; the interrupt leaves it its turns.
AppSpec == AppInit /\ [][AppNext]_appVars /\ WF_appVars(DhryStep /\ UNCHANGED vars)
=============================================================================
