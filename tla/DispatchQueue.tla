--------------------------- MODULE DispatchQueue ---------------------------
(***************************************************************************)
(* What the firmware's scheduler promises: a set of released tasks, one    *)
(* task at a time taken out of it and run, until the schedule is closed.   *)
(* Ticks release any set of tasks at any time.  The one latitude, MayLose, *)
(* is that a release of the running task may be forgotten when it ends.    *)
(***************************************************************************)
CONSTANTS Tasks, Idle, MayLose

VARIABLES open, ready, running

dqVars == <<open, ready, running>>

Init == open = FALSE /\ ready = {} /\ running = Idle

Open == open' = TRUE /\ ready' = {} /\ UNCHANGED running

Release == /\ open
           /\ \E S \in SUBSET Tasks : ready' = ready \cup S
           /\ UNCHANGED <<open, running>>

Start(t) == /\ open /\ running = Idle /\ t \in ready
            /\ running' = t
            /\ ready' = ready \ {t}
            /\ UNCHANGED open

Finish == /\ running # Idle
          /\ running' = Idle
          /\ ready' \in {ready} \cup (IF MayLose THEN {ready \ {running}} ELSE {})
          /\ UNCHANGED open

Close == open' = FALSE /\ ready' = {} /\ UNCHANGED running

\* A reset forgets everything, in the middle of a task too.
Restart == open' = FALSE /\ ready' = {} /\ running' = Idle

Next == Open \/ Release \/ (\E t \in Tasks : Start(t)) \/ Finish \/ Close \/ Restart

Spec == Init /\ [][Next]_dqVars
=============================================================================
