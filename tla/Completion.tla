----------------------------- MODULE Completion -----------------------------
(***************************************************************************)
(* What a run of the worker reports to the harness that supervises it: a   *)
(* terminal status (RunResult.Status) and the completion signal            *)
(* (Emulator.Done).  runWorker stops waiting for the worker on the signal, *)
(* and Evaluate reads the status without asking where it came from.        *)
(***************************************************************************)
CONSTANT Statuses      \* terminal statuses, "overridden" among them

VARIABLES status,      \* the terminal status, "unset" before there is one
          finished     \* has the completion signal been given?

cvars == <<status, finished>>

Init == status = "unset" /\ finished = FALSE

\* A worker's status replaces whatever is there.
Report ==
  /\ status' \in Statuses \ {"overridden"}
  /\ UNCHANGED finished

\* An overridden completion only fills in a missing status.
Preempt ==
  /\ status = "unset"
  /\ status' = "overridden"
  /\ UNCHANGED finished

Signal ==
  /\ status # "unset"
  /\ ~finished
  /\ finished' = TRUE
  /\ UNCHANGED status

Next == Report \/ Preempt \/ Signal

Safety == Init /\ [][Next]_cvars

Spec == Safety /\ WF_cvars(Signal)
=============================================================================
