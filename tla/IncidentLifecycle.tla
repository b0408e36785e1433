-------------------------- MODULE IncidentLifecycle --------------------------
(***************************************************************************)
(* What the incident engine promises about one monitor, as the lifecycle    *)
(* of the repository's README shows it: an incident opens after             *)
(* FailureThreshold failures in a row, a healthy result starts the recovery *)
(* confirmation, the next result either confirms it or sends the incident   *)
(* back.  Each stored result is followed by the one reaction to it before   *)
(* the next result is stored.                                               *)
(***************************************************************************)
EXTENDS Naturals

CONSTANT FailureThreshold

VARIABLES
    phase,    \* "HEALTHY", or the status of the one open incident
    failRun,  \* failing results since the last healthy one
    upRun,    \* healthy results since the last failing one, counted up to 2
    pending   \* the last result has not been acted on

vars == <<phase, failRun, upRun, pending>>

Init == phase = "HEALTHY" /\ failRun = 0 /\ upRun = 0 /\ pending = FALSE

Observe ==
    /\ ~pending
    /\ \/ failRun' = failRun + 1 /\ upRun' = 0
       \/ failRun' = 0 /\ upRun' = (IF upRun < 2 THEN upRun + 1 ELSE 2)
    /\ pending' = TRUE
    /\ UNCHANGED phase

\* Failures below the threshold, in maintenance or too far apart open nothing.
Stay ==
    /\ \/ phase = "HEALTHY"
       \/ phase = "INVESTIGATING" /\ failRun > 0
    /\ UNCHANGED phase

Open    == phase = "HEALTHY" /\ failRun >= FailureThreshold /\ phase' = "INVESTIGATING"
Recover == phase = "INVESTIGATING" /\ upRun > 0 /\ phase' = "MONITORING"
Relapse == phase = "MONITORING" /\ failRun > 0 /\ phase' = "INVESTIGATING"
Resolve == phase = "MONITORING" /\ upRun >= 2 /\ phase' = "HEALTHY"

React ==
    /\ pending
    /\ Stay \/ Open \/ Recover \/ Relapse \/ Resolve
    /\ pending' = FALSE
    /\ UNCHANGED <<failRun, upRun>>

Next == Observe \/ React

\* What may happen, and that every result is reacted to.
Safety == Init /\ [][Next]_vars

Spec == Safety /\ WF_vars(React)
=============================================================================
