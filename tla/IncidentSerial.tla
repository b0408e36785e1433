--------------------------- MODULE IncidentSerial ---------------------------
(***************************************************************************)
(* The incident engine when the jobs of a monitor do not overlap, no        *)
(* attempt fails and no operator edits the status: any number of workers,   *)
(* of which one at a time has a job of the monitor.  It then implements     *)
(* IncidentLifecycle, which knows nothing of Redis, of await points or of   *)
(* stale reads.                                                             *)
(***************************************************************************)
EXTENDS IncidentEngine

\* The rows of check_results, as far as the contract looks at them.
VARIABLES failRun, upRun

serialVars == <<vars, failRun, upRun>>

UpRunCap == 2  \* bound: longer runs of healthy results are not told apart

SerialInit == Init /\ failRun = 0 /\ upRun = 0

\* The next result comes when the job of the one before has ended.
StoreAndRecord(w, o) ==
    /\ \A v \in Workers : pc[v] = "idle"
    /\ StoreResult(w, o)
    /\ failRun' = IF isFailure(o) THEN failRun + 1 ELSE 0
    /\ upRun' = IF isFailure(o) THEN 0 ELSE IF upRun < UpRunCap THEN upRun + 1 ELSE upRun

SerialNext ==
    \/ \E w \in Workers, o \in ProbeOutcomes : StoreAndRecord(w, o)
    \/ /\ (\E w \in Workers : EngineStep(w)) \/ CounterExpires \/ MaintenanceToggles
       /\ UNCHANGED <<failRun, upRun>>

\* A job that runs takes its next step.
SerialSpec ==
    SerialInit /\ [][SerialNext]_serialVars /\ \A w \in Workers : WF_vars(EngineStep(w))

-----------------------------------------------------------------------------
\* A job has a result and has not yet written what it decided from it.
Undecided == \E w \in Workers :
    pc[w] \in {"count", "find", "maintenance", "monitor", "resolve", "revert", "create"}

CurrentPhase == IF Active = {} THEN "HEALTHY" ELSE status[CHOOSE i \in Active : TRUE]

Lifecycle == INSTANCE IncidentLifecycle WITH phase <- CurrentPhase, pending <- Undecided

\* The engine implements the documented lifecycle: threshold before opening,
\* two healthy results in a row before resolving, back to INVESTIGATING on a
\* relapse, one reaction per result and never more than one open incident.
LifecycleContract == Lifecycle!Spec

\* Subscribers hear that an incident is over only after they heard of it.
\* (Overlapping jobs break this: the job that resolves can overtake the one
\* that is about to announce.)
RecoveryFollowsDown == \A i \in recoveryAlerts : downAlerts[i] = 1

\* An open incident has always been announced by the time its job is done,
\* so an outage is never silent once an incident exists.
OpenIsAnnounced ==
    \A i \in Active : downAlerts[i] = 1 \/ \E w \in Workers : pc[w] = "downAlert" /\ seen[w] = i
=============================================================================
