--------------------------- MODULE IncidentEngine ---------------------------
(***************************************************************************)
(* The incident state machine of one monitor: processCheckOutcome and its   *)
(* helpers (server/src/incident/engine.ts), run concurrently by the check   *)
(* jobs of the monitor worker (server/src/workers/monitorWorker.ts), and    *)
(* the status endpoint of the API (server/src/services/incident.service.ts) *)
(* which writes the same rows.                                              *)
(*                                                                          *)
(* Every await of the code is a separate action: between two of them any    *)
(* other job or request may run.  A job keeps what it read in its locals    *)
(* (outcome, count, seen, seenStatus) and acts on them later.               *)
(*                                                                          *)
(* An attempt of a job may end early at any await, because a call threw or  *)
(* because the process died (Abort).  The queue then runs the job again     *)
(* from the top, with a new probe of the target: here that is an ordinary   *)
(* StoreResult of the worker.                                               *)
(*                                                                          *)
(* Not modelled here: the timeline rows other than FAILED_CHECK, the        *)
(* activity log (its writer swallows every error), certificate rows and     *)
(* their alerts, anomaly detection (they never touch an incident).          *)
(***************************************************************************)
EXTENDS Integers, FiniteSets

CONSTANTS
    Workers,           \* jobs of this monitor that can be in the engine at once
    Requests,          \* concurrent PATCH /incidents/:id/status requests
    ProbeOutcomes,     \* what runCheck can answer: {"UP", "DEGRADED", "DOWN"} or fewer
    FailureThreshold,  \* monitor.failureThreshold
    MaxIncidents,      \* bound: incident rows created in a behaviour
    MaxFailures,       \* bound: failing check results stored in a behaviour
    MaxAborts,         \* bound: attempts that end early in a behaviour
    MaxRequests        \* bound: status requests accepted in a behaviour

ASSUME WorkersAssumption == IsFiniteSet(Workers) /\ IsFiniteSet(Requests)
ASSUME OutcomesAssumption == ProbeOutcomes \subseteq {"UP", "DEGRADED", "DOWN"}
ASSUME ThresholdAssumption == FailureThreshold \in Nat \ {0}
ASSUME BoundsAssumption == /\ MaxIncidents \in Nat /\ MaxFailures \in Nat
                          /\ MaxAborts \in Nat /\ MaxRequests \in Nat

Incidents  == 1..MaxIncidents   \* the rows, numbered in the order of their creation
NoIncident == 0                 \* findFirst returned null

VARIABLES
    failcount,          \* Redis key failcount:<monitor>
    status,             \* incident.status of each row, "ABSENT" before it is created
    resolvedAt,         \* the rows whose resolvedAt is not null
    failedCheckCount,   \* incident.failedCheckCount
    failedCheckEvents,  \* number of FAILED_CHECK timeline rows of the incident
    downAlerts,         \* number of MONITOR_DOWN alerts handed to sendAlert
    recoveryAlerts,     \* incidents with a MONITOR_RECOVERED alert handed to sendAlert
    maintenance,        \* a maintenance window of the monitor is open now
    pc, outcome, count, seen, seenStatus,  \* each job: its next await and its locals
    reqIncident, reqStatus,                \* each request: the row it read, the status to write
    failures, aborts, requests             \* what the bounds have used up

countVars  == <<failedCheckCount, failedCheckEvents>>
alertVars  == <<downAlerts, recoveryAlerts>>
engineVars == <<failcount, status, resolvedAt, countVars, alertVars>>
jobVars    == <<pc, outcome, count, seen, seenStatus>>
reqVars    == <<reqIncident, reqStatus>>
boundVars  == <<failures, aborts, requests>>
outside    == <<reqVars, boundVars, maintenance>>   \* what no step of a job writes
vars == <<engineVars, jobVars, reqVars, boundVars, maintenance>>

-----------------------------------------------------------------------------
ACTIVE_STATUSES == {"INVESTIGATING", "IDENTIFIED", "MONITORING"}

Steps == {"idle", "count", "find", "maintenance", "monitor", "resolve", "recoveryAlert",
          "revert", "bump", "event", "create", "downAlert", "tail"}

\* The rows findFirst can return: those with a status in ACTIVE_STATUSES.
Active == {i \in Incidents : status[i] \in ACTIVE_STATUSES}

TypeOK ==
    /\ failcount \in Nat
    /\ status \in [Incidents -> ACTIVE_STATUSES \cup {"ABSENT", "RESOLVED"}]
    /\ resolvedAt \subseteq Incidents
    /\ failedCheckCount \in [Incidents -> Nat]
    /\ failedCheckEvents \in [Incidents -> Nat]
    /\ downAlerts \in [Incidents -> Nat]
    /\ recoveryAlerts \subseteq Incidents
    /\ maintenance \in BOOLEAN
    /\ pc \in [Workers -> Steps]
    /\ outcome \in [Workers -> {"UP", "DEGRADED", "DOWN"}]
    /\ count \in [Workers -> Nat]
    /\ seen \in [Workers -> Incidents \cup {NoIncident}]
    /\ seenStatus \in [Workers -> ACTIVE_STATUSES \cup {"ABSENT"}]
    /\ reqIncident \in [Requests -> Incidents \cup {NoIncident}]
    /\ reqStatus \in [Requests -> ACTIVE_STATUSES \cup {"ABSENT"}]
    /\ failures \in 0..MaxFailures /\ aborts \in 0..MaxAborts /\ requests \in 0..MaxRequests

Init ==
    /\ failcount = 0
    /\ status = [i \in Incidents |-> "ABSENT"]
    /\ resolvedAt = {}
    /\ failedCheckCount = [i \in Incidents |-> 0]
    /\ failedCheckEvents = [i \in Incidents |-> 0]
    /\ downAlerts = [i \in Incidents |-> 0]
    /\ recoveryAlerts = {}
    /\ maintenance \in BOOLEAN
    /\ pc = [w \in Workers |-> "idle"]
    /\ outcome = [w \in Workers |-> "UP"]
    /\ count = [w \in Workers |-> 0]
    /\ seen = [w \in Workers |-> NoIncident]
    /\ seenStatus = [w \in Workers |-> "ABSENT"]
    /\ reqIncident = [r \in Requests |-> NoIncident]
    /\ reqStatus = [r \in Requests |-> "ABSENT"]
    /\ failures = 0 /\ aborts = 0 /\ requests = 0

-----------------------------------------------------------------------------
(***************************************************************************)
(* The jobs.                                                                *)
(***************************************************************************)

isFailure(o) == o \in {"DOWN", "DEGRADED"}

\* The job waits at step `next`; its locals stay.
Goto(w, next) ==
    /\ pc' = [pc EXCEPT ![w] = next]
    /\ UNCHANGED <<outcome, count, seen, seenStatus>>

\* processCheckOutcome returns, or the attempt is over: the locals are gone.
Return(w) ==
    /\ pc' = [pc EXCEPT ![w] = "idle"]
    /\ outcome' = [outcome EXCEPT ![w] = "UP"]
    /\ count' = [count EXCEPT ![w] = 0]
    /\ seen' = [seen EXCEPT ![w] = NoIncident]
    /\ seenStatus' = [seenStatus EXCEPT ![w] = "ABSENT"]

\* The probe has ended with outcome o and its row is in check_results; the
\* job enters processCheckOutcome.
StoreResult(w, o) ==
    /\ pc[w] = "idle"
    /\ isFailure(o) => failures < MaxFailures
    /\ failures' = failures + (IF isFailure(o) THEN 1 ELSE 0)
    /\ pc' = [pc EXCEPT ![w] = "count"]
    /\ outcome' = [outcome EXCEPT ![w] = o]
    /\ UNCHANGED <<engineVars, count, seen, seenStatus, reqVars, maintenance, aborts, requests>>

\* INCR (followed by EXPIRE of the same key) after a failure, DEL after a success.
CountOutcome(w) ==
    /\ pc[w] = "count"
    /\ failcount' = IF isFailure(outcome[w]) THEN failcount + 1 ELSE 0
    /\ count' = [count EXCEPT ![w] = failcount']
    /\ pc' = [pc EXCEPT ![w] = "find"]
    /\ UNCHANGED <<status, resolvedAt, countVars, alertVars, outcome, seen, seenStatus, outside>>

\* findFirst of the active incidents, latest startedAt first.  startedAt is
\* the creation time minus (failureCount - 1) intervals, so of two active
\* rows either one can be the latest: any of them is returned.
FindActive(w) ==
    /\ pc[w] = "find"
    /\ \/ /\ Active = {}
          /\ UNCHANGED <<seen, seenStatus>>
       \/ \E i \in Active :
             /\ seen' = [seen EXCEPT ![w] = i]
             /\ seenStatus' = [seenStatus EXCEPT ![w] = status[i]]
    /\ pc' = [pc EXCEPT ![w] = "maintenance"]
    /\ UNCHANGED <<engineVars, outcome, count, outside>>

\* Mutant: the first healthy check already resolves the incident.
SuccessNoConfirmation(found, foundStatus) == IF found = NoIncident THEN "tail" ELSE "resolve"

\* Mutant: a healthy check only advances an incident nobody has identified.
SuccessSkipsIdentified(found, foundStatus) ==
    IF foundStatus = "MONITORING" THEN "resolve"
    ELSE IF foundStatus = "INVESTIGATING" THEN "monitor" ELSE "tail"

\* What a healthy check does next, from what it has read.
AfterSuccess(found, foundStatus) ==
    IF found = NoIncident THEN "tail"
    ELSE IF foundStatus = "MONITORING" THEN "resolve" ELSE "monitor"

\* Mutant: an incident that was found does not stop a new one.
FailureNoLookup(found, foundStatus, inMaintenance, failureCount) ==
    IF inMaintenance \/ failureCount < FailureThreshold THEN "return" ELSE "create"

\* What a failed check does next; an incident that is already open is
\* continued even in maintenance.
AfterFailure(found, foundStatus, inMaintenance, failureCount) ==
    IF found # NoIncident
    THEN IF foundStatus = "MONITORING" THEN "revert" ELSE "bump"
    ELSE IF inMaintenance \/ failureCount < FailureThreshold THEN "return" ELSE "create"

\* inActiveMaintenance is read last, and the job decides.
ReadMaintenance(w) ==
    /\ pc[w] = "maintenance"
    /\ LET next == IF isFailure(outcome[w])
                   THEN AfterFailure(seen[w], seenStatus[w], maintenance, count[w])
                   ELSE AfterSuccess(seen[w], seenStatus[w])
       IN IF next = "return" THEN Return(w) ELSE Goto(w, next)
    /\ UNCHANGED <<engineVars, outside>>

\* incident.update of the row the job has seen, whatever its status is by now.
WriteStatus(w, newStatus, next) ==
    /\ status' = [status EXCEPT ![seen[w]] = newStatus]
    /\ Goto(w, next)
    /\ UNCHANGED <<failcount, countVars, alertVars, outside>>

\* Mutant: the name of the timeline event is written as the status.
MarkMonitoringTypo(w) ==
    pc[w] = "monitor" /\ WriteStatus(w, "RECOVERED", "tail") /\ UNCHANGED resolvedAt

\* First healthy check: recovery confirmation starts.
MarkMonitoring(w) ==
    pc[w] = "monitor" /\ WriteStatus(w, "MONITORING", "tail") /\ UNCHANGED resolvedAt

\* Confirmed recovery: resolveIncident's transaction.
ResolveIncident(w) ==
    /\ pc[w] = "resolve"
    /\ WriteStatus(w, "RESOLVED", "recoveryAlert")
    /\ resolvedAt' = resolvedAt \cup {seen[w]}

SendRecoveryAlert(w) ==
    /\ pc[w] = "recoveryAlert"
    /\ recoveryAlerts' = recoveryAlerts \cup {seen[w]}
    /\ Goto(w, "tail")
    /\ UNCHANGED <<failcount, status, resolvedAt, countVars, downAlerts, outside>>

\* Mutant: the incident that failed again is announced again.
RevertReannounces(w) ==
    pc[w] = "revert" /\ WriteStatus(w, "INVESTIGATING", "downAlert") /\ UNCHANGED resolvedAt

\* Mutant: the check that sends the incident back is not counted.
RevertSkipsCount(w) ==
    pc[w] = "revert" /\ WriteStatus(w, "INVESTIGATING", "event") /\ UNCHANGED resolvedAt

\* Failing again while MONITORING: back to INVESTIGATING.
RevertToInvestigating(w) ==
    pc[w] = "revert" /\ WriteStatus(w, "INVESTIGATING", "bump") /\ UNCHANGED resolvedAt

\* Mutant: the row is sent back to INVESTIGATING by every further failure.
BumpReopens(w) ==
    /\ pc[w] = "bump"
    /\ failedCheckCount' = [failedCheckCount EXCEPT ![seen[w]] = @ + 1]
    /\ status' = [status EXCEPT ![seen[w]] = "INVESTIGATING"]
    /\ Goto(w, "event")
    /\ UNCHANGED <<failcount, resolvedAt, failedCheckEvents, alertVars, outside>>

\* failedCheckCount: { increment: 1 }, atomic in the database.
BumpFailedCheckCount(w) ==
    /\ pc[w] = "bump"
    /\ failedCheckCount' = [failedCheckCount EXCEPT ![seen[w]] = @ + 1]
    /\ Goto(w, "event")
    /\ UNCHANGED <<failcount, status, resolvedAt, failedCheckEvents, alertVars, outside>>

RecordFailedCheck(w) ==
    /\ pc[w] = "event"
    /\ failedCheckEvents' = [failedCheckEvents EXCEPT ![seen[w]] = @ + 1]
    /\ Return(w)
    /\ UNCHANGED <<failcount, status, resolvedAt, failedCheckCount, alertVars, outside>>

\* createIncident's transaction, on the next unused id.
InsertIncident(w, next) ==
    /\ \E i \in Incidents :
          /\ status[i] = "ABSENT" /\ \A j \in 1..(i - 1) : status[j] # "ABSENT"
          /\ status' = [status EXCEPT ![i] = "INVESTIGATING"]
          /\ failedCheckCount' = [failedCheckCount EXCEPT ![i] = count[w]]
          /\ seen' = [seen EXCEPT ![w] = i]
    /\ pc' = [pc EXCEPT ![w] = next]
    /\ UNCHANGED <<failcount, resolvedAt, failedCheckEvents, alertVars, outcome, count, seenStatus,
                   outside>>

\* Mutant: only a DOWN result is announced, a DEGRADED one opens in silence.
CreateAnnouncesDownOnly(w) ==
    pc[w] = "create" /\ InsertIncident(w, IF outcome[w] = "DOWN" THEN "downAlert" ELSE "tail")

CreateIncident(w) == pc[w] = "create" /\ InsertIncident(w, "downAlert")

SendDownAlert(w) ==
    /\ pc[w] = "downAlert"
    /\ downAlerts' = [downAlerts EXCEPT ![seen[w]] = @ + 1]
    /\ IF outcome[w] = "DOWN" THEN Goto(w, "tail") ELSE Return(w)
    /\ UNCHANGED <<failcount, status, resolvedAt, countVars, recoveryAlerts, outside>>

\* handleResponseTimeAnomaly and handleSsl, as one step: what they write (anomalies,
\* certificates, their own alerts) no handler of incidents reads.
Tail(w) ==
    /\ pc[w] = "tail"
    /\ Return(w)
    /\ UNCHANGED <<engineVars, outside>>

EngineStep(w) ==
    \/ CountOutcome(w) \/ FindActive(w) \/ ReadMaintenance(w)
    \/ MarkMonitoring(w) \/ ResolveIncident(w) \/ SendRecoveryAlert(w)
    \/ RevertToInvestigating(w) \/ BumpFailedCheckCount(w) \/ RecordFailedCheck(w)
    \/ CreateIncident(w) \/ SendDownAlert(w) \/ Tail(w)

\* A call threw or the process died: the rest of the attempt never happens.
Abort(w) ==
    /\ pc[w] # "idle"
    /\ aborts < MaxAborts
    /\ aborts' = aborts + 1
    /\ Return(w)
    /\ UNCHANGED <<engineVars, reqVars, maintenance, failures, requests>>

-----------------------------------------------------------------------------
(***************************************************************************)
(* The status endpoint, and the world.                                      *)
(***************************************************************************)

\* getIncident, and the test that the incident is not resolved (a request
\* about a resolved one throws CONFLICT and changes nothing).
ReadForStatus(r, i, s) ==
    /\ reqIncident[r] = NoIncident
    /\ requests < MaxRequests
    /\ status[i] \in ACTIVE_STATUSES
    /\ reqIncident' = [reqIncident EXCEPT ![r] = i]
    /\ reqStatus' = [reqStatus EXCEPT ![r] = s]
    /\ requests' = requests + 1
    /\ UNCHANGED <<engineVars, jobVars, maintenance, failures, aborts>>

\* The transaction that writes the status: it does not look at the row again.
UpdateIncidentStatus(r) ==
    /\ reqIncident[r] # NoIncident
    /\ status' = [status EXCEPT ![reqIncident[r]] = reqStatus[r]]
    /\ reqIncident' = [reqIncident EXCEPT ![r] = NoIncident]
    /\ reqStatus' = [reqStatus EXCEPT ![r] = "ABSENT"]
    /\ UNCHANGED <<failcount, resolvedAt, countVars, alertVars, jobVars, boundVars, maintenance>>

\* EXPIRE 3600: the counter disappears when no failure was counted for an hour.
CounterExpires ==
    /\ failcount > 0
    /\ failcount' = 0
    /\ UNCHANGED <<status, resolvedAt, countVars, alertVars, jobVars, outside>>

\* A maintenance window opens or closes.
MaintenanceToggles ==
    /\ maintenance' = ~maintenance
    /\ UNCHANGED <<engineVars, jobVars, reqVars, boundVars>>

\* Everything but a new result.
Other ==
    \/ \E w \in Workers : EngineStep(w) \/ Abort(w)
    \/ \E r \in Requests : \/ \E i \in Incidents, s \in ACTIVE_STATUSES : ReadForStatus(r, i, s)
                           \/ UpdateIncidentStatus(r)
    \/ CounterExpires
    \/ MaintenanceToggles

Next ==
    \/ \E w \in Workers, o \in ProbeOutcomes : StoreResult(w, o)
    \/ Other

Spec == Init /\ [][Next]_vars

\* Checks of the monitor keep coming (the scheduler re-arms nextCheckAt and
\* every claimed check is enqueued), and a running job takes its next step.
\* Nothing is assumed of targets, operators, faults and maintenance.
Fairness ==
    /\ WF_vars(\E w \in Workers, o \in ProbeOutcomes : StoreResult(w, o))
    /\ \A w \in Workers : WF_vars(EngineStep(w))

FairSpec == Spec /\ Fairness
=============================================================================
