--------------------------- MODULE IncidentProofs ---------------------------
(***************************************************************************)
(* Proofs about the incident engine, for any number of jobs, requests and   *)
(* incidents and any failure threshold; then about the engine whose jobs do *)
(* not overlap, and that it implements IncidentLifecycle.                   *)
(***************************************************************************)
EXTENDS IncidentProperties, IncidentSerial, FiniteSetTheorems, TLAPS

\* The assumptions on the constants, and the constant definitions, in the
\* form the proofs use them.
LEMMA IncidentIds == NoIncident \notin Incidents /\ IsFiniteSet(Incidents)
  BY BoundsAssumption, FS_Interval DEF Incidents, NoIncident

-----------------------------------------------------------------------------
\* Every variable keeps its type, and jobs and requests write only rows that
\* exist: the invariant every other proof starts from.
Base == TypeOK /\ RowsExist

LEMMA BaseInit == Init => Base
  BY BoundsAssumption
  DEF Init, Base, TypeOK, RowsExist, RowSteps, Steps, ACTIVE_STATUSES, NoIncident

LEMMA BaseStore ==
  ASSUME Base, NEW w \in Workers, NEW o \in ProbeOutcomes, StoreResult(w, o)
  PROVE  Base'
<1> USE DEF StoreResult, engineVars, countVars, alertVars, reqVars
<1>1. TypeOK'
  BY OutcomesAssumption, BoundsAssumption DEF Base, TypeOK, Steps, isFailure
<1>2. RowsExist'
  BY DEF Base, TypeOK, RowsExist, RowSteps
<1> QED
  BY <1>1, <1>2 DEF Base

LEMMA BaseEngine ==
  ASSUME Base, NEW w \in Workers, EngineStep(w)
  PROVE  Base'
<1> USE DEF Base, TypeOK, RowsExist, RowSteps, engineVars, countVars, alertVars, outside,
            reqVars, boundVars
<1>1. CASE CountOutcome(w)
  BY <1>1 DEF CountOutcome, Steps
<1>2. CASE FindActive(w)
  BY <1>2, IncidentIds DEF FindActive, Active, Steps, ACTIVE_STATUSES
<1>3. CASE ReadMaintenance(w)
  <2> DEFINE next == IF isFailure(outcome[w])
                     THEN AfterFailure(seen[w], seenStatus[w], maintenance, count[w])
                     ELSE AfterSuccess(seen[w], seenStatus[w])
  <2>1. CASE next = "return"
    BY <1>3, <2>1 DEF ReadMaintenance, Return, Steps, NoIncident
  <2>2. CASE next # "return"
    <3>1. Goto(w, next)
      BY <1>3, <2>2 DEF ReadMaintenance
    <3>2. next \in Steps /\ (next \in RowSteps => seen[w] # NoIncident)
      BY <2>2 DEF AfterSuccess, AfterFailure, Steps
    <3>3. UNCHANGED <<engineVars, outside>>
      BY <1>3 DEF ReadMaintenance
    <3> HIDE DEF next
    <3> QED
      BY <3>1, <3>2, <3>3 DEF Goto
  <2> QED
    BY <2>1, <2>2
<1>4. CASE MarkMonitoring(w)
  BY <1>4 DEF MarkMonitoring, WriteStatus, Goto, Steps, ACTIVE_STATUSES
<1>5. CASE ResolveIncident(w)
  BY <1>5 DEF ResolveIncident, WriteStatus, Goto, Steps, ACTIVE_STATUSES
<1>6. CASE SendRecoveryAlert(w)
  BY <1>6 DEF SendRecoveryAlert, Goto, Steps
<1>7. CASE RevertToInvestigating(w)
  BY <1>7 DEF RevertToInvestigating, WriteStatus, Goto, Steps, ACTIVE_STATUSES
<1>8. CASE BumpFailedCheckCount(w)
  BY <1>8 DEF BumpFailedCheckCount, Goto, Steps
<1>9. CASE RecordFailedCheck(w)
  BY <1>9 DEF RecordFailedCheck, Return, Steps, NoIncident
<1>10. CASE CreateIncident(w)
  BY <1>10, IncidentIds DEF CreateIncident, InsertIncident, Steps, ACTIVE_STATUSES
<1>11. CASE SendDownAlert(w)
  BY <1>11 DEF SendDownAlert, Goto, Return, Steps, NoIncident
<1>12. CASE Tail(w)
  BY <1>12 DEF Tail, Return, Steps, NoIncident
<1> QED
  BY <1>1, <1>2, <1>3, <1>4, <1>5, <1>6, <1>7, <1>8, <1>9, <1>10, <1>11, <1>12 DEF EngineStep

LEMMA BaseOther ==
  ASSUME Base, \/ \E w \in Workers : Abort(w)
               \/ \E r \in Requests, i \in Incidents, s \in ACTIVE_STATUSES : ReadForStatus(r, i, s)
               \/ \E r \in Requests : UpdateIncidentStatus(r)
               \/ CounterExpires \/ MaintenanceToggles \/ UNCHANGED vars
  PROVE  Base'
<1> USE DEF Base, TypeOK, RowsExist, RowSteps, vars, engineVars, countVars, alertVars, outside,
            jobVars, reqVars, boundVars
<1>1. ASSUME NEW w \in Workers, Abort(w) PROVE Base'
  BY <1>1, BoundsAssumption DEF Abort, Return, Steps, NoIncident
<1>2. ASSUME NEW r \in Requests, NEW i \in Incidents, NEW s \in ACTIVE_STATUSES,
             ReadForStatus(r, i, s)
      PROVE  Base'
  BY <1>2, BoundsAssumption DEF ReadForStatus, ACTIVE_STATUSES
<1>3. ASSUME NEW r \in Requests, UpdateIncidentStatus(r) PROVE Base'
  BY <1>3 DEF UpdateIncidentStatus, NoIncident, ACTIVE_STATUSES
<1>4. CASE CounterExpires
  BY <1>4 DEF CounterExpires
<1>5. CASE MaintenanceToggles
  BY <1>5 DEF MaintenanceToggles
<1>6. CASE UNCHANGED vars
  BY <1>6
<1> QED
  BY <1>1, <1>2, <1>3, <1>4, <1>5, <1>6

LEMMA BaseNext == Base /\ [Next]_vars => Base'
  BY BaseStore, BaseEngine, BaseOther DEF Next, Other

LEMMA BaseInvariant == Spec => []Base
<1>1. Init => Base
  BY BaseInit
<1>2. Base /\ [Next]_vars => Base'
  BY BaseNext
<1> QED
  BY <1>1, <1>2, PTL DEF Spec

\* Every variable keeps its type, whatever jobs, requests and faults do.
THEOREM TypeCorrect == Spec => []TypeOK
<1>1. Base => TypeOK
  BY DEF Base
<1> QED
  BY <1>1, BaseInvariant, PTL

\* Every write of a job or a request goes to an existing row.
THEOREM WritesExistingRows == Spec => []RowsExist
<1>1. Base => RowsExist
  BY DEF Base
<1> QED
  BY <1>1, BaseInvariant, PTL

-----------------------------------------------------------------------------
\* A resolved incident becomes active again only through an actor that had
\* read it while it was active.
LEMMA ReopenStep ==
  ASSUME Base, [Next]_vars, NEW i \in Incidents, status[i] = "RESOLVED",
         status'[i] \in ACTIVE_STATUSES
  PROVE  i \in Stale
<1> USE DEF Base, TypeOK, ACTIVE_STATUSES
<1>1. ASSUME NEW w \in Workers, EngineStep(w) PROVE i \in Stale
  <2>1. CASE MarkMonitoring(w) \/ RevertToInvestigating(w)
    BY <2>1 DEF MarkMonitoring, RevertToInvestigating, WriteStatus, Stale, HoldsStale
  <2>2. CASE ResolveIncident(w)
    BY <2>2 DEF ResolveIncident, WriteStatus
  <2>3. CASE CreateIncident(w)
    BY <2>3 DEF CreateIncident, InsertIncident
  <2>4. CASE UNCHANGED status
    BY <2>4
  <2> QED
    BY <1>1, <2>1, <2>2, <2>3, <2>4
       DEF EngineStep, CountOutcome, FindActive, ReadMaintenance, SendRecoveryAlert,
           BumpFailedCheckCount, RecordFailedCheck, SendDownAlert, Tail, engineVars
<1>2. ASSUME NEW r \in Requests, UpdateIncidentStatus(r) PROVE i \in Stale
  BY <1>2 DEF UpdateIncidentStatus, Stale
<1>3. CASE UNCHANGED status
  BY <1>3
<1> QED
  BY <1>1, <1>2, <1>3
     DEF Next, Other, StoreResult, Abort, ReadForStatus, CounterExpires, MaintenanceToggles,
         engineVars, vars

\* A resolved incident is reopened only by who read it while it was active.
THEOREM ReopenedOnlyByStale == Spec => ReopenedOnlyByStaleWriter
<1>1. Base /\ [Next]_vars =>
        [\A i \in Incidents :
            (status[i] = "RESOLVED" /\ status'[i] \in ACTIVE_STATUSES) => i \in Stale]_vars
  BY ReopenStep
<1> QED
  BY <1>1, BaseInvariant, PTL DEF Spec, ReopenedOnlyByStaleWriter

-----------------------------------------------------------------------------
\* An incident is announced at most once.  The job that created it is the
\* only one that ever waits to announce it, and it has not done so yet.
Announcing ==
    /\ OneDownAlertPerIncident
    /\ \A i \in Incidents : status[i] = "ABSENT" => downAlerts[i] = 0
    /\ \A w \in Workers : pc[w] = "downAlert" => downAlerts[seen[w]] = 0
    /\ \A v, w \in Workers :
          pc[v] = "downAlert" /\ pc[w] = "downAlert" /\ seen[v] = seen[w] => v = w

LEMMA AnnouncingEngine ==
  ASSUME Base, Announcing, NEW w \in Workers, EngineStep(w)
  PROVE  Announcing'
<1> USE DEF Base, TypeOK, Announcing, OneDownAlertPerIncident, engineVars, countVars, alertVars
<1>1. CASE CreateIncident(w)
  BY <1>1, IncidentIds DEF CreateIncident, InsertIncident, RowsExist, RowSteps
<1>2. CASE SendDownAlert(w)
  BY <1>2, IncidentIds DEF SendDownAlert, Goto, Return, RowsExist, RowSteps
<1>3. CASE MarkMonitoring(w) \/ ResolveIncident(w) \/ RevertToInvestigating(w)
  BY <1>3 DEF MarkMonitoring, ResolveIncident, RevertToInvestigating, WriteStatus, Goto, RowsExist, RowSteps
<1>4. CASE CountOutcome(w) \/ SendRecoveryAlert(w) \/ BumpFailedCheckCount(w)
  BY <1>4 DEF CountOutcome, SendRecoveryAlert, BumpFailedCheckCount, Goto
<1>5. CASE FindActive(w)
  BY <1>5 DEF FindActive
<1>6. CASE ReadMaintenance(w)
  BY <1>6 DEF ReadMaintenance, Goto, Return, AfterSuccess, AfterFailure
<1>7. CASE RecordFailedCheck(w) \/ Tail(w)
  BY <1>7 DEF RecordFailedCheck, Tail, Return
<1> QED
  BY <1>1, <1>2, <1>3, <1>4, <1>5, <1>6, <1>7 DEF EngineStep

LEMMA AnnouncingNext == Base /\ Announcing /\ [Next]_vars => Announcing'
<1> SUFFICES ASSUME Base, Announcing, [Next]_vars PROVE Announcing'
  OBVIOUS
<1> USE DEF Base, TypeOK, Announcing, OneDownAlertPerIncident, engineVars, countVars, alertVars,
            jobVars
<1>1. ASSUME NEW w \in Workers, NEW o \in ProbeOutcomes, StoreResult(w, o) PROVE Announcing'
  BY <1>1 DEF StoreResult
<1>2. ASSUME NEW w \in Workers, Abort(w) PROVE Announcing'
  BY <1>2 DEF Abort, Return
<1>3. ASSUME NEW r \in Requests, UpdateIncidentStatus(r) PROVE Announcing'
  BY <1>3 DEF UpdateIncidentStatus, RowsExist, ACTIVE_STATUSES
<1>4. CASE UNCHANGED <<status, downAlerts, jobVars>>
  BY <1>4
<1> QED
  BY <1>1, <1>2, <1>3, <1>4, AnnouncingEngine
     DEF Next, Other, ReadForStatus, CounterExpires, MaintenanceToggles, vars

\* No incident is handed to sendAlert as DOWN twice.
THEOREM AnnouncedAtMostOnce == Spec => []OneDownAlertPerIncident
<1>1. Init => Announcing
  BY DEF Init, Announcing, OneDownAlertPerIncident
<1>2. Base /\ Announcing /\ [Next]_vars => Announcing'
  BY AnnouncingNext
<1>3. Announcing => OneDownAlertPerIncident
  BY DEF Announcing
<1> QED
  BY <1>1, <1>2, <1>3, BaseInvariant, PTL DEF Spec

-----------------------------------------------------------------------------
\* Adding a job to a set of jobs, or taking one away, moves its size by one.
LEMMA JobSets ==
  ASSUME NEW S \in SUBSET Workers
  PROVE  /\ IsFiniteSet(S) /\ Cardinality(S) \in Nat
         /\ \A w \in Workers : w \notin S => Cardinality(S \cup {w}) = Cardinality(S) + 1
         /\ \A w \in S : Cardinality(S \ {w}) = Cardinality(S) - 1
<1>1. IsFiniteSet(S)
  BY WorkersAssumption, FS_Subset
<1> QED
  BY <1>1, FS_CardinalityType, FS_AddElement, FS_RemoveElement

\* No failed check is lost.  A job creates an incident only with enough
\* failures in its hands, and each increment is followed by its event.
Counted ==
    /\ EveryFailureCounted
    /\ \A w \in Workers : pc[w] = "create" => count[w] >= FailureThreshold
    /\ \A i \in Incidents : status[i] = "ABSENT" => failedCheckEvents[i] = 0

LEMMA CountedRevert ==
  ASSUME Base, Counted, NEW w \in Workers, BumpFailedCheckCount(w) \/ RecordFailedCheck(w)
  PROVE  EveryFailureCounted'
<1> USE DEF Base, TypeOK
<1> SUFFICES ASSUME NEW i \in Incidents, status'[i] # "ABSENT"
             PROVE  FailureThreshold + failedCheckEvents'[i] + Cardinality(Unrecorded(i)')
                      <= failedCheckCount'[i]
  BY DEF EveryFailureCounted
<1>1. /\ status[i] # "ABSENT"
      /\ FailureThreshold + failedCheckEvents[i] + Cardinality(Unrecorded(i)) <= failedCheckCount[i]
  BY DEF Counted, EveryFailureCounted, BumpFailedCheckCount, RecordFailedCheck
<1>2. Unrecorded(i) \in SUBSET Workers
  BY DEF Unrecorded
<1>3. CASE BumpFailedCheckCount(w) /\ seen[w] = i
  <2>1. w \notin Unrecorded(i) /\ Unrecorded(i)' = Unrecorded(i) \cup {w}
    BY <1>3 DEF BumpFailedCheckCount, Goto, Unrecorded
  <2>2. failedCheckCount'[i] = failedCheckCount[i] + 1 /\ failedCheckEvents'[i] = failedCheckEvents[i]
    BY <1>3 DEF BumpFailedCheckCount
  <2> QED
    BY <1>1, <1>2, <2>1, <2>2, JobSets, ThresholdAssumption
<1>4. CASE RecordFailedCheck(w) /\ seen[w] = i
  <2>1. w \in Unrecorded(i) /\ Unrecorded(i)' = Unrecorded(i) \ {w}
    BY <1>4 DEF RecordFailedCheck, Return, Unrecorded
  <2>2. failedCheckCount'[i] = failedCheckCount[i] /\ failedCheckEvents'[i] = failedCheckEvents[i] + 1
    BY <1>4 DEF RecordFailedCheck
  <2> QED
    BY <1>1, <1>2, <2>1, <2>2, JobSets, ThresholdAssumption
<1>5. CASE seen[w] # i
  <2>1. Unrecorded(i)' = Unrecorded(i)
    BY <1>5 DEF BumpFailedCheckCount, RecordFailedCheck, Goto, Return, Unrecorded
  <2>2. failedCheckCount'[i] = failedCheckCount[i] /\ failedCheckEvents'[i] = failedCheckEvents[i]
    BY <1>5 DEF BumpFailedCheckCount, RecordFailedCheck
  <2> QED
    BY <1>1, <2>1, <2>2
<1> QED
  BY <1>3, <1>4, <1>5

LEMMA CountedCreate ==
  ASSUME Base, Counted, NEW w \in Workers, CreateIncident(w)
  PROVE  EveryFailureCounted'
<1> USE DEF Base, TypeOK
<1> SUFFICES ASSUME NEW i \in Incidents, status'[i] # "ABSENT"
             PROVE  FailureThreshold + failedCheckEvents'[i] + Cardinality(Unrecorded(i)')
                      <= failedCheckCount'[i]
  BY DEF EveryFailureCounted
<1>1. Unrecorded(i)' = Unrecorded(i)
  BY DEF CreateIncident, InsertIncident, Unrecorded
<1>2. CASE status[i] # "ABSENT"
  <2>1. failedCheckCount'[i] = failedCheckCount[i] /\ failedCheckEvents'[i] = failedCheckEvents[i]
    BY <1>2 DEF CreateIncident, InsertIncident
  <2> QED
    BY <1>1, <1>2, <2>1 DEF Counted, EveryFailureCounted
<1>3. CASE status[i] = "ABSENT"
  <2>1. Unrecorded(i) = {}
    BY <1>3, IncidentIds DEF Unrecorded, RowsExist, RowSteps
  <2>2. failedCheckCount'[i] = count[w] /\ failedCheckEvents'[i] = 0
    BY <1>3 DEF CreateIncident, InsertIncident, Counted
  <2>3. count[w] \in Nat /\ count[w] >= FailureThreshold
    BY DEF CreateIncident, Counted
  <2> QED
    BY <1>1, <2>1, <2>2, <2>3, FS_EmptySet, ThresholdAssumption
<1> QED
  BY <1>2, <1>3

LEMMA CountedRest ==
  ASSUME Base, Counted, NEW w \in Workers,
         \/ CountOutcome(w) \/ FindActive(w) \/ ReadMaintenance(w) \/ MarkMonitoring(w)
         \/ ResolveIncident(w) \/ SendRecoveryAlert(w) \/ RevertToInvestigating(w)
         \/ SendDownAlert(w) \/ Tail(w)
  PROVE  EveryFailureCounted'
<1> USE DEF Base, TypeOK, countVars, engineVars
<1>1. \A i \in Incidents : Unrecorded(i)' = Unrecorded(i)
  BY DEF Unrecorded, CountOutcome, FindActive, ReadMaintenance, MarkMonitoring, ResolveIncident,
         SendRecoveryAlert, RevertToInvestigating, SendDownAlert, Tail, WriteStatus, Goto, Return,
         AfterSuccess, AfterFailure
<1>2. UNCHANGED countVars
  BY DEF CountOutcome, FindActive, ReadMaintenance, MarkMonitoring, ResolveIncident,
         SendRecoveryAlert, RevertToInvestigating, SendDownAlert, Tail, WriteStatus
<1>3. \A i \in Incidents : status'[i] # "ABSENT" => status[i] # "ABSENT"
  BY DEF CountOutcome, FindActive, ReadMaintenance, MarkMonitoring, ResolveIncident,
         SendRecoveryAlert, RevertToInvestigating, SendDownAlert, Tail, WriteStatus,
         RowsExist, RowSteps
<1> QED
  BY <1>1, <1>2, <1>3 DEF Counted, EveryFailureCounted

LEMMA CountedNext == Base /\ Counted /\ [Next]_vars => Counted'
<1> SUFFICES ASSUME Base, Counted, [Next]_vars PROVE Counted'
  OBVIOUS
<1> USE DEF Base, TypeOK
<1>1. ASSUME NEW w \in Workers, EngineStep(w) PROVE Counted'
  <2>1. EveryFailureCounted'
    BY <1>1, CountedRevert, CountedCreate, CountedRest DEF EngineStep
  <2>2. \A v \in Workers : pc'[v] = "create" => count'[v] >= FailureThreshold
    <3> USE DEF Counted, countVars, alertVars, engineVars
    <3>1. CASE ReadMaintenance(w)
      BY <3>1, ThresholdAssumption DEF ReadMaintenance, Goto, Return, AfterSuccess, AfterFailure
    <3>2. CASE CountOutcome(w) \/ FindActive(w) \/ CreateIncident(w)
      BY <3>2 DEF CountOutcome, FindActive, CreateIncident, InsertIncident
    <3>3. CASE \/ MarkMonitoring(w) \/ ResolveIncident(w) \/ SendRecoveryAlert(w)
               \/ RevertToInvestigating(w) \/ BumpFailedCheckCount(w)
      BY <3>3 DEF MarkMonitoring, ResolveIncident, SendRecoveryAlert, RevertToInvestigating,
                  BumpFailedCheckCount, WriteStatus, Goto
    <3>4. CASE RecordFailedCheck(w) \/ SendDownAlert(w) \/ Tail(w)
      BY <3>4 DEF RecordFailedCheck, SendDownAlert, Tail, Goto, Return
    <3> QED
      BY <1>1, <3>1, <3>2, <3>3, <3>4 DEF EngineStep
  <2>3. \A i \in Incidents : status'[i] = "ABSENT" => failedCheckEvents'[i] = 0
    <3> USE DEF Counted, countVars, alertVars, engineVars
    <3>1. CASE RecordFailedCheck(w)
      BY <3>1, IncidentIds DEF RecordFailedCheck, RowsExist, RowSteps
    <3>2. CASE CreateIncident(w)
      BY <3>2 DEF CreateIncident, InsertIncident
    <3>3. CASE MarkMonitoring(w) \/ ResolveIncident(w) \/ RevertToInvestigating(w)
      BY <3>3, IncidentIds
         DEF MarkMonitoring, ResolveIncident, RevertToInvestigating, WriteStatus
    <3>4. CASE UNCHANGED <<status, failedCheckEvents>>
      BY <3>4
    <3> QED
      BY <1>1, <3>1, <3>2, <3>3, <3>4
         DEF EngineStep, CountOutcome, FindActive, ReadMaintenance, SendRecoveryAlert,
             BumpFailedCheckCount, SendDownAlert, Tail
  <2> QED
    BY <2>1, <2>2, <2>3 DEF Counted
<1>2. ASSUME NEW w \in Workers, NEW o \in ProbeOutcomes, StoreResult(w, o) PROVE Counted'
  <2>1. \A i \in Incidents : Unrecorded(i)' = Unrecorded(i)
    BY <1>2 DEF StoreResult, Unrecorded
  <2> QED
    BY <1>2, <2>1 DEF StoreResult, Counted, EveryFailureCounted, engineVars, countVars
<1>3. ASSUME NEW w \in Workers, Abort(w) PROVE Counted'
  <2>1. ASSUME NEW i \in Incidents
        PROVE  /\ Cardinality(Unrecorded(i)) \in Nat /\ Cardinality(Unrecorded(i)') \in Nat
               /\ Cardinality(Unrecorded(i)') <= Cardinality(Unrecorded(i))
    <3>1. /\ Unrecorded(i) \in SUBSET Workers /\ Unrecorded(i)' \in SUBSET Workers
          /\ Unrecorded(i)' \in SUBSET Unrecorded(i)
      BY <1>3 DEF Abort, Return, Unrecorded
    <3> QED
      BY <3>1, JobSets, FS_Subset
  <2>4. UNCHANGED <<status, failedCheckCount, failedCheckEvents>>
    BY <1>3 DEF Abort, engineVars, countVars
  <2>5. EveryFailureCounted'
    BY <2>1, <2>4, ThresholdAssumption DEF Counted, EveryFailureCounted
  <2> QED
    BY <1>3, <2>4, <2>5 DEF Counted, Abort, Return
<1>4. ASSUME NEW r \in Requests, UpdateIncidentStatus(r) PROVE Counted'
  <2>1. \A i \in Incidents : Unrecorded(i)' = Unrecorded(i)
    BY <1>4 DEF UpdateIncidentStatus, Unrecorded, jobVars
  <2>2. \A i \in Incidents : status'[i] = "ABSENT" <=> status[i] = "ABSENT"
    BY <1>4 DEF UpdateIncidentStatus, RowsExist, ACTIVE_STATUSES
  <2> QED
    BY <1>4, <2>1, IncidentIds, <2>2
       DEF UpdateIncidentStatus, Counted, EveryFailureCounted, jobVars, countVars
<1>5. CASE UNCHANGED <<status, countVars, jobVars>>
  BY <1>5 DEF Counted, EveryFailureCounted, Unrecorded, countVars, jobVars
<1> QED
  BY <1>1, <1>2, <1>3, <1>4, <1>5
     DEF Next, Other, ReadForStatus, CounterExpires, MaintenanceToggles, engineVars, vars

\* Overlapping jobs lose no failed check of an incident.
THEOREM FailuresCounted == Spec => []EveryFailureCounted
<1>1. Init => Counted
  BY DEF Init, Counted, EveryFailureCounted
<1>2. Base /\ Counted /\ [Next]_vars => Counted'
  BY CountedNext
<1>3. Counted => EveryFailureCounted
  BY DEF Counted
<1> QED
  BY <1>1, <1>2, <1>3, BaseInvariant, PTL DEF Spec

-----------------------------------------------------------------------------
\* The bound on open incidents.  Jobs that hold a row and jobs that will
\* create one are different jobs, and every row held is held by somebody.
Charged == Cardinality(Stale) + Cardinality(Opening) <= Cardinality(Workers) + Cardinality(Requests)

LEMMA Charge == Base => Charged
<1> SUFFICES ASSUME Base PROVE Charged
  OBVIOUS
<1> USE DEF Base, TypeOK
<1> DEFINE Holding == {w \in Workers : \E i \in Incidents : HoldsStale(w, i)}
           Asking  == {r \in Requests : reqIncident[r] \in Incidents}
           Held    == {i \in Incidents : \E w \in Workers : HoldsStale(w, i)}
           Asked   == {i \in Incidents : \E r \in Requests : reqIncident[r] = i}
<1>1. /\ IsFiniteSet(Holding) /\ IsFiniteSet(Opening) /\ IsFiniteSet(Workers)
      /\ IsFiniteSet(Asking) /\ IsFiniteSet(Requests)
      /\ Cardinality(Asking) <= Cardinality(Requests)
  BY WorkersAssumption, FS_Subset DEF Opening
<1>2. IsFiniteSet(Held) /\ Cardinality(Held) <= Cardinality(Holding)
  <2> DEFINE f == [w \in Holding |-> seen[w]]
  <2>1. f \in Surjection(Holding, Held)
    BY DEF Surjection, HoldsStale
  <2> QED
    BY <1>1, <2>1, FS_Surjection
<1>3. IsFiniteSet(Asked) /\ Cardinality(Asked) <= Cardinality(Asking)
  <2> DEFINE g == [r \in Asking |-> reqIncident[r]]
  <2>1. g \in Surjection(Asking, Asked)
    BY DEF Surjection
  <2> QED
    BY <1>1, <2>1, FS_Surjection
<1>4. Cardinality(Holding) + Cardinality(Opening) <= Cardinality(Workers)
  <2>1. Holding \cap Opening = {}
    BY IncidentIds DEF HoldsStale, Opening, WillOpen
  <2>2. Holding \cup Opening \in SUBSET Workers
    BY DEF Opening
  <2>3. Cardinality(Holding \cup Opening) = Cardinality(Holding) + Cardinality(Opening)
    <3>1. Cardinality(Holding \cap Opening) = 0
      BY <2>1, FS_EmptySet
    <3> HIDE DEF Holding
    <3>2. Cardinality(Holding \cup Opening)
            = Cardinality(Holding) + Cardinality(Opening) - Cardinality(Holding \cap Opening)
      BY <1>1, FS_Union
    <3>3. Cardinality(Holding) \in Nat /\ Cardinality(Opening) \in Nat
      BY <1>1, FS_CardinalityType
    <3> QED
      BY <3>1, <3>2, <3>3
  <2> QED
    BY <1>1, <2>2, <2>3, FS_Subset
<1>5. Cardinality(Stale) <= Cardinality(Held) + Cardinality(Asked)
  <2>1. Stale = Held \cup Asked
    BY DEF Stale
  <2>2. Cardinality(Held \cap Asked) \in Nat
    BY <1>2, FS_Intersection, FS_CardinalityType
  <2> HIDE DEF Held, Asked
  <2>3. Cardinality(Held \cup Asked)
          = Cardinality(Held) + Cardinality(Asked) - Cardinality(Held \cap Asked)
    BY <1>2, <1>3, FS_Union
  <2>4. Cardinality(Held) \in Nat /\ Cardinality(Asked) \in Nat
    BY <1>2, <1>3, FS_CardinalityType
  <2> QED
    BY <2>1, <2>2, <2>3, <2>4
<1>6. /\ Cardinality(Held) \in Nat /\ Cardinality(Holding) \in Nat /\ Cardinality(Asked) \in Nat
      /\ Cardinality(Asking) \in Nat /\ Cardinality(Opening) \in Nat
      /\ Cardinality(Workers) \in Nat /\ Cardinality(Requests) \in Nat
  BY <1>1, <1>2, <1>3, FS_CardinalityType
<1>7. IsFiniteSet(Stale) /\ Cardinality(Stale) \in Nat
  BY IncidentIds, FS_Subset, FS_CardinalityType DEF Stale
<1> HIDE DEF Held, Holding, Asked, Asking
<1> QED
  BY <1>1, <1>2, <1>3, <1>4, <1>5, <1>6, <1>7 DEF Charged

LEMMA Sizes ==
  ASSUME Base
  PROVE  /\ IsFiniteSet(Active \cup Stale) /\ IsFiniteSet(Opening)
         /\ Cardinality(Active \cup Stale) \in Nat /\ Cardinality(Opening) \in Nat
         /\ Cardinality(Workers) \in Nat /\ Cardinality(Requests) \in Nat
<1>1. IsFiniteSet(Active \cup Stale) /\ IsFiniteSet(Opening)
  <2>1. Active \cup Stale \in SUBSET Incidents /\ Opening \in SUBSET Workers
    BY DEF Active, Stale, Opening
  <2> QED
    BY <2>1, IncidentIds, WorkersAssumption, FS_Subset
<1> QED
  BY <1>1, WorkersAssumption, FS_CardinalityType

\* Steps that expose no further row and let no further job create one.
LEMMA ExposureShrinks ==
  ASSUME Base, ExposureBounded, (Active \cup Stale)' \subseteq Active \cup Stale,
         Opening' \subseteq Opening
  PROVE  ExposureBounded'
<1> DEFINE E == Active \cup Stale
           F == (Active \cup Stale)'
<1>1. Cardinality(F) <= Cardinality(E) /\ Cardinality(F) \in Nat
  BY Sizes, FS_Subset, FS_CardinalityType
<1>2. Cardinality(Opening') <= Cardinality(Opening) /\ Cardinality(Opening') \in Nat
  BY Sizes, FS_Subset, FS_CardinalityType
<1> QED
  BY <1>1, <1>2, Sizes DEF ExposureBounded

\* A job creates an incident: it is no longer about to.
LEMMA ExposureCreate ==
  ASSUME Base, Charged', ExposureBounded, NEW w \in Workers, CreateIncident(w)
  PROVE  ExposureBounded'
<1> USE DEF Base, TypeOK
<1> PICK i \in Incidents : /\ status' = [status EXCEPT ![i] = "INVESTIGATING"]
                          /\ seen' = [seen EXCEPT ![w] = i]
  BY DEF CreateIncident, InsertIncident
<1>1. w \in Opening /\ Opening' \subseteq Opening \ {w}
  BY DEF CreateIncident, InsertIncident, Opening, WillOpen
<1>2. Active' \subseteq Active \cup {i}
  BY DEF Active
<1>3. Stale' \subseteq Stale
  BY DEF CreateIncident, InsertIncident, Stale, HoldsStale, outside, reqVars
<1> DEFINE E == Active \cup Stale
           F == (Active \cup Stale)'
<1>4. F \subseteq E \cup {i}
  BY <1>2, <1>3
<1>5. IsFiniteSet(E) /\ Cardinality(E) \in Nat
  BY Sizes
<1> HIDE DEF E, F
<1>6. Cardinality(F) <= Cardinality(E) + 1 /\ Cardinality(F) \in Nat
  <2>0. /\ IsFiniteSet(E \cup {i})
        /\ Cardinality(E \cup {i}) = IF i \in E THEN Cardinality(E) ELSE Cardinality(E) + 1
    BY <1>5, FS_AddElement
  <2>1. IsFiniteSet(E \cup {i}) /\ Cardinality(E \cup {i}) <= Cardinality(E) + 1
    BY <1>5, <2>0
  <2>2. IsFiniteSet(F) /\ Cardinality(F) <= Cardinality(E \cup {i})
    BY <1>4, <2>1, FS_Subset
  <2>3. Cardinality(F) \in Nat /\ Cardinality(E \cup {i}) \in Nat
    BY <2>1, <2>2, FS_CardinalityType
  <2> QED
    BY <1>5, <2>1, <2>2, <2>3
<1>7. Cardinality(Opening') <= Cardinality(Opening) - 1 /\ Cardinality(Opening') \in Nat
  <2>1. IsFiniteSet(Opening \ {w}) /\ Cardinality(Opening \ {w}) = Cardinality(Opening) - 1
    BY <1>1, Sizes, FS_RemoveElement
  <2> QED
    BY <1>1, <2>1, FS_Subset, FS_CardinalityType
<1>8. ExposureBounded' <=> Cardinality(F) + Cardinality(Opening')
                             <= Cardinality(Workers) + Cardinality(Requests)
  BY DEF ExposureBounded, F
<1>9. Cardinality(E) + Cardinality(Opening) <= Cardinality(Workers) + Cardinality(Requests)
  BY DEF ExposureBounded, E
<1>10. Cardinality(E) \in Nat /\ Cardinality(Opening) \in Nat
       /\ Cardinality(Workers) \in Nat /\ Cardinality(Requests) \in Nat
  BY Sizes DEF E
<1> QED
  BY <1>6, <1>7, <1>8, <1>9, <1>10

LEMMA ExposureEngine ==
  ASSUME Base, Charged', ExposureBounded, NEW w \in Workers, EngineStep(w)
  PROVE  ExposureBounded'
<1> USE DEF Base, TypeOK, engineVars, outside, reqVars
<1>1. CASE CreateIncident(w)
  BY <1>1, ExposureCreate
<1>2. CASE FindActive(w) /\ Active = {}
  <2>1. Active' = {}
    BY <1>2 DEF FindActive, Active
  <2>2. (Active \cup Stale)' = Stale'
    BY <2>1
  <2> QED
    BY <2>2 DEF ExposureBounded, Charged
<1>3. CASE FindActive(w) /\ Active # {}
  <2>1. PICK i \in Active : seen' = [seen EXCEPT ![w] = i]
    BY <1>3 DEF FindActive
  <2>2. (Active \cup Stale)' \subseteq Active \cup Stale
    BY <1>3, <2>1 DEF FindActive, Active, Stale, HoldsStale
  <2>3. Opening' \subseteq Opening
    BY <1>3, <2>1, IncidentIds DEF FindActive, Active, Opening, WillOpen
  <2> QED
    BY <2>2, <2>3, ExposureShrinks
<1>4. CASE ReadMaintenance(w)
  <2>1. (Active \cup Stale)' \subseteq Active \cup Stale
    BY <1>4, IncidentIds DEF ReadMaintenance, Goto, Return, Active, Stale, HoldsStale
  <2>2. Opening' \subseteq Opening
    BY <1>4 DEF ReadMaintenance, Goto, Return, Opening, WillOpen, AfterSuccess, AfterFailure
  <2> QED
    BY <2>1, <2>2, ExposureShrinks
<1>5. CASE MarkMonitoring(w) \/ ResolveIncident(w) \/ RevertToInvestigating(w)
  <2>1. (Active \cup Stale)' \subseteq Active \cup Stale
    <3>1. Stale' \subseteq Stale
      BY <1>5 DEF MarkMonitoring, ResolveIncident, RevertToInvestigating, WriteStatus, Goto, Stale,
                  HoldsStale
    <3>2. Active' \subseteq Active \cup Stale
      BY <1>5 DEF MarkMonitoring, ResolveIncident, RevertToInvestigating, WriteStatus, Active,
                  Stale, HoldsStale, ACTIVE_STATUSES
    <3> QED
      BY <3>1, <3>2
  <2>2. Opening' \subseteq Opening
    BY <1>5 DEF MarkMonitoring, ResolveIncident, RevertToInvestigating, WriteStatus, Goto, Opening,
                WillOpen
  <2> QED
    BY <2>1, <2>2, ExposureShrinks
<1>6. CASE \/ CountOutcome(w) \/ SendRecoveryAlert(w) \/ BumpFailedCheckCount(w)
           \/ RecordFailedCheck(w) \/ SendDownAlert(w) \/ Tail(w)
  <2>1. (Active \cup Stale)' \subseteq Active \cup Stale
    BY <1>6 DEF CountOutcome, SendRecoveryAlert, BumpFailedCheckCount, RecordFailedCheck,
                SendDownAlert, Tail, Goto, Return, Active, Stale, HoldsStale
  <2>2. Opening' \subseteq Opening
    BY <1>6 DEF CountOutcome, SendRecoveryAlert, BumpFailedCheckCount, RecordFailedCheck,
                SendDownAlert, Tail, Goto, Return, Opening, WillOpen
  <2> QED
    BY <2>1, <2>2, ExposureShrinks
<1> QED
  BY <1>1, <1>2, <1>3, <1>4, <1>5, <1>6 DEF EngineStep

LEMMA ExposureNext == Base /\ Charged' /\ ExposureBounded /\ [Next]_vars => ExposureBounded'
<1> SUFFICES ASSUME Base, Charged', ExposureBounded, [Next]_vars PROVE ExposureBounded'
  OBVIOUS
<1> USE DEF Base, TypeOK, engineVars, jobVars, reqVars
<1>1. ASSUME NEW w \in Workers, NEW o \in ProbeOutcomes, StoreResult(w, o) PROVE ExposureBounded'
  <2>1. (Active \cup Stale)' \subseteq Active \cup Stale /\ Opening' \subseteq Opening
    BY <1>1 DEF StoreResult, Active, Stale, HoldsStale, Opening, WillOpen
  <2> QED
    BY <2>1, ExposureShrinks
<1>2. ASSUME NEW w \in Workers, Abort(w) PROVE ExposureBounded'
  <2>1. (Active \cup Stale)' \subseteq Active \cup Stale /\ Opening' \subseteq Opening
    BY <1>2 DEF Abort, Return, Active, Stale, HoldsStale, Opening, WillOpen
  <2> QED
    BY <2>1, ExposureShrinks
<1>3. ASSUME NEW r \in Requests, NEW i \in Incidents, NEW s \in ACTIVE_STATUSES,
             ReadForStatus(r, i, s)
      PROVE  ExposureBounded'
  <2>1. (Active \cup Stale)' \subseteq Active \cup Stale /\ Opening' \subseteq Opening
    BY <1>3 DEF ReadForStatus, Active, Stale, HoldsStale, Opening, WillOpen
  <2> QED
    BY <2>1, ExposureShrinks
<1>4. ASSUME NEW r \in Requests, UpdateIncidentStatus(r) PROVE ExposureBounded'
  <2>1. (Active \cup Stale)' \subseteq Active \cup Stale /\ Opening' \subseteq Opening
    BY <1>4, IncidentIds
       DEF UpdateIncidentStatus, Active, Stale, HoldsStale, Opening, WillOpen, NoIncident
  <2> QED
    BY <2>1, ExposureShrinks
<1>5. CASE UNCHANGED <<status, jobVars, reqVars>>
  BY <1>5 DEF ExposureBounded, Active, Stale, HoldsStale, Opening, WillOpen
<1> QED
  BY <1>1, <1>2, <1>3, <1>4, <1>5, ExposureEngine
     DEF Next, Other, CounterExpires, MaintenanceToggles, outside, vars

\* However jobs and requests overlap, exposed rows and pending creations are
\* bounded by the number of actors.
THEOREM ExposureIsBounded == Spec => []ExposureBounded
<1>1. Init => ExposureBounded
  <2> SUFFICES ASSUME Init PROVE ExposureBounded
    OBVIOUS
  <2>1. Active \cup Stale = {} /\ Opening = {}
    BY IncidentIds DEF Init, Active, Stale, HoldsStale, Opening, WillOpen, ACTIVE_STATUSES
  <2>2. Cardinality(Active \cup Stale) = 0 /\ Cardinality(Opening) = 0
    BY <2>1, FS_EmptySet
  <2>3. Cardinality(Workers) \in Nat /\ Cardinality(Requests) \in Nat
    BY WorkersAssumption, FS_CardinalityType
  <2> QED
    BY <2>2, <2>3 DEF ExposureBounded
<1>2. Base /\ Charged' /\ ExposureBounded /\ [Next]_vars => ExposureBounded'
  BY ExposureNext
<1> QED
  BY <1>1, <1>2, BaseInvariant, Charge, PTL DEF Spec

\* There are never more open incidents of a monitor than jobs and requests
\* in progress.
THEOREM OpenIncidentsAreBounded == Spec => []OpenIncidentsBounded
<1>1. Base /\ ExposureBounded => OpenIncidentsBounded
  <2> SUFFICES ASSUME Base, ExposureBounded PROVE OpenIncidentsBounded
    OBVIOUS
  <2> DEFINE E == Active \cup Stale
  <2>1. IsFiniteSet(Active) /\ Cardinality(Active) <= Cardinality(E) /\ Cardinality(Active) \in Nat
    BY Sizes, FS_Subset, FS_CardinalityType
  <2> QED
    BY <2>1, Sizes DEF ExposureBounded, OpenIncidentsBounded
<1> QED
  BY <1>1, BaseInvariant, ExposureIsBounded, PTL

\* One job at a time and no status request: at most one incident is open,
\* which is what findFirst of the active incident takes for granted.
COROLLARY OneOpenIncidentPerMonitor ==
  ASSUME Cardinality(Workers) = 1, Requests = {}
  PROVE  Spec => [](\A i, j \in Active : i = j)
<1>1. Base /\ OpenIncidentsBounded => \A i, j \in Active : i = j
  <2> SUFFICES ASSUME Base, OpenIncidentsBounded, NEW i \in Active, NEW j \in Active, i # j
               PROVE  FALSE
    OBVIOUS
  <2>1. Cardinality(Active) <= 1
    BY FS_EmptySet DEF OpenIncidentsBounded
  <2>2. IsFiniteSet(Active)
    BY IncidentIds, FS_Subset DEF Active
  <2>3. IsFiniteSet(Active \ {i}) /\ Cardinality(Active \ {i}) = Cardinality(Active) - 1
        /\ Cardinality(Active) \in Nat
    BY <2>2, FS_RemoveElement, FS_CardinalityType
  <2>4. Cardinality(Active \ {i}) = 0
    BY <2>1, <2>3, FS_CardinalityType
  <2> QED
    BY <2>3, <2>4, FS_EmptySet
<1> QED
  BY <1>1, BaseInvariant, OpenIncidentsAreBounded, PTL
-----------------------------------------------------------------------------
(***************************************************************************)
(* The engine whose jobs do not overlap and whose attempts do not fail.     *)
(***************************************************************************)
LEMMA SerialStep == [SerialNext]_serialVars => [Next]_vars
  BY DEF SerialNext, StoreAndRecord, Next, Other, serialVars

\* One job at a time.
Solo == \A v, w \in Workers : pc[v] # "idle" /\ pc[w] # "idle" => v = w

\* What a step of a job leaves alone: the other jobs.
LEMMA OwnLocals ==
  ASSUME Base, NEW w \in Workers, EngineStep(w)
  PROVE  /\ pc[w] # "idle"
         /\ \A v \in Workers \ {w} : /\ pc'[v] = pc[v] /\ outcome'[v] = outcome[v]
                                     /\ count'[v] = count[v] /\ seen'[v] = seen[v]
                                     /\ seenStatus'[v] = seenStatus[v]
<1> USE DEF Base, TypeOK, Goto, Return
<1>1. CASE ReadMaintenance(w)
  BY <1>1 DEF ReadMaintenance
<1>2. CASE CountOutcome(w) \/ FindActive(w) \/ MarkMonitoring(w) \/ ResolveIncident(w)
  BY <1>2 DEF CountOutcome, FindActive, MarkMonitoring, ResolveIncident, WriteStatus
<1>3. CASE SendRecoveryAlert(w) \/ RevertToInvestigating(w) \/ BumpFailedCheckCount(w)
           \/ RecordFailedCheck(w)
  BY <1>3 DEF SendRecoveryAlert, RevertToInvestigating, WriteStatus, BumpFailedCheckCount,
              RecordFailedCheck
<1>4. CASE CreateIncident(w) \/ SendDownAlert(w) \/ Tail(w)
  BY <1>4 DEF CreateIncident, InsertIncident, SendDownAlert, Tail
<1> QED
  BY <1>1, <1>2, <1>3, <1>4 DEF EngineStep

LEMMA SoloNext ==
  ASSUME Base, Solo, [SerialNext]_serialVars
  PROVE  Solo'
<1>1. ASSUME NEW w \in Workers, NEW o \in ProbeOutcomes, StoreAndRecord(w, o) PROVE Solo'
  BY <1>1 DEF StoreAndRecord, StoreResult, Solo, Base, TypeOK
<1>2. ASSUME NEW w \in Workers, EngineStep(w) PROVE Solo'
  BY <1>2, OwnLocals DEF Solo
<1>3. CASE UNCHANGED pc
  BY <1>3 DEF Solo
<1> QED
  BY <1>1, <1>2, <1>3
     DEF SerialNext, CounterExpires, MaintenanceToggles, serialVars, vars, jobVars

(***************************************************************************)
(* An incident that exists, open or resolved, has been announced, or the    *)
(* job that created it is about to: only an attempt that ends in between    *)
(* could break this.  A job at any other step that holds a row holds one    *)
(* that was announced.                                                      *)
(***************************************************************************)
Told == \A i \in Incidents : status[i] # "ABSENT" =>
            downAlerts[i] = 1 \/ \E w \in Workers : pc[w] = "downAlert" /\ seen[w] = i

SInv == Told /\ RecoveryFollowsDown

LEMMA ToldEngine ==
  ASSUME Base, Announcing, Solo, SInv, NEW w \in Workers, EngineStep(w)
  PROVE  SInv'
<1> USE DEF Base, TypeOK, SInv, Told, RecoveryFollowsDown, engineVars, countVars, alertVars
<1>0. /\ pc[w] # "idle"
      /\ \A v \in Workers : pc[v] = "downAlert" => v = w
  BY OwnLocals DEF Solo
<1>1. CASE CreateIncident(w)
  BY <1>0, <1>1, IncidentIds DEF CreateIncident, InsertIncident
<1>2. CASE SendDownAlert(w)
  <2>1. seen[w] \in Incidents /\ downAlerts[seen[w]] = 0
    BY <1>2, IncidentIds DEF SendDownAlert, Announcing, RowsExist, RowSteps
  <2>2. downAlerts' = [downAlerts EXCEPT ![seen[w]] = 1] /\ UNCHANGED <<status, recoveryAlerts>>
    BY <1>2, <2>1 DEF SendDownAlert
  <2> QED
    BY <1>0, <2>1, <2>2
<1>3. CASE SendRecoveryAlert(w)
  <2>1. seen[w] \in Incidents /\ status[seen[w]] # "ABSENT" /\ pc[w] = "recoveryAlert"
    BY <1>3, IncidentIds DEF SendRecoveryAlert, RowsExist, RowSteps
  <2>2. downAlerts[seen[w]] = 1
    BY <1>0, <2>1
  <2> QED
    BY <1>0, <1>3, <2>1, <2>2 DEF SendRecoveryAlert
<1>4. CASE MarkMonitoring(w) \/ ResolveIncident(w) \/ RevertToInvestigating(w)
  <2>1. seen[w] \in Incidents /\ status[seen[w]] # "ABSENT" /\ pc[w] # "downAlert"
        /\ UNCHANGED <<downAlerts, recoveryAlerts>>
        /\ \A i \in Incidents \ {seen[w]} : status'[i] = status[i]
    BY <1>4, IncidentIds DEF MarkMonitoring, ResolveIncident, RevertToInvestigating, WriteStatus,
                             RowsExist, RowSteps
  <2> QED
    BY <1>0, <2>1
<1>5. CASE UNCHANGED <<status, downAlerts, recoveryAlerts>> /\ pc[w] # "downAlert"
  BY <1>0, <1>5
<1> QED
  BY <1>1, <1>2, <1>3, <1>4, <1>5
     DEF EngineStep, CountOutcome, FindActive, ReadMaintenance, BumpFailedCheckCount,
         RecordFailedCheck, Tail

LEMMA ToldNext ==
  ASSUME Base, Announcing, Solo, SInv, [SerialNext]_serialVars
  PROVE  SInv'
<1> USE DEF SInv, Told, RecoveryFollowsDown, engineVars, alertVars
<1>1. ASSUME NEW w \in Workers, NEW o \in ProbeOutcomes, StoreAndRecord(w, o) PROVE SInv'
  BY <1>1 DEF StoreAndRecord, StoreResult
<1>2. CASE UNCHANGED <<status, downAlerts, recoveryAlerts, pc, seen>>
  BY <1>2
<1> QED
  BY <1>1, <1>2, ToldEngine
     DEF SerialNext, CounterExpires, MaintenanceToggles, serialVars, vars, jobVars

\* Everything proved of the engine holds of the serial one.
LEMMA SerialInvariant == SerialSpec => []Base /\ []Solo /\ []SInv
<1>1. SerialInit => Base /\ Announcing /\ Solo /\ SInv
  BY BaseInit DEF SerialInit, Init, Announcing, OneDownAlertPerIncident, Solo, SInv, Told,
                  RecoveryFollowsDown
<1>2. Base /\ Announcing /\ Solo /\ SInv /\ [SerialNext]_serialVars
        => Base' /\ Announcing' /\ Solo' /\ SInv'
  BY SerialStep, BaseNext, AnnouncingNext, SoloNext, ToldNext
<1> QED
  BY <1>1, <1>2, PTL DEF SerialSpec

\* An open incident was announced, or its job is about to announce it: true of
\* DOWN and DEGRADED results, and of incidents that relapsed.
THEOREM OpenAnnounced == SerialSpec => []OpenIsAnnounced
<1>1. SInv => OpenIsAnnounced
  BY DEF SInv, Told, OpenIsAnnounced, Active, ACTIVE_STATUSES
<1> QED
  BY <1>1, SerialInvariant, PTL

\* Nobody hears of a recovery before, or without, the outage.
THEOREM RecoveryAfterDown == SerialSpec => []RecoveryFollowsDown
<1>1. SInv => RecoveryFollowsDown
  BY DEF SInv
<1> QED
  BY <1>1, SerialInvariant, PTL

-----------------------------------------------------------------------------
(***************************************************************************)
(* The serial engine implements IncidentLifecycle.  What a job has read is  *)
(* still true when it writes, because nobody else writes meanwhile.         *)
(***************************************************************************)
Looked == {"maintenance", "monitor", "resolve", "revert", "create"}
Undeciding == Looked \cup {"count", "find"}

Knows(w) ==
    /\ pc[w] \in {"idle", "count", "find"} => seen[w] = NoIncident
    /\ pc[w] \in Looked =>
          IF seen[w] = NoIncident THEN Active = {}
          ELSE seen[w] \in Active /\ seenStatus[w] = status[seen[w]]
    /\ pc[w] \in {"monitor", "resolve"} => ~isFailure(outcome[w])
    /\ pc[w] \in {"revert", "create"} => isFailure(outcome[w])
    /\ pc[w] \in {"monitor", "resolve", "revert"} => seen[w] # NoIncident
    /\ pc[w] = "monitor" => seenStatus[w] # "MONITORING"
    /\ pc[w] \in {"resolve", "revert"} => seenStatus[w] = "MONITORING"
    /\ pc[w] = "create" => seen[w] = NoIncident /\ count[w] >= FailureThreshold

\* The counter never runs ahead of the failures in a row; it may fall behind,
\* when its key expires.
Counts ==
    /\ failRun \in Nat /\ upRun \in 0..2
    /\ (\A w \in Workers : pc[w] # "count") => failcount <= failRun
    /\ \A w \in Workers :
          /\ pc[w] = "count" /\ isFailure(outcome[w]) => failcount < failRun
          /\ pc[w] \in {"find", "maintenance", "create"} => count[w] <= failRun
          /\ pc[w] \in Undeciding => IF isFailure(outcome[w]) THEN failRun > 0 ELSE upRun > 0

\* An incident that is being monitored has seen one healthy result, and the
\* next one is the second.
Recovering ==
    \A i \in Active :
       /\ status[i] \in {"INVESTIGATING", "MONITORING"}
       /\ status[i] = "MONITORING" /\ ~Undecided => upRun >= 1
       /\ status[i] = "MONITORING" =>
             \A w \in Workers : pc[w] \in Undeciding /\ ~isFailure(outcome[w]) => upRun >= 2

OneOpen == \A i, j \in Active : i = j

Contract == OneOpen /\ (\A w \in Workers : Knows(w)) /\ Counts /\ Recovering

\* The phase of the contract is the status of the one open incident.
LEMMA PhaseOf ==
  ASSUME NEW A, NEW st, \A i, j \in A : i = j, NEW p,
         p = IF A = {} THEN "HEALTHY" ELSE st[CHOOSE i \in A : TRUE]
  PROVE  /\ A = {} => p = "HEALTHY"
         /\ \A i \in A : p = st[i]
  OBVIOUS

LEMMA PhaseKept ==
  ASSUME OneOpen, status' = status
  PROVE  Active' = Active /\ CurrentPhase' = CurrentPhase
<1>1. Active' = Active
  BY DEF Active
<1>2. /\ Active = {} => CurrentPhase = "HEALTHY"
      /\ \A i \in Active : CurrentPhase = status[i]
  BY PhaseOf DEF OneOpen, CurrentPhase
<1>3. /\ Active' = {} => CurrentPhase' = "HEALTHY"
      /\ \A i \in Active' : CurrentPhase' = status'[i]
  BY <1>1, PhaseOf DEF OneOpen, CurrentPhase
<1> QED
  BY <1>1, <1>2, <1>3

\* While a job runs, it is the only one that is undecided.
LEMMA Alone ==
  ASSUME Base, Solo, Contract, NEW w \in Workers, EngineStep(w)
  PROVE  /\ \A v \in Workers \ {w} : pc[v] = "idle" /\ pc'[v] = "idle" /\ seen'[v] = NoIncident
         /\ Undecided <=> pc[w] \in Undeciding
         /\ Undecided' <=> pc'[w] \in Undeciding
         /\ Active = {} => CurrentPhase = "HEALTHY"
         /\ \A i \in Active : CurrentPhase = status[i]
<1>1. \A v \in Workers \ {w} : pc[v] = "idle" /\ pc'[v] = "idle" /\ seen'[v] = NoIncident
  BY OwnLocals DEF Solo, Contract, Knows
<1>2. (Undecided <=> pc[w] \in Undeciding) /\ (Undecided' <=> pc'[w] \in Undeciding)
  BY <1>1 DEF Undecided, Undeciding, Looked
<1> QED
  BY <1>1, <1>2, PhaseOf DEF Contract, OneOpen, CurrentPhase

\* What is left to show of a step of a job.
LEMMA ContractStep ==
  ASSUME Base, Solo, Contract, NEW w \in Workers, EngineStep(w),
         UNCHANGED <<failRun, upRun>>, OneOpen', Knows(w)',
         pc'[w] # "count", failcount' <= failRun,
         pc'[w] \in {"find", "maintenance", "create"} => count'[w] <= failRun,
         pc'[w] \in Undeciding => pc[w] \in Undeciding /\ outcome'[w] = outcome[w],
         \A i \in Active' :
            /\ status'[i] \in {"INVESTIGATING", "MONITORING"}
            /\ status'[i] = "MONITORING" =>
                 /\ pc'[w] \notin Undeciding => upRun >= 1
                 /\ pc'[w] \in Undeciding /\ ~isFailure(outcome[w]) => upRun >= 2
  PROVE  Contract'
<1>1. \A v \in Workers : v # w => pc'[v] = "idle" /\ seen'[v] = NoIncident
  BY Alone
<1>2. \A v \in Workers : Knows(v)'
  BY <1>1 DEF Knows, Looked
<1>3. Counts'
  BY <1>1 DEF Counts, Undeciding, Looked, Contract, isFailure
<1>4. Recovering'
  BY <1>1, Alone DEF Recovering, Undeciding, Looked, isFailure
<1> QED
  BY <1>2, <1>3, <1>4 DEF Contract

LEMMA LookupStep ==
  ASSUME Base, Solo, Contract, NEW w \in Workers, EngineStep(w), UNCHANGED <<failRun, upRun>>,
         CountOutcome(w) \/ FindActive(w)
  PROVE  Contract' /\ UNCHANGED Lifecycle!vars
<1> USE DEF Base, TypeOK, engineVars
<1>1. UNCHANGED <<status, Active, CurrentPhase>>
  BY PhaseKept DEF CountOutcome, FindActive, Contract
<1>2. pc[w] \in {"count", "find"} /\ pc'[w] \in {"find", "maintenance"} /\ outcome'[w] = outcome[w]
  BY DEF CountOutcome, FindActive
<1>3. Knows(w)'
  <2>1. CASE CountOutcome(w)
    BY <2>1, <1>1 DEF CountOutcome, Contract, Knows, Looked
  <2>2. CASE FindActive(w)
    BY <2>2, <1>1, IncidentIds DEF FindActive, Contract, Knows, Looked, Active
  <2> QED
    BY <2>1, <2>2
<1>4. failcount' <= failRun /\ count'[w] <= failRun
  <2>1. CASE CountOutcome(w)
    BY <2>1 DEF CountOutcome, Contract, Counts, isFailure
  <2>2. CASE FindActive(w)
    BY <2>2, Alone DEF FindActive, Contract, Counts
  <2> QED
    BY <2>1, <2>2
<1>5. \A i \in Active' : /\ status'[i] \in {"INVESTIGATING", "MONITORING"}
                         /\ status'[i] = "MONITORING" =>
                              /\ pc'[w] \notin Undeciding => upRun >= 1
                              /\ pc'[w] \in Undeciding /\ ~isFailure(outcome[w]) => upRun >= 2
  BY <1>1, <1>2 DEF Contract, Recovering, Undeciding, Looked
<1>6. Contract'
  BY <1>1, <1>2, <1>3, <1>4, <1>5, ContractStep DEF Contract, OneOpen, Undeciding, Looked
<1>7. Undecided /\ Undecided'
  BY <1>2, Alone DEF Undeciding, Looked
<1> QED
  BY <1>1, <1>6, <1>7 DEF Lifecycle!vars

\* The job decides; when it decides to leave the incident as it is, the
\* contract stays where it is.
LEMMA DecisionStep ==
  ASSUME Base, Solo, Contract, NEW w \in Workers, EngineStep(w), UNCHANGED <<failRun, upRun>>,
         ReadMaintenance(w)
  PROVE  Contract' /\ [Lifecycle!Next]_Lifecycle!vars
<1> DEFINE next == IF isFailure(outcome[w])
                   THEN AfterFailure(seen[w], seenStatus[w], maintenance, count[w])
                   ELSE AfterSuccess(seen[w], seenStatus[w])
<1> USE DEF Base, TypeOK, engineVars
<1>1. UNCHANGED <<status, failcount, Active, CurrentPhase>>
  BY PhaseKept DEF ReadMaintenance, Contract
<1>2. pc[w] = "maintenance" /\ IF next = "return" THEN Return(w) ELSE Goto(w, next)
  BY DEF ReadMaintenance
<1>3. IF seen[w] = NoIncident THEN Active = {}
      ELSE seen[w] \in Active /\ seenStatus[w] = status[seen[w]]
  BY <1>2 DEF Contract, Knows, Looked
<1>4. /\ IF isFailure(outcome[w]) THEN failRun > 0 ELSE upRun > 0
      /\ failcount <= failRun /\ count[w] <= failRun
      /\ \A i \in Active : status[i] = "MONITORING" /\ ~isFailure(outcome[w]) => upRun >= 2
  BY <1>2, Alone DEF Contract, Counts, Recovering, Undeciding, Looked
<1>5. CASE next \in {"monitor", "resolve", "revert", "create"}
  <2>1. Goto(w, next)
    BY <1>2, <1>5
  <2>2. pc'[w] = next /\ UNCHANGED <<outcome, count, seen, seenStatus>>
    BY <2>1 DEF Goto
  <2>3. Knows(w)'
    BY <1>1, <1>3, <1>5, <2>2, ThresholdAssumption DEF Knows, Looked, AfterFailure, AfterSuccess, isFailure
  <2> HIDE DEF next
  <2>4. Contract'
    BY <1>1, <1>2, <1>4, <1>5, <2>2, <2>3, ContractStep
       DEF Contract, OneOpen, Recovering, Undeciding, Looked
  <2>5. Undecided /\ Undecided'
    BY <1>2, <1>5, <2>2, Alone DEF Undeciding, Looked
  <2> QED
    BY <1>1, <2>4, <2>5 DEF Lifecycle!vars
<1>6. CASE next \in {"bump", "tail", "return"}
  <2>1. Goto(w, next) \/ Return(w)
    BY <1>2
  <2>2. pc'[w] \in {"bump", "tail", "idle"} /\ (pc'[w] = "idle" => seen'[w] = NoIncident)
    BY <1>2, <1>6 DEF Goto, Return
  <2>3. \/ Active = {}
        \/ isFailure(outcome[w]) /\ seen[w] \in Active /\ status[seen[w]] # "MONITORING"
    BY <1>3, <1>6 DEF AfterFailure, AfterSuccess
  <2>4. CurrentPhase = "HEALTHY" \/ (CurrentPhase = "INVESTIGATING" /\ failRun > 0)
    BY <2>3, <1>4, Alone DEF Contract, Recovering
  <2>5. Knows(w)'
    BY <2>2 DEF Knows, Looked
  <2>6. \A i \in Active : status[i] = "INVESTIGATING"
    BY <2>3 DEF Contract, OneOpen, Recovering
  <2> HIDE DEF next
  <2>7. Contract'
    BY <1>1, <1>4, <2>2, <2>5, <2>6, ContractStep DEF Contract, OneOpen, Undeciding, Looked
  <2>8. Undecided /\ ~Undecided'
    BY <1>2, <2>2, Alone DEF Undeciding, Looked
  <2> QED
    BY <1>1, <2>4, <2>7, <2>8 DEF Lifecycle!Next, Lifecycle!React, Lifecycle!Stay
<1> QED
  BY <1>5, <1>6 DEF AfterFailure, AfterSuccess

\* It writes the status of the open incident.
LEMMA WriteStep ==
  ASSUME Base, Solo, Contract, NEW w \in Workers, EngineStep(w), UNCHANGED <<failRun, upRun>>,
         MarkMonitoring(w) \/ ResolveIncident(w) \/ RevertToInvestigating(w)
  PROVE  Contract' /\ [Lifecycle!Next]_Lifecycle!vars
<1> DEFINE new == status'[seen[w]]
<1> USE DEF Base, TypeOK
<1>1. /\ pc[w] \in {"monitor", "resolve", "revert"} /\ pc'[w] \in {"tail", "recoveryAlert", "bump"}
      /\ UNCHANGED <<failcount, outcome, count, seen, seenStatus>>
  BY DEF MarkMonitoring, ResolveIncident, RevertToInvestigating, WriteStatus, Goto
<1>2. seen[w] \in Active /\ Active = {seen[w]} /\ seenStatus[w] = status[seen[w]]
  BY <1>1 DEF Contract, Knows, Looked, OneOpen
<1>3. \A i \in Incidents \ {seen[w]} : status'[i] = status[i]
  BY DEF MarkMonitoring, ResolveIncident, RevertToInvestigating, WriteStatus
<1>4. seen[w] \in Incidents
  BY <1>2 DEF Active
<1>5. \/ /\ CurrentPhase = "INVESTIGATING" /\ upRun > 0 /\ new = "MONITORING"
      \/ /\ CurrentPhase = "MONITORING" /\ upRun >= 2 /\ new = "RESOLVED"
      \/ /\ CurrentPhase = "MONITORING" /\ failRun > 0 /\ new = "INVESTIGATING"
  <2>1. CASE MarkMonitoring(w)
    <3>1. pc[w] = "monitor" /\ new = "MONITORING"
      BY <2>1, <1>4 DEF MarkMonitoring, WriteStatus
    <3>2. status[seen[w]] = "INVESTIGATING" /\ upRun > 0
      BY <3>1, <1>2 DEF Contract, Knows, Recovering, Counts, Undeciding, Looked
    <3> QED
      BY <3>1, <3>2, <1>2, Alone
  <2>2. CASE ResolveIncident(w)
    <3>1. pc[w] = "resolve" /\ new = "RESOLVED"
      BY <2>2, <1>4 DEF ResolveIncident, WriteStatus
    <3>2. status[seen[w]] = "MONITORING" /\ upRun >= 2
      BY <3>1, <1>2 DEF Contract, Knows, Recovering, Undeciding, Looked
    <3> QED
      BY <3>1, <3>2, <1>2, Alone
  <2>3. CASE RevertToInvestigating(w)
    <3>1. pc[w] = "revert" /\ new = "INVESTIGATING"
      BY <2>3, <1>4 DEF RevertToInvestigating, WriteStatus
    <3>2. status[seen[w]] = "MONITORING" /\ failRun > 0
      BY <3>1, <1>2 DEF Contract, Knows, Counts, Undeciding, Looked
    <3> QED
      BY <3>1, <3>2, <1>2, Alone
  <2> QED
    BY <2>1, <2>2, <2>3
<1>6. Active' = IF new = "RESOLVED" THEN {} ELSE {seen[w]}
  BY <1>2, <1>3, <1>4, <1>5 DEF Active, ACTIVE_STATUSES
<1>7. CurrentPhase' = IF new = "RESOLVED" THEN "HEALTHY" ELSE new
  <2>1. /\ Active' = {} => CurrentPhase' = "HEALTHY"
        /\ \A i \in Active' : CurrentPhase' = status'[i]
    BY <1>6, PhaseOf DEF CurrentPhase
  <2> QED
    BY <1>6, <2>1
<1>8. Knows(w)'
  BY <1>1 DEF Knows, Looked
<1> HIDE DEF new
<1>9. failcount <= failRun
  BY <1>1, Alone DEF Contract, Counts
<1>10. Contract'
  <2>1. \A i \in Active' : /\ status'[i] = new /\ new \in {"INVESTIGATING", "MONITORING"}
                           /\ new = "MONITORING" => upRun >= 1
    BY <1>5, <1>6 DEF new, Contract, Counts
  <2>2. OneOpen' /\ pc'[w] \notin Undeciding
    BY <1>1, <1>6 DEF OneOpen, Undeciding, Looked
  <2> QED
    BY <1>1, <1>8, <1>9, <2>1, <2>2, ContractStep DEF Undeciding, Looked
<1>11. Undecided /\ ~Undecided'
  BY <1>1, Alone DEF Undeciding, Looked
<1> QED
  BY <1>5, <1>7, <1>10, <1>11
     DEF Lifecycle!Next, Lifecycle!React, Lifecycle!Recover, Lifecycle!Resolve, Lifecycle!Relapse

\* It opens an incident: none is open, and the failures are enough.
LEMMA OpenStep ==
  ASSUME Base, Solo, Contract, NEW w \in Workers, EngineStep(w), UNCHANGED <<failRun, upRun>>,
         CreateIncident(w)
  PROVE  Contract' /\ [Lifecycle!Next]_Lifecycle!vars
<1> USE DEF Base, TypeOK
<1>1. /\ pc[w] = "create" /\ pc'[w] = "downAlert" /\ failcount' = failcount
      /\ Active = {} /\ FailureThreshold <= count[w] /\ count[w] <= failRun
      /\ failcount <= failRun
  BY Alone DEF CreateIncident, InsertIncident, Contract, Knows, Counts, Looked
<1>2. PICK i \in Incidents : status' = [status EXCEPT ![i] = "INVESTIGATING"]
  BY DEF CreateIncident, InsertIncident
<1>3. Active' = {i} /\ status'[i] = "INVESTIGATING"
  BY <1>1, <1>2 DEF Active, ACTIVE_STATUSES
<1>4. CurrentPhase = "HEALTHY" /\ CurrentPhase' = "INVESTIGATING"
  <2>1. \A j \in Active' : CurrentPhase' = status'[j]
    BY <1>3, PhaseOf DEF CurrentPhase
  <2> QED
    BY <1>1, <1>3, <2>1, Alone
<1>5. Contract'
  BY <1>1, <1>3, ContractStep DEF OneOpen, Knows, Undeciding, Looked
<1>6. Undecided /\ ~Undecided'
  BY <1>1, Alone DEF Undeciding, Looked
<1>7. failRun >= FailureThreshold
  BY <1>1, ThresholdAssumption DEF Contract, Counts
<1> QED
  BY <1>4, <1>5, <1>6, <1>7 DEF Lifecycle!Next, Lifecycle!React, Lifecycle!Open

\* Once it has decided, nothing it does changes the contract's state.
LEMMA TailStep ==
  ASSUME Base, Solo, Contract, NEW w \in Workers, EngineStep(w), UNCHANGED <<failRun, upRun>>,
         \/ SendRecoveryAlert(w) \/ BumpFailedCheckCount(w) \/ RecordFailedCheck(w)
         \/ SendDownAlert(w) \/ Tail(w)
  PROVE  Contract' /\ UNCHANGED Lifecycle!vars
<1> USE DEF Base, TypeOK
<1>1. /\ pc[w] \in {"recoveryAlert", "bump", "event", "downAlert", "tail"}
      /\ pc'[w] \in {"tail", "event", "idle"} /\ (pc'[w] = "idle" => seen'[w] = NoIncident)
      /\ UNCHANGED <<status, failcount>>
  BY DEF SendRecoveryAlert, BumpFailedCheckCount, RecordFailedCheck, SendDownAlert, Tail,
         Goto, Return, engineVars
<1>2. UNCHANGED <<Active, CurrentPhase>>
  BY <1>1, PhaseKept DEF Contract
<1>3. ~Undecided /\ ~Undecided' /\ pc'[w] \notin Undeciding /\ failcount <= failRun
  BY <1>1, Alone DEF Undeciding, Looked, Contract, Counts
<1>4. Knows(w)'
  BY <1>1 DEF Knows, Looked
<1>5. \A i \in Active : /\ status[i] \in {"INVESTIGATING", "MONITORING"}
                        /\ status[i] = "MONITORING" => upRun >= 1
  BY <1>3 DEF Contract, Recovering
<1>6. Contract'
  BY <1>1, <1>2, <1>3, <1>4, <1>5, ContractStep DEF Contract, OneOpen, Undeciding, Looked
<1>7. Undecided' = Undecided
  BY <1>3 DEF Undecided
<1> QED
  BY <1>2, <1>6, <1>7 DEF Lifecycle!vars

\* A result is observed.
LEMMA ResultStep ==
  ASSUME Base, Contract, NEW w \in Workers, NEW o \in ProbeOutcomes, StoreAndRecord(w, o)
  PROVE  Contract' /\ Lifecycle!Observe
<1> USE DEF Base, TypeOK
<1>1. /\ \A v \in Workers : pc[v] = "idle"
      /\ \A v \in Workers \ {w} : pc'[v] = "idle"
      /\ pc'[w] = "count" /\ outcome'[w] = o
      /\ UNCHANGED <<status, failcount, count, seen, seenStatus>>
  BY DEF StoreAndRecord, StoreResult, engineVars
<1>2. UNCHANGED <<Active, CurrentPhase>>
  BY <1>1, PhaseKept DEF Contract
<1>3. ~Undecided /\ Undecided'
  BY <1>1 DEF Undecided
<1>4. /\ failRun' = IF isFailure(o) THEN failRun + 1 ELSE 0
      /\ upRun' = IF isFailure(o) THEN 0 ELSE IF upRun < 2 THEN upRun + 1 ELSE upRun
      /\ failRun \in Nat /\ upRun \in 0..2
  BY DEF StoreAndRecord, UpRunCap, Contract, Counts
<1>5. \A v \in Workers : Knows(v)'
  BY <1>1 DEF Contract, Knows, Looked
<1>6. Counts'
  <2>1. failRun' \in Nat /\ upRun' \in 0..2 /\ IF isFailure(o) THEN failRun' > 0 ELSE upRun' > 0
    BY <1>4
  <2>2. failcount <= failRun
    BY <1>1 DEF Contract, Counts
  <2>3. isFailure(o) => failcount' < failRun'
    BY <1>1, <1>4, <2>2
  <2> QED
    BY <1>1, <2>1, <2>3 DEF Counts, isFailure, Undeciding, Looked
<1>7. Recovering'
  <2>1. \A i \in Active : /\ status[i] \in {"INVESTIGATING", "MONITORING"}
                          /\ status[i] = "MONITORING" => upRun >= 1
    BY <1>3 DEF Contract, Recovering
  <2>2. upRun >= 1 /\ ~isFailure(o) => upRun' >= 2
    BY <1>4
  <2> QED
    BY <1>1, <1>2, <1>3, <2>1, <2>2 DEF Recovering, Undeciding, Looked, isFailure
<1>8. OneOpen'
  BY <1>2 DEF Contract, OneOpen
<1>9. Contract'
  BY <1>5, <1>6, <1>7, <1>8 DEF Contract
<1>10. upRun' = IF isFailure(o) THEN 0 ELSE IF upRun < 2 THEN upRun + 1 ELSE 2
  BY <1>4
<1> QED
  BY <1>2, <1>3, <1>4, <1>9, <1>10 DEF Lifecycle!Observe

\* The counter expires, a window opens or closes, or nothing happens.
LEMMA WorldStep ==
  ASSUME Base, Contract, UNCHANGED <<failRun, upRun>>,
         CounterExpires \/ MaintenanceToggles \/ UNCHANGED vars
  PROVE  Contract' /\ UNCHANGED Lifecycle!vars
<1>1. UNCHANGED <<status, pc, outcome, count, seen, seenStatus>>
      /\ (failcount' = 0 \/ failcount' = failcount)
  BY DEF CounterExpires, MaintenanceToggles, vars, engineVars, jobVars
<1>2. UNCHANGED <<Active, CurrentPhase>>
  BY <1>1, PhaseKept DEF Contract
<1>3. Undecided' = Undecided
  BY <1>1 DEF Undecided
<1>4. \A w \in Workers : Knows(w)'
  BY <1>1, <1>2 DEF Contract, Knows
<1>5. Counts'
  BY <1>1 DEF Contract, Counts, Undeciding, Looked, isFailure
<1>6. Recovering' /\ OneOpen'
  BY <1>1, <1>2, <1>3 DEF Contract, Recovering, OneOpen, isFailure
<1> QED
  BY <1>2, <1>3, <1>4, <1>5, <1>6 DEF Contract, Lifecycle!vars

LEMMA LifecycleNext ==
  ASSUME Base, Solo, Contract, [SerialNext]_serialVars
  PROVE  Contract' /\ [Lifecycle!Next]_Lifecycle!vars
<1>1. ASSUME NEW w \in Workers, NEW o \in ProbeOutcomes, StoreAndRecord(w, o)
      PROVE  Contract' /\ [Lifecycle!Next]_Lifecycle!vars
  BY <1>1, ResultStep DEF Lifecycle!Next
<1>2. ASSUME NEW w \in Workers, EngineStep(w), UNCHANGED <<failRun, upRun>>
      PROVE  Contract' /\ [Lifecycle!Next]_Lifecycle!vars
  BY <1>2, LookupStep, DecisionStep, WriteStep, OpenStep, TailStep DEF EngineStep
<1> QED
  BY <1>1, <1>2, WorldStep DEF SerialNext, serialVars

\* The serial engine implements the documented lifecycle: an incident opens after
\* FailureThreshold failures in a row, is resolved after two healthy results
\* in a row, goes back to INVESTIGATING on a relapse, and each result has one
\* reaction.  (That each one does have it is LifecycleContract's other half.)
THEOREM LifecycleImplemented == SerialSpec => Lifecycle!Safety
<1>1. SerialInit => Contract /\ Lifecycle!Init
  <2> SUFFICES ASSUME SerialInit PROVE Contract /\ Lifecycle!Init
    OBVIOUS
  <2>1. Active = {} /\ ~Undecided
    BY DEF SerialInit, Init, Active, ACTIVE_STATUSES, Undecided
  <2>2. CurrentPhase = "HEALTHY"
    BY <2>1 DEF CurrentPhase
  <2>3. Contract
    BY <2>1 DEF SerialInit, Init, Contract, OneOpen, Knows, Counts, Recovering, Undeciding, Looked
  <2> QED
    BY <2>1, <2>2, <2>3 DEF SerialInit, Lifecycle!Init
<1>2. Base /\ Solo /\ Contract /\ [SerialNext]_serialVars => Contract'
  BY LifecycleNext
<1>3. Base /\ Solo /\ Contract /\ [SerialNext]_serialVars => [Lifecycle!Next]_Lifecycle!vars
  BY LifecycleNext
<1> QED
  BY <1>1, <1>2, <1>3, SerialInvariant, PTL DEF SerialSpec, Lifecycle!Safety
=============================================================================
