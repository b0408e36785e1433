------------------------- MODULE IncidentProperties -------------------------
(***************************************************************************)
(* What the incident engine promises when check jobs of one monitor overlap *)
(* each other and the status endpoint.                                      *)
(***************************************************************************)
EXTENDS IncidentEngine

\* A job acts on a row only after it has read or created it, and a row that
\* was read exists: no write goes to a row that is not there.
RowSteps == {"monitor", "resolve", "recoveryAlert", "revert", "bump", "event", "downAlert"}
RowsExist ==
    /\ \A w \in Workers : /\ pc[w] \in RowSteps => seen[w] # NoIncident
                          /\ seen[w] # NoIncident => status[seen[w]] # "ABSENT"
    /\ \A r \in Requests : reqIncident[r] # NoIncident =>
          status[reqIncident[r]] # "ABSENT" /\ reqStatus[r] \in ACTIVE_STATUSES

\* A job about to write an active status into a row it read earlier, or that
\* may still decide to: the row can have been resolved in the meantime.
HoldsStale(w, i) == pc[w] \in {"maintenance", "monitor", "revert"} /\ seen[w] = i

\* Rows some job or request may still (re)open.
Stale == {i \in Incidents : \/ \E w \in Workers : HoldsStale(w, i)
                            \/ \E r \in Requests : reqIncident[r] = i}

\* Jobs that saw no active incident and may still create one.
WillOpen(w) == pc[w] = "create" \/ (pc[w] = "maintenance" /\ seen[w] = NoIncident)
Opening == {w \in Workers : WillOpen(w)}

\* Open incidents and those still to come never outnumber the actors.  Each
\* job or request is charged for at most one incident: the row it may write,
\* or the one it may create.  (The strengthening that makes the next
\* invariant inductive.)
ExposureBounded ==
    Cardinality(Active \cup Stale) + Cardinality(Opening)
        <= Cardinality(Workers) + Cardinality(Requests)

\* The engine looks for an active incident before it creates one, but in
\* another statement: overlapping jobs can each create one, and a late write
\* can reopen a resolved one.  Still there are never more open incidents of
\* the monitor than jobs and requests in progress at once; with one job and
\* no request there is at most one.
OpenIncidentsBounded ==
    Cardinality(Active) <= Cardinality(Workers) + Cardinality(Requests)

\* "One DOWN alert per incident" (comment of sendAlert): whatever overlaps
\* and whichever attempts are run again, an incident is announced at most
\* once, although its dedupe key never stops an alert.
OneDownAlertPerIncident == \A i \in Incidents : downAlerts[i] <= 1

\* Jobs that have counted a failed check and not yet put it on the timeline.
Unrecorded(i) == {w \in Workers : pc[w] = "event" /\ seen[w] = i}

\* No failed check is lost when jobs overlap: failedCheckCount covers the
\* checks that led to the incident and every FAILED_CHECK row after it.
EveryFailureCounted ==
    \A i \in Incidents : status[i] # "ABSENT" =>
        FailureThreshold + failedCheckEvents[i] + Cardinality(Unrecorded(i))
            <= failedCheckCount[i]

\* "Cannot change the status of a resolved incident." (updateIncidentStatus):
\* a resolved incident can become active again, but only through a job or a
\* request that had read it while it was active.
ReopenedOnlyByStaleWriter ==
    [][\A i \in Incidents :
          (status[i] = "RESOLVED" /\ status'[i] \in ACTIVE_STATUSES) => i \in Stale]_vars

\* README, Incident Lifecycle: "Incident created ... alert sent (once)".
\* Every incident is announced, sooner or later.
EveryIncidentAnnounced ==
    \A i \in Incidents : (status[i] # "ABSENT") ~> (downAlerts[i] > 0)

\* Once failures, faults and operators' edits have stopped (they are bounded
\* here), every incident is resolved and stays so: no interleaving of stale
\* writes keeps one open or keeps reopening it.
Settles == <>[](Active = {})
=============================================================================
