----------------------------- MODULE Escalation -----------------------------
(***************************************************************************)
(* Escalations of incidents that stay unresolved: escalationScan of         *)
(* server/src/workers/scheduler.ts, run by the minute timer of every        *)
(* process, whether the scan before has ended or not.                       *)
(*                                                                          *)
(* A scan reads the incidents with the list of the escalations sent, which  *)
(* is part of their errorInfo, and writes the whole list it has read, with  *)
(* one threshold more, after every alert.  The alert itself is AlertDelivery's; *)
(* it is sent without a TTL and so never held back by its key.  An          *)
(* acknowledgement does not stop escalations.                               *)
(***************************************************************************)
EXTENDS Naturals, FiniteSets, FiniteSetsExt, Functions

CONSTANTS
    Incidents,
    Scans,       \* scans in progress at once, of any process
    Minutes,     \* bound: the thresholds a policy may name
    Listed,      \* bound: thresholds in the list of a policy
    MaxAge,      \* bound: minutes an incident is followed
    MaxFaults    \* bound: scans cut short

ASSUME MinutesAssumption == Minutes \subseteq Nat \ {0} /\ Listed \in Nat /\ MaxAge \in Nat
ASSUME FaultsAssumption == MaxFaults \in Nat

VARIABLES
    policy,      \* escalationMinutes, in no particular order
    age,         \* minutes since detectedAt
    active,      \* the incidents that are not RESOLVED
    sent,        \* errorInfo.escalationsSent
    scan,        \* each scan and its locals
    announced,   \* history: alerts sent before scans overlapped, by threshold
    overlapped,  \* history: two scans were in progress at once
    faults       \* scans cut short so far (see MaxFaults)

vars == <<policy, age, active, sent, scan, announced, overlapped, faults>>

Places == DOMAIN policy
NoScan == [step |-> "idle", left |-> {}, read |-> [i \in Incidents |-> {}],
           elapsed |-> [i \in Incidents |-> 0], at |-> {}, todo |-> {}]

Init ==
    /\ policy \in UNION {[1..n -> Minutes] : n \in 1..Listed}
    /\ age = [i \in Incidents |-> 0]
    /\ active = Incidents
    /\ sent = [i \in Incidents |-> {}]
    /\ scan = [s \in Scans |-> NoScan]
    /\ announced = [i \in Incidents |-> [m \in Minutes |-> 0]]
    /\ overlapped = FALSE
    /\ faults = 0

-----------------------------------------------------------------------------
Busy == {s \in Scans : scan[s].step # "idle"}

\* The scan reads the active incidents.
Begin(s) ==
    /\ s \notin Busy
    /\ scan' = [scan EXCEPT ![s] =
           [NoScan EXCEPT !.step = "next", !.left = active, !.read = sent, !.elapsed = age]]
    /\ overlapped' = (overlapped \/ Busy # {})
    /\ UNCHANGED <<policy, age, active, sent, announced, faults>>

\* It takes the next incident and reads its policy: the thresholds that are
\* due and not in the list as it was read.
Take(s, i) ==
    /\ scan[s].step = "next" /\ i \in scan[s].left /\ scan[s].todo = {}
    /\ scan' = [scan EXCEPT
           ![s].left = @ \ {i}, ![s].at = {i},
           ![s].todo = {k \in Places : /\ policy[k] <= scan[s].elapsed[i]
                                       /\ policy[k] \notin scan[s].read[i]}]
    /\ UNCHANGED <<policy, age, active, sent, announced, overlapped, faults>>

\* sendAlert returns.
Alert(s, i) ==
    /\ scan[s].step = "next" /\ scan[s].at = {i} /\ scan[s].todo # {}
    /\ announced' = IF overlapped THEN announced
                    ELSE [announced EXCEPT ![i][policy[Min(scan[s].todo)]] = @ + 1]
    /\ scan' = [scan EXCEPT ![s].step = "record"]
    /\ UNCHANGED <<policy, age, active, sent, overlapped, faults>>

\* Mutant: the alert is not recorded.
RecordLate(s, i) ==
    /\ scan[s].step = "record" /\ scan[s].at = {i}
    /\ scan' = [scan EXCEPT ![s].step = "next", ![s].todo = @ \ {Min(@)}]
    /\ UNCHANGED <<policy, age, active, sent, announced, overlapped, faults>>

\* The list as it was read, and this threshold, overwrite the list; then the
\* ESCALATED row of the timeline.
Record(s, i) ==
    /\ scan[s].step = "record" /\ scan[s].at = {i}
    /\ sent' = [sent EXCEPT ![i] = scan[s].read[i] \cup {policy[Min(scan[s].todo)]}]
    /\ scan' = [scan EXCEPT ![s].step = "next", ![s].todo = @ \ {Min(@)}]
    /\ UNCHANGED <<policy, age, active, announced, overlapped, faults>>

End(s) ==
    /\ scan[s].step = "next" /\ scan[s].left = {} /\ scan[s].todo = {}
    /\ scan' = [scan EXCEPT ![s] = NoScan]
    /\ UNCHANGED <<policy, age, active, sent, announced, overlapped, faults>>

escalationScan(s) ==
    \/ Begin(s) \/ End(s)
    \/ \E i \in Incidents : Take(s, i) \/ Alert(s, i) \/ Record(s, i)

\* A call throws or the process dies: the incidents that are left wait for
\* the next scan.
Abort(s) ==
    /\ s \in Busy /\ faults < MaxFaults
    /\ scan' = [scan EXCEPT ![s] = NoScan]
    /\ faults' = faults + 1
    /\ UNCHANGED <<policy, age, active, sent, announced, overlapped>>

\* The engine resolves the incident; a scan that has read it goes on.
Resolve(i) ==
    /\ i \in active
    /\ active' = active \ {i}
    /\ UNCHANGED <<policy, age, sent, scan, announced, overlapped, faults>>

Minute ==
    /\ \E i \in active : age[i] < MaxAge
    /\ age' = [i \in Incidents |-> IF i \in active THEN Min({age[i] + 1, MaxAge}) ELSE age[i]]
    /\ UNCHANGED <<policy, active, sent, scan, announced, overlapped, faults>>

Next ==
    \/ Minute
    \/ \E s \in Scans : escalationScan(s) \/ Abort(s)
    \/ \E i \in Incidents : Resolve(i)

\* The timers go off and the calls of a scan return or throw.
Spec == Init /\ [][Next]_vars /\ \A s \in Scans : WF_vars(escalationScan(s))

-----------------------------------------------------------------------------
(***************************************************************************)
(* Properties.                                                              *)
(***************************************************************************)
Naming(m) == {k \in Places : policy[k] = m}

\* Alerts sent by scans in progress and not recorded yet are counted too.
\* As long as scans do not overlap, a threshold is announced once for each of
\* its places in the policy and each threshold there is: the thresholds due
\* together are recorded one over the other, so that only the last stays on the
\* list, and the others are announced again by the scans that follow.  A scan that
\* is cut short may cost one announcement more of each.
AnnouncementsBounded ==
    ~overlapped =>
        \A i \in Incidents, m \in Minutes :
            announced[i][m] <= Cardinality(Naming(m)) * (Cardinality(Range(policy)) + faults)

\* However scans overlap and overwrite each other's lists, the announcements
\* come to an end: from some time on, every threshold an unresolved incident
\* has passed is on its list and stays there.  (A scan writes a list longer
\* than the one it has read, so the shortest list around can only grow.)
EscalationsSettle ==
    \A i \in Incidents :
        <>[](i \in active => {m \in Range(policy) : m <= age[i]} \subseteq sent[i])
=============================================================================
