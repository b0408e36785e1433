------------------------ MODULE AlertDeliveryProofs ------------------------
(***************************************************************************)
(* For any number of callers, alerts, channels and faults, a periodic alert *)
(* reaches a channel in at most one delivery per life of its dedupe key.    *)
(***************************************************************************)
EXTENDS AlertDelivery, FiniteSetTheorems, TLAPS

\* Jobs, and senders that are about to add one, stand for rows that exist; no
\* two senders add a job for the same row.
Linked ==
    /\ \A s \in Senders : sPc[s] = "add" => sRow[s] \in Rows /\ job[sRow[s]] = "none"
    /\ \A s, t \in Senders : s # t /\ sPc[s] = "add" /\ sPc[t] = "add" => sRow[s] # sRow[t]
    /\ \A s \in Senders : sPc[s] # "idle" => sAlert[s] \in Alerts
    /\ \A d \in Deliveries : job[d] # "none" => d \in Rows
    /\ \A d \in Deliveries : job[d] # "ended" => tries[d] < MaxAttempts

Base == TypeOK /\ Linked

\* What a step of a job may do to its row, and nothing else.
Reworked(d) ==
    /\ \A e \in Deliveries \ {d} : delivery'[e] = delivery[e]
    /\ d \in Rows => /\ delivery'[d] \in Written
                     /\ delivery'[d].alert = delivery[d].alert
                     /\ delivery'[d].channel = delivery[d].channel
                     /\ delivery'[d].window = delivery[d].window

LEMMA RowShape == NoRow.status = "ABSENT" /\ NoRow \notin Written
  BY DEF NoRow, Written, Statuses

LEMMA BaseInit == Init => Base
  BY AttemptsAssumption, LimitsAssumption DEF Init, Base, TypeOK, Linked, Rows

LEMMA BaseSender ==
    ASSUME Base, NEW s \in Senders,
           SenderStep(s) \/ SenderDies(s) \/ \E a \in Alerts, b \in BOOLEAN : SendAlert(s, a, b)
    PROVE  Base'
<1>1. CASE \E a \in Alerts, b \in BOOLEAN : SendAlert(s, a, b)
  <2> PICK a \in Alerts, b \in BOOLEAN : SendAlert(s, a, b)
    BY <1>1
  <2>1. calls' \in 0..MaxCalls /\ keys' \subseteq Alerts /\ window' \in [Alerts -> Nat]
    BY LimitsAssumption DEF Base, TypeOK, SendAlert
  <2>2. /\ sPc' \in [Senders -> {"idle", "resolve", "create", "add"}]
        /\ sAlert' \in [Senders -> Alerts \cup {NoAlert}]
        /\ sWindow' \in [Senders -> Nat]
        /\ \A t \in Senders : sPc'[t] # "idle" => sAlert'[t] \in Alerts
        /\ \A t \in Senders : sPc'[t] = "add" => sPc[t] = "add"
    <3>1. \A t \in Senders : sPc[t] # "idle" => sAlert[t] \in Alerts
      BY DEF Base, Linked
    <3>2. CASE UNCHANGED <<sPc, sAlert, sWindow>>
      BY <3>1, <3>2 DEF Base, TypeOK
    <3>3. CASE /\ sPc' = [sPc EXCEPT ![s] = "resolve"]
               /\ sAlert' = [sAlert EXCEPT ![s] = a]
               /\ sWindow' = [sWindow EXCEPT ![s] = window'[a]]
      BY <2>1, <3>1, <3>3 DEF Base, TypeOK
    <3> QED
      BY <3>2, <3>3 DEF SendAlert
  <2> QED
    BY <2>1, <2>2 DEF Base, TypeOK, Linked, SendAlert, Rows, workVars
<1>2. CASE ResolveChannels(s)
  BY <1>2 DEF Base, TypeOK, Linked, Rows, ResolveChannels, Forget, gateVars, workVars, boundVars
<1>3. CASE CreateDelivery(s)
  <2> PICK c \in sTodo[s], d \in Deliveries :
          /\ d \notin Rows
          /\ delivery' = [delivery EXCEPT ![d] =
                            [alert |-> sAlert[s], channel |-> c, window |-> sWindow[s],
                             status |-> "PENDING", attempts |-> 0]]
          /\ sTodo' = [sTodo EXCEPT ![s] = @ \ {c}]
          /\ sRow' = [sRow EXCEPT ![s] = d]
    BY <1>3 DEF CreateDelivery
  <2>1. [alert |-> sAlert[s], channel |-> c, window |-> sWindow[s], status |-> "PENDING",
         attempts |-> 0] \in Written
    BY <1>3 DEF Base, TypeOK, Linked, CreateDelivery, Written, Statuses
  <2>2. delivery' \in [Deliveries -> Written \cup {NoRow}] /\ Rows' = Rows \cup {d}
    BY <2>1, RowShape DEF Base, TypeOK, Rows
  <2>3. /\ sTodo' \in [Senders -> SUBSET Channels]
        /\ sRow' \in [Senders -> Deliveries \cup {NoDelivery}]
        /\ sPc' \in [Senders -> {"idle", "resolve", "create", "add"}]
    BY <1>3 DEF Base, TypeOK, CreateDelivery
  <2>4. Linked'
    BY <1>3, <2>2 DEF Base, TypeOK, Linked, CreateDelivery, workVars
  <2> QED
    BY <1>3, <2>2, <2>3, <2>4 DEF Base, TypeOK, CreateDelivery, gateVars, workVars, boundVars
<1>4. CASE AddJob(s)
  <2>1. sRow[s] \in Rows /\ Rows \subseteq Deliveries /\ Rows' = Rows
    BY <1>4 DEF Base, Linked, AddJob, Rows
  <2>2. TypeOK'
    BY <1>4, <2>1 DEF Base, TypeOK, AddJob, Forget, gateVars, boundVars
  <2>3. /\ sPc'[s] # "add"
        /\ \A t \in Senders \ {s} : sPc'[t] = sPc[t] /\ sRow'[t] = sRow[t] /\ sAlert'[t] = sAlert[t]
        /\ sPc'[s] # "idle" => sAlert'[s] = sAlert[s]
    BY <1>4 DEF Base, TypeOK, AddJob, Forget
  <2>4. \A d \in Deliveries : job'[d] = IF d = sRow[s] THEN "waiting" ELSE job[d]
    BY <1>4, <2>1 DEF Base, TypeOK, AddJob
  <2>5. sPc[s] = "add" /\ tries' = tries
    BY <1>4 DEF AddJob
  <2> QED
    BY <2>1, <2>2, <2>3, <2>4, <2>5 DEF Base, Linked
<1>5. CASE SenderDies(s)
  <2>1. faults' \in 0..MaxFaults
    BY <1>5, LimitsAssumption DEF Base, TypeOK, SenderDies
  <2> QED
    BY <1>5, <2>1 DEF Base, TypeOK, Linked, Rows, SenderDies, Forget, gateVars, workVars
<1> QED
  BY <1>1, <1>2, <1>3, <1>4, <1>5 DEF SenderStep

\* A worker changes only the status and the attempts of its row.
LEMMA JobReworks ==
    ASSUME Base, NEW d \in Deliveries, WorkerStep(d) \/ DatabaseFails(d) \/ WorkerDies(d)
    PROVE  Reworked(d) /\ delivery' \in [Deliveries -> Written \cup {NoRow}] /\ d \in Rows
<1>1. d \in Rows /\ delivery[d] \in Written
  BY DEF Base, TypeOK, Linked, Rows, WorkerStep, StartAttempt, DispatchReturns, DispatchThrows,
         MarkDelivered, MarkFailed, DatabaseFails, WorkerDies
<1>2. CASE UNCHANGED delivery
  BY <1>1, <1>2 DEF Base, TypeOK, Reworked
<1>3. CASE StartAttempt(d)
  BY <1>1, <1>3 DEF Base, TypeOK, Reworked, StartAttempt, Written, Statuses
<1>4. CASE MarkDelivered(d) \/ MarkFailed(d)
  BY <1>1, <1>4 DEF Base, TypeOK, Reworked, MarkDelivered, MarkFailed, SetStatus, Written, Statuses
<1> QED
  BY <1>2, <1>3, <1>4 DEF WorkerStep, DispatchReturns, DispatchThrows, DatabaseFails, WorkerDies

LEMMA BaseWorker ==
    ASSUME Base, NEW d \in Deliveries, WorkerStep(d) \/ DatabaseFails(d) \/ WorkerDies(d)
    PROVE  Base'
<1>1. delivery' \in [Deliveries -> Written \cup {NoRow}] /\ Rows' = Rows
  BY JobReworks, RowShape DEF Base, TypeOK, Reworked, Rows
<1>2. /\ job' \in [Deliveries -> {"none", "waiting", "dispatch", "delivered", "failed", "ended"}]
      /\ job[d] # "none" /\ job'[d] # "none"
      /\ \A e \in Deliveries \ {d} : job'[e] = job[e]
  BY DEF Base, TypeOK, WorkerStep, StartAttempt, DispatchReturns, DispatchThrows, MarkDelivered,
         MarkFailed, DatabaseFails, WorkerDies, Goto, Retry
<1>3. /\ tries' \in [Deliveries -> 0..MaxAttempts]
      /\ \A e \in Deliveries : job'[e] # "ended" => tries'[e] < MaxAttempts
  <2>1. tries[d] \in 0..MaxAttempts
    BY DEF Base, TypeOK
  <2>2. CASE UNCHANGED tries /\ job[d] # "ended"
    BY <1>2, <2>2 DEF Base, TypeOK, Linked
  <2>3. CASE tries' = [tries EXCEPT ![d] = @ + 1] /\ Retry(d) /\ job[d] # "ended"
    <3>1. tries[d] + 1 \in 0..MaxAttempts /\ (job'[d] # "ended" => tries[d] + 1 < MaxAttempts)
      BY <2>1, <2>3, AttemptsAssumption DEF Base, TypeOK, Linked, Retry, Goto
    <3> QED
      BY <1>2, <2>3, <3>1 DEF Base, TypeOK, Linked
  <2> QED
    BY <2>2, <2>3 DEF WorkerStep, StartAttempt, DispatchReturns, DispatchThrows, MarkDelivered,
                      MarkFailed, DatabaseFails, WorkerDies
<1>4. sent' \in [Deliveries -> Nat] /\ stalls' \in [Deliveries -> Nat]
  BY DEF Base, TypeOK, WorkerStep, StartAttempt, DispatchReturns, DispatchThrows, MarkDelivered,
         MarkFailed, DatabaseFails, WorkerDies
<1>5. faults' \in 0..MaxFaults /\ UNCHANGED worldVars
  BY LimitsAssumption
     DEF Base, TypeOK, WorkerStep, StartAttempt, DispatchReturns, DispatchThrows, MarkDelivered,
         MarkFailed, DatabaseFails, WorkerDies
<1>6. TypeOK'
  BY <1>1, <1>2, <1>3, <1>4, <1>5 DEF Base, TypeOK, worldVars, gateVars, senderVars
<1>7. \A s \in Senders : sPc[s] = "add" => sRow[s] \in Deliveries \ {d}
  BY <1>2 DEF Base, Linked, Rows
<1>8. UNCHANGED <<sPc, sAlert, sRow>>
  BY <1>5 DEF worldVars, senderVars
<1>9. \A e \in Deliveries : job'[e] # "none" => e \in Rows
  BY <1>2 DEF Base, Linked
<1>10. Linked'
  BY <1>1, <1>2, <1>3, <1>7, <1>8, <1>9 DEF Base, Linked
<1> QED
  BY <1>6, <1>10 DEF Base

LEMMA BaseNext == Base /\ [Next]_vars => Base'
<1> SUFFICES ASSUME Base, [Next]_vars PROVE Base'
  OBVIOUS
<1>1. CASE UNCHANGED vars
  BY <1>1 DEF Base, TypeOK, Linked, Rows, vars, gateVars, senderVars, workVars, boundVars
<1>2. CASE \E a \in Alerts : KeyExpires(a)
  BY <1>2 DEF Base, TypeOK, Linked, Rows, KeyExpires, senderVars, workVars, boundVars
<1>3. CASE \E E \in SUBSET Channels : ChangePolicy(E)
  BY <1>3, LimitsAssumption DEF Base, TypeOK, Linked, Rows, ChangePolicy, gateVars, senderVars, workVars
<1> QED
  BY <1>1, <1>2, <1>3, BaseSender, BaseWorker DEF Next

LEMMA BaseInvariant == Spec => []Base
  BY BaseInit, BaseNext, PTL DEF Spec

\* Every variable of AlertDelivery stays in its type; jobs never work on a row
\* that does not exist.
THEOREM DeliveryTypeCorrect == Spec => []TypeOK
<1>1. Base => TypeOK
  BY DEF Base
<1> QED
  BY <1>1, BaseInvariant, PTL

-----------------------------------------------------------------------------
(***************************************************************************)
(* A sender of a periodic alert owns one life of its key: no other sender   *)
(* has it, and a channel still to be served has no delivery of it yet.      *)
(***************************************************************************)
Holds(s, a) == a \in Periodic /\ sPc[s] # "idle" /\ sAlert[s] = a

Owned ==
    /\ \A s \in Senders : sPc[s] # "idle" => sWindow[s] <= window[sAlert[s]]
    /\ \A s, t \in Senders, a \in Alerts :
          Holds(s, a) /\ Holds(t, a) /\ s # t => sWindow[s] # sWindow[t]
    /\ \A d \in Rows : delivery[d].window <= window[delivery[d].alert]
    /\ \A s \in Senders, a \in Alerts, d \in Rows :
          Holds(s, a) /\ delivery[d].alert = a /\ delivery[d].window = sWindow[s]
              => sPc[s] # "resolve" /\ delivery[d].channel \notin sTodo[s]

OInv == Owned /\ PeriodicOncePerWindow

LEMMA OwnedInit == Init => OInv
  BY DEF Init, OInv, Owned, Holds, PeriodicOncePerWindow, Rows

\* The gate lets a periodic alert through only with a life of its own.
LEMMA OwnedSend ==
    ASSUME Base, OInv, NEW s \in Senders, NEW a \in Alerts, NEW b \in BOOLEAN, SendAlert(s, a, b)
    PROVE  OInv'
<1>1. delivery' = delivery /\ Rows' = Rows /\ sTodo' = sTodo
  BY DEF SendAlert, Rows
<1>2. \A x \in Alerts : window[x] \in Nat /\ window'[x] \in Nat /\ window[x] <= window'[x]
  BY DEF Base, TypeOK, SendAlert
<1>3. \A t \in Senders : sWindow[t] \in Nat /\ (sPc[t] # "idle" => sAlert[t] \in Alerts)
  BY DEF Base, TypeOK, Linked
<1>4. \A d \in Rows : delivery[d].alert \in Alerts /\ delivery[d].window \in Nat
  BY DEF Base, TypeOK, Rows, Written
<1>5. \A t \in Senders \ {s}, x \in Alerts :
         /\ sWindow'[t] = sWindow[t] /\ sPc'[t] = sPc[t] /\ sAlert'[t] = sAlert[t]
         /\ (Holds(t, x)' <=> Holds(t, x))
  BY DEF Base, TypeOK, SendAlert, Holds
<1>6. \A x \in Alerts : Holds(s, x)' => x = a /\ sWindow'[s] = window'[a] /\ window'[a] = window[a] + 1
  BY DEF Base, TypeOK, SendAlert, Holds, Passes
<1>7. sPc'[s] # "idle" => sWindow'[s] = window'[sAlert'[s]] /\ sAlert'[s] \in Alerts
  <2>1. sPc[s] = "idle"
    BY DEF SendAlert
  <2> QED
    BY <2>1 DEF Base, TypeOK, SendAlert
<1>8. Owned'
  <2>1. \A t \in Senders : sPc'[t] # "idle" => sWindow'[t] <= window'[sAlert'[t]]
    BY <1>2, <1>3, <1>5, <1>7 DEF OInv, Owned
  <2>2. \A x \in Alerts, t \in Senders \ {s} : Holds(t, x)' => sWindow'[t] <= window[x]
    BY <1>5 DEF OInv, Owned, Holds
  <2>3. \A t, u \in Senders, x \in Alerts :
           Holds(t, x)' /\ Holds(u, x)' /\ t # u => sWindow'[t] # sWindow'[u]
    BY <1>2, <1>3, <1>5, <1>6, <2>2 DEF OInv, Owned
  <2>4. \A d \in Rows : delivery[d].window <= window'[delivery[d].alert]
    BY <1>2, <1>4 DEF OInv, Owned
  <2>5. \A d \in Rows, x \in Alerts :
           Holds(s, x)' /\ delivery[d].alert = x => delivery[d].window # sWindow'[s]
    BY <1>2, <1>4, <1>6 DEF OInv, Owned
  <2>6. \A t \in Senders, x \in Alerts, d \in Rows :
           Holds(t, x)' /\ delivery[d].alert = x /\ delivery[d].window = sWindow'[t]
               => sPc'[t] # "resolve" /\ delivery[d].channel \notin sTodo[t]
    BY <1>5, <2>5 DEF OInv, Owned
  <2> QED
    BY <1>1, <2>1, <2>3, <2>4, <2>6 DEF Owned
<1> QED
  BY <1>1, <1>8 DEF OInv, PeriodicOncePerWindow

\* A step of a sender keeps what it owns, or gives it up.
LEMMA OwnedStep ==
    ASSUME Base, OInv, NEW s \in Senders, SenderStep(s) \/ SenderDies(s)
    PROVE  OInv'
<1>0. \A t \in Senders : sPc'[t] # "idle" =>
         sPc[t] # "idle" /\ sWindow'[t] = sWindow[t] /\ sAlert'[t] = sAlert[t]
  BY DEF Base, TypeOK, SenderStep, ResolveChannels, CreateDelivery, AddJob, SenderDies, Forget
<1>1. \A t \in Senders \ {s}, x \in Alerts :
         /\ sWindow'[t] = sWindow[t] /\ sPc'[t] = sPc[t] /\ sTodo'[t] = sTodo[t]
         /\ (Holds(t, x)' <=> Holds(t, x))
  BY DEF Base, TypeOK, SenderStep, ResolveChannels, CreateDelivery, AddJob, SenderDies, Forget, Holds
<1>2. \A x \in Alerts : Holds(s, x)' => Holds(s, x) /\ sWindow'[s] = sWindow[s]
  BY DEF Base, TypeOK, SenderStep, ResolveChannels, CreateDelivery, AddJob, SenderDies, Forget, Holds
<1>3. window' = window
  BY DEF SenderStep, ResolveChannels, CreateDelivery, AddJob, SenderDies, gateVars
<1>4. CASE delivery' = delivery
  <2>1. Rows' = Rows
    BY <1>4 DEF Rows
  <2>2. \A x \in Alerts : Holds(s, x)' /\ sPc[s] # "resolve"
                              => sPc'[s] # "resolve" /\ sTodo'[s] \subseteq sTodo[s]
    BY <1>4 DEF Base, TypeOK, SenderStep, ResolveChannels, CreateDelivery, AddJob, SenderDies, Forget,
                Holds
  <2>3. Owned'
    BY <1>0, <1>1, <1>2, <1>3, <1>4, <2>1, <2>2 DEF OInv, Owned
  <2> QED
    BY <1>4, <2>1, <2>3 DEF OInv, PeriodicOncePerWindow
<1>5. CASE CreateDelivery(s)
  <2> PICK c \in sTodo[s], d \in Deliveries :
          /\ d \notin Rows
          /\ delivery' = [delivery EXCEPT ![d] =
                            [alert |-> sAlert[s], channel |-> c, window |-> sWindow[s],
                             status |-> "PENDING", attempts |-> 0]]
          /\ sTodo' = [sTodo EXCEPT ![s] = @ \ {c}]
    BY <1>5 DEF CreateDelivery
  <2>1. /\ sPc[s] = "create" /\ sPc'[s] = "add" /\ sAlert[s] \in Alerts
        /\ c \notin sTodo'[s] /\ sTodo'[s] \subseteq sTodo[s]
    BY <1>5 DEF Base, TypeOK, Linked, CreateDelivery
  <2>2. /\ delivery'[d].alert = sAlert[s] /\ delivery'[d].channel = c
        /\ delivery'[d].window = sWindow[s]
        /\ \A e \in Deliveries \ {d} : delivery'[e] = delivery[e]
    BY DEF Base, TypeOK
  <2>3. Rows' = Rows \cup {d} /\ Rows \subseteq Deliveries \ {d}
    <3>1. delivery'[d] # NoRow
      BY <2>1, <2>2, RowShape DEF Base, TypeOK, NoRow, NoAlert
    <3> QED
      BY <2>2, <3>1 DEF Rows
  <2>4. \A e \in Rows : (sAlert[s] \in Periodic /\ delivery[e].alert = sAlert[s]
                            /\ delivery[e].window = sWindow[s]) => delivery[e].channel # c
    BY <2>1 DEF OInv, Owned, Holds
  <2>5. Owned'
    <3>1. \A t \in Senders, x \in Alerts : Holds(t, x)' => Holds(t, x) /\ sWindow'[t] = sWindow[t]
      BY <1>1, <1>2
    <3>2. \A t \in Senders : sPc'[t] # "idle" => sWindow'[t] <= window'[sAlert'[t]]
      BY <1>0, <1>3 DEF OInv, Owned
    <3>3. \A t, u \in Senders, x \in Alerts :
             Holds(t, x)' /\ Holds(u, x)' /\ t # u => sWindow'[t] # sWindow'[u]
      BY <3>1 DEF OInv, Owned
    <3>4. sWindow[s] <= window[sAlert[s]]
      BY <2>1 DEF OInv, Owned
    <3>5. \A e \in Rows' : delivery'[e].window <= window'[delivery'[e].alert]
      BY <1>3, <2>2, <2>3, <3>4 DEF OInv, Owned
    <3>6. \A t \in Senders, x \in Alerts, e \in Rows' :
             Holds(t, x)' /\ delivery'[e].alert = x /\ delivery'[e].window = sWindow'[t]
                 => sPc'[t] # "resolve" /\ delivery'[e].channel \notin sTodo'[t]
      BY <1>1, <1>2, <2>1, <2>2, <2>3, <3>1 DEF OInv, Owned, Holds
    <3> QED
      BY <3>2, <3>3, <3>5, <3>6 DEF Owned
  <2>6. PeriodicOncePerWindow'
    BY <2>2, <2>3, <2>4 DEF OInv, PeriodicOncePerWindow
  <2> QED
    BY <2>5, <2>6 DEF OInv
<1> QED
  BY <1>4, <1>5 DEF SenderStep, ResolveChannels, AddJob, SenderDies

\* What a worker does to a row leaves alert, channel and window alone.
LEMMA OwnedWorker ==
    ASSUME Base, OInv, NEW d \in Deliveries, WorkerStep(d) \/ DatabaseFails(d) \/ WorkerDies(d)
    PROVE  OInv'
<1>1. Rows' = Rows /\ Rows \subseteq Deliveries
  BY JobReworks, RowShape DEF Base, TypeOK, Reworked, Rows
<1>2. \A e \in Rows : /\ delivery'[e].alert = delivery[e].alert
                       /\ delivery'[e].channel = delivery[e].channel
                       /\ delivery'[e].window = delivery[e].window
  BY <1>1, JobReworks DEF Reworked
<1>3. UNCHANGED <<window, sPc, sAlert, sWindow, sTodo>>
  BY DEF WorkerStep, StartAttempt, DispatchReturns, DispatchThrows, MarkDelivered, MarkFailed,
         DatabaseFails, WorkerDies, worldVars, gateVars, senderVars
<1> QED
  BY <1>1, <1>2, <1>3 DEF OInv, Owned, Holds, PeriodicOncePerWindow

LEMMA OwnedNext == Base /\ OInv /\ [Next]_vars => OInv'
<1> SUFFICES ASSUME Base, OInv, [Next]_vars PROVE OInv'
  OBVIOUS
<1>1. CASE UNCHANGED <<window, sPc, sAlert, sWindow, sTodo, delivery>>
  BY <1>1 DEF OInv, Owned, Holds, PeriodicOncePerWindow, Rows
<1> QED
  BY <1>1, OwnedSend, OwnedStep, OwnedWorker
     DEF Next, KeyExpires, ChangePolicy, vars, gateVars, senderVars

\* At most one delivery of a periodic alert to a channel per life of its key,
\* whichever callers race through the gate and whatever dies or is retried.
THEOREM PeriodicBounded == Spec => []PeriodicOncePerWindow
<1>1. OInv => PeriodicOncePerWindow
  BY DEF OInv
<1> QED
  BY <1>1, OwnedInit, OwnedNext, BaseInvariant, PTL DEF Spec

-----------------------------------------------------------------------------
(***************************************************************************)
(* What a row says of its messages.  The properties say nothing of a job    *)
(* that is half way; the strengthening says what each of its steps owes.    *)
(***************************************************************************)
Tallied(d) ==
    /\ sent[d] <= delivery[d].attempts
    /\ job[d] = "dispatch" => sent[d] < delivery[d].attempts
    /\ job[d] \in {"none", "waiting"} => delivery[d].attempts <= stalls[d] + tries[d]
    /\ delivery[d].attempts <= 1 + stalls[d] + tries[d]

Honest(d) ==
    delivery[d].channel \notin Email =>
        /\ job[d] = "delivered" => sent[d] > 0
        /\ delivery[d].status = "DELIVERED" => sent[d] > 0

HInv == \A d \in Deliveries : Tallied(d) /\ Honest(d)

\* The fields of a row, and the numbers of its job.
LEMMA RowFields ==
    ASSUME Base, NEW d \in Deliveries
    PROVE  /\ delivery[d].attempts \in Nat /\ sent[d] \in Nat
           /\ stalls[d] \in Nat /\ tries[d] \in Nat
           /\ d \notin Rows => /\ delivery[d].attempts = 0 /\ job[d] = "none"
                               /\ delivery[d].status = "ABSENT"
<1>1. delivery[d] \in Written \cup {NoRow} /\ NoRow.attempts = 0 /\ NoRow.status = "ABSENT"
  BY DEF Base, TypeOK, NoRow
<1>2. delivery[d].attempts \in Nat
  BY <1>1 DEF Written
<1> QED
  BY <1>1, <1>2 DEF Base, TypeOK, Linked, Rows

LEMMA HonestInit == Init => HInv
  BY DEF Init, HInv, Tallied, Honest, NoRow

\* A caller touches a row twice: it writes it, and then adds its job.
LEMMA HonestSender ==
    ASSUME Base, HInv, NEW s \in Senders, SenderStep(s)
    PROVE  HInv'
<1>1. CASE ResolveChannels(s)
  BY <1>1 DEF ResolveChannels, workVars, HInv, Tallied, Honest
<1>2. CASE CreateDelivery(s)
  <2> PICK c \in sTodo[s], d \in Deliveries :
          /\ d \notin Rows
          /\ delivery' = [delivery EXCEPT ![d] =
                            [alert |-> sAlert[s], channel |-> c, window |-> sWindow[s],
                             status |-> "PENDING", attempts |-> 0]]
    BY <1>2 DEF CreateDelivery
  <2>1. UNCHANGED <<job, tries, stalls, sent>>
    BY <1>2 DEF CreateDelivery, workVars
  <2>2. delivery'[d].attempts = 0 /\ delivery'[d].status = "PENDING"
        /\ \A e \in Deliveries \ {d} : delivery'[e] = delivery[e]
    BY DEF Base, TypeOK
  <2>3. Tallied(d)' /\ Honest(d)'
    BY <2>1, <2>2, RowFields DEF HInv, Tallied, Honest
  <2> QED
    BY <2>1, <2>2, <2>3 DEF HInv, Tallied, Honest
<1>3. CASE AddJob(s)
  <2>1. sRow[s] \in Deliveries /\ job[sRow[s]] = "none" /\ job' = [job EXCEPT ![sRow[s]] = "waiting"]
        /\ UNCHANGED <<delivery, tries, stalls, sent>>
    BY <1>3 DEF Base, Linked, Rows, AddJob
  <2>2. \A d \in Deliveries : job'[d] = IF d = sRow[s] THEN "waiting" ELSE job[d]
    BY <2>1 DEF Base, TypeOK
  <2> QED
    BY <2>1, <2>2 DEF HInv, Tallied, Honest
<1> QED
  BY <1>1, <1>2, <1>3 DEF SenderStep

\* Each step of a job pays what the step before it owed.
LEMMA HonestWorker ==
    ASSUME Base, HInv, NEW d \in Deliveries, WorkerStep(d) \/ DatabaseFails(d) \/ WorkerDies(d)
    PROVE  HInv'
<1>1. /\ \A e \in Deliveries \ {d} : /\ delivery'[e] = delivery[e] /\ job'[e] = job[e]
                                     /\ tries'[e] = tries[e] /\ stalls'[e] = stalls[e]
                                     /\ sent'[e] = sent[e]
      /\ delivery'[d].channel = delivery[d].channel
  <2>1. \A e \in Deliveries \ {d} : delivery'[e] = delivery[e]
    BY JobReworks DEF Reworked
  <2>2. delivery'[d].channel = delivery[d].channel
    BY JobReworks DEF Reworked
  <2>3. \A e \in Deliveries \ {d} : job'[e] = job[e]
    BY DEF Base, TypeOK, WorkerStep, StartAttempt, DispatchReturns, DispatchThrows, MarkDelivered,
           MarkFailed, DatabaseFails, WorkerDies, Goto, Retry
  <2>4. \A e \in Deliveries \ {d} : tries'[e] = tries[e] /\ stalls'[e] = stalls[e] /\ sent'[e] = sent[e]
    BY DEF Base, TypeOK, WorkerStep, StartAttempt, DispatchReturns, DispatchThrows, MarkDelivered,
           MarkFailed, DatabaseFails, WorkerDies
  <2> QED
    BY <2>1, <2>2, <2>3, <2>4
<1>2. Tallied(d) /\ Honest(d)
  BY DEF HInv
<1>3. /\ delivery[d] \in Written /\ d \in DOMAIN job /\ d \in DOMAIN delivery /\ d \in DOMAIN sent
      /\ d \in DOMAIN tries /\ d \in DOMAIN stalls
  BY JobReworks DEF Base, TypeOK, Rows
<1>4. CASE StartAttempt(d)
  <2>1. delivery'[d].attempts = delivery[d].attempts + 1 /\ delivery'[d].status = "RETRYING"
        /\ job[d] = "waiting" /\ job'[d] = "dispatch" /\ UNCHANGED <<tries, stalls, sent>>
    BY <1>3, <1>4 DEF StartAttempt, Goto, Written
  <2> QED
    BY <1>1, <1>2, <2>1, RowFields DEF HInv, Tallied, Honest
<1>5. CASE DispatchReturns(d)
  <2>1. /\ sent'[d] = sent[d] + 1 \/ (delivery[d].channel \in Email /\ sent'[d] = sent[d])
        /\ job[d] = "dispatch" /\ job'[d] = "delivered" /\ UNCHANGED <<delivery, tries, stalls>>
    BY <1>3, <1>5 DEF DispatchReturns, Goto
  <2> QED
    BY <1>1, <1>2, <2>1, RowFields DEF HInv, Tallied, Honest
<1>6. CASE DispatchThrows(d)
  <2>1. /\ sent'[d] = sent[d] + 1 \/ sent'[d] = sent[d]
        /\ job[d] = "dispatch" /\ job'[d] = "failed" /\ UNCHANGED <<delivery, tries, stalls>>
    BY <1>3, <1>6 DEF DispatchThrows, Goto
  <2> QED
    BY <1>1, <1>2, <2>1, RowFields DEF HInv, Tallied, Honest
<1>7. CASE MarkDelivered(d) \/ MarkFailed(d)
  <2>1. /\ delivery'[d].attempts = delivery[d].attempts /\ job'[d] = "ended"
        /\ \/ job[d] = "delivered" /\ delivery'[d].status = "DELIVERED"
           \/ delivery'[d].status = "FAILED"
        /\ UNCHANGED <<tries, stalls, sent>>
    BY <1>3, <1>7 DEF MarkDelivered, MarkFailed, SetStatus, Goto, Written
  <2> QED
    BY <1>1, <1>2, <2>1, RowFields DEF HInv, Tallied, Honest
<1>8. CASE DatabaseFails(d)
  <2>1. /\ UNCHANGED <<delivery, stalls, sent>>
        /\ \/ job'[d] = "failed" /\ tries'[d] = tries[d]
           \/ job'[d] \in {"waiting", "ended"} /\ tries'[d] = tries[d] + 1
    BY <1>3, <1>8 DEF DatabaseFails, Retry, Goto
  <2> QED
    BY <1>1, <1>2, <2>1, RowFields DEF HInv, Tallied, Honest
<1>9. CASE WorkerDies(d)
  <2>1. /\ UNCHANGED <<delivery, tries, sent>>
        /\ job'[d] \in {"waiting", "ended"} /\ stalls'[d] = stalls[d] + 1
    BY <1>3, <1>9 DEF WorkerDies, Goto
  <2> QED
    BY <1>1, <1>2, <2>1, RowFields DEF HInv, Tallied, Honest
<1> QED
  BY <1>4, <1>5, <1>6, <1>7, <1>8, <1>9 DEF WorkerStep

LEMMA HonestNext == Base /\ HInv /\ [Next]_vars => HInv'
<1> SUFFICES ASSUME Base, HInv, [Next]_vars PROVE HInv'
  OBVIOUS
<1>1. CASE UNCHANGED <<delivery, workVars>>
  BY <1>1 DEF workVars, HInv, Tallied, Honest
<1> QED
  BY <1>1, HonestSender, HonestWorker
     DEF Next, SendAlert, SenderDies, KeyExpires, ChangePolicy, vars

LEMMA HonestInvariant == Spec => []HInv
  BY HonestInit, HonestNext, BaseInvariant, PTL DEF Spec

\* Every message is counted before it leaves, and only a death or an error
\* makes the worker attempt a delivery again.
THEOREM MessagesCounted == Spec => []MessagesAreCounted
<1>1. HInv => MessagesAreCounted
  BY DEF HInv, Tallied, MessagesAreCounted, Rows
<1> QED
  BY <1>1, HonestInvariant, PTL

\* A row says DELIVERED only if its channel has taken the message, unless the
\* channel is e-mail.
THEOREM DeliveredSent == Spec => []DeliveredWasSent
<1>1. HInv => DeliveredWasSent
  BY DEF HInv, Honest, DeliveredWasSent, Rows
<1> QED
  BY <1>1, HonestInvariant, PTL

-----------------------------------------------------------------------------
(***************************************************************************)
(* Where deliveries end.                                                    *)
(***************************************************************************)

\* A job that is over has settled its row, unless the queue gave it up after
\* the last attempt or a second death.
Settled(d) ==
    job[d] = "ended" /\ tries[d] < MaxAttempts /\ stalls[d] <= 1
        => delivery[d].status \in {"DELIVERED", "FAILED"}

\* A job that is over leaves its row, its messages and itself alone.
Over(d) == job[d] = "ended" => job'[d] = "ended" /\ delivery'[d] = delivery[d] /\ sent'[d] = sent[d]

LEMMA EndedStays ==
    ASSUME Base, [Next]_vars, NEW d \in Deliveries, job[d] = "ended"
    PROVE  /\ job'[d] = "ended" /\ delivery'[d] = delivery[d] /\ sent'[d] = sent[d]
           /\ tries'[d] = tries[d] /\ stalls'[d] = stalls[d]
<1>1. d \in Rows
  BY DEF Base, Linked
<1>2. ASSUME NEW s \in Senders, SenderStep(s)
      PROVE  /\ job'[d] = "ended" /\ delivery'[d] = delivery[d] /\ sent'[d] = sent[d]
             /\ tries'[d] = tries[d] /\ stalls'[d] = stalls[d]
  <2>1. CASE AddJob(s)
    <3>1. job[sRow[s]] = "none" /\ job' = [job EXCEPT ![sRow[s]] = "waiting"]
      BY <2>1 DEF AddJob, Base, Linked
    <3> QED
      BY <2>1, <3>1 DEF AddJob, Base, TypeOK
  <2>2. CASE CreateDelivery(s)
    BY <1>1, <2>2 DEF CreateDelivery, workVars, Base, TypeOK
  <2>3. CASE ResolveChannels(s)
    BY <2>3 DEF ResolveChannels, workVars
  <2> QED
    BY <1>2, <2>1, <2>2, <2>3 DEF SenderStep
<1>3. ASSUME NEW e \in Deliveries, WorkerStep(e) \/ DatabaseFails(e) \/ WorkerDies(e)
      PROVE  /\ job'[d] = "ended" /\ delivery'[d] = delivery[d] /\ sent'[d] = sent[d]
             /\ tries'[d] = tries[d] /\ stalls'[d] = stalls[d]
  <2>1. e # d
    BY <1>3 DEF WorkerStep, StartAttempt, DispatchReturns, DispatchThrows, MarkDelivered,
                MarkFailed, DatabaseFails, WorkerDies
  <2>2. delivery'[d] = delivery[d]
    BY <1>3, <2>1, JobReworks DEF Reworked
  <2>3. job'[d] = job[d]
    BY <1>3, <2>1
    DEF Base, TypeOK, WorkerStep, StartAttempt, DispatchReturns, DispatchThrows, MarkDelivered,
        MarkFailed, DatabaseFails, WorkerDies, Goto, Retry
  <2>4. tries'[d] = tries[d] /\ stalls'[d] = stalls[d] /\ sent'[d] = sent[d]
    BY <1>3, <2>1
    DEF Base, TypeOK, WorkerStep, StartAttempt, DispatchReturns, DispatchThrows, MarkDelivered,
        MarkFailed, DatabaseFails, WorkerDies
  <2> QED
    BY <2>2, <2>3, <2>4
<1>4. CASE UNCHANGED <<delivery, workVars>>
  BY <1>4 DEF workVars
<1> QED
  BY <1>2, <1>3, <1>4 DEF Next, SendAlert, SenderDies, KeyExpires, ChangePolicy, vars

\* When a job gives up with attempts to spare, and its worker has not died
\* twice, the last thing it did was to write how the delivery went.
LEMMA EndsSettled ==
    ASSUME Base, [Next]_vars, NEW d \in Deliveries, job[d] # "ended", job'[d] = "ended"
    PROVE  Settled(d)'
<1>1. ASSUME NEW e \in Deliveries, WorkerStep(e) \/ DatabaseFails(e) \/ WorkerDies(e)
      PROVE  Settled(d)'
  <2>1. e = d
    BY <1>1
    DEF Base, TypeOK, WorkerStep, StartAttempt, DispatchReturns, DispatchThrows, MarkDelivered,
        MarkFailed, DatabaseFails, WorkerDies, Goto, Retry
  <2>2. /\ delivery[d] \in Written /\ d \in DOMAIN job /\ d \in DOMAIN delivery
        /\ d \in DOMAIN tries /\ d \in DOMAIN stalls
        /\ tries[d] \in Nat /\ stalls[d] \in Nat /\ MaxAttempts \in Nat
    BY <1>1, <2>1, JobReworks, RowFields, AttemptsAssumption DEF Base, TypeOK, Rows
  <2>3. CASE StartAttempt(d) \/ DispatchReturns(d) \/ DispatchThrows(d)
    BY <2>2, <2>3 DEF StartAttempt, DispatchReturns, DispatchThrows, Goto
  <2>4. CASE MarkDelivered(d) \/ MarkFailed(d)
    BY <2>2, <2>4 DEF MarkDelivered, MarkFailed, SetStatus, Settled, Written
  <2>5. CASE DatabaseFails(d)
    <3>1. tries'[d] = tries[d] + 1 /\ ~ (tries[d] + 1 < MaxAttempts)
      BY <2>2, <2>5 DEF DatabaseFails, Retry, Goto
    <3> QED
      BY <2>2, <3>1 DEF Settled
  <2>6. CASE WorkerDies(d)
    <3>1. stalls'[d] = stalls[d] + 1 /\ stalls[d] # 0
      BY <2>2, <2>6 DEF WorkerDies, Goto
    <3> QED
      BY <2>2, <3>1 DEF Settled
  <2> QED
    BY <1>1, <2>1, <2>3, <2>4, <2>5, <2>6 DEF WorkerStep
<1>2. ~ \E s \in Senders : SenderStep(s)
  BY DEF Base, TypeOK, SenderStep, ResolveChannels, CreateDelivery, AddJob, workVars
<1>3. CASE UNCHANGED <<delivery, workVars>>
  BY <1>3 DEF workVars
<1> QED
  BY <1>1, <1>2, <1>3 DEF Next, SendAlert, SenderDies, KeyExpires, ChangePolicy, vars

\* However many faults there are: a job that is over has left DELIVERED or
\* FAILED on its row, unless its attempts are spent or its worker died twice
\* (processNotification and the queue's attempts); and what it has left stays
\* (no row is delivered, or sent to, a second time once its job is over).
THEOREM EndedIsSettled ==
    Spec => [](\A d \in Deliveries : Settled(d)) /\ [][\A d \in Deliveries : Over(d)]_vars
<1>1. Init => \A d \in Deliveries : Settled(d)
  BY DEF Init, Settled
<1>2. Base /\ [Next]_vars => \A d \in Deliveries : Over(d)
  BY EndedStays DEF Over
<1>3. Base /\ (\A d \in Deliveries : Settled(d)) /\ [Next]_vars
          => (\A d \in Deliveries : Settled(d))'
  <2> SUFFICES ASSUME Base, \A d \in Deliveries : Settled(d), [Next]_vars, NEW d \in Deliveries
               PROVE  Settled(d)'
    OBVIOUS
  <2>1. CASE job[d] = "ended"
    BY <2>1, EndedStays DEF Settled
  <2>2. CASE job[d] # "ended" /\ job'[d] = "ended"
    BY <2>2, EndsSettled
  <2>3. CASE job'[d] # "ended"
    BY <2>3 DEF Settled
  <2> QED
    BY <2>1, <2>2, <2>3
<1> QED
  BY <1>1, <1>2, <1>3, BaseInvariant, PTL DEF Spec

\* The rows whose job will never be added: PENDING for ever.
Adding(s, d) == sPc[s] = "add" /\ sRow[s] = d
Orphans == {d \in Rows : job[d] = "none" /\ \A s \in Senders : ~Adding(s, d)}

LEMMA OrphansStep ==
    ASSUME Base, [Next]_vars
    PROVE  \/ Orphans' \subseteq Orphans /\ faults' >= faults
           \/ /\ \E d \in Deliveries : Orphans' \subseteq Orphans \cup {d}
              /\ faults' = faults + 1
<1>0. faults \in Nat
  BY LimitsAssumption DEF Base, TypeOK
<1>1. ASSUME NEW s \in Senders, SenderDies(s)
      PROVE  \E d \in Deliveries \cup {NoDelivery} :
                 Orphans' \subseteq Orphans \cup {d} /\ Orphans' \subseteq Deliveries
  <2>1. /\ UNCHANGED <<delivery, job>> /\ sRow[s] \in Deliveries \cup {NoDelivery}
        /\ \A t \in Senders \ {s} : sPc'[t] = sPc[t] /\ sRow'[t] = sRow[t]
    BY <1>1 DEF SenderDies, Forget, workVars, Base, TypeOK
  <2>2. Orphans' \subseteq Orphans \cup {sRow[s]} /\ Orphans' \subseteq Deliveries
    BY <2>1 DEF Orphans, Adding, Rows
  <2> QED
    BY <2>1, <2>2
<1>2. ASSUME NEW s \in Senders, SenderStep(s) PROVE Orphans' \subseteq Orphans /\ faults' >= faults
  <2>1. CASE ResolveChannels(s)
    <3>1. /\ UNCHANGED <<delivery, job, faults>> /\ sPc[s] = "resolve" /\ sPc'[s] # "add"
          /\ \A t \in Senders \ {s} : sPc'[t] = sPc[t] /\ sRow'[t] = sRow[t]
      BY <2>1 DEF ResolveChannels, Forget, workVars, boundVars, Base, TypeOK
    <3> QED
      BY <1>0, <3>1 DEF Orphans, Adding, Rows
  <2>2. CASE CreateDelivery(s)
    <3>1. PICK d \in Deliveries :
             /\ sRow' = [sRow EXCEPT ![s] = d] /\ \A e \in Deliveries \ {d} : delivery'[e] = delivery[e]
      BY <2>2 DEF CreateDelivery, Base, TypeOK
    <3>2. /\ UNCHANGED <<job, faults>> /\ sPc[s] = "create" /\ sPc'[s] = "add" /\ sRow'[s] = d
          /\ \A t \in Senders \ {s} : sPc'[t] = sPc[t] /\ sRow'[t] = sRow[t]
      BY <2>2, <3>1 DEF CreateDelivery, workVars, boundVars, Base, TypeOK
    <3> QED
      BY <1>0, <3>1, <3>2 DEF Orphans, Adding, Rows
  <2>3. CASE AddJob(s)
    <3>1. /\ UNCHANGED <<delivery, faults>> /\ sPc[s] = "add" /\ sPc'[s] # "add"
          /\ \A t \in Senders \ {s} : sPc'[t] = sPc[t] /\ sRow'[t] = sRow[t]
          /\ job'[sRow[s]] = "waiting"
          /\ \A e \in Deliveries \ {sRow[s]} : job'[e] = job[e]
      BY <2>3 DEF AddJob, Forget, boundVars, Base, TypeOK, Linked, Rows
    <3> QED
      BY <1>0, <3>1 DEF Orphans, Adding, Rows
  <2> QED
    BY <1>2, <2>1, <2>2, <2>3 DEF SenderStep
<1>3. ASSUME NEW e \in Deliveries, WorkerStep(e) \/ DatabaseFails(e) \/ WorkerDies(e)
      PROVE  Orphans' \subseteq Orphans /\ faults' >= faults
  <2>1. /\ UNCHANGED senderVars /\ (faults' = faults \/ faults' = faults + 1)
        /\ job[e] # "none" /\ job'[e] # "none" /\ \A d \in Deliveries \ {e} : job'[d] = job[d]
    BY <1>3
    DEF Base, TypeOK, WorkerStep, StartAttempt, DispatchReturns, DispatchThrows, MarkDelivered,
        MarkFailed, DatabaseFails, WorkerDies, Goto, Retry, worldVars
  <2>2. \A d \in Deliveries \ {e} : delivery'[d] = delivery[d]
    BY <1>3, JobReworks DEF Reworked
  <2> QED
    BY <1>0, <2>1, <2>2 DEF Orphans, Adding, Rows, senderVars
<1>4. ASSUME NEW s \in Senders, NEW a \in Alerts, NEW b \in BOOLEAN, SendAlert(s, a, b)
      PROVE  Orphans' \subseteq Orphans /\ faults' >= faults
  <2>1. /\ UNCHANGED <<delivery, job, faults, sRow>> /\ sPc[s] # "add"
        /\ \A t \in Senders \ {s} : sPc'[t] = sPc[t]
    BY <1>4 DEF SendAlert, workVars, Base, TypeOK
  <2> QED
    BY <1>0, <2>1 DEF Orphans, Adding, Rows
<1>5. UNCHANGED <<senderVars, delivery, workVars, faults>>
        => Orphans' \subseteq Orphans /\ faults' >= faults
  BY <1>0 DEF Orphans, Adding, Rows, senderVars, workVars
<1>6. ASSUME NEW s \in Senders, SenderDies(s)
      PROVE  /\ faults' = faults + 1
             /\ \/ Orphans' \subseteq Orphans
                \/ \E d \in Deliveries : Orphans' \subseteq Orphans \cup {d}
  <2>1. faults' = faults + 1
    BY <1>6 DEF SenderDies
  <2>2. PICK d \in Deliveries \cup {NoDelivery} :
            Orphans' \subseteq Orphans \cup {d} /\ Orphans' \subseteq Deliveries
    BY <1>1, <1>6
  <2>3. NoDelivery \notin Deliveries
    BY LimitsAssumption DEF Deliveries, NoDelivery
  <2> QED
    BY <2>1, <2>2, <2>3
<1>7. CASE \E s \in Senders : SenderDies(s)
  BY <1>0, <1>6, <1>7
<1>8. ASSUME NEW a \in Alerts, KeyExpires(a) PROVE Orphans' \subseteq Orphans /\ faults' >= faults
  BY <1>5, <1>0, <1>8 DEF KeyExpires, boundVars
<1>9. ASSUME NEW E \in SUBSET Channels, ChangePolicy(E)
      PROVE  Orphans' \subseteq Orphans /\ faults' >= faults
  BY <1>5, <1>0, <1>9 DEF ChangePolicy
<1>10. CASE UNCHANGED vars
  BY <1>5, <1>0, <1>10 DEF vars, boundVars
<1> QED
  BY <1>2, <1>3, <1>4, <1>7, <1>8, <1>9, <1>10 DEF Next

\* Each death of a process leaves at most one row that is PENDING for ever, for
\* want of a job (sendAlert creates the row before it adds the job).
THEOREM OrphansAreBounded == Spec => [](Cardinality(Orphans) <= faults)
<1> DEFINE Few == Cardinality(Orphans) <= faults
<1>1. Init => Few
  <2> SUFFICES ASSUME Init PROVE Few
    OBVIOUS
  <2>1. Orphans = {}
    BY DEF Init, Orphans, Rows
  <2> QED
    BY <2>1, FS_EmptySet DEF Init
<1>2. Base /\ Base' /\ Few /\ [Next]_vars => Few'
  <2> SUFFICES ASSUME Base, Base', Few, [Next]_vars PROVE Cardinality(Orphans') <= faults'
    OBVIOUS
  <2>1. IsFiniteSet(Orphans) /\ Cardinality(Orphans) \in Nat /\ faults \in Nat /\ faults' \in Nat
    <3>1. IsFiniteSet(Deliveries) /\ Orphans \in SUBSET Deliveries
      BY LimitsAssumption, FS_Interval DEF Deliveries, Orphans, Rows
    <3>2. faults \in Nat /\ faults' \in Nat
      BY LimitsAssumption DEF Base, TypeOK
    <3> QED
      BY <3>1, <3>2, FS_Subset, FS_CardinalityType
  <2>2. CASE Orphans' \subseteq Orphans /\ faults' >= faults
    <3>1. Cardinality(Orphans') <= Cardinality(Orphans) /\ IsFiniteSet(Orphans')
      BY <2>1, <2>2, FS_Subset
    <3> QED
      BY <2>1, <2>2, <3>1, FS_CardinalityType
  <2>3. ASSUME NEW d \in Deliveries, Orphans' \subseteq Orphans \cup {d}, faults' = faults + 1
        PROVE  Cardinality(Orphans') <= faults'
    <3>0. /\ IsFiniteSet(Orphans \cup {d})
          /\ \/ Cardinality(Orphans \cup {d}) = Cardinality(Orphans)
             \/ Cardinality(Orphans \cup {d}) = Cardinality(Orphans) + 1
      BY <2>1, FS_AddElement
    <3>1. IsFiniteSet(Orphans \cup {d}) /\ Cardinality(Orphans \cup {d}) <= Cardinality(Orphans) + 1
      BY <2>1, <3>0
    <3>2. /\ IsFiniteSet(Orphans') /\ Cardinality(Orphans') <= Cardinality(Orphans \cup {d})
          /\ Cardinality(Orphans \cup {d}) \in Nat
      BY <2>3, <3>1, FS_Subset, FS_CardinalityType
    <3> QED
      BY <2>1, <2>3, <3>1, <3>2, FS_CardinalityType
  <2> QED
    BY <2>2, <2>3, OrphansStep
<1> QED
  BY <1>1, <1>2, BaseInvariant, PTL DEF Spec
=============================================================================
