---------------------------- MODULE AlertDelivery ----------------------------
(***************************************************************************)
(* From an alert to the messages it becomes:                                *)
(*   - sendAlert (server/src/notifications/engine.ts): the dedupe gate, the *)
(*     channels, one NotificationDelivery row and one queue job for each;   *)
(*   - processNotification (server/src/workers/notificationWorker.ts), run  *)
(*     by the notifications queue (server/src/queues/index.ts): the message *)
(*     and the status of its row.                                           *)
(*                                                                          *)
(* Callers of sendAlert run concurrently and may die between any two        *)
(* awaits.  The queue runs a job again when its worker died once (stalled)  *)
(* and, up to MaxAttempts, when the attempt threw.                          *)
(*                                                                          *)
(* Not modelled: payloads, the ALERT_SENT timeline row, the channels'       *)
(* formats, and the retention that deletes rows after 90 days.              *)
(***************************************************************************)
EXTENDS Naturals

CONSTANTS
    Senders,        \* jobs and scans that can be in sendAlert at once
    Alerts,         \* the dedupe keys
    Periodic,       \* those sent with dedupeTtlSeconds (SSL_EXPIRING)
    Channels,       \* the organization's channels and webhooks
    Email,          \* the channels of type EMAIL
    MaxAttempts,    \* the notifications queue's `attempts`
    MaxDeliveries,  \* bound: rows created in a behaviour
    MaxCalls,       \* bound: calls of sendAlert in a behaviour
    MaxFaults,      \* bound: deaths of a process and calls that throw in a behaviour
    MaxEdits        \* bound: changes of the alert policy in a behaviour

ASSUME SetsAssumption == Periodic \subseteq Alerts /\ Email \subseteq Channels
ASSUME AttemptsAssumption == MaxAttempts \in Nat \ {0}
ASSUME LimitsAssumption == /\ MaxDeliveries \in Nat /\ MaxCalls \in Nat
                         /\ MaxFaults \in Nat /\ MaxEdits \in Nat

Deliveries == 1..MaxDeliveries   \* the rows, in the order of their creation
NoDelivery == 0
NoAlert    == "none"

VARIABLES
    keys,      \* dedupe keys that are set in Redis
    window,    \* history: how often each key has been set
    enabled,   \* channels that the monitor's policy and webhooks resolve to
    sPc, sAlert, sWindow, sTodo, sRow,  \* each sender: next await, input, locals
    delivery,  \* the rows: alert, channel, window (history), status, attempts
    job,       \* each row's job: "none", "waiting", what its worker does next, "ended"
    tries,     \* attempts of the job that threw
    stalls,    \* attempts of the job whose worker died
    sent,      \* history: messages the channel has accepted for the row
    calls, faults, edits  \* what the bounds have used up

gateVars   == <<keys, window>>
senderVars == <<sPc, sAlert, sWindow, sTodo, sRow>>
workVars   == <<job, tries, stalls, sent>>
boundVars  == <<calls, faults, edits>>
vars == <<gateVars, enabled, senderVars, delivery, workVars, boundVars>>

Statuses == {"PENDING", "RETRYING", "DELIVERED", "FAILED"}
Written == [alert : Alerts, channel : Channels, window : Nat, status : Statuses, attempts : Nat]
NoRow == [alert |-> NoAlert, channel |-> "none", window |-> 0, status |-> "ABSENT", attempts |-> 0]
Rows == {d \in Deliveries : delivery[d] # NoRow}

TypeOK ==
    /\ keys \subseteq Alerts
    /\ window \in [Alerts -> Nat]
    /\ enabled \subseteq Channels
    /\ sPc \in [Senders -> {"idle", "resolve", "create", "add"}]
    /\ sAlert \in [Senders -> Alerts \cup {NoAlert}]
    /\ sWindow \in [Senders -> Nat]
    /\ sTodo \in [Senders -> SUBSET Channels]
    /\ sRow \in [Senders -> Deliveries \cup {NoDelivery}]
    /\ delivery \in [Deliveries -> Written \cup {NoRow}]
    /\ job \in [Deliveries -> {"none", "waiting", "dispatch", "delivered", "failed", "ended"}]
    /\ tries \in [Deliveries -> 0..MaxAttempts]
    /\ stalls \in [Deliveries -> Nat]
    /\ sent \in [Deliveries -> Nat]
    /\ calls \in 0..MaxCalls /\ faults \in 0..MaxFaults /\ edits \in 0..MaxEdits

Init ==
    /\ keys = {} /\ window = [a \in Alerts |-> 0]
    /\ enabled \in SUBSET Channels
    /\ sPc = [s \in Senders |-> "idle"]
    /\ sAlert = [s \in Senders |-> NoAlert]
    /\ sWindow = [s \in Senders |-> 0]
    /\ sTodo = [s \in Senders |-> {}]
    /\ sRow = [s \in Senders |-> NoDelivery]
    /\ delivery = [d \in Deliveries |-> NoRow]
    /\ job = [d \in Deliveries |-> "none"]
    /\ tries = [d \in Deliveries |-> 0]
    /\ stalls = [d \in Deliveries |-> 0]
    /\ sent = [d \in Deliveries |-> 0]
    /\ calls = 0 /\ faults = 0 /\ edits = 0

-----------------------------------------------------------------------------
(***************************************************************************)
(* sendAlert.                                                               *)
(***************************************************************************)

\* Mutant: nothing is stopped by the key.
PassesAlways(a, acquired) == TRUE

\* SET key NX EX: the alert goes on if the key was free; a periodic one stops
\* if it was not, or if Redis did not answer.  Every other alert goes on.
Passes(a, acquired) == acquired \/ a \notin Periodic

SendAlert(s, a, redisAnswers) ==
    /\ sPc[s] = "idle"
    /\ calls < MaxCalls
    /\ calls' = calls + 1
    /\ LET acquired == redisAnswers /\ a \notin keys
       IN /\ keys' = IF acquired THEN keys \cup {a} ELSE keys
          /\ window' = IF acquired THEN [window EXCEPT ![a] = @ + 1] ELSE window
          /\ IF Passes(a, acquired)
             THEN /\ sPc' = [sPc EXCEPT ![s] = "resolve"]
                  /\ sAlert' = [sAlert EXCEPT ![s] = a]
                  /\ sWindow' = [sWindow EXCEPT ![s] = window'[a]]
             ELSE UNCHANGED <<sPc, sAlert, sWindow>>
    /\ UNCHANGED <<enabled, sTodo, sRow, delivery, workVars, faults, edits>>

\* sendAlert is over: returned, threw, or its process died.
Forget(s) ==
    /\ sPc' = [sPc EXCEPT ![s] = "idle"]
    /\ sAlert' = [sAlert EXCEPT ![s] = NoAlert]
    /\ sWindow' = [sWindow EXCEPT ![s] = 0]
    /\ sTodo' = [sTodo EXCEPT ![s] = {}]
    /\ sRow' = [sRow EXCEPT ![s] = NoDelivery]

\* resolveChannels and the webhooks.  Without a channel the alert is dropped;
\* its key stays set.
ResolveChannels(s) ==
    /\ sPc[s] = "resolve"
    /\ IF enabled = {}
       THEN Forget(s)
       ELSE /\ sPc' = [sPc EXCEPT ![s] = "create"]
            /\ sTodo' = [sTodo EXCEPT ![s] = enabled]
            /\ UNCHANGED <<sAlert, sWindow, sRow>>
    /\ UNCHANGED <<gateVars, enabled, delivery, workVars, boundVars>>

\* notificationDelivery.create, for the next channel.
CreateDelivery(s) ==
    /\ sPc[s] = "create"
    /\ \E c \in sTodo[s], d \in Deliveries :
          /\ d \notin Rows /\ \A e \in 1..(d - 1) : e \in Rows
          /\ delivery' = [delivery EXCEPT ![d] =
                            [alert |-> sAlert[s], channel |-> c, window |-> sWindow[s],
                             status |-> "PENDING", attempts |-> 0]]
          /\ sTodo' = [sTodo EXCEPT ![s] = @ \ {c}]
          /\ sRow' = [sRow EXCEPT ![s] = d]
    /\ sPc' = [sPc EXCEPT ![s] = "add"]
    /\ UNCHANGED <<gateVars, enabled, sAlert, sWindow, workVars, boundVars>>

\* notificationQueue.add; after the last channel sendAlert returns true.
AddJob(s) ==
    /\ sPc[s] = "add"
    /\ job' = [job EXCEPT ![sRow[s]] = "waiting"]
    /\ IF sTodo[s] = {}
       THEN Forget(s)
       ELSE /\ sPc' = [sPc EXCEPT ![s] = "create"]
            /\ sRow' = [sRow EXCEPT ![s] = NoDelivery]
            /\ UNCHANGED <<sAlert, sWindow, sTodo>>
    /\ UNCHANGED <<gateVars, enabled, delivery, tries, stalls, sent, boundVars>>

\* The rest of the call never happens.
SenderDies(s) ==
    /\ sPc[s] # "idle"
    /\ faults < MaxFaults
    /\ faults' = faults + 1
    /\ Forget(s)
    /\ UNCHANGED <<gateVars, enabled, delivery, workVars, calls, edits>>

-----------------------------------------------------------------------------
(***************************************************************************)
(* processNotification, for the job of row d.                               *)
(***************************************************************************)

SetStatus(d, s) == delivery' = [delivery EXCEPT ![d].status = s]
Goto(d, next) == job' = [job EXCEPT ![d] = next]
worldVars == <<gateVars, enabled, senderVars, calls, edits>>

\* Mutant: the attempt is not written before the message is sent.
StartUncounted(d) ==
    /\ job[d] = "waiting"
    /\ SetStatus(d, "RETRYING")
    /\ Goto(d, "dispatch")
    /\ UNCHANGED <<worldVars, tries, stalls, sent, faults>>

\* The row is read, then status RETRYING and attempts + 1, whatever the row
\* said before.
StartAttempt(d) ==
    /\ job[d] = "waiting"
    /\ delivery' = [delivery EXCEPT ![d].status = "RETRYING", ![d].attempts = @ + 1]
    /\ Goto(d, "dispatch")
    /\ UNCHANGED <<worldVars, tries, stalls, sent, faults>>

\* dispatchChannel returns: the channel took the message.  An e-mail that no
\* transport took returns too (sendMail never throws).
DispatchReturns(d) ==
    /\ job[d] = "dispatch"
    /\ \/ sent' = [sent EXCEPT ![d] = @ + 1]
       \/ delivery[d].channel \in Email /\ UNCHANGED sent
    /\ Goto(d, "delivered")
    /\ UNCHANGED <<worldVars, delivery, tries, stalls, faults>>

\* Mutant: an error of the channel is logged and otherwise ignored.
DispatchSwallows(d) ==
    /\ job[d] = "dispatch"
    /\ Goto(d, "delivered")
    /\ UNCHANGED <<worldVars, delivery, tries, stalls, sent, faults>>

\* dispatchChannel throws: the channel refused the message, or it took it
\* and answered after the timeout; an e-mail throws before anything is sent
\* (its channel was deleted or names no recipient).
DispatchThrows(d) ==
    /\ job[d] = "dispatch"
    /\ \/ UNCHANGED sent
       \/ delivery[d].channel \notin Email /\ sent' = [sent EXCEPT ![d] = @ + 1]
    /\ Goto(d, "failed")
    /\ UNCHANGED <<worldVars, delivery, tries, stalls, faults>>

\* Mutant: the row says what the channel said.
MarkSent(d) ==
    /\ job[d] = "delivered"
    /\ SetStatus(d, "SENT")
    /\ Goto(d, "ended")
    /\ UNCHANGED <<worldVars, tries, stalls, sent, faults>>

MarkDelivered(d) ==
    /\ job[d] = "delivered"
    /\ SetStatus(d, "DELIVERED")
    /\ Goto(d, "ended")
    /\ UNCHANGED <<worldVars, tries, stalls, sent, faults>>

\* The catch block: FAILED, and the job itself succeeds.
MarkFailed(d) ==
    /\ job[d] = "failed"
    /\ SetStatus(d, "FAILED")
    /\ Goto(d, "ended")
    /\ UNCHANGED <<worldVars, tries, stalls, sent, faults>>

\* Mutant: the queue does not retry an attempt that threw.
RetryNever(d) == Goto(d, "ended")

\* An attempt that threw is retried until MaxAttempts have been made.
Retry(d) == Goto(d, IF tries[d] + 1 < MaxAttempts THEN "waiting" ELSE "ended")

\* A database call fails.  Within the try block that is caught: the row of a
\* message that was sent is on its way to FAILED.  Elsewhere the attempt throws.
DatabaseFails(d) ==
    /\ faults < MaxFaults
    /\ faults' = faults + 1
    /\ \/ job[d] = "delivered" /\ Goto(d, "failed") /\ UNCHANGED tries
       \/ /\ job[d] \in {"waiting", "failed"}
          /\ Retry(d)
          /\ tries' = [tries EXCEPT ![d] = @ + 1]
    /\ UNCHANGED <<worldVars, delivery, stalls, sent>>

\* The worker dies.  The job is found stalled and runs again, once.
WorkerDies(d) ==
    /\ job[d] \in {"dispatch", "delivered", "failed"}
    /\ faults < MaxFaults
    /\ faults' = faults + 1
    /\ stalls' = [stalls EXCEPT ![d] = @ + 1]
    /\ Goto(d, IF stalls[d] = 0 THEN "waiting" ELSE "ended")
    /\ UNCHANGED <<worldVars, delivery, tries, sent>>

-----------------------------------------------------------------------------
\* The life of a dedupe key ends.
KeyExpires(a) ==
    /\ a \in keys
    /\ keys' = keys \ {a}
    /\ UNCHANGED <<window, enabled, senderVars, delivery, workVars, boundVars>>

\* upsertPolicy, deletePolicy, or a channel is switched on or off.
ChangePolicy(E) ==
    /\ edits < MaxEdits
    /\ edits' = edits + 1
    /\ enabled' = E
    /\ UNCHANGED <<gateVars, senderVars, delivery, workVars, calls, faults>>

SenderStep(s) == ResolveChannels(s) \/ CreateDelivery(s) \/ AddJob(s)
WorkerStep(d) == \/ StartAttempt(d) \/ DispatchReturns(d) \/ DispatchThrows(d)
                 \/ MarkDelivered(d) \/ MarkFailed(d)

Next ==
    \/ \E s \in Senders : \/ \E a \in Alerts, b \in BOOLEAN : SendAlert(s, a, b)
                          \/ SenderStep(s) \/ SenderDies(s)
    \/ \E d \in Deliveries : WorkerStep(d) \/ DatabaseFails(d) \/ WorkerDies(d)
    \/ \E a \in Alerts : KeyExpires(a)
    \/ \E E \in SUBSET Channels : ChangePolicy(E)

Spec == Init /\ [][Next]_vars

\* A call goes on until it returns; workers take jobs and finish them.
Fairness ==
    /\ \A s \in Senders : WF_vars(SenderStep(s))
    /\ \A d \in Deliveries : WF_vars(WorkerStep(d))

FairSpec == Spec /\ Fairness

-----------------------------------------------------------------------------
(***************************************************************************)
(* Properties.                                                              *)
(***************************************************************************)

\* "bounded periodic alerts" (comment of sendAlert): however many checks
\* raise it at once, and whatever dies or is retried, a periodic alert reaches
\* a channel in at most one delivery per life of its key.
PeriodicOncePerWindow ==
    \A d, e \in Rows :
        (d # e /\ delivery[d].alert \in Periodic /\ delivery[d].alert = delivery[e].alert
               /\ delivery[d].channel = delivery[e].channel)
            => delivery[d].window # delivery[e].window

\* Every message was counted before it left, and only a fault makes a second
\* attempt: without one a subscriber gets each delivery at most once.
MessagesAreCounted ==
    \A d \in Rows : /\ sent[d] <= delivery[d].attempts
                    /\ delivery[d].attempts <= 1 + stalls[d] + tries[d]

\* A delivery on record as made was taken by its channel, e-mail excepted.
DeliveredWasSent ==
    \A d \in Rows : delivery[d].status = "DELIVERED" /\ delivery[d].channel \notin Email
                        => sent[d] > 0

\* A delivery whose job reached the queue ends DELIVERED or FAILED and stays
\* so, through the death of its worker or a database error (MaxFaults = 1
\* here: a second death is one more than the queue forgives).
EnqueuedSettles ==
    \A d \in Deliveries :
        (job[d] # "none") ~> [](delivery[d].status \in {"DELIVERED", "FAILED"})
=============================================================================
