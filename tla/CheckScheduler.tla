--------------------------- MODULE CheckScheduler ---------------------------
(***************************************************************************)
(* How one monitor comes to be checked again and again:                     *)
(*   - enqueueDueChecks (server/src/workers/scheduler.ts), run by any       *)
(*     number of scheduler instances: scan, claim, enqueue;                 *)
(*   - processMonitorCheck (server/src/workers/monitorWorker.ts), which     *)
(*     re-arms nextCheckAt, and the failure counter at the head of          *)
(*     processCheckOutcome (server/src/incident/engine.ts), whose key       *)
(*     lives for Ttl after the last failure;                                *)
(*   - the operators' edit, pause, resume and delete                        *)
(*     (server/src/services/monitor.service.ts).                            *)
(*                                                                          *)
(* All processes read one clock.  Every date of the code is kept relative   *)
(* to it: nextCheckAt is "due in dueIn ticks", and the `now` a scheduler    *)
(* instance read when its scan began is "scanAge ticks ago".                *)
(*                                                                          *)
(* MaxDelay is the one assumption on speed: an overdue monitor is scanned,  *)
(* and a scan, or an attempt of a job (its wait in the queue included),     *)
(* ends, before more than MaxDelay ticks have passed.                       *)
(***************************************************************************)
EXTENDS Integers

CONSTANTS
    Schedulers,        \* processes that run startScheduler
    Jobs,              \* bound: jobs of this monitor in the queue or in a worker at once
    Intervals,         \* the values of monitor.intervalSeconds
    MaxInterval,       \* the longest one that validation accepts
    FailureThreshold,  \* monitor.failureThreshold
    Ttl,               \* life of the failure counter after the last failure
    MaxDelay,          \* bound: see above
    MaxEdits,          \* bound: edits, pauses and resumes in a behaviour
    MaxCrashes         \* bound: crashes and failed attempts in a behaviour

ASSUME IntervalsAssumption == MaxInterval \in Nat /\ Intervals \subseteq 1..MaxInterval
ASSUME TimesAssumption == MaxDelay \in Nat /\ Ttl \in Nat \ {0}
ASSUME CounterAssumption == FailureThreshold \in Nat \ {0}
ASSUME LimitsAssumption == MaxEdits \in Nat /\ MaxCrashes \in Nat

VARIABLES
    mode,          \* the monitor's row: "active", "paused" or "deleted"
    interval,      \* monitor.intervalSeconds
    armed, dueIn,  \* nextCheckAt is not null; the ticks until it, negative when overdue
    scanPc, scanAge, scanInterval,  \* each scheduler: next await, age of its `now`, what it read
    jobPc, jobAge, jobInterval, jobFailed,  \* each job: next await, age, and its locals
    failcount, ttl,   \* the counter (no further than the threshold) and what is left of its life
    targetUp,         \* the world: what a probe that ends now reports
    sinceClaim,       \* history: ticks since the `now` of the latest claim (saturates)
    excused,          \* history: since that claim the monitor was created or resumed, or
                      \* nextCheckAt was written from an interval that an edit had replaced
    edits, crashes     \* what the bounds have used up

rowVars   == <<mode, interval, armed, dueIn>>
scanVars  == <<scanPc, scanAge, scanInterval>>
jobVars   == <<jobPc, jobAge, jobInterval, jobFailed>>
countVars == <<failcount, ttl>>
histVars  == <<sinceClaim, excused>>
boundVars == <<edits, crashes>>
vars == <<rowVars, scanVars, jobVars, countVars, targetUp, histVars, boundVars>>

Smallest(a, b) == IF a < b THEN a ELSE b

\* Longest time the history tells apart.
Horizon == MaxInterval + MaxDelay

TypeOK ==
    /\ mode \in {"active", "paused", "deleted"}
    /\ interval \in Intervals
    /\ armed \in BOOLEAN /\ dueIn \in (-MaxDelay)..MaxInterval
    /\ scanPc \in [Schedulers -> {"idle", "claim", "add"}]
    /\ scanAge \in [Schedulers -> 0..MaxDelay]
    /\ scanInterval \in [Schedulers -> Intervals \cup {0}]
    /\ jobPc \in [Jobs -> {"none", "queued", "probe", "rearm", "count"}]
    /\ jobAge \in [Jobs -> 0..MaxDelay]
    /\ jobInterval \in [Jobs -> Intervals \cup {0}]
    /\ jobFailed \in [Jobs -> BOOLEAN]
    /\ failcount \in 0..FailureThreshold /\ ttl \in 0..Ttl
    /\ targetUp \in BOOLEAN
    /\ sinceClaim \in 0..Horizon /\ excused \in BOOLEAN
    /\ edits \in 0..MaxEdits /\ crashes \in 0..MaxCrashes

\* createMonitor has just written the row.
Init ==
    /\ mode = "active" /\ interval \in Intervals /\ armed = TRUE /\ dueIn = interval
    /\ scanPc = [s \in Schedulers |-> "idle"]
    /\ scanAge = [s \in Schedulers |-> 0]
    /\ scanInterval = [s \in Schedulers |-> 0]
    /\ jobPc = [j \in Jobs |-> "none"]
    /\ jobAge = [j \in Jobs |-> 0]
    /\ jobInterval = [j \in Jobs |-> 0]
    /\ jobFailed = [j \in Jobs |-> FALSE]
    /\ failcount = 0 /\ ttl = 0
    /\ targetUp \in BOOLEAN
    /\ sinceClaim = 0 /\ excused = TRUE
    /\ edits = 0 /\ crashes = 0

-----------------------------------------------------------------------------
(***************************************************************************)
(* A scheduler instance.                                                    *)
(***************************************************************************)

\* The scheduler is between two scans; what it read is forgotten.
EndScan(s) ==
    /\ scanPc' = [scanPc EXCEPT ![s] = "idle"]
    /\ scanAge' = [scanAge EXCEPT ![s] = 0]
    /\ scanInterval' = [scanInterval EXCEPT ![s] = 0]

\* `now` is read and findMany returns the monitor among those due.  The
\* `running` flag keeps a second scan of the same instance out.
Scan(s) ==
    /\ scanPc[s] = "idle"
    /\ mode = "active" /\ armed /\ dueIn <= 0
    /\ scanPc' = [scanPc EXCEPT ![s] = "claim"]
    /\ scanAge' = [scanAge EXCEPT ![s] = 0]
    /\ scanInterval' = [scanInterval EXCEPT ![s] = interval]
    /\ UNCHANGED <<rowVars, jobVars, countVars, targetUp, histVars, boundVars>>

\* Mutant: the claim does not test nextCheckAt again.
StillDueAnyway(s) == mode # "deleted"

\* The WHERE of the claim, evaluated by the database when the update runs.
StillDue(s) == mode # "deleted" /\ armed /\ dueIn <= -scanAge[s]

\* Mutant: the claimed row is disarmed until its check has run.
ClaimDisarms(s) ==
    /\ scanPc[s] = "claim"
    /\ IF StillDue(s)
       THEN /\ armed' = FALSE
            /\ sinceClaim' = scanAge[s] /\ excused' = (scanInterval[s] # interval)
            /\ scanPc' = [scanPc EXCEPT ![s] = "add"]
            /\ UNCHANGED <<scanAge, scanInterval>>
       ELSE EndScan(s) /\ UNCHANGED <<armed, histVars>>
    /\ UNCHANGED <<mode, interval, dueIn, jobVars, countVars, targetUp, boundVars>>

\* updateMany: the row moves on only if it is still due; the loser goes on.
Claim(s) ==
    /\ scanPc[s] = "claim"
    /\ IF StillDue(s)
       THEN /\ dueIn' = scanInterval[s] - scanAge[s]
            /\ armed' = TRUE
            /\ sinceClaim' = scanAge[s] /\ excused' = (scanInterval[s] # interval)
            /\ scanPc' = [scanPc EXCEPT ![s] = "add"]
            /\ UNCHANGED <<scanAge, scanInterval>>
       ELSE EndScan(s) /\ UNCHANGED <<dueIn, armed, histVars>>
    /\ UNCHANGED <<mode, interval, jobVars, countVars, targetUp, boundVars>>

\* monitorQueue.add.
Enqueue(s) ==
    /\ scanPc[s] = "add"
    /\ \E j \in Jobs : /\ jobPc[j] = "none"
                       /\ jobPc' = [jobPc EXCEPT ![j] = "queued"]
                       /\ jobAge' = [jobAge EXCEPT ![j] = 0]
    /\ EndScan(s)
    /\ UNCHANGED <<rowVars, jobInterval, jobFailed, countVars, targetUp, histVars, boundVars>>

\* The process dies, or a call throws and the tick is given up: a claim
\* that was won is lost with it.
SchedulerCrash(s) ==
    /\ scanPc[s] # "idle"
    /\ crashes < MaxCrashes
    /\ crashes' = crashes + 1
    /\ EndScan(s)
    /\ UNCHANGED <<rowVars, jobVars, countVars, targetUp, histVars, edits>>

-----------------------------------------------------------------------------
(***************************************************************************)
(* A job in a worker.                                                       *)
(***************************************************************************)

Goto(j, next) ==
    /\ jobPc' = [jobPc EXCEPT ![j] = next]
    /\ UNCHANGED jobAge

\* The attempt is over: its locals are gone, and the job is in the queue
\* again ("queued") or no more ("none").
Leave(j, next) ==
    /\ jobPc' = [jobPc EXCEPT ![j] = next]
    /\ jobAge' = [jobAge EXCEPT ![j] = 0]
    /\ jobInterval' = [jobInterval EXCEPT ![j] = 0]
    /\ jobFailed' = [jobFailed EXCEPT ![j] = FALSE]

\* The worker takes the job and reads the monitor; a deleted or paused one
\* is not probed.
StartCheck(j) ==
    /\ jobPc[j] = "queued"
    /\ IF mode = "active"
       THEN /\ Goto(j, "probe")
            /\ jobInterval' = [jobInterval EXCEPT ![j] = interval]
            /\ UNCHANGED jobFailed
       ELSE Leave(j, "none")
    /\ UNCHANGED <<rowVars, scanVars, countVars, targetUp, histVars, boundVars>>

\* runCheck returns and its result is inserted.
StoreResult(j) ==
    /\ jobPc[j] = "probe"
    /\ mode # "deleted"
    /\ jobFailed' = [jobFailed EXCEPT ![j] = ~targetUp]
    /\ Goto(j, "rearm")
    /\ UNCHANGED <<rowVars, scanVars, jobInterval, countVars, targetUp, histVars, boundVars>>

\* Mutant: the monitor is due again as soon as its check has ended.
RearmAtOnce(j) ==
    /\ jobPc[j] = "rearm"
    /\ mode # "deleted"
    /\ armed' = TRUE
    /\ dueIn' = 0
    /\ excused' = (excused \/ jobInterval[j] # interval)
    /\ Goto(j, "count")
    /\ UNCHANGED <<mode, interval, scanVars, jobInterval, jobFailed, countVars, targetUp,
                   sinceClaim, boundVars>>

\* monitor.update: nextCheckAt is written with the interval read at the
\* start, whether the monitor has been edited or paused since.
Rearm(j) ==
    /\ jobPc[j] = "rearm"
    /\ mode # "deleted"
    /\ armed' = TRUE
    /\ dueIn' = jobInterval[j]
    /\ excused' = (excused \/ jobInterval[j] # interval)
    /\ Goto(j, "count")
    /\ UNCHANGED <<mode, interval, scanVars, jobInterval, jobFailed, countVars, targetUp,
                   sinceClaim, boundVars>>

\* Mutant: the life of the counter is set by the first failure only.
CountNoExtension(j) ==
    /\ jobPc[j] = "count"
    /\ IF jobFailed[j]
       THEN /\ failcount' = Smallest(failcount + 1, FailureThreshold)
            /\ ttl' = IF failcount = 0 THEN Ttl ELSE ttl
       ELSE failcount' = 0 /\ ttl' = 0
    /\ Leave(j, "none")
    /\ UNCHANGED <<rowVars, scanVars, targetUp, histVars, boundVars>>

\* INCR and EXPIRE, or DEL; the rest of processCheckOutcome is IncidentEngine.
Count(j) ==
    /\ jobPc[j] = "count"
    /\ IF jobFailed[j]
       THEN failcount' = Smallest(failcount + 1, FailureThreshold) /\ ttl' = Ttl
       ELSE failcount' = 0 /\ ttl' = 0
    /\ Leave(j, "none")
    /\ UNCHANGED <<rowVars, scanVars, targetUp, histVars, boundVars>>

\* The attempt is over and the queue runs the job again, or gives it up (at
\* any attempt, where the code has three: more behaviours, not fewer).
FailedAttempt(j) ==
    /\ Leave(j, "queued") \/ Leave(j, "none")
    /\ UNCHANGED <<rowVars, scanVars, countVars, targetUp, histVars, edits>>

\* A call threw, the worker died, or the job stalled.
JobFails(j) ==
    /\ jobPc[j] # "none"
    /\ crashes < MaxCrashes
    /\ crashes' = crashes + 1
    /\ FailedAttempt(j)

\* The row is gone: inserting the result or updating the monitor throws.
WriteToDeleted(j) ==
    /\ jobPc[j] \in {"probe", "rearm"}
    /\ mode = "deleted"
    /\ FailedAttempt(j)
    /\ UNCHANGED crashes

-----------------------------------------------------------------------------
(***************************************************************************)
(* The operators and the world.                                             *)
(***************************************************************************)

\* One request of an operator, on a monitor that is there.
Request ==
    /\ mode # "deleted"
    /\ edits < MaxEdits
    /\ edits' = edits + 1
    /\ UNCHANGED <<scanVars, jobVars, countVars, targetUp, sinceClaim, crashes>>

\* Mutant: the interval that is written is not one validation lets through.
UpdateMonitorUnvalidated(i) ==
    /\ Request
    /\ interval' = i - 1 /\ armed' = TRUE /\ dueIn' = i - 1
    /\ UNCHANGED <<mode, excused>>

\* updateMonitor with an interval: paused monitors are armed too.
UpdateMonitor(i) ==
    /\ Request
    /\ interval' = i /\ armed' = TRUE /\ dueIn' = i
    /\ UNCHANGED <<mode, excused>>

\* setPaused(true); nextCheckAt becomes null.
Pause ==
    /\ Request
    /\ mode' = "paused" /\ armed' = FALSE
    /\ UNCHANGED <<interval, dueIn, excused>>

\* Mutant: resuming leaves nextCheckAt null.
ResumeUnarmed ==
    /\ Request
    /\ mode' = "active" /\ excused' = TRUE
    /\ UNCHANGED <<interval, armed, dueIn>>

\* setPaused(false): due at once.
Resume ==
    /\ Request
    /\ mode' = "active" /\ armed' = TRUE /\ dueIn' = 0 /\ excused' = TRUE
    /\ UNCHANGED interval

DeleteMonitor ==
    /\ Request
    /\ mode' = "deleted"
    /\ UNCHANGED <<interval, armed, dueIn, excused>>

\* The target goes down or comes back.
TargetFlip ==
    /\ targetUp' = ~targetUp
    /\ UNCHANGED <<rowVars, scanVars, jobVars, countVars, histVars, boundVars>>

\* Nobody has waited for MaxDelay already.
OnTime ==
    /\ \A s \in Schedulers : scanPc[s] # "idle" => scanAge[s] < MaxDelay
    /\ \A j \in Jobs : jobPc[j] # "none" => jobAge[j] < MaxDelay
    /\ mode = "active" /\ armed => dueIn > -MaxDelay

\* The clock moves on.  A date further back than MaxDelay need not be told
\* from MaxDelay: no scan in progress began before.
Tick ==
    /\ OnTime
    /\ dueIn' = IF dueIn > -MaxDelay THEN dueIn - 1 ELSE dueIn
    /\ scanAge' = [s \in Schedulers |-> scanAge[s] + (IF scanPc[s] = "idle" THEN 0 ELSE 1)]
    /\ jobAge' = [j \in Jobs |-> jobAge[j] + (IF jobPc[j] = "none" THEN 0 ELSE 1)]
    /\ ttl' = IF ttl > 0 THEN ttl - 1 ELSE 0
    /\ failcount' = IF ttl <= 1 THEN 0 ELSE failcount
    /\ sinceClaim' = Smallest(sinceClaim + 1, Horizon)
    /\ UNCHANGED <<mode, interval, armed, scanPc, scanInterval, jobPc, jobInterval, jobFailed,
                   targetUp, excused, boundVars>>

-----------------------------------------------------------------------------
SchedulerStep(s) == Scan(s) \/ Claim(s) \/ Enqueue(s)
JobStep(j) == StartCheck(j) \/ StoreResult(j) \/ Rearm(j) \/ Count(j) \/ WriteToDeleted(j)

Operators == \/ \E i \in Intervals : UpdateMonitor(i)
             \/ Pause \/ Resume \/ DeleteMonitor

Next ==
    \/ \E s \in Schedulers : SchedulerStep(s) \/ SchedulerCrash(s)
    \/ \E j \in Jobs : JobStep(j) \/ JobFails(j)
    \/ Operators
    \/ TargetFlip
    \/ Tick

Spec == Init /\ [][Next]_vars

\* Some scheduler's setInterval keeps firing, the processes that run take
\* their steps, and time passes.
Fairness ==
    /\ \A s \in Schedulers : WF_vars(SchedulerStep(s))
    /\ \A j \in Jobs : WF_vars(JobStep(j))
    /\ WF_vars(Tick)

FairSpec == Spec /\ Fairness

-----------------------------------------------------------------------------
(***************************************************************************)
(* Properties.                                                              *)
(***************************************************************************)

\* An interval separates the `now` of two claims that win, whichever
\* schedulers made them and however many were scanning, and however a check,
\* an edit, a pause or a crash falls between them.  Exempt is the first claim
\* after a creation or a resume, and after nextCheckAt was written from an
\* interval read before an edit: by a check that ends after the edit, or by a
\* claim when the edit and a resume fall on the very instant of its scan.
ClaimsAreSpaced ==
    [][\A s \in Schedulers :
          (scanPc[s] = "claim" /\ scanPc'[s] = "add" /\ ~excused)
              => sinceClaim - scanAge[s] >= interval]_vars

Active == mode = "active"
Probing == \E j \in Jobs : jobPc[j] = "probe"

\* A monitor that stays active is probed again and again: neither a claim
\* whose enqueue was lost, nor a failed job, a race of two schedulers, or a
\* pause that overtook a check takes it off the schedule for good.
KeepsBeingChecked == <>[]Active => []<>Probing

\* The counter of an outage that lasts is at the threshold at least once,
\* which is when the engine opens an incident.
OutageIsNoticed == <>[](Active /\ ~targetUp) => <>(failcount = FailureThreshold)

\* An outage that lasts brings the failure counter to the threshold, and it
\* stays there until the target is up again.
OutageReachesThreshold == <>[](Active /\ ~targetUp) => <>[](failcount = FailureThreshold)
=============================================================================
