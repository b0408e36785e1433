------------------------ MODULE CheckSchedulerProofs ------------------------
(***************************************************************************)
(* For any number of schedulers and jobs, any intervals and any bounds, the *)
(* claims of CheckScheduler are spaced by the interval, an active monitor   *)
(* is always scheduled, and the failure counter outlives the wait for the   *)
(* next check as long as its life is an interval and three delays.          *)
(***************************************************************************)
EXTENDS CheckScheduler, TLAPS

(***************************************************************************)
(* A monitor whose next check has a date is not due before one interval has *)
(* passed since the latest claim.  Every write of nextCheckAt keeps this,   *)
(* and a tick moves both terms by the same amount, until the history or     *)
(* the date saturates.                                                      *)
(***************************************************************************)
Spaced == armed /\ ~excused => dueIn + sinceClaim >= interval

IInv == TypeOK /\ Spaced

\* What arithmetic needs of the type invariant.
LEMMA Numbers ==
    ASSUME TypeOK
    PROVE  /\ interval \in 1..MaxInterval /\ dueIn \in (-MaxDelay)..MaxInterval
           /\ sinceClaim \in 0..(MaxInterval + MaxDelay)
           /\ \A s \in Schedulers : scanAge[s] \in 0..MaxDelay /\ scanInterval[s] \in 0..MaxInterval
           /\ \A j \in Jobs : jobAge[j] \in 0..MaxDelay /\ jobInterval[j] \in 0..MaxInterval
<1>1. interval \in 1..MaxInterval /\ \A i \in Intervals \cup {0} : i \in 0..MaxInterval
  BY IntervalsAssumption DEF TypeOK
<1>2. \A s \in Schedulers : scanInterval[s] \in Intervals \cup {0}
  BY DEF TypeOK
<1>3. \A j \in Jobs : jobInterval[j] \in Intervals \cup {0}
  BY DEF TypeOK
<1> QED
  BY <1>1, <1>2, <1>3 DEF TypeOK, Horizon

LEMMA InitHolds == Init => IInv
  BY IntervalsAssumption, TimesAssumption, CounterAssumption, LimitsAssumption
     DEF Init, IInv, TypeOK, Spaced, Horizon

\* A job that leaves its worker has locals of the right types again.
LEMMA LeaveKeepsType ==
    ASSUME TypeOK, NEW j \in Jobs, NEW next \in {"none", "queued"}, Leave(j, next)
    PROVE  /\ jobPc' \in [Jobs -> {"none", "queued", "probe", "rearm", "count"}]
           /\ jobAge' \in [Jobs -> 0..MaxDelay]
           /\ jobInterval' \in [Jobs -> Intervals \cup {0}]
           /\ jobFailed' \in [Jobs -> BOOLEAN]
  BY TimesAssumption DEF TypeOK, Leave

LEMMA StepKeepsType == TypeOK /\ [Next]_vars => TypeOK'
<1> SUFFICES ASSUME TypeOK, [Next]_vars PROVE TypeOK'
  OBVIOUS
<1> USE DEF TypeOK, Horizon
<1>0. /\ interval \in 1..MaxInterval /\ MaxInterval \in Nat /\ MaxDelay \in Nat
      /\ \A i \in Intervals : i \in 1..MaxInterval
  BY Numbers, IntervalsAssumption, TimesAssumption
<1>1. CASE UNCHANGED vars
  BY <1>1 DEF vars, rowVars, scanVars, jobVars, countVars, histVars, boundVars
<1>2. ASSUME NEW s \in Schedulers, Scan(s) PROVE TypeOK'
  BY <1>2, TimesAssumption DEF Scan, rowVars, jobVars, countVars, histVars, boundVars
<1>3. ASSUME NEW s \in Schedulers, Claim(s) PROVE TypeOK'
  <2>1. CASE StillDue(s)
    <3>1. /\ dueIn' = scanInterval[s] - scanAge[s] /\ sinceClaim' = scanAge[s]
          /\ armed' = TRUE /\ excused' \in BOOLEAN
      BY <1>3, <2>1 DEF Claim
    <3>2. scanAge[s] \in 0..MaxDelay /\ scanInterval[s] \in 0..MaxInterval
      BY Numbers
    <3>3. dueIn' \in (-MaxDelay)..MaxInterval /\ sinceClaim' \in 0..(MaxInterval + MaxDelay)
      BY <1>0, <3>1, <3>2
    <3> QED
      BY <1>3, <2>1, <3>1, <3>3 DEF TypeOK, Horizon, Claim, jobVars, countVars, boundVars
  <2>2. CASE ~StillDue(s)
    BY <1>3, <2>2, TimesAssumption DEF TypeOK, Horizon, Claim, EndScan, jobVars, countVars, histVars,
                                       boundVars
  <2> QED
    BY <2>1, <2>2
<1>4. ASSUME NEW s \in Schedulers, Enqueue(s) PROVE TypeOK'
  BY <1>4, TimesAssumption DEF Enqueue, EndScan, rowVars, countVars, histVars, boundVars
<1>5. ASSUME NEW s \in Schedulers, SchedulerCrash(s) PROVE TypeOK'
  <2>1. crashes' \in 0..MaxCrashes
    BY <1>5, LimitsAssumption DEF SchedulerCrash
  <2> QED
    BY <1>5, <2>1, TimesAssumption DEF SchedulerCrash, EndScan, rowVars, jobVars, countVars, histVars
<1>6. ASSUME NEW j \in Jobs, StartCheck(j) PROVE TypeOK'
  <2>1. CASE mode = "active"
    BY <1>6, <2>1 DEF StartCheck, Goto, rowVars, scanVars, countVars, histVars, boundVars
  <2>2. CASE mode # "active"
    <3>1. Leave(j, "none")
      BY <1>6, <2>2 DEF StartCheck
    <3> QED
      BY <1>6, <3>1, LeaveKeepsType DEF StartCheck, rowVars, scanVars, countVars, histVars, boundVars
  <2> QED
    BY <2>1, <2>2
<1>7. ASSUME NEW j \in Jobs, StoreResult(j) PROVE TypeOK'
  BY <1>7 DEF StoreResult, Goto, rowVars, scanVars, countVars, histVars, boundVars
<1>8. ASSUME NEW j \in Jobs, Rearm(j) PROVE TypeOK'
  <2>1. dueIn' = jobInterval[j] /\ armed' = TRUE /\ excused' \in BOOLEAN
    BY <1>8 DEF TypeOK, Rearm
  <2>2. jobInterval[j] \in 0..MaxInterval
    BY Numbers
  <2>3. dueIn' \in (-MaxDelay)..MaxInterval
    BY <1>0, <2>1, <2>2
  <2> QED
    BY <1>8, <2>1, <2>3 DEF TypeOK, Horizon, Rearm, Goto, scanVars, countVars, boundVars
<1>9. ASSUME NEW j \in Jobs, Count(j) PROVE TypeOK'
  <2>1. failcount' \in 0..FailureThreshold /\ ttl' \in 0..Ttl
    BY <1>9, CounterAssumption, TimesAssumption DEF Count, Smallest
  <2> QED
    BY <1>9, <2>1, LeaveKeepsType DEF Count, rowVars, scanVars, histVars, boundVars
<1>10. ASSUME NEW j \in Jobs, JobFails(j) \/ WriteToDeleted(j) PROVE TypeOK'
  <2>1. crashes' \in 0..MaxCrashes /\ FailedAttempt(j)
    BY <1>10, LimitsAssumption DEF JobFails, WriteToDeleted
  <2> QED
    BY <2>1, LeaveKeepsType DEF FailedAttempt, rowVars, scanVars, countVars, histVars
<1>11. CASE Operators
  <2>1. Request /\ edits' \in 0..MaxEdits
    BY <1>11, LimitsAssumption DEF Operators, UpdateMonitor, Pause, Resume, DeleteMonitor, Request
  <2>2. /\ mode' \in {"active", "paused", "deleted"} /\ interval' \in Intervals
        /\ armed' \in BOOLEAN /\ excused' \in BOOLEAN
    BY <1>11 DEF TypeOK, Operators, UpdateMonitor, Pause, Resume, DeleteMonitor
  <2>3. dueIn' \in (-MaxDelay)..MaxInterval
    <3>1. dueIn' = dueIn \/ dueIn' = 0 \/ dueIn' \in Intervals
      BY <1>11 DEF Operators, UpdateMonitor, Pause, Resume, DeleteMonitor
    <3> QED
      <4>1. dueIn \in (-MaxDelay)..MaxInterval
        BY DEF TypeOK
      <4>2. dueIn' \in 1..MaxInterval \/ dueIn' = 0 \/ dueIn' \in (-MaxDelay)..MaxInterval
        BY <1>0, <3>1, <4>1
      <4> QED
        BY <1>0, <4>2
  <2> QED
    BY <2>1, <2>2, <2>3 DEF TypeOK, Horizon, Request, scanVars, jobVars, countVars
<1>12. CASE TargetFlip
  BY <1>12 DEF TargetFlip, rowVars, scanVars, jobVars, countVars, histVars, boundVars
<1>13. CASE Tick
  <2>1. \A s \in Schedulers : scanAge[s] + (IF scanPc[s] = "idle" THEN 0 ELSE 1) \in 0..MaxDelay
    BY <1>13, Numbers, TimesAssumption DEF Tick, OnTime
  <2>2. \A j \in Jobs : jobAge[j] + (IF jobPc[j] = "none" THEN 0 ELSE 1) \in 0..MaxDelay
    BY <1>13, Numbers, TimesAssumption DEF Tick, OnTime
  <2>3. dueIn' \in (-MaxDelay)..MaxInterval /\ sinceClaim' \in 0..Horizon
    BY <1>13, Numbers, IntervalsAssumption, TimesAssumption DEF Tick, Smallest
  <2>4. failcount' \in 0..FailureThreshold /\ ttl' \in 0..Ttl
    BY <1>13, CounterAssumption, TimesAssumption DEF Tick
  <2> QED
    BY <1>13, <2>1, <2>2, <2>3, <2>4 DEF Tick, boundVars
<1> QED
  BY <1>1, <1>2, <1>3, <1>4, <1>5, <1>6, <1>7, <1>8, <1>9, <1>10, <1>11, <1>12, <1>13
     DEF Next, SchedulerStep, JobStep

LEMMA StepKeepsSpaced == IInv /\ [Next]_vars => Spaced'
<1> SUFFICES ASSUME TypeOK, Spaced, [Next]_vars PROVE Spaced'
  BY DEF IInv
<1> USE DEF Spaced
<1>1. CASE UNCHANGED <<armed, dueIn, interval, sinceClaim, excused>>
  BY <1>1
<1>2. ASSUME NEW s \in Schedulers, Claim(s) PROVE Spaced'
  <2>1. CASE StillDue(s)
    <3>1. dueIn' = scanInterval[s] - scanAge[s] /\ sinceClaim' = scanAge[s] /\ interval' = interval
      BY <1>2, <2>1 DEF Claim
    <3>2. ~excused' => scanInterval[s] = interval
      BY <1>2, <2>1, Zenon DEF Claim
    <3>3. interval \in Int /\ scanAge[s] \in Int /\ scanInterval[s] \in Int
      BY Numbers
    <3> QED
      BY <3>1, <3>2, <3>3
  <2>2. CASE ~StillDue(s)
    BY <1>2, <2>2 DEF Claim, histVars
  <2> QED
    BY <2>1, <2>2
<1>3. ASSUME NEW j \in Jobs, Rearm(j) PROVE Spaced'
  <2>1. dueIn' = jobInterval[j] /\ sinceClaim' = sinceClaim /\ interval' = interval
    BY <1>3 DEF Rearm
  <2>2. ~excused' => jobInterval[j] = interval
    BY <1>3, Zenon DEF Rearm
  <2>3. interval \in Int /\ sinceClaim \in Nat
    BY Numbers
  <2> QED
    BY <2>1, <2>2, <2>3
<1>4. CASE Operators
  <2>1. ASSUME NEW i \in Intervals, UpdateMonitor(i) PROVE Spaced'
    <3>1. interval' = i /\ dueIn' = i /\ sinceClaim' = sinceClaim /\ i \in Int /\ sinceClaim \in Nat
      BY <2>1, Numbers, IntervalsAssumption DEF UpdateMonitor, Request
    <3> QED
      BY <3>1
  <2>2. CASE Pause \/ Resume
    BY <2>2 DEF Pause, Resume
  <2>3. CASE DeleteMonitor
    BY <2>3 DEF DeleteMonitor, Request
  <2> QED
    BY <1>4, <2>1, <2>2, <2>3 DEF Operators
<1>5. CASE Tick
  BY <1>5, Numbers, IntervalsAssumption, TimesAssumption DEF Tick, Smallest, Horizon
<1> QED
  BY <1>1, <1>2, <1>3, <1>4, <1>5
     DEF Next, SchedulerStep, JobStep, Scan, Enqueue, SchedulerCrash, StartCheck, StoreResult, Count,
         JobFails, WriteToDeleted, FailedAttempt, TargetFlip, vars, rowVars, histVars

\* The variables of CheckScheduler stay in their types, the relative dates
\* and ages within the bounds that MaxDelay and MaxInterval give them.
THEOREM SchedulerTypeCorrect == Spec => []TypeOK
<1>1. Init => TypeOK
  BY InitHolds DEF IInv
<1> QED
  BY <1>1, StepKeepsType, PTL DEF Spec

LEMMA Invariance == Spec => []IInv
<1>1. IInv /\ [Next]_vars => IInv'
  BY StepKeepsType, StepKeepsSpaced DEF IInv
<1> QED
  BY <1>1, InitHolds, PTL DEF Spec

\* However many scheduler instances scan at once, two claims that win are an
\* interval apart (enqueueDueChecks, and every other writer of nextCheckAt).
THEOREM ClaimsSpaced == Spec => ClaimsAreSpaced
<1> DEFINE Step == \A s \in Schedulers :
                      (scanPc[s] = "claim" /\ scanPc'[s] = "add" /\ ~excused)
                          => sinceClaim - scanAge[s] >= interval
<1>1. IInv /\ [Next]_vars => [Step]_vars
  <2> SUFFICES ASSUME IInv, Next, NEW s \in Schedulers,
                      scanPc[s] = "claim", scanPc'[s] = "add", ~excused
               PROVE  sinceClaim - scanAge[s] >= interval
    OBVIOUS
  <2>1. Claim(s) /\ StillDue(s)
    <3>1. ASSUME NEW t \in Schedulers, SchedulerStep(t) \/ SchedulerCrash(t)
          PROVE  Claim(s) /\ StillDue(s)
      <4>1. scanPc' # scanPc /\ scanPc \in [Schedulers -> {"idle", "claim", "add"}]
        BY DEF IInv, TypeOK
      <4> QED
        BY <3>1, <4>1 DEF SchedulerStep, Scan, Claim, Enqueue, SchedulerCrash, EndScan
    <3>2. ~ \E j \in Jobs : JobStep(j) \/ JobFails(j)
      BY DEF JobStep, JobFails, StartCheck, StoreResult, Rearm, Count, WriteToDeleted, FailedAttempt,
             scanVars
    <3>3. ~ (Operators \/ TargetFlip \/ Tick)
      BY DEF Operators, UpdateMonitor, Pause, Resume, DeleteMonitor, Request, TargetFlip, Tick, scanVars
    <3> QED
      BY <3>1, <3>2, <3>3 DEF Next
  <2>2. dueIn + sinceClaim >= interval /\ dueIn <= -scanAge[s]
    BY <2>1 DEF StillDue, IInv, Spaced
  <2> QED
    BY <2>2, Numbers DEF IInv
<1> QED
  BY <1>1, Invariance, PTL DEF Spec, ClaimsAreSpaced

-----------------------------------------------------------------------------
(***************************************************************************)
(* The life of the failure counter.  The next failure is at most so many    *)
(* ticks ahead: a job that is there ends within its delay, a monitor that is *)
(* claimed has its job within one more, and one that has a date is scanned   *)
(* and claimed within two more.                                             *)
(***************************************************************************)
Ahead ==
    \/ \E j \in Jobs : jobPc[j] # "none" /\ MaxDelay - jobAge[j] < ttl
    \/ \E s \in Schedulers : scanPc[s] = "add" /\ 2 * MaxDelay - scanAge[s] < ttl
    \/ armed /\ dueIn + 3 * MaxDelay < ttl

\* The target of an active monitor is down, and no job holds an earlier success.
Outage ==
    /\ Active /\ ~targetUp
    /\ \A j \in Jobs : jobPc[j] \in {"rearm", "count"} => jobFailed[j]

\* The counter outlives the wait for the next failure.
Lasting == Outage /\ Ahead

\* No operator edits the monitor, no call fails, and the target does not change.
Undisturbed == edits' = edits /\ crashes' = crashes /\ targetUp' = targetUp

\* An active monitor has the date of its next check, no longer than any
\* interval ahead.
Dated(longest) == (Active => armed) /\ dueIn <= longest

LEMMA DatedInit ==
    ASSUME NEW L \in Nat, Intervals \subseteq 1..L, Init
    PROVE  Dated(L)
  BY DEF Init, Dated, Active

LEMMA DatedNext ==
    ASSUME NEW L \in Nat, Intervals \subseteq 1..L, TypeOK, Dated(L), [Next]_vars
    PROVE  Dated(L)'
<1> USE DEF Dated, Active
<1>0. \A i \in Intervals \cup {0} : i \in Int /\ i <= L
  OBVIOUS
<1>1. CASE UNCHANGED rowVars
  BY <1>1 DEF rowVars
<1>2. ASSUME NEW s \in Schedulers, Claim(s) PROVE Dated(L)'
  <2>1. CASE StillDue(s)
    <3>1. mode' = mode /\ armed' = TRUE /\ dueIn' = scanInterval[s] - scanAge[s]
      BY <1>2, <2>1 DEF Claim
    <3>2. scanInterval[s] \in Intervals \cup {0} /\ scanAge[s] \in 0..MaxDelay
      BY DEF TypeOK
    <3>3. scanInterval[s] \in Int /\ scanInterval[s] <= L /\ scanAge[s] \in Nat
      <4>1. scanInterval[s] \in Int /\ scanInterval[s] <= L
        BY <1>0, <3>2
      <4>2. scanAge[s] \in Nat
        BY <3>2, TimesAssumption
      <4> QED
        BY <4>1, <4>2
    <3>4. dueIn' <= L
      BY <3>1, <3>3
    <3> QED
      BY <3>1, <3>4
  <2>2. CASE ~StillDue(s)
    BY <1>2, <2>2 DEF Claim
  <2> QED
    BY <2>1, <2>2
<1>3. ASSUME NEW j \in Jobs, Rearm(j) PROVE Dated(L)'
  <2>1. armed' = TRUE /\ dueIn' = jobInterval[j] /\ jobInterval[j] \in Intervals \cup {0}
    BY <1>3 DEF Rearm, TypeOK
  <2> QED
    BY <1>0, <2>1
<1>4. CASE Operators
  BY <1>0, <1>4 DEF Operators, UpdateMonitor, Pause, Resume, DeleteMonitor
<1>5. CASE Tick
  <2>1. mode' = mode /\ armed' = armed /\ (dueIn' = dueIn - 1 \/ dueIn' = dueIn)
    BY <1>5 DEF Tick
  <2>2. dueIn \in Int
    BY Numbers
  <2> QED
    BY <2>1, <2>2
<1> QED
  BY <1>1, <1>2, <1>3, <1>4, <1>5
     DEF Next, SchedulerStep, JobStep, Scan, Enqueue, SchedulerCrash, StartCheck, StoreResult,
         Count, JobFails, WriteToDeleted, FailedAttempt, TargetFlip, vars

\* Whatever schedulers, jobs and operators do, and wherever they fail: an
\* active monitor always has a date on which it is due (a claim that is lost, a
\* pause that overtook a check and a resume included), so it is never off the
\* schedule.
THEOREM ActiveIsScheduled == Spec => [](Active => armed)
<1>0. MaxInterval \in Nat /\ Intervals \subseteq 1..MaxInterval
  BY IntervalsAssumption
<1>1. Init => Dated(MaxInterval)
  BY <1>0, DatedInit
<1>2. TypeOK /\ Dated(MaxInterval) /\ [Next]_vars => Dated(MaxInterval)'
  BY <1>0, DatedNext
<1>3. Dated(MaxInterval) => (Active => armed)
  BY DEF Dated
<1> QED
  BY <1>1, <1>2, <1>3, SchedulerTypeCorrect, PTL DEF Spec

\* A failure counted during an outage gives the counter a life that lasts.
LEMMA CountLasts ==
    ASSUME TypeOK, NEW L \in Nat, Dated(L), L + 3 * MaxDelay < Ttl,
           Outage, NEW j \in Jobs, Count(j)
    PROVE  Lasting' /\ failcount' >= failcount
<1>1. jobFailed[j] /\ failcount' = Smallest(failcount + 1, FailureThreshold) /\ ttl' = Ttl
  BY DEF Count, Outage
<1>2. failcount' >= failcount
  BY <1>1, CounterAssumption DEF TypeOK, Smallest
<1>3. Outage'
  BY DEF Outage, Active, Count, Leave, rowVars, TypeOK
<1>4. armed' /\ dueIn' = dueIn /\ dueIn <= L
  BY DEF Dated, Outage, Count, rowVars
<1>5. dueIn + 3 * MaxDelay < Ttl
  BY <1>4, Numbers, TimesAssumption
<1> QED
  BY <1>1, <1>2, <1>3, <1>4, <1>5 DEF Lasting, Ahead

LEMMA StepLasts ==
    ASSUME TypeOK, NEW L \in Nat, Dated(L), L + 3 * MaxDelay < Ttl,
           Lasting, [Next]_vars, Undisturbed
    PROVE  Lasting' /\ failcount' >= failcount
<1> DEFINE JobAhead(j)  == jobPc[j] # "none" /\ MaxDelay - jobAge[j] < ttl
           AddAhead(s)  == scanPc[s] = "add" /\ 2 * MaxDelay - scanAge[s] < ttl
           DateAhead    == armed /\ dueIn + 3 * MaxDelay < ttl
<1>0. /\ mode = "active" /\ ~targetUp /\ ~targetUp' /\ MaxDelay \in Nat /\ Ttl \in Nat \ {0}
      /\ edits \in Nat /\ crashes \in Nat /\ ttl \in Nat /\ failcount \in 0..FailureThreshold
      /\ FailureThreshold \in Nat /\ dueIn \in Int /\ dueIn >= -MaxDelay
      /\ \A s \in Schedulers : scanAge[s] \in 0..MaxDelay
      /\ \A j \in Jobs : jobAge[j] \in 0..MaxDelay
  BY LimitsAssumption, TimesAssumption, CounterAssumption DEF TypeOK, Lasting, Outage, Active, Undisturbed
<1>1. \/ \E j \in Jobs : JobAhead(j)
      \/ \E s \in Schedulers : AddAhead(s)
      \/ DateAhead
  BY DEF Lasting, Ahead
<1>2. CASE UNCHANGED vars
  BY <1>0, <1>2 DEF vars, rowVars, scanVars, jobVars, countVars, Lasting, Outage, Active, Ahead
<1>3. ASSUME NEW s \in Schedulers, Scan(s) PROVE Lasting' /\ failcount' >= failcount
  <2>1. /\ UNCHANGED <<rowVars, jobVars, countVars, targetUp>>
        /\ \A t \in Schedulers : scanPc[t] = "add" => scanPc'[t] = "add" /\ scanAge'[t] = scanAge[t]
    BY <1>3 DEF Scan, TypeOK
  <2> QED
    BY <1>0, <2>1 DEF Lasting, Outage, Active, Ahead, rowVars, jobVars, countVars
<1>4. ASSUME NEW s \in Schedulers, Claim(s) PROVE Lasting' /\ failcount' >= failcount
  <2>1. /\ UNCHANGED <<mode, jobVars, countVars, targetUp>> /\ scanPc[s] = "claim"
        /\ \A t \in Schedulers \ {s} : scanPc'[t] = scanPc[t] /\ scanAge'[t] = scanAge[t]
    BY <1>4 DEF Claim, EndScan, TypeOK
  <2>2. Outage' /\ failcount' = failcount /\ ttl' = ttl
    BY <2>1 DEF Lasting, Outage, Active, jobVars, countVars
  <2>3. CASE StillDue(s)
    <3>1. scanPc'[s] = "add" /\ scanAge' = scanAge
      BY <1>4, <2>3 DEF Claim, TypeOK
    <3>2. DateAhead => 2 * MaxDelay - scanAge'[s] < ttl
      BY <1>0, <3>1
    <3> QED
      BY <1>0, <1>1, <2>1, <2>2, <3>1, <3>2 DEF Lasting, Ahead, jobVars
  <2>4. CASE ~StillDue(s)
    <3>1. armed' = armed /\ dueIn' = dueIn
      BY <1>4, <2>4 DEF Claim
    <3> QED
      BY <1>0, <1>1, <2>1, <2>2, <3>1 DEF Lasting, Ahead, jobVars
  <2> QED
    BY <2>3, <2>4
<1>5. ASSUME NEW s \in Schedulers, Enqueue(s) PROVE Lasting' /\ failcount' >= failcount
  <2>1. PICK j \in Jobs : /\ jobPc[j] = "none" /\ jobPc' = [jobPc EXCEPT ![j] = "queued"]
                          /\ jobAge' = [jobAge EXCEPT ![j] = 0]
    BY <1>5 DEF Enqueue
  <2>2. /\ UNCHANGED <<mode, armed, dueIn, countVars, targetUp, jobFailed>> /\ scanPc[s] = "add"
        /\ \A t \in Schedulers \ {s} : scanPc'[t] = scanPc[t] /\ scanAge'[t] = scanAge[t]
    BY <1>5 DEF Enqueue, EndScan, rowVars, TypeOK
  <2>3. /\ jobPc'[j] = "queued" /\ jobAge'[j] = 0
        /\ \A k \in Jobs \ {j} : jobPc'[k] = jobPc[k] /\ jobAge'[k] = jobAge[k]
    BY <2>1 DEF TypeOK
  <2>4. Outage' /\ failcount' = failcount /\ ttl' = ttl
    BY <2>2, <2>3 DEF Lasting, Outage, Active, countVars
  <2>5. AddAhead(s) => MaxDelay - jobAge'[j] < ttl
    BY <1>0, <2>3
  <2>6. CASE \E k \in Jobs : JobAhead(k)
    BY <1>0, <2>1, <2>3, <2>4, <2>6 DEF Lasting, Ahead
  <2>7. CASE \E t \in Schedulers : AddAhead(t)
    BY <1>0, <2>2, <2>3, <2>4, <2>5, <2>7 DEF Lasting, Ahead
  <2>8. CASE DateAhead
    BY <1>0, <2>2, <2>4, <2>8 DEF Lasting, Ahead
  <2> QED
    BY <1>1, <2>6, <2>7, <2>8
<1>6. ASSUME NEW j \in Jobs, StartCheck(j) PROVE Lasting' /\ failcount' >= failcount
  <2>1. /\ UNCHANGED <<rowVars, scanVars, countVars, targetUp, jobFailed, jobAge>>
        /\ jobPc' = [jobPc EXCEPT ![j] = "probe"] /\ jobPc[j] = "queued"
    BY <1>0, <1>6 DEF StartCheck, Goto
  <2>2. \A k \in Jobs : /\ jobPc[k] # "none" => jobPc'[k] # "none"
                        /\ jobPc'[k] \in {"rearm", "count"} => jobPc[k] \in {"rearm", "count"}
    BY <2>1 DEF TypeOK
  <2> QED
    BY <1>0, <2>1, <2>2 DEF Lasting, Outage, Active, Ahead, rowVars, scanVars, countVars
<1>7. ASSUME NEW j \in Jobs, StoreResult(j) PROVE Lasting' /\ failcount' >= failcount
  <2>1. /\ UNCHANGED <<rowVars, scanVars, countVars, targetUp, jobAge>>
        /\ jobPc' = [jobPc EXCEPT ![j] = "rearm"] /\ jobFailed' = [jobFailed EXCEPT ![j] = TRUE]
    BY <1>0, <1>7 DEF StoreResult, Goto
  <2>2. \A k \in Jobs : /\ jobPc[k] # "none" => jobPc'[k] # "none"
                        /\ jobPc'[k] \in {"rearm", "count"} /\ k # j => jobPc[k] \in {"rearm", "count"}
    BY <2>1 DEF TypeOK
  <2>3. jobFailed'[j] /\ \A k \in Jobs \ {j} : jobFailed'[k] = jobFailed[k]
    BY <2>1 DEF TypeOK
  <2> QED
    BY <1>0, <2>1, <2>2, <2>3 DEF Lasting, Outage, Active, Ahead, rowVars, scanVars, countVars
<1>8. ASSUME NEW j \in Jobs, Rearm(j) PROVE Lasting' /\ failcount' >= failcount
  <2>1. /\ UNCHANGED <<mode, scanVars, countVars, targetUp, jobAge, jobFailed>>
        /\ jobPc' = [jobPc EXCEPT ![j] = "count"] /\ jobPc[j] = "rearm"
    BY <1>8 DEF Rearm, Goto
  <2>2. \A k \in Jobs : /\ jobPc[k] # "none" => jobPc'[k] # "none"
                        /\ jobPc'[k] \in {"rearm", "count"} => jobPc[k] \in {"rearm", "count"}
    BY <2>1 DEF TypeOK
  <2>3. Outage' /\ failcount' = failcount /\ ttl' = ttl
    BY <2>1, <2>2 DEF Lasting, Outage, Active, countVars
  <2>4. DateAhead => MaxDelay - jobAge'[j] < ttl
    BY <1>0, <2>1
  <2>5. jobPc'[j] # "none"
    BY <2>1 DEF TypeOK
  <2> QED
    BY <1>0, <1>1, <2>1, <2>2, <2>3, <2>4, <2>5 DEF Lasting, Ahead, scanVars
<1>9. ASSUME NEW j \in Jobs, Count(j) PROVE Lasting' /\ failcount' >= failcount
  BY <1>9, CountLasts DEF Lasting
<1>10. CASE Tick
  <2>1. /\ OnTime /\ UNCHANGED <<mode, armed, scanPc, jobPc, jobFailed, targetUp>>
        /\ ttl' = (IF ttl > 0 THEN ttl - 1 ELSE 0) /\ failcount' = (IF ttl <= 1 THEN 0 ELSE failcount)
        /\ dueIn' = (IF dueIn > -MaxDelay THEN dueIn - 1 ELSE dueIn)
        /\ \A s \in Schedulers : scanPc[s] = "add" => scanAge'[s] = scanAge[s] + 1
        /\ \A j \in Jobs : jobPc[j] # "none" => jobAge'[j] = jobAge[j] + 1
    BY <1>10 DEF Tick
  <2>2. Outage'
    BY <2>1 DEF Lasting, Outage, Active
  <2>3. ASSUME NEW j \in Jobs, JobAhead(j) PROVE ttl > 1 /\ MaxDelay - jobAge'[j] < ttl - 1
    BY <1>0, <2>1, <2>3 DEF OnTime
  <2>4. ASSUME NEW s \in Schedulers, AddAhead(s) PROVE ttl > 1 /\ 2 * MaxDelay - scanAge'[s] < ttl - 1
    BY <1>0, <2>1, <2>4 DEF OnTime
  <2>5. ASSUME DateAhead PROVE ttl > 1 /\ dueIn' + 3 * MaxDelay < ttl - 1
    BY <1>0, <2>1, <2>5 DEF OnTime
  <2>6. ttl > 1
    BY <1>1, <2>3, <2>4, <2>5
  <2>7. ttl' = ttl - 1 /\ failcount' = failcount
    BY <1>0, <2>1, <2>6
  <2>8. Ahead'
    BY <1>1, <2>1, <2>3, <2>4, <2>5, <2>7 DEF Ahead
  <2> QED
    BY <1>0, <2>2, <2>7, <2>8 DEF Lasting
<1>11. ~ (Operators \/ TargetFlip)
  <2>1. ~Operators
    <3>1. Operators => Request
      BY DEF Operators, UpdateMonitor, Pause, Resume, DeleteMonitor
    <3> QED
      BY <1>0, <3>1 DEF Undisturbed, Request
  <2>2. ~TargetFlip
    BY <1>0, Zenon DEF TargetFlip
  <2> QED
    BY <2>1, <2>2
<1>12. \A s \in Schedulers : ~SchedulerCrash(s)
  BY <1>0 DEF Undisturbed, SchedulerCrash
<1>13. \A j \in Jobs : ~JobFails(j) /\ ~WriteToDeleted(j)
  BY <1>0 DEF Undisturbed, JobFails, WriteToDeleted
<1> QED
  BY <1>2, <1>3, <1>4, <1>5, <1>6, <1>7, <1>8, <1>9, <1>10, <1>11, <1>12, <1>13
     DEF Next, SchedulerStep, JobStep

\* When the key of the failure counter lives longer than an interval and three
\* delays, the first failure counted in an outage starts a count that neither
\* falls nor expires, until a fault, an edit or the end of the outage: it is
\* only ever added to.  (With an interval of an hour, the life of the key, it is
\* lost between any two checks: see OutageIsNoticed.)
THEOREM CounterOutlivesWait ==
    ASSUME NEW L \in Nat, Intervals \subseteq 1..L, L + 3 * MaxDelay < Ttl
    PROVE  Spec => [][/\ Lasting /\ Undisturbed => Lasting' /\ failcount' >= failcount
                      /\ Outage /\ (\E j \in Jobs : Count(j)) => Lasting']_vars
<1> DEFINE Step == /\ Lasting /\ Undisturbed => Lasting' /\ failcount' >= failcount
                   /\ Outage /\ (\E j \in Jobs : Count(j)) => Lasting'
<1>1. Init => Dated(L)
  BY DatedInit
<1>2. TypeOK /\ Dated(L) /\ [Next]_vars => Dated(L)'
  BY DatedNext
<1>3. TypeOK /\ Dated(L) /\ [Next]_vars => [Step]_vars
  BY StepLasts, CountLasts
<1> QED
  BY <1>1, <1>2, <1>3, SchedulerTypeCorrect, PTL DEF Spec
=============================================================================
