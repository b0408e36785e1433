# WebPulse in TLA+

Models, model checks and proofs of the server of WebPulse, an uptime monitor:
monitors are checked on a schedule, failing checks open incidents, and incidents
and certificates raise alerts that are delivered to channels. Paths below are
relative to `server/src` unless they begin with `web/` or `server/`.

The models follow the program's three ways through its data:

    a failure                        a request                   the history

    CheckScheduler   when?           WebSession  which session?  Housekeeping
         |  job                           |                        what is kept of
    Probe            up or down?     Sessions    is it valid?      the checks, and
         |  outcome                       |  access token          what analytics
    IncidentEngine   what of it?     Access      on which rows,    show of them
         |  sendAlert                            in which role?
    Escalation       what if it stays?
         |  sendAlert
    AlertDelivery    which messages?

Neighbours meet at one call each. `CheckScheduler` ends a job with the failure
counter, the first statement of `processCheckOutcome`, and `IncidentEngine` begins
there (`StoreResult` of the engine stands for a whole probe, which `Probe` opens up).
`IncidentEngine` and `Escalation` end with an alert handed to `sendAlert`, and a call
of `sendAlert` is where `AlertDelivery` begins. `WebSession` extends `Sessions`: the
requests it makes are steps of the server's handlers. `Access` begins where an access
token, or an API key, has been accepted. Each model abstracts its neighbour to what
crosses that line: outcomes in any order for the engine, any caller at any time for
the delivery, checks stored at any time for the history.

## Inventory

| Component | State | Operations | What is hard |
| --- | --- | --- | --- |
| Scheduler (`workers/scheduler.ts`) | `monitor.nextCheckAt`, the `running` flag | scan, claim, enqueue; escalation scan | several instances, a crash between claim and enqueue, edits between scan and claim |
| Monitor worker (`workers/monitorWorker.ts`) | check results, `nextCheckAt`, status | read, probe, store, re-arm, hand over | acts on a row read before a probe of up to minutes; retried and stalled jobs |
| Monitor service (`services/monitor.service.ts`) | the monitor rows | create, edit, pause, resume, delete | races the two above |
| Incident engine (`incident/engine.ts`) | `failcount:*` in Redis, incidents, timeline | one reaction to each check result | find-then-create, stale writes, attempts that end half way, key expiry |
| Incident service (`services/incident.service.ts`) | incident status, acknowledgement, notes | status, acknowledge, note | tests a status and writes later |
| Alert engine (`notifications/engine.ts`) | dedupe keys, deliveries | `sendAlert` | concurrent callers, a caller that dies after taking the key |
| Notification worker (`workers/notificationWorker.ts`), senders, mail | delivery status and attempts | one attempt | a message sent and not recorded, errors swallowed |
| Policies, channels, webhooks (`services/alerting.service.ts`, `webhook.service.ts`) | who is told | CRUD | changes during a call |
| Queues (`queues/`) | BullMQ jobs | add, retry, stall | at-least-once execution |
| Maintenance (`services/maintenance.service.ts`) | windows | create, delete | suppression begins and ends at any time |
| Rollups and retention (`services/aggregation.service.ts`, `workers/housekeeping.ts`) | aggregated metrics | hourly pass | missed hours, pruning after a failed rollup |
| Sessions (`services/auth.service.ts`) | sessions, one-time tokens | login, refresh, logout, reset, verify | check-then-act on tokens |
| Members (`services/org.service.ts`) | memberships | invite, change, remove | the owner; duplicate invitations |
| API keys, status pages, audit log | rows | CRUD | little |
| Dashboard, analytics, search | none | queries | none |
| Checkers, HTTP client, URL rules, statistics, assertions | none | pure functions and I/O | boundaries of the pure parts |
| Middleware, routers (`middleware/`, `routes/`) | none | admit a request in a role or with scopes | acts on rights read once; writes by id alone |
| Realtime (`realtime/`) | rooms in memory | publish | an event published in a worker process stays there |
| Web client (`web/src/lib/api.ts`) | the shared refresh promise | requests, refresh | a 401 of the refresh itself |

What makes each of the modelled ones correct: an active monitor is never forgotten
and never checked twice for one due date; an outage reaches the threshold; an outage
opens an incident that is announced once, resolved after confirmation and not
brought back; an alert becomes one message per channel and its row says what
happened to it; an escalation is not repeated without end; a probe believes a failure
only after its retries and asks no address it has not checked; a revoked session stays
revoked and a token is used once; nobody finds or writes a row outside the
organization and role of the request; what is pruned lives on in a row. The hazards of `PROJECT.json` list where the code could break this.

## Modules

| Module | What it is |
| --- | --- |
| `IncidentEngine` | `processCheckOutcome` for one monitor, one action per await, run by any number of jobs; the status endpoint; expiry of the counter; maintenance |
| `IncidentProperties` | properties of it when jobs overlap |
| `IncidentLifecycle` | the abstract contract: what the lifecycle diagram of the repository promises, with no Redis, await or stale read |
| `IncidentSerial` | the engine when no two jobs of the monitor overlap, with any number of workers, and its refinement of `IncidentLifecycle` |
| `MCIncidentOverlap` | symmetry for TLC |
| `IncidentProofs` | TLAPS proofs about `IncidentProperties` and `IncidentSerial` |
| `CheckScheduler` | scan, claim, enqueue; the job until the counter; operators; a clock; its properties |
| `CheckSchedulerProofs` | TLAPS proofs about it |
| `AlertDelivery` | `sendAlert` and `processNotification`, with faults; its properties |
| `AlertDeliveryProofs` | TLAPS proofs about it |
| `Escalation` | `escalationScan` by overlapping timers; its properties |
| `EscalationProofs` | TLAPS proofs about it |
| `Probe` | `runCheck`: retries, redirects, the checkers; its properties |
| `ProbeProofs` | TLAPS proofs about it |
| `Sessions` | `auth.service.ts` for one user, one action per await; its properties |
| `WebSession` | a browser on top of it: `lib/api.ts` and `AuthContext`; its properties |
| `WebSessionProofs` | TLAPS proofs about both |
| `Access` | middleware, routes, organizations, API keys and the services behind them; its properties |
| `MCAccess` | symmetry for TLC |
| `AccessProofs` | TLAPS proofs about `Access` |
| `Housekeeping` | the hourly pass and `computeAnalytics`; its properties |
| `MCHousekeeping` | symmetry for TLC |
| `HousekeepingProofs` | TLAPS proofs about `Housekeeping` |

Operators named after a bug (`FailureNoLookup`, `StillDueAnyway`, ...) and commented
*Mutant* are not part of a specification: each is a plausible mistake in the
definition next to it, and shows that a property would notice.

### IncidentEngine

`pc[w]` names the next await of job `w`; `outcome`, `count`, `seen` and `seenStatus`
are its locals. The path is `count` (INCR or DEL), `find` (findFirst), `maintenance`
(the window query, after which the job decides), then one of: `monitor` or `resolve`
and `recoveryAlert` after a healthy result; `revert`, `bump`, `event` after a failure
of an open incident; `create` and `downAlert` after a failure that opens one. Writes go
to the row the job has *seen*, whatever its status is by then, because the updates of
the code have no condition but the id. `findFirst` orders by `startedAt`, which is
computed from the interval and the counter, so either of two open incidents can come
first: any active one may be returned.

`Abort` ends an attempt before any await: a call that throws or a process that dies.
The queue runs the job again from the top, with a new probe; that is an ordinary
`StoreResult`. A request of the status endpoint reads (`ReadForStatus`) and writes
(`UpdateIncidentStatus`) in two steps. Rows deleted with their monitor are not
modelled: such writes throw, as `Abort` does. What follows the incident path, `handleSsl` and
`handleResponseTimeAnomaly`, writes rows that no handler of incidents reads: it is one step
(`Tail`) that can be cut short like any other, and its certificate alerts are senders of
`AlertDelivery`.

### CheckScheduler

All dates are relative to one clock: `dueIn` is `nextCheckAt` minus now and `scanAge`
is how long ago an instance read its `now`, which it still uses when it claims. The
claim (`StillDue`) compares `nextCheckAt` with that old `now`; the update writes `now +
interval` with the interval of the scan. A worker re-arms with the interval it read
before the probe. `sinceClaim` and `excused` are history variables, read by
`ClaimsAreSpaced` only. `failcount` saturates at the threshold.

The one assumption on speed is `MaxDelay`: the clock waits for an overdue active
monitor, a scan in progress, or an attempt of a job that is `MaxDelay` old. It stands
for the period of the scheduler (5 s) and of a probe (its timeout and retries) and for
queues that keep up. `monitor.enabled` is never written by the API and is left out, as
is the status column. Attempts of a failed job are not counted: the queue may give
up after any of them, where the code has three, which allows more behaviours.

### AlertDelivery

A sender goes through the gate (`SendAlert`), `resolve`, and then `create` and `add`
for each channel; it may die at any await. `window` counts the lives of a dedupe key
(history), and a row remembers the life it was created in. A job is `waiting`, in
`dispatch`, about to be recorded (`delivered`, `failed`) or `ended`. `dispatchChannel`
may return, throw, or throw after the channel took the message (a late answer); an
e-mail may return without having been sent, because `sendMail` never throws. A
database error inside the try block lands in the catch block, elsewhere it makes the
queue retry. A worker that dies leaves a stalled job, which BullMQ runs again once.
A stalled job whose first worker is still alive is not modelled.

### Escalation

A scan's locals are the list of incidents it has read, with the list of escalations
sent and the age as they were then (`read`, `elapsed`). `Take` is the policy query, which
leaves the thresholds that are due and not on the list as read; `Alert` and `Record` are
the two awaits of the inner loop. `Record` writes the list *as read* plus one, as the
code spreads the old `errorInfo`: of two thresholds due together the last stays. A
threshold is a place in `escalationMinutes`, which need not be sorted or free of
repetition. `overlapped` and `announced` are history. A call that throws ends the scan
for all incidents left (`Abort`), since the only `try` is around the whole scan. The
policy does not change; an acknowledgement is not modelled because the scan never looks
at one.

### Probe

One `runCheck`. The monitor is any row that validation accepts, up to names; a response
says whether its status is expected, where it redirects to, what its body is for this
monitor and whether it is slow. `try` (before the URL check), `send`, `wait` and `got` are
one turn of the loop in `request`; `AttemptEnds` is the loop of `runCheck` looking at an
outcome. `asked` is the sequence of addresses requested in the attempt (history). What is longer than `MAX_BYTES` (512 KiB) is `cut`: a keyword or a JSON body
beyond it makes a healthy target DOWN, and `OutcomeIsRight` counts such an answer as
unhealthy. An address is a name: that a name resolves to the same host when it is checked and
when the connection is made is taken for granted, and `HopsAreChecked` speaks of the requests
of the HTTP client only. `runCheck` retries every DOWN, though its comment speaks of transient failures.
The request timeout of the client is an idle timeout, so a target that trickles is not cut
off; `Answered` may be late without bound.

### Sessions

One user, one e-mail address, any number of requests. A password is the number of its
version, a refresh token the session whose row holds its hash. Each handler is its reads
(`Login`, `Refresh`, `ReadToken`, `ForgotPassword`) followed by its writes, with what it has
verified in `checked` and `holds`. `ResetPassword` is one transaction: hash, token, all
sessions. `refresh` only writes `lastUsedAt`: the new refresh token it returns has no row
and would be refused, so the README's "rotating refresh tokens" (README.md:172) do not
rotate; the web client keeps the first one. `emailVerified` is stored and decides nothing.

### WebSession

The browser's part of the state is `stored` (localStorage), `user` and `loading`
(`AuthContext`), the calls and the shared promise `refreshing`. Its refresh and its
sign-in are served by whichever request of `Sessions` is free (`serving`, `signing`); all
other steps of requests are other devices' (`Elsewhere`), so that two devices can redeem
one token, or a sign-in race a reset. `loadSession` is two calls at once: a member of
`loading` is the set of calls its `Promise.all` still waits for. The first of them to be
rejected runs the catch, which drops the tokens (`Reject`), while the other one goes on,
and may be waiting for a refresh that will write the tokens back. `Unauthorized` is the
interceptor; `RefreshServed`, `RefreshRefused`, `RefreshDone`, `RefreshFailed` are what can
become of the POST. A refusal goes through the same interceptor and awaits the promise it
has to settle (`web/src/lib/api.ts:58`): the state `stuck`, left by `Reload` only.

`latest` and `overtaken` are history, read by `TokensBelong`: what a sign-in, a sign-out or
an error has last put in the store, and whether that happened under a refresh in flight,
whose answer then writes old tokens back. Any call may be answered 401 at any time, since
access tokens expire by themselves. A wrong password is no step, and organizations, of
which the second call of `loadSession` asks, are not stored in the model.

### Access

`member`, `key` and `row` are the tables; a request is `admitted` as somebody, in a role
or with scopes read once, then finds a row, then writes it. `Permissions` and
`ApiV1Routes` are the routers, one entry per route. `Create`, `Find`, `Update` and `Delete` are
the shape of all services of simple rows, and one operator per service names its kinds.

`links` holds what a row leads to: the monitors of a page, of a window and of a webhook, the
dependencies, group and policy of a monitor, the parent of a group, the channels of a policy.
Their ids come in the body of a request, and only `upsertPolicy` looks them up by organization
(`Linkable`). A read of a row answers with the rows it leads to, a window covers the monitors
it leads to whosever they are (`OpenIncident`, `WindowTurns`), and a monitor takes its
incidents and webhooks along when it is deleted (`Gone`: `onDelete: Cascade`). `from` is the
organization a row was last written from.

Audit rows are left out: they swallow every error (among them that of a monitor created by
key, whose user id `api-key` does not exist); so are tags, which are names within an
organization and never looked up by id. No route asks for `incidents:write`.
`updateMember` does not spare the owner, and an invitation of a deactivated owner overwrites
OWNER; `OwnerKept` says that nothing else can cost an organization its owner. PATCH of a
policy reads and writes back all of its columns (`routes/resources.routes.ts:97-114`), so that
an overlapping edit is lost; columns are not modelled.

### Housekeeping

Time is in units, as fine as one likes: `Hour` and `Day` are so many units, and so are the
lengths of the analytics' ranges and buckets, which need not divide each other. The 1h range
of the code is such a one: 0.0417 days are 3602880 ms, no multiple of its five-minute bucket.
A check is its monitor, its stamp, and the buckets that were over when its row was there: the
stamp is taken by the column's default (`server/prisma/schema.prisma:335`), the row can be read
up to `MaxLag` later, and a pass in between misses it (`late`). An aggregated row is the set of
checks it was computed from.

A pass takes the hour and the day that ended last, reads, upserts monitor by monitor, and
prunes, also when a rollup has failed. Passes of several processes overlap. Hours no pass has
taken are never made up for, and their checks are pruned all the same (`rolledUp` is history
and says which are safe). With a retention of one day, or of two when a pass may go on, the
row of a day is overwritten with fewer checks. Nothing reads `aggregated_metrics`: analytics
of 90 days show what the retention has left (`AnalyticsComplete` speaks of ranges within it).

The series is another matter. Its keys are laid from now minus the range, `From`, while a check
is counted under the multiple of the bucket's length it falls in. `ChartedWhenAligned` says
what follows: all checks are charted (but those of this very instant, if the range is a multiple
of the bucket) at the instants when the range begins at a multiple of its bucket, and none at
any other.

## Runs

| Run | Instance | Question |
| --- | --- | --- |
| `incident_overlap` | 2 jobs, threshold 1, 3 incidents, 3 failures, 1 abort | how far can overlapping jobs go wrong? |
| `incident_settles` | 2 jobs, 1 status request, 2 failures | does everything end resolved, and who can reopen? |
| `incident_serial` | 2 workers that take turns, threshold 2, 3 outcomes, 6 failures | does the engine implement the lifecycle? |
| `down_alert_lost` | 1 job, 1 abort | is every incident announced? **No** |
| `scheduler` | 2 schedulers, 1 job, interval 2, counter life 6, threshold 2, 2 edits, 1 crash | are winning claims an interval apart, is the monitor always probed again, and the outage counted? |
| `hourly_outage_silent` | interval = counter life, threshold 2 | is every outage counted up to the threshold? **No** |
| `delivery` | 2 callers, 2 rows, a channel and a mailbox, 1 fault, 1 policy edit | is a periodic alert delivered once, counted and settled? |
| `escalation` | 1 incident, 2 scans, lists of up to 2 of 3 minutes, 1 fault | how often is a threshold announced, and does it end? |
| `probe` | 2 addresses and a blocked one, 5 redirects, 2 retries, every kind of monitor | is the outcome that of the last answer, and every address checked? |
| `web_session` | 2 requests, 2 sessions, 1 token, 3 passwords, 2 calls | which sessions outlive a reset, how often is a token used, whose tokens does the browser hold, does every waiting call return? |
| `access` | 2 users, 2 organizations, a key, 2 rows, 2 requests, 3 writes | what crosses organizations or roles and what does not, and who keeps rights too long? |
| `history` | 1 monitor, 2 passes, hours of 2 units, days of 4, retention 1 or 2 days, 9 units, ranges of 3, 4 and 8 with buckets of 2 and 4, 2 checks | are rows exact, is what is pruned kept, are analytics complete, and what do their charts show? |

The two runs that end in a violation check a sentence of the repository's README and
are listed as findings with the line of code that disagrees:

* an incident whose creating attempt dies before `sendAlert` is never announced;
* a monitor with the longest interval (3600 s) and a counter that lives 3600 s never
  reaches a threshold above 1.

Two more disagreements are findings of passing runs, whose property says exactly how far
the sentence holds:

* "Changing an ID in the URL cannot cross org boundaries" (README.md:173) holds for the id in
  the URL (`Isolation`). The ids in a body are another matter: of the links between rows only
  those of a policy to its channels are tested (`LinksTested`). The monitors of a status page or
  of a maintenance window may be another organization's, are shown with the page, and are
  covered by the window; deleting a monitor deletes the webhooks that lead to it, the one
  write that `Isolation` and `WritersHaveTheRole` except (`WentAlong`).
* the "time-series charts" (README.md:39) are empty at nearly every instant
  (`ChartedWhenAligned`), although the totals beside them are right.

Two more sentences of it do not hold and follow from a line each. Channel errors are
caught by the worker, so the queue's five attempts (README.md:129) are used for database
errors and stalls only. Alerts sent without a TTL pass the gate every time; `SSL_EXPIRED`
(README.md:156) is one of them, and every check raises it. For DOWN alerts this does no harm:
the engine announces each incident once, which `OneDownAlertPerIncident` shows. Two
overlapping jobs that both find an incident MONITORING both resolve it and both send
RECOVERED; the engine's model keeps the *set* of incidents whose recovery was sent and does
not count these.

What the passing runs show that is easy to get wrong by reading: overlapping jobs
*can* open two incidents and *can* reopen a resolved one, and the properties say
exactly how far: as many open incidents as there are actors, reopened only by an
actor with a stale read, and all of it resolved by later healthy checks (`Settles`).
Escalations *are* repeated, one for each threshold due with it, and overlapping scans
repeat them more, but the lists cannot shrink for ever (`EscalationsSettle`). A session
*can* outlive a password reset and a reset token *can* be used twice, each only by
requests that overlap (`OutdatedSessionsBounded`, `TokenUsesBounded`), and likewise rights
outlive their removal (`StaleRightsBounded`). `Isolation` holds although rows are written by
id alone, because no service ever moves a row to another organization.

### Bounds, and why they are enough

* Two jobs, two schedulers, two senders: every property relates at most two actors
  and a row; the theorems cover any number.
* `MaxFailures`, `MaxIncidents`: three failures with threshold 1 allow two
  duplicates and a reopened incident; two (with a request) let an incident be resolved
  and reopened and a second one open. Healthy results are not bounded.
* `MaxAborts`, `MaxCrashes`, `MaxFaults` = 1: each single fault at each await. Liveness of
  delivery needs this bound: BullMQ forgives one stall.
* Interval 2, `MaxDelay` 1: a scan or a job can be late by half an interval and
  overlap the next. With one job an overlap waits for it; several jobs at once, intervals
  that are edited, and intervals as short as the delay, are covered by the theorem
  `ClaimsSpaced`.
* Counter life 6 = two intervals and two delays: a failure is at most interval + two
  delays after the one before. A lost claim and a failed job cost another interval each.
  In seconds the default interval is 60 and the life 3600.
* Two rows in `delivery`: two calls for one channel, or one call for two channels.
* `escalation`: a list of two is the shortest in which one threshold overwrites another,
  and `MaxAge` reaches every minute. Incidents do not interact.
* `probe`: `MaxRedirects` is the code's 5, `MaxRetries` 2 of the 5 validation accepts: attempts
  are alike but for the last. Two addresses allow loops of one and of two.
* `web_session`: two requests, in any role each: two devices that redeem one token, or a refresh
  or a sign-in of the browser beside another device. `MaxPasswords` 3 is two resets, so that two
  requests can redeem one reset token; two sessions are one before and one after a reset. Two
  calls are a `loadSession`, or two that share a refresh, one before and one after it was served.
* `access`: two requests are one that takes rights and one that has them; two rows are a link.
  `MaxChanges` 3 (the founding of organizations not counted) is a member or a key, a row, and the
  change that overtakes; or two rows and the write or the deletion of one. Roles that callers
  assign are DEVELOPER and VIEWER: ADMIN differs from OWNER, which a founder has, in no route.
  One set of scopes is enough because scopes decide one by one.
* `history`: an hour of 2 units has a middle, at which ranges are not aligned. Two hours to a day,
  so that 9 units are two days and the pruning of the first under either retention; `MaxPass` 1
  lets a pass straddle an hour, `MaxLag` 1 lets a check arrive after its own. Ranges of 3 and
  buckets of 2 do not divide each other, as in the 1h range. Two checks are of one hour, of two,
  or of two days. One monitor is enough because a row and an analytics are of one monitor; that
  some upserts of a pass are made and others not is left to the proofs, which hold for any number.

Symmetry is used only in the runs that check safety alone (`incident_overlap`, `access`,
`history`). `CHECK_DEADLOCK FALSE` stands where the bounded system comes to rest: all
calls made and all jobs ended (`delivery`); the outcome found (`probe`); the bounds
used up, or no active member left to make a request (`access`). All other runs check
that there is always a next step.

### Fairness

Weak fairness of the steps of a job that runs, of a sender and of a worker (their
awaits return or fail), of the scheduler (`setInterval` keeps firing), and of the
clock. In `IncidentEngine` also of the arrival of results, which is what
`KeepsBeingChecked` establishes for `CheckScheduler`. Nothing is assumed of operators,
targets, maintenance, faults, key expiry, or of which result a probe has: `Settles` holds
because failures are bounded there, so that an outage ends. In `AlertDelivery`, an
attempt that can either return or throw does one of them. In `Escalation` weak fairness of
each scan's timer and calls. In `WebSession` that the refresh of a browser is
answered or fails (the browser reports a lost connection as an error; the fairness of the
failure says just this, because it is possible as long as the refresh is in flight); none of the other calls,
of the user, of expiry, or of other devices. The other new specifications state no fairness and check
safety.

## Proofs

All theorems hold for every value of the constants that satisfies the named
assumptions (sets are finite where they are counted, bounds are naturals, thresholds and
lives positive, intervals between 1 and the longest one).

* `IncidentProofs`. `Base` = `TypeOK` and `RowsExist` is inductive. On it:
  - `AnnouncedAtMostOnce`: a row with an announcement to come has none yet, and no two
    jobs are about to announce the same row. `OneDownAlertPerIncident` alone says nothing
    of a job at `downAlert`.
  - `FailuresCounted`: the threshold holds when a job is at `create`, and each job at
    `event` is one that has incremented already.
  - `ExposureIsBounded`, whose consequence is `OpenIncidentsAreBounded`: the number of open
    incidents is not inductive, since a job that has found nothing may open another and
    one with a stale read may reopen one. Each job or request is charged with one incident,
    the one it may create or write, and the sum of charges and open incidents never
    exceeds the number of actors. With one job and no request:
    `OneOpenIncidentPerMonitor`.
  - `ReopenedOnlyByStale`: an action property, from `Base`.
  - Of the serial engine, with any number of workers: it is a special case of the engine
    (`SerialStep`), so everything above holds of it, and `Solo` (at most one job runs) is an
    invariant. `OpenAnnounced` and `RecoveryAfterDown` from `Told`: an incident that exists
    was announced, or the running job is at `downAlert` with it. This uses that no
    attempt aborts; the run `down_alert_lost` shows what an abort does to it.
  - `LifecycleImplemented` (`SerialSpec => Lifecycle!Safety`): every step of the engine is
    a step of the documented lifecycle or a stutter. `CurrentPhase` is the status of the one open
    incident, and the step that decides what becomes of a result is `React`; the
    steps before it stutter. The invariant behind it is `Contract`: there is one open incident
    at most; what a job has read is still true when it writes (`Knows`); the counter
    in Redis is never ahead of the failures in a row (`Counts`), so that reaching the threshold
    means what the diagram says; and an incident in MONITORING has had a healthy result before the
    one being handled (`Recovering`), so that a healthy one is the second. Overlap breaks `Knows`,
    which is where duplicates and reopened incidents come from.
* `CheckSchedulerProofs`. `ClaimsSpaced` from `Spaced`: while no exemption applies, the
  ticks to `nextCheckAt` and the ticks since the last claim add up to at least an
  interval. A claim that wins finds `nextCheckAt` at or before its own `now`, so at least
  an interval has passed. Time moves both terms, and every write of `nextCheckAt` only
  raises the sum.
  - `ActiveIsScheduled`: an active monitor has a date, whatever fails. A claim writes a
    date before the job is enqueued, and resume and edit write one of their own, so no lost
    job can take a monitor off the schedule.
  - `CounterOutlivesWait`: if the counter's life exceeds an interval and three delays (the wait
    of the scan, of the job and of the probe), a count once begun in an outage neither falls nor
    expires, as long as nothing is edited and nothing crashes. `Lasting` is its invariant: what
    is left of the counter's life exceeds what is left of the wait. With a life of exactly
    that length TLC finds the counter expired.
* `AlertDeliveryProofs`. `PeriodicBounded` from `Owned`: a sender of a periodic alert owns
  the life of the key it acquired; no other sender and no row outside its progress has it.
  `PeriodicOncePerWindow` speaks of rows only and is not inductive without it.
  `MessagesCounted` and `DeliveredSent` from `HInv`: what a job that is half way still owes,
  namely a message counted and not sent yet (`dispatch`), a message sent and not recorded
  yet (`delivered`), and an attempt that only a fault can have caused (`waiting`).
  - `EndedIsSettled`: a job that is over has left DELIVERED or FAILED on its row, unless it
    had all its attempts or stalled twice, and nothing touches the row, its attempts or its
    messages again.
  - `OrphansAreBounded`: rows that exist without a job, which stay PENDING for ever, are at most
    as many as the faults. A sender holds at most one such row, and loses it only by dying.
* `EscalationProofs`. `ScansAreTyped` is `Base`: what a scan has left to announce is due in the
  policy and not on the list it has read.
  - `AnnouncementsAreBounded` from `InTurn` and `Charged`. `InTurn`: without overlap the
    list a scan has read is the one stored, until the scan itself writes. Each write is the list
    read plus one threshold, so after every visit of an incident that announces, the stored list is longer
    than before, though it may have forgotten thresholds of the same visit. `Charged` pays for
    the announcements of a threshold with the lengths its list has had: a scan that is at the
    incident may announce each place of the threshold once, and a scan that is cut
    short has spent a fault. A list has at most as many lengths as the policy has
    thresholds.
  - `ListsNeverShorten` holds also when scans overlap: once the stored list and all copies of
    it name n thresholds, no list names fewer again.
* `WebSessionProofs`. `Base` (types; nothing is signed in before the registration; a
  session not yet created has no history) is inductive.
  - `TokenUses`: the uses of a token and the requests that have found it unused and not yet
    redeemed it are together at most as many as the requests. Only an unused token gains such
    a request.
  - `OutdatedBounded`: sessions that outlived a reset, and the requests that may still create
    one, are fewer than the requests, because the reset is itself a request that ends.
  - `Revoked`: an action property, from `Base`.
  - `BrowserImplementsServer`: each step of the browser is a step of the server or none
    (`WebSpec => Spec`), so the three above hold of the server in use by a browser. It needs
    `Handlers`: the request that serves the refresh has only to answer, and the one the sign-in
    waits for is in the handler of a login or of a registration.
  - `StoreOwned` (`TokensBelong`) from `Owned`: unless the store was changed under it, a refresh in
    flight has posted what the store holds, so that its answer changes nothing; a `loadSession`
    that is not over waits for a call that is open, and one that fails leaves no tokens.
  - `WaitersHaveARefresh`: calls wait only while there is a shared promise, and a
    refresh that is posted has somebody waiting for it.
* `AccessProofs`. `Base` = `TypeOK` and `Admission`: a request holds at each stage an
  existing organization and, from `found` on, something it has found there.
  - `OrgsAreIsolated` and `PoliciesStayInside`: `Isolation` and `LinksTested` are inductive on it
    together. The steps that matter are a write by id alone (the row it hits is in the
    organization in which it was found, because no write moves a row or a key that exists) and a
    deletion, which takes incidents and webhooks along: an incident is in the organization of its
    monitor by `LinksTested`, a webhook need not be, and is excepted.
  - `RolesAreEnforced`: from `Demands`, what the routes demand of each kind and operation.
  - `StaleRightsAreBounded`: taking rights away is the last step of a request, and no other
    step makes a request stale, so that at least one request is not.
  - `OwnerStays` from `Kept`: who is about to invite over or remove a member has looked at one
    who was not the owner, and nobody can have become the owner since.
* `HousekeepingProofs`. `Inv` says of each pass that its bucket has ended and not long ago
  (`Recent`), and what of it has been read and written (`Reading`), of each row that its
  bucket has ended and that it is exact (`Row`), and of the past that only checks beyond the
  retention are gone (`History`). `RowsStayExact` holds because what a pass reads in time is
  not pruned yet and no new check is due in a bucket that has ended; the proof shows where
  the length of a pass counts, and that a retention of two days is not always enough.
  A check that arrives late is not due in the buckets that were over by then (`Due`). `AnalyticsAreComplete` holds
  because only checks beyond the retention are gone. `ChartsWhenAligned`, that the
  series shows all of them or none, is arithmetic on units of any size: checks are counted under multiples of the
  bucket's length, the keys of the series are that length apart, and so they hit the multiples
  in the range or miss them all (`Multiples`, `Quotient`, `RoundedUp`, `KeysFound`).
* `ProbeProofs`. `OutcomeHolds` from `Tries`: the answers count the attempts, and all but the
  last were bad. `HopsHold` from `Hops`: the redirects count the requests, and what is about
  to be requested was checked in this turn of the loop.

Every safety invariant and action property of the runs is a theorem. Only model-checked are
the liveness properties, which are out of the provers' reach: `Settles`,
`KeepsBeingChecked`, `OutageReachesThreshold`, `EnqueuedSettles`, `EscalationsSettle`,
`WaitersReleased`, and of `LifecycleContract` that every result has its reaction
(`WF_vars(React)`). What each of these needs to hold at every moment is proved for all but
the first: `ActiveIsScheduled`, `CounterOutlivesWait`, `EndedIsSettled`,
`ListsNeverShorten`, `WaitersHaveARefresh` and `LifecycleImplemented`; left to TLC is that
the steps come. The two violated properties are TLC's by nature. No
module declares a recursive operator.

## Not modelled, and the plan

Not modelled because nothing could go wrong that the models could show: single queries
(dashboard, search, lists, the public status page), formatting, logging, the audit log, pages
of the web client, realtime events, sockets, TLS, DNS and encryption. Pure functions with
tests of their own (`percentile`, `isAnomalous`, the assertion paths, the address ranges of
`ssrf.ts`, `computeBucketMetrics`) appear as the outcomes they can have. Left, in the order
planned:

1. In the existing modules: the status column and PAUSED (a check that ends after a pause
   overwrites it), the limit of 500 rows of a scan, a stalled job whose first worker is
   alive, policies edited during an escalation, pruning of deliveries by age.
2. Columns: the read-modify-write of a policy, the settings of a monitor.
3. Proofs: the safety core of `Settles` (without failures and requests the incidents
   that may still be reopened only become fewer), and what the extensions above bring.
   Liveness stays with TLC.
