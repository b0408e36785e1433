---------------------------- MODULE Housekeeping ----------------------------
(***************************************************************************)
(* The history of checks: what the hourly pass of every process             *)
(* (server/src/workers/housekeeping.ts) aggregates and prunes               *)
(* (services/aggregation.service.ts), and what the analytics of a monitor   *)
(* (services/analytics.service.ts) read from what is left.                  *)
(*                                                                          *)
(* The unit of time is as fine as one likes: an hour and a day are so many   *)
(* units.  A check is its monitor, its stamp (checkedAt) and those of its    *)
(* buckets that were over when its row was there to be read; an aggregated   *)
(* row is the set of checks it was computed from: its counts, percentages    *)
(* and percentiles follow from that.                                         *)
(***************************************************************************)
EXTENDS Integers, FiniteSets, Functions

CONSTANTS
    Monitors,
    Passes,       \* passes in progress at once, of any process
    Hour, Day,    \* in units (fewer than 24 hours to a day in a model)
    Retentions,   \* RETENTION_RAW_CHECKS_DAYS, as a deployment may set it
    RangeLengths, \* RANGE_WINDOWS: the length of a range ...
    RangeBuckets, \* ... and of a bucket of its series, in units
    MaxPass,      \* units within which a pass is over
    MaxLag,       \* bound: units between the stamp of a check and its row
    MaxTime,      \* bound: units
    MaxChecks     \* bound: checks ever stored

ASSUME DayAssumption ==
    /\ Hour \in Nat \ {0} /\ Day \in Nat \ {0} /\ Day % Hour = 0
    /\ MaxPass \in Nat /\ MaxPass + 2 * Hour - 1 <= Day
ASSUME RetentionsAssumption == Retentions \subseteq Nat \ {0}
ASSUME RangesAssumption == RangeLengths \subseteq Nat \ {0} /\ RangeBuckets \subseteq Nat \ {0}
ASSUME BoundsAssumption == MaxTime \in Nat /\ MaxChecks \in Nat /\ MaxLag \in Nat

VARIABLES
    time,
    retention,    \* in days
    taken,        \* history: every check ever stored
    raw,          \* check_results: those not pruned
    aggregated,   \* aggregated_metrics: the rows there are, each the checks it was computed from
    rolledUp,     \* history: the checks whose hour a pass has rolled up to the end, and
                  \* that were there before it was over
    pass          \* each pass: its next await and its locals

vars == <<time, retention, taken, raw, aggregated, rolledUp, pass>>

Buckets == {"HOURLY", "DAILY"}
Check   == [monitor : Monitors, at : 0..MaxTime, late : SUBSET Buckets]
Length(bucket) == IF bucket = "HOURLY" THEN Hour ELSE Day

NoPass == [step |-> "idle", began |-> 0, HOURLY |-> 0, DAILY |-> 0, read |-> {}, left |-> {}]

TypeOK ==
    /\ time \in 0..MaxTime /\ retention \in Retentions
    /\ raw \subseteq taken /\ taken \subseteq Check
    /\ \A x \in DOMAIN aggregated :
          /\ x.monitor \in Monitors /\ x.bucket \in Buckets
          /\ x.start \in 0..MaxTime /\ x.start % Length(x.bucket) = 0
          /\ aggregated[x] \subseteq taken /\ aggregated[x] # {}
    /\ rolledUp \subseteq taken
    /\ pass \in [Passes ->
          [step : {"idle", "readHOURLY", "HOURLY", "readDAILY", "DAILY", "prune"},
           began : 0..MaxTime, HOURLY : (-Hour)..MaxTime, DAILY : (-Day)..MaxTime,
           read : SUBSET taken, left : SUBSET Monitors]]

Init ==
    /\ time = 0
    /\ retention \in Retentions
    /\ taken = {} /\ raw = {}
    /\ aggregated = [x \in {} |-> {}]
    /\ rolledUp = {}
    /\ pass = [p \in Passes |-> NoPass]

-----------------------------------------------------------------------------
\* The checks of C in the bucket that starts at `start`.
Within(C, bucket, start) == {c \in C : start <= c.at /\ c.at < start + Length(bucket)}

\* Those that were there before the bucket was over.
Due(C, bucket, start) == {c \in Within(C, bucket, start) : bucket \notin c.late}

\* Mutant: a bucket starts where the pass happens to run.
bucketStartUnaligned(bucket, t) == t

\* Align a time to the start of its bucket.
bucketStartFor(bucket, t) == (t \div Length(bucket)) * Length(bucket)

\* A worker stores a check (see CheckScheduler), stamped by the default of the
\* column: it may be read from now on, and be of an hour that is over.
StoreCheck(m, at) ==
    LET over == {b \in Buckets : bucketStartFor(b, at) + Length(b) <= time}
        c    == [monitor |-> m, at |-> at, late |-> over]
    IN
    /\ time - MaxLag <= at /\ at <= time
    /\ Cardinality(taken) < MaxChecks
    /\ taken' = taken \cup {c} /\ raw' = raw \cup {c}
    /\ UNCHANGED <<time, retention, aggregated, rolledUp, pass>>

\* Time passes; no pass takes longer than MaxPass.
Tick ==
    /\ time < MaxTime
    /\ \A p \in Passes : pass[p].step # "idle" => time < pass[p].began + MaxPass
    /\ time' = time + 1
    /\ UNCHANGED <<retention, taken, raw, aggregated, rolledUp, pass>>

Begun(hour, day) ==
    [step |-> "readHOURLY", began |-> time, HOURLY |-> hour, DAILY |-> day, read |-> {}, left |-> {}]

\* Mutant: the hour and the day that are still open.
BeginEarly(p) ==
    /\ pass[p].step = "idle"
    /\ pass' = [pass EXCEPT ![p] = Begun(bucketStartFor("HOURLY", time), bucketStartFor("DAILY", time))]
    /\ UNCHANGED <<time, retention, taken, raw, aggregated, rolledUp>>

\* A pass begins, after boot or by the hourly timer of some process, whatever
\* other passes are doing: the hour and the day that ended last.
Begin(p) ==
    /\ pass[p].step = "idle"
    /\ pass' = [pass EXCEPT ![p] = Begun(bucketStartFor("HOURLY", time) - Length("HOURLY"),
                                        bucketStartFor("DAILY", time) - Length("DAILY"))]
    /\ UNCHANGED <<time, retention, taken, raw, aggregated, rolledUp>>

Start(p, bucket) == IF bucket = "HOURLY" THEN pass[p].HOURLY ELSE pass[p].DAILY

\* rollupBucket reads the checks of its bucket.
ReadBucket(p, bucket) ==
    LET checks == Within(raw, bucket, Start(p, bucket)) IN
    /\ pass[p].step = IF bucket = "HOURLY" THEN "readHOURLY" ELSE "readDAILY"
    /\ pass' = [pass EXCEPT ![p].step = bucket, ![p].read = checks,
                            ![p].left = {c.monitor : c \in checks}]
    /\ UNCHANGED <<time, retention, taken, raw, aggregated, rolledUp>>

\* It upserts the row of one monitor.
Upsert(p, m) ==
    LET bucket == pass[p].step
        new    == [monitor |-> m, bucket |-> bucket, start |-> Start(p, bucket)]
    IN
    /\ bucket \in Buckets /\ m \in pass[p].left
    /\ aggregated' = [x \in DOMAIN aggregated \cup {new} |->
           IF x = new THEN {c \in pass[p].read : c.monitor = m} ELSE aggregated[x]]
    /\ pass' = [pass EXCEPT ![p].left = @ \ {m}]
    /\ UNCHANGED <<time, retention, taken, raw, rolledUp>>

\* Mutant: the rows are written in the background.
FinishAtOnce(p) ==
    /\ pass[p].step \in Buckets
    /\ pass' = [pass EXCEPT ![p].step = IF @ = "HOURLY" THEN "readDAILY" ELSE "prune",
                            ![p].read = {}, ![p].left = {}]
    /\ rolledUp' = rolledUp \cup
           {c \in Due(taken, "HOURLY", pass[p].HOURLY) : pass[p].step = "HOURLY"}
    /\ UNCHANGED <<time, retention, taken, raw, aggregated>>

\* All rows are written: after the hour the day, after the day the pruning.
FinishBucket(p) ==
    /\ pass[p].step \in Buckets /\ pass[p].left = {}
    /\ pass' = [pass EXCEPT ![p].step = IF @ = "HOURLY" THEN "readDAILY" ELSE "prune",
                            ![p].read = {}]
    /\ rolledUp' = rolledUp \cup
           {c \in Due(taken, "HOURLY", pass[p].HOURLY) : pass[p].step = "HOURLY"}
    /\ UNCHANGED <<time, retention, taken, raw, aggregated>>

\* A call of a rollup throws: runHousekeeping logs it and prunes all the same.
RollupFails(p) ==
    /\ pass[p].step \in {"readHOURLY", "HOURLY", "readDAILY", "DAILY"}
    /\ pass' = [pass EXCEPT ![p].step = "prune", ![p].read = {}, ![p].left = {}]
    /\ UNCHANGED <<time, retention, taken, raw, aggregated, rolledUp>>

\* Mutant: the retention is taken as hours.
PruneHours(p) ==
    /\ pass[p].step = "prune"
    /\ raw' = {c \in raw : c.at >= time - retention}
    /\ pass' = [pass EXCEPT ![p] = NoPass]
    /\ UNCHANGED <<time, retention, taken, aggregated, rolledUp>>

\* runRetention, by the clock of now.
Prune(p) ==
    /\ pass[p].step = "prune"
    /\ raw' = {c \in raw : c.at >= time - retention * Day}
    /\ pass' = [pass EXCEPT ![p] = NoPass]
    /\ UNCHANGED <<time, retention, taken, aggregated, rolledUp>>

\* The pruning throws, or the process dies.
Abandon(p) ==
    /\ pass[p].step # "idle"
    /\ pass' = [pass EXCEPT ![p] = NoPass]
    /\ UNCHANGED <<time, retention, taken, raw, aggregated, rolledUp>>

runHousekeeping(p) ==
    \/ Begin(p)
    \/ \E bucket \in Buckets : ReadBucket(p, bucket)
    \/ \E m \in Monitors : Upsert(p, m)
    \/ FinishBucket(p) \/ RollupFails(p) \/ Prune(p) \/ Abandon(p)

Next ==
    \/ Tick
    \/ \E m \in Monitors, at \in 0..MaxTime : StoreCheck(m, at)
    \/ \E p \in Passes : runHousekeeping(p)

Spec == Init /\ [][Next]_vars

-----------------------------------------------------------------------------
(***************************************************************************)
(* computeAnalytics for one monitor and window, at the present time.        *)
(***************************************************************************)
RANGE_WINDOWS == [length : RangeLengths, bucket : RangeBuckets]

\* By the clock, which is hardly ever at a multiple of a bucket.
From(w) == time - w.length

ChecksRead(m, w) == {c \in raw : c.monitor = m /\ From(w) <= c.at /\ c.at <= time}

\* Mutant: as many keys as there are whole buckets in the range.
SeriesKeysWhole(w) == {From(w) + i * w.bucket : i \in 0..(w.length \div w.bucket - 1)}

\* The keys of the series, laid from `from`.
SeriesKeys(w) ==
    {From(w) + i * w.bucket : i \in 0..((w.length + w.bucket - 1) \div w.bucket - 1)}

\* A check is counted under the multiple of the bucket's length it falls in, if
\* that is a key.
Series(m, w) ==
    [k \in SeriesKeys(w) |-> {c \in ChecksRead(m, w) : (c.at \div w.bucket) * w.bucket = k}]

-----------------------------------------------------------------------------
(***************************************************************************)
(* Properties.                                                              *)
(***************************************************************************)

\* "A re-run simply overwrites with the same values" (rollupBucket): whatever
\* passes overlap, fail and are run again while others prune, a row is computed
\* from checks of its bucket, and from every one that was there before the bucket
\* was over; a later one may be missing.  The exception is the row of a day
\* under a retention of one day, or of two when a pass may go on: pruning has
\* cut that day when it is rolled up again, and the row is overwritten with fewer.
RowsAreExact ==
    \A x \in DOMAIN aggregated :
        LET mine == {c \in taken : c.monitor = x.monitor} IN
        /\ aggregated[x] \subseteq Within(mine, x.bucket, x.start)
        /\ (x.bucket = "DAILY" => retention * Day >= 2 * Day + MaxPass - 1) =>
               Due(mine, x.bucket, x.start) \subseteq aggregated[x]

\* "So no raw data is lost" (runRollups): a check that is pruned lives on in the
\* row of its hour.  The exceptions are a check that was there only when its hour
\* was over, and an hour that no pass has rolled up to the end: a pass takes the
\* last hour only, so that an hour without a pass, or whose passes failed, is
\* never made up for, and its checks are pruned all the same.
PrunedLivesOn ==
    \A c \in rolledUp \ raw :
        \E x \in DOMAIN aggregated : x.bucket = "HOURLY" /\ c \in aggregated[x]

\* The analytics of a range within the retention count every check taken in it,
\* and nothing else, however late or often the passes run; a longer range
\* silently counts what is left.
AnalyticsComplete ==
    \A m \in Monitors, w \in RANGE_WINDOWS :
        w.length <= retention * Day =>
            ChecksRead(m, w) = {c \in taken : c.monitor = m /\ From(w) <= c.at}

\* What the "time-series charts" (README.md) have to show of them: every check that
\* is counted, but for those of this instant when the range is a multiple of the
\* bucket, at the instants when the range begins at a multiple of the bucket; and at
\* any other instant, which is nearly always, nothing at all, because no check
\* finds its key.
ChartedWhenAligned ==
    \A m \in Monitors, w \in RANGE_WINDOWS :
        LET charted == UNION Range(Series(m, w)) IN
        IF From(w) % w.bucket = 0
        THEN charted = {c \in ChecksRead(m, w) : w.length % w.bucket = 0 => c.at < time}
        ELSE charted = {}
=============================================================================
