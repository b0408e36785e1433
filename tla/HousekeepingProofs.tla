------------------------- MODULE HousekeepingProofs -------------------------
(***************************************************************************)
(* For any passes, units, ranges and retentions: an aggregated row is         *)
(* computed from every check of its bucket that was there in time, a pruned   *)
(* check lives on in one, the analytics of a range within the retention read  *)
(* every check of it, and the charts show them or nothing.                    *)
(***************************************************************************)
EXTENDS Housekeeping, TLAPS, FiniteSetTheorems

Kept == retention * Day

\* The bounds of a bucket that a pass rolls up: it has ended, and not long ago.
Recent(p) ==
    /\ pass[p].began <= time /\ time <= pass[p].began + MaxPass
    /\ \A bucket \in Buckets :
          LET start == Start(p, bucket)  length == Length(bucket) IN
          /\ start + length <= pass[p].began /\ pass[p].began + 1 <= start + 2 * length
          /\ \E k \in Int : start = k * length

Exact(bucket) == bucket = "DAILY" => Kept >= 2 * Day + MaxPass - 1

\* What a pass has read, and whose rows it has still to write.
Reading(p) ==
    LET bucket == pass[p].step IN
    bucket \in Buckets =>
        /\ pass[p].read \subseteq Within(taken, bucket, Start(p, bucket))
        /\ Exact(bucket) => Due(taken, bucket, Start(p, bucket)) \subseteq pass[p].read
        /\ \A m \in pass[p].left : \E c \in pass[p].read : c.monitor = m
        /\ bucket = "HOURLY" =>
              \A c \in pass[p].read : c.monitor \notin pass[p].left =>
                  [monitor |-> c.monitor, bucket |-> "HOURLY", start |-> pass[p].HOURLY]
                      \in DOMAIN aggregated

Of(m, bucket, start)    == {c \in Within(taken, bucket, start) : c.monitor = m}
DueOf(m, bucket, start) == {c \in Due(taken, bucket, start) : c.monitor = m}

\* A row belongs to a bucket that has ended.
Row(x) ==
    /\ x.monitor \in Monitors /\ x.bucket \in Buckets
    /\ x.start \in 0..MaxTime /\ (\E k \in Int : x.start = k * Length(x.bucket))
    /\ x.start + Length(x.bucket) <= time
    /\ aggregated[x] # {} /\ aggregated[x] \subseteq Of(x.monitor, x.bucket, x.start)
    /\ Exact(x.bucket) => DueOf(x.monitor, x.bucket, x.start) \subseteq aggregated[x]

Pass ==
    [step : {"idle", "readHOURLY", "HOURLY", "readDAILY", "DAILY", "prune"},
     began : 0..MaxTime, HOURLY : (-Hour)..MaxTime, DAILY : (-Day)..MaxTime,
     read : SUBSET Check, left : SUBSET Monitors]

Typed ==
    /\ time \in 0..MaxTime /\ retention \in Retentions
    /\ raw \subseteq taken /\ taken \subseteq Check
    /\ rolledUp \subseteq taken
    /\ pass \in [Passes -> Pass]

\* A check of an hour that has its row.
Living(c) ==
    \E x \in DOMAIN aggregated :
        x.bucket = "HOURLY" /\ x.monitor = c.monitor /\ c \in Due(taken, "HOURLY", x.start)

\* Only checks older than the retention are pruned, and an hour that is rolled up
\* has a row for each of its checks.
History ==
    /\ \A c \in taken : c.at <= time /\ (c \in raw \/ c.at < time - Kept)
    /\ \A c \in rolledUp : Living(c)

\* What a pass holds, which no step of another disturbs.
Holds(p) == pass[p].read \subseteq taken /\ (pass[p].step # "idle" => Recent(p) /\ Reading(p))

Inv ==
    /\ Typed /\ History
    /\ \A x \in DOMAIN aggregated : Row(x)
    /\ \A p \in Passes : Holds(p)

-----------------------------------------------------------------------------
LEMMA Aligned ==
    ASSUME NEW d \in Nat \ {0}, NEW k \in Int
    PROVE  (k * d) % d = 0
  OBVIOUS

LEMMA DayStart ==
    ASSUME NEW t \in Nat, NEW d \in Nat \ {0}
    PROVE  /\ t \div d \in Nat
           /\ (t \div d) * d <= t /\ t < (t \div d) * d + d
  OBVIOUS

\* Multiples of a length are ordered as their factors are.
LEMMA Multiples ==
    ASSUME NEW b \in Nat \ {0}, NEW x \in Int, NEW y \in Int
    PROVE  /\ x * b \in Int /\ (x - y) * b = x * b - y * b /\ (x + 1) * b = x * b + b
           /\ (x <= y <=> x * b <= y * b) /\ (x < y <=> x * b < y * b)
<1>1. x * b \in Int /\ (x - y) * b = x * b - y * b /\ (x + 1) * b = x * b + b
  BY SMT
<1>2. y > x => y * b >= x * b + b
  BY SMT
<1>3. x > y => x * b >= y * b + b
  BY SMT
<1>4. x = y => x * b = y * b
  OBVIOUS
<1> QED
  BY <1>1, <1>2, <1>3, <1>4, SMT

\* Every time of a bucket has its start.
LEMMA SameBucket ==
    ASSUME NEW d \in Nat \ {0}, NEW k \in Int, NEW t \in Nat, k * d <= t, t < k * d + d
    PROVE  (t \div d) * d = k * d
<1> DEFINE q == t \div d
<1>1. q \in Nat /\ q * d <= t /\ t < q * d + d
  BY DayStart
<1> HIDE DEF q
<1>2. k * d < (q + 1) * d /\ q * d < (k + 1) * d
  BY <1>1, Multiples
<1>3. k < q + 1 /\ q < k + 1
  BY <1>1, <1>2, Multiples
<1> QED
  BY <1>1, <1>3 DEF q

LEMMA Lengths ==
    ASSUME NEW bucket \in Buckets
    PROVE  Length(bucket) \in Nat \ {0}
  BY DayAssumption DEF Length, Buckets

LEMMA KeptNat ==
    ASSUME Typed
    PROVE  Kept \in Nat /\ Kept >= Day
<1>1. retention \in Nat /\ retention >= 1 /\ Day \in Nat
  BY RetentionsAssumption, DayAssumption DEF Typed
<1> QED
  BY <1>1 DEF Kept

LEMMA PassTyped ==
    ASSUME Typed, NEW p \in Passes
    PROVE  /\ pass[p] \in Pass
           /\ pass[p].began \in Nat /\ pass[p].HOURLY \in Int /\ pass[p].DAILY \in Int
           /\ time \in Nat /\ Day \in Nat \ {0} /\ MaxPass \in Nat /\ MaxTime \in Nat
  BY DayAssumption, BoundsAssumption DEF Typed, Pass

LEMMA PassSet ==
    ASSUME Typed, NEW p \in Passes, NEW new \in Pass, pass' = [pass EXCEPT ![p] = new]
    PROVE  /\ pass' \in [Passes -> Pass] /\ pass'[p] = new
           /\ \A q \in Passes \ {p} : pass'[q] = pass[q]
  BY DEF Typed

LEMMA Others ==
    ASSUME Inv, NEW q \in Passes, pass'[q] = pass[q],
           UNCHANGED <<time, retention, taken>>, DOMAIN aggregated \subseteq DOMAIN aggregated'
    PROVE  Holds(q)'
  BY DEF Inv, Holds, Recent, Reading, Exact, Kept, Start, Due, Within, Length

\* The retention reaches back to every bucket whose row is exact.
LEMMA Enough ==
    ASSUME Typed, NEW bucket \in Buckets, Exact(bucket)
    PROVE  Kept >= 2 * Length(bucket) + MaxPass - 1
<1>1. Kept \in Nat /\ Kept >= Day
  BY KeptNat
<1>2. CASE bucket = "HOURLY"
  BY <1>1, <1>2, DayAssumption DEF Length
<1>3. CASE bucket = "DAILY"
  BY <1>3 DEF Length, Exact
<1> QED
  BY <1>2, <1>3 DEF Buckets

\* A step of a pass that leaves the rows alone.
LEMMA Steps ==
    ASSUME Inv, NEW p \in Passes, pass' \in [Passes -> Pass],
           \A q \in Passes \ {p} : pass'[q] = pass[q],
           Holds(p)', UNCHANGED <<time, retention, taken, aggregated>>,
           raw' \subseteq raw,
           \A c \in taken : c \in raw' \/ c.at < time - Kept,
           rolledUp' \subseteq taken, \A c \in rolledUp' : Living(c)
    PROVE  Inv'
<1>1. Typed /\ Typed'
  BY DEF Inv, Typed, Check
<1>2. History'
  BY DEF Inv, History, Kept, Living, Due, Within, Length
<1>3. \A x \in DOMAIN aggregated' : Row(x)'
  BY DEF Inv, Row, Exact, Kept, Of, DueOf, Due, Within, Length
<1>4. \A q \in Passes : Holds(q)'
  <2> SUFFICES ASSUME NEW q \in Passes, q # p PROVE Holds(q)'
    OBVIOUS
  <2>1. pass'[q] = pass[q]
    OBVIOUS
  <2> QED
    BY <2>1, Others
<1> QED
  BY <1>1, <1>2, <1>3, <1>4 DEF Inv

LEMMA Unpruned ==
    ASSUME Inv
    PROVE  /\ raw \subseteq raw /\ rolledUp \subseteq taken /\ \A c \in rolledUp : Living(c)
           /\ \A c \in taken : c \in raw \/ c.at < time - Kept
  BY DEF Inv, History, Typed

LEMMA NoPassHolds ==
    ASSUME NEW p \in Passes, pass'[p] = NoPass
    PROVE  Holds(p)'
  BY DEF Holds, NoPass

LEMMA NoPassTyped == NoPass \in Pass
  BY DayAssumption, BoundsAssumption DEF NoPass, Pass

-----------------------------------------------------------------------------
LEMMA InvInit == Init => Inv
<1> SUFFICES ASSUME Init PROVE Inv
  OBVIOUS
<1>1. Typed
  BY NoPassTyped, BoundsAssumption DEF Init, Typed
<1>2. \A p \in Passes : pass[p] = NoPass
  BY DEF Init
<1> QED
  BY <1>1, <1>2 DEF Init, Inv, History, Holds, NoPass

LEMMA Ticks == Inv /\ Tick => Inv'
<1> SUFFICES ASSUME Inv, Tick PROVE Inv'
  OBVIOUS
<1>1. /\ time' = time + 1 /\ time < MaxTime
      /\ UNCHANGED <<retention, taken, raw, aggregated, rolledUp, pass>>
      /\ \A p \in Passes : pass[p].step # "idle" => time < pass[p].began + MaxPass
  BY DEF Tick
<1>2. /\ time \in Nat /\ MaxTime \in Nat /\ Kept \in Nat /\ Day \in Nat /\ MaxPass \in Nat
      /\ \A c \in taken : c.at \in Nat
  BY KeptNat, BoundsAssumption, DayAssumption DEF Inv, Typed, Check
<1>3. Typed'
  BY <1>1, <1>2 DEF Inv, Typed
<1>4. History'
  <2>1. \A c \in taken : c.at <= time + 1 /\ (c \in raw \/ c.at < (time + 1) - Kept)
    BY <1>2 DEF Inv, History
  <2>2. \A c \in rolledUp : Living(c)'
    BY <1>1 DEF Inv, History, Living, Due, Within, Length
  <2>3. Kept' = Kept /\ taken' = taken /\ raw' = raw /\ rolledUp' = rolledUp /\ time' = time + 1
    BY <1>1 DEF Kept
  <2> QED
    BY <2>1, <2>2, <2>3 DEF History
<1>5. \A x \in DOMAIN aggregated : Row(x)'
  <2> SUFFICES ASSUME NEW x \in DOMAIN aggregated PROVE Row(x)'
    OBVIOUS
  <2>1. Row(x)
    BY DEF Inv
  <2>2. x.start \in Nat /\ Length(x.bucket) \in Nat
    BY <2>1, Lengths, BoundsAssumption DEF Row
  <2>3. x.start + Length(x.bucket) <= time + 1
    BY <1>2, <2>1, <2>2 DEF Row
  <2> QED
    BY <1>1, <2>1, <2>3 DEF Row, Exact, Kept, Of, DueOf, Due, Within, Length
<1>6. \A p \in Passes : Holds(p)'
  <2> SUFFICES ASSUME NEW p \in Passes PROVE Holds(p)'
    OBVIOUS
  <2>1. Holds(p) /\ pass[p].began \in Nat
    BY PassTyped DEF Inv
  <2>2. pass[p].step # "idle" => pass[p].began <= time + 1 /\ time + 1 <= pass[p].began + MaxPass
    BY <1>1, <1>2, <2>1 DEF Holds, Recent
  <2> QED
    BY <1>1, <2>1, <2>2 DEF Holds, Recent, Reading, Exact, Kept, Start, Due, Within, Length
<1> QED
  BY <1>1, <1>3, <1>4, <1>5, <1>6 DEF Inv

\* A new check is not due in a bucket that has ended.
LEMMA Stores == \A m \in Monitors, at \in 0..MaxTime : Inv /\ StoreCheck(m, at) => Inv'
<1> SUFFICES ASSUME Inv, NEW m \in Monitors, NEW at \in 0..MaxTime, StoreCheck(m, at) PROVE Inv'
  OBVIOUS
<1> DEFINE over == {b \in Buckets : bucketStartFor(b, at) + Length(b) <= time}
           c0   == [monitor |-> m, at |-> at, late |-> over]
<1>1. /\ taken' = taken \cup {c0} /\ raw' = raw \cup {c0} /\ at <= time
      /\ UNCHANGED <<time, retention, aggregated, rolledUp, pass>>
  BY DEF StoreCheck
<1>2. c0 \in Check /\ c0.at = at /\ c0.late = over /\ time \in Nat /\ at \in Nat
  BY BoundsAssumption DEF Check, Inv, Typed
<1>3. ASSUME NEW bucket \in Buckets, NEW start \in Int, start + Length(bucket) <= time,
             \E k \in Int : start = k * Length(bucket)
      PROVE  Due(taken', bucket, start) = Due(taken, bucket, start)
  <2> SUFFICES ASSUME start <= at, at < start + Length(bucket) PROVE bucket \in over
    BY <1>1, <1>2 DEF Due, Within
  <2>1. bucketStartFor(bucket, at) = start
    BY <1>2, <1>3, Lengths, SameBucket DEF bucketStartFor
  <2> QED
    BY <1>3, <2>1
<1> HIDE DEF c0, over
<1>4. \A bucket, start : /\ Within(taken, bucket, start) \subseteq Within(taken', bucket, start)
                         /\ Due(taken, bucket, start) \subseteq Due(taken', bucket, start)
  BY <1>1 DEF Within, Due
<1>5. Typed'
  BY <1>1, <1>2 DEF Inv, Typed
<1>6. History'
  <2>1. \A c \in rolledUp : Living(c)'
    BY <1>1, <1>4 DEF Inv, History, Living
  <2> QED
    BY <1>1, <1>2, <2>1 DEF Inv, History, Kept
<1>7. \A x \in DOMAIN aggregated : Row(x)'
  <2> SUFFICES ASSUME NEW x \in DOMAIN aggregated PROVE Row(x)'
    OBVIOUS
  <2>1. Row(x)
    BY DEF Inv
  <2>2. Due(taken', x.bucket, x.start) = Due(taken, x.bucket, x.start)
    BY <1>3, <2>1, BoundsAssumption DEF Row
  <2>3. DueOf(x.monitor, x.bucket, x.start)' = DueOf(x.monitor, x.bucket, x.start)
    BY <2>2 DEF DueOf
  <2>4. Of(x.monitor, x.bucket, x.start) \subseteq Of(x.monitor, x.bucket, x.start)'
    BY <1>4 DEF Of
  <2> QED
    BY <1>1, <2>1, <2>3, <2>4 DEF Row, Exact, Kept
<1>8. \A p \in Passes : Holds(p)'
  <2> SUFFICES ASSUME NEW p \in Passes PROVE Holds(p)'
    OBVIOUS
  <2>1. Holds(p)
    BY DEF Inv
  <2>2. CASE pass[p].step = "idle"
    BY <1>1, <2>1, <2>2 DEF Holds
  <2>3. CASE pass[p].step # "idle"
    <3>1. Recent(p) /\ Reading(p) /\ pass[p].read \subseteq taken
      BY <2>1, <2>3 DEF Holds
    <3>2. ASSUME pass[p].step \in Buckets
          PROVE  Due(taken', pass[p].step, Start(p, pass[p].step)) = Due(taken, pass[p].step, Start(p, pass[p].step))
      <4> DEFINE bucket == pass[p].step
                 start  == Start(p, bucket)
      <4>1. start \in Int /\ pass[p].began \in Nat /\ Length(bucket) \in Nat
        BY <3>2, PassTyped, Lengths DEF Inv, Start
      <4>2. start + Length(bucket) <= pass[p].began /\ pass[p].began <= time
        BY <3>1, <3>2 DEF Recent
      <4>3. \E k \in Int : start = k * Length(bucket)
        BY <3>1, <3>2 DEF Recent
      <4>4. start + Length(bucket) <= time
        BY <1>2, <4>1, <4>2
      <4> HIDE DEF bucket, start
      <4>5. bucket \in Buckets
        BY <3>2 DEF bucket
      <4>6. Due(taken', bucket, start) = Due(taken, bucket, start)
        BY <1>3, <4>1, <4>3, <4>4, <4>5
      <4> QED
        BY <4>6 DEF bucket, start
    <3>3. Recent(p)'
      BY <1>1, <3>1 DEF Recent, Start
    <3>4. Reading(p)'
      <4> SUFFICES ASSUME pass[p].step \in Buckets
                   PROVE  Reading(p)'
        BY <1>1 DEF Reading
      <4>1. Within(taken, pass[p].step, Start(p, pass[p].step))
                \subseteq Within(taken', pass[p].step, Start(p, pass[p].step))
        BY <1>4
      <4> QED
        BY <1>1, <3>1, <3>2, <4>1 DEF Reading, Exact, Kept, Start
    <3> QED
      BY <1>1, <3>1, <3>3, <3>4 DEF Holds
  <2> QED
    BY <2>2, <2>3
<1> QED
  BY <1>1, <1>5, <1>6, <1>7, <1>8 DEF Inv

-----------------------------------------------------------------------------
\* The bucket that ended last.
LEMMA Last ==
    ASSUME Typed, NEW bucket \in Buckets
    PROVE  LET start == bucketStartFor(bucket, time) - Length(bucket) IN
           /\ start \in (-Length(bucket))..MaxTime
           /\ start + Length(bucket) <= time /\ time + 1 <= start + 2 * Length(bucket)
           /\ \E k \in Int : start = k * Length(bucket)
<1> DEFINE d == Length(bucket)
           q == time \div d
<1>1. time \in 0..MaxTime /\ time \in Nat /\ MaxTime \in Nat /\ d \in Nat \ {0}
  BY BoundsAssumption, Lengths DEF Typed
<1>2. q \in Nat /\ q * d <= time /\ time < q * d + d
  BY <1>1, DayStart
<1>3. bucketStartFor(bucket, time) = q * d
  BY DEF bucketStartFor
<1> HIDE DEF d, q
<1>4. (q - 1) * d = q * d - d /\ q * d \in Int /\ q - 1 \in Int
  BY <1>1, <1>2, Multiples
<1>5. q * d >= 0
  BY <1>1, <1>2
<1> QED
  BY <1>1, <1>2, <1>3, <1>4, <1>5 DEF d

LEMMA Begins == \A p \in Passes : Inv /\ Begin(p) => Inv'
<1> SUFFICES ASSUME Inv, NEW p \in Passes, Begin(p) PROVE Inv'
  OBVIOUS
<1> DEFINE hour == bucketStartFor("HOURLY", time) - Length("HOURLY")
           day  == bucketStartFor("DAILY", time) - Length("DAILY")
           new  == [step |-> "readHOURLY", began |-> time, HOURLY |-> hour, DAILY |-> day,
                    read |-> {}, left |-> {}]
<1>1. /\ pass' = [pass EXCEPT ![p] = new]
      /\ UNCHANGED <<time, retention, taken, raw, aggregated, rolledUp>>
  BY DEF Begin, Begun
<1>2. time \in 0..MaxTime /\ time \in Nat /\ MaxPass \in Nat
  BY BoundsAssumption, DayAssumption DEF Inv, Typed
<1>3. /\ hour \in (-Hour)..MaxTime /\ hour + Hour <= time /\ time + 1 <= hour + 2 * Hour
      /\ \E k \in Int : hour = k * Hour
  BY Last DEF Inv, Length, Buckets
<1>4. /\ day \in (-Day)..MaxTime /\ day + Day <= time /\ time + 1 <= day + 2 * Day
      /\ \E k \in Int : day = k * Day
  BY Last DEF Inv, Length, Buckets
<1> HIDE DEF hour, day
<1>5. new \in Pass
  BY <1>2, <1>3, <1>4 DEF Pass
<1>6. /\ pass'[p] = new /\ pass' \in [Passes -> Pass]
      /\ \A q \in Passes \ {p} : pass'[q] = pass[q]
  BY <1>1, <1>5, PassSet DEF Inv
<1>7. Recent(p)'
  <2>1. Start(p, "HOURLY")' = hour /\ Start(p, "DAILY")' = day /\ pass'[p].began = time /\ time' = time
    BY <1>1, <1>6 DEF Start
  <2>2. Length("HOURLY") = Hour /\ Length("DAILY") = Day
    BY DEF Length
  <2>3. time <= time + MaxPass
    BY <1>2
  <2>4. \A bucket \in Buckets : bucket = "HOURLY" \/ bucket = "DAILY"
    BY DEF Buckets
  <2>5. ASSUME NEW bucket \in Buckets
        PROVE  LET start == Start(p, bucket)'  length == Length(bucket)' IN
               /\ start + length <= pass'[p].began /\ pass'[p].began + 1 <= start + 2 * length
               /\ \E k \in Int : start = k * length
    <3>1. Length(bucket)' = Length(bucket)
      BY DEF Length
    <3>2. CASE bucket = "HOURLY"
      BY <1>3, <2>1, <2>2, <3>1, <3>2
    <3>3. CASE bucket = "DAILY"
      BY <1>4, <2>1, <2>2, <3>1, <3>3
    <3> QED
      BY <2>4, <3>2, <3>3
  <2>6. pass'[p].began <= time' /\ time' <= pass'[p].began + MaxPass
    BY <1>2, <2>1, <2>3
  <2> QED
    BY <2>5, <2>6, Zenon DEF Recent
<1>8. Holds(p)'
  BY <1>6, <1>7 DEF Holds, Reading, Buckets
<1> QED
  BY <1>1, <1>6, <1>8, Steps, Unpruned

\* What is read in time has not been pruned.
LEMMA NothingPruned ==
    ASSUME Inv, NEW p \in Passes, Recent(p), NEW bucket \in Buckets, Exact(bucket)
    PROVE  Within(raw, bucket, Start(p, bucket)) = Within(taken, bucket, Start(p, bucket))
<1>1. /\ pass[p].began \in Nat /\ Start(p, bucket) \in Int
      /\ time \in Nat /\ Length(bucket) \in Nat /\ MaxPass \in Nat
      /\ Kept \in Nat /\ Kept >= 2 * Length(bucket) + MaxPass - 1
  BY PassTyped, KeptNat, Enough, Lengths DEF Inv, Start
<1>2. time - Kept <= Start(p, bucket)
  <2>1. time <= pass[p].began + MaxPass /\ pass[p].began + 1 <= Start(p, bucket) + 2 * Length(bucket)
    BY DEF Recent
  <2> QED
    BY <1>1, <2>1
<1>3. \A c \in taken : c.at \in Int /\ (Start(p, bucket) <= c.at => c \in raw)
  BY <1>1, <1>2, BoundsAssumption DEF Inv, Typed, History, Check
<1> QED
  BY <1>3 DEF Within, Inv, Typed

LEMMA ReadsBucket == \A p \in Passes, bucket \in Buckets : Inv /\ ReadBucket(p, bucket) => Inv'
<1> SUFFICES ASSUME Inv, NEW p \in Passes, NEW bucket \in Buckets, ReadBucket(p, bucket) PROVE Inv'
  OBVIOUS
<1> DEFINE checks == Within(raw, bucket, Start(p, bucket))
           left   == {c.monitor : c \in checks}
           new    == [step |-> bucket, began |-> pass[p].began, HOURLY |-> pass[p].HOURLY,
                      DAILY |-> pass[p].DAILY, read |-> checks, left |-> left]
<1>1. UNCHANGED <<time, retention, taken, raw, aggregated, rolledUp>> /\ pass[p].step # "idle"
  BY DEF ReadBucket
<1>2. pass \in [Passes -> Pass] /\ pass[p] \in Pass
  BY DEF Inv, Typed
<1>3. pass' = [pass EXCEPT ![p].step = bucket, ![p].read = checks, ![p].left = left]
  BY DEF ReadBucket
<1>4. checks \subseteq raw /\ checks \subseteq Within(taken, bucket, Start(p, bucket)) /\ raw \subseteq taken
  BY DEF Within, Inv, Typed
<1>5. left \subseteq Monitors /\ \A m \in left : \E c \in checks : c.monitor = m
  BY <1>4 DEF Inv, Typed, Check
<1>6. \A c \in checks : c.monitor \in left
  OBVIOUS
<1>7. Recent(p)
  BY <1>1 DEF Inv, Holds
<1>8. Exact(bucket) => Due(taken, bucket, Start(p, bucket)) \subseteq checks
  BY <1>7, NothingPruned DEF Due
<1> HIDE DEF checks, left
<1>9. pass'[p] = new /\ \A q \in Passes \ {p} : pass'[q] = pass[q]
  BY <1>2, <1>3 DEF Pass
<1>10. new \in Pass
  BY <1>2, <1>4, <1>5 DEF Pass, Buckets, Inv, Typed
<1>11. pass' \in [Passes -> Pass]
  BY <1>2, <1>3, <1>9, <1>10
<1>12. Recent(p)'
  BY <1>1, <1>7, <1>9 DEF Recent, Start
<1>13. Reading(p)'
  <2>1. Start(p, bucket)' = Start(p, bucket)
    BY <1>9 DEF Start
  <2> QED
    BY <1>1, <1>4, <1>5, <1>6, <1>8, <1>9, <2>1 DEF Reading, Exact, Kept
<1>14. Holds(p)'
  BY <1>1, <1>4, <1>9, <1>12, <1>13 DEF Holds
<1> HIDE DEF new
<1> QED
  BY <1>1, <1>9, <1>11, <1>14, Steps, Unpruned

-----------------------------------------------------------------------------
LEMMA Upserts == \A p \in Passes, m \in Monitors : Inv /\ Upsert(p, m) => Inv'
<1> SUFFICES ASSUME Inv, NEW p \in Passes, NEW m \in Monitors, Upsert(p, m) PROVE Inv'
  OBVIOUS
<1> DEFINE bucket == pass[p].step
           start  == Start(p, bucket)
           new    == [monitor |-> m, bucket |-> bucket, start |-> start]
           checks == {c \in pass[p].read : c.monitor = m}
<1>1. /\ bucket \in Buckets /\ m \in pass[p].left
      /\ UNCHANGED <<time, retention, taken, raw, rolledUp>>
  BY DEF Upsert
<1>2. /\ DOMAIN aggregated' = DOMAIN aggregated \cup {new}
      /\ aggregated'[new] = checks
      /\ \A x \in DOMAIN aggregated : x # new => aggregated'[x] = aggregated[x]
  BY DEF Upsert
<1>3. pass \in [Passes -> Pass] /\ pass[p] \in Pass /\ pass' = [pass EXCEPT ![p].left = @ \ {m}]
  BY DEF Upsert, Inv, Typed
<1>4. /\ \A q \in Passes \ {p} : pass'[q] = pass[q]
      /\ pass'[p] = [step |-> pass[p].step, began |-> pass[p].began, HOURLY |-> pass[p].HOURLY,
                     DAILY |-> pass[p].DAILY, read |-> pass[p].read, left |-> pass[p].left \ {m}]
  BY <1>3 DEF Pass
<1>5. pass'[p] \in Pass
  BY <1>3, <1>4 DEF Pass
<1>6. pass' \in [Passes -> Pass]
  BY <1>3, <1>4, <1>5
<1>7. Recent(p) /\ Reading(p) /\ pass[p].read \subseteq taken
  BY <1>1 DEF Inv, Holds, Buckets
<1>8. /\ time \in Nat /\ Day \in Nat \ {0} /\ MaxTime \in Nat
      /\ pass[p].began \in Nat /\ pass[p].HOURLY \in Int /\ pass[p].DAILY \in Int
  BY PassTyped DEF Inv
<1>9. /\ start \in Int /\ Length(bucket) \in Nat \ {0}
      /\ start + Length(bucket) <= time
      /\ \E k \in Int : start = k * Length(bucket)
  <2>1. /\ start + Length(bucket) <= pass[p].began /\ pass[p].began <= time
        /\ \E k \in Int : start = k * Length(bucket)
    BY <1>1, <1>7 DEF Recent
  <2>2. start \in Int /\ Length(bucket) \in Nat \ {0}
    BY <1>1, <1>8, Lengths DEF Start
  <2> HIDE DEF start, bucket
  <2> QED
    BY <1>8, <2>1, <2>2
<1>10. pass[p].read \subseteq Within(taken, bucket, start)
  BY <1>1, <1>7 DEF Reading
<1>11. checks # {} /\ checks \subseteq Of(m, bucket, start)
  BY <1>1, <1>7, <1>10 DEF Reading, Of
<1>12. Exact(bucket) => DueOf(m, bucket, start) \subseteq checks
  BY <1>1, <1>7 DEF Reading, DueOf
<1>13. start \in 0..MaxTime
  <2>1. PICK c \in Within(taken, bucket, start) : TRUE
    BY <1>11 DEF Of
  <2>2. start <= c.at /\ c.at < start + Length(bucket) /\ c.at \in 0..MaxTime
    BY <2>1 DEF Within, Inv, Typed, Check
  <2>3. PICK k \in Int : start = k * Length(bucket)
    BY <1>9
  <2> DEFINE length == Length(bucket)
  <2> HIDE DEF start, length
  <2>4. length \in Nat \ {0} /\ start \in Int /\ start = k * length /\ -length < start
    BY <1>8, <1>9, <2>2, <2>3 DEF length
  <2>5. k > -1
    <3> SUFFICES ASSUME k <= -1 PROVE FALSE
      BY <2>3
    <3>1. k * length <= -length
      BY <2>4
    <3> QED
      BY <2>4, <3>1
  <2>6. start >= 0
    BY <2>4, <2>5
  <2> QED
    BY <1>8, <2>2, <2>4, <2>6
<1>14. Typed'
  BY <1>1, <1>6 DEF Inv, Typed
<1>15. History'
  BY <1>1, <1>2 DEF Inv, History, Kept, Living, Due, Within, Length
<1>16. \A x \in DOMAIN aggregated' : Row(x)'
  <2> SUFFICES ASSUME NEW x \in DOMAIN aggregated' PROVE Row(x)'
    OBVIOUS
  <2>1. CASE x = new
    <3>1. x.monitor = m /\ x.bucket = bucket /\ x.start = start /\ aggregated'[x] = checks
      BY <1>2, <2>1
    <3> HIDE DEF new, bucket, start, checks
    <3>2. Exact(x.bucket)' = Exact(bucket)
      BY <1>1, <3>1 DEF Exact, Kept
    <3>3. /\ Of(x.monitor, x.bucket, x.start)' = Of(m, bucket, start)
          /\ DueOf(x.monitor, x.bucket, x.start)' = DueOf(m, bucket, start)
      BY <1>1, <3>1 DEF Of, DueOf
    <3> QED
      BY <1>1, <1>9, <1>11, <1>12, <1>13, <3>1, <3>2, <3>3 DEF Row
  <2>2. CASE x # new
    <3>1. Row(x) /\ aggregated'[x] = aggregated[x]
      BY <1>2, <2>2 DEF Inv
    <3> QED
      BY <1>1, <3>1 DEF Row, Exact, Kept, Of, DueOf, Due, Within, Length
  <2> QED
    BY <2>1, <2>2
<1>17. Holds(p)'
  <2>1. Start(p, bucket)' = start /\ pass'[p].step = bucket /\ pass'[p].read = pass[p].read
    BY <1>4 DEF Start
  <2>2. Recent(p)'
    BY <1>1, <1>4, <1>7 DEF Recent, Start
  <2>3. \A k \in pass'[p].left : \E c \in pass'[p].read : c.monitor = k
    BY <1>1, <1>4, <1>7 DEF Reading
  <2>4. bucket = "HOURLY" =>
            \A c \in pass[p].read : c.monitor \notin pass'[p].left =>
                [monitor |-> c.monitor, bucket |-> "HOURLY", start |-> pass[p].HOURLY]
                    \in DOMAIN aggregated'
    <3> SUFFICES ASSUME bucket = "HOURLY", NEW c \in pass[p].read, c.monitor \notin pass[p].left \ {m}
                 PROVE  [monitor |-> c.monitor, bucket |-> "HOURLY", start |-> pass[p].HOURLY]
                            \in DOMAIN aggregated'
      BY <1>4
    <3>1. CASE c.monitor = m
      BY <1>2, <3>1 DEF Start
    <3>2. CASE c.monitor \notin pass[p].left
      BY <1>1, <1>2, <1>7, <3>2 DEF Reading
    <3> QED
      BY <3>1, <3>2
  <2>5. Exact(bucket) => Due(taken, bucket, start) \subseteq pass[p].read
    BY <1>1, <1>7 DEF Reading
  <2>6. pass'[p].HOURLY = pass[p].HOURLY /\ taken' = taken /\ Exact(bucket)' = Exact(bucket)
    BY <1>1, <1>4 DEF Exact, Kept
  <2>7. Reading(p)'
    BY <1>10, <2>1, <2>3, <2>4, <2>5, <2>6 DEF Reading
  <2> QED
    BY <1>7, <2>1, <2>2, <2>6, <2>7 DEF Holds
<1>18. \A q \in Passes \ {p} : Holds(q)'
  BY <1>1, <1>2, <1>4, Others
<1> QED
  BY <1>14, <1>15, <1>16, <1>17, <1>18 DEF Inv

LEMMA FinishesBucket == \A p \in Passes : Inv /\ FinishBucket(p) => Inv'
<1> SUFFICES ASSUME Inv, NEW p \in Passes, FinishBucket(p) PROVE Inv'
  OBVIOUS
<1>1. /\ pass[p].step \in Buckets /\ pass[p].left = {}
      /\ UNCHANGED <<time, retention, taken, raw, aggregated>>
      /\ rolledUp' = rolledUp \cup
             {c \in Due(taken, "HOURLY", pass[p].HOURLY) : pass[p].step = "HOURLY"}
  BY DEF FinishBucket
<1>2. PICK step \in {"readDAILY", "prune"} :
         pass' = [pass EXCEPT ![p].step = step, ![p].read = {}]
  BY DEF FinishBucket
<1>3. pass \in [Passes -> Pass] /\ pass[p] \in Pass
  BY DEF Inv, Typed
<1>4. /\ \A q \in Passes \ {p} : pass'[q] = pass[q]
      /\ pass'[p] = [step |-> step, began |-> pass[p].began, HOURLY |-> pass[p].HOURLY,
                     DAILY |-> pass[p].DAILY, read |-> {}, left |-> pass[p].left]
  BY <1>2, <1>3 DEF Pass
<1>5. pass'[p] \in Pass
  BY <1>3, <1>4 DEF Pass
<1>6. pass' \in [Passes -> Pass]
  BY <1>2, <1>3, <1>4, <1>5
<1>7. Recent(p) /\ Reading(p)
  BY <1>1 DEF Inv, Holds, Buckets
<1>8. Holds(p)'
  <2>1. Recent(p)' /\ pass'[p].step \notin Buckets
    BY <1>1, <1>4, <1>7 DEF Recent, Start, Buckets
  <2> QED
    BY <1>1, <1>4, <2>1 DEF Holds, Reading
<1>9. rolledUp' \subseteq taken /\ \A c \in rolledUp' : Living(c)
  <2>1. rolledUp' \subseteq taken
    BY <1>1 DEF Inv, Typed, Due, Within
  <2> SUFFICES ASSUME NEW c \in rolledUp', c \notin rolledUp PROVE Living(c)
    BY <2>1 DEF Inv, History
  <2>2. pass[p].step = "HOURLY" /\ c \in Due(taken, "HOURLY", pass[p].HOURLY)
    BY <1>1
  <2>3. c \in pass[p].read
    BY <1>7, <2>2 DEF Reading, Exact, Buckets, Start
  <2>4. [monitor |-> c.monitor, bucket |-> "HOURLY", start |-> pass[p].HOURLY] \in DOMAIN aggregated
    BY <1>1, <1>7, <2>2, <2>3 DEF Reading, Buckets
  <2> QED
    BY <2>2, <2>4 DEF Living
<1> QED
  BY <1>1, <1>4, <1>6, <1>8, <1>9, Steps, Unpruned

\* A pass that gives up goes on to the pruning, or ends.
LEMMA FailsOrEnds == \A p \in Passes : Inv /\ (RollupFails(p) \/ Prune(p) \/ Abandon(p)) => Inv'
<1> SUFFICES ASSUME Inv, NEW p \in Passes, RollupFails(p) \/ Prune(p) \/ Abandon(p) PROVE Inv'
  OBVIOUS
<1>1. pass \in [Passes -> Pass] /\ pass[p] \in Pass
  BY DEF Inv, Typed
<1>2. CASE RollupFails(p)
  <2>1. /\ UNCHANGED <<time, retention, taken, raw, aggregated, rolledUp>> /\ pass[p].step # "idle"
        /\ pass' = [pass EXCEPT ![p].step = "prune", ![p].read = {}, ![p].left = {}]
    BY <1>2 DEF RollupFails
  <2>2. /\ \A q \in Passes \ {p} : pass'[q] = pass[q]
        /\ pass'[p] = [step |-> "prune", began |-> pass[p].began, HOURLY |-> pass[p].HOURLY,
                       DAILY |-> pass[p].DAILY, read |-> {}, left |-> {}]
    BY <1>1, <2>1 DEF Pass
  <2>3. pass'[p] \in Pass
    BY <1>1, <2>2 DEF Pass
  <2>4. pass' \in [Passes -> Pass]
    BY <1>1, <2>1, <2>2, <2>3
  <2>5. Recent(p)
    BY <2>1 DEF Inv, Holds
  <2>6. Holds(p)'
    <3>0. /\ time' = time /\ pass'[p].began = pass[p].began
          /\ pass'[p].HOURLY = pass[p].HOURLY /\ pass'[p].DAILY = pass[p].DAILY
      BY <2>1, <2>2
    <3>1. Recent(p)'
      BY <3>0, <2>5 DEF Recent, Start
    <3>2. pass'[p].step = "prune" /\ pass'[p].read = {}
      BY <2>2
    <3>3. Reading(p)'
      BY <3>2 DEF Reading, Buckets
    <3> QED
      BY <3>1, <3>2, <3>3 DEF Holds
  <2> QED
    BY <2>1, <2>2, <2>4, <2>6, Steps, Unpruned
<1>3. CASE Prune(p) \/ Abandon(p)
  <2>1. /\ UNCHANGED <<time, retention, taken, aggregated, rolledUp>>
        /\ pass' = [pass EXCEPT ![p] = NoPass]
    BY <1>3 DEF Prune, Abandon
  <2>2. raw' = {c \in raw : c.at >= time - Kept} \/ raw' = raw
    BY <1>3 DEF Prune, Abandon, Kept
  <2>3. time - Kept \in Int /\ \A c \in taken : c.at \in Int
    BY KeptNat, BoundsAssumption DEF Inv, Typed, Check
  <2>4. raw' \subseteq raw /\ \A c \in taken : c \in raw' \/ c.at < time - Kept
    BY <2>2, <2>3 DEF Inv, History
  <2>5. /\ pass'[p] = NoPass /\ pass' \in [Passes -> Pass]
        /\ \A q \in Passes \ {p} : pass'[q] = pass[q]
    BY <2>1, PassSet, NoPassTyped DEF Inv
  <2> QED
    BY <2>1, <2>4, <2>5, NoPassHolds, Steps, Unpruned
<1> QED
  BY <1>2, <1>3

LEMMA InvNext == Inv /\ [Next]_vars => Inv'
<1>1. Inv /\ UNCHANGED vars => Inv'
  BY DEF vars, Inv, Typed, History, Row, Holds, Recent, Reading, Exact, Kept, Living, Of, DueOf, Due,
         Within, Start, Length
<1> QED
  BY <1>1, Ticks, Stores, Begins, ReadsBucket, Upserts, FinishesBucket, FailsOrEnds
  DEF Next, runHousekeeping

LEMMA HousekeepingInvariant == Spec => []Inv
  BY InvInit, InvNext, PTL DEF Spec

-----------------------------------------------------------------------------
\* Type correctness; rows are aligned to their bucket.
THEOREM HousekeepingTypeCorrect == Spec => []TypeOK
<1>1. Inv => TypeOK
  <2> SUFFICES ASSUME Inv PROVE TypeOK
    OBVIOUS
  <2>1. ASSUME NEW x \in DOMAIN aggregated PROVE x.start % Length(x.bucket) = 0
    <3>1. PICK k \in Int : x.start = k * Length(x.bucket)
      BY DEF Inv, Row
    <3>2. Length(x.bucket) \in Nat \ {0}
      BY Lengths DEF Inv, Row
    <3> QED
      BY <3>1, <3>2, Aligned
  <2>2. pass \in [Passes -> [step : {"idle", "readHOURLY", "HOURLY", "readDAILY", "DAILY", "prune"},
                             began : 0..MaxTime, HOURLY : (-Hour)..MaxTime, DAILY : (-Day)..MaxTime,
                             read : SUBSET taken, left : SUBSET Monitors]]
    BY DEF Inv, Typed, Pass, Holds
  <2> QED
    BY <2>1, <2>2 DEF Inv, Typed, Row, Of, Within, TypeOK
<1> QED
  BY <1>1, HousekeepingInvariant, PTL

\* Overlapping, failing and repeated passes leave only exact rows.
THEOREM RowsStayExact == Spec => []RowsAreExact
<1>1. Inv => RowsAreExact
  BY DEF Inv, Row, RowsAreExact, Exact, Kept, Of, DueOf, Due, Within
<1> QED
  BY <1>1, HousekeepingInvariant, PTL

\* What is pruned lives on in the row of its hour.
THEOREM PrunedChecksLiveOn == Spec => []PrunedLivesOn
<1>1. Inv => PrunedLivesOn
  <2> SUFFICES ASSUME Inv, NEW c \in rolledUp
               PROVE  \E x \in DOMAIN aggregated : x.bucket = "HOURLY" /\ c \in aggregated[x]
    BY DEF PrunedLivesOn
  <2>1. PICK x \in DOMAIN aggregated :
           x.bucket = "HOURLY" /\ x.monitor = c.monitor /\ c \in Due(taken, "HOURLY", x.start)
    BY DEF Inv, History, Living
  <2>2. DueOf(x.monitor, "HOURLY", x.start) \subseteq aggregated[x]
    BY <2>1 DEF Inv, Row, Exact
  <2> QED
    BY <2>1, <2>2 DEF DueOf
<1> QED
  BY <1>1, HousekeepingInvariant, PTL

-----------------------------------------------------------------------------
(***************************************************************************)
(* The analytics.                                                           *)
(***************************************************************************)

\* A number that is a multiple is its quotient many lengths.
LEMMA Quotient ==
    ASSUME NEW b \in Nat \ {0}, NEW x \in Int, x % b = 0
    PROVE  \E g \in Int : x = g * b
  BY SMT

\* The length of a range, rounded up to buckets.
LEMMA RoundedUp ==
    ASSUME NEW b \in Nat \ {0}, NEW r \in Nat \ {0}
    PROVE  LET n == (r + b - 1) \div b IN
           n \in Nat \ {0} /\ (n - 1) * b < r /\ r <= n * b
<1> DEFINE t == r + b - 1
           n == t \div b
<1>1. t \in Nat /\ t >= b
  OBVIOUS
<1>2. n \in Nat /\ n * b <= t /\ t < n * b + b
  BY <1>1, DayStart
<1> HIDE DEF n
<1>3. r <= n * b /\ n * b - b < r
  BY <1>2
<1>4. (n - 1) * b = n * b - b /\ n # 0
  BY <1>2, <1>3
<1> QED
  BY <1>2, <1>3, <1>4 DEF n

\* Which checks of a range find their key in its series.
LEMMA KeysFound ==
    ASSUME NEW b \in Nat \ {0}, NEW r \in Nat \ {0}, NEW f \in Int, NEW t \in Nat,
           f <= t, t <= f + r
    PROVE  (\E i \in 0..((r + b - 1) \div b - 1) : (t \div b) * b = f + i * b)
           <=> f % b = 0 /\ (r % b = 0 => t < f + r)
<1> DEFINE n == (r + b - 1) \div b
           k == t \div b
<1>1. n \in Nat \ {0} /\ (n - 1) * b < r /\ r <= n * b
  BY RoundedUp
<1>2. k \in Nat /\ k * b <= t /\ t < k * b + b
  BY DayStart
<1> HIDE DEF n, k
<1>3. ASSUME NEW i \in 0..(n - 1), k * b = f + i * b
      PROVE  f % b = 0 /\ (r % b = 0 => t < f + r)
  <2>1. f = (k - i) * b
    <3>1. i * b \in Int /\ k * b \in Int /\ (k - i) * b = k * b - i * b
      BY <1>1, <1>2, Multiples
    <3> QED
      BY <1>3, <3>1
  <2>2. f % b = 0
    BY <1>1, <1>2, <2>1, Aligned
  <2>3. ASSUME r % b = 0 PROVE t < f + r
    <3>1. PICK q \in Int : r = q * b
      BY <2>3, Quotient
    <3>2. n - 1 < q
      BY <1>1, <3>1, Multiples
    <3>3. (i + 1) * b <= q * b /\ (i + 1) * b = i * b + b /\ i * b \in Int
      BY <1>1, <3>1, <3>2, Multiples
    <3> QED
      BY <1>2, <1>3, <3>1, <3>3
  <2> QED
    BY <2>2, <2>3
<1>4. ASSUME f % b = 0, r % b = 0 => t < f + r
      PROVE  \E i \in 0..(n - 1) : k * b = f + i * b
  <2>1. PICK g \in Int : f = g * b
    BY <1>4, Quotient
  <2>2. g <= k
    <3>1. g * b < (k + 1) * b
      BY <1>2, <2>1, Multiples
    <3> QED
      BY <1>2, <3>1, Multiples
  <2>3. (k - g) * b = k * b - f /\ k * b = f + (k - g) * b
    BY <1>2, <2>1, Multiples
  <2>4. k - g < n
    <3> SUFFICES ASSUME n <= k - g PROVE FALSE
      BY <1>1, <1>2
    <3>1. n * b <= (k - g) * b /\ n * b \in Int /\ (k - g) * b \in Int
      BY <1>1, <1>2, Multiples
    <3>2. r = n * b /\ t = f + r
      BY <1>1, <1>2, <2>3, <3>1
    <3>3. r % b = 0
      BY <1>1, <3>2, Aligned
    <3> QED
      BY <1>4, <3>2, <3>3
  <2> QED
    <3>1. k - g \in 0..(n - 1)
      BY <1>1, <1>2, <2>2, <2>4
    <3> QED
      BY <2>3, <3>1
<1> QED
  BY <1>3, <1>4 DEF n, k

LEMMA WindowsTyped ==
    ASSUME NEW w \in RANGE_WINDOWS
    PROVE  w.length \in Nat \ {0} /\ w.bucket \in Nat \ {0}
<1>1. w.length \in RangeLengths /\ w.bucket \in RangeBuckets
  BY DEF RANGE_WINDOWS
<1> QED
  BY <1>1, RangesAssumption

\* A range within the retention counts every check taken in it.
THEOREM AnalyticsAreComplete == Spec => []AnalyticsComplete
<1>1. Inv => AnalyticsComplete
  <2> SUFFICES ASSUME Inv, NEW m \in Monitors, NEW w \in RANGE_WINDOWS, w.length <= retention * Day
               PROVE  ChecksRead(m, w) = {c \in taken : c.monitor = m /\ From(w) <= c.at}
    BY DEF AnalyticsComplete
  <2>1. w.length \in Nat /\ time \in Nat /\ Kept \in Nat /\ w.length <= Kept
    <3>1. w.length \in Nat /\ Kept \in Nat
      BY KeptNat, WindowsTyped DEF Inv
    <3>2. time \in Nat
      BY BoundsAssumption DEF Inv, Typed
    <3>3. w.length <= Kept
      BY DEF Kept
    <3> QED
      BY <3>1, <3>2, <3>3
  <2>2. \A c \in taken : c.at \in Nat /\ c.at <= time /\ (c \in raw \/ c.at < time - Kept)
    BY BoundsAssumption DEF Inv, Typed, History, Check
  <2>3. raw \subseteq taken
    BY DEF Inv, Typed
  <2>4. \A c \in taken : From(w) <= c.at => c \in raw
    BY <2>1, <2>2 DEF From
  <2> QED
    BY <2>2, <2>3, <2>4 DEF ChecksRead
<1> QED
  BY <1>1, HousekeepingInvariant, PTL

\* For any range and bucket, a series shows what is counted if the range begins at a
\* multiple of its bucket, and else nothing.
THEOREM ChartsWhenAligned == Spec => []ChartedWhenAligned
<1>1. Inv => ChartedWhenAligned
  <2> SUFFICES ASSUME Inv, NEW m \in Monitors, NEW w \in RANGE_WINDOWS
               PROVE  LET charted == UNION Range(Series(m, w)) IN
                      IF From(w) % w.bucket = 0
                      THEN charted = {c \in ChecksRead(m, w) : w.length % w.bucket = 0 => c.at < time}
                      ELSE charted = {}
    BY DEF ChartedWhenAligned
  <2> DEFINE r == w.length
             b == w.bucket
             f == From(w)
  <2>1. r \in Nat \ {0} /\ b \in Nat \ {0} /\ time \in Nat
    BY WindowsTyped, BoundsAssumption DEF Inv, Typed
  <2>2. f \in Int /\ f + r = time
    BY <2>1 DEF From
  <2>3. \A c \in ChecksRead(m, w) : c.at \in Nat /\ f <= c.at /\ c.at <= f + r
    BY <2>2, BoundsAssumption DEF ChecksRead, Inv, Typed, Check
  <2>4. UNION Range(Series(m, w)) = {c \in ChecksRead(m, w) : (c.at \div b) * b \in SeriesKeys(w)}
    BY DEF Range, Series
  <2>5. ASSUME NEW c \in ChecksRead(m, w)
        PROVE  (c.at \div b) * b \in SeriesKeys(w) <=> (f % b = 0 /\ (r % b = 0 => c.at < time))
    <3>1. (\E i \in 0..((r + b - 1) \div b - 1) : (c.at \div b) * b = f + i * b)
              <=> f % b = 0 /\ (r % b = 0 => c.at < f + r)
      BY <2>1, <2>2, <2>3, KeysFound
    <3> QED
      BY <2>2, <3>1 DEF SeriesKeys
  <2> QED
    BY <2>4, <2>5
<1> QED
  BY <1>1, HousekeepingInvariant, PTL
=============================================================================
