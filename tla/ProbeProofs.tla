---------------------------- MODULE ProbeProofs ----------------------------
(***************************************************************************)
(* For any addresses, redirects and retries, and whatever the target does:  *)
(* the outcome of a probe is that of its last answer, and no request goes   *)
(* to an address that has not been checked.                                 *)
(***************************************************************************)
EXTENDS Probe, TLAPS, SequenceTheorems

Qualities == {"bad", "slow", "good"}

\* What a probe holds at each step.
ProbeTypeOK ==
    /\ monitor \in Monitors
    /\ step \in {"try", "send", "wait", "got", "connect", "sleep", "end"}
    /\ attempts \in 0..monitor.retries
    /\ url \in Urls
    /\ redirects \in 0..MaxRedirects
    /\ res \subseteq Responses
    /\ answers \in Seq(Qualities)
    /\ asked \in Seq(Urls)

\* The redirects followed count the requests, and only an address that has been
\* checked is asked next.
Hops ==
    /\ \A n \in 1..Len(asked) : asked[n] \notin Blocked
    /\ ~monitor.followRedirects => redirects = 0
    /\ Len(asked) <= redirects + 1
    /\ step \in {"try", "send"} => Len(asked) = redirects
    /\ step \in {"wait", "got"} => Len(asked) = redirects + 1
    /\ step = "send" => url \notin Blocked
    /\ step \in {"send", "wait", "got"} => IsWeb

\* The answers count the attempts, and all but the last were bad.
Tries ==
    /\ step \notin {"sleep", "end"} => Len(answers) = attempts
    /\ step \in {"sleep", "end"} => Len(answers) = attempts + 1
    /\ step = "sleep" => attempts < monitor.retries
    /\ step # "end" => \A n \in 1..Len(answers) : answers[n] = "bad"
    /\ OutcomeIsRight

Inv == ProbeTypeOK /\ Hops /\ Tries

\* A result that says of an answer what it is worth.
Fits(result, quality) ==
    /\ quality \in Qualities
    /\ result.status = "DOWN" <=> quality = "bad"
    /\ result.status = "DEGRADED" <=> quality = "slow" /\ monitor.hasThreshold

LEMMA ProbeInit == Init => Inv
<1> SUFFICES ASSUME Init PROVE Inv
  OBVIOUS
<1>1. monitor.target \in Urls /\ monitor.retries \in Nat
  BY BoundsAssumption DEF Init, Monitors
<1>2. answers = <<>> /\ asked = <<>> /\ Len(answers) = 0 /\ Len(asked) = 0
  BY DEF Init
<1>3. answers \in Seq(Qualities) /\ asked \in Seq(Urls)
  BY <1>2
<1> QED
  BY <1>1, <1>2, <1>3, BoundsAssumption
  DEF Init, Inv, ProbeTypeOK, Hops, Tries, OutcomeIsRight

-----------------------------------------------------------------------------
LEMMA Ends ==
    ASSUME Inv, NEW result, NEW quality, Fits(result, quality),
           step \in {"try", "wait", "got", "connect"}, AttemptEnds(result, quality)
    PROVE  Inv'
<1>1. /\ answers' = Append(answers, quality) /\ outcome' = result /\ res' = {}
      /\ UNCHANGED <<monitor, attempts, url, redirects, asked>>
      /\ step' = IF result.status = "DOWN" /\ attempts < monitor.retries THEN "sleep" ELSE "end"
  BY DEF AttemptEnds
<1>2. /\ answers \in Seq(Qualities) /\ Len(answers) = attempts
      /\ \A n \in 1..Len(answers) : answers[n] = "bad"
      /\ quality \in Qualities
      /\ attempts \in Nat /\ attempts <= monitor.retries /\ monitor.retries \in Nat
  BY BoundsAssumption DEF Inv, ProbeTypeOK, Tries, Fits, Monitors
<1>3. /\ answers' \in Seq(Qualities) /\ Len(answers') = attempts + 1
      /\ \A n \in 1..attempts : answers'[n] = "bad"
      /\ answers'[attempts + 1] = quality
  BY <1>1, <1>2, AppendProperties
<1>4. ProbeTypeOK'
  BY <1>1, <1>3 DEF Inv, ProbeTypeOK
<1>5. Hops'
  BY <1>1 DEF Inv, Hops, IsWeb
<1>6. OutcomeIsRight'
  <2> SUFFICES ASSUME step' = "end" PROVE OutcomeIsRight'
    BY DEF OutcomeIsRight
  <2>1. result.status # "DOWN" \/ attempts = monitor.retries
    BY <1>1, <1>2
  <2>2. Len(answers') - 1 = attempts /\ answers'[Len(answers')] = quality
    BY <1>2, <1>3
  <2>3. result.status = "DOWN" => Len(answers') = monitor'.retries + 1
    BY <1>1, <1>3, <2>1
  <2> QED
    BY <1>1, <1>3, <2>2, <2>3 DEF OutcomeIsRight, Fits
<1>7. (step' = "sleep" => attempts' < monitor'.retries) /\ step' \in {"sleep", "end"}
  BY <1>1
<1>8. step' = "sleep" => quality = "bad"
  BY <1>1 DEF Fits
<1>9. \A n \in 1..(attempts + 1) : step' = "sleep" => answers'[n] = "bad"
  BY <1>2, <1>3, <1>8
<1>10. Tries'
  BY <1>1, <1>3, <1>6, <1>7, <1>9 DEF Tries
<1> QED
  BY <1>4, <1>5, <1>10 DEF Inv

\* The verdict of httpChecker on a response.
LEMMA VerdictFits ==
    ASSUME ProbeTypeOK, IsWeb, NEW r \in Responses
    PROVE  Fits(Verdict(r), Quality(r))
<1>1. monitor.type \in WebTypes /\ r.body \in {"match", "other", "cut", "broken"}
      /\ monitor.looksFor \in BOOLEAN /\ r.expected \in BOOLEAN
  BY DEF IsWeb, Responses, ProbeTypeOK, Monitors
<1>2. Mismatch(r) = "none" <=> Healthy(r)
  <2>1. CASE ~r.expected
    BY <2>1 DEF Mismatch, Healthy
  <2>2. CASE r.expected /\ monitor.type = "KEYWORD"
    BY <1>1, <2>2 DEF Mismatch, Healthy
  <2>3. CASE r.expected /\ monitor.type \in {"JSON", "API"}
    BY <1>1, <2>3 DEF Mismatch, Healthy
  <2>4. CASE r.expected /\ monitor.type = "HTTP"
    BY <1>1, <2>4 DEF Mismatch, Healthy
  <2> QED
    BY <1>1, <2>1, <2>2, <2>3, <2>4 DEF WebTypes
<1>3. CASE Mismatch(r) # "none"
  BY <1>2, <1>3 DEF Fits, Verdict, Quality, Down, Qualities
<1>4. CASE Mismatch(r) = "none"
  BY <1>2, <1>4 DEF Fits, Verdict, Quality, Slow, Degraded, Up, Qualities
<1> QED
  BY <1>3, <1>4

LEMMA Settles ==
    ASSUME Inv, NEW signal \in Signals, step \in {"try", "connect"}, Settle(signal)
    PROVE  Inv'
<1>1. CASE signal = "met"
  <2>1. AttemptEnds(Up, "good") /\ Fits(Up, "good")
    BY <1>1 DEF Settle, Fits, Up, Qualities
  <2> QED
    BY <2>1, Ends
<1>2. CASE signal # "met"
  <2>1. PICK code : AttemptEnds(Down(code), "bad")
    BY <1>2 DEF Settle
  <2>2. Fits(Down(code), "bad")
    BY DEF Fits, Down, Qualities
  <2> QED
    BY <2>1, <2>2, Ends
<1> QED
  BY <1>1, <1>2

LEMMA Fails ==
    ASSUME Inv, Refuse \/ RequestFails \/ TooManyRedirects
    PROVE  Inv'
<1>1. PICK code : AttemptEnds(Down(code), "bad")
  BY DEF Refuse, RequestFails, TooManyRedirects
<1>2. Fits(Down(code), "bad") /\ step \in {"try", "wait", "got"}
  BY DEF Fits, Down, Qualities, Refuse, RequestFails, TooManyRedirects
<1> QED
  BY <1>1, <1>2, Ends

LEMMA ProbeNext == Inv /\ [Next]_vars => Inv'
<1> SUFFICES ASSUME Inv, [Next]_vars PROVE Inv'
  OBVIOUS
<1> USE DEF Inv
<1>1. CASE Admit
  BY <1>1 DEF Admit, ProbeTypeOK, Hops, Tries, OutcomeIsRight, IsWeb
<1>2. CASE RequestOnce
  <2>1. /\ asked' = Append(asked, url) /\ step = "send" /\ step' = "wait"
        /\ UNCHANGED <<monitor, attempts, url, redirects, res, outcome, answers>>
    BY <1>2 DEF RequestOnce
  <2>2. /\ asked \in Seq(Urls) /\ url \in Urls \ Blocked /\ redirects \in Nat
        /\ Len(asked) = redirects /\ \A n \in 1..Len(asked) : asked[n] \notin Blocked
    BY <2>1, BoundsAssumption DEF ProbeTypeOK, Hops
  <2>3. /\ asked' \in Seq(Urls) /\ Len(asked') = redirects + 1
        /\ \A n \in 1..Len(asked') : asked'[n] \notin Blocked
    BY <2>1, <2>2, AppendProperties
  <2> QED
    BY <2>1, <2>2, <2>3 DEF ProbeTypeOK, Hops, Tries, OutcomeIsRight, IsWeb
<1>3. CASE Answered
  BY <1>3 DEF Answered, ProbeTypeOK, Hops, Tries, OutcomeIsRight, IsWeb
<1>4. CASE Redirect
  <2>1. monitor.followRedirects /\ redirects < MaxRedirects /\ Len(asked) <= redirects + 1
    BY <1>4 DEF Redirect, Redirecting, Hops
  <2>2. Len(asked) = redirects + 1
    BY <1>4 DEF Redirect, Hops
  <2> QED
    BY <1>4, <2>1, <2>2, BoundsAssumption
    DEF Redirect, ProbeTypeOK, Hops, Tries, OutcomeIsRight, IsWeb
<1>5. CASE Retry
  <2>1. /\ asked' = <<>> /\ redirects' = 0 /\ step' = "try" /\ url' = monitor.target
        /\ attempts' = attempts + 1 /\ UNCHANGED <<monitor, res, outcome, answers>>
        /\ step = "sleep"
    BY <1>5 DEF Retry
  <2>2. /\ Len(asked') = 0 /\ asked' \in Seq(Urls)
        /\ monitor.target \in Urls /\ monitor.retries \in Nat
    BY <2>1, BoundsAssumption DEF ProbeTypeOK, Monitors
  <2> QED
    BY <2>1, <2>2, BoundsAssumption DEF ProbeTypeOK, Hops, Tries, OutcomeIsRight, IsWeb
<1>6. CASE HttpChecker
  <2>1. PICK r \in res : AttemptEnds(Verdict(r), Quality(r))
    BY <1>6 DEF HttpChecker
  <2>2. Fits(Verdict(r), Quality(r)) /\ step = "got"
    BY <1>6, VerdictFits DEF HttpChecker, ProbeTypeOK, Hops
  <2> QED
    BY <2>1, <2>2, Ends
<1>7. CASE SslChecker \/ DnsChecker \/ TcpChecker
  <2>1. PICK signal \in Signals : Settle(signal) /\ step \in {"try", "connect"}
    BY <1>7 DEF SslChecker, DnsChecker, TcpChecker
  <2> QED
    BY <2>1, Settles
<1>8. CASE UNCHANGED vars
  BY <1>8 DEF vars, ProbeTypeOK, Hops, Tries, OutcomeIsRight, IsWeb
<1> QED
  BY <1>1, <1>2, <1>3, <1>4, <1>5, <1>6, <1>7, <1>8, Fails DEF Next, runCheck, checker

LEMMA ProbeInvariant == Spec => []Inv
  BY ProbeInit, ProbeNext, PTL DEF Spec

\* The outcome is that of the last answer, after all retries when it is DOWN.
THEOREM OutcomeHolds == Spec => []OutcomeIsRight
<1>1. Inv => OutcomeIsRight
  BY DEF Inv, Tries
<1> QED
  BY <1>1, ProbeInvariant, PTL

\* Every hop is checked before it is asked, and there are no more than allowed.
THEOREM HopsHold == Spec => []HopsAreChecked
<1>1. Inv => HopsAreChecked
  BY BoundsAssumption DEF Inv, ProbeTypeOK, Hops, HopsAreChecked
<1> QED
  BY <1>1, ProbeInvariant, PTL
=============================================================================
