------------------------------- MODULE Probe --------------------------------
(***************************************************************************)
(* One run of runCheck (server/src/monitoring/index.ts): the attempts at a  *)
(* monitor's target, the checker of its type, and for web targets the       *)
(* redirect loop of server/src/utils/httpClient.ts.  The target answers as   *)
(* it likes.                                                                *)
(*                                                                          *)
(* A response is what the checker can tell of it: whether its status is     *)
(* expected, where it redirects to, what its body holds, and whether it was *)
(* slow.  The client keeps the first MAX_BYTES of a body, so what the       *)
(* monitor looks for may be cut off.                                        *)
(***************************************************************************)
EXTENDS Naturals, Sequences

CONSTANTS
    Urls,           \* addresses a target can name or redirect to
    Blocked,        \* those assertSafeUrl refuses (malformed ones included)
    MaxRedirects,   \* maxRedirects of the client, 5
    MaxRetries      \* the most retries validation accepts, 5

ASSUME UrlsAssumption == Blocked \subseteq Urls
ASSUME BoundsAssumption == MaxRedirects \in Nat /\ MaxRetries \in Nat

WebTypes == {"HTTP", "API", "KEYWORD", "JSON"}
Monitors ==
    [type : WebTypes \cup {"SSL", "DNS", "TCP"}, target : Urls, followRedirects : BOOLEAN,
     looksFor : BOOLEAN,    \* keyword, assertions or dnsExpectedValue is set
     hasThreshold : BOOLEAN, retries : 0..MaxRetries]

\* body: "match" is what the monitor looks for, within MAX_BYTES; "cut" is what
\* it looks for, but longer than that; "broken" makes the evaluation throw.
Responses ==
    [expected : BOOLEAN, location : {{}} \cup {{u} : u \in Urls},
     body : {"match", "other", "cut", "broken"}, slow : BOOLEAN]

\* What the checkers of other types come to: the expectation is met or not, or
\* the socket or the resolver reports an error or a timeout.
Signals == {"met", "unmet", "refused", "silent"}

VARIABLES
    monitor,     \* the row as the job has read it
    step,        \* where runCheck is
    attempts,    \* retries made
    url,         \* the address to ask next or asked last
    redirects,   \* redirects followed in this attempt
    res,         \* the response in hand, as a set of at most one
    outcome,     \* status and errorCode of the last attempt
    answers,     \* history: how good the answer of each attempt was
    asked        \* history: the addresses asked in this attempt

vars == <<monitor, step, attempts, url, redirects, res, outcome, answers, asked>>

NoOutcome == [status |-> "none", errorCode |-> "none"]
Down(code) == [status |-> "DOWN", errorCode |-> code]
IsWeb == monitor.type \in WebTypes

Init ==
    /\ monitor \in Monitors
    /\ step = "try" /\ attempts = 0 /\ url = monitor.target /\ redirects = 0
    /\ res = {} /\ outcome = NoOutcome /\ answers = <<>>
    /\ asked = <<>>

\* How good a response is, whatever the code makes of it.
Healthy(r) == r.expected /\ ((monitor.looksFor /\ monitor.type # "HTTP") => r.body = "match")
Quality(r) == IF ~Healthy(r) THEN "bad" ELSE IF r.slow THEN "slow" ELSE "good"

-----------------------------------------------------------------------------
(***************************************************************************)
(* An attempt.                                                              *)
(***************************************************************************)

\* runCheck looks at the outcome of an attempt: it ends, or sleeps and tries
\* again, whatever made the attempt fail.
AttemptEnds(result, quality) ==
    /\ outcome' = result
    /\ answers' = Append(answers, quality)
    /\ res' = {}
    /\ IF result.status = "DOWN" /\ attempts < monitor.retries
         THEN step' = "sleep" ELSE step' = "end"
    /\ UNCHANGED <<monitor, attempts, url, redirects, asked>>

\* Mutant: one retry less.
RetryOneLess ==
    /\ step = "sleep"
    /\ attempts' = attempts + 2
    /\ step' = "try" /\ url' = monitor.target /\ redirects' = 0
    /\ asked' = <<>>
    /\ UNCHANGED <<monitor, res, outcome, answers>>

Retry ==
    /\ step = "sleep"
    /\ attempts' = attempts + 1
    /\ step' = "try" /\ url' = monitor.target /\ redirects' = 0
    /\ asked' = <<>>
    /\ UNCHANGED <<monitor, res, outcome, answers>>

\* assertSafeUrl looks the name up and lets the address pass or throws, also for
\* a name that does not resolve; of the others only sslChecker calls it.  What the
\* connection's own lookup finds later is left out: an address is its name here.
Admit ==
    /\ step = "try" /\ monitor.type \in WebTypes \cup {"SSL"}
    /\ url \notin Blocked
    /\ step' = IF IsWeb THEN "send" ELSE "connect"
    /\ UNCHANGED <<monitor, attempts, url, redirects, res, outcome, answers, asked>>

Refuse ==
    /\ step = "try" /\ monitor.type \in WebTypes \cup {"SSL"}
    /\ AttemptEnds(Down(IF url \in Blocked THEN "SSRF_BLOCKED" ELSE "BAD_REQUEST"), "bad")

\* requestOnce, which ends in a response, an error or a timeout.
RequestOnce ==
    /\ step = "send"
    /\ asked' = Append(asked, url)
    /\ step' = "wait"
    /\ UNCHANGED <<monitor, attempts, url, redirects, res, outcome, answers>>

Answered ==
    /\ step = "wait"
    /\ \E r \in Responses : res' = {r}
    /\ step' = "got"
    /\ UNCHANGED <<monitor, attempts, url, redirects, outcome, answers, asked>>

RequestFails ==
    /\ step = "wait"
    /\ AttemptEnds(Down("BAD_REQUEST"), "bad")

Redirecting == \E r \in res : r.location # {} /\ monitor.followRedirects

\* Mutant: the address redirected to is asked at once.
RedirectUnchecked ==
    /\ step = "got" /\ Redirecting /\ redirects < MaxRedirects
    /\ \E r \in res, u \in Urls : u \in r.location /\ url' = u
    /\ redirects' = redirects + 1
    /\ res' = {} /\ step' = "send"
    /\ UNCHANGED <<monitor, attempts, outcome, answers, asked>>

Redirect ==
    /\ step = "got" /\ Redirecting /\ redirects < MaxRedirects
    /\ \E r \in res, u \in Urls : u \in r.location /\ url' = u
    /\ redirects' = redirects + 1
    /\ res' = {} /\ step' = "try"
    /\ UNCHANGED <<monitor, attempts, outcome, answers, asked>>

TooManyRedirects ==
    /\ step = "got" /\ Redirecting /\ redirects >= MaxRedirects
    /\ AttemptEnds(Down("BAD_REQUEST"), "bad")

-----------------------------------------------------------------------------
(***************************************************************************)
(* The checkers.                                                            *)
(***************************************************************************)

\* The errorCode of a response that does not meet the expectations, "none" if
\* it does: the status first, then the keyword or the assertions.
Mismatch(r) ==
    CASE ~r.expected -> "STATUS_MISMATCH"
      [] r.expected /\ monitor.type = "KEYWORD" /\ monitor.looksFor /\ r.body # "match"
           -> "KEYWORD_MISMATCH"
      [] r.expected /\ monitor.type \in {"JSON", "API"} /\ monitor.looksFor /\ r.body # "match"
           -> (CASE r.body = "cut" -> "INVALID_JSON"
                 [] r.body = "other" -> "ASSERTION_FAIL"
                 [] r.body = "broken" -> "CHECK_ERROR")
      [] OTHER -> "none"

Slow(r) == monitor.hasThreshold /\ r.slow
Degraded == [status |-> "DEGRADED", errorCode |-> "RESPONSE_TIME"]
Up == [status |-> "UP", errorCode |-> "none"]

\* Mutant: the response time is looked at first.
VerdictSlowFirst(r) ==
    IF Slow(r) THEN Degraded ELSE IF Mismatch(r) # "none" THEN Down(Mismatch(r)) ELSE Up

Verdict(r) ==
    IF Mismatch(r) # "none" THEN Down(Mismatch(r)) ELSE IF Slow(r) THEN Degraded ELSE Up

HttpChecker ==
    /\ step = "got" /\ ~Redirecting
    /\ \E r \in res : AttemptEnds(Verdict(r), Quality(r))

\* sslChecker after its URL is admitted, dnsChecker, tcpChecker: whatever the
\* socket or the resolver says first settles the attempt.
Settle(signal) ==
    AttemptEnds(IF signal = "met" THEN Up
                ELSE Down(CASE signal = "silent" -> "TIMEOUT"
                            [] signal = "refused" -> "ERROR"
                            [] OTHER -> "MISMATCH"),
                IF signal = "met" THEN "good" ELSE "bad")

\* An expired certificate or none is an unmet expectation.
SslChecker == step = "connect" /\ \E signal \in Signals : Settle(signal)

\* Without an expected value any record will do.
DnsChecker ==
    /\ step = "try" /\ monitor.type = "DNS"
    /\ \E signal \in Signals \ {"silent"} : (signal = "unmet" => monitor.looksFor) /\ Settle(signal)

\* A connection is all that is expected.
TcpChecker ==
    /\ step = "try" /\ monitor.type = "TCP"
    /\ \E signal \in Signals \ {"unmet"} : Settle(signal)

checker ==
    \/ Admit \/ Refuse \/ RequestOnce \/ Answered \/ RequestFails \/ Redirect \/ TooManyRedirects
    \/ HttpChecker \/ SslChecker \/ DnsChecker \/ TcpChecker

runCheck == checker \/ Retry

Next == runCheck

Spec == Init /\ [][Next]_vars

-----------------------------------------------------------------------------
(***************************************************************************)
(* Properties.                                                              *)
(***************************************************************************)

\* The outcome is that of the last answer; every answer before was unhealthy,
\* and an unhealthy one is believed only when the retries are used up.  A slow
\* answer is DEGRADED, and that alone, only when it is healthy otherwise.
OutcomeIsRight ==
    step = "end" =>
        LET last == answers[Len(answers)] IN
        /\ \A n \in 1..(Len(answers) - 1) : answers[n] = "bad"
        /\ (outcome.status = "DOWN") <=> (last = "bad")
        /\ (outcome.status = "DOWN") => Len(answers) = monitor.retries + 1
        /\ (outcome.status = "DEGRADED") <=> (last = "slow" /\ monitor.hasThreshold)

\* No web request goes to an address that assertSafeUrl refuses, whichever
\* redirect names it, and an attempt makes no more of them than the redirects it
\* may follow allow, one if it may follow none.
HopsAreChecked ==
    /\ \A n \in 1..Len(asked) : asked[n] \notin Blocked
    /\ Len(asked) <= 1 + (IF monitor.followRedirects THEN MaxRedirects ELSE 0)
=============================================================================
