-------------------------- MODULE EscalationProofs --------------------------
(***************************************************************************)
(* Proofs about Escalation: the type invariant, the bound on what a         *)
(* threshold may be announced, and the floor under the lists of the         *)
(* escalations sent that overlapping scans overwrite.                       *)
(***************************************************************************)
EXTENDS Escalation, FiniteSetTheorems, WellFoundedInduction, TLAPS

Thresholds == Range(policy)

(***************************************************************************)
(* Arithmetic, minima and finite sets.                                      *)
(***************************************************************************)

\* A product of numbers is a number, and one factor more adds the other.
LEMMA OneMore ==
    ASSUME NEW n \in Nat, NEW a \in Nat
    PROVE  n * a \in Nat /\ n * (a + 1) = n * a + n
  BY SMT

\* A product grows with its factor.
LEMMA Monotone ==
    ASSUME NEW n \in Nat, NEW a \in Nat, NEW b \in Nat, a <= b
    PROVE  n * a <= n * b
<1>1. b - a \in Nat /\ n * (b - a) \in Nat
  BY SMT
<1>2. n * b = n * a + n * (b - a)
  BY SMT
<1> QED
  BY <1>1, <1>2, OneMore, SMT

\* What a sum is bounded by bounds its parts.
LEMMA PartOf ==
    ASSUME NEW a \in Nat, NEW c \in Nat, NEW x \in Nat, a + c <= x
    PROVE  a <= x
  BY SMT

\* The least of a set of numbers is one of them, and none is less.
LEMMA LeastOf ==
    ASSUME NEW S \in SUBSET Nat, S # {}
    PROVE  Min(S) \in S /\ \A k \in S : Min(S) <= k
<1>1. PICK m \in S : \A k \in S : <<k, m>> \notin OpToRel(<, Nat)
  BY WFMin, NatLessThanWellFounded, Zenon
<1>2. \A k \in S : ~(k < m)
  BY <1>1, Zenon DEF OpToRel
<1>3. \A k \in S : m <= k
  BY <1>2, SMT
<1> QED
  BY <1>3, Zenon DEF Min

\* A policy is a finite list, so it has finitely many thresholds, and each
\* has finitely many places.
LEMMA ListsAreFinite ==
    ASSUME NEW n \in Nat, NEW f \in [1..n -> Minutes]
    PROVE  /\ IsFiniteSet(Range(f)) /\ Range(f) \subseteq Minutes
           /\ \A P \in SUBSET DOMAIN f : IsFiniteSet(P)
<1>1. IsFiniteSet(1..n)
  BY FS_Interval, SMT
<1>2. f \in Surjection(1..n, Range(f))
  BY DEF Surjection, Range
<1> QED
  BY <1>1, <1>2, FS_Surjection, FS_Subset DEF Range

(***************************************************************************)
(* Types, and what the locals of a scan are about.                          *)
(***************************************************************************)
Locals == [step : {"idle", "next", "record"}, left : SUBSET Incidents,
           read : [Incidents -> SUBSET Thresholds], elapsed : [Incidents -> 0..MaxAge],
           at : SUBSET Incidents, todo : SUBSET Places]

Typed ==
    /\ \E n \in 1..Listed : policy \in [1..n -> Minutes]
    /\ age \in [Incidents -> 0..MaxAge] /\ active \subseteq Incidents
    /\ sent \in [Incidents -> SUBSET Thresholds]
    /\ scan \in [Scans -> Locals]
    /\ announced \in [Incidents -> [Minutes -> Nat]]
    /\ overlapped \in BOOLEAN /\ faults \in 0..MaxFaults

\* What a scan has left to announce is of one incident, and not on its list
\* as the scan has read it; a record is of an alert.
Scanning ==
    \A s \in Scans :
        /\ scan[s].step = "idle" => scan[s].todo = {}
        /\ scan[s].step = "record" => scan[s].todo # {}
        /\ scan[s].todo # {} => \E i \in Incidents : scan[s].at = {i}
        /\ \A i \in scan[s].at, k \in scan[s].todo : policy[k] \notin scan[s].read[i]

Base == Typed /\ Scanning

\* The facts about the policy and about what is left to announce that the
\* steps below need.
LEMMA PolicyFacts ==
    ASSUME Typed
    PROVE  /\ IsFiniteSet(Thresholds) /\ Thresholds \subseteq Minutes /\ Places \subseteq Nat
           /\ \A P \in SUBSET Places : IsFiniteSet(P)
           /\ \A k \in Places : policy[k] \in Thresholds
           /\ \A s \in Scans : scan[s].todo # {} => Min(scan[s].todo) \in scan[s].todo
<1> PICK n \in 1..Listed : policy \in [1..n -> Minutes]
  BY DEF Typed
<1>1. n \in Nat
  BY MinutesAssumption
<1>2. Places \subseteq Nat
  BY <1>1 DEF Places
<1>3. \A s \in Scans : scan[s].todo \in SUBSET Nat
  BY <1>2 DEF Typed, Locals
<1> QED
  BY <1>1, <1>2, <1>3, ListsAreFinite, LeastOf DEF Thresholds, Places, Range

LEMMA BaseInit == Init => Base
<1> SUFFICES ASSUME Init PROVE Base
  OBVIOUS
<1>1. NoScan \in Locals
  BY MinutesAssumption DEF NoScan, Locals
<1>2. PICK n \in 1..Listed : policy \in [1..n -> Minutes]
  BY DEF Init
<1>3. scan \in [Scans -> Locals] /\ sent \in [Incidents -> SUBSET Thresholds]
  BY <1>1 DEF Init
<1>4. /\ age \in [Incidents -> 0..MaxAge] /\ active = Incidents
      /\ announced \in [Incidents -> [Minutes -> Nat]]
  BY MinutesAssumption DEF Init
<1>5. overlapped \in BOOLEAN /\ faults \in 0..MaxFaults
  <2>1. overlapped \in BOOLEAN
    BY Zenon DEF Init
  <2>2. faults \in 0..MaxFaults
    BY FaultsAssumption DEF Init
  <2> QED
    BY <2>1, <2>2
<1>6. Typed
  BY <1>2, <1>3, <1>4, <1>5, Zenon DEF Typed
<1> QED
  <2>1. \A s \in Scans : scan[s].step = "idle" /\ scan[s].todo = {}
    BY DEF Init, NoScan
  <2> QED
    BY <1>6, <2>1 DEF Base, Scanning

\* The lists are what changes at a step of a scan; everything else of a scan
\* is its own.
LEMMA BaseScan ==
    ASSUME Base, NEW s \in Scans, escalationScan(s) \/ Abort(s)
    PROVE  Base'
<1> USE DEF Base
<1>0. /\ policy' = policy /\ Places' = Places /\ Thresholds' = Thresholds /\ Locals' = Locals
      /\ age' = age /\ active' = active
  <2>1. policy' = policy /\ age' = age /\ active' = active
    BY DEF escalationScan, Begin, End, Take, Alert, Record, Abort
  <2> QED
    BY <2>1 DEF Places, Thresholds, Locals
<1>1. CASE Begin(s)
  <2>1. scan'[s] \in Locals /\ scan'[s].todo = {} /\ scan'[s].at = {} /\ scan'[s].step = "next"
    BY <1>1 DEF Begin, NoScan, Typed, Locals
  <2>2. \A t \in Scans \ {s} : scan'[t] = scan[t]
    BY <1>1 DEF Begin, Typed
  <2>3. Typed'
    BY <1>0, <1>1, <2>1 DEF Begin, Typed
  <2> QED
    BY <1>0, <2>1, <2>2, <2>3 DEF Scanning
<1>2. CASE End(s) \/ Abort(s)
  <2>1. scan' = [scan EXCEPT ![s] = NoScan] /\ NoScan \in Locals
    BY <1>2, MinutesAssumption DEF End, Abort, NoScan, Locals
  <2>2. faults' \in 0..MaxFaults
    BY <1>2, FaultsAssumption DEF End, Abort, Typed
  <2>3. Typed'
    BY <1>0, <1>2, <2>1, <2>2 DEF End, Abort, Typed
  <2> QED
    BY <1>0, <2>1, <2>3 DEF Scanning, NoScan, Typed
<1>3. ASSUME NEW i \in Incidents, Take(s, i) PROVE Base'
  <2> DEFINE due == {k \in Places : /\ policy[k] <= scan[s].elapsed[i]
                                    /\ policy[k] \notin scan[s].read[i]}
  <2>1. scan' = [scan EXCEPT ![s].left = @ \ {i}, ![s].at = {i}, ![s].todo = due]
    BY <1>3 DEF Take
  <2>2. /\ scan'[s].at = {i} /\ scan'[s].todo = due /\ scan'[s].read = scan[s].read
        /\ scan'[s].step = "next"
        /\ \A t \in Scans \ {s} : scan'[t] = scan[t]
    BY <1>3, <2>1 DEF Take, Typed, Locals
  <2>3. scan' \in [Scans -> Locals]
    <3>1. due \in SUBSET Places /\ scan[s].left \ {i} \in SUBSET Incidents /\ {i} \in SUBSET Incidents
      BY DEF Typed, Locals
    <3> HIDE DEF due
    <3>2. scan[s] \in Locals
      BY DEF Typed
    <3>3. [scan[s] EXCEPT !.left = @ \ {i}, !.at = {i}, !.todo = due] \in Locals
      BY <3>1, <3>2 DEF Locals
    <3>4. scan' = [scan EXCEPT ![s] = [scan[s] EXCEPT !.left = @ \ {i}, !.at = {i}, !.todo = due]]
      BY <2>1, <3>2 DEF Typed, Locals
    <3> QED
      BY <3>3, <3>4 DEF Typed
  <2>4. Typed'
    BY <1>0, <1>3, <2>3 DEF Take, Typed
  <2> QED
    BY <1>0, <2>2, <2>4 DEF Scanning
<1>4. ASSUME NEW i \in Incidents, Alert(s, i) PROVE Base'
  <2>1. policy[Min(scan[s].todo)] \in Minutes
    BY <1>4, PolicyFacts DEF Alert, Typed, Locals
  <2>2. announced' \in [Incidents -> [Minutes -> Nat]]
    BY <1>4, <2>1 DEF Alert, Typed
  <2>3. /\ scan' \in [Scans -> Locals] /\ scan[s].todo # {}
        /\ scan'[s].todo = scan[s].todo /\ scan'[s].at = scan[s].at
        /\ scan'[s].read = scan[s].read /\ scan'[s].step = "record"
        /\ \A t \in Scans \ {s} : scan'[t] = scan[t]
    <3>0. scan[s] \in Locals
      BY DEF Typed
    <3>1. [scan[s] EXCEPT !.step = "record"] \in Locals
      BY <3>0 DEF Locals
    <3> QED
      BY <1>4, <3>1 DEF Alert, Typed, Locals
  <2>4. Typed'
    BY <1>0, <1>4, <2>2, <2>3 DEF Alert, Typed
  <2> QED
    BY <1>0, <2>3, <2>4 DEF Scanning
<1>5. ASSUME NEW i \in Incidents, Record(s, i) PROVE Base'
  <2> DEFINE x == Min(scan[s].todo)
  <2>1. scan[s].todo # {} /\ x \in Places /\ policy[x] \in Thresholds
    BY <1>5, PolicyFacts DEF Record, Scanning, Typed, Locals
  <2>2. sent' = [sent EXCEPT ![i] = scan[s].read[i] \cup {policy[x]}]
    BY <1>5 DEF Record
  <2>3. scan[s].read[i] \cup {policy[x]} \in SUBSET Thresholds
    BY <2>1 DEF Typed, Locals
  <2>4. sent' \in [Incidents -> SUBSET Thresholds]
    BY <2>2, <2>3 DEF Typed
  <2>5. /\ scan' \in [Scans -> Locals]
        /\ scan'[s].todo \subseteq scan[s].todo /\ scan'[s].at = scan[s].at
        /\ scan'[s].read = scan[s].read /\ scan'[s].step = "next"
        /\ \A t \in Scans \ {s} : scan'[t] = scan[t]
    <3>1. scan[s].todo \ {x} \in SUBSET Places
      BY DEF Typed, Locals
    <3> HIDE DEF x
    <3>0. scan[s] \in Locals
      BY DEF Typed
    <3> DEFINE rest == scan[s].todo \ {x}
    <3> HIDE DEF rest
    <3>2. [scan[s] EXCEPT !.step = "next", !.todo = rest] \in Locals
      <4>1. rest \in SUBSET Places
        BY <3>1 DEF rest
      <4> QED
        BY <3>0, <4>1 DEF Locals
    <3>3. scan' = [scan EXCEPT ![s] = [scan[s] EXCEPT !.step = "next", !.todo = rest]]
      BY <1>5 DEF Record, x, rest, Typed
    <3> QED
      BY <3>2, <3>3 DEF Typed, Locals, rest
  <2>6. Typed'
    BY <1>0, <1>5, <2>4, <2>5 DEF Record, Typed
  <2> QED
    BY <1>0, <2>1, <2>5, <2>6 DEF Scanning
<1> QED
  BY <1>1, <1>2, <1>3, <1>4, <1>5 DEF escalationScan

LEMMA BaseNext == Base /\ [Next]_vars => Base'
<1> SUFFICES ASSUME Base, [Next]_vars PROVE Base'
  OBVIOUS
<1> USE DEF Base
<1>1. CASE Minute
  <2>1. \A a \in 0..MaxAge : Min({a + 1, MaxAge}) \in 0..MaxAge
    <3> TAKE a \in 0..MaxAge
    <3>1. {a + 1, MaxAge} \in SUBSET Nat /\ {a + 1, MaxAge} # {}
      BY MinutesAssumption
    <3>2. Min({a + 1, MaxAge}) \in Nat /\ Min({a + 1, MaxAge}) <= MaxAge
      BY <3>1, LeastOf
    <3> QED
      BY <3>2, MinutesAssumption
  <2>2. age' \in [Incidents -> 0..MaxAge]
    BY <1>1, <2>1 DEF Minute, Typed
  <2> QED
    BY <1>1, <2>2 DEF Minute, Typed, Scanning, Locals, Thresholds, Places
<1>2. ASSUME NEW i \in Incidents, Resolve(i) PROVE Base'
  BY <1>2 DEF Resolve, Typed, Scanning, Locals, Thresholds, Places
<1>3. CASE UNCHANGED vars
  BY <1>3 DEF vars, Typed, Scanning, Locals, Thresholds, Places
<1> QED
  BY <1>1, <1>2, <1>3, BaseScan DEF Next

\* Every scan holds the lists, the ages and the places it should, and what it
\* has left to announce is of one incident and not on the list it has read.
THEOREM ScansAreTyped == Spec => []Base
<1> QED
  BY BaseInit, BaseNext, PTL DEF Spec

(***************************************************************************)
(* The bound on the announcements.  As long as scans do not overlap, the    *)
(* list a scan goes by is the list there is, until the scan itself writes   *)
(* it; each place of a threshold is then charged at most once to a list of   *)
(* a given length, and every list written is longer than the one read.      *)
(***************************************************************************)
\* The alerts a scan has still to send; it is at incident i.
Pending(s) == IF scan[s].step = "record" THEN scan[s].todo \ {Min(scan[s].todo)} ELSE scan[s].todo
At(s, i) == s \in Busy /\ scan[s].at = {i} /\ scan[s].todo # {}

\* One scan at a time; the incidents left have the lists it has read.
InTurn ==
    /\ \A s, t \in Busy : s = t
    /\ \A s \in Busy, i \in Incidents :
          /\ i \in scan[s].left => scan[s].read[i] = sent[i] /\ scan[s].at # {i}
          /\ scan[s].at = {i} => scan[s].read[i] \subseteq sent[i]

\* Between scans, a place of a threshold has been announced once for each
\* length the list has had and for each scan cut short ...
Paid(i, m) ==
    (\A s \in Scans : ~At(s, i)) =>
        announced[i][m] <= Cardinality(Naming(m)) * (Cardinality(sent[i]) + faults)

\* ... and a scan that is at the incident may announce it once more.
Owed(s, i, m) ==
    At(s, i) =>
        announced[i][m] + Cardinality(Pending(s) \cap Naming(m))
            <= Cardinality(Naming(m)) * (Cardinality(scan[s].read[i]) + 1 + faults)

Charged ==
    \A i \in Incidents, m \in Minutes : Paid(i, m) /\ \A s \in Scans : Owed(s, i, m)

Inv == Base /\ (~overlapped => InTurn /\ Charged)

\* What a scan's own steps do to its locals.
LEMMA BeginFields ==
    ASSUME Typed, NEW s \in Scans, Begin(s)
    PROVE  /\ scan'[s].step = "next" /\ scan'[s].read = sent
           /\ scan'[s].at = {} /\ scan'[s].todo = {}
           /\ \A t \in Scans \ {s} : scan'[t] = scan[t]
<1>1. scan'[s] = [NoScan EXCEPT !.step = "next", !.left = active, !.read = sent, !.elapsed = age]
  BY DEF Begin, Typed
<1>2. scan'[s].step = "next" /\ scan'[s].read = sent /\ scan'[s].at = {} /\ scan'[s].todo = {}
  BY <1>1 DEF NoScan
<1>3. \A t \in Scans \ {s} : scan'[t] = scan[t]
  BY DEF Begin, Typed
<1> QED
  BY <1>2, <1>3

LEMMA TakeFields ==
    ASSUME Typed, NEW s \in Scans, NEW i \in Incidents, Take(s, i)
    PROVE  /\ scan'[s].step = "next" /\ scan'[s].at = {i} /\ scan'[s].left = scan[s].left \ {i}
           /\ scan'[s].read = scan[s].read /\ scan'[s].todo \subseteq Places
           /\ \A t \in Scans \ {s} : scan'[t] = scan[t]
  BY DEF Take, Typed, Locals

LEMMA AlertFields ==
    ASSUME Typed, NEW s \in Scans, NEW i \in Incidents, Alert(s, i)
    PROVE  /\ scan'[s].step = "record" /\ scan'[s].at = {i} /\ scan'[s].left = scan[s].left
           /\ scan'[s].read = scan[s].read /\ scan'[s].todo = scan[s].todo
           /\ \A t \in Scans \ {s} : scan'[t] = scan[t]
  BY DEF Alert, Typed, Locals

LEMMA RecordFields ==
    ASSUME Typed, NEW s \in Scans, NEW i \in Incidents, Record(s, i)
    PROVE  /\ scan'[s].step = "next" /\ scan'[s].at = {i} /\ scan'[s].left = scan[s].left
           /\ scan'[s].read = scan[s].read
           /\ scan'[s].todo = scan[s].todo \ {Min(scan[s].todo)}
           /\ \A t \in Scans \ {s} : scan'[t] = scan[t]
  BY DEF Record, Typed, Locals

\* The sizes the bound is made of are numbers.
LEMMA Sizes ==
    ASSUME Typed
    PROVE  /\ faults \in Nat
           /\ \A i \in Incidents :
                 /\ IsFiniteSet(sent[i]) /\ Cardinality(sent[i]) \in Nat
                 /\ Cardinality(sent[i]) <= Cardinality(Thresholds)
                 /\ \A s \in Scans : /\ IsFiniteSet(scan[s].read[i])
                                     /\ Cardinality(scan[s].read[i]) \in Nat
           /\ \A i \in Incidents, m \in Minutes : announced[i][m] \in Nat
           /\ \A m \in Minutes, P \in SUBSET Places :
                 /\ IsFiniteSet(P \cap Naming(m)) /\ Cardinality(P \cap Naming(m)) \in Nat
                 /\ Cardinality(P \cap Naming(m)) <= Cardinality(Naming(m))
                 /\ Cardinality(Naming(m)) \in Nat
<1>1. IsFiniteSet(Thresholds) /\ \A P \in SUBSET Places : IsFiniteSet(P)
  BY PolicyFacts
<1>2. \A T \in SUBSET Thresholds : /\ IsFiniteSet(T) /\ Cardinality(T) \in Nat
                                   /\ Cardinality(T) <= Cardinality(Thresholds)
  BY <1>1, FS_Subset, FS_CardinalityType
<1>3. \A i \in Incidents : sent[i] \in SUBSET Thresholds
                           /\ \A s \in Scans : scan[s].read[i] \in SUBSET Thresholds
  BY DEF Typed, Locals
<1>4. ASSUME NEW m \in Minutes, NEW P \in SUBSET Places
      PROVE  /\ IsFiniteSet(P \cap Naming(m)) /\ Cardinality(P \cap Naming(m)) \in Nat
             /\ Cardinality(P \cap Naming(m)) <= Cardinality(Naming(m))
             /\ Cardinality(Naming(m)) \in Nat
  <2>1. Naming(m) \in SUBSET Places /\ P \cap Naming(m) \in SUBSET Naming(m)
    BY DEF Naming
  <2> QED
    BY <1>1, <2>1, FS_Subset, FS_CardinalityType
<1>5. faults \in Nat /\ \A i \in Incidents, m \in Minutes : announced[i][m] \in Nat
  BY FaultsAssumption DEF Typed
<1> QED
  BY <1>2, <1>3, <1>4, <1>5

LEMMA InTurnNext ==
    ASSUME Inv, [Next]_vars, ~overlapped'
    PROVE  InTurn'
<1> USE DEF Inv, Base
<1>1. ASSUME NEW s \in Scans, Begin(s) PROVE InTurn'
  <2>1. /\ Busy = {} /\ scan'[s].read = sent /\ scan'[s].at = {} /\ sent' = sent
        /\ \A t \in Scans \ {s} : scan'[t] = scan[t]
    BY <1>1, BeginFields DEF Begin
  <2> QED
    BY <2>1 DEF InTurn, Busy
<1>2. ASSUME NEW s \in Scans, End(s) \/ Abort(s) PROVE InTurn'
  <2>1. /\ InTurn /\ sent' = sent /\ scan'[s].step = "idle"
        /\ \A t \in Scans \ {s} : scan'[t] = scan[t]
    BY <1>2 DEF End, Abort, NoScan, Typed
  <2> QED
    BY <2>1 DEF InTurn, Busy
<1>3. ASSUME NEW s \in Scans, NEW i \in Incidents, Take(s, i) PROVE InTurn'
  <2>1. InTurn /\ sent' = sent /\ s \in Busy /\ i \in scan[s].left
    BY <1>3 DEF Take, Busy
  <2> QED
    BY <1>3, <2>1, TakeFields DEF InTurn, Busy
<1>4. ASSUME NEW s \in Scans, NEW i \in Incidents, Alert(s, i) PROVE InTurn'
  <2>1. InTurn /\ sent' = sent /\ s \in Busy /\ scan[s].at = {i}
    BY <1>4 DEF Alert, Busy
  <2> QED
    BY <1>4, <2>1, AlertFields DEF InTurn, Busy
<1>5. ASSUME NEW s \in Scans, NEW i \in Incidents, Record(s, i) PROVE InTurn'
  <2>1. /\ InTurn /\ s \in Busy /\ scan[s].at = {i}
        /\ scan[s].read[i] \subseteq sent'[i]
        /\ \A j \in Incidents \ {i} : sent'[j] = sent[j]
    BY <1>5 DEF Record, Busy, Typed
  <2> QED
    BY <1>5, <2>1, RecordFields DEF InTurn, Busy
<1>6. CASE Minute \/ (\E i \in Incidents : Resolve(i)) \/ UNCHANGED vars
  <2>1. InTurn /\ scan' = scan /\ sent' = sent
    BY <1>6 DEF Minute, Resolve, vars
  <2> QED
    BY <2>1 DEF InTurn, Busy
<1> QED
  BY <1>1, <1>2, <1>3, <1>4, <1>5, <1>6 DEF Next, escalationScan

\* One place less is pending when its alert has been sent, and only its own
\* threshold has been announced once more.
LEMMA AlertCounts ==
    ASSUME Inv, NEW s \in Scans, NEW i \in Incidents, Alert(s, i), ~overlapped,
           NEW m \in Minutes
    PROVE  announced'[i][m] + Cardinality(Pending(s)' \cap Naming(m))
               = announced[i][m] + Cardinality(Pending(s) \cap Naming(m))
<1> USE DEF Inv, Base
<1> DEFINE k == Min(scan[s].todo)
           P == scan[s].todo
<1>1. P \in SUBSET Places /\ P # {} /\ k \in P /\ policy[k] \in Minutes
  BY PolicyFacts DEF Alert, Typed, Locals
<1>2. Pending(s) = P /\ Pending(s)' = P \ {k}
  BY AlertFields DEF Pending, Alert
<1>3. announced' = [announced EXCEPT ![i][policy[k]] = @ + 1]
  BY DEF Alert
<1> HIDE DEF k, P
<1>4. /\ IsFiniteSet(P \cap Naming(m)) /\ Cardinality(P \cap Naming(m)) \in Nat
      /\ announced[i][m] \in Nat
  BY <1>1, Sizes
<1>5. (P \ {k}) \cap Naming(m) = (P \cap Naming(m)) \ {k}
  OBVIOUS
<1>6. CASE policy[k] = m
  <2>1. k \in P \cap Naming(m)
    BY <1>1, <1>6 DEF Naming
  <2>2. Cardinality((P \cap Naming(m)) \ {k}) = Cardinality(P \cap Naming(m)) - 1
    BY <1>4, <2>1, FS_RemoveElement
  <2>3. announced'[i][m] = announced[i][m] + 1
    BY <1>3, <1>6 DEF Typed
  <2> QED
    <3>1. Cardinality(Pending(s)' \cap Naming(m)) = Cardinality(P \cap Naming(m)) - 1
      BY <1>2, <1>5, <2>2
    <3>2. Cardinality(Pending(s) \cap Naming(m)) = Cardinality(P \cap Naming(m))
      BY <1>2
    <3> QED
      BY <1>4, <2>3, <3>1, <3>2
<1>7. CASE policy[k] # m
  <2>1. (P \cap Naming(m)) \ {k} = P \cap Naming(m)
    BY <1>7 DEF Naming
  <2>2. announced'[i][m] = announced[i][m]
    BY <1>1, <1>3, <1>7 DEF Typed
  <2> QED
    BY <1>2, <1>5, <2>1, <2>2
<1> QED
  BY <1>6, <1>7

\* An incident no scan is at is charged what its list allows.
LEMMA ChargedNext ==
    ASSUME Inv, Base', [Next]_vars, ~overlapped'
    PROVE  Charged'
<1> USE DEF Inv, Base
<1> SUFFICES ASSUME NEW i \in Incidents, NEW m \in Minutes
             PROVE  Paid(i, m)' /\ \A s \in Scans : Owed(s, i, m)'
  BY DEF Charged
<1>0. /\ ~overlapped /\ InTurn /\ \A s, t \in Busy : s = t
      /\ Paid(i, m) /\ \A s \in Scans : Owed(s, i, m)
  <2>1. ~overlapped
    BY DEF Next, escalationScan, Begin, End, Take, Alert, Record, Abort, Minute, Resolve, vars
  <2> QED
    BY <2>1 DEF Charged, InTurn
<1>1. /\ Naming(m)' = Naming(m) /\ Cardinality(Naming(m)) \in Nat
      /\ announced[i][m] \in Nat /\ faults \in Nat /\ Cardinality(sent[i]) \in Nat
      /\ \A s \in Scans : Cardinality(scan[s].read[i]) \in Nat
      /\ \A s \in Scans : Cardinality(Pending(s) \cap Naming(m)) \in Nat
  <2>1. policy' = policy
    BY DEF Next, escalationScan, Begin, End, Take, Alert, Record, Abort, Minute, Resolve, vars
  <2>2. \A s \in Scans : Pending(s) \in SUBSET Places
    BY DEF Pending, Typed, Locals
  <2> QED
    BY <2>1, <2>2, Sizes DEF Naming, Places
<1> DEFINE N == Cardinality(Naming(m))
\* A step that leaves the incident's lists and alerts alone, and no scan at it
\* that was not.
<1>2. ASSUME sent' = sent, announced' = announced, faults' = faults,
             \A s \in Scans : ~At(s, i)', \A s \in Scans : ~At(s, i)
      PROVE  Paid(i, m)' /\ \A s \in Scans : Owed(s, i, m)'
  BY <1>0, <1>1, <1>2 DEF Paid, Owed
<1>3. ASSUME NEW s \in Scans, Begin(s) \/ End(s)
      PROVE  Paid(i, m)' /\ \A t \in Scans : Owed(t, i, m)'
  <2>1. \A t \in Scans : ~At(t, i)
    BY <1>0, <1>3 DEF Begin, End, At, Busy
  <2>2. \A t \in Scans : ~At(t, i)'
    <3>1. scan'[s].todo = {} /\ \A t \in Scans \ {s} : scan'[t] = scan[t]
      <4>1. CASE Begin(s)
        BY <4>1, BeginFields
      <4>2. CASE End(s)
        BY <4>2 DEF End, NoScan, Typed
      <4> QED
        BY <1>3, <4>1, <4>2
    <3> QED
      BY <2>1, <3>1 DEF At, Busy
  <2> QED
    BY <1>2, <1>3, <2>1, <2>2 DEF Begin, End
<1>4. ASSUME NEW s \in Scans, NEW j \in Incidents, Take(s, j)
      PROVE  Paid(i, m)' /\ \A t \in Scans : Owed(t, i, m)'
  <2>1. \A t \in Scans : ~At(t, i)
    BY <1>0, <1>4 DEF Take, At, Busy
  <2>2. \A t \in Scans : At(t, i)' => t = s /\ j = i
    BY <1>4, <2>1, TakeFields DEF At, Busy
  <2>3. CASE ~At(s, i)'
    BY <1>2, <1>4, <2>1, <2>2, <2>3 DEF Take
  <2>4. CASE At(s, i)'
    <3>1. j = i /\ scan'[s].read[i] = sent[i] /\ Pending(s)' = scan'[s].todo
      <4>1. j = i
        BY <2>2, <2>4
      <4>2. s \in Busy /\ i \in scan[s].left
        BY <1>4, <4>1 DEF Take, Busy
      <4>3. scan'[s].read[i] = sent[i]
        BY <1>0, <1>4, <4>2, TakeFields DEF InTurn
      <4>4. Pending(s)' = scan'[s].todo
        BY <1>4, TakeFields DEF Pending
      <4> QED
        BY <4>1, <4>3, <4>4
    <3>2. /\ Cardinality(Pending(s)' \cap Naming(m)) \in Nat
          /\ Cardinality(Pending(s)' \cap Naming(m)) <= N
      BY <1>4, <3>1, TakeFields, Sizes
    <3>3. announced[i][m] <= N * (Cardinality(sent[i]) + faults)
      BY <1>0, <2>1 DEF Paid
    <3>4. /\ N * (Cardinality(sent[i]) + faults) \in Nat
          /\ N * (Cardinality(sent[i]) + faults + 1) = N * (Cardinality(sent[i]) + faults) + N
      BY <1>1, OneMore
    <3>5. Cardinality(sent[i]) + faults + 1 = Cardinality(scan'[s].read[i]) + 1 + faults
      BY <1>1, <3>1
    <3>6. announced' = announced /\ faults' = faults
      BY <1>4 DEF Take
    <3>7. announced[i][m] + Cardinality(Pending(s)' \cap Naming(m))
              <= N * (Cardinality(scan'[s].read[i]) + 1 + faults)
      BY <1>1, <3>2, <3>3, <3>4, <3>5
    <3>8. Owed(s, i, m)'
      BY <1>1, <3>6, <3>7 DEF Owed
    <3> QED
      BY <2>2, <2>4, <3>8 DEF Paid, Owed
  <2> QED
    BY <2>3, <2>4
<1>5. ASSUME NEW s \in Scans, NEW j \in Incidents, Alert(s, j)
      PROVE  Paid(i, m)' /\ \A t \in Scans : Owed(t, i, m)'
  <2>1. \A t \in Scans : (At(t, i)' <=> At(t, i)) /\ (At(t, i) <=> t = s /\ j = i)
    BY <1>0, <1>5, AlertFields DEF Alert, At, Busy
  <2>2. faults' = faults /\ sent' = sent /\ scan'[s].read = scan[s].read
    BY <1>5, AlertFields DEF Alert
  <2>3. CASE j = i
    <3>1. announced'[i][m] + Cardinality(Pending(s)' \cap Naming(m))
              = announced[i][m] + Cardinality(Pending(s) \cap Naming(m))
      BY <1>0, <1>5, <2>3, AlertCounts
    <3>2. announced[i][m] + Cardinality(Pending(s) \cap Naming(m))
              <= N * (Cardinality(scan[s].read[i]) + 1 + faults)
      BY <1>0, <2>1, <2>3 DEF Owed
    <3>3. Owed(s, i, m)'
      BY <1>1, <2>2, <3>1, <3>2 DEF Owed
    <3> QED
      BY <2>1, <2>3, <3>3 DEF Paid, Owed
  <2>4. CASE j # i
    <3>1. announced'[i] = announced[i]
      BY <1>5, <2>4 DEF Alert, Typed
    <3> QED
      BY <1>0, <1>1, <2>1, <2>2, <2>4, <3>1 DEF Paid, Owed
  <2> QED
    BY <2>3, <2>4
<1>6. ASSUME NEW s \in Scans, NEW j \in Incidents, Record(s, j)
      PROVE  Paid(i, m)' /\ \A t \in Scans : Owed(t, i, m)'
  <2> DEFINE k == Min(scan[s].todo)
  <2>1. /\ scan[s].todo # {} /\ k \in scan[s].todo /\ policy[k] \notin scan[s].read[j]
        /\ Pending(s) = scan[s].todo \ {k}
    BY <1>6, PolicyFacts DEF Record, Scanning, Pending
  <2>2. \A t \in Scans : At(t, i) <=> t = s /\ j = i
    BY <1>0, <1>6, <2>1 DEF Record, At, Busy
  <2>3. /\ announced' = announced /\ faults' = faults
        /\ sent' = [sent EXCEPT ![j] = scan[s].read[j] \cup {policy[k]}]
    BY <1>6 DEF Record
  <2>4. scan'[s].read = scan[s].read /\ Pending(s)' = Pending(s) /\ scan'[s].todo = Pending(s)
    BY <1>6, <2>1, RecordFields DEF Pending
  <2>5. \A t \in Scans : At(t, i)' <=> t = s /\ j = i /\ Pending(s) # {}
    <3>1. s \in Busy /\ \A t \in Scans \ {s} : t \notin Busy
      BY <1>0, <1>6 DEF Record, Busy
    <3>2. /\ s \in Busy' /\ scan'[s].at = {j}
          /\ \A t \in Scans \ {s} : t \notin Busy'
      BY <1>6, <3>1, RecordFields DEF Busy
    <3> QED
      BY <2>4, <3>2 DEF At
  <2> HIDE DEF k
  <2>6. CASE j # i
    <3>1. sent'[i] = sent[i]
      BY <2>3, <2>6 DEF Typed
    <3> QED
      BY <1>0, <1>1, <2>2, <2>3, <2>5, <2>6, <3>1 DEF Paid, Owed
  <2>7. CASE j = i
    <3>1. announced[i][m] + Cardinality(Pending(s) \cap Naming(m))
              <= N * (Cardinality(scan[s].read[i]) + 1 + faults)
      BY <1>0, <2>2, <2>7 DEF Owed
    <3>2. CASE Pending(s) # {}
      <4>1. Owed(s, i, m)'
        BY <1>1, <2>3, <2>4, <3>1 DEF Owed
      <4> QED
        BY <2>5, <2>7, <3>2, <4>1 DEF Paid, Owed
    <3>3. CASE Pending(s) = {}
      <4>1. Cardinality(sent'[i]) = Cardinality(scan[s].read[i]) + 1
        <5>1. IsFiniteSet(scan[s].read[i]) /\ sent'[i] = scan[s].read[i] \cup {policy[k]}
          BY <2>3, <2>7, Sizes DEF Typed
        <5> QED
          BY <2>1, <2>7, <5>1, FS_AddElement
      <4>2. announced[i][m] <= N * (Cardinality(sent'[i]) + faults)
        <5>1. Cardinality(sent'[i]) + faults = Cardinality(scan[s].read[i]) + 1 + faults
          BY <1>1, <4>1
        <5>2. N * (Cardinality(scan[s].read[i]) + 1 + faults) \in Nat
          BY <1>1, OneMore
        <5>3. announced[i][m] <= N * (Cardinality(scan[s].read[i]) + 1 + faults)
          BY <1>1, <3>1, <5>2, PartOf
        <5> QED
          BY <5>1, <5>3, Zenon
      <4> QED
        BY <1>1, <2>3, <2>5, <3>3, <4>2 DEF Paid, Owed
    <3> QED
      BY <3>2, <3>3
  <2> QED
    BY <2>6, <2>7
<1>7. ASSUME NEW s \in Scans, Abort(s)
      PROVE  Paid(i, m)' /\ \A t \in Scans : Owed(t, i, m)'
  <2>1. announced' = announced /\ faults' = faults + 1 /\ sent' = sent
    BY <1>7 DEF Abort
  <2>2. \A t \in Scans : ~At(t, i)'
    BY <1>0, <1>7 DEF Abort, NoScan, At, Busy, Typed
  <2>3. announced[i][m] <= N * (Cardinality(sent[i]) + faults + 1)
    <3>1. CASE At(s, i)
      <4>1. Cardinality(scan[s].read[i]) <= Cardinality(sent[i])
        <5>1. scan[s].read[i] \in SUBSET sent[i] /\ IsFiniteSet(sent[i])
          BY <1>0, <3>1, Sizes DEF InTurn, At
        <5> QED
          BY <5>1, FS_Subset
      <4>2. N * (Cardinality(scan[s].read[i]) + 1 + faults)
                <= N * (Cardinality(sent[i]) + faults + 1)
        BY <1>1, <4>1, Monotone
      <4>3. announced[i][m] <= N * (Cardinality(scan[s].read[i]) + 1 + faults)
        <5>1. N * (Cardinality(scan[s].read[i]) + 1 + faults) \in Nat
          BY <1>1, OneMore
        <5>2. announced[i][m] + Cardinality(Pending(s) \cap Naming(m))
                  <= N * (Cardinality(scan[s].read[i]) + 1 + faults)
          BY <1>0, <3>1 DEF Owed
        <5> QED
          BY <1>1, <5>1, <5>2, PartOf
      <4>4. /\ N * (Cardinality(sent[i]) + faults + 1) \in Nat
            /\ N * (Cardinality(scan[s].read[i]) + 1 + faults) \in Nat
        BY <1>1, OneMore
      <4> QED
        BY <1>1, <4>2, <4>3, <4>4
    <3>2. CASE ~At(s, i)
      <4>1. \A t \in Scans : ~At(t, i)
        BY <1>0, <1>7, <3>2 DEF Abort, At
      <4>2. announced[i][m] <= N * (Cardinality(sent[i]) + faults)
        BY <1>0, <4>1 DEF Paid
      <4>3. /\ N * (Cardinality(sent[i]) + faults) \in Nat
            /\ N * (Cardinality(sent[i]) + faults + 1) = N * (Cardinality(sent[i]) + faults) + N
        BY <1>1, OneMore
      <4> QED
        BY <1>1, <4>2, <4>3
    <3> QED
      BY <3>1, <3>2
  <2>4. Cardinality(sent[i]) + faults + 1 = Cardinality(sent[i]) + (faults + 1)
    BY <1>1
  <2> QED
    BY <1>1, <2>1, <2>2, <2>3, <2>4 DEF Paid, Owed
<1>8. CASE Minute \/ (\E j \in Incidents : Resolve(j)) \/ UNCHANGED vars
  <2>1. scan' = scan /\ sent' = sent /\ announced' = announced /\ faults' = faults
    BY <1>8 DEF Minute, Resolve, vars
  <2>2. \A s \in Scans : (At(s, i)' <=> At(s, i)) /\ Pending(s)' = Pending(s)
    BY <2>1 DEF At, Busy, Pending
  <2> QED
    BY <1>0, <1>1, <2>1, <2>2 DEF Paid, Owed
<1> QED
  BY <1>3, <1>4, <1>5, <1>6, <1>7, <1>8 DEF Next, escalationScan

LEMMA InvHolds == Spec => []Inv
<1>1. Init => Inv
  <2> SUFFICES ASSUME Init PROVE Inv
    OBVIOUS
  <2>1. Base
    BY BaseInit
  <2>2. \A s \in Scans : scan[s].step = "idle"
    BY DEF Init, NoScan
  <2>3. InTurn
    BY <2>2 DEF InTurn, Busy
  <2>4. Charged
    <3> SUFFICES ASSUME NEW i \in Incidents, NEW m \in Minutes
                 PROVE  Paid(i, m) /\ \A s \in Scans : Owed(s, i, m)
      BY DEF Charged
    <3>1. announced[i][m] = 0
      BY DEF Init
    <3>2. Cardinality(Naming(m)) * (Cardinality(sent[i]) + faults) \in Nat
      <4>1. /\ faults \in Nat /\ Cardinality(sent[i]) \in Nat
            /\ Cardinality(Naming(m)) \in Nat
        BY <2>1, Sizes DEF Base
      <4> QED
        BY <4>1, OneMore
    <3> QED
      BY <2>2, <3>1, <3>2 DEF Paid, Owed, At, Busy
  <2> QED
    BY <2>1, <2>3, <2>4 DEF Inv
<1>2. Inv /\ [Next]_vars => Inv'
  <2> SUFFICES ASSUME Inv, [Next]_vars PROVE Inv'
    OBVIOUS
  <2>1. Base'
    BY BaseNext DEF Inv
  <2> QED
    BY <2>1, InTurnNext, ChargedNext DEF Inv
<1> QED
  BY <1>1, <1>2, PTL DEF Spec

\* For any policy, any number of scans and faults: as long as scans do not
\* overlap, a threshold is announced at most once for each of its places in
\* the policy, each threshold of the policy and each scan cut short.
THEOREM AnnouncementsAreBounded == Spec => []AnnouncementsBounded
<1>1. Inv => AnnouncementsBounded
  <2> SUFFICES ASSUME Inv, ~overlapped, NEW i \in Incidents, NEW m \in Minutes
               PROVE  announced[i][m] <= Cardinality(Naming(m)) * (Cardinality(Thresholds) + faults)
    BY DEF AnnouncementsBounded, Thresholds
  <2> DEFINE N == Cardinality(Naming(m))
             T == Cardinality(Thresholds)
  <2>0. Paid(i, m) /\ (\A s \in Scans : Owed(s, i, m)) /\ Typed /\ Scanning
    BY DEF Inv, Base, Charged
  <2>1. /\ N \in Nat /\ T \in Nat /\ faults \in Nat /\ announced[i][m] \in Nat
        /\ Cardinality(sent[i]) \in Nat /\ Cardinality(sent[i]) <= T
    BY <2>0, Sizes, PolicyFacts, FS_CardinalityType
  <2>2. ASSUME NEW b \in Nat, b <= T + faults, announced[i][m] <= N * b
        PROVE  announced[i][m] <= N * (T + faults)
    <3>1. N * b <= N * (T + faults) /\ N * b \in Nat /\ N * (T + faults) \in Nat
      BY <2>1, <2>2, Monotone, OneMore
    <3> QED
      BY <2>1, <2>2, <3>1
  <2>3. CASE \A s \in Scans : ~At(s, i)
    BY <2>0, <2>1, <2>2, <2>3 DEF Paid
  <2>4. ASSUME NEW s \in Scans, At(s, i)
        PROVE  announced[i][m] <= N * (T + faults)
    <3> DEFINE r == Cardinality(scan[s].read[i])
    <3>1. r \in Nat /\ r + 1 <= T
      <4>1. PICK k \in scan[s].todo : policy[k] \notin scan[s].read[i]
        BY <2>0, <2>4 DEF At, Scanning
      <4>2. /\ policy[k] \in Thresholds /\ scan[s].read[i] \in SUBSET Thresholds
            /\ scan[s].read[i] \cup {policy[k]} \in SUBSET Thresholds
        BY <2>0, PolicyFacts DEF Typed, Locals
      <4>3. /\ IsFiniteSet(scan[s].read[i]) /\ r \in Nat
            /\ Cardinality(scan[s].read[i] \cup {policy[k]}) = r + 1
        BY <2>0, <4>1, Sizes, FS_AddElement
      <4> QED
        BY <2>0, <4>2, <4>3, PolicyFacts, FS_Subset
    <3>2. Cardinality(Pending(s) \cap Naming(m)) \in Nat
      <4>1. Pending(s) \in SUBSET Places
        BY <2>0 DEF Pending, Typed, Locals
      <4> QED
        BY <2>0, <4>1, Sizes
    <3>3. announced[i][m] + Cardinality(Pending(s) \cap Naming(m)) <= N * (r + 1 + faults)
      BY <2>0, <2>4 DEF Owed
    <3>4. N * (r + 1 + faults) \in Nat
      BY <2>1, <3>1, OneMore
    <3>5. announced[i][m] <= N * (r + 1 + faults)
      BY <2>1, <3>2, <3>3, <3>4
    <3> QED
      BY <2>1, <2>2, <3>1, <3>5
  <2> QED
    BY <2>3, <2>4
<1> QED
  BY <1>1, InvHolds, PTL

\* However scans overlap and overwrite each other's lists: once the list of an
\* incident, and every copy of it a scan has read, name n thresholds, no list
\* there will ever be names fewer.
AtLeast(n, i) ==
    /\ Cardinality(sent[i]) >= n
    /\ \A s \in Busy : Cardinality(scan[s].read[i]) >= n

THEOREM ListsNeverShorten ==
    ASSUME NEW n \in Nat, NEW i \in Incidents
    PROVE  Spec => [][AtLeast(n, i) => AtLeast(n, i)']_vars
<1>1. ASSUME Base, [Next]_vars, AtLeast(n, i) PROVE AtLeast(n, i)'
  <2> USE DEF Base
  <2>1. ASSUME NEW s \in Scans, Begin(s) PROVE AtLeast(n, i)'
    <3>1. sent' = sent /\ scan'[s].read = sent /\ \A t \in Scans \ {s} : scan'[t] = scan[t]
      BY <1>1, <2>1, BeginFields DEF Begin
    <3> QED
      BY <1>1, <3>1 DEF AtLeast, Busy
  <2>2. ASSUME NEW s \in Scans, End(s) \/ Abort(s) PROVE AtLeast(n, i)'
    <3>1. /\ sent' = sent /\ scan'[s].step = "idle"
          /\ \A t \in Scans \ {s} : scan'[t] = scan[t]
      BY <1>1, <2>2 DEF End, Abort, NoScan, Typed
    <3> QED
      BY <1>1, <3>1 DEF AtLeast, Busy
  <2>3. ASSUME NEW s \in Scans, NEW j \in Incidents, Take(s, j) \/ Alert(s, j)
        PROVE  AtLeast(n, i)'
    <3>1. /\ sent' = sent /\ scan'[s].read = scan[s].read /\ s \in Busy
          /\ \A t \in Scans \ {s} : scan'[t] = scan[t]
      BY <1>1, <2>3, TakeFields, AlertFields DEF Take, Alert, Busy
    <3> QED
      BY <1>1, <3>1 DEF AtLeast, Busy
  <2>4. ASSUME NEW s \in Scans, NEW j \in Incidents, Record(s, j) PROVE AtLeast(n, i)'
    <3> DEFINE x == policy[Min(scan[s].todo)]
    <3>1. /\ scan'[s].read = scan[s].read /\ s \in Busy
          /\ \A t \in Scans \ {s} : scan'[t] = scan[t]
          /\ sent' = [sent EXCEPT ![j] = scan[s].read[j] \cup {x}]
      BY <1>1, <2>4, RecordFields DEF Record, Busy
    <3> HIDE DEF x
    <3>2. Cardinality(sent'[i]) >= n
      <4>1. CASE j # i
        BY <1>1, <3>1, <4>1 DEF AtLeast, Typed
      <4>2. CASE j = i
        <5>1. /\ IsFiniteSet(scan[s].read[i]) /\ Cardinality(scan[s].read[i]) \in Nat
              /\ Cardinality(scan[s].read[i]) >= n
          BY <1>1, <3>1, Sizes DEF AtLeast
        <5>2. sent'[i] = scan[s].read[i] \cup {x}
          BY <1>1, <3>1, <4>2 DEF Typed
        <5>3. Cardinality(sent'[i]) \in {Cardinality(scan[s].read[i]), Cardinality(scan[s].read[i]) + 1}
          BY <5>1, <5>2, FS_AddElement
        <5> QED
          BY <5>1, <5>3
      <4> QED
        BY <4>1, <4>2
    <3> QED
      BY <1>1, <3>1, <3>2 DEF AtLeast, Busy
  <2>5. CASE Minute \/ (\E j \in Incidents : Resolve(j)) \/ UNCHANGED vars
    <3>1. sent' = sent /\ scan' = scan
      BY <2>5 DEF Minute, Resolve, vars
    <3> QED
      BY <1>1, <3>1 DEF AtLeast, Busy
  <2> QED
    BY <1>1, <2>1, <2>2, <2>3, <2>4, <2>5 DEF Next, escalationScan
<1> QED
  BY <1>1, ScansAreTyped, PTL DEF Spec

=============================================================================
