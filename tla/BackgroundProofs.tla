----------------------------- MODULE BackgroundProofs -----------------------------
(***************************************************************************)
(* Proofs about the loops beside the requests, for every set of requests,  *)
(* every change log and configuration.  Each invariant is about one task;  *)
(* the steps of the others leave its variables alone.                      *)
(***************************************************************************)
EXTENDS Background, FiniteSetTheorems, WellFoundedInduction, TLAPS

--------------------------------------------------------------------------------
(* The performance monitor.                                                *)

\* How often a record was reported, or will be without being copied again, and
\* whether it is still there to be copied.
Due(r) == reports[r] + (IF r \in copied \cap complete THEN 1 ELSE 0)
Chances(r) == Due(r) + (IF r \in records THEN 1 ELSE 0)

\* Records are those of requests that run, or that returned and were not yet
\* dropped; what was reported is complete; and the chances of a record to be
\* reported are two only if it was caught in the copy.
MonitorInv ==
  /\ running \subseteq Requests /\ records \subseteq Requests
  /\ running \subseteq records
  /\ running \cap complete = {}
  /\ records \subseteq running \cup complete
  /\ reporting # "grouping" => copied = {}
  /\ reports \in [Requests -> Nat]
  /\ \A r \in Requests : r \notin complete => reports[r] = 0
  /\ \A r \in Requests : Chances(r) <= IF r \in caught THEN 2 ELSE 1

LEMMA MonitorInvHolds == Spec => []MonitorInv
<1>1. Init => MonitorInv
  BY DEF Init, MonitorInit, MonitorInv, Chances, Due
<1>2. MonitorInv /\ [Next]_vars => MonitorInv'
  <2> SUFFICES ASSUME MonitorInv, [Next]_vars PROVE MonitorInv'
    OBVIOUS
  <2> USE DEF MonitorInv, Chances, Due, monitored, reported
  <2>1. ASSUME NEW r \in Requests, StartRecord(r) PROVE MonitorInv'
    BY <2>1 DEF StartRecord
  <2>2. ASSUME NEW r \in Requests, CompleteRecord(r) PROVE MonitorInv'
    BY <2>2 DEF CompleteRecord
  <2>3. CASE CopyRecords
    BY <2>3 DEF CopyRecords, Copy
  <2>4. ASSUME NEW r \in Requests, ReportRecord(r) PROVE MonitorInv'
    BY <2>4 DEF ReportRecord
  <2>5. ASSUME NEW r \in Requests, TakeFinish(r) PROVE MonitorInv'
    BY <2>5 DEF TakeFinish
  <2>6. CASE CountRequests \/ LogReport \/ PassMoment
    BY <2>6 DEF CountRequests, LogReport, PassMoment
  <2>7. CASE UNCHANGED monitorVars
    BY <2>7 DEF monitorVars
  <2>8. QED
    BY <2>1, <2>2, <2>3, <2>4, <2>5, <2>6, <2>7
    DEF Next, Monitor, Log, Parser, Configuration, Endpoints, MonitorNext, vars
<1>3. QED
  BY <1>1, <1>2, PTL DEF Spec

\* A request is reported twice only if it returned between copy and report.
THEOREM ReportedOnce == Spec => []TwiceOnlyIfCaught
<1>1. MonitorInv => TwiceOnlyIfCaught
  <2> SUFFICES ASSUME MonitorInv, NEW r \in Requests
               PROVE  reports[r] <= IF r \in caught THEN 2 ELSE 1
    BY DEF TwiceOnlyIfCaught
  <2>1. reports[r] \in Nat /\ Chances(r) <= IF r \in caught THEN 2 ELSE 1
    BY DEF MonitorInv
  <2>2. reports[r] <= Chances(r)
    BY <2>1 DEF Chances, Due
  <2>3. Chances(r) \in Nat
    BY <2>1 DEF Chances, Due
  <2>4. QED
    BY <2>1, <2>2, <2>3
<1>2. QED
  BY <1>1, MonitorInvHolds, PTL

\* Every request that returned finds its record, and a record without its report is
\* still in the map, or in the part of the copy that the report has not looked at.
ReportInv ==
  /\ lost = {}
  /\ \A r \in complete : reports[r] > 0 \/ r \in records \cup copied

\* No record is lost between the copy and the map: the copy takes what it drops, and a
\* request that returns meanwhile finds its record in the map or in the copy.
THEOREM NoRecordIsLost == Spec => []ReportInv
<1>1. Init => ReportInv
  BY DEF Init, MonitorInit, ReportInv
<1>2. MonitorInv /\ ReportInv /\ [Next]_vars => ReportInv'
  <2> SUFFICES ASSUME MonitorInv, ReportInv, [Next]_vars PROVE ReportInv'
    OBVIOUS
  <2> USE DEF MonitorInv, ReportInv, monitored, reported
  <2>1. ASSUME NEW r \in Requests, StartRecord(r) PROVE ReportInv'
    BY <2>1 DEF StartRecord
  <2>2. ASSUME NEW r \in Requests, CompleteRecord(r) PROVE ReportInv'
    <3>1. r \in records \ complete
      BY <2>2 DEF CompleteRecord
    <3>2. QED
      BY <2>2, <3>1 DEF CompleteRecord
  <2>3. CASE CopyRecords
    BY <2>3 DEF CopyRecords, Copy
  <2>4. ASSUME NEW r \in Requests, ReportRecord(r) PROVE ReportInv'
    <3>1. \A q \in complete : reports'[q] > 0 \/ q \in records \cup copied'
      <4> SUFFICES ASSUME NEW q \in complete
                   PROVE  reports'[q] > 0 \/ q \in records \cup copied'
        OBVIOUS
      <4>1. CASE q = r
        BY <2>4, <4>1 DEF ReportRecord
      <4>2. CASE q # r
        BY <2>4, <4>2 DEF ReportRecord
      <4>3. QED
        BY <4>1, <4>2
    <3>2. QED
      BY <2>4, <3>1 DEF ReportRecord
  <2>5. ASSUME NEW r \in Requests, TakeFinish(r) PROVE ReportInv'
    BY <2>5 DEF TakeFinish
  <2>6. CASE CountRequests \/ LogReport \/ PassMoment
    BY <2>6 DEF CountRequests, LogReport, PassMoment
  <2>7. CASE UNCHANGED monitorVars
    BY <2>7 DEF monitorVars
  <2>8. QED
    BY <2>1, <2>2, <2>3, <2>4, <2>5, <2>6, <2>7
    DEF Next, Monitor, Log, Parser, Configuration, Endpoints, MonitorNext, vars
<1>3. QED
  BY <1>1, <1>2, MonitorInvHolds, PTL DEF Spec

\* A set of numbers that is bounded has a greatest.
LEMMA GreatestOf ==
  ASSUME NEW S \in SUBSET Nat, S # {}, NEW b \in Nat, \A x \in S : x <= b
  PROVE  \E m \in S : \A x \in S : x <= m
<1> DEFINE Less == {p \in Nat \X Nat : p[1] < p[2]}
           T == {b - x : x \in S}
<1>1. IsWellFoundedOn(Less, Nat)
  BY NatLessThanWellFounded DEF OpToRel
<1>2. T \subseteq Nat /\ T # {}
  <2>1. ASSUME NEW x \in S PROVE b - x \in Nat
    <3>1. x \in Nat /\ x <= b
      OBVIOUS
    <3>2. QED
      BY <3>1
  <2>2. QED
    BY <2>1
<1>3. PICK y \in T : \A z \in T : <<z, y>> \notin Less
  <2> HIDE DEF T, Less
  <2>1. QED
    BY <1>1, <1>2, WFMin
<1>4. \A z \in T : y <= z
  <2>1. ASSUME NEW z \in T PROVE ~(z < y)
    <3>1. <<z, y>> \in Nat \X Nat /\ <<z, y>> \notin Less
      BY <1>2, <1>3
    <3>2. QED
      BY <3>1
  <2>2. \A z \in T : z \in Nat /\ y \in Nat
    BY <1>2
  <2> HIDE DEF T
  <2>3. QED
    BY <2>1, <2>2
<1>5. PICK m \in S : y = b - m
  OBVIOUS
<1>6. \A x \in S : b - m <= b - x
  BY <1>4, <1>5
<1>7. QED
  BY <1>6

\* Records of a map that were served at a time, whose finish is not known to be
\* before it, and whose finish is not known to be before it or then.
ServedAt(t, s) == {q \in s : start[q] <= t /\ (finish[q] = 0 \/ t <= finish[q])}
During(t, s) == {q \in s : start[q] <= t /\ ~(q \in complete /\ finish[q] < t)}
OpenAt(t, s) == {q \in s : start[q] <= t /\ ~(q \in complete /\ finish[q] <= t)}

\* The history is no greater than what was served at some time, and no less than
\* what was open when some request started, among the records of a map.
Within(n, s) ==
  /\ n \in [served : Nat, open : Nat]
  /\ \E t \in 0..clock : n.served <= Cardinality(ServedAt(t, s))
  /\ \A r \in s : Cardinality(OpenAt(start[r], s)) <= n.open

Timed(s) ==
  \A r \in s :
    /\ r \in running \cup complete
    /\ 1 <= start[r] /\ start[r] <= clock
    /\ finish[r] = 0 \/ (start[r] <= finish[r] /\ finish[r] <= clock)
    /\ r \in complete => finish[r] # 0

MaxInv ==
  /\ clock \in Nat \ {0}
  /\ start \in [Requests -> Nat] /\ finish \in [Requests -> Nat]
  /\ reporting \in {"sleeping", "grouping", "logging"}
  /\ inReport \subseteq Requests
  /\ \A r \in Requests : r \notin running \cup complete => finish[r] = 0
  /\ lost = {}
  /\ Timed(records) /\ Timed(inReport)
  /\ Within(most, records)
  /\ reporting = "grouping" => Within(span, inReport)
  /\ MaxAsReported

LEMMA Counted ==
  ASSUME NEW s \in SUBSET Requests
  PROVE  IsFiniteSet(s) /\ Cardinality(s) \in Nat
BY MonitorAssumption, FS_Subset, FS_CardinalityType

LEMMA NoMore ==
  ASSUME NEW s \in SUBSET Requests, NEW t \in SUBSET s
  PROVE  Cardinality(t) <= Cardinality(s)
BY Counted, FS_Subset

\* What is counted at a time is what went on then.
LEMMA CountIsDuring ==
  ASSUME MaxInv, NEW t \in Nat
  PROVE  CountAt(t) = Cardinality(During(t, inReport))
<1> DEFINE A == {r \in inReport : start[r] <= t}
           B == {r \in inReport \cap complete : finish[r] < t}
<1>1. A \cap B = B
  <2>1. ASSUME NEW r \in B PROVE start[r] <= t
    <3>1. r \in inReport /\ r \in Requests /\ start[r] \in Nat /\ finish[r] \in Nat
          /\ finish[r] < t /\ start[r] <= finish[r]
      BY DEF MaxInv, Timed
    <3>2. QED
      BY <3>1
  <2>2. QED
    BY <2>1
<1>2. During(t, inReport) = A \ B
  BY DEF During
<1>3. IsFiniteSet(A) /\ IsFiniteSet(B)
  BY Counted DEF MaxInv
<1>4. CountAt(t) = Cardinality(A) - Cardinality(B)
  BY DEF CountAt
<1>5. QED
  <2> HIDE DEF A, B
  <2>1. QED
    BY <1>1, <1>2, <1>3, <1>4, FS_Difference

\* A step that leaves the records of a map their start, lets them be complete once
\* and for all, and takes finishes no earlier than now, leaves the history within.
LEMMA StaysWithin ==
  ASSUME NEW n, NEW s \in SUBSET Requests, Within(n, s),
         start \in [Requests -> Nat], finish \in [Requests -> Nat],
         start' \in [Requests -> Nat], finish' \in [Requests -> Nat],
         clock \in Nat, clock' \in Nat, clock <= clock',
         \A r \in s : /\ start'[r] = start[r]
                      /\ finish'[r] = finish[r] \/ (finish[r] = 0 /\ clock <= finish'[r])
                      /\ r \in complete => r \in complete' /\ finish'[r] = finish[r]
  PROVE  Within(n, s)'
<1>1. PICK t \in 0..clock : n.served <= Cardinality(ServedAt(t, s))
  BY DEF Within
<1>2. t \in 0..clock' /\ t \in Nat
  OBVIOUS
<1>3. n.served <= Cardinality(ServedAt(t, s)')
  <2>1. ServedAt(t, s) \subseteq ServedAt(t, s)' /\ ServedAt(t, s)' \subseteq s
    BY <1>2 DEF ServedAt
  <2>2. /\ Cardinality(ServedAt(t, s)) \in Nat /\ Cardinality(ServedAt(t, s)') \in Nat
        /\ Cardinality(ServedAt(t, s)) <= Cardinality(ServedAt(t, s)')
    BY <2>1, Counted, NoMore
  <2>3. n.served \in Nat
    BY DEF Within
  <2>4. QED
    BY <1>1, <2>2, <2>3
<1>4. ASSUME NEW r \in s PROVE Cardinality(OpenAt(start[r], s)') <= n.open
  <2>1. OpenAt(start[r], s)' \subseteq OpenAt(start[r], s) /\ OpenAt(start[r], s) \subseteq s
    BY DEF OpenAt
  <2>2. /\ Cardinality(OpenAt(start[r], s)) \in Nat /\ Cardinality(OpenAt(start[r], s)') \in Nat
        /\ Cardinality(OpenAt(start[r], s)') <= Cardinality(OpenAt(start[r], s))
    BY <2>1, Counted, NoMore
  <2>3. n.open \in Nat /\ Cardinality(OpenAt(start[r], s)) <= n.open
    BY DEF Within
  <2>4. QED
    BY <2>2, <2>3
<1>5. n \in [served : Nat, open : Nat]
  BY DEF Within
<1>6. QED
  BY <1>2, <1>3, <1>4, <1>5 DEF Within

\* A start is counted among those that are served, and among those that are open.
LEMMA MaxStarted ==
  ASSUME MonitorInv, MaxInv, NEW r \in Requests, StartRecord(r)
  PROVE  MaxInv'
<1> USE DEF monitored, reported
<1>1. /\ r \notin running \cup complete \cup lost /\ r \notin records /\ r \notin inReport
      /\ finish[r] = 0 /\ finish' = finish /\ complete' = complete /\ clock' = clock
      /\ running' = running \cup {r} /\ records' = records \cup {r}
      /\ start' = [start EXCEPT ![r] = clock] /\ start'[r] = clock
      /\ \A q \in Requests \ {r} : start'[q] = start[q]
      /\ start' \in [Requests -> Nat]
      /\ UNCHANGED <<lost, reported>>
  BY DEF StartRecord, MaxInv, MonitorInv, Timed
<1>2. Timed(records)' /\ Timed(inReport)'
  BY <1>1 DEF MaxInv, MonitorInv, Timed
<1>3. reporting' = "grouping" => Within(span, inReport)'
  <2> SUFFICES ASSUME reporting = "grouping" PROVE Within(span, inReport)'
    BY <1>1
  <2>1. PICK n, s : n = span /\ s = inReport
    OBVIOUS
  <2>2. Within(n, s) /\ s \in SUBSET Requests
    BY <2>1 DEF MaxInv
  <2>3. Within(n, s)'
    BY <1>1, <2>1, <2>2, StaysWithin DEF MaxInv
  <2>4. n = span' /\ s = inReport'
    BY <1>1, <2>1
  <2>5. QED
    BY <2>3, <2>4 DEF Within, ServedAt, OpenAt
<1>4. Within(most, records)'
  <2> DEFINE now == AtOnce(Served \cup {r}, running \cup {r})
  <2>1. /\ Served \cup {r} \subseteq Requests /\ running \cup {r} \subseteq Requests
        /\ records' \subseteq Requests
    BY <1>1 DEF Served, MonitorInv
  <2>2. now.served \in Nat /\ now.open \in Nat
        /\ now.served = Cardinality(Served \cup {r}) /\ now.open = Cardinality(running \cup {r})
    BY <2>1, Counted DEF AtOnce
  <2>3. most.served \in Nat /\ most.open \in Nat
    BY DEF MaxInv, Within
  <2>4. most' = [served |-> Greater(most.served, now.served),
                 open |-> Greater(most.open, now.open)]
    BY DEF StartRecord
  <2> HIDE DEF now
  <2>5. /\ most' \in [served : Nat, open : Nat]
        /\ most'.served = most.served \/ most'.served = now.served
        /\ most'.open >= most.open /\ most'.open >= now.open
    BY <2>2, <2>3, <2>4 DEF Greater
  <2>6. \E t \in 0..clock' : most'.served <= Cardinality(ServedAt(t, records)')
    <3>1. CASE most'.served = most.served
      <4>1. PICK t \in 0..clock : most.served <= Cardinality(ServedAt(t, records))
        BY DEF MaxInv, Within
      <4>2. ServedAt(t, records) \subseteq ServedAt(t, records)'
        BY <1>1 DEF ServedAt, MonitorInv
      <4>3. ServedAt(t, records)' \subseteq Requests
        BY <2>1 DEF ServedAt
      <4>4. /\ Cardinality(ServedAt(t, records)) <= Cardinality(ServedAt(t, records)')
            /\ Cardinality(ServedAt(t, records)) \in Nat
            /\ Cardinality(ServedAt(t, records)') \in Nat
        BY <4>2, <4>3, NoMore, Counted
      <4>5. most'.served <= Cardinality(ServedAt(t, records)')
        BY <2>3, <3>1, <4>1, <4>4
      <4>6. QED
        BY <1>1, <4>5
    <3>2. CASE most'.served = now.served
      <4>1. Served \cup {r} \subseteq ServedAt(clock, records)'
        BY <1>1 DEF Served, ServedAt, MaxInv, MonitorInv, Timed
      <4>2. ServedAt(clock, records)' \subseteq Requests
        BY <2>1 DEF ServedAt
      <4>3. now.served <= Cardinality(ServedAt(clock, records)')
        BY <2>2, <4>1, <4>2, NoMore
      <4>4. PICK t \in 0..clock' : t = clock'
        BY <1>1 DEF MaxInv
      <4>5. ServedAt(clock, records)' = ServedAt(t, records)'
        BY <4>4 DEF ServedAt
      <4>6. QED
        BY <3>2, <4>3, <4>5
    <3>3. QED
      BY <2>5, <3>1, <3>2
  <2>7. ASSUME NEW q \in records' PROVE Cardinality(OpenAt(start[q], records)') <= most'.open
    <3>1. CASE start'[q] = clock
      <4>1. OpenAt(start[q], records)' \subseteq running \cup {r}
        BY <1>1, <3>1 DEF OpenAt, MaxInv, MonitorInv, Timed
      <4>2. /\ Cardinality(OpenAt(start[q], records)') <= now.open
            /\ Cardinality(OpenAt(start[q], records)') \in Nat
        BY <2>1, <2>2, <4>1, NoMore, Counted
      <4>3. QED
        BY <2>2, <2>5, <4>2
    <3>2. CASE start'[q] # clock
      <4>1. q \in records /\ start'[q] = start[q] /\ start[q] < clock
        BY <1>1, <3>2 DEF MaxInv, MonitorInv, Timed
      <4>2. OpenAt(start[q], records)' \subseteq OpenAt(start[q], records)
        BY <1>1, <4>1 DEF OpenAt, MaxInv, MonitorInv
      <4>3. OpenAt(start[q], records) \subseteq Requests
        BY DEF OpenAt, MonitorInv
      <4>4. /\ Cardinality(OpenAt(start[q], records)') <= Cardinality(OpenAt(start[q], records))
            /\ Cardinality(OpenAt(start[q], records)') \in Nat
            /\ Cardinality(OpenAt(start[q], records)) \in Nat
        BY <4>2, <4>3, NoMore, Counted
      <4>5. Cardinality(OpenAt(start[q], records)) <= most.open
        BY <4>1 DEF MaxInv, Within
      <4>6. most'.open \in Nat
        BY <2>5
      <4>7. QED
        BY <2>3, <2>5, <4>4, <4>5, <4>6
    <3>3. QED
      BY <3>1, <3>2
  <2>8. QED
    BY <2>5, <2>6, <2>7 DEF Within
<1>5. MaxAsReported'
  BY <1>1 DEF MaxInv, MaxAsReported
<1>6. QED
  BY <1>1, <1>2, <1>3, <1>4, <1>5 DEF MaxInv

\* What a request or the report does beside starting, copying and counting takes
\* nothing from the histories.
LEMMA MaxKept ==
  ASSUME MonitorInv, MonitorInv', MaxInv,
         UNCHANGED <<records, most>>,
         clock \in Nat, clock' \in Nat, clock <= clock',
         start' \in [Requests -> Nat], finish' \in [Requests -> Nat],
         \A r \in records \cup inReport' :
            /\ start'[r] = start[r]
            /\ finish'[r] = finish[r]
               \/ (finish[r] = 0 /\ r \notin complete' /\ finish'[r] = clock)
            /\ r \in complete => r \in complete' /\ finish'[r] = finish[r]
            /\ r \in complete' => finish'[r] # 0,
         running \cup complete \subseteq running' \cup complete',
         \A r \in Requests : r \notin running' \cup complete' => finish'[r] = 0,
         lost' = {},
         reporting' \in {"sleeping", "grouping", "logging"},
         inReport' \subseteq inReport,
         reporting' = "grouping" =>
            reporting = "grouping" /\ UNCHANGED <<span, inReport>>,
         reporting' = "logging" =>
            reporting = "logging" /\ UNCHANGED <<span, inReport, maxReqCount>>
  PROVE  MaxInv'
<1>1. Timed(records)' /\ Timed(inReport)'
  BY DEF MaxInv, Timed, MonitorInv
<1>2. Within(most, records)'
  <2>1. PICK n, s : n = most /\ s = records
    OBVIOUS
  <2>2. Within(n, s) /\ s \in SUBSET Requests
    BY <2>1 DEF MaxInv, MonitorInv
  <2>3. Within(n, s)'
    BY <2>1, <2>2, StaysWithin DEF MaxInv
  <2>4. n = most' /\ s = records'
    BY <2>1
  <2>5. QED
    BY <2>3, <2>4 DEF Within, ServedAt, OpenAt
<1>3. reporting' = "grouping" => Within(span, inReport)'
  <2> SUFFICES ASSUME reporting' = "grouping" PROVE Within(span, inReport)'
    OBVIOUS
  <2>1. PICK n, s : n = span /\ s = inReport
    OBVIOUS
  <2>2. Within(n, s) /\ s \in SUBSET Requests
    BY <2>1 DEF MaxInv
  <2>3. Within(n, s)'
    BY <2>1, <2>2, StaysWithin DEF MaxInv
  <2>4. n = span' /\ s = inReport'
    BY <2>1
  <2>5. QED
    BY <2>3, <2>4 DEF Within, ServedAt, OpenAt
<1>4. MaxAsReported'
  BY DEF MaxInv, MaxAsReported
<1>5. QED
  BY <1>1, <1>2, <1>3, <1>4 DEF MaxInv

\* The histories begin anew with what is open when the map is copied.
LEMMA MaxCopied ==
  ASSUME MonitorInv, MaxInv, CopyRecords
  PROVE  MaxInv'
<1>1. /\ records' = records \ complete /\ records' = running /\ inReport' = records
      /\ span' = most /\ most' = AtOnce(Served, running) /\ reporting' = "grouping"
      /\ UNCHANGED <<clock, running, start, finish, complete, lost>>
  BY DEF CopyRecords, Copy, MonitorInv
<1>2. Timed(records)' /\ Timed(inReport)' /\ inReport' \subseteq Requests
  BY <1>1 DEF MaxInv, MonitorInv, Timed
<1>3. Within(span, inReport)'
  BY <1>1 DEF MaxInv, Within, ServedAt, OpenAt
<1>4. Within(most, records)'
  <2>1. running \subseteq Requests /\ Served \subseteq Requests
    BY DEF MonitorInv, Served
  <2>2. /\ most' \in [served : Nat, open : Nat]
        /\ most'.served = Cardinality(Served) /\ most'.open = Cardinality(running)
    BY <1>1, <2>1, Counted DEF AtOnce
  <2>3. PICK t \in 0..clock : t = clock
    BY DEF MaxInv
  <2>4. Served \subseteq ServedAt(t, records)' /\ ServedAt(t, records)' \subseteq Requests
    BY <1>1, <2>1, <2>3 DEF Served, ServedAt, MaxInv, MonitorInv, Timed
  <2>5. most'.served <= Cardinality(ServedAt(t, records)')
    BY <2>2, <2>4, NoMore
  <2>6. ASSUME NEW r \in records' PROVE Cardinality(OpenAt(start[r], records)') <= most'.open
    <3>1. OpenAt(start[r], records)' \subseteq running
      BY <1>1 DEF OpenAt
    <3>2. QED
      BY <2>1, <2>2, <3>1, NoMore
  <2>7. t \in 0..clock'
    BY <1>1
  <2>8. QED
    BY <2>2, <2>5, <2>6, <2>7 DEF Within
<1>5. MaxAsReported'
  BY <1>1 DEF MaxAsReported
<1>6. QED
  BY <1>1, <1>2, <1>3, <1>4, <1>5 DEF MaxInv

\* The greatest of the counts lies within the history.
LEMMA MaxCounted ==
  ASSUME MonitorInv, MaxInv, CountRequests
  PROVE  MaxInv'
<1> DEFINE counts == {CountAt(start[r]) : r \in inReport} \cup {0}
<1>1. /\ reporting = "grouping" /\ reporting' = "logging"
      /\ maxReqCount' = CHOOSE n \in counts : \A m \in counts : m <= n
      /\ UNCHANGED <<clock, monitored, inReport, copied, reports, span>>
      /\ UNCHANGED <<running, records, start, finish, complete, lost, most>>
  BY DEF CountRequests, monitored
<1>2. ASSUME NEW t \in Nat
      PROVE  /\ CountAt(t) = Cardinality(During(t, inReport)) /\ CountAt(t) \in Nat
             /\ CountAt(t) <= Cardinality(inReport)
  <2>1. During(t, inReport) \subseteq inReport /\ inReport \subseteq Requests
    BY DEF During, MaxInv
  <2>2. QED
    BY <2>1, CountIsDuring, Counted, NoMore
<1>3. \A r \in inReport : start[r] \in Nat
  BY DEF MaxInv
<1>4. maxReqCount' \in counts /\ \A m \in counts : m <= maxReqCount'
  <2>1. counts \in SUBSET Nat /\ counts # {} /\ Cardinality(inReport) \in Nat
        /\ \A x \in counts : x <= Cardinality(inReport)
    BY <1>2, <1>3, Counted DEF MaxInv
  <2> HIDE DEF counts
  <2>2. \E m \in counts : \A x \in counts : x <= m
    BY <2>1, GreatestOf
  <2>3. QED
    BY <1>1, <2>2
<1>5. Within(span, inReport) /\ span.served \in Nat /\ span.open \in Nat
  BY <1>1 DEF MaxInv, Within
<1>6. span.served <= maxReqCount'
  <2>1. PICK t \in 0..clock : span.served <= Cardinality(ServedAt(t, inReport))
    BY <1>5 DEF Within
  <2>2. t \in Nat /\ maxReqCount' \in Nat
    BY <1>2, <1>3, <1>4 DEF MaxInv
  <2>3. CASE ServedAt(t, inReport) = {}
    <3>1. Cardinality(ServedAt(t, inReport)) = 0
      BY <2>3, FS_EmptySet
    <3>2. QED
      BY <1>5, <2>1, <2>2, <3>1
  <2>4. CASE ServedAt(t, inReport) # {}
    <3> DEFINE P == ServedAt(t, inReport)
               starts == {start[q] : q \in P}
    <3>1. starts \in SUBSET Nat /\ starts # {} /\ \A x \in starts : x <= t
      BY <1>3, <2>4 DEF ServedAt
    <3>2. \E m \in starts : \A x \in starts : x <= m
      <4> HIDE DEF starts
      <4>1. QED
        BY <2>2, <3>1, GreatestOf
    <3>3. PICK r \in P : \A q \in P : start[q] <= start[r]
      BY <3>2
    <3>4. r \in inReport /\ start[r] \in Nat /\ start[r] <= t
      BY <1>3, <3>3 DEF ServedAt
    <3>5. P \subseteq During(start[r], inReport)
      <4>1. ASSUME NEW q \in P PROVE ~(q \in complete /\ finish[q] < start[r])
        <5>1. q \in inReport /\ finish[q] \in Nat /\ (finish[q] = 0 \/ t <= finish[q])
          BY DEF ServedAt, MaxInv
        <5>2. q \in complete => finish[q] # 0
          BY <5>1 DEF MaxInv, Timed
        <5>3. QED
          BY <2>2, <3>4, <5>1, <5>2
      <4>2. P \subseteq inReport
        BY DEF ServedAt
      <4> HIDE DEF P
      <4>3. QED
        BY <3>3, <4>1, <4>2 DEF During
    <3>6. During(start[r], inReport) \subseteq Requests
      BY DEF During, MaxInv
    <3>7. Cardinality(P) <= CountAt(start[r]) /\ Cardinality(P) \in Nat
      BY <1>2, <3>4, <3>5, <3>6, NoMore, Counted
    <3>8. CountAt(start[r]) <= maxReqCount'
      BY <1>4, <3>4
    <3>9. CountAt(start[r]) \in Nat
      BY <1>2, <3>4
    <3> HIDE DEF P
    <3>10. span.served <= Cardinality(P)
      BY <2>1 DEF P
    <3>11. QED
      BY <1>5, <2>2, <3>7, <3>8, <3>9, <3>10
  <2>5. QED
    BY <2>3, <2>4
<1>7. \/ maxReqCount' <= span.open
      \/ \E q, r \in inReport : q \in complete /\ finish[q] = start[r]
  <2> SUFFICES ASSUME \A q, r \in inReport : ~(q \in complete /\ finish[q] = start[r])
               PROVE  maxReqCount' <= span.open
    OBVIOUS
  <2>1. CASE maxReqCount' = 0
    BY <1>5, <2>1
  <2>2. ASSUME NEW r \in inReport, maxReqCount' = CountAt(start[r])
        PROVE  maxReqCount' <= span.open
    <3>1. During(start[r], inReport) = OpenAt(start[r], inReport)
      <4>1. ASSUME NEW q \in inReport, q \in complete
            PROVE  finish[q] < start[r] <=> finish[q] <= start[r]
        <5>1. finish[q] \in Nat /\ start[r] \in Nat /\ finish[q] # start[r]
          BY <4>1 DEF MaxInv
        <5>2. QED
          BY <5>1
      <4>2. QED
        BY <4>1 DEF During, OpenAt
    <3>2. Cardinality(OpenAt(start[r], inReport)) <= span.open
      BY <1>5 DEF Within
    <3>3. QED
      BY <1>2, <1>3, <2>2, <3>1, <3>2
  <2>3. QED
    BY <1>4, <2>1, <2>2
<1>8. MaxAsReported'
  BY <1>1, <1>6, <1>7 DEF MaxAsReported
<1>9. Timed(records)' /\ Timed(inReport)' /\ Within(most, records)'
  BY <1>1 DEF MaxInv, Timed, Within, ServedAt, OpenAt
<1>10. QED
  BY <1>1, <1>8, <1>9 DEF MaxInv

LEMMA MaxInvHolds == Spec => []MaxInv
<1>1. Init => MaxInv
  <2> SUFFICES ASSUME Init PROVE MaxInv
    OBVIOUS
  <2>1. /\ clock = 1 /\ running = {} /\ records = {} /\ complete = {} /\ lost = {}
        /\ start = [r \in Requests |-> 0] /\ finish = [r \in Requests |-> 0]
        /\ inReport = {} /\ reporting = "sleeping" /\ most = AtOnce({}, {})
    BY DEF Init, MonitorInit
  <2>2. most = [served |-> 0, open |-> 0]
    BY <2>1, FS_EmptySet DEF AtOnce
  <2>3. Within(most, records)
    <3>1. ServedAt(0, records) = {}
      BY <2>1 DEF ServedAt
    <3>2. 0 <= Cardinality(ServedAt(0, records)) /\ 0 \in 0..clock
      BY <2>1, <3>1, FS_EmptySet
    <3>3. QED
      BY <2>1, <2>2, <3>2 DEF Within
  <2>4. QED
    BY <2>1, <2>3 DEF MaxInv, MaxAsReported, Timed
<1>2. MonitorInv /\ MonitorInv' /\ MaxInv /\ [Next]_vars => MaxInv'
  <2> SUFFICES ASSUME MonitorInv, MonitorInv', MaxInv, [Next]_vars PROVE MaxInv'
    OBVIOUS
  <2> USE DEF monitored, reported
  <2>1. /\ clock \in Nat /\ start \in [Requests -> Nat] /\ finish \in [Requests -> Nat]
        /\ records \subseteq Requests /\ inReport \subseteq Requests
    BY DEF MaxInv, MonitorInv
  <2>2. ASSUME NEW r \in Requests, TakeFinish(r) PROVE MaxInv'
    <3>1. /\ finish[r] = 0 /\ r \in running /\ r \notin complete
          /\ finish' = [finish EXCEPT ![r] = clock] /\ clock # 0
          /\ UNCHANGED <<clock, running, records, start, complete, lost, most, reported>>
      BY <2>2 DEF TakeFinish, Served, MonitorInv, MaxInv
    <3>2. QED
      BY <2>1, <3>1, MaxKept DEF MaxInv, Timed
  <2>3. ASSUME NEW r \in Requests, CompleteRecord(r) PROVE MaxInv'
    <3>1. /\ r \in running /\ finish[r] # 0 /\ complete' = complete \cup {r}
          /\ running' = running \ {r}
          /\ UNCHANGED <<clock, records, start, finish, lost, most, reported>>
      BY <2>3 DEF CompleteRecord, Served, MonitorInv
    <3>2. QED
      BY <2>1, <3>1, MaxKept DEF MaxInv, Timed
  <2>4. ASSUME NEW r \in Requests, ReportRecord(r) PROVE MaxInv'
    BY <2>1, <2>4, MaxKept DEF ReportRecord, MaxInv, Timed
  <2>5. CASE LogReport
    <3>1. /\ reporting' = "sleeping" /\ inReport' = {}
          /\ start' = [r \in Requests |-> IF r \in records THEN start[r] ELSE 0]
          /\ finish' = [r \in Requests |-> IF r \in records THEN finish[r] ELSE 0]
          /\ UNCHANGED <<clock, running, records, complete, lost, most>>
      BY <2>5 DEF LogReport
    <3>2. QED
      BY <2>1, <3>1, MaxKept DEF MaxInv, Timed
  <2>6. CASE PassMoment
    BY <2>1, <2>6, MaxKept DEF PassMoment, MaxInv, Timed
  <2>7. CASE UNCHANGED monitorVars
    BY <2>1, <2>7, MaxKept DEF monitorVars, MaxInv, Timed
  <2>8. QED
    BY <2>2, <2>3, <2>4, <2>5, <2>6, <2>7, MaxStarted, MaxCopied, MaxCounted
    DEF Next, Monitor, Log, Parser, Configuration, Endpoints, MonitorNext, vars
<1>3. QED
  BY <1>1, <1>2, MonitorInvHolds, PTL DEF Spec

\* The greatest number of requests at a time is reported as it was, for any number
\* of requests and any clock.
THEOREM MaximumIsReported == Spec => []MaxAsReported
  BY MaxInvHolds, PTL DEF MaxInv

--------------------------------------------------------------------------------
(* The change log.                                                         *)

\* What is published is whole and no newer than what was fetched; while the loop
\* is not between the two publications they agree.
PublishInv ==
  /\ source \in Nat /\ fetched \in Nat /\ fetched <= source
  /\ changeLogs \in [version : Nat, files : {Links}]
  /\ urls \in [version : Nat, files : {Links}]
  /\ urls.version <= changeLogs.version
  /\ changeLogs.version <= fetched
  /\ refresh # "publishing" => urls = changeLogs

LEMMA PublishInvHolds == Spec => []PublishInv
<1>1. Init => PublishInv
  BY DEF Init, LogInit, Nowhere, PublishInv
<1>2. PublishInv /\ [Next]_vars => PublishInv'
  <2> SUFFICES ASSUME PublishInv, [Next]_vars PROVE PublishInv'
    OBVIOUS
  <2> USE DEF PublishInv
  <2>1. CASE NewVersion
    BY <2>1 DEF NewVersion
  <2>2. CASE FetchMain
    BY <2>2 DEF FetchMain
  <2>3. CASE FetchLinked \/ LinkedFails
    BY <2>3 DEF FetchLinked, LinkedFails
  <2>4. CASE PublishLogs
    BY <2>4 DEF PublishLogs
  <2>5. CASE PublishUrls
    BY <2>5 DEF PublishUrls
  <2>6. CASE UNCHANGED logVars
    BY <2>6 DEF logVars
  <2>7. QED
    BY <2>1, <2>2, <2>3, <2>4, <2>5, <2>6
    DEF Next, Monitor, Log, Parser, Configuration, Endpoints, LogNext, vars
<1>3. QED
  BY <1>1, <1>2, PTL DEF Spec

\* Requests never see the changes of a part of the files, and never addresses
\* newer than the changes.
THEOREM PublicationIsWhole == Spec => []PublishedWhole
<1>1. PublishInv => PublishedWhole
  BY DEF PublishInv, PublishedWhole
<1>2. QED
  BY <1>1, PublishInvHolds, PTL

\* The loop has noted the length of what it fetched last, and when it sleeps
\* that is published or was given up.
NotedInv ==
  /\ source \in 1..LastVersion
  /\ fetched = 0 => prevLen = 0
  /\ fetched # 0 => prevLen = Length[fetched] /\ fetched \in looked
  /\ refresh = "sleeping" => changeLogs.version = fetched \/ fetched \in given
  /\ refresh = "publishing" => changeLogs.version = fetched

\* A version is passed over only if its files were given up or another of its
\* length was fetched.
THEOREM MissedByLength == Spec => []MissedOnlyByLength
<1> USE ChangeLogAssumption DEF ChangeLogAssumption
<1>1. Init => NotedInv
  BY DEF Init, LogInit, Nowhere, NotedInv
<1>2. PublishInv /\ NotedInv /\ [Next]_vars => NotedInv'
  <2> SUFFICES ASSUME PublishInv, NotedInv, [Next]_vars PROVE NotedInv'
    OBVIOUS
  <2> USE DEF NotedInv
  <2>1. CASE NewVersion
    BY <2>1 DEF NewVersion
  <2>2. CASE FetchMain
    BY <2>2 DEF FetchMain
  <2>3. CASE FetchLinked \/ LinkedFails
    BY <2>3 DEF FetchLinked, LinkedFails
  <2>4. CASE PublishLogs
    BY <2>4 DEF PublishLogs
  <2>5. CASE PublishUrls
    BY <2>5 DEF PublishUrls
  <2>6. CASE UNCHANGED logVars
    BY <2>6 DEF logVars
  <2>7. QED
    BY <2>1, <2>2, <2>3, <2>4, <2>5, <2>6
    DEF Next, Monitor, Log, Parser, Configuration, Endpoints, LogNext, vars
<1>3. NotedInv => MissedOnlyByLength
  BY DEF NotedInv, MissedOnlyByLength
<1>4. QED
  BY <1>1, <1>2, <1>3, PublishInvHolds, PTL DEF Spec

--------------------------------------------------------------------------------
(* The dynamic configuration.                                              *)

\* The loop knows no time later than the file's; if it knows the file's own,
\* and the file was written once at that time, the configuration is the file's.
FollowInv ==
  /\ modified \in Nat \ {0} /\ modTime \in Nat /\ fileInfo \in Nat
  /\ modTime <= modified /\ fileInfo <= modified
  /\ modTime = modified => \/ away
                           \/ modified \in rewritten
                           \/ file # Partial /\ config = file

\* The configuration is what the file says, but for a file that was away or that
\* was written twice at one time.
THEOREM ConfigurationFollows == Spec => []ConfigFollows
<1>1. Init => FollowInv
  BY DEF Init, ConfigInit, FollowInv
<1>2. FollowInv /\ [Next]_vars => FollowInv'
  <2> SUFFICES ASSUME FollowInv, [Next]_vars PROVE FollowInv'
    OBVIOUS
  <2> USE DEF FollowInv, Untouched
  <2>1. CASE Write
    BY <2>1 DEF Write
  <2>2. CASE Complete \/ Move
    BY <2>2 DEF Complete, Move
  <2>3. CASE Stat
    BY <2>3 DEF Stat
  <2>4. CASE ReadFile
    BY <2>4 DEF ReadFile
  <2>5. CASE UNCHANGED configVars
    BY <2>5 DEF configVars
  <2>6. QED
    BY <2>1, <2>2, <2>3, <2>4, <2>5
    DEF Next, Monitor, Log, Parser, Configuration, Endpoints, ConfigNext, vars
<1>3. FollowInv => ConfigFollows
  BY DEF FollowInv, ConfigFollows
<1>4. QED
  BY <1>1, <1>2, <1>3, PTL DEF Spec

--------------------------------------------------------------------------------
(* The parser of the change log.                                           *)

\* The lines from m to n, none of which is of a kind.
Without(kind, m, n) == \A j \in m..n : lines[j] # kind

\* What the section of a fork has had of changes so far.
ItemsYet(f) == {i \in (f + 1)..at : \A j \in (f + 1)..i : lines[j] = "change"}

\* A version has the first fork behind its head, and the changes of that fork
\* that were taken; unless the section is being read, it has ended.
EntryOK(h) ==
  /\ h \in Heads /\ h <= at
  /\ parsed[h] \in [fork : Nat, changes : SUBSET Nat]
  /\ h < parsed[h].fork /\ parsed[h].fork <= at
  /\ lines[parsed[h].fork] = "fork"
  /\ Without("fork", h + 1, parsed[h].fork - 1)
  /\ parsed[h].changes = ItemsYet(parsed[h].fork)
  /\ \/ loop = "changes" /\ h = version
     \/ \E e \in (parsed[h].fork + 1)..at : lines[e] # "change"

ParserType ==
  /\ lines \in Seq(LineKinds)
  /\ at \in 0..Len(lines)
  /\ loop \in {"heads", "forks", "changes"}
  /\ parsed = [h \in DOMAIN parsed |-> parsed[h]]

\* The loops read for a head behind which no fork was seen yet, or for the
\* section of its fork, of which only changes were seen.
LoopOK ==
  /\ loop = "forks" => /\ version \in Heads /\ version <= at
                       /\ Without("fork", version + 1, at)
  /\ loop = "changes" => /\ version \in DOMAIN parsed
                         /\ \A j \in (parsed[version].fork + 1)..at : lines[j] = "change"

\* A head that was taken for another line comes behind an entry without a fork,
\* or one that ends with its fork.
HeadsOK ==
  \A h \in Heads : h <= at =>
    h \in DOMAIN parsed \/ (loop = "forks" /\ version = h) \/ ~Closed(h)

\* The last head that was taken, if any was.
LastHead ==
  \/ Without("head", 1, at)
  \/ \E p \in Heads : p <= at /\ Without("head", p + 1, at)

ParserInv ==
  /\ ParserType
  /\ LoopOK
  /\ \A h \in DOMAIN parsed : EntryOK(h)
  /\ HeadsOK
  /\ LastHead

\* Between the head of an entry that a head closes and that head there is a fork,
\* and a line behind it that is not one of its changes.
LEMMA ClosedEntry ==
  ASSUME ParserType, NEW h \in Heads, Closed(h),
         NEW p \in Heads, p < h, Without("head", p + 1, h - 1)
  PROVE  \E f, j \in Numbers :
           p < f /\ f < j /\ j < h /\ lines[f] = "fork" /\ lines[j] # "change"
<1>1. h \in Nat /\ p \in Nat /\ Len(lines) \in Nat /\ h <= Len(lines)
  BY DEF Heads, Numbers, ParserType
<1>2. h - 1 \in Entry(p) \cup {p}
  <2>1. CASE h - 1 = p
    BY <2>1
  <2>2. CASE h - 1 > p
    BY <2>2, <1>1 DEF Entry, Numbers, Without
  <2>3. QED
    BY <2>1, <2>2, <1>1
<1>3. PICK f \in Entry(p) : IsFork(p, f) /\ \E i \in Entry(p) : i > f /\ i \notin Items(f)
  BY <1>2 DEF Closed
<1>4. PICK i \in Entry(p) : i > f /\ i \notin Items(f)
  BY <1>3
<1>5. f \in Numbers /\ i \in Numbers /\ p < f /\ f < i /\ lines[f] = "fork"
  BY <1>3, <1>4, <1>1 DEF Entry, IsFork, Numbers
<1>6. i < h
  <2>1. ASSUME h <= i PROVE FALSE
    <3>1. h \in (p + 1)..i
      BY <2>1, <1>1, <1>5 DEF Numbers
    <3>2. lines[h] # "head"
      BY <3>1 DEF Entry
    <3>3. QED
      BY <3>2 DEF Heads
  <2>2. QED
    BY <2>1, <1>1, <1>5 DEF Numbers
<1>7. PICK j \in (f + 1)..i : lines[j] # "change"
  BY <1>4, <1>5, <1>1 DEF Items
<1>8. j \in Numbers /\ f < j /\ j < h
  BY <1>1, <1>5, <1>6, <1>7 DEF Numbers
<1>9. QED
  BY <1>5, <1>7, <1>8

\* A head that a loop takes for another line is not one that the entry before
\* lets it see.
LEMMA Swallowed ==
  ASSUME ParserInv, at < Len(lines), at + 1 \in Heads, loop # "heads"
  PROVE  ~Closed(at + 1)
<1> DEFINE h == at + 1
<1>1. /\ at \in Nat /\ Len(lines) \in Nat /\ h \in Nat /\ h - 1 = at
      /\ version \in Heads /\ version \in Nat /\ version <= at /\ version >= 1
      /\ lines[version] = "head"
  BY DEF ParserInv, ParserType, LoopOK, EntryOK, Heads, Numbers
<1>2. PICK p \in Heads : p <= at /\ Without("head", p + 1, at)
  BY <1>1 DEF ParserInv, LastHead, Without
<1>3. p \in Nat /\ p >= version
  BY <1>1, <1>2 DEF Without, Heads, Numbers
<1>4. SUFFICES ASSUME Closed(h) PROVE FALSE
  OBVIOUS
<1>5. PICK f, j \in Numbers :
        p < f /\ f < j /\ j < h /\ lines[f] = "fork" /\ lines[j] # "change"
  <2>1. p < h /\ Without("head", p + 1, h - 1)
    BY <1>1, <1>2, <1>3
  <2>2. ParserType /\ h \in Heads
    BY DEF ParserInv
  <2> HIDE DEF h
  <2>3. QED
    BY <2>1, <2>2, <1>4, ClosedEntry
<1>6. f \in Nat /\ j \in Nat /\ version < f /\ f < j /\ j <= at
  BY <1>1, <1>3, <1>5 DEF Numbers
<1>7. CASE loop = "forks"
  <2>1. Without("fork", version + 1, at)
    BY <1>7 DEF ParserInv, LoopOK
  <2>2. f \in (version + 1)..at
    BY <1>1, <1>6
  <2>3. QED
    BY <2>1, <2>2, <1>5 DEF Without
<1>8. CASE loop = "changes"
  <2> DEFINE F == parsed[version].fork
  <2>1. /\ EntryOK(version)
        /\ \A i \in (F + 1)..at : lines[i] = "change"
    BY <1>8 DEF ParserInv, LoopOK
  <2>2. F \in Nat /\ Without("fork", version + 1, F - 1)
    BY <2>1 DEF EntryOK
  <2> HIDE DEF F
  <2>3. j <= F
    <3>1. j \notin (F + 1)..at
      BY <2>1, <1>5
    <3>2. QED
      BY <3>1, <1>6, <1>1, <2>2
  <2>4. f \in (version + 1)..(F - 1)
    BY <2>3, <2>2, <1>6, <1>1
  <2>5. QED
    BY <2>2, <2>4, <1>5 DEF Without
<1>9. QED
  BY <1>7, <1>8 DEF ParserInv, ParserType

\* What a line more does not change: the last head is known, and so is an entry
\* whose section has ended.
LEMMA LineMore ==
  ASSUME ParserInv, at < Len(lines), at' = at + 1, lines' = lines
  PROVE  /\ at' \in 0..Len(lines') /\ lines' \in Seq(LineKinds)
         /\ LastHead'
         /\ \A h \in DOMAIN parsed :
              parsed'[h] = parsed[h]
              /\ (\E e \in (parsed[h].fork + 1)..at : lines[e] # "change")
              => EntryOK(h)'
<1>1. at \in Nat /\ Len(lines) \in Nat /\ at + 1 \in Nat /\ at + 1 <= Len(lines)
  BY DEF ParserInv, ParserType
<1>2. at' \in 0..Len(lines') /\ lines' \in Seq(LineKinds)
  BY <1>1 DEF ParserInv, ParserType
<1>3. LastHead'
  <2>1. CASE lines[at + 1] = "head"
    BY <2>1, <1>1 DEF LastHead, Without, Heads, Numbers
  <2>2. CASE lines[at + 1] # "head"
    <3>1. CASE Without("head", 1, at)
      BY <3>1, <2>2, <1>1 DEF LastHead, Without
    <3>2. CASE \E p \in Heads : p <= at /\ Without("head", p + 1, at)
      BY <3>2, <2>2, <1>1 DEF LastHead, Without, Heads, Numbers
    <3>3. QED
      BY <3>1, <3>2 DEF ParserInv, LastHead
  <2>3. QED
    BY <2>1, <2>2
<1>4. ASSUME NEW h \in DOMAIN parsed, parsed'[h] = parsed[h],
             NEW e \in (parsed[h].fork + 1)..at, lines[e] # "change"
      PROVE  EntryOK(h)'
  <2>1. EntryOK(h)
    BY DEF ParserInv
  <2>2. PICK f \in Nat : f = parsed[h].fork
    BY <2>1 DEF EntryOK
  <2>3. h \in Nat /\ f <= at /\ h \in Heads /\ h <= at
    BY <2>1, <2>2 DEF EntryOK, Heads, Numbers
  <2>4. (f + 1)..(at + 1) = ((f + 1)..at) \cup {at + 1}
    BY <2>3, <1>1
  <2>5. e \in (f + 1)..(at + 1) /\ e \in Nat
    BY <2>2, <2>4, <1>1, <1>4
  <2>6. ItemsYet(f)' = ItemsYet(f)
    <3>1. at + 1 \notin ItemsYet(f)'
      BY <2>5, <1>4 DEF ItemsYet
    <3>2. QED
      BY <3>1, <2>4 DEF ItemsYet
  <2>7. h \in Heads' /\ h <= at' /\ f <= at'
    BY <2>3, <1>1 DEF Heads, Numbers
  <2>8. Without("fork", h + 1, f - 1)'
    BY <2>1, <2>2 DEF EntryOK, Without
  <2>9. parsed'[h].fork = f /\ parsed'[h].changes = ItemsYet(f)' /\ h < f /\ lines'[f] = "fork"
        /\ parsed'[h] \in [fork : Nat, changes : SUBSET Nat]
    BY <2>1, <2>2, <2>6, <1>4 DEF EntryOK
  <2>10. \E i \in (f + 1)..at' : lines'[i] # "change"
    BY <2>5, <1>1, <1>4
  <2>11. QED
    BY <2>7, <2>8, <2>9, <2>10 DEF EntryOK
<1>5. QED
  BY <1>2, <1>3, <1>4

\* A line that is taken.
LEMMA LineTaken ==
  ASSUME ParserInv, ParserNext
  PROVE  ParserInv'
<1> USE DEF Take
<1>1. at < Len(lines) /\ at' = at + 1 /\ lines' = lines
  BY DEF ParserNext
<1>2. /\ at' \in 0..Len(lines') /\ lines' \in Seq(LineKinds) /\ LastHead'
      /\ \A h \in DOMAIN parsed :
           parsed'[h] = parsed[h]
           /\ (\E e \in (parsed[h].fork + 1)..at : lines[e] # "change")
           => EntryOK(h)'
  BY <1>1, LineMore
<1>3. at \in Nat /\ Len(lines) \in Nat /\ Heads' = Heads /\ at + 1 \in Numbers
  BY <1>1 DEF ParserInv, ParserType, Heads, Numbers
<1>4. \A h \in Heads : Closed(h)' = Closed(h)
  BY <1>1 DEF Closed, Entry, Items, IsFork, Heads, Numbers
<1>5. \A h \in Heads : h \in Nat /\ (h <= at' => h <= at \/ h = at + 1)
  BY <1>1, <1>3 DEF Heads, Numbers
<1>6. /\ parsed = [h \in DOMAIN parsed |-> parsed[h]]
      /\ \A h \in DOMAIN parsed : EntryOK(h)
  BY DEF ParserInv, ParserType
<1>7. CASE Take(TakeHead)
  <2>1. loop = "heads" /\ parsed' = parsed
    BY <1>7 DEF TakeHead
  <2>2. \A h \in DOMAIN parsed : EntryOK(h)'
    BY <2>1, <1>2, <1>6 DEF EntryOK
  <2>3. CASE lines[at + 1] = "head"
    <3>1. version' = at + 1 /\ loop' = "forks"
      BY <1>7, <2>3 DEF TakeHead
    <3>2. LoopOK'
      BY <3>1, <2>3, <1>1, <1>3 DEF LoopOK, Without, Heads
    <3>3. HeadsOK'
      BY <3>1, <2>1, <1>3, <1>4, <1>5 DEF ParserInv, HeadsOK
    <3>4. QED
      BY <3>1, <3>2, <3>3, <2>1, <2>2, <1>2 DEF ParserInv, ParserType
  <2>4. CASE lines[at + 1] # "head"
    <3>1. version' = version /\ loop' = loop
      BY <1>7, <2>4 DEF TakeHead
    <3>2. HeadsOK'
      BY <3>1, <2>1, <2>4, <1>3, <1>4, <1>5 DEF ParserInv, HeadsOK, Heads
    <3>3. QED
      BY <3>1, <3>2, <2>1, <2>2, <1>2 DEF ParserInv, ParserType, LoopOK
  <2>5. QED
    BY <2>3, <2>4
<1>8. CASE Take(TakeFork)
  <2>1. loop = "forks" /\ version' = version
    BY <1>8 DEF TakeFork
  <2>2. version \in Heads /\ version <= at /\ Without("fork", version + 1, at)
    BY <2>1 DEF ParserInv, LoopOK
  <2>3. CASE lines[at + 1] = "fork"
    <3>1. PICK v \in Heads : v = version
      BY <2>2
    <3>2. /\ loop' = "changes"
          /\ parsed' = [h \in DOMAIN parsed \cup {v} |->
                          IF h = v THEN [fork |-> at + 1, changes |-> {}] ELSE parsed[h]]
      BY <1>8, <2>3, <3>1 DEF TakeFork, Put
    <3>3. v \in Nat /\ v < at + 1 /\ v <= at'
      BY <2>2, <3>1, <1>1, <1>3, <1>5
    <3>4. PICK f \in Nat : f = at + 1
      BY <1>3
    <3>5. EntryOK(v)'
      <4>1. ItemsYet(f)' = {}
        BY <1>1, <1>3, <3>4 DEF ItemsYet
      <4>2. Without("fork", v + 1, f - 1)'
        <5>1. f - 1 = at
          BY <3>4, <1>3
        <5>2. QED
          BY <5>1, <2>2, <3>1, <1>1 DEF Without
      <4>3. /\ parsed'[v] = [fork |-> f, changes |-> {}] /\ parsed'[v].fork = f
            /\ parsed'[v].changes = {} /\ parsed'[v] \in [fork : Nat, changes : SUBSET Nat]
        BY <3>2, <3>4
      <4>4. lines'[f] = "fork" /\ f <= at' /\ v < f /\ v \in Heads'
        BY <3>3, <3>4, <2>3, <1>1, <1>3
      <4>5. QED
        BY <4>1, <4>2, <4>3, <4>4, <3>1, <3>2, <3>3, <2>1 DEF EntryOK
    <3>6. ASSUME NEW h \in DOMAIN parsed, h # v PROVE EntryOK(h)'
      BY <3>1, <3>2, <3>6, <2>1, <1>2, <1>6 DEF EntryOK
    <3>7. LoopOK'
      BY <3>1, <3>2, <2>1, <1>1, <1>3 DEF LoopOK
    <3>8. HeadsOK'
      BY <3>1, <3>2, <2>1, <2>3, <1>3, <1>4, <1>5 DEF ParserInv, HeadsOK, Heads
    <3>9. parsed' = [h \in DOMAIN parsed' |-> parsed'[h]] /\ DOMAIN parsed' = DOMAIN parsed \cup {v}
      BY <3>2
    <3>10. \A h \in DOMAIN parsed' : EntryOK(h)'
      BY <3>5, <3>6, <3>9
    <3>11. QED
      BY <3>2, <3>7, <3>8, <3>9, <3>10, <1>2 DEF ParserInv, ParserType
  <2>4. CASE lines[at + 1] # "fork"
    <3>1. parsed' = parsed /\ loop' = loop
      BY <1>8, <2>4 DEF TakeFork
    <3>2. \A h \in DOMAIN parsed : EntryOK(h)'
      BY <3>1, <2>1, <1>2, <1>6 DEF EntryOK
    <3>3. LoopOK'
      BY <3>1, <2>1, <2>2, <2>4, <1>1, <1>3, <1>5 DEF LoopOK, Without
    <3>4. HeadsOK'
      BY <3>1, <2>1, <1>1, <1>3, <1>4, <1>5, Swallowed DEF ParserInv, HeadsOK
    <3>5. QED
      BY <3>1, <3>2, <3>3, <3>4, <1>2 DEF ParserInv, ParserType
  <2>5. QED
    BY <2>3, <2>4
<1>9. CASE Take(TakeChange)
  <2>1. loop = "changes" /\ version' = version /\ version \in DOMAIN parsed
    BY <1>9 DEF TakeChange, ParserInv, LoopOK
  <2>2. PICK v \in DOMAIN parsed : v = version
    BY <2>1
  <2>3. EntryOK(v)
    BY <1>6
  <2>4. PICK F \in Nat : F = parsed[v].fork
    BY <2>3 DEF EntryOK
  <2>5. /\ v \in Heads /\ v \in Nat /\ v <= at /\ v < F /\ F <= at /\ lines[F] = "fork"
        /\ Without("fork", v + 1, F - 1) /\ parsed[v].changes = ItemsYet(F)
        /\ parsed[v] \in [fork : Nat, changes : SUBSET Nat]
    BY <2>3, <2>4, <1>5 DEF EntryOK
  <2>6. \A j \in (F + 1)..at : lines[j] = "change"
    BY <2>1, <2>2, <2>4 DEF ParserInv, LoopOK
  <2>7. v <= at' /\ F <= at' /\ v \in Heads' /\ lines'[F] = "fork"
    BY <2>5, <1>1, <1>3
  <2>8. Without("fork", v + 1, F - 1)'
    BY <2>5, <1>1 DEF Without
  <2>9. CASE lines[at + 1] = "change"
    <3>1. /\ loop' = loop
          /\ parsed' = [h \in DOMAIN parsed \cup {v} |->
               IF h = v THEN [parsed[v] EXCEPT !.changes = @ \cup {at + 1}] ELSE parsed[h]]
      BY <1>9, <2>2, <2>9 DEF TakeChange, Put
    <3>2. DOMAIN parsed' = DOMAIN parsed /\ parsed' = [h \in DOMAIN parsed' |-> parsed'[h]]
      BY <3>1
    <3>3. /\ parsed'[v].fork = F
          /\ parsed'[v].changes = parsed[v].changes \cup {at + 1}
          /\ parsed'[v] \in [fork : Nat, changes : SUBSET Nat]
      BY <3>1, <2>4, <2>5, <1>3
    <3>4. \A j \in (F + 1)..(at + 1) : lines[j] = "change"
      BY <2>5, <2>6, <2>9, <1>3
    <3>5. EntryOK(v)'
      <4>1. ItemsYet(F) = (F + 1)..at
        BY <2>5, <2>6, <1>3 DEF ItemsYet
      <4>2. parsed'[v].changes = (F + 1)..(at + 1)
        BY <4>1, <3>3, <2>5, <1>3
      <4>3. ItemsYet(F)' = (F + 1)..(at + 1)
        BY <3>4, <2>5, <1>1, <1>3 DEF ItemsYet
      <4>4. QED
        BY <4>2, <4>3, <3>1, <3>3, <2>1, <2>2, <2>5, <2>7, <2>8 DEF EntryOK
    <3>6. ASSUME NEW h \in DOMAIN parsed', h # v PROVE EntryOK(h)'
      BY <3>1, <3>2, <3>6, <2>1, <2>2, <1>2, <1>6 DEF EntryOK
    <3>7. LoopOK'
      BY <3>1, <3>2, <3>3, <3>4, <2>1, <2>2, <1>1 DEF LoopOK
    <3>8. HeadsOK'
      BY <3>1, <3>2, <2>1, <2>9, <1>3, <1>4, <1>5 DEF ParserInv, HeadsOK, Heads
    <3>9. \A h \in DOMAIN parsed' : EntryOK(h)'
      BY <3>5, <3>6
    <3>10. QED
      BY <3>1, <3>2, <3>7, <3>8, <3>9, <2>1, <1>2 DEF ParserInv, ParserType
  <2>10. CASE lines[at + 1] # "change"
    <3>1. loop' = "heads" /\ parsed' = parsed
      BY <1>9, <2>10 DEF TakeChange
    <3>2. EntryOK(v)'
      <4>1. at + 1 \notin ItemsYet(F)'
        BY <2>5, <2>10, <1>1, <1>3 DEF ItemsYet
      <4>2. (F + 1)..(at + 1) = ((F + 1)..at) \cup {at + 1}
        BY <2>5, <1>3
      <4>3. ItemsYet(F)' = ItemsYet(F)
        BY <4>1, <4>2, <1>1 DEF ItemsYet
      <4>4. at + 1 \in (F + 1)..at'
        BY <2>5, <1>1, <1>3
      <4>5. QED
        BY <4>3, <4>4, <3>1, <2>4, <2>5, <2>7, <2>8, <2>10, <1>1 DEF EntryOK
    <3>3. ASSUME NEW h \in DOMAIN parsed, h # v PROVE EntryOK(h)'
      BY <3>1, <3>3, <2>1, <2>2, <1>2, <1>6 DEF EntryOK
    <3>4. LoopOK'
      BY <3>1 DEF LoopOK
    <3>5. HeadsOK'
      BY <3>1, <2>1, <1>1, <1>3, <1>4, <1>5, Swallowed DEF ParserInv, HeadsOK
    <3>6. \A h \in DOMAIN parsed : EntryOK(h)'
      BY <3>2, <3>3
    <3>7. QED
      BY <3>1, <3>4, <3>5, <3>6, <1>2 DEF ParserInv, ParserType
  <2>11. QED
    BY <2>9, <2>10
<1>10. QED
  BY <1>7, <1>8, <1>9 DEF ParserNext

\* A version that has a fork gets its own upgrade and just the changes of that
\* section, for a change log of any length.
THEOREM ParsedAsWritten == Spec => []ParsedOwn
<1>1. Init => ParserInv
  <2> SUFFICES ASSUME Init PROVE ParserInv
    OBVIOUS
  <2>1. PICK n \in 0..MaxLines : lines \in [1..n -> LineKinds]
    BY DEF Init, ParserInit
  <2>2. n \in Nat
    BY ParserAssumption
  <2>3. lines \in Seq(LineKinds)
    BY <2>1, <2>2
  <2>4. Len(lines) \in Nat
    BY <2>3
  <2>5. at = 0 /\ loop = "heads" /\ DOMAIN parsed = {} /\ parsed = [h \in DOMAIN parsed |-> parsed[h]]
    BY DEF Init, ParserInit
  <2>6. QED
    BY <2>3, <2>4, <2>5
    DEF ParserInv, ParserType, LoopOK, HeadsOK, LastHead, Without, Heads, Numbers
<1>2. ParserInv /\ [Next]_vars => ParserInv'
  <2> SUFFICES ASSUME ParserInv, [Next]_vars PROVE ParserInv'
    OBVIOUS
  <2>1. CASE ParserNext
    BY <2>1, LineTaken
  <2>2. CASE UNCHANGED parserVars
    BY <2>2 DEF parserVars, ParserInv, ParserType, LoopOK, EntryOK, HeadsOK, LastHead,
       Without, ItemsYet, Closed, Entry, Items, IsFork, Heads, Numbers
  <2>3. QED
    BY <2>1, <2>2 DEF Next, Monitor, Log, Parser, Configuration, Endpoints, vars
<1>3. ParserInv => ParsedOwn
  <2> SUFFICES ASSUME ParserInv, at = Len(lines), NEW h \in Heads, HasFork(h)
               PROVE  IF h \in DOMAIN parsed
                      THEN /\ IsFork(h, parsed[h].fork)
                           /\ parsed[h].changes = Items(parsed[h].fork)
                      ELSE ~Closed(h)
    BY DEF ParsedOwn
  <2>1. PICK f \in Entry(h) : lines[f] = "fork"
    BY DEF HasFork
  <2>2. Len(lines) \in Nat /\ h \in Nat /\ f \in Nat /\ h < f /\ f <= at /\ h <= at
    BY <2>1 DEF ParserInv, ParserType, Heads, Numbers, Entry
  <2>3. CASE h \in DOMAIN parsed
    <3> DEFINE F == parsed[h].fork
    <3>1. EntryOK(h) /\ F \in Nat /\ h < F /\ F <= at
      BY <2>3 DEF ParserInv, EntryOK
    <3>2. F <= f
      <4>1. f \notin (h + 1)..(F - 1)
        BY <3>1, <2>1 DEF EntryOK, Without
      <4> HIDE DEF F
      <4>2. QED
        BY <4>1, <3>1, <2>2
    <3>3. IsFork(h, F)
      BY <3>1, <3>2, <2>1, <2>2 DEF EntryOK, Without, IsFork, Entry, Numbers
    <3>4. ItemsYet(F) = Items(F)
      BY <3>1, <2>2 DEF ItemsYet, Items, Numbers
    <3>5. QED
      BY <3>1, <3>3, <3>4, <2>3 DEF EntryOK
  <2>4. CASE h \notin DOMAIN parsed
    <3>1. f \in (h + 1)..at
      BY <2>2
    <3>2. ~(loop = "forks" /\ version = h)
      BY <3>1, <2>1 DEF ParserInv, LoopOK, Without
    <3>3. QED
      BY <3>2, <2>2, <2>4 DEF ParserInv, HeadsOK
  <2>5. QED
    BY <2>3, <2>4
<1>4. QED
  BY <1>1, <1>2, <1>3, PTL DEF Spec

--------------------------------------------------------------------------------
(* The dynamic endpoints.                                                  *)

\* Where the refresh is, what it has noted and what is served.
EndpointsInv ==
  /\ rowsOf \in Tables /\ step \in {"sleeping", "noting", "publishing"}
  /\ step # "sleeping" => loaded \in Tables
  /\ step = "publishing" => hash = Hash[loaded]
  /\ step # "publishing" =>
       \/ served = NoTable /\ hash = ""
       \/ served \in Tables /\ hash = Hash[served]

\* Between two refreshes the hash is that of the table which is served, or there is
\* none: a refresh that finds the hash of the table unchanged leaves nothing unserved
\* but a table of the same hash, although the hash is noted before the map is replaced.
THEOREM HashIsOfTheServed ==
  Spec => [](step = "sleeping" =>
               \/ served = NoTable /\ hash = ""
               \/ served \in Tables /\ hash = Hash[served])
<1>1. Init => EndpointsInv
  BY DEF Init, EndpointsInit, EndpointsInv
<1>2. EndpointsInv /\ [Next]_vars => EndpointsInv'
  <2> SUFFICES ASSUME EndpointsInv, [Next]_vars PROVE EndpointsInv'
    OBVIOUS
  <2> USE DEF EndpointsInv
  <2>1. CASE Edit
    BY <2>1 DEF Edit
  <2>2. CASE Load
    BY <2>2 DEF Load
  <2>3. CASE NoteHash
    BY <2>3 DEF NoteHash
  <2>4. CASE Publish
    BY <2>4 DEF Publish
  <2>5. CASE UNCHANGED endpointVars
    BY <2>5 DEF endpointVars
  <2>6. QED
    BY <2>1, <2>2, <2>3, <2>4, <2>5
    DEF Next, Monitor, Log, Parser, Configuration, Endpoints, EndpointsNext, vars
<1>3. EndpointsInv => (step = "sleeping" =>
               \/ served = NoTable /\ hash = ""
               \/ served \in Tables /\ hash = Hash[served])
  BY DEF EndpointsInv
<1>4. QED
  BY <1>1, <1>2, <1>3, PTL DEF Spec

================================================================================
