-------------------------- MODULE PerformanceMonitor --------------------------
(***************************************************************************)
(* The performance monitor: app/monitoring/performance.go.  Every handler  *)
(* starts a record and completes it when it returns; a loop copies the map *)
(* of records under the mutex, drops the complete ones from the map and    *)
(* reports on the copy without the mutex.  The copy shares the records.    *)
(*                                                                         *)
(* A record has the name of its request, so its id is never used again:    *)
(* the counter has 32 bits, and that many requests do not start while one  *)
(* is served.                                                              *)
(***************************************************************************)
EXTENDS Integers, FiniteSets

CONSTANTS
  Requests,
  LastMoment   \* the clock shows 1 to this

ASSUME MonitorAssumption == IsFiniteSet(Requests) /\ LastMoment \in Nat \ {0}

VARIABLES
  clock,       \* what time.Now tells, as fine as it does
  running,     \* requests that have a record without a finish
  records,     \* recordsById
  start,       \* start of each record, 0 before
  finish,      \* the time each request has taken when it returned, 0 before
  complete,    \* records with a finish
  inReport,    \* the copy that the report is made of
  copied,      \* what getCompletedRecordsByName has not looked at yet
  reporting,   \* where the report is
  maxReqCount, \* what it says of the requests at a time
  reports,     \* how often a record was reported as complete
  lost,        \* requests that did not find their record, or found it complete
  caught,      \* history: records that were completed in the copy
  most,        \* history: the most requests at a time since the last copy
  span         \* history: the same, when the copy of the report was made

monitored == <<running, records, start, finish, complete, lost, caught, most>>
reported == <<inReport, copied, reporting, maxReqCount, reports, span>>
monitorVars == <<clock, monitored, reported>>

\* Requests that have started and not returned.
Served == {r \in running : finish[r] = 0}
AtOnce(served, open) == [served |-> Cardinality(served), open |-> Cardinality(open)]
Greater(m, n) == IF m > n THEN m ELSE n

MonitorInit ==
  /\ clock = 1
  /\ running = {} /\ records = {} /\ complete = {} /\ lost = {} /\ caught = {}
  /\ start = [r \in Requests |-> 0] /\ finish = [r \in Requests |-> 0]
  /\ inReport = {} /\ copied = {} /\ reporting = "sleeping" /\ maxReqCount = 0
  /\ reports = [r \in Requests |-> 0]
  /\ most = AtOnce({}, {}) /\ span = AtOnce({}, {})

\* Start: pm.counter++ gives a new record.
StartRecord(r) ==
  /\ r \notin running \cup complete \cup lost
  /\ running' = running \cup {r}
  /\ records' = records \cup {r}
  /\ start' = [start EXCEPT ![r] = clock]
  /\ LET now == AtOnce(Served \cup {r}, running \cup {r})
     IN most' = [served |-> Greater(most.served, now.served),
                 open |-> Greater(most.open, now.open)]
  /\ UNCHANGED <<clock, finish, complete, lost, caught, reported>>

\* Complete takes the time before it has the mutex.
TakeFinish(r) ==
  /\ r \in Served
  /\ finish' = [finish EXCEPT ![r] = clock]
  /\ UNCHANGED <<clock, running, records, start, complete, lost, caught, most, reported>>

CompleteRecord(r) ==
  /\ r \in running \ Served
  /\ running' = running \ {r}
  /\ IF r \in records \ complete
     THEN complete' = complete \cup {r} /\ UNCHANGED lost
     ELSE lost' = lost \cup {r} /\ UNCHANGED complete
  /\ caught' = caught \cup ({r} \cap copied)
  /\ UNCHANGED <<clock, records, start, finish, most, reported>>

Copy ==
  /\ reporting = "sleeping"
  /\ reporting' = "grouping"
  /\ inReport' = records
  /\ span' = most
  /\ most' = AtOnce(Served, running)
  /\ UNCHANGED <<clock, running, start, finish, complete, lost, caught, maxReqCount,
                 reports>>

\* Variants: the map is left as it is, or copied without what is complete.
CopyOnly ==
  /\ Copy
  /\ copied' = records
  /\ UNCHANGED records
CopyTheRest ==
  /\ Copy
  /\ copied' = records \ complete
  /\ records' = records \ complete

CopyRecords ==
  /\ Copy
  /\ copied' = records
  /\ records' = records \ complete

\* getCompletedRecordsByName looks at one record of the copy.
ReportRecord(r) ==
  /\ r \in copied
  /\ copied' = copied \ {r}
  /\ reports' = IF r \in complete THEN [reports EXCEPT ![r] = @ + 1] ELSE reports
  /\ UNCHANGED <<clock, monitored, inReport, reporting, maxReqCount, span>>

\* determineMaxReqCount: events are counted in the order of their times, of equal
\* times the starts first, so that the count is greatest behind a start.  A
\* variant that lets the ends of the same time come first.
EndsFirst(t) ==
  Cardinality({r \in inReport : start[r] <= t})
    - Cardinality({r \in inReport \cap complete : finish[r] <= t})
CountAt(t) ==
  Cardinality({r \in inReport : start[r] <= t})
    - Cardinality({r \in inReport \cap complete : finish[r] < t})

CountRequests ==
  /\ reporting = "grouping" /\ copied = {}
  /\ maxReqCount' = LET counts == {CountAt(start[r]) : r \in inReport} \cup {0}
                    IN CHOOSE n \in counts : \A m \in counts : m <= n
  /\ reporting' = "logging"
  /\ UNCHANGED <<clock, monitored, inReport, copied, reports, span>>

\* logReport; the report, the copy and what was dropped from the map are garbage
\* then.
LogReport ==
  /\ reporting = "logging"
  /\ reporting' = "sleeping"
  /\ inReport' = {} /\ maxReqCount' = 0 /\ span' = AtOnce({}, {})
  /\ start' = [r \in Requests |-> IF r \in records THEN start[r] ELSE 0]
  /\ finish' = [r \in Requests |-> IF r \in records THEN finish[r] ELSE 0]
  /\ UNCHANGED <<clock, running, records, complete, lost, caught, most, copied, reports>>

PassMoment ==
  /\ clock < LastMoment
  /\ clock' = clock + 1
  /\ UNCHANGED <<monitored, reported>>

MonitorNext ==
  \/ \E r \in Requests : StartRecord(r) \/ TakeFinish(r) \/ CompleteRecord(r)
                         \/ ReportRecord(r)
  \/ CopyRecords \/ CountRequests \/ LogReport \/ PassMoment

--------------------------------------------------------------------------------
(* Properties.                                                             *)

\* A request is reported twice only if it returned between the copy of its
\* record and the report on it, and never more often.
TwiceOnlyIfCaught ==
  \A r \in Requests : reports[r] <= IF r \in caught THEN 2 ELSE 1

\* The greatest number of requests at a time, as reported, is that since the
\* last report: no less than were served at once, although their records come
\* from two copies and change under the count, and no more than had records
\* without a finish at once, unless one started at the very time another ended.
MaxAsReported ==
  reporting = "logging" =>
    /\ span.served <= maxReqCount
    /\ \/ maxReqCount <= span.open
       \/ \E q, r \in inReport : q \in complete /\ finish[q] = start[r]

\* Each request that returns finds its record and is in some report.
EveryReported ==
  \A r \in Requests : r \in complete \cup lost ~> reports[r] > 0

================================================================================
