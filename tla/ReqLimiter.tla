------------------------------- MODULE ReqLimiter -------------------------------
(***************************************************************************)
(* The request limiter of the HTTP API: app/api/req_limiter.go and the     *)
(* filter of app/api/server.go that puts it in front of every handler.     *)
(*                                                                         *)
(* A request is one goroutine of net/http.  It is counted against its      *)
(* client (a go-cache entry that lives half a minute), waits for a slot of *)
(* one of two channels for at most Timeout, runs its handler and gives the *)
(* slot back.  Every call on the cache and every channel operation is a    *)
(* step of its own.  Time is a tick; the counter of a client is kept with  *)
(* the ticks it has left, and 0 stands for an entry that expired or was    *)
(* never added, which Add and IncrementInt cannot tell apart.              *)
(***************************************************************************)
EXTENDS Integers, FiniteSets, Sequences, SequencesExt

CONSTANTS
  Requests,            \* the HTTP requests, each handled once
  NoRequest,           \* the holder of the free mutex
  Clients,             \* the client ids: the addresses GetIP finds
  MaxReqCount,         \* config: slots of the main queue
  ReqsPerMinuteLimit,  \* config: what one client may ask per minute, 0 for no limit
  Window,              \* ticks a counter lives: half a minute
  Timeout,             \* ticks a request waits for a slot
  Paths,               \* the kinds of url path that are asked for
  Horizon              \* ticks the history reaches back

ASSUME RequestsAssumption == IsFiniteSet(Requests) /\ NoRequest \notin Requests
ASSUME ConfigAssumption ==
  /\ MaxReqCount \in Nat
  /\ Paths \subseteq {"adjacent", "other"}
  /\ ReqsPerMinuteLimit \in Int
  /\ Window \in Nat \ {0}
  /\ Timeout \in Nat \ {0}
ASSUME HistoryAssumption == Horizon \in Nat /\ Horizon >= Window

VARIABLES
  pc,         \* where the goroutine of each request is
  client,     \* the client id of each request
  path,       \* the kind of url path of each request
  count,      \* reqCountsByClientId: the counter of each client ...
  ttl,        \* ... and the ticks until it expires
  mutex,      \* limiter.mutex: the request that holds it
  used,       \* the tokens in each channel
  parked,     \* the senders blocked on each channel, in order
  timer,      \* ticks until time.After of each request fires
  answer,     \* what each request was answered
  age,        \* history: ticks since checkReqLimit let the request pass
  uncounted   \* history: the requests checkReqLimit let pass on no counter

limits == <<count, ttl, mutex>>
slots == <<used, parked>>
history == <<age, uncounted>>
vars == <<pc, client, path, limits, slots, timer, answer, history>>

Lanes == {"queue", "adjacentDataQueue"}
Capacity == [queue |-> MaxReqCount, adjacentDataQueue |-> 1]
ReqLimit == ReqsPerMinuteLimit \div 2
Refusals == {"tooManyRequests", "unavailable"}
Points == {"arriving", "counting", "locking", "adding", "recounting", "queueing",
           "parked", "handling", "releasing", "done"}

GetQueueByUrlPath(p) == IF p = "adjacent" THEN "adjacentDataQueue" ELSE "queue"
Lane(r) == GetQueueByUrlPath(path[r])

Init ==
  /\ pc = [r \in Requests |-> "arriving"]
  /\ client \in [Requests -> Clients]
  /\ path \in [Requests -> Paths]
  /\ count = [c \in Clients |-> 0]
  /\ ttl = [c \in Clients |-> 0]
  /\ mutex = NoRequest
  /\ used = [l \in Lanes |-> 0]
  /\ parked = [l \in Lanes |-> <<>>]
  /\ timer = [r \in Requests |-> 0]
  /\ answer = [r \in Requests |-> "none"]
  /\ age = [r \in Requests |-> Horizon]
  /\ uncounted = {}

--------------------------------------------------------------------------------
(* checkReqLimit.                                                          *)

\* requestFilter takes the request; with no limit checkReqLimit returns at once.
Arrive(r) ==
  /\ pc[r] = "arriving"
  /\ pc' = [pc EXCEPT ![r] = IF ReqLimit <= 0 THEN "queueing" ELSE "counting"]
  /\ age' = [age EXCEPT ![r] = IF ReqLimit <= 0 THEN 0 ELSE @]
  /\ UNCHANGED <<client, path, limits, slots, timer, answer, uncounted>>

\* The end of checkReqLimit with getReqCount() = n.
Decide(r, n) ==
  /\ pc' = [pc EXCEPT ![r] = IF n > ReqLimit THEN "done" ELSE "queueing"]
  /\ answer' = [answer EXCEPT ![r] = IF n > ReqLimit THEN "tooManyRequests" ELSE @]
  /\ age' = [age EXCEPT ![r] = IF n > ReqLimit THEN @ ELSE 0]

RefreshingIncrementInt(c) ==
  /\ ttl[c] > 0
  /\ count' = [count EXCEPT ![c] = @ + 1]
  /\ ttl' = [ttl EXCEPT ![c] = Window]

\* go-cache: IncrementInt fails on a missing or expired entry and keeps its expiry.
IncrementInt(c) ==
  /\ ttl[c] > 0
  /\ count' = [count EXCEPT ![c] = @ + 1]
  /\ UNCHANGED ttl

Count(r) ==
  /\ pc[r] = "counting"
  /\ \/ /\ IncrementInt(client[r])
        /\ Decide(r, count[client[r]] + 1)
     \/ /\ ttl[client[r]] = 0
        /\ pc' = [pc EXCEPT ![r] = "locking"]
        /\ UNCHANGED <<count, ttl, answer, age>>
  /\ UNCHANGED <<client, path, mutex, slots, timer, uncounted>>

UnguardedLock(r) ==
  /\ pc[r] = "locking"
  /\ mutex' = r
  /\ pc' = [pc EXCEPT ![r] = "adding"]
  /\ UNCHANGED <<client, path, count, ttl, slots, timer, answer, history>>

Lock(r) ==
  /\ pc[r] = "locking"
  /\ mutex = NoRequest
  /\ mutex' = r
  /\ pc' = [pc EXCEPT ![r] = "adding"]
  /\ UNCHANGED <<client, path, count, ttl, slots, timer, answer, history>>

OverwritingAdd(r) ==
  /\ pc[r] = "adding"
  /\ count' = [count EXCEPT ![client[r]] = 1]
  /\ ttl' = [ttl EXCEPT ![client[r]] = Window]
  /\ mutex' = NoRequest
  /\ Decide(r, 1)
  /\ UNCHANGED <<client, path, slots, timer, uncounted>>

\* Add succeeds on a missing or expired entry, else the code falls through.
Add(r) ==
  /\ pc[r] = "adding"
  /\ \/ /\ ttl[client[r]] = 0
        /\ count' = [count EXCEPT ![client[r]] = 1]
        /\ ttl' = [ttl EXCEPT ![client[r]] = Window]
        /\ mutex' = NoRequest
        /\ Decide(r, 1)
     \/ /\ ttl[client[r]] > 0
        /\ pc' = [pc EXCEPT ![r] = "recounting"]
        /\ UNCHANGED <<limits, answer, age>>
  /\ UNCHANGED <<client, path, slots, timer, uncounted>>

\* The increment after a failed Add; the entry may have expired in between, and
\* then the request passes with count 1 and is counted nowhere.
Recount(r) ==
  /\ pc[r] = "recounting"
  /\ mutex' = NoRequest
  /\ \/ /\ IncrementInt(client[r])
        /\ Decide(r, count[client[r]] + 1)
        /\ UNCHANGED uncounted
     \/ /\ ttl[client[r]] = 0
        /\ Decide(r, 1)
        /\ uncounted' = uncounted \cup {r}
        /\ UNCHANGED <<count, ttl>>
  /\ UNCHANGED <<client, path, slots, timer>>

--------------------------------------------------------------------------------
(* takeResource's select, the handler, releaseResource.                    *)

\* The channel has room: the send goes through.  select arms its timer and looks at
\* the channel in one step here: a timer of a tick or more does not fire in between.
Take(r) ==
  /\ pc[r] = "queueing"
  /\ used[Lane(r)] < Capacity[Lane(r)]
  /\ used' = [used EXCEPT ![Lane(r)] = @ + 1]
  /\ pc' = [pc EXCEPT ![r] = "handling"]
  /\ UNCHANGED <<client, path, limits, parked, timer, answer, history>>

LatePark(r) ==
  /\ pc[r] = "queueing"
  /\ used[Lane(r)] >= Capacity[Lane(r)]
  /\ parked' = [parked EXCEPT ![Lane(r)] = Append(@, r)]
  /\ timer' = [timer EXCEPT ![r] = Timeout + 1]
  /\ pc' = [pc EXCEPT ![r] = "parked"]
  /\ UNCHANGED <<client, path, limits, used, answer, history>>

\* The channel is full: the goroutine blocks in select until a token is taken
\* out or its timer fires.
Park(r) ==
  /\ pc[r] = "queueing"
  /\ used[Lane(r)] >= Capacity[Lane(r)]
  /\ parked' = [parked EXCEPT ![Lane(r)] = Append(@, r)]
  /\ timer' = [timer EXCEPT ![r] = Timeout]
  /\ pc' = [pc EXCEPT ![r] = "parked"]
  /\ UNCHANGED <<client, path, limits, used, answer, history>>

LeakyTimeOut(r) ==
  /\ pc[r] = "parked"
  /\ timer[r] = 0
  /\ pc' = [pc EXCEPT ![r] = "done"]
  /\ answer' = [answer EXCEPT ![r] = "unavailable"]
  /\ UNCHANGED <<client, path, limits, slots, timer, history>>

NeverTimeOut(r) == LeakyTimeOut(r) /\ FALSE

\* The timer case of select wins; the sender leaves the channel's wait queue.
TimeOut(r) ==
  /\ pc[r] = "parked"
  /\ timer[r] = 0
  /\ \E i \in 1..Len(parked[Lane(r)]) :
       /\ parked[Lane(r)][i] = r
       /\ parked' = [parked EXCEPT ![Lane(r)] = RemoveAt(@, i)]
  /\ pc' = [pc EXCEPT ![r] = "done"]
  /\ answer' = [answer EXCEPT ![r] = "unavailable"]
  /\ UNCHANGED <<client, path, limits, used, timer, history>>

SkippingFinish(r) ==
  /\ pc[r] = "handling"
  /\ answer' = [answer EXCEPT ![r] = "handled"]
  /\ \E next \in {"releasing", "done"} : pc' = [pc EXCEPT ![r] = next]
  /\ UNCHANGED <<client, path, limits, slots, timer, history>>

\* ParseForm fails, or the handler returns or panics: in each case the deferred
\* release runs next, so that one outcome stands for the three.
Finish(r) ==
  /\ pc[r] = "handling"
  /\ answer' = [answer EXCEPT ![r] = "handled"]
  /\ pc' = [pc EXCEPT ![r] = "releasing"]
  /\ UNCHANGED <<client, path, limits, slots, timer, history>>

ForgetfulRelease(r) ==
  /\ pc[r] = "releasing"
  /\ used[Lane(r)] > 0
  /\ used' = [used EXCEPT ![Lane(r)] = @ - 1]
  /\ pc' = [pc EXCEPT ![r] = "done"]
  /\ UNCHANGED <<client, path, limits, parked, timer, answer, history>>

\* <-queue: the token of the longest blocked sender takes the freed place.
Release(r) ==
  /\ pc[r] = "releasing"
  /\ used[Lane(r)] > 0
  /\ \/ /\ parked[Lane(r)] = <<>>
        /\ used' = [used EXCEPT ![Lane(r)] = @ - 1]
        /\ pc' = [pc EXCEPT ![r] = "done"]
        /\ UNCHANGED parked
     \/ /\ parked[Lane(r)] # <<>>
        /\ parked' = [parked EXCEPT ![Lane(r)] = Tail(@)]
        /\ pc' = [pc EXCEPT ![r] = "done", ![Head(parked[Lane(r)])] = "handling"]
        /\ UNCHANGED used
  /\ UNCHANGED <<client, path, limits, timer, answer, history>>

\* Time passes: counters and timers run down, history grows older.
Tick ==
  /\ ttl' = [c \in Clients |-> IF ttl[c] > 0 THEN ttl[c] - 1 ELSE 0]
  /\ timer' = [r \in Requests |-> IF timer[r] > 0 THEN timer[r] - 1 ELSE 0]
  /\ age' = [r \in Requests |-> IF age[r] < Horizon THEN age[r] + 1 ELSE Horizon]
  /\ UNCHANGED <<pc, client, path, count, mutex, slots, answer, uncounted>>

\* What the goroutine of r does by itself: all but its handler.
Limiter(r) ==
  \/ Arrive(r) \/ Count(r) \/ Lock(r) \/ Add(r) \/ Recount(r)
  \/ Take(r) \/ Park(r) \/ TimeOut(r) \/ Release(r)

Next == Tick \/ \E r \in Requests : Limiter(r) \/ Finish(r)

Spec == Init /\ [][Next]_vars

\* The scheduler runs every goroutine and the clock goes on; a handler may hang.
FairSpec == Spec /\ WF_vars(Tick) /\ \A r \in Requests : WF_vars(Limiter(r))

--------------------------------------------------------------------------------
(* Properties.                                                             *)

StateTypes ==
  /\ pc \in [Requests -> Points]
  /\ client \in [Requests -> Clients]
  /\ path \in [Requests -> Paths]
  /\ count \in [Clients -> Nat]
  /\ ttl \in [Clients -> 0..Window]
  /\ mutex \in Requests \cup {NoRequest}
  /\ used \in [Lanes -> Nat]
  /\ timer \in [Requests -> 0..Timeout]
  /\ answer \in [Requests -> {"none", "handled"} \cup Refusals]
  /\ age \in [Requests -> 0..Horizon]
  /\ uncounted \in SUBSET Requests

TypeOK == StateTypes /\ parked \in [Lanes -> Seq(Requests)]

\* The requests that are in possession of a slot of lane l.
Holding == {"handling", "releasing"}
Holders(l) == {r \in Requests : Lane(r) = l /\ pc[r] \in Holding}

\* A channel holds one token for each request whose handler runs or is about to
\* give its slot back, however the handler ended, and never more than its
\* capacity: takeResource and the deferred releaseResource always pair up.
SlotsConserved ==
  \A l \in Lanes : used[l] = Cardinality(Holders(l)) /\ used[l] <= Capacity[l]

\* A request blocks in takeResource only while its channel is full: no slot is
\* idle while somebody waits for it, and nobody who gave up is handed one.
NoIdleSlot ==
  \A l \in Lanes : parked[l] # <<>> =>
    /\ used[l] = Capacity[l]
    /\ \A i \in 1..Len(parked[l]) : pc[parked[l][i]] = "parked"

\* The requests of client c that checkReqLimit let pass in the last n ticks.
Passed(c, n) == {r \in Requests : client[r] = c /\ age[r] < n}

\* limiter.mutex serves one purpose: when a counter expires between the failed
\* Add and the increment, only the one request that holds the mutex escapes
\* counting, so a client gains at most one request per half minute by it.
AtMostOneUncounted ==
  \A c \in Clients : Cardinality(uncounted \cap Passed(c, Window)) <= 1

\* What the limiter really grants a client in any half minute: the limits of the
\* two counters that may overlap it, and one request that escaped counting.
HalfMinuteBound ==
  ReqLimit > 0 =>
    \A c \in Clients : Cardinality(Passed(c, Window)) <= 2 * ReqLimit + 1

\* A request is refused for its client's count only if that client really made
\* ReqLimit requests that passed in the half minute before: refused requests
\* count too, but never keep a counter alive.
RefusedOnlyOverLimit ==
  [][\A r \in Requests :
       answer'[r] = "tooManyRequests" /\ answer[r] # "tooManyRequests" =>
         Cardinality(Passed(client[r], Window)) >= ReqLimit]_vars

\* The config calls it ReqsPerMinuteLimit: no client passes more often in a
\* minute, the requests aside that escaped counting.
MinuteQuota ==
  ReqsPerMinuteLimit > 0 =>
    \A c \in Clients : Cardinality(Passed(c, 2 * Window) \ uncounted) <= ReqsPerMinuteLimit

\* Every request is refused or gets to its handler, even if the handlers that
\* hold the slots never return: the mutex is never kept and the timer fires.
NobodyStuck ==
  \A r \in Requests : pc[r] = "arriving" ~> pc[r] \in {"handling", "releasing", "done"}

\* The limiter implements the gate of module Gate.
Inside == [l \in Lanes |-> Holders(l)]
Refused == {r \in Requests : answer[r] \in Refusals}
Served == {r \in Requests : pc[r] = "done" /\ answer[r] = "handled"}
Admission == INSTANCE Gate WITH inside <- Inside, refused <- Refused, served <- Served
GateSpec == Admission!Spec
=================================================================================
