---------------------------- MODULE ReqLimiterProofs ----------------------------
(***************************************************************************)
(* Proofs about ReqLimiter, for every set of requests and clients and      *)
(* every configuration.                                                    *)
(***************************************************************************)
EXTENDS ReqLimiter, FiniteSetTheorems, SequenceTheorems, TLAPS

\* Removing one element keeps the order of the others: each element of the result
\* is one of the original, and distinct places hold distinct places' elements.
LEMMA RemoveAtIsShift ==
  ASSUME NEW S, NEW s \in Seq(S), NEW i \in 1..Len(s)
  PROVE  /\ RemoveAt(s, i) \in Seq(S)
         /\ Len(RemoveAt(s, i)) = Len(s) - 1
         /\ \A j \in 1..Len(s) - 1 :
              RemoveAt(s, i)[j] = s[IF j < i THEN j ELSE j + 1]
<1> DEFINE front == SubSeq(s, 1, i - 1)
           back == SubSeq(s, i + 1, Len(s))
<1>1. /\ front \in Seq(S) /\ Len(front) = i - 1
      /\ \A j \in 1..i - 1 : front[j] = s[j]
  BY SubSeqProperties, LenProperties
<1>2. /\ back \in Seq(S) /\ Len(back) = Len(s) - i
      /\ \A j \in 1..Len(s) - i : back[j] = s[i + j]
  BY SubSeqProperties, LenProperties
<1>3. RemoveAt(s, i) = front \o back
  BY DEF RemoveAt
<1> HIDE DEF front, back
<1>4. Len(s) \in Nat
  BY LenProperties
<1>5. /\ front \o back \in Seq(S) /\ Len(front \o back) = Len(s) - 1
  BY <1>1, <1>2, <1>4, ConcatProperties, Len(s) - 1 = Len(front) + Len(back), i \in Int
<1>6. ASSUME NEW j \in 1..Len(s) - 1
      PROVE  (front \o back)[j] = s[IF j < i THEN j ELSE j + 1]
  <2>1. (front \o back)[j] = IF j <= i - 1 THEN front[j] ELSE back[j - (i - 1)]
    BY <1>1, <1>2, <1>4, ConcatProperties, Len(s) - 1 = Len(front) + Len(back), i \in Int
  <2>2. CASE j < i
    BY <2>1, <2>2, <1>1, <1>4
  <2>3. CASE ~(j < i)
    <3>1. j - (i - 1) \in 1..Len(s) - i
      BY <2>3, <1>4
    <3>2. back[j - (i - 1)] = s[j + 1]
      BY <3>1, <1>2, <1>4
    <3>3. QED
      BY <2>1, <3>2, <2>3, <1>4
  <2>4. QED
    BY <2>2, <2>3
<1>7. QED
  BY <1>3, <1>5, <1>6

\* What the constants of the configuration come to.
LEMMA ConstantTypes ==
  /\ ReqLimit \in Int
  /\ Capacity \in [Lanes -> Nat]
  /\ \A p \in Paths : GetQueueByUrlPath(p) \in Lanes
BY ConfigAssumption
DEF ConfigAssumption, ReqLimit, Capacity, Lanes, GetQueueByUrlPath

--------------------------------------------------------------------------------
(* Type correctness.                                                       *)

\* Every request has a lane: getQueueByUrlPath knows every path.
LEMMA LaneTypes == StateTypes => \A r \in Requests : Lane(r) \in Lanes
BY ConstantTypes DEF StateTypes, Lane

\* Every step keeps the queues of blocked senders sequences of requests.
LEMMA ParkedType ==
  ASSUME TypeOK, [Next]_vars
  PROVE  parked' \in [Lanes -> Seq(Requests)]
<1>1. parked \in [Lanes -> Seq(Requests)] /\ \A r \in Requests : Lane(r) \in Lanes
  BY LaneTypes DEF TypeOK
<1>2. ASSUME NEW r \in Requests, Park(r) PROVE parked' \in [Lanes -> Seq(Requests)]
  BY <1>1, <1>2, AppendProperties DEF Park
<1>3. ASSUME NEW r \in Requests, TimeOut(r)
      PROVE parked' \in [Lanes -> Seq(Requests)]
  BY <1>1, <1>3, RemoveAtIsShift DEF TimeOut
<1>4. ASSUME NEW r \in Requests, Release(r)
      PROVE parked' \in [Lanes -> Seq(Requests)]
  <2>1. CASE UNCHANGED parked
    BY <1>1, <2>1
  <2>2. CASE parked[Lane(r)] # <<>> /\ parked' = [parked EXCEPT ![Lane(r)] = Tail(@)]
    <3>1. Tail(parked[Lane(r)]) \in Seq(Requests)
      BY <1>1, <2>2, HeadTailProperties
    <3>2. QED
      BY <1>1, <2>2, <3>1
  <2>3. QED
    BY <1>4, <2>1, <2>2 DEF Release
<1>5. CASE UNCHANGED parked
  BY <1>1, <1>5
<1>6. QED
  BY <1>2, <1>3, <1>4, <1>5
  DEF Next, Limiter, Tick, Arrive, Count, Lock, Add, Recount, Take, Finish, vars, slots

\* StateTypes by groups: what the verdict of checkReqLimit changes, what its
\* counters and mutex are.
VerdictTypes ==
  /\ pc \in [Requests -> Points]
  /\ answer \in [Requests -> {"none", "handled"} \cup Refusals]
  /\ age \in [Requests -> 0..Horizon]

CounterTypes ==
  /\ count \in [Clients -> Nat]
  /\ ttl \in [Clients -> 0..Window]
  /\ mutex \in Requests \cup {NoRequest}

\* The verdict of checkReqLimit keeps the types.
LEMMA DecideTypes ==
  ASSUME VerdictTypes, NEW r \in Requests, NEW n, Decide(r, n)
  PROVE  VerdictTypes'
<1>1. pc' \in [Requests -> Points]
  BY DEF VerdictTypes, Decide, Points
<1>2. answer' \in [Requests -> {"none", "handled"} \cup Refusals]
  BY DEF VerdictTypes, Decide, Refusals
<1>3. age' \in [Requests -> 0..Horizon]
  <2>1. age \in [Requests -> 0..Horizon] /\ 0 \in 0..Horizon
    BY HistoryAssumption DEF VerdictTypes, HistoryAssumption
  <2>2. QED
    BY <2>1 DEF Decide
<1>4. QED
  BY <1>1, <1>2, <1>3 DEF VerdictTypes

\* The variables keep their types in every reachable state.
THEOREM TypeCorrect == Spec => []TypeOK
<1>1. Init => TypeOK
  BY RequestsAssumption, ConfigAssumption, HistoryAssumption
  DEF RequestsAssumption, ConfigAssumption, HistoryAssumption, Init, TypeOK,
      StateTypes, Lanes, Points
<1>2. TypeOK /\ [Next]_vars => TypeOK'
  <2> SUFFICES ASSUME TypeOK, [Next]_vars PROVE StateTypes'
    BY ParkedType DEF TypeOK
  <2>0. StateTypes /\ \A r \in Requests : Lane(r) \in Lanes
    BY LaneTypes DEF TypeOK
  <2>14. VerdictTypes /\ CounterTypes /\ \A r \in Requests : client[r] \in Clients
    BY <2>0 DEF StateTypes, VerdictTypes, CounterTypes
  <2> USE ConfigAssumption, HistoryAssumption
      DEF ConfigAssumption, HistoryAssumption
  <2>1. CASE Tick
    BY <2>0, <2>1
    DEF Tick, StateTypes, Points, limits, slots, history
  <2>2. ASSUME NEW r \in Requests, Arrive(r) PROVE StateTypes'
    BY <2>0, <2>2
    DEF Arrive, StateTypes, Points, limits, slots, history
  <2>3. ASSUME NEW r \in Requests, Count(r) PROVE StateTypes'
    <3>1. VerdictTypes'
      BY <2>3, <2>14, DecideTypes DEF Count, VerdictTypes, Points, limits
    <3>2. CounterTypes'
      BY <2>3, <2>14 DEF Count, CounterTypes, IncrementInt, limits
    <3>3. QED
      BY <2>0, <2>3, <3>1, <3>2 DEF Count, StateTypes, VerdictTypes, CounterTypes, slots
  <2>4. ASSUME NEW r \in Requests, Lock(r) PROVE StateTypes'
    BY <2>0, <2>4
    DEF Lock, StateTypes, Points, limits, slots, history
  <2>5. ASSUME NEW r \in Requests, Add(r) PROVE StateTypes'
    <3>1. VerdictTypes'
      BY <2>5, <2>14, DecideTypes DEF Add, VerdictTypes, Points, limits
    <3>2. CounterTypes'
      BY <2>5, <2>14 DEF Add, CounterTypes, IncrementInt, limits
    <3>3. QED
      BY <2>0, <2>5, <3>1, <3>2 DEF Add, StateTypes, VerdictTypes, CounterTypes, slots
  <2>6. ASSUME NEW r \in Requests, Recount(r) PROVE StateTypes'
    <3>1. VerdictTypes'
      BY <2>6, <2>14, DecideTypes DEF Recount, VerdictTypes, Points, limits
    <3>2. CounterTypes'
      BY <2>6, <2>14 DEF Recount, CounterTypes, IncrementInt, limits
    <3>3. QED
      BY <2>0, <2>6, <3>1, <3>2
      DEF Recount, StateTypes, VerdictTypes, CounterTypes, slots
  <2>7. ASSUME NEW r \in Requests, Take(r) PROVE StateTypes'
    BY <2>0, <2>7
    DEF Take, StateTypes, Points, limits, slots, history
  <2>8. ASSUME NEW r \in Requests, Park(r) PROVE StateTypes'
    <3>1. pc' \in [Requests -> Points]
      BY <2>8, <2>0 DEF Park, StateTypes, Points
    <3>2. timer' \in [Requests -> 0..Timeout]
      <4>1. timer \in [Requests -> 0..Timeout] /\ Timeout \in 0..Timeout
        BY <2>0 DEF StateTypes
      <4>2. QED
        BY <2>8, <4>1 DEF Park
    <3>3. QED
      BY <2>8, <2>0, <3>1, <3>2 DEF Park, StateTypes, limits, history
  <2>9. ASSUME NEW r \in Requests, TimeOut(r) PROVE StateTypes'
    BY <2>0, <2>9
    DEF TimeOut, StateTypes, Points, Refusals, limits, slots, history
  <2>10. ASSUME NEW r \in Requests, Finish(r) PROVE StateTypes'
    BY <2>0, <2>10
    DEF Finish, StateTypes, Points, limits, slots, history
  <2>11. ASSUME NEW r \in Requests, Release(r) PROVE StateTypes'
    <3>1. pc' \in [Requests -> Points]
      <4>1. pc \in [Requests -> Points] /\ "done" \in Points /\ "handling" \in Points
        BY <2>0 DEF StateTypes, Points
      <4>2. CASE pc' = [pc EXCEPT ![r] = "done"]
        BY <4>1, <4>2
      <4>3. ASSUME NEW h, pc' = [pc EXCEPT ![r] = "done", ![h] = "handling"]
            PROVE  pc' \in [Requests -> Points]
        BY <4>1, <4>3
      <4>4. QED
        BY <2>11, <4>2, <4>3 DEF Release
    <3>2. used' \in [Lanes -> Nat]
      <4>1. used \in [Lanes -> Nat] /\ Lane(r) \in Lanes
        BY <2>0 DEF StateTypes
      <4>2. \/ UNCHANGED used
            \/ used[Lane(r)] > 0 /\ used' = [used EXCEPT ![Lane(r)] = @ - 1]
        BY <2>11 DEF Release
      <4>3. QED
        BY <4>1, <4>2
    <3>3. UNCHANGED <<client, path, count, ttl, mutex, timer, answer, age, uncounted>>
      BY <2>11 DEF Release, limits, history
    <3>4. QED
      BY <2>0, <3>1, <3>2, <3>3 DEF StateTypes
  <2>12. CASE UNCHANGED vars
    BY <2>0, <2>12
    DEF vars, StateTypes, Points, limits, slots, history
  <2>13. QED
    BY <2>1, <2>2, <2>3, <2>4, <2>5, <2>6, <2>7, <2>8, <2>9, <2>10, <2>11, <2>12
    DEF Next, Limiter
<1>3. QED
  BY <1>1, <1>2, PTL DEF Spec

--------------------------------------------------------------------------------
(* Queues without repetition.                                              *)

\* s lists members of P, none of them twice.
Lists(s, P) ==
  /\ s \in Seq(P)
  /\ \A i, j \in 1..Len(s) : s[i] = s[j] => i = j

\* A list without repetition stays one in a larger set.
LEMMA ListsMore ==
  ASSUME NEW P, NEW Q, P \subseteq Q, NEW s, Lists(s, P)
  PROVE  Lists(s, Q)
BY SeqMonotonic DEF Lists

\* A newcomer at the end repeats nothing.
LEMMA AppendLists ==
  ASSUME NEW P, NEW x, x \notin P, NEW s, Lists(s, P)
  PROVE  Lists(Append(s, x), P \cup {x})
<1> DEFINE t == Append(s, x)
<1>1. s \in Seq(P \cup {x})
  BY SeqMonotonic DEF Lists
<1>2. /\ t \in Seq(P \cup {x}) /\ Len(t) = Len(s) + 1
      /\ \A i \in 1..Len(s) : t[i] = s[i]
      /\ t[Len(s) + 1] = x
  BY <1>1, AppendProperties
<1> HIDE DEF t
<1>3. Len(s) \in Nat /\ \A i \in 1..Len(s) : s[i] \in P
  BY LenProperties, ElementOfSeq DEF Lists
<1>4. \A i \in 1..Len(t) : i \in 1..Len(s) \/ i = Len(s) + 1
  BY <1>2, <1>3
<1>5. \A i, j \in 1..Len(t) : t[i] = t[j] => i = j
  BY <1>2, <1>3, <1>4 DEF Lists
<1>6. QED
  BY <1>2, <1>5 DEF Lists, t

\* Taking one place out of a list takes out just its element.
LEMMA RemoveAtLists ==
  ASSUME NEW P, NEW s, Lists(s, P), NEW i \in 1..Len(s)
  PROVE  Lists(RemoveAt(s, i), P \ {s[i]})
<1> DEFINE t == RemoveAt(s, i)
<1>1. Len(s) \in Nat /\ \A j \in 1..Len(s) : s[j] \in P
  BY LenProperties, ElementOfSeq DEF Lists
<1>2. /\ t \in Seq(P) /\ Len(t) = Len(s) - 1
      /\ \A j \in 1..Len(s) - 1 : t[j] = s[IF j < i THEN j ELSE j + 1]
  BY RemoveAtIsShift DEF Lists
<1> HIDE DEF t
<1>3. \A j \in 1..Len(t) : /\ (IF j < i THEN j ELSE j + 1) \in 1..Len(s)
                           /\ (IF j < i THEN j ELSE j + 1) # i
  BY <1>1, <1>2
<1>4. \A j \in 1..Len(t) : t[j] \in P \ {s[i]}
  BY <1>1, <1>2, <1>3 DEF Lists
<1>5. \A j, k \in 1..Len(t) : t[j] = t[k] => j = k
  BY <1>1, <1>2, <1>3 DEF Lists
<1>6. t \in Seq(P \ {s[i]})
  <2>1. Len(t) \in Nat /\ t = [j \in 1..Len(t) |-> t[j]]
    BY <1>2, LenProperties
  <2>2. t \in [1..Len(t) -> P \ {s[i]}]
    BY <2>1, <1>4
  <2>3. QED
    BY <2>1, <2>2, SeqDef
<1>7. QED
  BY <1>5, <1>6 DEF Lists, t

\* So does taking out its head.
LEMMA TailLists ==
  ASSUME NEW P, NEW s, Lists(s, P), s # <<>>
  PROVE  Head(s) \in P /\ Lists(Tail(s), P \ {Head(s)})
<1> DEFINE t == Tail(s)
<1>1. /\ Len(s) \in Nat \ {0} /\ Head(s) = s[1] /\ Head(s) \in P
      /\ \A j \in 1..Len(s) : s[j] \in P
  BY EmptySeq, LenProperties, ElementOfSeq, HeadTailProperties DEF Lists
<1>2. /\ t \in Seq(P) /\ Len(t) = Len(s) - 1
      /\ \A j \in 1..Len(t) : t[j] = s[j + 1]
  BY HeadTailProperties DEF Lists
<1> HIDE DEF t
<1>3. \A j \in 1..Len(t) : j + 1 \in 1..Len(s) /\ j + 1 # 1
  BY <1>1, <1>2
<1>4. \A j \in 1..Len(t) : t[j] \in P \ {Head(s)}
  BY <1>1, <1>2, <1>3 DEF Lists
<1>5. \A j, k \in 1..Len(t) : t[j] = t[k] => j = k
  BY <1>1, <1>2, <1>3 DEF Lists
<1>6. t \in Seq(P \ {Head(s)})
  <2>1. Len(t) \in Nat /\ t = [j \in 1..Len(t) |-> t[j]]
    BY <1>2, LenProperties
  <2>2. t \in [1..Len(t) -> P \ {Head(s)}]
    BY <2>1, <1>4
  <2>3. QED
    BY <2>1, <2>2, SeqDef
<1>7. QED
  BY <1>1, <1>5, <1>6 DEF Lists, t

--------------------------------------------------------------------------------
(* Slots.                                                                  *)

\* The requests blocked on the channel of lane l.
Blocked(l) == {r \in Requests : Lane(r) = l /\ pc[r] = "parked"}

\* What keeps the channels and the goroutines blocked on them consistent: a blocked
\* sender is queued on its own lane and only once, and its lane is full.
QueueInv(l) ==
  /\ Lists(parked[l], Blocked(l))
  /\ parked[l] # <<>> => used[l] = Capacity[l]

SlotInv(l) ==
  /\ used[l] = Cardinality(Holders(l))
  /\ used[l] <= Capacity[l]
  /\ QueueInv(l)

\* The holders of a lane can be counted.
LEMMA HoldersFinite == \A l : IsFiniteSet(Holders(l))
BY RequestsAssumption, FS_Subset DEF RequestsAssumption, Holders

\* A step that takes no slot and gives none back, and unblocks nobody.
LEMMA BystanderStep ==
  ASSUME NEW l \in Lanes, SlotInv(l), UNCHANGED <<used, parked>>,
         Holders(l)' = Holders(l), Blocked(l) \subseteq Blocked(l)'
  PROVE  SlotInv(l)'
BY ListsMore DEF SlotInv, QueueInv

\* Take keeps SlotInv: one token, one holder.
LEMMA TakeStep ==
  ASSUME TypeOK, NEW l \in Lanes, SlotInv(l), NEW r \in Requests, Take(r)
  PROVE  SlotInv(l)'
<1>1. /\ pc \in [Requests -> Points] /\ used \in [Lanes -> Nat] /\ Lane(r) \in Lanes
  BY LaneTypes DEF TypeOK, StateTypes
<1>2. /\ pc[r] = "queueing" /\ used[Lane(r)] < Capacity[Lane(r)]
      /\ pc' = [pc EXCEPT ![r] = "handling"]
      /\ used' = [used EXCEPT ![Lane(r)] = @ + 1] /\ UNCHANGED <<path, parked>>
  BY DEF Take
<1>3. \A q \in Requests : Lane(q)' = Lane(q)
  BY <1>2 DEF Lane
<1>4. /\ Holders(l)' = IF l = Lane(r) THEN Holders(l) \cup {r} ELSE Holders(l)
      /\ r \notin Holders(l)
  BY <1>1, <1>2, <1>3 DEF Holders, Holding
<1>5. Blocked(l)' = Blocked(l)
  BY <1>1, <1>2, <1>3 DEF Blocked
<1>6. CASE l # Lane(r)
  <2>1. used'[l] = used[l] /\ Holders(l)' = Holders(l)
    BY <1>1, <1>2, <1>4, <1>6
  <2>2. QED
    BY <2>1, <1>2, <1>5 DEF SlotInv, QueueInv
<1>7. CASE l = Lane(r)
  <2>1. used[l] \in Nat /\ Capacity[l] \in Nat /\ used[l] < Capacity[l]
    BY <1>1, <1>2, <1>7, ConstantTypes
  <2>2. used'[l] = used[l] + 1
    BY <1>1, <1>2, <1>7
  <2>3. Cardinality(Holders(l)') = Cardinality(Holders(l)) + 1
    BY <1>4, <1>7, HoldersFinite, FS_AddElement
  <2>4. parked[l] = <<>>
    BY <2>1 DEF SlotInv, QueueInv
  <2>5. QED
    BY <1>2, <1>5, <2>1, <2>2, <2>3, <2>4 DEF SlotInv, QueueInv
<1>8. QED
  BY <1>6, <1>7

\* Park keeps SlotInv: the channel is full, and the request blocks once.
LEMMA ParkStep ==
  ASSUME TypeOK, NEW l \in Lanes, SlotInv(l), NEW r \in Requests, Park(r)
  PROVE  SlotInv(l)'
<1>1. /\ pc \in [Requests -> Points] /\ used \in [Lanes -> Nat] /\ Lane(r) \in Lanes
      /\ DOMAIN parked = Lanes
  BY LaneTypes DEF TypeOK, StateTypes
<1>2. /\ pc[r] = "queueing" /\ used[Lane(r)] >= Capacity[Lane(r)]
      /\ pc' = [pc EXCEPT ![r] = "parked"]
      /\ parked' = [parked EXCEPT ![Lane(r)] = Append(@, r)] /\ UNCHANGED <<path, used>>
  BY DEF Park
<1>3. \A q \in Requests : Lane(q)' = Lane(q)
  BY <1>2 DEF Lane
<1>4. Holders(l)' = Holders(l)
  BY <1>1, <1>2, <1>3 DEF Holders, Holding
<1>5. /\ Blocked(l)' = IF l = Lane(r) THEN Blocked(l) \cup {r} ELSE Blocked(l)
      /\ r \notin Blocked(l)
  BY <1>1, <1>2, <1>3 DEF Blocked
<1>6. CASE l # Lane(r)
  BY <1>1, <1>2, <1>4, <1>5, <1>6 DEF SlotInv, QueueInv
<1>7. CASE l = Lane(r)
  <2>1. used[l] = Capacity[l]
    <3>1. used[l] \in Nat /\ Capacity[l] \in Nat
      BY <1>1, ConstantTypes
    <3>2. QED
      BY <1>2, <1>7, <3>1 DEF SlotInv
  <2>2. parked'[l] = Append(parked[l], r)
    BY <1>1, <1>2, <1>7
  <2>3. Lists(parked'[l], Blocked(l)')
    BY <1>5, <1>7, <2>2, AppendLists DEF SlotInv, QueueInv
  <2>4. QED
    BY <1>2, <1>4, <2>1, <2>3 DEF SlotInv, QueueInv
<1>8. QED
  BY <1>6, <1>7

\* TimeOut keeps SlotInv: the request leaves the wait queue as it gives up.
LEMMA TimeOutStep ==
  ASSUME TypeOK, NEW l \in Lanes, SlotInv(l), NEW r \in Requests, TimeOut(r)
  PROVE  SlotInv(l)'
<1>1. /\ pc \in [Requests -> Points] /\ Lane(r) \in Lanes /\ DOMAIN parked = Lanes
  BY LaneTypes DEF TypeOK, StateTypes
<1>2. /\ pc[r] = "parked" /\ pc' = [pc EXCEPT ![r] = "done"] /\ UNCHANGED <<path, used>>
  BY DEF TimeOut
<1>3. PICK i \in 1..Len(parked[Lane(r)]) :
        /\ parked[Lane(r)][i] = r
        /\ parked' = [parked EXCEPT ![Lane(r)] = RemoveAt(@, i)]
  BY DEF TimeOut
<1>4. \A q \in Requests : Lane(q)' = Lane(q)
  BY <1>2 DEF Lane
<1>5. Holders(l)' = Holders(l)
  BY <1>1, <1>2, <1>4 DEF Holders, Holding
<1>6. Blocked(l)' = IF l = Lane(r) THEN Blocked(l) \ {r} ELSE Blocked(l)
  BY <1>1, <1>2, <1>4 DEF Blocked
<1>7. CASE l # Lane(r)
  BY <1>1, <1>2, <1>3, <1>5, <1>6, <1>7 DEF SlotInv, QueueInv
<1>8. CASE l = Lane(r)
  <2>1. parked'[l] = RemoveAt(parked[l], i) /\ i \in 1..Len(parked[l])
    BY <1>1, <1>3, <1>8
  <2>2. Lists(parked'[l], Blocked(l)')
    BY <1>3, <1>6, <1>8, <2>1, RemoveAtLists DEF SlotInv, QueueInv
  <2>3. parked[l] # <<>>
    BY <2>1
  <2>4. QED
    BY <1>2, <1>5, <2>2, <2>3 DEF SlotInv, QueueInv
<1>9. QED
  BY <1>7, <1>8

\* Release keeps SlotInv: the token goes, or passes to the first in the queue.
LEMMA ReleaseStep ==
  ASSUME TypeOK, \A m \in Lanes : SlotInv(m), NEW l \in Lanes, NEW r \in Requests,
         Release(r)
  PROVE  SlotInv(l)'
<1>1. /\ pc \in [Requests -> Points] /\ used \in [Lanes -> Nat] /\ Lane(r) \in Lanes
      /\ DOMAIN parked = Lanes
  BY LaneTypes DEF TypeOK, StateTypes
<1>2. pc[r] = "releasing" /\ used[Lane(r)] > 0 /\ UNCHANGED path
  BY DEF Release
<1>3. \A q \in Requests : Lane(q)' = Lane(q)
  BY <1>2 DEF Lane
<1>4. r \in Holders(l) <=> l = Lane(r)
  BY <1>2 DEF Holders, Holding
<1>5. CASE l # Lane(r) /\ parked[Lane(r)] = <<>>
  <2>1. pc' = [pc EXCEPT ![r] = "done"] /\ UNCHANGED parked /\ used'[l] = used[l]
    BY <1>1, <1>5 DEF Release
  <2>2. Holders(l)' = Holders(l) /\ Blocked(l)' = Blocked(l)
    BY <1>1, <1>2, <1>3, <1>5, <2>1 DEF Holders, Holding, Blocked
  <2>3. QED
    BY <2>1, <2>2 DEF SlotInv, QueueInv
<1>6. CASE l = Lane(r) /\ parked[l] = <<>>
  <2>1. pc' = [pc EXCEPT ![r] = "done"] /\ UNCHANGED parked /\ used'[l] = used[l] - 1
    BY <1>1, <1>6 DEF Release
  <2>2. Holders(l)' = Holders(l) \ {r} /\ Blocked(l)' = Blocked(l)
    BY <1>1, <1>2, <1>3, <2>1 DEF Holders, Holding, Blocked
  <2>3. Cardinality(Holders(l)') = Cardinality(Holders(l)) - 1
    BY <1>4, <1>6, <2>2, HoldersFinite, FS_RemoveElement
  <2>4. used[l] \in Nat /\ Capacity[l] \in Nat
    BY <1>1, ConstantTypes
  <2>5. QED
    BY <1>6, <2>1, <2>2, <2>3, <2>4 DEF SlotInv, QueueInv
<1>7. CASE parked[Lane(r)] # <<>>
  <2> DEFINE h == Head(parked[Lane(r)])
  <2>1. /\ parked' = [parked EXCEPT ![Lane(r)] = Tail(@)] /\ UNCHANGED used
        /\ pc' = [pc EXCEPT ![r] = "done", ![h] = "handling"]
    BY <1>7 DEF Release
  <2>2. h \in Blocked(Lane(r)) /\ Lists(Tail(parked[Lane(r)]), Blocked(Lane(r)) \ {h})
    BY <1>1, <1>7, TailLists DEF SlotInv, QueueInv
  <2> HIDE DEF h
  <2>3. h \in Requests /\ pc[h] = "parked" /\ Lane(h) = Lane(r) /\ h # r
    BY <1>2, <2>2 DEF Blocked
  <2>4. /\ pc'[r] = "done" /\ pc'[h] = "handling"
        /\ \A q \in Requests : q # r /\ q # h => pc'[q] = pc[q]
    BY <1>1, <2>1, <2>3
  <2>5. CASE l # Lane(r)
    <3>1. Holders(l)' = Holders(l) /\ Blocked(l)' = Blocked(l)
      BY <1>3, <2>3, <2>4, <2>5 DEF Holders, Blocked
    <3>2. QED
      BY <1>1, <2>1, <2>5, <3>1 DEF SlotInv, QueueInv
  <2>6. CASE l = Lane(r)
    <3>1. /\ Holders(l)' = (Holders(l) \ {r}) \cup {h} /\ h \notin Holders(l) \ {r}
          /\ Blocked(l)' = Blocked(l) \ {h}
      <4>1. \A q \in Requests : pc'[q] \in Holding <=> q = h \/ (q # r /\ pc[q] \in Holding)
        BY <2>3, <2>4 DEF Holding
      <4>2. \A q \in Requests : pc'[q] = "parked" <=> q # h /\ pc[q] = "parked"
        BY <1>2, <2>3, <2>4
      <4>3. h \notin Holders(l)
        BY <2>3 DEF Holders, Holding
      <4>4. QED
        BY <1>3, <2>3, <2>6, <4>1, <4>2, <4>3 DEF Holders, Blocked
    <3>2. /\ IsFiniteSet(Holders(l) \ {r})
          /\ Cardinality(Holders(l) \ {r}) = Cardinality(Holders(l)) - 1
      BY <1>4, <2>6, HoldersFinite, FS_RemoveElement
    <3>3. Cardinality(Holders(l)') = Cardinality(Holders(l)) - 1 + 1
      BY <3>1, <3>2, FS_AddElement
    <3>4. Cardinality(Holders(l)) \in Nat
      BY HoldersFinite, FS_CardinalityType
    <3>5. Lists(parked'[l], Blocked(l)')
      BY <1>1, <2>1, <2>2, <2>6, <3>1
    <3>6. QED
      BY <1>7, <2>1, <2>6, <3>3, <3>4, <3>5 DEF SlotInv, QueueInv
  <2>7. QED
    BY <2>5, <2>6
<1>8. QED
  BY <1>5, <1>6, <1>7

\* The slots are conserved in every reachable state: takeResource and the deferred
\* releaseResource pair up for any number of requests and slots.
THEOREM SlotsInvariant == Spec => []\A l \in Lanes : SlotInv(l)
<1> DEFINE Inv == \A l \in Lanes : SlotInv(l)
<1>1. Init => Inv
  <2> SUFFICES ASSUME Init, NEW l \in Lanes PROVE SlotInv(l)
    OBVIOUS
  <2>1. Holders(l) = {} /\ parked[l] = <<>> /\ used[l] = 0
    BY DEF Init, Holders, Holding
  <2>2. Lists(<<>>, Blocked(l))
    BY EmptySeq DEF Lists
  <2>3. QED
    BY <2>1, <2>2, FS_EmptySet, ConstantTypes DEF SlotInv, QueueInv
<1>2. TypeOK /\ Inv /\ [Next]_vars => Inv'
  <2> SUFFICES ASSUME TypeOK, Inv, [Next]_vars, NEW l \in Lanes PROVE SlotInv(l)'
    OBVIOUS
  <2>1. pc \in [Requests -> Points] /\ SlotInv(l)
    BY DEF TypeOK, StateTypes
  <2>2. ASSUME UNCHANGED <<pc, path, used, parked>>
        PROVE  SlotInv(l)'
    <3>1. Holders(l)' = Holders(l) /\ Blocked(l)' = Blocked(l)
      BY <2>2 DEF Holders, Blocked, Lane
    <3>2. QED
      BY <2>1, <2>2, <3>1, BystanderStep
  <2>3. ASSUME NEW r \in Requests, NEW v, pc' = [pc EXCEPT ![r] = v],
               UNCHANGED <<path, used, parked>>,
               pc[r] # "parked", pc[r] \in Holding <=> v \in Holding
        PROVE  SlotInv(l)'
    <3>1. Holders(l)' = Holders(l) /\ Blocked(l) \subseteq Blocked(l)'
      BY <2>1, <2>3 DEF Holders, Blocked, Lane
    <3>2. QED
      BY <2>1, <2>3, <3>1, BystanderStep
  <2>4. CASE Tick
    BY <2>2, <2>4 DEF Tick, slots
  <2>5. ASSUME NEW r \in Requests, Arrive(r) PROVE SlotInv(l)'
    BY <2>3, <2>5 DEF Arrive, slots, Holding
  <2>6. ASSUME NEW r \in Requests, Count(r) PROVE SlotInv(l)'
    BY <2>3, <2>6 DEF Count, Decide, slots, Holding
  <2>7. ASSUME NEW r \in Requests, Lock(r) PROVE SlotInv(l)'
    BY <2>3, <2>7 DEF Lock, slots, Holding
  <2>8. ASSUME NEW r \in Requests, Add(r) PROVE SlotInv(l)'
    BY <2>3, <2>8 DEF Add, Decide, slots, Holding
  <2>9. ASSUME NEW r \in Requests, Recount(r) PROVE SlotInv(l)'
    BY <2>3, <2>9 DEF Recount, Decide, slots, Holding
  <2>10. ASSUME NEW r \in Requests, Finish(r) PROVE SlotInv(l)'
    BY <2>3, <2>10 DEF Finish, slots, Holding
  <2>11. ASSUME NEW r \in Requests, Take(r) \/ Park(r) \/ TimeOut(r) \/ Release(r)
         PROVE  SlotInv(l)'
    BY <2>1, <2>11, TakeStep, ParkStep, TimeOutStep, ReleaseStep
  <2>12. CASE UNCHANGED vars
    BY <2>2, <2>12 DEF vars, slots
  <2>13. QED
    BY <2>4, <2>5, <2>6, <2>7, <2>8, <2>9, <2>10, <2>11, <2>12 DEF Next, Limiter
<1>3. QED
  BY <1>1, <1>2, TypeCorrect, PTL DEF Spec

\* A channel holds one token per request in its handler or about to leave it.
THEOREM SlotsAreConserved == Spec => []SlotsConserved
<1>1. (\A l \in Lanes : SlotInv(l)) => SlotsConserved
  BY DEF SlotInv, SlotsConserved
<1>2. QED
  BY <1>1, SlotsInvariant, PTL

\* Nobody is blocked on a channel that has room, or queued after giving up.
THEOREM NoSlotIsIdle == Spec => []NoIdleSlot
<1>1. (\A l \in Lanes : SlotInv(l)) => NoIdleSlot
  <2> SUFFICES ASSUME NEW l \in Lanes, SlotInv(l), parked[l] # <<>>
               PROVE  /\ used[l] = Capacity[l]
                      /\ \A i \in 1..Len(parked[l]) : pc[parked[l][i]] = "parked"
    BY DEF NoIdleSlot
  <2>1. \A i \in 1..Len(parked[l]) : parked[l][i] \in Blocked(l)
    BY ElementOfSeq DEF SlotInv, QueueInv, Lists
  <2>2. QED
    BY <2>1 DEF SlotInv, QueueInv, Blocked
<1>2. QED
  BY <1>1, SlotsInvariant, PTL

--------------------------------------------------------------------------------
(* Who escapes counting.                                                   *)

Early == {"arriving", "counting", "locking", "adding", "recounting"}

\* checkReqLimit's mutex is held by the one request between Lock and its verdict,
\* and a request without a verdict is not part of the history.
MutexInv == \A r \in Requests : pc[r] \in {"adding", "recounting"} => mutex = r
EarlyInv == \A r \in Requests : pc[r] \in Early => age[r] = Horizon /\ r \notin uncounted

\* After q escaped counting, a counter of its client was added later than q, and
\* while there is none nobody is about to increment it.
EscapeInv(q) ==
  q \in uncounted /\ age[q] < Window =>
    /\ ttl[client[q]] > 0 => ttl[client[q]] >= Window - age[q]
    /\ ttl[client[q]] = 0 =>
         \A r \in Requests : client[r] = client[q] => pc[r] # "recounting"
    /\ \A p \in uncounted : age[p] < Window /\ client[p] = client[q] => p = q

EscapeTypes ==
  /\ pc \in [Requests -> Points]
  /\ client \in [Requests -> Clients]
  /\ ttl \in [Clients -> 0..Window]
  /\ age \in [Requests -> 0..Horizon]
  /\ uncounted \in SUBSET Requests
  /\ Window \in Nat \ {0} /\ Horizon \in Nat /\ Horizon >= Window

\* The types the proofs about escapes need follow from TypeOK.
LEMMA EscapeTyping == TypeOK => EscapeTypes
BY ConfigAssumption, HistoryAssumption
DEF TypeOK, StateTypes, EscapeTypes, ConfigAssumption, HistoryAssumption

\* A request between Lock and its verdict in checkReqLimit holds limiter.mutex, and the
\* history knows no request before its verdict.
THEOREM MutexIsHeld == Spec => [](MutexInv /\ EarlyInv)
<1>1. Init => MutexInv /\ EarlyInv
  BY DEF Init, MutexInv, EarlyInv
<1>2. EscapeTypes /\ MutexInv /\ EarlyInv /\ [Next]_vars => (MutexInv /\ EarlyInv)'
  <2> SUFFICES ASSUME EscapeTypes, MutexInv, EarlyInv, [Next]_vars
               PROVE  MutexInv' /\ EarlyInv'
    OBVIOUS
  <2>1. CASE Tick
    BY <2>1 DEF Tick, MutexInv, EarlyInv, EscapeTypes
  <2>2. ASSUME NEW r \in Requests, NEW v \in Points \ {"adding", "recounting"},
               pc' = [pc EXCEPT ![r] = v], mutex' = mutex \/ pc[r] \in {"adding", "recounting"}
        PROVE  MutexInv'
    BY <2>2 DEF MutexInv, EscapeTypes
  <2>3. ASSUME NEW r \in Requests, NEW v \in Points \ Early,
               pc' = [pc EXCEPT ![r] = v],
               \A q \in Requests : q # r => age'[q] = age[q],
               uncounted' \subseteq uncounted \cup {r}
        PROVE  EarlyInv'
    BY <2>3 DEF EarlyInv, EscapeTypes
  <2>4. ASSUME NEW r \in Requests, NEW v \in Early,
               pc' = [pc EXCEPT ![r] = v], pc[r] \in Early, UNCHANGED <<age, uncounted>>
        PROVE  EarlyInv'
    BY <2>4 DEF EarlyInv, EscapeTypes
  <2>5. ASSUME NEW r \in Requests, Arrive(r) PROVE MutexInv' /\ EarlyInv'
    <3>1. CASE ReqLimit <= 0
      BY <2>2, <2>3, <2>5, <3>1 DEF Arrive, limits, Points, Early, EscapeTypes
    <3>2. CASE ~(ReqLimit <= 0)
      <4>1. age' = age
        BY <2>5, <3>2 DEF Arrive, EscapeTypes
      <4>2. QED
        BY <2>2, <2>4, <2>5, <3>2, <4>1 DEF Arrive, limits, Points, Early
    <3>3. QED
      BY <3>1, <3>2
  <2>6. ASSUME NEW r \in Requests, NEW n, Decide(r, n),
               uncounted' \subseteq uncounted \cup {r},
               mutex' = mutex \/ pc[r] \in {"adding", "recounting"}
        PROVE  MutexInv' /\ EarlyInv'
    <3>1. \A q \in Requests : q # r => age'[q] = age[q]
      BY <2>6 DEF Decide, EscapeTypes
    <3>2. QED
      <4>1. PICK v \in {"done", "queueing"} : pc' = [pc EXCEPT ![r] = v]
        BY <2>6 DEF Decide
      <4>2. v \in Points \ {"adding", "recounting"} /\ v \in Points \ Early
        BY <4>1 DEF Points, Early
      <4>3. QED
        BY <2>2, <2>3, <2>6, <3>1, <4>1, <4>2
  <2>7. ASSUME NEW r \in Requests, Count(r) PROVE MutexInv' /\ EarlyInv'
    BY <2>2, <2>4, <2>6, <2>7 DEF Count, Points, Early
  <2>8. ASSUME NEW r \in Requests, Lock(r) PROVE MutexInv' /\ EarlyInv'
    <3>1. MutexInv'
      BY <2>8, RequestsAssumption DEF Lock, MutexInv, EscapeTypes, RequestsAssumption
    <3>2. QED
      BY <3>1, <2>4, <2>8 DEF Lock, history, Early
  <2>9. ASSUME NEW r \in Requests, Add(r) PROVE MutexInv' /\ EarlyInv'
    <3>1. CASE Decide(r, 1)
      BY <2>6, <2>9, <3>1 DEF Add, limits
    <3>2. CASE pc' = [pc EXCEPT ![r] = "recounting"] /\ UNCHANGED <<mutex, age>>
      BY <2>4, <2>9, <3>2 DEF Add, MutexInv, EscapeTypes, Early
    <3>3. QED
      BY <2>9, <3>1, <3>2 DEF Add, limits
  <2>10. ASSUME NEW r \in Requests, Recount(r) PROVE MutexInv' /\ EarlyInv'
    BY <2>6, <2>10 DEF Recount
  <2>11. ASSUME NEW r \in Requests, Take(r) \/ Park(r) \/ TimeOut(r) \/ Finish(r)
         PROVE  MutexInv' /\ EarlyInv'
    BY <2>2, <2>3, <2>11
    DEF Take, Park, TimeOut, Finish, limits, history, Points, Early
  <2>12. ASSUME NEW r \in Requests, Release(r) PROVE MutexInv' /\ EarlyInv'
    <3>1. UNCHANGED <<mutex, age, uncounted>>
      BY <2>12 DEF Release, limits, history
    <3>2. \A q \in Requests : pc'[q] \in Early => pc'[q] = pc[q]
      <4>1. CASE pc' = [pc EXCEPT ![r] = "done"]
        BY <4>1 DEF Early, EscapeTypes
      <4>2. ASSUME NEW h, pc' = [pc EXCEPT ![r] = "done", ![h] = "handling"]
            PROVE  \A q \in Requests : pc'[q] \in Early => pc'[q] = pc[q]
        BY <4>2 DEF Early, EscapeTypes
      <4>3. QED
        BY <2>12, <4>1, <4>2 DEF Release
    <3>3. QED
      BY <3>1, <3>2 DEF MutexInv, EarlyInv, Early
  <2>13. CASE UNCHANGED vars
    BY <2>13 DEF vars, limits, history, MutexInv, EarlyInv
  <2>14. QED
    BY <2>1, <2>5, <2>7, <2>8, <2>9, <2>10, <2>11, <2>12, <2>13 DEF Next, Limiter
<1>3. QED
  BY <1>1, <1>2, EscapeTyping, TypeCorrect, PTL DEF Spec

\* A step by which nobody escapes counting.
LEMMA QuietStep ==
  ASSUME EscapeTypes, NEW q \in Requests, EscapeInv(q), UNCHANGED <<client, uncounted>>,
         \A p \in uncounted : age'[p] = age[p],
         \A c \in Clients : ttl'[c] = ttl[c] \/ ttl'[c] = Window,
         \A r \in Requests : pc'[r] = "recounting" =>
           pc[r] = "recounting" \/ ttl'[client[r]] > 0
  PROVE  EscapeInv(q)'
<1> SUFFICES ASSUME q \in uncounted, age[q] < Window
             PROVE  /\ ttl'[client[q]] > 0 => ttl'[client[q]] >= Window - age[q]
                    /\ ttl'[client[q]] = 0 =>
                         \A r \in Requests : client[r] = client[q] => pc'[r] # "recounting"
                    /\ \A p \in uncounted : age[p] < Window /\ client[p] = client[q] => p = q
  BY DEF EscapeInv, EscapeTypes
<1>1. /\ client[q] \in Clients /\ ttl[client[q]] \in Nat /\ age[q] \in Nat
      /\ Window \in Nat \ {0}
  BY DEF EscapeTypes
<1>2. QED
  BY <1>1 DEF EscapeInv

\* Recount by a request whose counter expired keeps EscapeInv: it escapes, and no
\* request that escaped within Window ticks shares its client.
LEMMA EscapeStep ==
  ASSUME EscapeTypes, MutexInv, EarlyInv, \A q \in Requests : EscapeInv(q),
         NEW r \in Requests, Recount(r), NEW q \in Requests
  PROVE  EscapeInv(q)'
<1>1. /\ pc[r] = "recounting" /\ mutex = r /\ r \notin uncounted
      /\ client[r] \in Clients /\ UNCHANGED client
  BY DEF Recount, MutexInv, EarlyInv, Early, EscapeTypes
<1>2. \A p \in Requests : p # r => age'[p] = age[p]
  BY DEF Recount, Decide, EscapeTypes
<1>3. \A p \in Requests : pc'[p] # "recounting"
  <2>1. \A p \in Requests : pc[p] = "recounting" => p = r
    BY <1>1 DEF MutexInv
  <2>2. \A p \in Requests : (p # r => pc'[p] = pc[p]) /\ pc'[r] # "recounting"
    BY DEF Recount, Decide, EscapeTypes
  <2>3. QED
    BY <2>1, <2>2
<1>4. CASE UNCHANGED <<ttl, uncounted>>
  BY <1>1, <1>2, <1>3, <1>4, QuietStep DEF EscapeTypes
<1>5. CASE ttl[client[r]] = 0 /\ UNCHANGED ttl /\ uncounted' = uncounted \cup {r}
  \* Nobody else of r's client is in the history: it would forbid r's step.
  <2>1. \A p \in uncounted : age[p] < Window => client[p] # client[r]
    BY <1>1, <1>5 DEF EscapeInv, EscapeTypes
  <2>2. ASSUME q \in uncounted', age'[q] < Window
        PROVE  /\ ttl[client[q]] > 0 => ttl[client[q]] >= Window - age'[q]
               /\ \A p \in uncounted' :
                    age'[p] < Window /\ client[p] = client[q] => p = q
    <3>1. CASE q = r
      BY <1>1, <1>2, <1>5, <2>1, <3>1 DEF EscapeTypes
    <3>2. CASE q # r
      BY <1>1, <1>2, <1>5, <2>1, <2>2, <3>2 DEF EscapeInv, EscapeTypes
    <3>3. QED
      BY <3>1, <3>2
  <2>3. QED
    BY <1>1, <1>3, <1>5, <2>2 DEF EscapeInv
<1>6. QED
  BY <1>4, <1>5 DEF Recount, IncrementInt

\* A tick keeps EscapeInv: escapes grow older as fast as counters run down.
LEMMA EscapeTick ==
  ASSUME EscapeTypes, NEW q \in Requests, EscapeInv(q), Tick
  PROVE  EscapeInv(q)'
<1>1. /\ UNCHANGED <<pc, client, uncounted>>
      /\ \A c \in Clients : ttl'[c] = IF ttl[c] > 0 THEN ttl[c] - 1 ELSE 0
      /\ \A p \in Requests : age'[p] = IF age[p] < Horizon THEN age[p] + 1 ELSE Horizon
  BY DEF Tick
<1> SUFFICES ASSUME q \in uncounted, age'[q] < Window
             PROVE  /\ ttl'[client[q]] > 0 => ttl'[client[q]] >= Window - age'[q]
                    /\ ttl'[client[q]] = 0 =>
                         \A r \in Requests : client[r] = client[q] => pc[r] # "recounting"
                    /\ \A p \in uncounted : age'[p] < Window /\ client[p] = client[q] => p = q
  BY <1>1 DEF EscapeInv
<1>2. /\ client[q] \in Clients /\ ttl[client[q]] \in Nat /\ age[q] \in Nat
      /\ Window \in Nat /\ Horizon \in Nat /\ Horizon >= Window
      /\ uncounted \subseteq Requests /\ \A p \in Requests : age[p] \in 0..Horizon
  BY DEF EscapeTypes
<1>3. \A p \in Requests : age'[p] < Window => age[p] < Window /\ age'[p] = age[p] + 1
  BY <1>1, <1>2
<1>4. ttl[client[q]] = 1 => age[q] + 1 >= Window
  BY <1>2, <1>3 DEF EscapeInv
<1>5. QED
  BY <1>1, <1>2, <1>3, <1>4 DEF EscapeInv

\* The requests that escaped counting never meet within half a minute.
THEOREM EscapesNeverMeet == Spec => []\A q \in Requests : EscapeInv(q)
<1> DEFINE Inv == \A q \in Requests : EscapeInv(q)
<1>1. Init => Inv
  BY DEF Init, EscapeInv
<1>2. EscapeTypes /\ MutexInv /\ EarlyInv /\ Inv /\ [Next]_vars => Inv'
  <2> SUFFICES ASSUME EscapeTypes, MutexInv, EarlyInv, Inv, [Next]_vars,
                      NEW q \in Requests
               PROVE  EscapeInv(q)'
    OBVIOUS
  <2>1. ASSUME UNCHANGED <<client, uncounted, ttl>>,
               \A p \in uncounted : age'[p] = age[p],
               \A r \in Requests : pc'[r] = "recounting" => pc[r] = "recounting"
        PROVE  EscapeInv(q)'
    BY <2>1, QuietStep
  <2>2. ASSUME NEW r \in Requests, pc[r] \in Early,
               \A p \in Requests : p # r => age'[p] = age[p]
        PROVE  \A p \in uncounted : age'[p] = age[p]
    BY <2>2 DEF EarlyInv, EscapeTypes
  <2>3. ASSUME NEW r \in Requests, Arrive(r) PROVE EscapeInv(q)'
    BY <2>1, <2>2, <2>3 DEF Arrive, limits, Early, EscapeTypes
  <2>4. ASSUME NEW r \in Requests, Count(r) PROVE EscapeInv(q)'
    BY <2>1, <2>2, <2>4 DEF Count, Decide, IncrementInt, Early, EscapeTypes
  <2>5. ASSUME NEW r \in Requests, Lock(r) PROVE EscapeInv(q)'
    BY <2>1, <2>5 DEF Lock, history, EscapeTypes
  <2>6. ASSUME NEW r \in Requests, Add(r) PROVE EscapeInv(q)'
    <3>1. /\ pc[r] \in Early /\ UNCHANGED <<client, uncounted>>
          /\ \A p \in Requests : p # r => age'[p] = age[p] /\ pc'[p] = pc[p]
      BY <2>6 DEF Add, Decide, Early, EscapeTypes
    <3>2. \A c \in Clients : ttl'[c] = ttl[c] \/ ttl'[c] = Window
      BY <2>6 DEF Add, limits, EscapeTypes
    <3>3. pc'[r] = "recounting" => ttl'[client[r]] > 0
      BY <2>6 DEF Add, Decide, limits, EscapeTypes
    <3>4. QED
      BY <2>2, <3>1, <3>2, <3>3, QuietStep
  <2>7. ASSUME NEW r \in Requests, Recount(r) PROVE EscapeInv(q)'
    BY <2>7, EscapeStep
  <2>8. ASSUME NEW r \in Requests, Take(r) \/ Park(r) \/ TimeOut(r) \/ Finish(r)
        PROVE  EscapeInv(q)'
    BY <2>1, <2>8 DEF Take, Park, TimeOut, Finish, limits, history, EscapeTypes
  <2>9. ASSUME NEW r \in Requests, Release(r) PROVE EscapeInv(q)'
    <3>1. \A p \in Requests : pc'[p] = "recounting" => pc[p] = "recounting"
      <4>1. CASE pc' = [pc EXCEPT ![r] = "done"]
        BY <4>1 DEF EscapeTypes
      <4>2. ASSUME NEW h, pc' = [pc EXCEPT ![r] = "done", ![h] = "handling"]
            PROVE  \A p \in Requests : pc'[p] = "recounting" => pc[p] = "recounting"
        BY <4>2 DEF EscapeTypes
      <4>3. QED
        BY <2>9, <4>1, <4>2 DEF Release
    <3>2. UNCHANGED <<client, uncounted, ttl, age>>
      BY <2>9 DEF Release, limits, history
    <3>3. QED
      BY <2>1, <3>1, <3>2
  <2>10. CASE Tick
    BY <2>10, EscapeTick
  <2>11. CASE UNCHANGED vars
    BY <2>1, <2>11 DEF vars, limits, history
  <2>12. QED
    BY <2>3, <2>4, <2>5, <2>6, <2>7, <2>8, <2>9, <2>10, <2>11 DEF Next, Limiter
<1>3. QED
  BY <1>1, <1>2, EscapeTyping, TypeCorrect, MutexIsHeld, PTL DEF Spec

\* At most one request per half minute and client escapes counting.
THEOREM EscapesAreRare == Spec => []AtMostOneUncounted
<1>1. TypeOK /\ (\A q \in Requests : EscapeInv(q)) => AtMostOneUncounted
  <2> SUFFICES ASSUME TypeOK, \A q \in Requests : EscapeInv(q), NEW c \in Clients
               PROVE  Cardinality(uncounted \cap Passed(c, Window)) <= 1
    BY DEF AtMostOneUncounted
  <2> DEFINE escaped == uncounted \cap Passed(c, Window)
  <2>1. \A p, q \in escaped : p = q
    BY DEF EscapeInv, Passed
  <2>2. CASE escaped = {}
    BY <2>2, FS_EmptySet
  <2>3. ASSUME NEW p \in escaped
        PROVE  Cardinality(escaped) <= 1
    <3>1. escaped = {p}
      BY <2>1, <2>3
    <3>2. QED
      BY <3>1, FS_Singleton
  <2>4. QED
    BY <2>2, <2>3
<1>2. QED
  BY <1>1, TypeCorrect, EscapesNeverMeet, PTL

--------------------------------------------------------------------------------
(* The limiter implements the gate.                                        *)

\* A request has its answer once its handler ended or it was turned away.
AnswerInv(r) ==
  /\ answer[r] = "none" <=> pc[r] \notin {"releasing", "done"}
  /\ pc[r] = "releasing" => answer[r] = "handled"

AnswerTypes ==
  /\ pc \in [Requests -> Points]
  /\ answer \in [Requests -> {"none", "handled"} \cup Refusals]
  /\ \A r \in Requests : Lane(r) \in Lanes

\* The types the proofs about answers need follow from TypeOK.
LEMMA AnswerTyping == TypeOK => AnswerTypes
BY LaneTypes DEF TypeOK, StateTypes, AnswerTypes

\* Who is blocked when r gives its slot back is promoted, and is no other than h.
LEMMA PromotedIsBlocked ==
  ASSUME TypeOK, \A l \in Lanes : SlotInv(l), NEW r \in Requests, Release(r),
         parked[Lane(r)] # <<>>
  PROVE  \E h \in Blocked(Lane(r)) : pc' = [pc EXCEPT ![r] = "done", ![h] = "handling"]
<1>1. Head(parked[Lane(r)]) \in Blocked(Lane(r))
  BY LaneTypes, TailLists DEF TypeOK, SlotInv, QueueInv
<1>2. QED
  BY <1>1 DEF Release

\* A request has an answer exactly when its handler has ended or it was refused.
THEOREM AnswersAreFinal == Spec => []\A r \in Requests : AnswerInv(r)
<1> DEFINE Inv == \A r \in Requests : AnswerInv(r)
<1>1. Init => Inv
  BY DEF Init, AnswerInv
<1>2. TypeOK /\ (\A l \in Lanes : SlotInv(l)) /\ Inv /\ [Next]_vars => Inv'
  <2> SUFFICES ASSUME TypeOK, \A l \in Lanes : SlotInv(l), Inv, [Next]_vars,
                      NEW q \in Requests
               PROVE  AnswerInv(q)'
    OBVIOUS
  <2>1. pc \in [Requests -> Points] /\ answer \in [Requests -> {"none", "handled"} \cup Refusals]
    BY AnswerTyping DEF AnswerTypes
  <2>2. ASSUME NEW r \in Requests, NEW v, pc' = [pc EXCEPT ![r] = v],
               UNCHANGED answer, {v, pc[r]} \cap {"releasing", "done"} = {}
        PROVE  AnswerInv(q)'
    BY <2>1, <2>2 DEF AnswerInv
  <2>3. ASSUME NEW r \in Requests, NEW n, Decide(r, n), pc[r] \in Early
        PROVE  AnswerInv(q)'
    BY <2>1, <2>3 DEF AnswerInv, Decide, Early
  <2>4. ASSUME NEW r \in Requests, Arrive(r) \/ Lock(r) \/ Take(r) \/ Park(r)
        PROVE  AnswerInv(q)'
    <3>1. PICK v \in {"queueing", "counting", "adding", "handling", "parked"} :
            pc' = [pc EXCEPT ![r] = v]
      BY <2>4 DEF Arrive, Lock, Take, Park
    <3>2. UNCHANGED answer /\ pc[r] \notin {"releasing", "done"}
      BY <2>4 DEF Arrive, Lock, Take, Park
    <3>3. QED
      BY <2>2, <3>1, <3>2
  <2>5. ASSUME NEW r \in Requests, Count(r) PROVE AnswerInv(q)'
    BY <2>2, <2>3, <2>5 DEF Count, Early
  <2>6. ASSUME NEW r \in Requests, Add(r) PROVE AnswerInv(q)'
    BY <2>2, <2>3, <2>6 DEF Add, Early
  <2>7. ASSUME NEW r \in Requests, Recount(r) PROVE AnswerInv(q)'
    BY <2>3, <2>7 DEF Recount, Early
  <2>8. ASSUME NEW r \in Requests, TimeOut(r) \/ Finish(r) PROVE AnswerInv(q)'
    BY <2>1, <2>8 DEF TimeOut, Finish, AnswerInv
  <2>9. ASSUME NEW r \in Requests, Release(r) PROVE AnswerInv(q)'
    <3>1. UNCHANGED answer /\ pc[r] = "releasing"
      BY <2>9 DEF Release
    <3>2. CASE pc' = [pc EXCEPT ![r] = "done"]
      BY <2>1, <3>1, <3>2 DEF AnswerInv
    <3>3. CASE parked[Lane(r)] # <<>>
      <4>1. PICK h \in Blocked(Lane(r)) :
              pc' = [pc EXCEPT ![r] = "done", ![h] = "handling"]
        BY <2>9, <3>3, PromotedIsBlocked
      <4>2. h \in Requests /\ pc[h] = "parked"
        BY <4>1 DEF Blocked
      <4>3. QED
        BY <2>1, <3>1, <4>1, <4>2 DEF AnswerInv
    <3>4. QED
      BY <2>9, <3>2, <3>3 DEF Release
  <2>10. CASE UNCHANGED <<pc, answer>>
    BY <2>10 DEF AnswerInv
  <2>11. QED
    BY <2>4, <2>5, <2>6, <2>7, <2>8, <2>9, <2>10 DEF Next, Limiter, Tick, vars
<1>3. QED
  BY <1>1, <1>2, TypeCorrect, SlotsInvariant, PTL DEF Spec

\* Where a request stands in the gate.
LEMMA OutsideMeaning ==
  ASSUME AnswerTypes, NEW r \in Requests, AnswerInv(r)
  PROVE  pc[r] \notin {"handling", "releasing", "done"} <=> r \in Admission!Outside
<1>1. r \in UNION {Inside[l] : l \in Lanes} <=> pc[r] \in Holding
  BY DEF Inside, Holders, AnswerTypes
<1>2. r \in Refused \cup Served <=> pc[r] = "done"
  BY DEF Refused, Served, Refusals, AnswerInv, AnswerTypes
<1>3. QED
  BY <1>1, <1>2 DEF Admission!Outside, Holding, AnswerTypes, Points

\* The instance of FiniteSets that comes with the gate is FiniteSets.
LEMMA SameCardinality == \A S : Admission!Cardinality(S) = Cardinality(S)
BY DEF Admission!Cardinality, Cardinality, Admission!IsFiniteSet, IsFiniteSet

GateStep == [Admission!Next]_(Admission!vars)

\* What leaves places and answers alone is a stuttering step of the gate.
LEMMA GateStutter ==
  ASSUME UNCHANGED <<Inside, Refused, Served>>
  PROVE  GateStep
BY DEF GateStep, Admission!vars

\* A step of one request that is outside and stays there, or whose handler ends.
LEMMA StayStep ==
  ASSUME AnswerTypes, NEW r \in Requests, NEW v,
         pc' = [pc EXCEPT ![r] = v], UNCHANGED path,
         v # "done", pc[r] # "done", pc[r] \in Holding <=> v \in Holding,
         \/ UNCHANGED answer
         \/ answer' = [answer EXCEPT ![r] = "handled"] /\ answer[r] = "none"
  PROVE  GateStep
<1>1. \A l \in Lanes : Holders(l)' = Holders(l)
  BY DEF Holders, Lane, AnswerTypes
<1>2. Inside' = Inside
  BY <1>1 DEF Inside
<1>3. Refused' = Refused /\ Served' = Served
  BY DEF Refused, Served, Refusals, AnswerTypes
<1>4. QED
  BY <1>2, <1>3, GateStutter

\* A request that is done with a refusal was refused by the gate.
LEMMA RefuseStep ==
  ASSUME AnswerTypes, NEW r \in Requests, AnswerInv(r), NEW a \in Refusals,
         pc[r] \notin {"handling", "releasing", "done"}, UNCHANGED path,
         pc' = [pc EXCEPT ![r] = "done"], answer' = [answer EXCEPT ![r] = a]
  PROVE  GateStep
<1>1. \A l \in Lanes : Holders(l)' = Holders(l)
  BY DEF Holders, Holding, Lane, AnswerTypes
<1>2. Inside' = Inside
  BY <1>1 DEF Inside
<1>3. Refused' = Refused \cup {r} /\ Served' = Served
  BY DEF Refused, Served, Refusals, AnswerTypes
<1>4. r \in Admission!Outside
  BY OutsideMeaning
<1>5. QED
  BY <1>2, <1>3, <1>4 DEF GateStep, Admission!Next, Admission!Refuse

\* Take is an Enter of the gate.
LEMMA EnterStep ==
  ASSUME AnswerTypes, NEW r \in Requests, AnswerInv(r), \A l \in Lanes : SlotInv(l),
         Take(r)
  PROVE  GateStep
<1>1. /\ pc[r] = "queueing" /\ used[Lane(r)] < Capacity[Lane(r)] /\ Lane(r) \in Lanes
      /\ pc' = [pc EXCEPT ![r] = "handling"] /\ UNCHANGED <<path, answer>>
  BY DEF Take, AnswerTypes
<1>2. \A l \in Lanes : Holders(l)' = IF l = Lane(r) THEN Holders(l) \cup {r} ELSE Holders(l)
  BY <1>1 DEF Holders, Holding, Lane, AnswerTypes
<1>3. Inside' = [Inside EXCEPT ![Lane(r)] = @ \cup {r}]
  BY <1>1, <1>2 DEF Inside
<1>4. Refused' = Refused /\ Served' = Served
  BY <1>1 DEF Refused, Served, AnswerTypes
<1>5. r \in Admission!Outside
  BY <1>1, OutsideMeaning
<1>6. Admission!Cardinality(Inside[Lane(r)]) < Capacity[Lane(r)]
  BY <1>1, SameCardinality DEF Inside, SlotInv
<1>7. QED
  BY <1>1, <1>3, <1>4, <1>5, <1>6 DEF GateStep, Admission!Next, Admission!Enter

\* Release is a Leave of the gate, or a HandOver to the first in the queue.
LEMMA LeaveStep ==
  ASSUME TypeOK, \A q \in Requests : AnswerInv(q), \A l \in Lanes : SlotInv(l),
         NEW r \in Requests, Release(r)
  PROVE  GateStep
<1>1. /\ pc[r] = "releasing" /\ answer[r] = "handled" /\ UNCHANGED <<path, answer>>
      /\ AnswerTypes /\ Lane(r) \in Lanes /\ r \in Inside[Lane(r)]
  BY AnswerTyping
  DEF Release, AnswerInv, Inside, Holders, Holding, AnswerTypes
<1>2. ASSUME \A q \in Requests : pc'[q] = "done" <=> q = r \/ pc[q] = "done"
      PROVE  Refused' = Refused /\ Served' = Served \cup {r}
  BY <1>1, <1>2 DEF Refused, Served
<1>3. CASE pc' = [pc EXCEPT ![r] = "done"]
  <2>1. \A l \in Lanes : Holders(l)' = IF l = Lane(r) THEN Holders(l) \ {r} ELSE Holders(l)
    BY <1>1, <1>3 DEF Holders, Holding, Lane, AnswerTypes
  <2>2. Inside' = [Inside EXCEPT ![Lane(r)] = @ \ {r}]
    BY <1>1, <2>1 DEF Inside
  <2>3. Refused' = Refused /\ Served' = Served \cup {r}
    BY <1>1, <1>2, <1>3 DEF AnswerTypes
  <2>4. QED
    BY <1>1, <2>2, <2>3 DEF GateStep, Admission!Next, Admission!Leave
<1>4. ASSUME NEW h \in Blocked(Lane(r)),
             pc' = [pc EXCEPT ![r] = "done", ![h] = "handling"]
      PROVE  GateStep
  <2>1. h \in Requests /\ pc[h] = "parked" /\ Lane(h) = Lane(r) /\ h # r
    BY <1>1 DEF Blocked
  <2>2. /\ pc'[r] = "done" /\ pc'[h] = "handling"
        /\ \A q \in Requests : q # r /\ q # h => pc'[q] = pc[q]
    BY <1>1, <1>4, <2>1 DEF AnswerTypes
  <2>3. \A l \in Lanes :
          Holders(l)' = IF l = Lane(r) THEN (Holders(l) \ {r}) \cup {h} ELSE Holders(l)
    <3>1. \A q \in Requests : pc'[q] \in Holding <=> q = h \/ (q # r /\ pc[q] \in Holding)
      BY <2>1, <2>2 DEF Holding
    <3>2. \A q \in Requests : Lane(q)' = Lane(q)
      BY <1>1 DEF Lane
    <3>3. QED
      BY <2>1, <3>1, <3>2 DEF Holders
  <2>4. Inside' = [Inside EXCEPT ![Lane(r)] = (@ \ {r}) \cup {h}]
    BY <1>1, <2>3 DEF Inside
  <2>5. \A q \in Requests : pc'[q] = "done" <=> q = r \/ pc[q] = "done"
    BY <2>1, <2>2
  <2>6. h \in Admission!Outside
    BY <1>1, <2>1, OutsideMeaning
  <2>7. QED
    BY <1>1, <1>2, <2>1, <2>4, <2>5, <2>6 DEF GateStep, Admission!Next, Admission!HandOver
<1>5. QED
  BY <1>3, <1>4, PromotedIsBlocked DEF Release

\* Every behaviour of the limiter is one of the gate: at most Capacity handlers per
\* lane, each request in at most once, and no answer is revised.
THEOREM LimiterImplementsGate == Spec => GateSpec
<1>1. Init => Admission!Init
  <2> SUFFICES ASSUME Init PROVE Admission!Init
    OBVIOUS
  <2>1. \A l \in Lanes : Holders(l) = {}
    BY DEF Init, Holders, Holding
  <2>2. QED
    BY <2>1 DEF Init, Inside, Refused, Served, Refusals, Admission!Init
<1>2. /\ TypeOK /\ (\A l \in Lanes : SlotInv(l)) /\ (\A r \in Requests : AnswerInv(r))
      /\ [Next]_vars
      => GateStep
  <2> SUFFICES ASSUME TypeOK, \A l \in Lanes : SlotInv(l),
                      \A r \in Requests : AnswerInv(r), [Next]_vars
               PROVE  GateStep
    OBVIOUS
  <2>1. AnswerTypes
    BY AnswerTyping
  <2>2. ASSUME UNCHANGED <<pc, path, answer>>
        PROVE  GateStep
    <3>1. \A l \in Lanes : Holders(l)' = Holders(l)
      BY <2>2 DEF Holders, Lane
    <3>2. UNCHANGED <<Inside, Refused, Served>>
      BY <2>2, <3>1 DEF Inside, Refused, Served
    <3>3. QED
      BY <3>2, GateStutter
  <2>3. ASSUME NEW r \in Requests, NEW n, Decide(r, n), pc[r] \in Early, UNCHANGED path
        PROVE  GateStep
    <3>1. CASE n > ReqLimit
      <4>1. /\ pc' = [pc EXCEPT ![r] = "done"]
            /\ answer' = [answer EXCEPT ![r] = "tooManyRequests"]
        BY <2>3, <3>1 DEF Decide
      <4>2. QED
        BY <2>1, <2>3, <4>1, RefuseStep DEF Early, Refusals
    <3>2. CASE ~(n > ReqLimit)
      <4>1. pc' = [pc EXCEPT ![r] = "queueing"] /\ answer' = answer
        BY <2>1, <2>3, <3>2 DEF Decide, AnswerTypes
      <4>2. QED
        BY <2>1, <2>3, <4>1, StayStep DEF Early, Holding
    <3>3. QED
      BY <3>1, <3>2
  <2>4. ASSUME NEW r \in Requests, Arrive(r) \/ Lock(r) \/ Park(r) PROVE GateStep
    <3>1. PICK v \in {"queueing", "counting", "adding", "parked"} :
            pc' = [pc EXCEPT ![r] = v]
      BY <2>4 DEF Arrive, Lock, Park
    <3>2. UNCHANGED <<answer, path>> /\ pc[r] \notin {"handling", "releasing", "done"}
      BY <2>4 DEF Arrive, Lock, Park
    <3>3. QED
      BY <2>1, <3>1, <3>2, StayStep DEF Holding
  <2>5. ASSUME NEW r \in Requests, Count(r) PROVE GateStep
    BY <2>1, <2>3, <2>5, StayStep DEF Count, Early, Holding
  <2>6. ASSUME NEW r \in Requests, Add(r) PROVE GateStep
    BY <2>1, <2>3, <2>6, StayStep DEF Add, Early, Holding
  <2>7. ASSUME NEW r \in Requests, Recount(r) PROVE GateStep
    BY <2>3, <2>7 DEF Recount, Early
  <2>8. ASSUME NEW r \in Requests, TimeOut(r) PROVE GateStep
    BY <2>1, <2>8, RefuseStep DEF TimeOut, Refusals
  <2>9. ASSUME NEW r \in Requests, Finish(r) PROVE GateStep
    BY <2>1, <2>9, StayStep DEF Finish, AnswerInv, Holding
  <2>10. ASSUME NEW r \in Requests, Take(r) \/ Release(r) PROVE GateStep
    BY <2>1, <2>10, EnterStep, LeaveStep
  <2>11. CASE Tick \/ UNCHANGED vars
    BY <2>2, <2>11 DEF Tick, vars
  <2>12. QED
    BY <2>4, <2>5, <2>6, <2>7, <2>8, <2>9, <2>10, <2>11 DEF Next, Limiter
<1>3. QED
  BY <1>1, <1>2, TypeCorrect, SlotsInvariant, AnswersAreFinal, PTL
  DEF Spec, GateSpec, Admission!Spec, GateStep

--------------------------------------------------------------------------------
(* Who is refused.                                                         *)

\* Since the counter of c was added, as many requests of c passed as it counts, or
\* ReqLimit at least: those it counts beyond that were refused.
Enough(c, k) ==
  \/ Cardinality(Passed(c, k)) >= count[c]
  \/ Cardinality(Passed(c, k)) >= ReqLimit
QuotaInv(c) == ttl[c] > 0 => Enough(c, Window + 1 - ttl[c])

QuotaTypes ==
  /\ EscapeTypes
  /\ count \in [Clients -> Nat]
  /\ ReqLimit \in Int

\* The types the proofs about the quota need follow from TypeOK.
LEMMA QuotaTyping == TypeOK => QuotaTypes
BY EscapeTyping, ConstantTypes DEF TypeOK, StateTypes, QuotaTypes

\* The requests that passed can be counted,
LEMMA PassedFinite ==
  \A c, k : IsFiniteSet(Passed(c, k)) /\ Cardinality(Passed(c, k)) \in Nat
BY RequestsAssumption, FS_Subset, FS_CardinalityType DEF RequestsAssumption, Passed

\* A larger set of them counts more.
LEMMA PassedGrows ==
  ASSUME NEW S, NEW T, IsFiniteSet(T), S \subseteq T
  PROVE  Cardinality(S) <= Cardinality(T) /\ Cardinality(S) \in Nat /\ Cardinality(T) \in Nat
BY FS_Subset, FS_CardinalityType

\* also after a step.
LEMMA PassedFiniteNext == \A c, k : IsFiniteSet(Passed(c, k)')
<1>1. \A c, k : Passed(c, k)' \subseteq Requests
  BY DEF Passed
<1>2. QED
  BY <1>1, RequestsAssumption, FS_Subset DEF RequestsAssumption

\* A step that keeps the counter of c, and in which no passing is forgotten.
LEMMA QuotaKept ==
  ASSUME QuotaTypes, NEW c \in Clients, QuotaInv(c), UNCHANGED client,
         ttl'[c] = ttl[c], count'[c] = count[c],
         \A r \in Requests : age'[r] = age[r] \/ age'[r] = 0
  PROVE  QuotaInv(c)'
<1>1. /\ ttl[c] \in 0..Window /\ Window \in Nat /\ count[c] \in Nat /\ ReqLimit \in Int
      /\ \A r \in Requests : age[r] \in Nat
  BY DEF QuotaTypes, EscapeTypes
<1>2. PICK k \in 1..Window + 1 : k = Window + 1 - ttl[c]
  BY <1>1
<1>3. Passed(c, k) \subseteq Passed(c, k)'
  BY <1>1 DEF Passed
<1>4. /\ Cardinality(Passed(c, k)) <= Cardinality(Passed(c, k)')
      /\ Cardinality(Passed(c, k)) \in Nat /\ Cardinality(Passed(c, k)') \in Nat
  BY <1>3, PassedFiniteNext, PassedGrows
<1>5. Enough(c, k) => Enough(c, k)'
  BY <1>1, <1>4 DEF Enough
<1>6. QED
  BY <1>2, <1>5 DEF QuotaInv

\* The verdict on a request that the counter of its client has just counted.
LEMMA QuotaCounted ==
  ASSUME QuotaTypes, EarlyInv, NEW r \in Requests, pc[r] \in Early,
         NEW c \in Clients, client[r] = c,
         QuotaInv(c), UNCHANGED client, IncrementInt(c), Decide(r, count[c] + 1)
  PROVE  QuotaInv(c)'
<1>1. /\ ttl[c] \in 1..Window /\ count[c] \in Nat /\ Window \in Nat
      /\ ReqLimit \in Int /\ age[r] = Horizon /\ Horizon >= Window /\ Horizon \in Nat
  BY DEF QuotaTypes, EscapeTypes, IncrementInt, EarlyInv
<1>2. PICK k \in 1..Window : k = Window + 1 - ttl[c]
  BY <1>1
<1>3. ttl'[c] = ttl[c] /\ count'[c] = count[c] + 1 /\ Enough(c, k)
  BY <1>1, <1>2 DEF IncrementInt, QuotaTypes, QuotaInv
<1>4. \A q \in Requests : q # r => age'[q] = age[q]
  BY DEF Decide, QuotaTypes, EscapeTypes
<1>5. Cardinality(Passed(c, k)) \in Nat
  BY PassedFinite
<1>6. CASE count[c] + 1 > ReqLimit
  <2>1. age' = age
    BY <1>6 DEF Decide, QuotaTypes, EscapeTypes
  <2>2. Passed(c, k)' = Passed(c, k)
    BY <2>1 DEF Passed
  <2>3. Enough(c, k)'
    BY <1>1, <1>3, <1>5, <1>6, <2>2 DEF Enough
  <2>4. QED
    BY <1>2, <1>3, <2>3 DEF QuotaInv
<1>7. CASE ~(count[c] + 1 > ReqLimit)
  <2>1. age'[r] = 0
    BY <1>7 DEF Decide, QuotaTypes, EscapeTypes
  <2>2. Passed(c, k)' = Passed(c, k) \cup {r} /\ r \notin Passed(c, k)
    BY <1>1, <1>4, <2>1 DEF Passed
  <2>3. Cardinality(Passed(c, k)') = Cardinality(Passed(c, k)) + 1
    BY <2>2, PassedFinite, FS_AddElement
  <2>4. Enough(c, k)'
    BY <1>1, <1>3, <1>5, <2>3 DEF Enough
  <2>5. QED
    BY <1>2, <1>3, <2>4 DEF QuotaInv
<1>8. QED
  BY <1>6, <1>7

\* A fresh counter has counted the request that added it.
LEMMA QuotaAdded ==
  ASSUME QuotaTypes, NEW r \in Requests, NEW c \in Clients, client[r] = c,
         UNCHANGED client, Decide(r, 1), ttl'[c] = Window, count'[c] = 1
  PROVE  QuotaInv(c)'
<1>1. Window \in Nat \ {0} /\ ReqLimit \in Int
  BY DEF QuotaTypes, EscapeTypes
<1>2. IsFiniteSet(Passed(c, 1)') /\ Cardinality(Passed(c, 1)') \in Nat
  BY PassedFiniteNext, FS_CardinalityType
<1>3. CASE 1 > ReqLimit
  BY <1>1, <1>2, <1>3 DEF Enough, QuotaInv
<1>4. CASE ~(1 > ReqLimit)
  <2>1. age'[r] = 0
    BY <1>4 DEF Decide, QuotaTypes, EscapeTypes
  <2>2. r \in Passed(c, 1)'
    BY <2>1 DEF Passed
  <2>3. Cardinality(Passed(c, 1)') # 0
    BY <1>2, <2>2, FS_EmptySet
  <2>4. QED
    BY <1>1, <1>2, <2>3 DEF Enough, QuotaInv
<1>5. QED
  BY <1>3, <1>4

\* A tick keeps QuotaInv: the window it speaks of grows as the counter runs down.
LEMMA QuotaTick ==
  ASSUME QuotaTypes, NEW c \in Clients, QuotaInv(c), Tick
  PROVE  QuotaInv(c)'
<1>1. /\ ttl[c] \in 0..Window /\ ttl'[c] = IF ttl[c] > 0 THEN ttl[c] - 1 ELSE 0
      /\ Window \in Nat /\ Horizon \in Nat /\ Horizon >= Window
      /\ count'[c] = count[c] /\ count[c] \in Nat /\ ReqLimit \in Int /\ UNCHANGED client
  BY DEF Tick, QuotaTypes, EscapeTypes
<1>2. CASE ttl'[c] = 0
  BY <1>2 DEF QuotaInv
<1>3. CASE ttl'[c] > 0
  <2>1. PICK k \in 1..Window - 1 : k = Window + 1 - ttl[c]
    BY <1>1, <1>3
  <2>2. PICK m \in Nat : m = k + 1
    OBVIOUS
  <2>3. Enough(c, k) /\ Window + 1 - ttl'[c] = m
    BY <1>1, <1>3, <2>1, <2>2 DEF QuotaInv
  <2>4. \A r \in Requests : age[r] \in Nat /\ (age[r] < k => age'[r] = age[r] + 1)
    BY <1>1, <2>1 DEF Tick, QuotaTypes, EscapeTypes
  <2>5. Passed(c, k) \subseteq Passed(c, m)'
    BY <1>1, <2>2, <2>4 DEF Passed
  <2>6. /\ Cardinality(Passed(c, k)) <= Cardinality(Passed(c, m)')
        /\ Cardinality(Passed(c, k)) \in Nat /\ Cardinality(Passed(c, m)') \in Nat
    BY <2>5, PassedFiniteNext, PassedGrows
  <2>7. Enough(c, m)'
    BY <1>1, <2>3, <2>6 DEF Enough
  <2>8. QED
    BY <2>3, <2>7 DEF QuotaInv
<1>4. QED
  BY <1>1, <1>2, <1>3

\* Every live counter is matched by requests that passed while it lived.
THEOREM QuotaInvariant == Spec => []\A c \in Clients : QuotaInv(c)
<1> DEFINE Inv == \A c \in Clients : QuotaInv(c)
<1>1. Init => Inv
  BY DEF Init, QuotaInv
<1>2. QuotaTypes /\ EarlyInv /\ Inv /\ [Next]_vars => Inv'
  <2> SUFFICES ASSUME QuotaTypes, EarlyInv, Inv, [Next]_vars, NEW c \in Clients
               PROVE  QuotaInv(c)'
    OBVIOUS
  <2>1. ASSUME UNCHANGED <<client, count, ttl, age>>
        PROVE  QuotaInv(c)'
    BY <2>1, QuotaKept
  <2>2. ASSUME NEW r \in Requests, NEW n, Decide(r, n)
        PROVE  \A q \in Requests : age'[q] = age[q] \/ age'[q] = 0
    BY <2>2 DEF Decide, QuotaTypes, EscapeTypes
  <2>3. ASSUME NEW r \in Requests, UNCHANGED client, pc[r] \in Early,
               IncrementInt(client[r]), Decide(r, count[client[r]] + 1)
        PROVE  QuotaInv(c)'
    <3>1. CASE client[r] = c
      BY <2>3, <3>1, QuotaCounted
    <3>2. CASE client[r] # c
      <4>1. ttl'[c] = ttl[c] /\ count'[c] = count[c]
        BY <2>3, <3>2 DEF IncrementInt, QuotaTypes, EscapeTypes
      <4>2. QED
        BY <2>2, <2>3, <4>1, QuotaKept
    <3>3. QED
      BY <3>1, <3>2
  <2>4. ASSUME NEW r \in Requests, Arrive(r) PROVE QuotaInv(c)'
    <3>1. \A q \in Requests : age'[q] = age[q] \/ age'[q] = 0
      BY <2>4 DEF Arrive, QuotaTypes, EscapeTypes
    <3>2. QED
      BY <2>4, <3>1, QuotaKept DEF Arrive, limits
  <2>5. ASSUME NEW r \in Requests, Count(r) PROVE QuotaInv(c)'
    BY <2>1, <2>3, <2>5 DEF Count, Early
  <2>6. ASSUME NEW r \in Requests, Add(r) PROVE QuotaInv(c)'
    <3>1. CASE UNCHANGED <<count, ttl, age>>
      BY <2>1, <2>6, <3>1 DEF Add
    <3>2. CASE /\ count' = [count EXCEPT ![client[r]] = 1]
               /\ ttl' = [ttl EXCEPT ![client[r]] = Window]
               /\ Decide(r, 1)
      <4>1. UNCHANGED client
        BY <2>6 DEF Add
      <4>2. CASE client[r] = c
        <5>1. ttl'[c] = Window /\ count'[c] = 1
          BY <3>2, <4>2 DEF QuotaTypes, EscapeTypes
        <5>2. QED
          BY <3>2, <4>1, <4>2, <5>1, QuotaAdded
      <4>3. CASE client[r] # c
        <5>1. ttl'[c] = ttl[c] /\ count'[c] = count[c]
          BY <3>2, <4>3 DEF QuotaTypes, EscapeTypes
        <5>2. QED
          BY <2>2, <3>2, <4>1, <5>1, QuotaKept
      <4>4. QED
        BY <4>2, <4>3
    <3>3. QED
      BY <2>6, <3>1, <3>2 DEF Add, limits
  <2>7. ASSUME NEW r \in Requests, Recount(r) PROVE QuotaInv(c)'
    <3>1. pc[r] \in Early /\ UNCHANGED client
      BY <2>7 DEF Recount, Early
    <3>2. CASE UNCHANGED <<count, ttl>> /\ Decide(r, 1)
      BY <2>2, <3>1, <3>2, QuotaKept
    <3>3. QED
      BY <2>3, <2>7, <3>1, <3>2 DEF Recount
  <2>8. ASSUME NEW r \in Requests,
               Lock(r) \/ Take(r) \/ Park(r) \/ TimeOut(r) \/ Finish(r) \/ Release(r)
        PROVE  QuotaInv(c)'
    <3>1. UNCHANGED <<client, count, ttl, age>>
      BY <2>8 DEF Lock, Take, Park, TimeOut, Finish, Release, limits, history
    <3>2. QED
      BY <2>1, <3>1
  <2>9. CASE Tick
    BY <2>9, QuotaTick
  <2>10. CASE UNCHANGED vars
    BY <2>1, <2>10 DEF vars, limits, history
  <2>11. QED
    BY <2>4, <2>5, <2>6, <2>7, <2>8, <2>9, <2>10 DEF Next, Limiter
<1>3. QED
  BY <1>1, <1>2, QuotaTyping, TypeCorrect, MutexIsHeld, PTL DEF Spec

\* A client is refused for its count only after ReqLimit of its requests passed
\* in the last half minute.
THEOREM RefusalsAreDeserved == Spec => RefusedOnlyOverLimit
<1> DEFINE A == \A r \in Requests :
                  answer'[r] = "tooManyRequests" /\ answer[r] # "tooManyRequests" =>
                    Cardinality(Passed(client[r], Window)) >= ReqLimit
<1>1. TypeOK /\ (\A c \in Clients : QuotaInv(c)) /\ [Next]_vars => [A]_vars
  <2> SUFFICES ASSUME TypeOK, \A c \in Clients : QuotaInv(c), [Next]_vars,
                      NEW r \in Requests,
                      answer'[r] = "tooManyRequests", answer[r] # "tooManyRequests"
               PROVE  Cardinality(Passed(client[r], Window)) >= ReqLimit
    OBVIOUS
  <2>1. QuotaTypes
    BY QuotaTyping
  <2>2. PICK n \in Nat : n = Cardinality(Passed(client[r], Window))
    BY PassedFinite
  <2> SUFFICES n >= ReqLimit
    BY <2>2
  <2>3. ASSUME 1 > ReqLimit
        PROVE  n >= ReqLimit
    <3>1. ReqLimit \in Int
      BY <2>1 DEF QuotaTypes
    <3>2. QED
      BY <2>3, <3>1
  <2>4. ASSUME ttl[client[r]] > 0, count[client[r]] + 1 > ReqLimit
        PROVE  n >= ReqLimit
    <3>1. client[r] \in Clients /\ (\A q \in Requests : age[q] \in Nat)
      BY <2>1 DEF QuotaTypes, EscapeTypes
    <3>2. PICK w \in Nat : w = Window
      BY <2>1 DEF QuotaTypes, EscapeTypes
    <3>3. PICK u \in Nat : u = ttl[client[r]]
      BY <2>1, <3>1 DEF QuotaTypes, EscapeTypes
    <3>4. u <= w
      BY <2>1, <3>1, <3>2, <3>3 DEF QuotaTypes, EscapeTypes
    <3>5. PICK m \in Nat : m = count[client[r]]
      BY <2>1, <3>1 DEF QuotaTypes, EscapeTypes
    <3>6. u > 0
      BY <2>4, <3>3
    <3>7. m + 1 > ReqLimit
      BY <2>4, <3>5
    <3>8. PICK k \in 1..w : k = w + 1 - u
      BY <3>4, <3>6
    <3>9. Passed(client[r], k) \subseteq Passed(client[r], w)
      BY <3>1, <3>8 DEF Passed
    <3>10. PICK j \in Nat : j = Cardinality(Passed(client[r], k))
      BY PassedFinite
    <3>11. j <= n
      BY <2>2, <3>2, <3>9, <3>10, PassedFinite, PassedGrows
    <3>12. Enough(client[r], k)
      BY <2>4, <3>1, <3>2, <3>3, <3>6, <3>8 DEF QuotaInv
    <3>13. j >= m \/ j >= ReqLimit
      BY <3>5, <3>10, <3>12 DEF Enough
    <3>14. ReqLimit \in Int
      BY <2>1 DEF QuotaTypes
    <3>15. QED
      BY <3>7, <3>11, <3>13, <3>14
  <2>5. ASSUME NEW q \in Requests, NEW m, Decide(q, m)
        PROVE  q = r /\ m > ReqLimit
    BY <2>5 DEF Decide, TypeOK, StateTypes
  <2>6. ASSUME NEW q \in Requests, Count(q) \/ Add(q) \/ Recount(q)
        PROVE  n >= ReqLimit
    <3>1. CASE UNCHANGED answer
      BY <3>1
    <3>2. CASE Decide(q, 1)
      BY <2>3, <2>5, <3>2
    <3>3. CASE IncrementInt(client[q]) /\ Decide(q, count[client[q]] + 1)
      BY <2>4, <2>5, <3>3 DEF IncrementInt
    <3>4. QED
      BY <2>6, <3>1, <3>2, <3>3 DEF Count, Add, Recount
  <2>7. ASSUME NEW q \in Requests, TimeOut(q) \/ Finish(q)
        PROVE  FALSE
    BY <2>7 DEF TimeOut, Finish, TypeOK, StateTypes
  <2>8. CASE UNCHANGED answer
    BY <2>8
  <2>9. QED
    BY <2>6, <2>7, <2>8
    DEF Next, Limiter, Tick, Arrive, Lock, Take, Park, Release, vars
<1>2. QED
  BY <1>1, TypeCorrect, QuotaInvariant, PTL DEF Spec, RefusedOnlyOverLimit
--------------------------------------------------------------------------------
(* What the limiter grants in half a minute.                               *)

\* The requests of c that passed in the last half minute and were counted are those
\* of two counters: the one that lives now counted the new, and the one before it
\* the old, which passed before this one was added.
Counters(c, old, new) ==
  /\ old \subseteq Requests /\ new \subseteq Requests
  /\ Passed(c, Window) \ uncounted \subseteq old \cup new
  /\ Cardinality(old) <= ReqLimit /\ Cardinality(new) <= ReqLimit
  /\ ttl[c] > 0 => Cardinality(new) <= count[c]
  /\ \A q \in old : age[q] + ttl[c] >= Window
BoundInv(c) == ReqLimit > 0 => \E old, new : Counters(c, old, new)

\* Any requests can be counted, and none of them is left out without being missed.
LEMMA RequestsCounted ==
  ASSUME NEW S, S \subseteq Requests, NEW r \in Requests
  PROVE  /\ IsFiniteSet(S) /\ Cardinality(S) \in Nat
         /\ Cardinality(S \ {r}) <= Cardinality(S) /\ Cardinality(S \ {r}) \in Nat
         /\ Cardinality(S \cup {r}) <= Cardinality(S) + 1
         /\ Cardinality(S \cup {r}) \in Nat
<1>1. IsFiniteSet(S)
  BY RequestsAssumption, FS_Subset DEF RequestsAssumption
<1>2. IsFiniteSet(S \ {r}) /\ Cardinality(S \ {r}) <= Cardinality(S)
  BY <1>1, FS_Subset
<1>3. /\ IsFiniteSet(S \cup {r})
      /\ Cardinality(S \cup {r}) = IF r \in S THEN Cardinality(S) ELSE Cardinality(S) + 1
  BY <1>1, FS_AddElement
<1>4. /\ Cardinality(S) \in Nat /\ Cardinality(S \ {r}) \in Nat
      /\ Cardinality(S \cup {r}) \in Nat
  BY <1>1, <1>2, <1>3, FS_CardinalityType
<1>5. QED
  BY <1>1, <1>2, <1>3, <1>4

\* The union of two sets counts no more than both.
LEMMA UnionCounts ==
  ASSUME NEW S, NEW T, IsFiniteSet(S), IsFiniteSet(T)
  PROVE  /\ IsFiniteSet(S \cup T) /\ Cardinality(S \cup T) \in Nat
         /\ Cardinality(S \cup T) <= Cardinality(S) + Cardinality(T)
<1>1. /\ IsFiniteSet(S \cup T) /\ IsFiniteSet(S \cap T)
      /\ Cardinality(S \cup T) = Cardinality(S) + Cardinality(T) - Cardinality(S \cap T)
  BY FS_Union, FS_Intersection
<1>2. /\ Cardinality(S) \in Nat /\ Cardinality(T) \in Nat
      /\ Cardinality(S \cap T) \in Nat /\ Cardinality(S \cup T) \in Nat
  BY <1>1, FS_CardinalityType
<1>3. QED
  BY <1>1, <1>2

\* A step by which nobody passes on the counter of c.
LEMMA BoundKept ==
  ASSUME QuotaTypes, NEW c \in Clients, BoundInv(c), UNCHANGED client,
         ttl'[c] = ttl[c], count'[c] \in {count[c], count[c] + 1},
         uncounted \subseteq uncounted', NEW r \in Requests,
         \A q \in Requests : q # r => age'[q] = age[q],
         age'[r] = age[r] \/ r \in uncounted' \/ client[r] # c
  PROVE  BoundInv(c)'
<1> SUFFICES ASSUME ReqLimit > 0 PROVE \E old, new : Counters(c, old, new)'
  BY DEF BoundInv, ReqLimit
<1>1. PICK old, new : Counters(c, old, new)
  BY DEF BoundInv
<1>2. /\ count[c] \in Nat /\ ReqLimit \in Int /\ ReqLimit' = ReqLimit
      /\ Cardinality(new) \in Nat /\ Cardinality(old) \in Nat
      /\ Cardinality(old \ {r}) <= Cardinality(old) /\ Cardinality(old \ {r}) \in Nat
  BY <1>1, RequestsCounted DEF QuotaTypes, Counters, ReqLimit
<1>3. CASE age'[r] = age[r]
  <2>1. Passed(c, Window)' = Passed(c, Window)
    BY <1>3 DEF Passed
  <2>2. Counters(c, old, new)'
    BY <1>1, <1>2, <1>3, <2>1 DEF Counters
  <2>3. QED
    BY <2>2
<1>4. CASE r \in uncounted' \/ client[r] # c
  <2>1. Passed(c, Window)' \ uncounted' \subseteq (Passed(c, Window) \ uncounted) \ {r}
    BY <1>4 DEF Passed
  <2>2. Counters(c, old \ {r}, new)'
    BY <1>1, <1>2, <2>1 DEF Counters
  <2>3. QED
    BY <2>2
<1>5. QED
  BY <1>3, <1>4

\* A request that the living counter of c counts, and that passes, is one of the new.
LEMMA BoundCounted ==
  ASSUME QuotaTypes, NEW c \in Clients, BoundInv(c), UNCHANGED client,
         ttl[c] > 0, ttl'[c] = ttl[c], count'[c] = count[c] + 1,
         count[c] + 1 <= ReqLimit, uncounted \subseteq uncounted', NEW r \in Requests,
         \A q \in Requests : q # r => age'[q] = age[q]
  PROVE  BoundInv(c)'
<1> SUFFICES ASSUME ReqLimit > 0 PROVE \E old, new : Counters(c, old, new)'
  BY DEF BoundInv, ReqLimit
<1>1. PICK old, new : Counters(c, old, new)
  BY DEF BoundInv
<1>2. old \subseteq Requests /\ new \subseteq Requests /\ Cardinality(new) <= count[c]
  BY <1>1 DEF Counters
<1>3. /\ count[c] \in Nat /\ ReqLimit \in Int /\ ReqLimit' = ReqLimit
      /\ Cardinality(new) \in Nat /\ Cardinality(old) \in Nat
      /\ Cardinality(old \ {r}) <= Cardinality(old) /\ Cardinality(old \ {r}) \in Nat
      /\ Cardinality(new \cup {r}) <= Cardinality(new) + 1
      /\ Cardinality(new \cup {r}) \in Nat
  BY <1>2, RequestsCounted DEF QuotaTypes, ReqLimit
<1>4. Passed(c, Window)' \subseteq Passed(c, Window) \cup {r}
  BY DEF Passed
<1>5. Counters(c, old \ {r}, new \cup {r})'
  BY <1>1, <1>2, <1>3, <1>4 DEF Counters
<1>6. QED
  BY <1>5

\* When a counter is added, what the last one counted is old, and what was older is
\* more than half a minute ago.
LEMMA BoundAdded ==
  ASSUME QuotaTypes, NEW c \in Clients, BoundInv(c), UNCHANGED client,
         ttl[c] = 0, ttl'[c] = Window, count'[c] = 1,
         uncounted \subseteq uncounted', NEW r \in Requests,
         \A q \in Requests : q # r => age'[q] = age[q]
  PROVE  BoundInv(c)'
<1> SUFFICES ASSUME ReqLimit > 0 PROVE \E old, new : Counters(c, old, new)'
  BY DEF BoundInv, ReqLimit
<1>1. PICK old, new : Counters(c, old, new)
  BY DEF BoundInv
<1>2. old \subseteq Requests /\ new \subseteq Requests /\ Cardinality(new) <= ReqLimit
  BY <1>1 DEF Counters
<1>3. /\ ReqLimit \in Int /\ ReqLimit' = ReqLimit /\ Window \in Nat
      /\ \A q \in Requests : age[q] \in Nat
      /\ Cardinality(new) \in Nat
      /\ Cardinality(new \ {r}) <= Cardinality(new) /\ Cardinality(new \ {r}) \in Nat
      /\ Cardinality({r}) = 1
  <2>1. /\ ReqLimit \in Int /\ ReqLimit' = ReqLimit /\ Window \in Nat
        /\ \A q \in Requests : age[q] \in Nat
    BY DEF QuotaTypes, EscapeTypes, ReqLimit
  <2>2. Cardinality({r}) = 1
    BY FS_Singleton
  <2>3. QED
    BY <1>2, <2>1, <2>2, RequestsCounted
<1>4. Passed(c, Window) \ uncounted \subseteq new
  BY <1>1, <1>3 DEF Counters, Passed
<1>5. Passed(c, Window)' \subseteq Passed(c, Window) \cup {r}
  BY DEF Passed
<1>6. Counters(c, new \ {r}, {r})'
  BY <1>2, <1>3, <1>4, <1>5 DEF Counters
<1>7. QED
  BY <1>6

\* A tick keeps BoundInv: the old grow older as the counter runs down.
LEMMA BoundTick ==
  ASSUME QuotaTypes, NEW c \in Clients, BoundInv(c), Tick
  PROVE  BoundInv(c)'
<1> SUFFICES ASSUME ReqLimit > 0 PROVE \E old, new : Counters(c, old, new)'
  BY DEF BoundInv, ReqLimit
<1>1. PICK old, new : Counters(c, old, new)
  BY DEF BoundInv
<1>2. /\ ttl[c] \in Nat /\ ttl'[c] = IF ttl[c] > 0 THEN ttl[c] - 1 ELSE 0
      /\ Window \in Nat /\ Horizon \in Nat /\ Horizon >= Window
      /\ count'[c] = count[c] /\ ReqLimit' = ReqLimit /\ UNCHANGED <<client, uncounted>>
      /\ \A q \in Requests :
           age[q] \in 0..Horizon /\ age'[q] = IF age[q] < Horizon THEN age[q] + 1 ELSE Horizon
  BY DEF Tick, QuotaTypes, EscapeTypes, ReqLimit
<1>3. Passed(c, Window)' \subseteq Passed(c, Window)
  BY <1>2 DEF Passed
<1>4. \A q \in old : age'[q] + ttl'[c] >= Window
  <2> SUFFICES ASSUME NEW q \in old PROVE age'[q] + ttl'[c] >= Window
    OBVIOUS
  <2>1. q \in Requests /\ age[q] + ttl[c] >= Window
    BY <1>1 DEF Counters
  <2>2. QED
    BY <1>2, <2>1
<1>5. Counters(c, old, new)'
  BY <1>1, <1>2, <1>3, <1>4 DEF Counters
<1>6. QED
  BY <1>5

\* At any time two counters have counted what passed in the last half minute, but for
\* what escaped them.
THEOREM TwoCountersMeet == Spec => []\A c \in Clients : BoundInv(c)
<1> DEFINE Inv == \A c \in Clients : BoundInv(c)
<1>1. Init => Inv
  <2> SUFFICES ASSUME Init, NEW c \in Clients, ReqLimit > 0
               PROVE  Counters(c, {}, {})
    BY DEF BoundInv
  <2>1. Passed(c, Window) = {}
    BY ConfigAssumption, HistoryAssumption
    DEF Init, Passed, ConfigAssumption, HistoryAssumption
  <2>2. Cardinality({}) = 0 /\ ReqLimit \in Int
    BY FS_EmptySet, ConstantTypes
  <2>3. QED
    BY <2>1, <2>2 DEF Init, Counters
<1>2. QuotaTypes /\ Inv /\ [Next]_vars => Inv'
  <2> SUFFICES ASSUME QuotaTypes, Inv, [Next]_vars, NEW c \in Clients
               PROVE  BoundInv(c)'
    OBVIOUS
  <2>1. BoundInv(c)
    OBVIOUS
  <2>2. ASSUME UNCHANGED <<client, count, ttl, age, uncounted>>
        PROVE  BoundInv(c)'
    <3>1. Passed(c, Window)' = Passed(c, Window)
      BY <2>2 DEF Passed
    <3>2. QED
      BY <2>1, <2>2, <3>1 DEF BoundInv, Counters, ReqLimit
  <2>3. ASSUME NEW r \in Requests, NEW n, Decide(r, n)
        PROVE  /\ \A q \in Requests : q # r => age'[q] = age[q]
               /\ n > ReqLimit => age'[r] = age[r]
    BY <2>3 DEF Decide, QuotaTypes, EscapeTypes
  <2>4. ASSUME NEW r \in Requests, UNCHANGED <<client, uncounted>>,
               IncrementInt(client[r]), Decide(r, count[client[r]] + 1)
        PROVE  BoundInv(c)'
    <3>1. /\ \A q \in Requests : q # r => age'[q] = age[q]
          /\ count[client[r]] + 1 > ReqLimit => age'[r] = age[r]
      BY <2>3, <2>4
    <3>2. /\ count[c] \in Nat /\ ReqLimit \in Int /\ ttl'[c] = ttl[c]
          /\ count'[c] = IF client[r] = c THEN count[c] + 1 ELSE count[c]
      BY <2>4 DEF IncrementInt, QuotaTypes
    <3>3. CASE client[r] = c /\ count[c] + 1 <= ReqLimit
      BY <2>1, <2>4, <3>1, <3>2, <3>3, BoundCounted DEF IncrementInt
    <3>4. CASE client[r] # c \/ count[c] + 1 > ReqLimit
      BY <2>1, <2>4, <3>1, <3>2, <3>4, BoundKept
    <3>5. QED
      BY <3>2, <3>3, <3>4
  <2>5. ASSUME NEW r \in Requests, Arrive(r) PROVE BoundInv(c)'
    <3>1. CASE ReqLimit <= 0
      BY <3>1, ConstantTypes DEF BoundInv, ReqLimit
    <3>2. CASE ~(ReqLimit <= 0)
      <4>1. age' = age
        BY <2>5, <3>2 DEF Arrive, QuotaTypes, EscapeTypes
      <4>2. QED
        BY <2>2, <2>5, <4>1 DEF Arrive, limits
    <3>3. QED
      BY <3>1, <3>2
  <2>6. ASSUME NEW r \in Requests, Count(r) PROVE BoundInv(c)'
    BY <2>2, <2>4, <2>6 DEF Count
  <2>7. ASSUME NEW r \in Requests, Add(r) PROVE BoundInv(c)'
    <3>1. CASE UNCHANGED <<count, ttl, age>>
      BY <2>2, <2>7, <3>1 DEF Add
    <3>2. CASE /\ ttl[client[r]] = 0
               /\ count' = [count EXCEPT ![client[r]] = 1]
               /\ ttl' = [ttl EXCEPT ![client[r]] = Window]
               /\ Decide(r, 1)
      <4>1. UNCHANGED <<client, uncounted>> /\ \A q \in Requests : q # r => age'[q] = age[q]
        BY <2>3, <2>7, <3>2 DEF Add
      <4>2. CASE client[r] = c
        <5>1. ttl[c] = 0 /\ ttl'[c] = Window /\ count'[c] = 1
          BY <3>2, <4>2 DEF QuotaTypes, EscapeTypes
        <5>2. QED
          BY <2>1, <4>1, <5>1, BoundAdded
      <4>3. CASE client[r] # c
        <5>1. ttl'[c] = ttl[c] /\ count'[c] = count[c]
          BY <3>2, <4>3 DEF QuotaTypes, EscapeTypes
        <5>2. QED
          BY <2>1, <4>1, <4>3, <5>1, BoundKept
      <4>4. QED
        BY <4>2, <4>3
    <3>3. QED
      BY <2>7, <3>1, <3>2 DEF Add, limits
  <2>8. ASSUME NEW r \in Requests, Recount(r) PROVE BoundInv(c)'
    <3>1. CASE Decide(r, 1) /\ uncounted' = uncounted \cup {r} /\ UNCHANGED <<count, ttl>>
      <4>1. UNCHANGED client /\ \A q \in Requests : q # r => age'[q] = age[q]
        BY <2>3, <2>8, <3>1 DEF Recount
      <4>2. QED
        BY <2>1, <3>1, <4>1, BoundKept
    <3>2. QED
      BY <2>4, <2>8, <3>1 DEF Recount
  <2>9. ASSUME NEW r \in Requests,
               Lock(r) \/ Take(r) \/ Park(r) \/ TimeOut(r) \/ Finish(r) \/ Release(r)
        PROVE  BoundInv(c)'
    <3>1. UNCHANGED <<client, count, ttl, age, uncounted>>
      BY <2>9 DEF Lock, Take, Park, TimeOut, Finish, Release, limits, history
    <3>2. QED
      BY <2>2, <3>1
  <2>10. CASE Tick
    BY <2>1, <2>10, BoundTick
  <2>11. CASE UNCHANGED vars
    BY <2>2, <2>11 DEF vars, limits, history
  <2>12. QED
    BY <2>5, <2>6, <2>7, <2>8, <2>9, <2>10, <2>11 DEF Next, Limiter
<1>3. QED
  BY <1>1, <1>2, QuotaTyping, TypeCorrect, PTL DEF Spec

\* In half a minute a client passes at most twice the limit of a counter, and once more
\* if a request escaped counting.
THEOREM HalfMinuteIsBounded == Spec => []HalfMinuteBound
<1>1. (\A c \in Clients : BoundInv(c)) /\ AtMostOneUncounted => HalfMinuteBound
  <2> SUFFICES ASSUME \A c \in Clients : BoundInv(c), AtMostOneUncounted,
                      ReqLimit > 0, NEW c \in Clients
               PROVE  Cardinality(Passed(c, Window)) <= 2 * ReqLimit + 1
    BY DEF HalfMinuteBound
  <2>1. PICK old, new : Counters(c, old, new)
    BY DEF BoundInv
  <2> DEFINE escaped == uncounted \cap Passed(c, Window)
             covered == (old \cup new) \cup escaped
  <2>2. /\ IsFiniteSet(old) /\ IsFiniteSet(new) /\ IsFiniteSet(escaped)
        /\ Cardinality(old) \in Nat /\ Cardinality(new) \in Nat
        /\ Cardinality(escaped) \in Nat
    <3>1. old \subseteq Requests /\ new \subseteq Requests /\ escaped \subseteq Requests
      BY <2>1 DEF Counters, Passed
    <3>2. QED
      BY <3>1, RequestsAssumption, FS_Subset, FS_CardinalityType DEF RequestsAssumption
  <2>3. /\ IsFiniteSet(old \cup new)
        /\ Cardinality(old \cup new) <= Cardinality(old) + Cardinality(new)
        /\ Cardinality(old \cup new) \in Nat
    BY <2>2, UnionCounts
  <2>4. /\ IsFiniteSet(covered) /\ Cardinality(covered) \in Nat
        /\ Cardinality(covered) <= Cardinality(old \cup new) + Cardinality(escaped)
    BY <2>2, <2>3, UnionCounts
  <2>5. Passed(c, Window) \subseteq covered
    BY <2>1 DEF Counters
  <2>6. /\ Cardinality(Passed(c, Window)) <= Cardinality(covered)
        /\ Cardinality(Passed(c, Window)) \in Nat
    <3> HIDE DEF covered
    <3>1. QED
      BY <2>4, <2>5, PassedGrows
  <2>7. Cardinality(escaped) <= 1
    BY DEF AtMostOneUncounted
  <2>8. Cardinality(old) <= ReqLimit /\ Cardinality(new) <= ReqLimit /\ ReqLimit \in Int
    BY <2>1, ConstantTypes DEF Counters
  <2> HIDE DEF escaped, covered
  <2>9. QED
    BY <2>2, <2>3, <2>4, <2>6, <2>7, <2>8
<1>2. QED
  BY <1>1, TwoCountersMeet, EscapesAreRare, PTL

--------------------------------------------------------------------------------
(* Nobody is left behind.                                                  *)

\* Whoever holds limiter.mutex is between its Lock and its verdict.
HeldInv == mutex # NoRequest => pc[mutex] \in {"adding", "recounting"}

\* The first in a channel's wait queue is blocked on that channel.
LEMMA HeadIsBlocked ==
  ASSUME NEW l \in Lanes, SlotInv(l), parked[l] # <<>>
  PROVE  Head(parked[l]) \in Blocked(l)
BY TailLists DEF SlotInv, QueueInv

\* checkReqLimit never leaves with its mutex: whoever waits for it waits for a request
\* that has only the Add and the increment before it, which wait for nothing.
THEOREM MutexIsGivenBack == Spec => []HeldInv
<1>1. Init => HeldInv
  BY DEF Init, HeldInv
<1>2. TypeOK /\ (\A l \in Lanes : SlotInv(l)) /\ MutexInv /\ HeldInv /\ [Next]_vars =>
        HeldInv'
  <2> SUFFICES ASSUME TypeOK, \A l \in Lanes : SlotInv(l), MutexInv, HeldInv, [Next]_vars,
                      mutex' # NoRequest
               PROVE  pc'[mutex'] \in {"adding", "recounting"}
    BY DEF HeldInv
  <2>1. /\ pc \in [Requests -> Points]
        /\ mutex # NoRequest => mutex \in Requests
    BY DEF TypeOK, StateTypes
  <2>2. ASSUME NEW r \in Requests, pc[r] \notin {"adding", "recounting"}, UNCHANGED mutex,
               \A q \in Requests : q # r => pc'[q] = pc[q] \/ pc[q] = "parked"
        PROVE  pc'[mutex'] \in {"adding", "recounting"}
    BY <2>1, <2>2 DEF HeldInv
  <2>3. ASSUME NEW r \in Requests, Arrive(r) \/ Take(r) \/ Park(r) \/ TimeOut(r) \/ Finish(r)
        PROVE  pc'[mutex'] \in {"adding", "recounting"}
    <3>1. pc[r] \notin {"adding", "recounting"} /\ UNCHANGED mutex
      BY <2>3 DEF Arrive, Take, Park, TimeOut, Finish, limits
    <3>2. \A q \in Requests : q # r => pc'[q] = pc[q]
      BY <2>1, <2>3 DEF Arrive, Take, Park, TimeOut, Finish
    <3>3. QED
      BY <2>2, <3>1, <3>2
  <2>4. ASSUME NEW r \in Requests, Count(r) PROVE pc'[mutex'] \in {"adding", "recounting"}
    <3>1. pc[r] \notin {"adding", "recounting"} /\ UNCHANGED mutex
      BY <2>4 DEF Count
    <3>2. \A q \in Requests : q # r => pc'[q] = pc[q]
      BY <2>1, <2>4 DEF Count, Decide
    <3>3. QED
      BY <2>2, <3>1, <3>2
  <2>5. ASSUME NEW r \in Requests, Lock(r) PROVE pc'[mutex'] \in {"adding", "recounting"}
    BY <2>1, <2>5 DEF Lock
  <2>6. ASSUME NEW r \in Requests, Add(r) PROVE pc'[mutex'] \in {"adding", "recounting"}
    <3>1. mutex = r
      BY <2>6 DEF Add, MutexInv
    <3>2. QED
      BY <2>1, <2>6, <3>1 DEF Add, limits
  <2>7. ASSUME NEW r \in Requests, Recount(r) PROVE pc'[mutex'] \in {"adding", "recounting"}
    BY <2>7 DEF Recount
  <2>8. ASSUME NEW r \in Requests, Release(r) PROVE pc'[mutex'] \in {"adding", "recounting"}
    <3>1. UNCHANGED mutex /\ pc[r] = "releasing"
      BY <2>8 DEF Release, limits
    <3>2. ASSUME NEW q \in Requests, pc[q] \in {"adding", "recounting"}, pc'[q] # pc[q]
          PROVE  parked[Lane(r)] # <<>> /\ q = Head(parked[Lane(r)])
      BY <2>1, <2>8, <3>2 DEF Release
    <3>3. \A q \in Requests : pc[q] \in {"adding", "recounting"} => pc'[q] = pc[q]
      BY <3>2, HeadIsBlocked, LaneTypes DEF Blocked, TypeOK
    <3>4. QED
      BY <2>1, <3>1, <3>3 DEF HeldInv
  <2>9. CASE Tick \/ UNCHANGED vars
    BY <2>9 DEF Tick, vars, limits, HeldInv
  <2>10. QED
    BY <2>3, <2>4, <2>5, <2>6, <2>7, <2>8, <2>9 DEF Next, Limiter
<1>3. QED
  BY <1>1, <1>2, TypeCorrect, SlotsInvariant, MutexIsHeld, PTL DEF Spec

\* The deferred releaseResource never waits: whoever is about to take a token out of its
\* channel has one there, its own.
THEOREM ReleaseFindsItsToken ==
  Spec => [](\A r \in Requests : pc[r] = "releasing" => used[Lane(r)] > 0)
<1>1. TypeOK /\ (\A l \in Lanes : SlotInv(l)) =>
        \A r \in Requests : pc[r] = "releasing" => used[Lane(r)] > 0
  <2> SUFFICES ASSUME TypeOK, \A l \in Lanes : SlotInv(l),
                      NEW r \in Requests, pc[r] = "releasing"
               PROVE  used[Lane(r)] > 0
    OBVIOUS
  <2>1. Lane(r) \in Lanes /\ r \in Holders(Lane(r))
    BY LaneTypes DEF TypeOK, Holders, Holding
  <2>2. Cardinality(Holders(Lane(r))) \in Nat \ {0}
    BY <2>1, HoldersFinite, FS_CardinalityType, FS_EmptySet
  <2>3. QED
    BY <2>1, <2>2 DEF SlotInv
<1>2. QED
  BY <1>1, TypeCorrect, SlotsInvariant, PTL

\* Every request that is blocked on a channel is in its wait queue.
Queued(r) == \E i \in 1..Len(parked[Lane(r)]) : parked[Lane(r)][i] = r
QueuedInv == \A r \in Requests : pc[r] = "parked" => Queued(r)

\* The newcomer of a queue is in it, and so is everybody who was.
LEMMA AppendFinds ==
  ASSUME NEW S, NEW s \in Seq(S), NEW x \in S, NEW y,
         y = x \/ \E i \in 1..Len(s) : s[i] = y
  PROVE  \E i \in 1..Len(Append(s, x)) : Append(s, x)[i] = y
<1>1. /\ Len(s) \in Nat /\ Len(Append(s, x)) = Len(s) + 1
      /\ \A i \in 1..Len(s) : Append(s, x)[i] = s[i]
      /\ Append(s, x)[Len(s) + 1] = x
  BY AppendProperties, LenProperties
<1>2. CASE y = x
  <2>1. Len(s) + 1 \in 1..Len(Append(s, x))
    BY <1>1
  <2>2. QED
    BY <1>1, <1>2, <2>1
<1>3. CASE \E i \in 1..Len(s) : s[i] = y
  <2>1. PICK i \in 1..Len(s) : s[i] = y
    BY <1>3
  <2>2. i \in 1..Len(Append(s, x)) /\ Append(s, x)[i] = y
    BY <1>1, <2>1
  <2>3. QED
    BY <2>2
<1>4. QED
  BY <1>2, <1>3

\* Who is elsewhere in a queue stays in it when one place is taken out,
LEMMA RemoveAtFinds ==
  ASSUME NEW S, NEW s \in Seq(S), NEW i \in 1..Len(s), NEW y, y # s[i],
         \E j \in 1..Len(s) : s[j] = y
  PROVE  \E j \in 1..Len(RemoveAt(s, i)) : RemoveAt(s, i)[j] = y
<1>1. /\ Len(s) \in Nat /\ Len(RemoveAt(s, i)) = Len(s) - 1
      /\ \A j \in 1..Len(s) - 1 : RemoveAt(s, i)[j] = s[IF j < i THEN j ELSE j + 1]
  BY RemoveAtIsShift, LenProperties
<1>2. PICK j \in 1..Len(s) : s[j] = y
  OBVIOUS
<1> DEFINE k == IF j < i THEN j ELSE j - 1
<1>3. k \in 1..Len(s) - 1 /\ (IF k < i THEN k ELSE k + 1) = j
  BY <1>1, <1>2
<1> HIDE DEF k
<1>4. k \in 1..Len(RemoveAt(s, i)) /\ RemoveAt(s, i)[k] = y
  BY <1>1, <1>2, <1>3
<1>5. QED
  BY <1>4

\* and when its head is.
LEMMA TailFinds ==
  ASSUME NEW S, NEW s \in Seq(S), s # <<>>, NEW y, y # Head(s),
         \E j \in 1..Len(s) : s[j] = y
  PROVE  \E j \in 1..Len(Tail(s)) : Tail(s)[j] = y
<1>1. /\ Len(s) \in Nat \ {0} /\ Head(s) = s[1] /\ Len(Tail(s)) = Len(s) - 1
      /\ \A j \in 1..Len(Tail(s)) : Tail(s)[j] = s[j + 1]
  BY EmptySeq, LenProperties, HeadTailProperties
<1>2. PICK j \in 1..Len(s) : s[j] = y
  OBVIOUS
<1>3. j - 1 \in 1..Len(Tail(s)) /\ (j - 1) + 1 = j
  BY <1>1, <1>2
<1>4. Tail(s)[j - 1] = y
  BY <1>1, <1>2, <1>3
<1>5. QED
  BY <1>3, <1>4

\* Nobody is lost between the queue and the timer: a blocked request is handed the next
\* slots in its turn, and when its timer fires it finds its place to give up.
THEOREM NobodyIsLost == Spec => []QueuedInv
<1>1. Init => QueuedInv
  BY DEF Init, QueuedInv
<1>2. TypeOK /\ (\A l \in Lanes : SlotInv(l)) /\ QueuedInv /\ [Next]_vars => QueuedInv'
  <2> SUFFICES ASSUME TypeOK, \A l \in Lanes : SlotInv(l), QueuedInv, [Next]_vars,
                      NEW q \in Requests, pc'[q] = "parked"
               PROVE  Queued(q)'
    BY DEF QueuedInv
  <2>1. /\ pc \in [Requests -> Points] /\ parked \in [Lanes -> Seq(Requests)]
        /\ \A r \in Requests : Lane(r) \in Lanes
    BY LaneTypes DEF TypeOK, StateTypes
  <2>2. ASSUME UNCHANGED <<path, parked>>, pc[q] = "parked" PROVE Queued(q)'
    BY <2>2 DEF QueuedInv, Queued, Lane
  <2>3. ASSUME NEW r \in Requests, Arrive(r) \/ Lock(r) \/ Take(r) \/ Finish(r)
        PROVE  Queued(q)'
    <3>1. UNCHANGED <<path, parked>> /\ pc[q] = "parked"
      BY <2>1, <2>3 DEF Arrive, Lock, Take, Finish, slots
    <3>2. QED
      BY <2>2, <3>1
  <2>4. ASSUME NEW r \in Requests, Count(r) \/ Add(r) \/ Recount(r) PROVE Queued(q)'
    <3>1. UNCHANGED <<path, parked>>
      BY <2>4 DEF Count, Add, Recount, slots
    <3>2. pc[q] = "parked"
      BY <2>1, <2>4 DEF Count, Add, Recount, Decide
    <3>3. QED
      BY <2>2, <3>1, <3>2
  <2>5. ASSUME NEW r \in Requests, Park(r) PROVE Queued(q)'
    <3>1. /\ Lane(q)' = Lane(q)
          /\ q = r \/ pc[q] = "parked"
          /\ parked' = [parked EXCEPT ![Lane(r)] = Append(@, r)]
      BY <2>1, <2>5 DEF Park, Lane
    <3>2. q = r \/ Queued(q)
      BY <3>1 DEF QueuedInv
    <3>3. CASE Lane(q) = Lane(r)
      <4>1. parked'[Lane(q)] = Append(parked[Lane(q)], r)
        BY <2>1, <3>1, <3>3
      <4>2. \E i \in 1..Len(parked'[Lane(q)]) : parked'[Lane(q)][i] = q
        BY <2>1, <3>2, <4>1, AppendFinds DEF Queued
      <4>3. QED
        BY <3>1, <4>2 DEF Queued
    <3>4. CASE Lane(q) # Lane(r)
      BY <2>1, <3>1, <3>2, <3>4 DEF Queued
    <3>5. QED
      BY <3>3, <3>4
  <2>6. ASSUME NEW r \in Requests, TimeOut(r) PROVE Queued(q)'
    <3>1. Lane(q)' = Lane(q) /\ q # r /\ pc[q] = "parked"
      BY <2>1, <2>6 DEF TimeOut, Lane
    <3>2. PICK i \in 1..Len(parked[Lane(r)]) :
            /\ parked[Lane(r)][i] = r
            /\ parked' = [parked EXCEPT ![Lane(r)] = RemoveAt(@, i)]
      BY <2>6 DEF TimeOut
    <3>3. Queued(q)
      BY <3>1 DEF QueuedInv
    <3>4. CASE Lane(q) = Lane(r)
      <4>1. parked'[Lane(q)] = RemoveAt(parked[Lane(q)], i) /\ i \in 1..Len(parked[Lane(q)])
        BY <2>1, <3>2, <3>4
      <4>2. \E j \in 1..Len(parked'[Lane(q)]) : parked'[Lane(q)][j] = q
        <5> DEFINE s == parked[Lane(q)]
                   t == RemoveAt(s, i)
        <5>1. s \in Seq(Requests) /\ i \in 1..Len(s) /\ q # s[i]
          BY <2>1, <3>1, <3>2, <3>4, <4>1
        <5>2. \E j \in 1..Len(s) : s[j] = q
          BY <3>3 DEF Queued
        <5> HIDE DEF s
        <5>3. \E j \in 1..Len(t) : t[j] = q
          BY <5>1, <5>2, RemoveAtFinds, Z3
        <5>4. parked'[Lane(q)] = t
          BY <4>1 DEF s
        <5> HIDE DEF t
        <5>5. QED
          BY <5>3, <5>4
      <4>3. QED
        BY <3>1, <4>2 DEF Queued
    <3>5. CASE Lane(q) # Lane(r)
      <4>1. parked'[Lane(q)] = parked[Lane(q)]
        BY <2>1, <3>2, <3>5
      <4>2. QED
        BY <3>1, <3>3, <4>1 DEF Queued
    <3>6. QED
      BY <3>4, <3>5
  <2>7. ASSUME NEW r \in Requests, Release(r) PROVE Queued(q)'
    <3>1. Lane(q)' = Lane(q)
      BY <2>7 DEF Release, Lane
    <3>2. CASE parked[Lane(r)] = <<>>
      <4>1. UNCHANGED <<path, parked>> /\ pc[q] = "parked"
        BY <2>1, <2>7, <3>2 DEF Release
      <4>2. QED
        BY <2>2, <4>1
    <3>3. CASE parked[Lane(r)] # <<>>
      <4>1. /\ parked' = [parked EXCEPT ![Lane(r)] = Tail(@)]
            /\ pc' = [pc EXCEPT ![r] = "done", ![Head(parked[Lane(r)])] = "handling"]
        BY <2>7, <3>3 DEF Release
      <4>2. pc[q] = "parked" /\ q # Head(parked[Lane(r)])
        BY <2>1, <4>1
      <4>3. Queued(q)
        BY <4>2 DEF QueuedInv
      <4>4. CASE Lane(q) = Lane(r)
        <5>1. parked'[Lane(q)] = Tail(parked[Lane(q)])
          BY <2>1, <4>1, <4>4
        <5>2. \E j \in 1..Len(parked'[Lane(q)]) : parked'[Lane(q)][j] = q
          <6> DEFINE s == parked[Lane(q)]
          <6>1. s \in Seq(Requests) /\ s # <<>> /\ q # Head(s)
            BY <2>1, <3>3, <4>2, <4>4
          <6>2. \E j \in 1..Len(s) : s[j] = q
            BY <4>3 DEF Queued
          <6> HIDE DEF s
          <6>3. \E j \in 1..Len(Tail(s)) : Tail(s)[j] = q
            BY <6>1, <6>2, TailFinds
          <6>4. QED
            BY <5>1, <6>3 DEF s
        <5>3. QED
          BY <3>1, <5>2 DEF Queued
      <4>5. CASE Lane(q) # Lane(r)
        <5>1. parked'[Lane(q)] = parked[Lane(q)]
          BY <2>1, <4>1, <4>5
        <5>2. QED
          BY <3>1, <4>3, <5>1 DEF Queued
      <4>6. QED
        BY <4>4, <4>5
    <3>4. QED
      BY <3>2, <3>3
  <2>8. CASE Tick \/ UNCHANGED vars
    BY <2>2, <2>8 DEF Tick, vars, slots
  <2>9. QED
    BY <2>3, <2>4, <2>5, <2>6, <2>7, <2>8 DEF Next, Limiter
<1>3. QED
  BY <1>1, <1>2, TypeCorrect, SlotsInvariant, PTL DEF Spec

\* First come, first served: a slot that is given back goes to the request that has
\* been blocked the longest, and no newcomer takes a slot past those that are blocked.
InTurn ==
  \A r \in Requests : pc[r] # "handling" /\ pc'[r] = "handling" =>
    IF pc[r] = "parked" THEN parked[Lane(r)][1] = r ELSE parked[Lane(r)] = <<>>

\* The channels are fair: requests get their slots in the order in which they came to
\* wait for them.
THEOREM SlotsAreGivenInTurn == Spec => [][InTurn]_vars
<1>1. TypeOK /\ (\A l \in Lanes : SlotInv(l)) /\ [Next]_vars => [InTurn]_vars
  <2> SUFFICES ASSUME TypeOK, \A l \in Lanes : SlotInv(l), [Next]_vars,
                      NEW q \in Requests, pc[q] # "handling", pc'[q] = "handling"
               PROVE  IF pc[q] = "parked" THEN parked[Lane(q)][1] = q
                      ELSE parked[Lane(q)] = <<>>
    BY DEF InTurn
  <2>1. /\ pc \in [Requests -> Points] /\ parked \in [Lanes -> Seq(Requests)]
        /\ used \in [Lanes -> Nat] /\ \A r \in Requests : Lane(r) \in Lanes
    BY LaneTypes DEF TypeOK, StateTypes
  <2>2. ASSUME NEW r \in Requests, Take(r)
        PROVE  pc[q] # "parked" /\ parked[Lane(q)] = <<>>
    <3>1. q = r /\ pc[q] = "queueing" /\ used[Lane(q)] < Capacity[Lane(q)]
      BY <2>1, <2>2 DEF Take
    <3>2. used[Lane(q)] \in Nat /\ used[Lane(q)] # Capacity[Lane(q)]
      BY <2>1, <3>1, ConstantTypes
    <3>3. QED
      BY <2>1, <3>1, <3>2 DEF SlotInv, QueueInv
  <2>3. ASSUME NEW r \in Requests, Release(r)
        PROVE  pc[q] = "parked" /\ parked[Lane(q)][1] = q
    <3>1. parked[Lane(r)] # <<>> /\ q = Head(parked[Lane(r)])
      BY <2>1, <2>3 DEF Release
    <3>2. q \in Blocked(Lane(r))
      BY <2>1, <3>1, HeadIsBlocked
    <3>3. parked[Lane(r)][1] = q
      BY <2>1, <3>1, HeadTailProperties
    <3>4. QED
      BY <3>2, <3>3 DEF Blocked
  <2>4. ASSUME NEW r \in Requests,
               Arrive(r) \/ Count(r) \/ Lock(r) \/ Add(r) \/ Recount(r) \/ Park(r)
               \/ TimeOut(r) \/ Finish(r)
        PROVE  FALSE
    BY <2>1, <2>4 DEF Arrive, Count, Lock, Add, Recount, Park, TimeOut, Finish, Decide
  <2>5. CASE Tick \/ UNCHANGED vars
    BY <2>5 DEF Tick, vars
  <2>6. QED
    BY <2>2, <2>3, <2>4, <2>5 DEF Next, Limiter
<1>2. QED
  BY <1>1, TypeCorrect, SlotsInvariant, PTL DEF Spec
=================================================================================
