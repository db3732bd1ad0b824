---------------------------- MODULE NetworkSizeProofs ----------------------------
(***************************************************************************)
(* Proofs about NetworkSize, for every set of calls, pool and life time.   *)
(***************************************************************************)
EXTENDS NetworkSize, FiniteSetTheorems, TLAPS

\* Every variable keeps its type.
THEOREM TypeCorrect == Spec => []TypeOK
<1> USE LifeAssumption DEF LifeAssumption
<1>1. Init => TypeOK
  BY DEF Init, TypeOK, Points
<1>2. TypeOK /\ [Next]_vars => TypeOK'
  <2> SUFFICES ASSUME TypeOK, [Next]_vars PROVE TypeOK'
    OBVIOUS
  <2> USE DEF TypeOK, Points, cache
  <2>1. ASSUME NEW c \in Calls, Ask(c) \/ Connect(c) PROVE TypeOK'
    BY <2>1 DEF Ask, Connect
  <2>2. ASSUME NEW c \in Calls, Enter(c) \/ Leave(c) PROVE TypeOK'
    BY <2>2 DEF Enter, Leave
  <2>3. ASSUME NEW c \in Calls, Look(c) \/ Lock(c) \/ Recheck(c) PROVE TypeOK'
    BY <2>3 DEF Look, Lock, Recheck
  <2>4. ASSUME NEW c \in Calls, Load(c) PROVE TypeOK'
    BY <2>4 DEF Load, Expiration, Results
  <2>5. CASE Tick
    BY <2>5 DEF Tick
  <2>6. CASE UNCHANGED vars
    BY <2>6 DEF vars
  <2>7. QED
    BY <2>1, <2>2, <2>3, <2>4, <2>5, <2>6 DEF Next, Local
<1>3. QED
  BY <1>1, <1>2, PTL DEF Spec

\* A call between Lock and Unlock of the loader holds its mutex.
LockInv == \A c \in Calls : pc[c] \in {"rechecking", "loading"} => mutex = c

\* However many calls find the cache empty at once, one of them asks the indexer.
THEOREM OneFlight == Spec => []SingleFlight
<1>1. Init => LockInv
  BY DEF Init, LockInv
<1>2. TypeOK /\ LockInv /\ [Next]_vars => LockInv'
  <2> SUFFICES ASSUME TypeOK, LockInv, [Next]_vars PROVE LockInv'
    OBVIOUS
  <2> USE DEF LockInv, TypeOK, cache
  <2>1. ASSUME NEW c \in Calls, Ask(c) \/ Connect(c) \/ Enter(c) \/ Leave(c) \/ Look(c)
        PROVE  LockInv'
    BY <2>1 DEF Ask, Connect, Enter, Leave, Look
  <2>2. ASSUME NEW c \in Calls, Lock(c) PROVE LockInv'
    BY <2>2, CallsAssumption DEF Lock, CallsAssumption
  <2>3. ASSUME NEW c \in Calls, Recheck(c) \/ Load(c) PROVE LockInv'
    BY <2>3 DEF Recheck, Load
  <2>4. CASE Tick \/ UNCHANGED vars
    BY <2>4 DEF Tick, vars
  <2>5. QED
    BY <2>1, <2>2, <2>3, <2>4 DEF Next, Local
<1>3. LockInv => SingleFlight
  BY DEF LockInv, SingleFlight
<1>4. QED
  BY <1>1, <1>2, <1>3, TypeCorrect, PTL DEF Spec

\* What an answer of the indexer has left to live and its age make up its expiration.
AnswerInv == cached # "none" => ttl + since >= Expiration(cached)

\* An answer of the indexer is kept until it is as old as its expiration.
THEOREM AnswersAreKept == Spec => []AnswerInv
<1> USE LifeAssumption DEF LifeAssumption
<1>1. Init => AnswerInv
  BY DEF Init, AnswerInv
<1>2. TypeOK /\ AnswerInv /\ [Next]_vars => AnswerInv'
  <2> SUFFICES ASSUME TypeOK, AnswerInv, [Next]_vars PROVE AnswerInv'
    OBVIOUS
  <2> USE DEF AnswerInv, TypeOK, Expiration
  <2>1. ASSUME NEW c \in Calls, Load(c) PROVE AnswerInv'
    BY <2>1 DEF Load, Results
  <2>2. CASE Tick
    BY <2>2 DEF Tick
  <2>3. ASSUME UNCHANGED cache PROVE AnswerInv'
    BY <2>3 DEF cache
  <2>4. QED
    BY <2>1, <2>2, <2>3
    DEF Next, Local, Ask, Connect, Enter, Leave, Look, Lock, Recheck, vars
<1>3. QED
  BY <1>1, <1>2, TypeCorrect, PTL DEF Spec

\* The indexer is asked again only after its last answer expired.
THEOREM AskedOnlyAfterExpiry == Spec => Throttled
<1> DEFINE Step == \A c \in Calls : pc[c] # "loading" /\ pc'[c] = "loading" /\ cached # "none" =>
                      since >= Expiration(cached)
<1>1. TypeOK /\ AnswerInv /\ [Next]_vars => [Step]_vars
  <2> SUFFICES ASSUME TypeOK, AnswerInv, [Next]_vars,
                      NEW c \in Calls, pc[c] # "loading", pc'[c] = "loading", cached # "none"
               PROVE  since >= Expiration(cached)
    OBVIOUS
  <2>1. PICK d \in Calls : Recheck(d)
    <3>1. ASSUME NEW d \in Calls, Ask(d) \/ Connect(d) \/ Enter(d) \/ Leave(d) \/ Look(d)
                                  \/ Lock(d) \/ Load(d)
          PROVE  FALSE
      BY <3>1 DEF Ask, Connect, Enter, Leave, Look, Lock, Load, TypeOK
    <3>2. ~Tick /\ ~UNCHANGED vars
      BY DEF Tick, vars
    <3>3. QED
      BY <3>1, <3>2 DEF Next, Local
  <2>2. ttl = 0
    BY <2>1 DEF Recheck, TypeOK
  <2>3. QED
    BY <2>2, LifeAssumption DEF AnswerInv, TypeOK, LifeAssumption
<1>2. QED
  BY <1>1, TypeCorrect, AnswersAreKept, PTL DEF Spec, Throttled

--------------------------------------------------------------------------------
(* Who waits for whom.                                                     *)

\* Where a call has what it came for, a connection or the mutex of the rewards, and
\* where it has the mutex of the loader as well.
Served == {"looking", "waiting", "rechecking", "loading", "leaving"}
Locked == {"rechecking", "loading"}

\* A resource is held exactly by the calls whose place in the code is between its
\* acquisition and its release, and by no more of them than it admits.
HoldersInv ==
  /\ \A c \in Calls : pc[c] = "entering" => c \in rewarding
  /\ \A c \in rewarding : pc[c] = "entering" \/ pc[c] \in Served
  /\ \A c \in Calls : rewardMutex = c <=> c \in rewarding /\ pc[c] \in Served
  /\ \A c \in Calls : c \in connected <=> c \notin rewarding /\ pc[c] \in Served
  /\ \A c \in Calls : mutex = c <=> pc[c] \in Locked
  /\ Cardinality(connected) <= MaxConns

\* What is acquired on the way to an answer is held until it is given back, and
\* nothing is kept after it: connections, the mutex of the rewards and that of the
\* loader, on the paths that end in an error too.
THEOREM HoldersAreOnTheirWay == Spec => []HoldersInv
<1>1. Init => HoldersInv
  BY CallsAssumption, PoolAssumption, FS_EmptySet
  DEF Init, HoldersInv, CallsAssumption, PoolAssumption, Served, Locked
<1>2. TypeOK /\ HoldersInv /\ [Next]_vars => HoldersInv'
  <2> SUFFICES ASSUME TypeOK, HoldersInv, [Next]_vars PROVE HoldersInv'
    OBVIOUS
  <2> USE CallsAssumption DEF TypeOK, HoldersInv, Served, Locked, CallsAssumption, cache
  <2>1. IsFiniteSet(connected) /\ Cardinality(connected) \in Nat
    BY FS_Subset, FS_CardinalityType
  <2>2. ASSUME NEW c \in Calls, Ask(c) PROVE HoldersInv'
    BY <2>2 DEF Ask
  <2>3. ASSUME NEW c \in Calls, Connect(c) PROVE HoldersInv'
    <3>1. /\ IsFiniteSet(connected \cup {c})
          /\ \/ Cardinality(connected \cup {c}) = Cardinality(connected)
             \/ Cardinality(connected \cup {c}) = Cardinality(connected) + 1
      BY <2>1, FS_AddElement
    <3>2. Cardinality(connected \cup {c}) <= Cardinality(connected) + 1
      BY <2>1, <3>1
    <3>3. Cardinality(connected') <= MaxConns
      BY <2>1, <2>3, <3>1, <3>2, PoolAssumption DEF Connect, PoolAssumption
    <3>4. QED
      BY <2>3, <3>3 DEF Connect
  <2>4. ASSUME NEW c \in Calls, Enter(c) PROVE HoldersInv'
    <3>1. /\ pc[c] = "entering" /\ rewardMutex = Nobody /\ rewardMutex' = c
          /\ pc'[c] = "looking" /\ \A d \in Calls \ {c} : pc'[d] = pc[d]
          /\ UNCHANGED <<rewarding, connected, mutex>>
      BY <2>4 DEF Enter
    <3>2. \A d \in Calls : rewardMutex' = d <=> d \in rewarding' /\ pc'[d] \in Served
      BY <3>1
    <3>3. QED
      BY <3>1, <3>2
  <2>5. ASSUME NEW c \in Calls, Leave(c) PROVE HoldersInv'
    <3>1. Cardinality(connected \ {c}) <= Cardinality(connected)
      BY <2>1, FS_Subset
    <3>2. Cardinality(connected \ {c}) \in Nat
      BY <2>1, FS_Subset, FS_CardinalityType
    <3>3. Cardinality(connected') <= MaxConns
      BY <2>1, <2>5, <3>1, <3>2, PoolAssumption DEF Leave, PoolAssumption
    <3>4. QED
      BY <2>5, <3>3 DEF Leave
  <2>6. ASSUME NEW c \in Calls, Look(c) PROVE HoldersInv'
    BY <2>6 DEF Look
  <2>7. ASSUME NEW c \in Calls, Lock(c) PROVE HoldersInv'
    BY <2>7 DEF Lock
  <2>8. ASSUME NEW c \in Calls, Recheck(c) PROVE HoldersInv'
    BY <2>8 DEF Recheck
  <2>9. ASSUME NEW c \in Calls, Load(c) PROVE HoldersInv'
    BY <2>9 DEF Load
  <2>10. CASE Tick \/ UNCHANGED vars
    BY <2>10 DEF Tick, vars
  <2>11. QED
    BY <2>2, <2>3, <2>4, <2>5, <2>6, <2>7, <2>8, <2>9, <2>10 DEF Next, Local
<1>3. QED
  BY <1>1, <1>2, TypeCorrect, PTL DEF Spec

\* The calls that c cannot go on without: those that hold the connections of an
\* exhausted pool or the mutex it has come to.
WaitsFor(c) ==
  {d \in Calls :
     \/ pc[c] = "querying" /\ Cardinality(connected) >= MaxConns /\ d \in connected
     \/ pc[c] = "entering" /\ rewardMutex = d
     \/ pc[c] = "waiting" /\ mutex = d}

\* A call that cannot take its next step, whatever the indexer does.
Blocked(c) ==
  \/ pc[c] = "querying" /\ ~(Cardinality(connected) < MaxConns)
  \/ pc[c] = "entering" /\ rewardMutex # Nobody
  \/ pc[c] = "waiting" /\ mutex # Nobody

\* Whoever is blocked waits for a call that is not, or for one that waits for it; and
\* the last in a chain of two waits is the call that has the loader's mutex.
ShortChains ==
  /\ \A c \in Calls : Blocked(c) =>
       \E d \in WaitsFor(c) : ~Blocked(d) \/ \E e \in WaitsFor(d) : ~Blocked(e)
  /\ \A c \in Calls : \A d \in WaitsFor(c) : \A e \in WaitsFor(d) :
       pc[e] \in Locked /\ ~Blocked(e)

\* No circle of waits: a query keeps its connection and the rewards their mutex while
\* they wait for the mutex of the loader, but whoever has that one needs neither, so
\* that all the waits end where the indexer is asked.
THEOREM WaitsAreNoCircle == Spec => []ShortChains
<1>1. TypeOK /\ HoldersInv => ShortChains
  <2> SUFFICES ASSUME TypeOK, HoldersInv PROVE ShortChains
    OBVIOUS
  <2>1. ASSUME NEW d \in Calls, NEW e \in WaitsFor(d), pc[d] \in Served
        PROVE  e \in Calls /\ pc[d] = "waiting" /\ pc[e] \in Locked /\ ~Blocked(e)
    BY <2>1 DEF WaitsFor, HoldersInv, Served, Locked, Blocked
  <2>2. ASSUME NEW c \in Calls, NEW d \in WaitsFor(c) PROVE d \in Calls /\ pc[d] \in Served
    BY <2>2 DEF WaitsFor, HoldersInv, Served, Locked
  <2>3. ASSUME NEW c \in Calls, Blocked(c) PROVE WaitsFor(c) # {}
    <3>1. CASE pc[c] = "querying" /\ ~(Cardinality(connected) < MaxConns)
      <4>1. Cardinality(connected) \in Nat
        BY CallsAssumption, FS_Subset, FS_CardinalityType DEF TypeOK, CallsAssumption
      <4>2. MaxConns \in Nat /\ Cardinality(connected) >= MaxConns
        BY <3>1, <4>1, PoolAssumption DEF PoolAssumption
      <4>3. connected # {}
        BY <4>2, PoolAssumption, FS_EmptySet DEF PoolAssumption
      <4>4. QED
        BY <3>1, <4>2, <4>3 DEF WaitsFor, TypeOK
    <3>2. CASE ~(pc[c] = "querying" /\ ~(Cardinality(connected) < MaxConns))
      BY <2>3, <3>2 DEF Blocked, WaitsFor, TypeOK
    <3>3. QED
      BY <3>1, <3>2
  <2>4. ASSUME NEW c \in Calls, Blocked(c)
        PROVE  \E d \in WaitsFor(c) : ~Blocked(d) \/ \E e \in WaitsFor(d) : ~Blocked(e)
    <3>1. PICK d \in WaitsFor(c) : TRUE
      BY <2>3, <2>4
    <3>2. d \in Calls /\ pc[d] \in Served
      BY <2>2, <3>1
    <3>3. ASSUME Blocked(d) PROVE \E e \in WaitsFor(d) : ~Blocked(e)
      BY <2>1, <2>3, <3>2, <3>3
    <3>4. QED
      BY <3>1, <3>3
  <2>5. QED
    BY <2>1, <2>2, <2>4 DEF ShortChains
<1>2. QED
  BY <1>1, TypeCorrect, HoldersAreOnTheirWay, PTL
=================================================================================
