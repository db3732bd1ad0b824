------------------------------- MODULE NetworkSize -------------------------------
(***************************************************************************)
(* The size of the network, which the indexer reports, and who waits for   *)
(* it: the cached loader (app/service/network_size_loader.go), the list of *)
(* oracle votings, which asks for it in the middle of reading its rows and *)
(* so with a connection of the database pool in hand                       *)
(* (app/db/postgres/contracts.go), and the service of estimated rewards,   *)
(* which asks for it under a mutex of its own (app/db/postgres/service.go).*)
(* That service has a cache too, but nothing ever stores into it: its two  *)
(* tests always find nil, every call takes the mutex, and the goroutine    *)
(* that sets the cache to nil each minute changes nothing.                 *)
(***************************************************************************)
EXTENDS Integers, FiniteSets

CONSTANTS
  Calls,       \* goroutines that query the database or ask for the rewards
  Nobody,      \* the holder of a free mutex
  MaxConns,    \* SetMaxOpenConns
  SuccessLife, \* successResponseExpiration, in ticks
  ErrLife      \* errResponseExpiration, in ticks

ASSUME CallsAssumption == IsFiniteSet(Calls) /\ Nobody \notin Calls
ASSUME PoolAssumption == MaxConns \in Nat \ {0}
ASSUME LifeAssumption ==
  ErrLife \in Nat \ {0} /\ SuccessLife \in Nat /\ SuccessLife >= ErrLife

VARIABLES
  pc,          \* where each call is
  rewarding,   \* the calls of estimatedOracleRewardsService.get
  rewardMutex, \* its mutex
  connected,   \* the calls that hold a connection of the pool
  mutex,       \* the mutex of cachedNetworkSizeLoader
  cached,      \* the item of its cache: "none", or what the indexer answered
  ttl,         \* the ticks that item has to live
  since        \* history: ticks since the indexer last answered

cache == <<cached, ttl, since>>
vars == <<pc, rewarding, rewardMutex, connected, mutex, cache>>

Points == {"idle", "querying", "entering", "looking", "waiting", "rechecking",
           "loading", "leaving"}
Results == {"size", "error"}

Init ==
  /\ pc = [c \in Calls |-> "idle"]
  /\ rewarding = {}
  /\ rewardMutex = Nobody
  /\ connected = {}
  /\ mutex = Nobody
  /\ cached = "none"
  /\ ttl = 0
  /\ since = SuccessLife

--------------------------------------------------------------------------------
(* The callers.                                                            *)

Ask(c) ==
  /\ pc[c] = "idle"
  /\ \/ /\ pc' = [pc EXCEPT ![c] = "querying"]
        /\ UNCHANGED rewarding
     \/ /\ pc' = [pc EXCEPT ![c] = "entering"]
        /\ rewarding' = rewarding \cup {c}
  /\ UNCHANGED <<rewardMutex, connected, mutex, cache>>

\* A query gets a connection.  Most only read their rows; a list of oracle votings
\* asks for the size of the network at the first row whose voting has a counting
\* block, and keeps the connection until its rows are closed.
Connect(c) ==
  /\ pc[c] = "querying"
  /\ Cardinality(connected) < MaxConns
  /\ connected' = connected \cup {c}
  /\ \E next \in {"looking", "leaving"} : pc' = [pc EXCEPT ![c] = next]
  /\ UNCHANGED <<rewarding, rewardMutex, mutex, cache>>

Enter(c) ==
  /\ pc[c] = "entering"
  /\ rewardMutex = Nobody
  /\ rewardMutex' = c
  /\ pc' = [pc EXCEPT ![c] = "looking"]
  /\ UNCHANGED <<rewarding, connected, mutex, cache>>

LockedLeave(c) ==
  /\ pc[c] = "leaving"
  /\ pc' = [pc EXCEPT ![c] = "idle"]
  /\ connected' = connected \ {c}
  /\ rewarding' = rewarding \ {c}
  /\ rewardMutex' = IF c \in rewarding /\ cached = "size" THEN Nobody ELSE rewardMutex
  /\ UNCHANGED <<mutex, cache>>

\* rows.Close, or the Unlock of get, which has one on its error path as well.
Leave(c) ==
  /\ pc[c] = "leaving"
  /\ pc' = [pc EXCEPT ![c] = "idle"]
  /\ connected' = connected \ {c}
  /\ rewarding' = rewarding \ {c}
  /\ rewardMutex' = IF c \in rewarding THEN Nobody ELSE rewardMutex
  /\ UNCHANGED <<mutex, cache>>

--------------------------------------------------------------------------------
(* cachedNetworkSizeLoader.Load.                                           *)

\* The first Get, without the mutex.
Look(c) ==
  /\ pc[c] = "looking"
  /\ pc' = [pc EXCEPT ![c] = IF ttl > 0 THEN "leaving" ELSE "waiting"]
  /\ UNCHANGED <<rewarding, rewardMutex, connected, mutex, cache>>

UnguardedLock(c) ==
  /\ pc[c] = "waiting"
  /\ mutex' = c
  /\ pc' = [pc EXCEPT ![c] = "rechecking"]
  /\ UNCHANGED <<rewarding, rewardMutex, connected, cache>>

Lock(c) ==
  /\ pc[c] = "waiting"
  /\ mutex = Nobody
  /\ mutex' = c
  /\ pc' = [pc EXCEPT ![c] = "rechecking"]
  /\ UNCHANGED <<rewarding, rewardMutex, connected, cache>>

SingleCheck(c) ==
  /\ pc[c] = "rechecking"
  /\ pc' = [pc EXCEPT ![c] = "loading"]
  /\ UNCHANGED <<rewarding, rewardMutex, connected, mutex, cache>>

\* The second Get, under the mutex.
Recheck(c) ==
  /\ pc[c] = "rechecking"
  /\ \/ /\ ttl > 0
        /\ mutex' = Nobody
        /\ pc' = [pc EXCEPT ![c] = "leaving"]
     \/ /\ ttl = 0
        /\ pc' = [pc EXCEPT ![c] = "loading"]
        /\ UNCHANGED mutex
  /\ UNCHANGED <<rewarding, rewardMutex, connected, cache>>

LongExpiration(r) == IF r = "size" THEN SuccessLife + 1 ELSE ErrLife

\* How long the answer r of the indexer is kept.
Expiration(r) == IF r = "size" THEN SuccessLife ELSE ErrLife

\* The indexer answers or fails; either is stored, and the mutex is let go.
Load(c) ==
  /\ pc[c] = "loading"
  /\ \E r \in Results : cached' = r /\ ttl' = Expiration(r)
  /\ since' = 0
  /\ mutex' = Nobody
  /\ pc' = [pc EXCEPT ![c] = "leaving"]
  /\ UNCHANGED <<rewarding, rewardMutex, connected>>

Tick ==
  /\ ttl' = IF ttl > 0 THEN ttl - 1 ELSE 0
  /\ since' = IF since < SuccessLife THEN since + 1 ELSE SuccessLife
  /\ UNCHANGED <<pc, rewarding, rewardMutex, connected, mutex, cached>>

\* What a call does by itself, its request to the indexer aside.
Local(c) == Connect(c) \/ Enter(c) \/ Look(c) \/ Lock(c) \/ Recheck(c) \/ Leave(c)

Next == Tick \/ \E c \in Calls : Ask(c) \/ Local(c) \/ Load(c)

Spec == Init /\ [][Next]_vars

\* Goroutines run, and neither Go's mutexes nor the pool's queue starve anybody.  The
\* request to the indexer has no timeout: nothing is assumed of Load.
FairSpec ==
  /\ Spec
  /\ \A c \in Calls :
       WF_vars(Local(c)) /\ SF_vars(Connect(c)) /\ SF_vars(Enter(c)) /\ SF_vars(Lock(c))

--------------------------------------------------------------------------------
(* Properties.                                                             *)

TypeOK ==
  /\ pc \in [Calls -> Points]
  /\ rewarding \in SUBSET Calls
  /\ rewardMutex \in Calls \cup {Nobody}
  /\ connected \in SUBSET Calls
  /\ mutex \in Calls \cup {Nobody}
  /\ cached \in Results \cup {"none"}
  /\ ttl \in 0..SuccessLife
  /\ since \in 0..SuccessLife

\* However many calls find the cache empty at once, one of them asks the indexer and
\* the others wait for its answer.
SingleFlight ==
  \A c, d \in Calls : pc[c] = "loading" /\ pc[d] = "loading" => c = d

\* The indexer is asked again only after its last answer expired: a size is kept for
\* SuccessLife ticks, an error for ErrLife, also for the calls that queued up for the
\* mutex while it was being asked.
Throttled ==
  [][\A c \in Calls : pc[c] # "loading" /\ pc'[c] = "loading" /\ cached # "none" =>
       since >= Expiration(cached)]_vars

\* As long as the indexer does not hang, every call is answered: a connection is held
\* while a mutex is awaited and a mutex while another is, but never in a circle, and
\* errors give back what they hold.
AnsweredUnlessHung ==
  (\A c \in Calls : []<>(pc[c] # "loading")) =>
    \A c \in Calls : pc[c] # "idle" ~> pc[c] = "idle"
=================================================================================
