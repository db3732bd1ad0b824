----------------------------- MODULE CachedAccessor -----------------------------
(***************************************************************************)
(* The cache in front of the database: app/db/cached.                      *)
(*                                                                         *)
(* Every method of the accessor has a cache of its own, made at its first  *)
(* call.  A call looks its key up, reads the database on a miss and stores *)
(* the result, an error as well as data.  A monitor polls the epoch of the *)
(* database and flushes every cache when it grows.  Calls, the monitor and *)
(* the janitors of the caches interleave between any two operations on the *)
(* caches and the mutexes.  What a query returns is abstracted to the      *)
(* epoch in which it ran, for that is what the monitor tells apart.        *)
(***************************************************************************)
EXTENDS Integers, FiniteSets

CONSTANTS
  Calls,     \* goroutines that call the accessor
  Nobody,    \* the holder of a free mutex
  Keys,      \* a key is a method together with the arguments of a call
  Methods,
  Method,    \* the method of each key
  MaxSize,   \* maxItemCountsByMethod, or the default
  LifeTime,  \* maxItemLifeTimesByMethod, or the default: ticks an item lives
  MaxEpoch   \* bound: epochs the database goes through

ASSUME CallsAssumption == Nobody \notin Calls
ASSUME KeysAssumption == IsFiniteSet(Keys) /\ Method \in [Keys -> Methods]
ASSUME ConfigAssumption ==
  /\ MaxSize \in [Methods -> Nat]
  /\ LifeTime \in [Methods -> Nat \ {0}]
  /\ MaxEpoch \in Nat \ {0}

VARIABLES
  pc,        \* where each call is
  key,       \* the key each call asks for
  got,       \* the epoch of the data each call has in hand, or 0
  caches,    \* the methods that have a cache: cachesByMethod
  items,     \* the item under each key, expired or not
  setter,    \* cacheImpl.mutex of each cache: the call that holds it
  monitor,   \* where monitorEpochChange is; it holds the accessor's mutex
             \* exactly while it is "flushing"
  known,     \* its variable epoch; isFirst holds as long as that is 0
  toFlush,   \* the caches its loop has still to clear
  epoch,     \* the epoch of the database
  floor,     \* history: the epoch for which each cache was last flushed
  straggling,\* history: calls that hold data read before that flush
  late       \* history: keys whose item was stored by such a call

call == <<pc, key, got>>
watch == <<monitor, known, toFlush>>
history == <<floor, straggling, late>>
vars == <<call, caches, items, setter, watch, epoch, history>>

Epochs == 1..MaxEpoch
NoItem == [epoch |-> 0, ttl |-> 0]
Points == {"idle", "entering", "looking", "loading", "locking", "purging",
           "rechecking", "inserting", "answered"}

\* What go-cache holds: an item stays until it is deleted, but Get sees it only
\* while it is live.
Present(m) == {k \in Keys : Method[k] = m /\ items[k].epoch # 0}
Live(k) == items[k].epoch # 0 /\ items[k].ttl > 0

Init ==
  /\ pc = [c \in Calls |-> "idle"]
  /\ key \in [Calls -> Keys]
  /\ got = [c \in Calls |-> 0]
  /\ caches = {}
  /\ items = [k \in Keys |-> NoItem]
  /\ setter = [m \in Methods |-> Nobody]
  /\ monitor = "polling"
  /\ known = 0
  /\ toFlush = {}
  /\ epoch = 1
  /\ floor = [m \in Methods |-> 0]
  /\ straggling = {}
  /\ late = {}

--------------------------------------------------------------------------------
(* getOrLoad.                                                              *)

Start(c) ==
  /\ pc[c] = "idle"
  /\ pc' = [pc EXCEPT ![c] = "entering"]
  /\ \E k \in Keys : key' = [key EXCEPT ![c] = k]
  /\ UNCHANGED <<got, caches, items, setter, watch, epoch, history>>

\* getCache: one critical section of the accessor's mutex.
GetCache(c) ==
  /\ pc[c] = "entering"
  /\ monitor # "flushing"
  /\ caches' = caches \cup {Method[key[c]]}
  /\ pc' = [pc EXCEPT ![c] = "looking"]
  /\ UNCHANGED <<key, got, items, setter, watch, epoch, history>>

BlindFound(k) == items[k].epoch # 0

\* go-cache's Get: an item that expired is not found even if it is still there.
Found(k) == Live(k)

RenewingLook(c) ==
  /\ pc[c] = "looking"
  /\ \/ /\ Found(key[c])
        /\ got' = [got EXCEPT ![c] = items[key[c]].epoch]
        /\ items' = [items EXCEPT ![key[c]].ttl = LifeTime[Method[key[c]]]]
        /\ pc' = [pc EXCEPT ![c] = "answered"]
     \/ /\ ~Found(key[c])
        /\ pc' = [pc EXCEPT ![c] = "loading"]
        /\ UNCHANGED <<got, items>>
  /\ UNCHANGED <<key, caches, setter, watch, epoch, history>>

Look(c) ==
  /\ pc[c] = "looking"
  /\ \/ /\ Found(key[c])
        /\ got' = [got EXCEPT ![c] = items[key[c]].epoch]
        /\ pc' = [pc EXCEPT ![c] = "answered"]
     \/ /\ ~Found(key[c])
        /\ pc' = [pc EXCEPT ![c] = "loading"]
        /\ UNCHANGED got
  /\ UNCHANGED <<key, caches, items, setter, watch, epoch, history>>

\* The query sees the database at one moment; the call may be slow after it.
Load(c) ==
  /\ pc[c] = "loading"
  /\ got' = [got EXCEPT ![c] = epoch]
  /\ pc' = [pc EXCEPT ![c] = "locking"]
  /\ UNCHANGED <<key, caches, items, setter, watch, epoch, history>>

Return(c) ==
  /\ pc[c] = "answered"
  /\ pc' = [pc EXCEPT ![c] = "idle"]
  /\ got' = [got EXCEPT ![c] = 0]
  /\ UNCHANGED <<key, caches, items, setter, watch, epoch, history>>

--------------------------------------------------------------------------------
(* cacheImpl.Set, step by step under the mutex of the cache.               *)

Full(m) == Cardinality(Present(m)) >= MaxSize[m]

UnlockedSet(c) ==
  /\ pc[c] = "locking"
  /\ pc' = [pc EXCEPT ![c] = IF Full(Method[key[c]]) THEN "purging" ELSE "inserting"]
  /\ UNCHANGED <<key, got, caches, items, setter, watch, epoch, history>>

\* Lock and the first test of the size.
LockSet(c) ==
  /\ pc[c] = "locking"
  /\ setter[Method[key[c]]] = Nobody
  /\ setter' = [setter EXCEPT ![Method[key[c]]] = c]
  /\ pc' = [pc EXCEPT ![c] = IF Full(Method[key[c]]) THEN "purging" ELSE "inserting"]
  /\ UNCHANGED <<key, got, caches, items, watch, epoch, history>>

\* The items of cache m that are left by go-cache's DeleteExpired.
DeleteExpired(m) ==
  [k \in Keys |-> IF Method[k] = m /\ ~Live(k) THEN NoItem ELSE items[k]]

Purge(c) ==
  /\ pc[c] = "purging"
  /\ items' = DeleteExpired(Method[key[c]])
  /\ pc' = [pc EXCEPT ![c] = "rechecking"]
  /\ UNCHANGED <<key, got, caches, setter, watch, epoch, history>>

\* Still full: the value is not stored, and the caller gets it all the same.
Recheck(c) ==
  /\ pc[c] = "rechecking"
  /\ \/ /\ Full(Method[key[c]])
        /\ setter' = [setter EXCEPT ![Method[key[c]]] = Nobody]
        /\ pc' = [pc EXCEPT ![c] = "answered"]
        /\ straggling' = straggling \ {c}
     \/ /\ ~Full(Method[key[c]])
        /\ pc' = [pc EXCEPT ![c] = "inserting"]
        /\ UNCHANGED <<setter, straggling>>
  /\ UNCHANGED <<key, got, caches, items, watch, epoch, floor, late>>

LongNewItem(c) == [epoch |-> got[c], ttl |-> LifeTime[Method[key[c]]] + 1]

LockedInsert(c) ==
  /\ pc[c] = "inserting"
  /\ items' = [items EXCEPT ![key[c]] = [epoch |-> got[c], ttl |-> LifeTime[Method[key[c]]]]]
  /\ pc' = [pc EXCEPT ![c] = "answered"]
  /\ late' = IF c \in straggling THEN late \cup {key[c]} ELSE late \ {key[c]}
  /\ straggling' = straggling \ {c}
  /\ UNCHANGED <<key, got, caches, setter, watch, epoch, floor>>

\* go-cache's Set, with the default expiration of the cache.
NewItem(c) == [epoch |-> got[c], ttl |-> LifeTime[Method[key[c]]]]

Insert(c) ==
  /\ pc[c] = "inserting"
  /\ items' = [items EXCEPT ![key[c]] = NewItem(c)]
  /\ setter' = [setter EXCEPT ![Method[key[c]]] = Nobody]
  /\ pc' = [pc EXCEPT ![c] = "answered"]
  /\ late' = IF c \in straggling THEN late \cup {key[c]} ELSE late \ {key[c]}
  /\ straggling' = straggling \ {c}
  /\ UNCHANGED <<key, got, caches, watch, epoch, floor>>

--------------------------------------------------------------------------------
(* The monitor, the janitors, the database and the clock.                  *)

\* LastEpoch is answered; what comes before, the sleep, the wait for the next
\* validation and the polls that fail, changes nothing.
Poll ==
  /\ monitor = "polling"
  /\ epoch > known
  /\ known' = epoch
  /\ monitor' = IF known = 0 THEN "polling" ELSE "locking"
  /\ UNCHANGED <<call, caches, items, setter, toFlush, epoch, history>>

\* clearCache takes the accessor's mutex and ranges over the caches.
StartFlush ==
  /\ monitor = "locking"
  /\ monitor' = "flushing"
  /\ toFlush' = caches
  /\ UNCHANGED <<call, caches, items, setter, known, epoch, history>>

\* The calls that hold data of cache m that they have not stored yet.
Storing(m) ==
  {c \in Calls : Method[key[c]] = m
                 /\ pc[c] \in {"locking", "purging", "rechecking", "inserting"}}

\* go-cache's Flush; it needs no mutex of the cache.
Flush(m) ==
  /\ monitor = "flushing"
  /\ m \in toFlush
  /\ toFlush' = toFlush \ {m}
  /\ items' = [k \in Keys |-> IF Method[k] = m THEN NoItem ELSE items[k]]
  /\ floor' = [floor EXCEPT ![m] = known]
  /\ straggling' = straggling \cup Storing(m)
  /\ late' = {k \in late : Method[k] # m}
  /\ UNCHANGED <<call, caches, setter, monitor, known, epoch>>

HastyEndFlush ==
  /\ monitor = "flushing"
  /\ monitor' = "polling"
  /\ UNCHANGED <<call, caches, items, setter, known, toFlush, epoch, history>>

EndFlush ==
  /\ monitor = "flushing"
  /\ toFlush = {}
  /\ monitor' = "polling"
  /\ UNCHANGED <<call, caches, items, setter, known, toFlush, epoch, history>>

\* The janitor that go-cache runs for a cache.
Janitor(m) ==
  /\ m \in caches
  /\ items' = DeleteExpired(m)
  /\ UNCHANGED <<call, caches, setter, watch, epoch, history>>

NewEpoch ==
  /\ epoch < MaxEpoch
  /\ epoch' = epoch + 1
  /\ UNCHANGED <<call, caches, items, setter, watch, history>>

Tick ==
  /\ items' = [k \in Keys |-> [items[k] EXCEPT !.ttl = IF @ > 0 THEN @ - 1 ELSE 0]]
  /\ UNCHANGED <<call, caches, setter, watch, epoch, history>>

\* What a call does by itself, apart from being made and its query.
Accessor(c) ==
  \/ GetCache(c) \/ Look(c) \/ LockSet(c) \/ Purge(c) \/ Recheck(c) \/ Insert(c)
  \/ Return(c)

\* clearCache.
Clearing == StartFlush \/ EndFlush \/ \E m \in Methods : Flush(m)

Next ==
  \/ \E c \in Calls : Start(c) \/ Load(c) \/ Accessor(c)
  \/ Poll \/ Clearing \/ NewEpoch \/ Tick
  \/ \E m \in Methods : Janitor(m)

Spec == Init /\ [][Next]_vars

\* Go's scheduler runs every goroutine, its mutexes starve nobody and the clock goes
\* on.  A query may hang, a call's (Load) and the monitor's (Poll): there is no
\* timeout on either.  Calls need not be made, the epoch need not change, janitors
\* need not run.
FairSpec ==
  /\ Spec
  /\ WF_vars(Tick) /\ WF_vars(Clearing)
  /\ \A c \in Calls : WF_vars(Accessor(c)) /\ SF_vars(LockSet(c))

--------------------------------------------------------------------------------
(* Properties.                                                             *)

TypeOK ==
  /\ pc \in [Calls -> Points]
  /\ key \in [Calls -> Keys]
  /\ got \in [Calls -> 0..MaxEpoch]
  /\ caches \in SUBSET Methods
  /\ items \in [Keys -> [epoch : 0..MaxEpoch, ttl : Nat]]
  /\ \A k \in Keys : items[k].ttl <= LifeTime[Method[k]]
  /\ setter \in [Methods -> Calls \cup {Nobody}]
  /\ monitor \in {"polling", "locking", "flushing"}
  /\ known \in 0..MaxEpoch
  /\ toFlush \in SUBSET caches
  /\ epoch \in Epochs
  /\ floor \in [Methods -> 0..MaxEpoch]
  /\ straggling \in SUBSET Calls
  /\ late \in SUBSET Keys

\* No cache outgrows the size configured for it, however many calls store at
\* once, although go-cache itself knows no bound and items that expired count.
SizeBound == \A m \in Methods : Cardinality(Present(m)) <= MaxSize[m]

\* The epoch that the flushes of cache m have brought it to: once a flush is over it
\* is the same for every cache, the monitor's epoch.
FlushedTo(m) ==
  IF monitor = "polling" /\ (\E n \in Methods : floor[n] = known) THEN known ELSE floor[m]

\* After a cache was flushed for a new epoch, it serves data of an earlier one only
\* where a call that had read the database before the flush stored it afterwards:
\* nothing in the cache survives, and clearCache reaches every cache there is, those
\* that calls make at the time included.
StaleOnlyFromStragglers ==
  \A k \in Keys : Live(k) /\ items[k].epoch < FlushedTo(Method[k]) => k \in late

\* The epochs whose data a call may still be answered with: the current one, those
\* of live items, and those that calls hold in hand.
Remembered ==
  {epoch} \cup {items[k].epoch : k \in {j \in Keys : Live(j)}}
          \cup {got[c] : c \in {d \in Calls : got[d] # 0}}

\* The accessor implements StaleReads: an answer is what the database held at some
\* time, and an epoch that no item and no call remembers never comes back.
Answer == [c \in Calls |-> IF pc[c] = "answered" THEN got[c] ELSE 0]
Reads == INSTANCE StaleReads WITH current <- epoch, remembered <- Remembered,
                                  answer <- Answer
ReadsSpec == Reads!Spec

\* However its calls interleave with flushes, the accessor ends up without data of
\* past epochs: they expire even if a straggler stored them after the flush.
OldEpochsForgotten ==
  \A e \in Epochs : epoch > e ~> [](e \notin Remembered)

\* Every call is answered unless its own query hangs: no mutex is kept, not by a cache
\* that stays full, and a call that hangs in its query keeps nothing others need here.
CallsReturn ==
  \A c \in Calls :
    ([]<>(pc[c] # "loading")) => (pc[c] = "entering" ~> pc[c] = "idle")
=================================================================================
