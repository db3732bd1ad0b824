-------------------------- MODULE CachedAccessorProofs --------------------------
(***************************************************************************)
(* Theorems about CachedAccessor, for any calls, keys, methods and sizes.  *)
(***************************************************************************)
EXTENDS CachedAccessor, FiniteSetTheorems, TLAPS

Items == [epoch : 0..MaxEpoch, ttl : Nat]

\* The absent item is of the type of items.
LEMMA NoItemTyped == NoItem \in Items
BY ConfigAssumption DEF ConfigAssumption, NoItem, Items

\* DeleteExpired keeps the types of the items.
LEMMA DeletedTyped ==
  ASSUME TypeOK, NEW m
  PROVE  /\ DeleteExpired(m) \in [Keys -> Items]
         /\ \A k \in Keys : DeleteExpired(m)[k].ttl <= LifeTime[Method[k]]
<1>1. items \in [Keys -> Items] /\ \A k \in Keys : items[k].ttl <= LifeTime[Method[k]]
  BY DEF TypeOK, Items
<1>2. \A k \in Keys : LifeTime[Method[k]] \in Nat
  BY KeysAssumption, ConfigAssumption DEF KeysAssumption, ConfigAssumption
<1>3. \A k \in Keys : NoItem.ttl <= LifeTime[Method[k]]
  BY <1>2 DEF NoItem
<1>4. QED
  BY <1>1, <1>3, NoItemTyped DEF DeleteExpired

\* Every variable keeps its type: in particular no item outlives its method's
\* lifetime and only caches that exist are flushed.
THEOREM TypeCorrect == Spec => []TypeOK
<1>1. Init => TypeOK
  BY KeysAssumption, ConfigAssumption
  DEF Init, TypeOK, KeysAssumption, ConfigAssumption, NoItem, Points, Epochs
<1>2. TypeOK /\ [Next]_vars => TypeOK'
  <2> SUFFICES ASSUME TypeOK, [Next]_vars PROVE TypeOK'
    OBVIOUS
  <2> USE DEF call, watch, history
  <2>1. ASSUME NEW c \in Calls, Start(c) PROVE TypeOK'
    BY <2>1 DEF Start, TypeOK, Points
  <2>2. ASSUME NEW c \in Calls, GetCache(c) PROVE TypeOK'
    <3>1. Method[key[c]] \in Methods
      BY KeysAssumption DEF KeysAssumption, TypeOK
    <3>2. QED
      BY <2>2, <3>1 DEF GetCache, TypeOK, Points
  <2>3. ASSUME NEW c \in Calls, Look(c) PROVE TypeOK'
    <3>1. items[key[c]].epoch \in 0..MaxEpoch
      BY DEF TypeOK
    <3>2. pc' \in [Calls -> Points]
      BY <2>3 DEF Look, TypeOK, Points
    <3>3. got' \in [Calls -> 0..MaxEpoch]
      BY <2>3, <3>1 DEF Look, TypeOK
    <3>4. QED
      BY <2>3, <3>2, <3>3 DEF Look, TypeOK
  <2>4. ASSUME NEW c \in Calls, Load(c) PROVE TypeOK'
    <3>1. epoch \in 0..MaxEpoch
      BY ConfigAssumption DEF TypeOK, Epochs, ConfigAssumption
    <3>2. QED
      BY <2>4, <3>1 DEF Load, TypeOK, Points
  <2>5. ASSUME NEW c \in Calls, Return(c) PROVE TypeOK'
    <3>1. 0 \in 0..MaxEpoch
      BY ConfigAssumption DEF ConfigAssumption
    <3>2. QED
      BY <2>5, <3>1 DEF Return, TypeOK, Points
  <2>6. ASSUME NEW c \in Calls, LockSet(c) PROVE TypeOK'
    <3>1. setter' \in [Methods -> Calls \cup {Nobody}]
      BY <2>6 DEF LockSet, TypeOK
    <3>2. pc' \in [Calls -> Points]
      BY <2>6 DEF LockSet, TypeOK, Points
    <3>3. QED
      BY <2>6, <3>1, <3>2 DEF LockSet, TypeOK
  <2>7. ASSUME NEW c \in Calls, Purge(c) PROVE TypeOK'
    <3>1. pc' \in [Calls -> Points]
      BY <2>7 DEF Purge, TypeOK, Points
    <3>2. QED
      BY <2>7, <3>1, DeletedTyped DEF Purge, TypeOK, Items
  <2>8. ASSUME NEW c \in Calls, Recheck(c) PROVE TypeOK'
    <3>1. setter' \in [Methods -> Calls \cup {Nobody}]
      BY <2>8 DEF Recheck, TypeOK
    <3>2. pc' \in [Calls -> Points]
      BY <2>8 DEF Recheck, TypeOK, Points
    <3>3. QED
      BY <2>8, <3>1, <3>2 DEF Recheck, TypeOK
  <2>9. ASSUME NEW c \in Calls, Insert(c) PROVE TypeOK'
    <3>1. LifeTime[Method[key[c]]] \in Nat /\ key[c] \in Keys
      BY KeysAssumption, ConfigAssumption DEF KeysAssumption, ConfigAssumption, TypeOK
    <3>2. NewItem(c) \in Items /\ NewItem(c).ttl = LifeTime[Method[key[c]]]
      BY <3>1 DEF NewItem, Items, TypeOK
    <3>3. items' \in [Keys -> Items] /\ \A k \in Keys : items'[k].ttl <= LifeTime[Method[k]]
      <4>1. items' = [items EXCEPT ![key[c]] = NewItem(c)]
        BY <2>9 DEF Insert
      <4>2. items \in [Keys -> Items] /\ \A k \in Keys : items[k].ttl <= LifeTime[Method[k]]
        BY DEF TypeOK, Items
      <4>3. QED
        BY <3>1, <3>2, <4>1, <4>2
    <3>4. pc' \in [Calls -> Points]
      BY <2>9 DEF Insert, TypeOK, Points
    <3>5. setter' \in [Methods -> Calls \cup {Nobody}]
      BY <2>9 DEF Insert, TypeOK
    <3>6. late' \in SUBSET Keys
      BY <2>9, <3>1 DEF Insert, TypeOK
    <3>7. QED
      BY <2>9, <3>3, <3>4, <3>5, <3>6 DEF Insert, TypeOK, Items
  <2>10. CASE Poll
    <3>1. epoch \in 0..MaxEpoch
      BY ConfigAssumption DEF TypeOK, Epochs, ConfigAssumption
    <3>2. QED
      BY <2>10, <3>1 DEF Poll, TypeOK
  <2>11. CASE StartFlush
    BY <2>11 DEF StartFlush, TypeOK
  <2>12. CASE EndFlush
    BY <2>12 DEF EndFlush, TypeOK
  <2>13. ASSUME NEW m \in Methods, Flush(m) PROVE TypeOK'
    <3>1. \A k \in Keys : NoItem.ttl <= LifeTime[Method[k]]
      BY KeysAssumption, ConfigAssumption DEF KeysAssumption, ConfigAssumption, NoItem
    <3>2. items' \in [Keys -> Items] /\ \A k \in Keys : items'[k].ttl <= LifeTime[Method[k]]
      <4>1. items' = [k \in Keys |-> IF Method[k] = m THEN NoItem ELSE items[k]]
        BY <2>13 DEF Flush
      <4>2. items \in [Keys -> Items] /\ \A k \in Keys : items[k].ttl <= LifeTime[Method[k]]
        BY DEF TypeOK, Items
      <4>3. QED
        BY <3>1, <4>1, <4>2, NoItemTyped
    <3>3. straggling' \in SUBSET Calls /\ late' \in SUBSET Keys
      BY <2>13 DEF Flush, TypeOK, Storing
    <3>4. QED
      BY <2>13, <3>2, <3>3 DEF Flush, TypeOK, Items
  <2>14. ASSUME NEW m \in Methods, Janitor(m) PROVE TypeOK'
    BY <2>14, DeletedTyped DEF Janitor, TypeOK, Items
  <2>15. CASE NewEpoch
    BY <2>15, ConfigAssumption DEF NewEpoch, TypeOK, Epochs, ConfigAssumption
  <2>16. CASE Tick
    <3>1. items' \in [Keys -> Items]
      BY <2>16 DEF Tick, TypeOK, Items
    <3>2. \A k \in Keys : items'[k].ttl <= items[k].ttl /\ items'[k].ttl \in Nat
      BY <2>16 DEF Tick, TypeOK
    <3>3. \A k \in Keys : LifeTime[Method[k]] \in Nat /\ items[k].ttl \in Nat
      BY KeysAssumption, ConfigAssumption DEF KeysAssumption, ConfigAssumption, TypeOK
    <3>4. \A k \in Keys : items'[k].ttl <= LifeTime[Method[k]]
      BY <3>2, <3>3 DEF TypeOK
    <3>5. QED
      BY <2>16, <3>1, <3>4 DEF Tick, TypeOK, Items
  <2>17. CASE UNCHANGED vars
    BY <2>17 DEF vars, TypeOK
  <2>18. QED
    BY <2>1, <2>2, <2>3, <2>4, <2>5, <2>6, <2>7, <2>8, <2>9, <2>10, <2>11, <2>12,
       <2>13, <2>14, <2>15, <2>16, <2>17 DEF Next, Accessor, Clearing
<1>3. QED
  BY <1>1, <1>2, PTL DEF Spec

--------------------------------------------------------------------------------
(* The size of the caches.                                                 *)

Critical == {"purging", "rechecking", "inserting"}

\* A call that is in the middle of cacheImpl.Set holds the mutex of its cache.
SetterInv == \A c \in Calls : pc[c] \in Critical => setter[Method[key[c]]] = c

\* Every call asks for a key of some method.
LEMMA MethodTyped == TypeOK => \A c \in Calls : key[c] \in Keys /\ Method[key[c]] \in Methods
BY KeysAssumption DEF KeysAssumption, TypeOK

\* cacheImpl.Set excludes itself: who is between its Lock and its Unlock holds the mutex.
THEOREM SettersExclude == Spec => []SetterInv
<1>1. Init => SetterInv
  BY DEF Init, SetterInv, Critical
<1>2. TypeOK /\ SetterInv /\ [Next]_vars => SetterInv'
  <2> SUFFICES ASSUME TypeOK, SetterInv, [Next]_vars,
                      NEW d \in Calls, pc'[d] \in Critical
               PROVE  setter'[Method[key'[d]]] = d
    BY DEF SetterInv
  <2> USE DEF call, watch, history
  <2>1. ASSUME key'[d] = key[d], pc[d] \in Critical, UNCHANGED setter
        PROVE  setter'[Method[key'[d]]] = d
    BY <2>1 DEF SetterInv
  <2>2. ASSUME NEW c \in Calls, Start(c) \/ GetCache(c) \/ Look(c) \/ Load(c) \/ Return(c)
        PROVE  setter'[Method[key'[d]]] = d
    <3>1. c # d /\ pc[d] \in Critical /\ key'[d] = key[d] /\ UNCHANGED setter
      BY <2>2 DEF Start, GetCache, Look, Load, Return, TypeOK, Critical
    <3>2. QED
      BY <2>1, <3>1
  <2>3. ASSUME NEW c \in Calls, LockSet(c)
        PROVE  setter'[Method[key'[d]]] = d
    <3>1. Method[key[c]] \in Methods /\ Method[key[d]] \in Methods
      BY MethodTyped
    <3>2. CASE c = d
      BY <2>3, <3>1, <3>2 DEF LockSet, TypeOK
    <3>3. CASE c # d
      <4>1. pc[d] \in Critical /\ key' = key
        BY <2>3, <3>3 DEF LockSet, TypeOK
      <4>2. setter[Method[key[d]]] = d /\ setter[Method[key[c]]] = Nobody
        BY <2>3, <4>1 DEF LockSet, SetterInv
      <4>3. Method[key[d]] # Method[key[c]]
        BY <4>2, CallsAssumption DEF CallsAssumption
      <4>4. QED
        BY <2>3, <3>1, <4>1, <4>2, <4>3 DEF LockSet, TypeOK
    <3>4. QED
      BY <3>2, <3>3
  <2>4. ASSUME NEW c \in Calls, Purge(c)
        PROVE  setter'[Method[key'[d]]] = d
    <3>1. pc[d] \in Critical
      BY <2>4 DEF Purge, TypeOK, Critical
    <3>2. QED
      BY <2>1, <2>4, <3>1 DEF Purge
  <2>5. ASSUME NEW c \in Calls, Recheck(c) \/ Insert(c)
        PROVE  setter'[Method[key'[d]]] = d
    <3>1. pc[d] \in Critical /\ pc[c] \in Critical /\ key' = key
      BY <2>5 DEF Recheck, Insert, TypeOK, Critical
    <3>2. setter[Method[key[d]]] = d /\ setter[Method[key[c]]] = c
      BY <3>1 DEF SetterInv
    <3>3. CASE c = d
      <4>1. UNCHANGED setter
        BY <2>5, <3>3 DEF Recheck, Insert, TypeOK, Critical
      <4>2. QED
        BY <3>1, <3>2, <4>1
    <3>4. CASE c # d
      BY <2>5, <3>1, <3>2, <3>4, MethodTyped DEF Recheck, Insert, TypeOK
    <3>5. QED
      BY <3>3, <3>4
  <2>6. ASSUME UNCHANGED <<pc, key, setter>>
        PROVE  setter'[Method[key'[d]]] = d
    BY <2>1, <2>6
  <2>7. QED
    BY <2>2, <2>3, <2>4, <2>5, <2>6
    DEF Next, Accessor, Clearing, Poll, StartFlush, EndFlush, Flush, Janitor, NewEpoch,
        Tick, vars
<1>3. QED
  BY <1>1, <1>2, TypeCorrect, PTL DEF Spec

\* The mutex of a cache is held by a call in the middle of cacheImpl.Set on that cache.
HeldInv ==
  \A m \in Methods : setter[m] # Nobody =>
    pc[setter[m]] \in Critical /\ Method[key[setter[m]]] = m

\* Set never leaves with the mutex, not where the cache stays full either: whoever waits
\* for it waits for a call that only has steps of Set before it, which wait for nothing.
THEOREM MutexesAreGivenBack == Spec => []HeldInv
<1>1. Init => HeldInv
  BY DEF Init, HeldInv
<1>2. TypeOK /\ SetterInv /\ HeldInv /\ [Next]_vars => HeldInv'
  <2> SUFFICES ASSUME TypeOK, SetterInv, HeldInv, [Next]_vars,
                      NEW m \in Methods, setter'[m] # Nobody
               PROVE  pc'[setter'[m]] \in Critical /\ Method[key'[setter'[m]]] = m
    BY DEF HeldInv
  <2> USE DEF call, watch, history
  <2>1. ASSUME NEW d \in Calls, setter'[m] = setter[m], setter[m] = d,
               key'[d] = key[d], pc'[d] = pc[d]
        PROVE  pc'[setter'[m]] \in Critical /\ Method[key'[setter'[m]]] = m
    BY <2>1 DEF HeldInv
  <2>2. ASSUME UNCHANGED setter
        PROVE  /\ setter'[m] = setter[m] /\ setter[m] \in Calls
               /\ pc[setter[m]] \in Critical
    BY <2>2 DEF HeldInv, TypeOK
  <2>3. ASSUME NEW c \in Calls, Start(c) \/ GetCache(c) \/ Look(c) \/ Load(c) \/ Return(c)
        PROVE  pc'[setter'[m]] \in Critical /\ Method[key'[setter'[m]]] = m
    <3>1. pc[c] \notin Critical /\ UNCHANGED setter
      BY <2>3 DEF Start, GetCache, Look, Load, Return, Critical
    <3>2. \A d \in Calls : d # c => pc'[d] = pc[d] /\ key'[d] = key[d]
      BY <2>3 DEF Start, GetCache, Look, Load, Return, TypeOK
    <3>3. QED
      BY <2>1, <2>2, <3>1, <3>2
  <2>4. ASSUME NEW c \in Calls, LockSet(c)
        PROVE  pc'[setter'[m]] \in Critical /\ Method[key'[setter'[m]]] = m
    <3>1. /\ UNCHANGED key /\ pc[c] \notin Critical /\ pc'[c] \in Critical
          /\ \A d \in Calls : d # c => pc'[d] = pc[d]
      BY <2>4 DEF LockSet, TypeOK, Critical
    <3>2. CASE m = Method[key[c]]
      <4>1. setter'[m] = c
        BY <2>4, <3>2 DEF LockSet, TypeOK
      <4>2. QED
        BY <3>1, <3>2, <4>1
    <3>3. CASE m # Method[key[c]]
      <4>1. setter'[m] = setter[m]
        BY <2>4, <3>3 DEF LockSet, TypeOK
      <4>2. setter[m] \in Calls /\ pc[setter[m]] \in Critical
        BY <4>1 DEF HeldInv, TypeOK
      <4>3. QED
        BY <2>1, <3>1, <4>1, <4>2
    <3>4. QED
      BY <3>2, <3>3
  <2>5. ASSUME NEW c \in Calls, Purge(c)
        PROVE  pc'[setter'[m]] \in Critical /\ Method[key'[setter'[m]]] = m
    <3>1. UNCHANGED <<key, setter>> /\ pc' = [pc EXCEPT ![c] = "rechecking"]
      BY <2>5 DEF Purge
    <3>2. QED
      BY <2>2, <3>1 DEF HeldInv, TypeOK, Critical
  <2>6. ASSUME NEW c \in Calls, pc[c] \in Critical, UNCHANGED key,
               setter' = [setter EXCEPT ![Method[key[c]]] = Nobody],
               pc' = [pc EXCEPT ![c] = "answered"]
        PROVE  pc'[setter'[m]] \in Critical /\ Method[key'[setter'[m]]] = m
    <3>1. m # Method[key[c]] /\ setter'[m] = setter[m]
      BY <2>6 DEF TypeOK
    <3>2. setter[m] \in Calls /\ Method[key[setter[m]]] = m
      BY <3>1 DEF HeldInv, TypeOK
    <3>3. QED
      BY <2>1, <2>6, <3>1, <3>2 DEF TypeOK
  <2>7. ASSUME NEW c \in Calls, Recheck(c)
        PROVE  pc'[setter'[m]] \in Critical /\ Method[key'[setter'[m]]] = m
    <3>1. CASE pc' = [pc EXCEPT ![c] = "inserting"] /\ UNCHANGED setter
      <4>1. UNCHANGED key
        BY <2>7 DEF Recheck
      <4>2. QED
        BY <2>2, <3>1, <4>1 DEF HeldInv, TypeOK, Critical
    <3>2. QED
      BY <2>6, <2>7, <3>1 DEF Recheck, Critical
  <2>8. ASSUME NEW c \in Calls, Insert(c)
        PROVE  pc'[setter'[m]] \in Critical /\ Method[key'[setter'[m]]] = m
    BY <2>6, <2>8 DEF Insert, Critical
  <2>9. ASSUME UNCHANGED <<pc, key, setter>>
        PROVE  pc'[setter'[m]] \in Critical /\ Method[key'[setter'[m]]] = m
    BY <2>1, <2>2, <2>9
  <2>10. QED
    BY <2>3, <2>4, <2>5, <2>7, <2>8, <2>9
    DEF Next, Accessor, Clearing, Poll, StartFlush, EndFlush, Flush, Janitor, NewEpoch,
        Tick, vars
<1>3. QED
  BY <1>1, <1>2, TypeCorrect, SettersExclude, PTL DEF Spec

\* The invariant behind SizeBound: a call that is about to insert found room, and
\* nobody else can have taken it since.
SizeInv ==
  /\ SizeBound
  /\ \A c \in Calls : pc[c] = "inserting" =>
       Cardinality(Present(Method[key[c]])) < MaxSize[Method[key[c]]]

\* The items of a cache can be counted,
LEMMA PresentFinite == \A m : IsFiniteSet(Present(m)) /\ Cardinality(Present(m)) \in Nat
BY KeysAssumption, FS_Subset, FS_CardinalityType DEF KeysAssumption, Present

\* also after a step.
LEMMA PresentFiniteNext ==
  \A m : IsFiniteSet(Present(m)') /\ Cardinality(Present(m)') \in Nat
<1>1. \A m : Present(m)' \subseteq Keys
  BY DEF Present
<1>2. QED
  BY <1>1, KeysAssumption, FS_Subset, FS_CardinalityType DEF KeysAssumption

\* A step that only deletes items leaves room where there was room.
LEMMA DeletingKeepsSize ==
  ASSUME TypeOK, SizeInv, UNCHANGED key,
         \A c \in Calls : pc'[c] = "inserting" => pc[c] = "inserting",
         \A k \in Keys : items'[k].epoch \in {0, items[k].epoch}
  PROVE  SizeInv'
<1>1. \A m : Present(m)' \subseteq Present(m)
  BY DEF Present
<1>2. \A m : Cardinality(Present(m)') <= Cardinality(Present(m))
  BY <1>1, PresentFinite, FS_Subset
<1>3. \A m \in Methods : MaxSize[m] \in Nat
  BY ConfigAssumption DEF ConfigAssumption
<1>4. SizeBound'
  BY <1>2, <1>3, PresentFinite, PresentFiniteNext DEF SizeInv, SizeBound
<1>5. ASSUME NEW c \in Calls, pc'[c] = "inserting"
      PROVE  Cardinality(Present(Method[key[c]])') < MaxSize[Method[key[c]]]
  <2>1. Cardinality(Present(Method[key[c]])) < MaxSize[Method[key[c]]]
    BY <1>5 DEF SizeInv
  <2>2. QED
    BY <1>2, <1>3, <2>1, PresentFinite, PresentFiniteNext, MethodTyped
<1>6. QED
  BY <1>4, <1>5 DEF SizeInv, Present

\* Storing one item adds one to the count at most.
LEMMA OneMore ==
  ASSUME NEW S, NEW x, IsFiniteSet(S), NEW T, T \subseteq S \cup {x}
  PROVE  Cardinality(T) <= Cardinality(S) + 1
<1>1. /\ IsFiniteSet(S \cup {x})
      /\ Cardinality(S \cup {x}) = IF x \in S THEN Cardinality(S) ELSE Cardinality(S) + 1
  BY FS_AddElement
<1>2. Cardinality(T) <= Cardinality(S \cup {x}) /\ IsFiniteSet(T)
  BY <1>1, FS_Subset
<1>3. Cardinality(S) \in Nat /\ Cardinality(T) \in Nat
  BY <1>2, FS_CardinalityType
<1>4. QED
  BY <1>1, <1>2, <1>3

\* Insert keeps SizeInv: the room it found is there still.
LEMMA InsertKeepsSize ==
  ASSUME TypeOK, SetterInv, SizeInv, NEW c \in Calls, Insert(c)
  PROVE  SizeInv'
<1>1. PICK n \in Methods : n = Method[key[c]]
  BY MethodTyped
<1>2. key[c] \in Keys /\ MaxSize[n] \in Nat
  BY MethodTyped, ConfigAssumption DEF ConfigAssumption
<1>3. pc[c] = "inserting" /\ key' = key
  BY DEF Insert
<1>4. Present(n)' \subseteq Present(n) \cup {key[c]}
  BY <1>1, <1>2 DEF Insert, Present, TypeOK
<1>5. Cardinality(Present(n)') <= Cardinality(Present(n)) + 1
  BY <1>4, PresentFinite, OneMore
<1>6. Cardinality(Present(n)) < MaxSize[n]
  BY <1>1, <1>3 DEF SizeInv
<1>7. Cardinality(Present(n)') <= MaxSize[n]
  BY <1>2, <1>5, <1>6, PresentFinite, PresentFiniteNext
<1>8. \A m \in Methods : m # n => Present(m)' = Present(m)
  BY <1>1, <1>2 DEF Insert, Present, TypeOK
<1>9. SizeBound'
  <2> SUFFICES ASSUME NEW m \in Methods PROVE Cardinality(Present(m)') <= MaxSize[m]
    BY DEF SizeBound
  <2>1. CASE m = n
    BY <1>7, <2>1
  <2>2. CASE m # n
    BY <1>8, <2>2 DEF SizeInv, SizeBound
  <2>3. QED
    BY <2>1, <2>2
<1>10. ASSUME NEW d \in Calls, pc'[d] = "inserting"
       PROVE  Cardinality(Present(Method[key[d]])') < MaxSize[Method[key[d]]]
  <2>1. d # c /\ pc[d] = "inserting"
    BY <1>10 DEF Insert, TypeOK
  <2>2. PICK m \in Methods : m = Method[key[d]]
    BY MethodTyped
  <2>3. m # n
    BY <1>1, <1>3, <2>1, <2>2 DEF SetterInv, Critical
  <2>4. Cardinality(Present(m)) < MaxSize[m]
    BY <2>1, <2>2 DEF SizeInv
  <2>5. Cardinality(Present(m)') < MaxSize[m]
    BY <1>8, <2>3, <2>4
  <2>6. m = Method[key'[d]]
    BY <1>3, <2>2
  <2>7. QED
    BY <2>2, <2>5, <2>6
<1>11. QED
  BY <1>3, <1>9, <1>10 DEF SizeInv, Present

\* The tests of the size keep SizeInv: who goes on to insert has seen room.
LEMMA RoomFound ==
  ASSUME TypeOK, SizeInv, NEW c \in Calls, UNCHANGED <<key, items>>,
         \A d \in Calls : pc'[d] = "inserting" =>
           pc[d] = "inserting" \/ ~Full(Method[key[d]])
  PROVE  SizeInv'
<1>1. \A m : Present(m)' = Present(m)
  BY DEF Present
<1>2. \A m \in Methods : MaxSize[m] \in Nat
  BY ConfigAssumption DEF ConfigAssumption
<1>3. \A d \in Calls : pc'[d] = "inserting" =>
        Cardinality(Present(Method[key[d]])) < MaxSize[Method[key[d]]]
  BY <1>2, PresentFinite, MethodTyped DEF SizeInv, Full
<1>4. QED
  BY <1>1, <1>3 DEF SizeInv, SizeBound, Present

\* No cache ever holds more items than configured.
THEOREM CachesAreBounded == Spec => []SizeBound
<1>1. Init => SizeInv
  <2> SUFFICES ASSUME Init PROVE SizeInv
    OBVIOUS
  <2>1. \A m : Present(m) = {}
    BY DEF Init, Present, NoItem
  <2>2. \A m \in Methods : MaxSize[m] \in Nat
    BY ConfigAssumption DEF ConfigAssumption
  <2>3. QED
    BY <2>1, <2>2, FS_EmptySet DEF SizeInv, SizeBound, Init
<1>2. TypeOK /\ SetterInv /\ SizeInv /\ [Next]_vars => SizeInv'
  <2> SUFFICES ASSUME TypeOK, SetterInv, SizeInv, [Next]_vars PROVE SizeInv'
    OBVIOUS
  <2> USE DEF call, watch, history
  <2>1. ASSUME NEW c \in Calls, Start(c) PROVE SizeInv'
    <3>1. \A d \in Calls : pc'[d] = "inserting" => pc[d] = "inserting" /\ key'[d] = key[d]
      BY <2>1 DEF Start, TypeOK
    <3>2. \A m : Present(m)' = Present(m)
      BY <2>1 DEF Start, Present
    <3>3. QED
      BY <3>1, <3>2 DEF SizeInv, SizeBound
  <2>2. ASSUME NEW c \in Calls, GetCache(c) \/ Look(c) \/ Load(c) \/ Return(c)
        PROVE  SizeInv'
    <3>1. UNCHANGED <<key, items>>
      BY <2>2 DEF GetCache, Look, Load, Return
    <3>2. \A d \in Calls : pc'[d] = "inserting" => pc[d] = "inserting"
      BY <2>2 DEF GetCache, Look, Load, Return, TypeOK
    <3>3. QED
      BY <3>1, <3>2, RoomFound
  <2>3. ASSUME NEW c \in Calls, LockSet(c) \/ Recheck(c) PROVE SizeInv'
    <3>1. UNCHANGED <<key, items>>
      BY <2>3 DEF LockSet, Recheck
    <3>2. \A d \in Calls : pc'[d] = "inserting" =>
            pc[d] = "inserting" \/ ~Full(Method[key[d]])
      BY <2>3 DEF LockSet, Recheck, TypeOK
    <3>3. QED
      BY <3>1, <3>2, RoomFound
  <2>4. ASSUME NEW m, items' = DeleteExpired(m)
        PROVE  \A k \in Keys : items'[k].epoch \in {0, items[k].epoch}
    BY <2>4 DEF DeleteExpired, NoItem
  <2>5. ASSUME NEW c \in Calls, Purge(c) PROVE SizeInv'
    <3>1. UNCHANGED key /\ \A d \in Calls : pc'[d] = "inserting" => pc[d] = "inserting"
      BY <2>5 DEF Purge, TypeOK
    <3>2. QED
      BY <2>4, <2>5, <3>1, DeletingKeepsSize DEF Purge
  <2>6. ASSUME NEW c \in Calls, Insert(c) PROVE SizeInv'
    BY <2>6, InsertKeepsSize
  <2>7. ASSUME NEW m \in Methods, Flush(m) PROVE SizeInv'
    <3>1. \A k \in Keys : items'[k].epoch \in {0, items[k].epoch}
      BY <2>7 DEF Flush, NoItem
    <3>2. QED
      BY <2>7, <3>1, DeletingKeepsSize DEF Flush
  <2>8. ASSUME NEW m \in Methods, Janitor(m) PROVE SizeInv'
    BY <2>4, <2>8, DeletingKeepsSize DEF Janitor
  <2>9. CASE Tick
    <3>1. \A k \in Keys : items'[k].epoch \in {0, items[k].epoch}
      BY <2>9 DEF Tick, TypeOK
    <3>2. QED
      BY <2>9, <3>1, DeletingKeepsSize DEF Tick
  <2>10. ASSUME UNCHANGED <<pc, key, items>> PROVE SizeInv'
    BY <2>10 DEF SizeInv, SizeBound, Present
  <2>11. QED
    BY <2>1, <2>2, <2>3, <2>5, <2>6, <2>7, <2>8, <2>9, <2>10
    DEF Next, Accessor, Clearing, Poll, StartFlush, EndFlush, NewEpoch, vars
<1>3. SizeInv => SizeBound
  BY DEF SizeInv
<1>4. QED
  BY <1>1, <1>2, <1>3, TypeCorrect, SettersExclude, PTL DEF Spec

--------------------------------------------------------------------------------
(* What the flush leaves behind.                                           *)

InHand == {"locking"} \cup Critical

\* A cache serves data from before its own last flush only where stragglers stored it.
CacheFresh == \A k \in Keys : Live(k) /\ items[k].epoch < floor[Method[k]] => k \in late

\* The invariant behind CacheFresh: the flush knows no epoch that the
\* database has not reached, and a call whose data is older than the last flush of
\* its cache was there when it happened.
FreshInv ==
  /\ known <= epoch
  /\ \A m \in Methods : floor[m] <= known
  /\ \A c \in Calls : pc[c] \in InHand /\ got[c] < floor[Method[key[c]]] => c \in straggling
  /\ CacheFresh

\* The epochs compared in FreshInv are numbers.
LEMMA FreshTypes ==
  ASSUME TypeOK
  PROVE  /\ epoch \in Nat /\ known \in Nat
         /\ \A m \in Methods : floor[m] \in Nat
         /\ \A c \in Calls : got[c] \in Nat
         /\ \A k \in Keys : items[k].epoch \in Nat /\ items[k].ttl \in Nat
BY ConfigAssumption DEF TypeOK, Epochs, ConfigAssumption

\* A step that brings no item and no data in hand.
LEMMA FreshKept ==
  ASSUME FreshInv, UNCHANGED <<known, floor, straggling, late>>, epoch' = epoch,
         \A c \in Calls : pc'[c] \in InHand =>
           pc[c] \in InHand /\ got'[c] = got[c] /\ key'[c] = key[c],
         \A k \in Keys : Live(k)' => Live(k) /\ items'[k].epoch = items[k].epoch
  PROVE  FreshInv'
BY DEF FreshInv, CacheFresh

\* Flush keeps FreshInv: whoever holds data of that cache becomes a straggler.
LEMMA FreshFlush ==
  ASSUME TypeOK, FreshInv, NEW m \in Methods, Flush(m)
  PROVE  FreshInv'
<1> USE DEF call, watch, history
<1>1. UNCHANGED <<pc, key, got, known, epoch>>
  BY DEF Flush
<1>2. floor'[m] = known /\ \A n \in Methods : n # m => floor'[n] = floor[n]
  BY DEF Flush, TypeOK
<1>3. \A n \in Methods : floor'[n] <= known
  BY <1>2, FreshTypes DEF FreshInv
<1>4. ASSUME NEW c \in Calls, pc[c] \in InHand, got[c] < floor'[Method[key[c]]]
      PROVE  c \in straggling'
  <2>1. CASE Method[key[c]] = m
    BY <1>4, <2>1 DEF Flush, Storing, InHand, Critical
  <2>2. CASE Method[key[c]] # m
    BY <1>2, <1>4, <2>2, MethodTyped DEF Flush, FreshInv
  <2>3. QED
    BY <2>1, <2>2
<1>5. ASSUME NEW k \in Keys, Live(k)', items'[k].epoch < floor'[Method[k]]
      PROVE  k \in late'
  <2>1. Method[k] # m
    BY <1>5 DEF Flush, Live, NoItem
  <2>2. Method[k] \in Methods
    BY KeysAssumption DEF KeysAssumption
  <2>3. items'[k] = items[k]
    BY <2>1 DEF Flush
  <2>4. k \in late
    BY <1>2, <1>5, <2>1, <2>2, <2>3 DEF FreshInv, CacheFresh, Live
  <2>5. QED
    BY <2>1, <2>4 DEF Flush
<1>6. QED
  BY <1>1, <1>3, <1>4, <1>5 DEF FreshInv, CacheFresh

\* Insert keeps FreshInv: old data is stored by a straggler only.
LEMMA FreshInsert ==
  ASSUME TypeOK, FreshInv, NEW c \in Calls, Insert(c)
  PROVE  FreshInv'
<1> USE DEF call, watch, history
<1>1. UNCHANGED <<key, got, known, epoch, floor>> /\ pc[c] = "inserting"
  BY DEF Insert
<1>2. ASSUME NEW d \in Calls, pc'[d] \in InHand
      PROVE  d # c /\ pc[d] \in InHand
  BY <1>2 DEF Insert, TypeOK, InHand, Critical
<1>3. \A d \in Calls : d # c => (d \in straggling' <=> d \in straggling)
  BY DEF Insert
<1>4. ASSUME NEW k \in Keys, Live(k)', items'[k].epoch < floor[Method[k]]
      PROVE  k \in late'
  <2>1. CASE k = key[c]
    <3>1. items'[k].epoch = got[c]
      BY <2>1 DEF Insert, NewItem, TypeOK
    <3>2. c \in straggling
      BY <1>1, <1>4, <2>1, <3>1 DEF FreshInv, InHand, Critical
    <3>3. QED
      BY <2>1, <3>2 DEF Insert
  <2>2. CASE k # key[c]
    <3>1. items'[k] = items[k]
      BY <2>2 DEF Insert, TypeOK
    <3>2. k \in late
      BY <1>4, <3>1 DEF FreshInv, CacheFresh, Live
    <3>3. QED
      BY <2>2, <3>2 DEF Insert
  <2>3. QED
    BY <2>1, <2>2
<1>5. QED
  BY <1>1, <1>2, <1>3, <1>4 DEF FreshInv, CacheFresh

\* After the flush of a cache only stragglers bring data of past epochs back to it.
THEOREM FlushIsThorough == Spec => []FreshInv
<1>1. Init => FreshInv
  <2> SUFFICES ASSUME Init PROVE FreshInv
    OBVIOUS
  <2>1. \A k \in Keys : ~Live(k)
    BY DEF Init, Live, NoItem
  <2>2. known = 0 /\ epoch = 1 /\ (\A m \in Methods : floor[m] = 0)
    BY DEF Init
  <2>3. \A c \in Calls : pc[c] \notin InHand
    BY DEF Init, InHand, Critical
  <2>4. QED
    BY <2>1, <2>2, <2>3 DEF FreshInv, CacheFresh
<1>2. TypeOK /\ FreshInv /\ [Next]_vars => FreshInv'
  <2> SUFFICES ASSUME TypeOK, FreshInv, [Next]_vars PROVE FreshInv'
    OBVIOUS
  <2> USE DEF call, watch, history
  <2>1. ASSUME UNCHANGED items
        PROVE  \A k \in Keys : Live(k)' => Live(k) /\ items'[k].epoch = items[k].epoch
    BY <2>1 DEF Live
  <2>2. ASSUME NEW c \in Calls, Start(c) \/ GetCache(c) \/ Look(c) \/ Return(c)
        PROVE  FreshInv'
    <3>1. \A d \in Calls : pc'[d] \in InHand =>
            pc[d] \in InHand /\ got'[d] = got[d] /\ key'[d] = key[d]
      BY <2>2 DEF Start, GetCache, Look, Return, TypeOK, InHand, Critical
    <3>2. QED
      BY <2>1, <2>2, <3>1, FreshKept DEF Start, GetCache, Look, Return
  <2>3. ASSUME NEW c \in Calls, LockSet(c) PROVE FreshInv'
    <3>1. \A d \in Calls : pc'[d] \in InHand =>
            pc[d] \in InHand /\ got'[d] = got[d] /\ key'[d] = key[d]
      BY <2>3 DEF LockSet, TypeOK, InHand, Critical
    <3>2. QED
      BY <2>1, <2>3, <3>1, FreshKept DEF LockSet
  <2>4. ASSUME NEW c \in Calls, Load(c) PROVE FreshInv'
    <3>1. UNCHANGED <<key, items, known, epoch, history>>
      BY <2>4 DEF Load
    <3>2. got'[c] = epoch /\ \A d \in Calls \ {c} : pc'[d] = pc[d] /\ got'[d] = got[d]
      BY <2>4 DEF Load, TypeOK
    <3>3. ~(epoch < floor[Method[key[c]]])
      BY FreshTypes, MethodTyped DEF FreshInv
    <3>4. CacheFresh'
      BY <2>1, <3>1 DEF FreshInv, CacheFresh
    <3>5. QED
      BY <3>1, <3>2, <3>3, <3>4 DEF FreshInv
  <2>5. ASSUME NEW m, items' = DeleteExpired(m)
        PROVE  \A k \in Keys : Live(k)' => Live(k) /\ items'[k].epoch = items[k].epoch
    BY <2>5 DEF DeleteExpired, NoItem, Live
  <2>6. ASSUME NEW c \in Calls, Purge(c) PROVE FreshInv'
    <3>1. \A d \in Calls : pc'[d] \in InHand =>
            pc[d] \in InHand /\ got'[d] = got[d] /\ key'[d] = key[d]
      BY <2>6 DEF Purge, TypeOK, InHand, Critical
    <3>2. QED
      BY <2>5, <2>6, <3>1, FreshKept DEF Purge
  <2>7. ASSUME NEW c \in Calls, Recheck(c) PROVE FreshInv'
    <3>1. UNCHANGED <<key, got, items, known, epoch, floor, late>>
      BY <2>7 DEF Recheck
    <3>2. \A d \in Calls : pc'[d] \in InHand => pc[d] \in InHand
      BY <2>7 DEF Recheck, TypeOK, InHand, Critical
    <3>3. pc'[c] \in InHand => UNCHANGED straggling
      BY <2>7 DEF Recheck, TypeOK, InHand, Critical
    <3>4. \A d \in Calls \ {c} : d \in straggling => d \in straggling'
      BY <2>7 DEF Recheck
    <3>5. CacheFresh'
      BY <2>1, <3>1 DEF FreshInv, CacheFresh
    <3>6. ASSUME NEW d \in Calls, pc'[d] \in InHand, got'[d] < floor'[Method[key'[d]]]
          PROVE  d \in straggling'
      <4>1. d \in straggling
        BY <3>1, <3>2, <3>6 DEF FreshInv
      <4>2. QED
        BY <3>3, <3>4, <3>6, <4>1
    <3>7. QED
      BY <3>1, <3>5, <3>6 DEF FreshInv
  <2>8. ASSUME NEW c \in Calls, Insert(c) PROVE FreshInv'
    BY <2>8, FreshInsert
  <2>9. ASSUME NEW m \in Methods, Flush(m) PROVE FreshInv'
    BY <2>9, FreshFlush
  <2>10. CASE Poll
    <3>1. /\ known' = epoch /\ known < epoch
          /\ UNCHANGED <<pc, key, got, items, epoch, history>>
      BY <2>10, FreshTypes DEF Poll
    <3>2. \A m \in Methods : floor'[m] <= known'
      BY <3>1, FreshTypes DEF FreshInv
    <3>3. QED
      BY <2>1, <3>1, <3>2, FreshTypes DEF FreshInv, CacheFresh
  <2>11. ASSUME NEW m \in Methods, Janitor(m) PROVE FreshInv'
    BY <2>5, <2>11, FreshKept DEF Janitor
  <2>12. CASE NewEpoch
    <3>1. epoch' = epoch + 1 /\ UNCHANGED <<pc, key, got, items, known, history>>
      BY <2>12 DEF NewEpoch
    <3>2. known' <= epoch'
      BY <3>1, FreshTypes DEF FreshInv
    <3>3. QED
      BY <2>1, <3>1, <3>2 DEF FreshInv, CacheFresh
  <2>13. CASE Tick
    <3>1. \A k \in Keys : items'[k].epoch = items[k].epoch
      BY <2>13 DEF Tick, TypeOK
    <3>2. \A k \in Keys : items'[k].ttl > 0 => items[k].ttl > 0
      BY <2>13 DEF Tick, TypeOK
    <3>3. \A k \in Keys : Live(k)' => Live(k) /\ items'[k].epoch = items[k].epoch
      BY <3>1, <3>2 DEF Live
    <3>4. QED
      BY <2>13, <3>3, FreshKept DEF Tick
  <2>14. CASE StartFlush \/ EndFlush \/ UNCHANGED vars
    <3>1. UNCHANGED <<pc, key, got, items, known, epoch, floor, straggling, late>>
      BY <2>14 DEF StartFlush, EndFlush, vars
    <3>2. QED
      BY <2>1, <3>1, FreshKept
  <2>15. QED
    BY <2>2, <2>3, <2>4, <2>6, <2>7, <2>8, <2>9, <2>10, <2>11, <2>12, <2>13, <2>14
    DEF Next, Accessor, Clearing
<1>3. QED
  BY <1>1, <1>2, TypeCorrect, PTL DEF Spec

--------------------------------------------------------------------------------
(* The flush reaches every cache.                                          *)

\* Calls go on with a cache only after they made it, and items are in caches.
MadeInv ==
  /\ \A c \in Calls : pc[c] \notin {"idle", "entering"} => Method[key[c]] \in caches
  /\ \A k \in Keys : items[k].epoch # 0 => Method[k] \in caches

\* A step that takes no call past getCache and brings no item.
LEMMA MadeKept ==
  ASSUME MadeInv, caches \subseteq caches',
         \A c \in Calls : pc'[c] \notin {"idle", "entering"} =>
           pc[c] \notin {"idle", "entering"} /\ key'[c] = key[c],
         \A k \in Keys : items'[k].epoch # 0 => items[k].epoch # 0
  PROVE  MadeInv'
BY DEF MadeInv

\* Whatever is stored is in a cache that the flush ranges over, and so is the cache
\* that any call works on.
THEOREM NoHiddenCache == Spec => []MadeInv
<1>1. Init => MadeInv
  BY DEF Init, MadeInv, NoItem
<1>2. TypeOK /\ MadeInv /\ [Next]_vars => MadeInv'
  <2> SUFFICES ASSUME TypeOK, MadeInv, [Next]_vars PROVE MadeInv'
    OBVIOUS
  <2> USE DEF call, watch, history
  <2>1. ASSUME NEW c \in Calls, Start(c) \/ Look(c) \/ Load(c) \/ LockSet(c) \/ Return(c)
        PROVE  MadeInv'
    <3>1. \A d \in Calls : pc'[d] \notin {"idle", "entering"} =>
            pc[d] \notin {"idle", "entering"} /\ key'[d] = key[d]
      BY <2>1 DEF Start, Look, Load, LockSet, Return, TypeOK
    <3>2. UNCHANGED <<caches, items>>
      BY <2>1 DEF Start, Look, Load, LockSet, Return
    <3>3. QED
      BY <3>1, <3>2, MadeKept
  <2>2. ASSUME NEW c \in Calls, GetCache(c) PROVE MadeInv'
    <3>1. UNCHANGED <<key, items>> /\ caches' = caches \cup {Method[key[c]]}
      BY <2>2 DEF GetCache
    <3>2. \A d \in Calls : d # c => pc'[d] = pc[d]
      BY <2>2 DEF GetCache, TypeOK
    <3>3. QED
      BY <3>1, <3>2 DEF MadeInv
  <2>3. ASSUME NEW m PROVE \A k \in Keys : DeleteExpired(m)[k].epoch # 0 => items[k].epoch # 0
    BY DEF DeleteExpired, NoItem
  <2>4. ASSUME NEW c \in Calls, Purge(c) \/ Recheck(c) PROVE MadeInv'
    <3>1. \A d \in Calls : pc'[d] \notin {"idle", "entering"} =>
            pc[d] \notin {"idle", "entering"} /\ key'[d] = key[d]
      BY <2>4 DEF Purge, Recheck, TypeOK
    <3>2. /\ UNCHANGED caches
          /\ \A k \in Keys : items'[k].epoch # 0 => items[k].epoch # 0
      BY <2>3, <2>4 DEF Purge, Recheck
    <3>3. QED
      BY <3>1, <3>2, MadeKept
  <2>5. ASSUME NEW c \in Calls, Insert(c) PROVE MadeInv'
    <3>1. UNCHANGED <<key, caches>> /\ pc[c] = "inserting"
      BY <2>5 DEF Insert
    <3>2. \A k \in Keys : k # key[c] => items'[k] = items[k]
      BY <2>5 DEF Insert, TypeOK
    <3>3. \A d \in Calls : d # c => pc'[d] = pc[d]
      BY <2>5 DEF Insert, TypeOK
    <3>4. QED
      BY <3>1, <3>2, <3>3 DEF MadeInv
  <2>6. ASSUME NEW m \in Methods, Flush(m) \/ Janitor(m) PROVE MadeInv'
    <3>1. \A k \in Keys : items'[k].epoch # 0 => items[k].epoch # 0
      BY <2>3, <2>6 DEF Flush, Janitor, NoItem
    <3>2. QED
      BY <2>6, <3>1, MadeKept DEF Flush, Janitor
  <2>7. CASE Tick
    <3>1. \A k \in Keys : items'[k].epoch = items[k].epoch
      BY <2>7 DEF Tick, TypeOK
    <3>2. QED
      BY <2>7, <3>1, MadeKept DEF Tick
  <2>8. CASE Poll \/ StartFlush \/ EndFlush \/ NewEpoch \/ UNCHANGED vars
    <3>1. UNCHANGED <<pc, key, items, caches>>
      BY <2>8 DEF Poll, StartFlush, EndFlush, NewEpoch, vars
    <3>2. QED
      BY <3>1, MadeKept
  <2>9. QED
    BY <2>1, <2>2, <2>4, <2>5, <2>6, <2>7, <2>8 DEF Next, Accessor, Clearing
<1>3. QED
  BY <1>1, <1>2, TypeCorrect, PTL DEF Spec

\* The caches that the flush for the monitor's epoch has behind it, ...
Reached ==
  IF monitor = "flushing" THEN Methods \ toFlush
  ELSE IF monitor = "polling" /\ (\E n \in Methods : floor[n] = known) THEN Methods
  ELSE {}

\* ... and what that means for one: only stragglers bring older data to it.
Clean(m) ==
  /\ \A k \in Keys : Method[k] = m /\ Live(k) /\ items[k].epoch < known => k \in late
  /\ \A c \in Calls : Method[key[c]] = m /\ pc[c] \in InHand /\ got[c] < known =>
       c \in straggling
ReachInv == \A m \in Reached : Clean(m)

\* A step that brings no item to m and no data of m in hand.
LEMMA CleanKept ==
  ASSUME NEW m, Clean(m), known' = known,
         \A c \in Calls : pc'[c] \in InHand =>
           /\ pc[c] \in InHand /\ got'[c] = got[c] /\ key'[c] = key[c]
           /\ c \in straggling => c \in straggling',
         \A k \in Keys : Method[k] = m /\ Live(k)' =>
           Live(k) /\ items'[k].epoch = items[k].epoch /\ (k \in late => k \in late')
  PROVE  Clean(m)'
BY DEF Clean

\* Insert keeps a cache clean: old data is stored by a straggler only.
LEMMA CleanInsert ==
  ASSUME TypeOK, NEW m, Clean(m), NEW c \in Calls, Insert(c)
  PROVE  Clean(m)'
<1> USE DEF call, watch, history
<1>1. UNCHANGED <<key, got, known>> /\ pc[c] = "inserting"
  BY DEF Insert
<1>2. ASSUME NEW d \in Calls, pc'[d] \in InHand
      PROVE  pc[d] \in InHand /\ (d \in straggling => d \in straggling')
  BY <1>2 DEF Insert, TypeOK, InHand, Critical
<1>3. ASSUME NEW k \in Keys, Method[k] = m, Live(k)', items'[k].epoch < known
      PROVE  k \in late'
  <2>1. CASE k = key[c]
    <3>1. items'[k].epoch = got[c]
      BY <2>1 DEF Insert, NewItem, TypeOK
    <3>2. c \in straggling
      BY <1>1, <1>3, <2>1, <3>1 DEF Clean, InHand, Critical
    <3>3. QED
      BY <2>1, <3>2 DEF Insert
  <2>2. CASE k # key[c]
    <3>1. items'[k] = items[k]
      BY <2>2 DEF Insert, TypeOK
    <3>2. k \in late
      BY <1>3, <3>1 DEF Clean, Live
    <3>3. QED
      BY <2>2, <3>2 DEF Insert
  <2>3. QED
    BY <2>1, <2>2
<1>4. QED
  BY <1>1, <1>2, <1>3 DEF Clean

\* Flush cleans its cache and keeps the others clean.
LEMMA CleanFlush ==
  ASSUME TypeOK, NEW m \in Methods, NEW n \in Methods, Flush(n), m = n \/ Clean(m)
  PROVE  Clean(m)'
<1> USE DEF call, watch, history
<1>1. UNCHANGED <<pc, key, got, known>> /\ straggling \subseteq straggling'
  BY DEF Flush
<1>2. CASE m = n
  <2>1. \A k \in Keys : Method[k] = m => ~Live(k)'
    BY <1>2 DEF Flush, Live, NoItem
  <2>2. \A c \in Calls : Method[key[c]] = m /\ pc[c] \in InHand => c \in straggling'
    BY <1>2 DEF Flush, Storing, InHand, Critical
  <2>3. QED
    BY <1>1, <2>1, <2>2 DEF Clean
<1>3. CASE m # n
  <2>1. ASSUME NEW k \in Keys, Method[k] = m
        PROVE  items'[k] = items[k] /\ (k \in late => k \in late')
    BY <1>3, <2>1 DEF Flush
  <2>2. QED
    BY <1>1, <1>3, <2>1, CleanKept DEF Live
<1>4. QED
  BY <1>2, <1>3

\* When a flush is over, every cache is clean, whether it was there when the flush began
\* or calls made it since: no cache serves data from before the monitor's epoch but
\* where stragglers stored it.
THEOREM FlushReachesEveryCache == Spec => []ReachInv
<1>1. Init => ReachInv
  <2> SUFFICES ASSUME Init PROVE \A m : Clean(m)
    BY DEF ReachInv
  <2>1. known = 0 /\ (\A c \in Calls : got[c] = 0) /\ (\A k \in Keys : items[k].epoch = 0)
    BY DEF Init, NoItem
  <2>2. QED
    BY <2>1 DEF Clean
<1>2. TypeOK /\ FreshInv /\ MadeInv /\ ReachInv /\ [Next]_vars => ReachInv'
  <2> SUFFICES ASSUME TypeOK, FreshInv, MadeInv, ReachInv, [Next]_vars,
                      NEW m \in Reached'
               PROVE  Clean(m)'
    BY DEF ReachInv
  <2> USE DEF call, watch, history
  <2>1. m \in Methods
    BY DEF Reached
  <2>2. ASSUME UNCHANGED <<monitor, known, toFlush, floor>> PROVE Clean(m)
    BY <2>2 DEF Reached, ReachInv
  <2>3. ASSUME UNCHANGED items
        PROVE  \A k \in Keys : Live(k)' => Live(k) /\ items'[k].epoch = items[k].epoch
    BY <2>3 DEF Live
  <2>4. ASSUME NEW n, items' = DeleteExpired(n)
        PROVE  \A k \in Keys : Live(k)' => Live(k) /\ items'[k].epoch = items[k].epoch
    BY <2>4 DEF DeleteExpired, NoItem, Live
  <2>5. ASSUME NEW c \in Calls,
               Start(c) \/ GetCache(c) \/ Look(c) \/ LockSet(c) \/ Return(c) \/ Purge(c)
               \/ Recheck(c)
        PROVE  Clean(m)'
    <3>1. \A d \in Calls : pc'[d] \in InHand =>
            pc[d] \in InHand /\ got'[d] = got[d] /\ key'[d] = key[d]
      BY <2>5 DEF Start, GetCache, Look, LockSet, Return, Purge, Recheck, TypeOK, InHand,
                  Critical
    <3>2. \A d \in Calls : pc'[d] \in InHand => (d \in straggling => d \in straggling')
      BY <2>5 DEF Start, GetCache, Look, LockSet, Return, Purge, Recheck, TypeOK, InHand,
                  Critical
    <3>3. \A k \in Keys : Live(k)' => Live(k) /\ items'[k].epoch = items[k].epoch
      BY <2>3, <2>4, <2>5 DEF Start, GetCache, Look, LockSet, Return, Purge, Recheck
    <3>4. UNCHANGED <<monitor, known, toFlush, floor, late>>
      BY <2>5 DEF Start, GetCache, Look, LockSet, Return, Purge, Recheck
    <3>5. QED
      BY <2>2, <3>1, <3>2, <3>3, <3>4, CleanKept
  <2>6. ASSUME NEW c \in Calls, Load(c) PROVE Clean(m)'
    <3>1. UNCHANGED <<key, items, monitor, known, toFlush, epoch, history>>
      BY <2>6 DEF Load
    <3>2. got'[c] = epoch /\ \A d \in Calls \ {c} : pc'[d] = pc[d] /\ got'[d] = got[d]
      BY <2>6 DEF Load, TypeOK
    <3>3. ~(epoch < known)
      BY FreshTypes DEF FreshInv
    <3>4. Clean(m)
      BY <2>2, <3>1
    <3>5. QED
      BY <2>3, <3>1, <3>2, <3>3, <3>4 DEF Clean
  <2>7. ASSUME NEW c \in Calls, Insert(c) PROVE Clean(m)'
    <3>1. UNCHANGED <<monitor, known, toFlush, floor>>
      BY <2>7 DEF Insert
    <3>2. QED
      BY <2>2, <2>7, <3>1, CleanInsert
  <2>8. ASSUME NEW n \in Methods, Flush(n) PROVE Clean(m)'
    <3>1. m = n \/ m \in Reached
      BY <2>1, <2>8 DEF Flush, Reached
    <3>2. QED
      BY <2>1, <2>8, <3>1, CleanFlush DEF ReachInv
  <2>9. CASE Poll
    <3>1. known' = epoch /\ known < epoch /\ UNCHANGED floor /\ monitor' # "flushing"
      BY <2>9, FreshTypes DEF Poll
    <3>2. \A n \in Methods : floor'[n] # known'
      BY <3>1, FreshTypes DEF FreshInv
    <3>3. QED
      BY <3>1, <3>2 DEF Reached
  <2>10. CASE StartFlush
    <3>1. /\ m \notin caches
          /\ UNCHANGED <<pc, key, got, items, known, straggling, late>>
      BY <2>1, <2>10 DEF StartFlush, Reached
    <3>2. \A k \in Keys : Method[k] = m => ~Live(k)
      BY <3>1 DEF MadeInv, Live
    <3>3. \A c \in Calls : Method[key[c]] = m => pc[c] \notin InHand
      BY <3>1 DEF MadeInv, InHand, Critical
    <3>4. Clean(m)
      BY <3>2, <3>3 DEF Clean
    <3>5. QED
      BY <2>3, <3>1, <3>4, CleanKept
  <2>11. CASE EndFlush
    <3>1. /\ m \in Reached
          /\ UNCHANGED <<pc, key, got, items, known, straggling, late>>
      BY <2>1, <2>11 DEF EndFlush, Reached
    <3>2. QED
      BY <2>3, <3>1, CleanKept DEF ReachInv
  <2>12. ASSUME NEW n \in Methods, Janitor(n) PROVE Clean(m)'
    <3>1. UNCHANGED <<pc, key, got, monitor, known, toFlush, floor, straggling, late>>
      BY <2>12 DEF Janitor
    <3>2. \A k \in Keys : Live(k)' => Live(k) /\ items'[k].epoch = items[k].epoch
      BY <2>4, <2>12 DEF Janitor
    <3>3. QED
      BY <2>2, <3>1, <3>2, CleanKept
  <2>13. CASE Tick
    <3>1. UNCHANGED <<pc, key, got, monitor, known, toFlush, floor, straggling, late>>
      BY <2>13 DEF Tick
    <3>2. \A k \in Keys : items'[k].epoch = items[k].epoch
      BY <2>13 DEF Tick, TypeOK
    <3>3. \A k \in Keys : items'[k].ttl > 0 => items[k].ttl > 0
      BY <2>13 DEF Tick, TypeOK
    <3>4. \A k \in Keys : Live(k)' => Live(k) /\ items'[k].epoch = items[k].epoch
      BY <3>2, <3>3 DEF Live
    <3>5. QED
      BY <2>2, <3>1, <3>4, CleanKept
  <2>14. CASE NewEpoch \/ UNCHANGED vars
    <3>1. UNCHANGED <<pc, key, got, items, monitor, known, toFlush, floor, straggling, late>>
      BY <2>14 DEF NewEpoch, vars
    <3>2. QED
      BY <2>2, <2>3, <3>1, CleanKept
  <2>15. QED
    BY <2>5, <2>6, <2>7, <2>8, <2>9, <2>10, <2>11, <2>12, <2>13, <2>14
    DEF Next, Accessor, Clearing
<1>3. QED
  BY <1>1, <1>2, TypeCorrect, FlushIsThorough, NoHiddenCache, PTL DEF Spec

\* After a flush only stragglers bring data of past epochs back, to any cache.
THEOREM OnlyStragglersAreStale == Spec => []StaleOnlyFromStragglers
<1>1. FreshInv /\ ReachInv => StaleOnlyFromStragglers
  <2> SUFFICES ASSUME FreshInv, ReachInv,
                      NEW k \in Keys, Live(k), items[k].epoch < FlushedTo(Method[k])
               PROVE  k \in late
    BY DEF StaleOnlyFromStragglers
  <2>1. Method[k] \in Methods
    BY KeysAssumption DEF KeysAssumption
  <2>2. CASE monitor = "polling" /\ (\E n \in Methods : floor[n] = known)
    <3>1. Clean(Method[k]) /\ items[k].epoch < known
      BY <2>1, <2>2 DEF Reached, ReachInv, FlushedTo
    <3>2. QED
      BY <3>1 DEF Clean
  <2>3. CASE ~(monitor = "polling" /\ (\E n \in Methods : floor[n] = known))
    BY <2>3 DEF FreshInv, CacheFresh, FlushedTo
  <2>4. QED
    BY <2>2, <2>3
<1>2. QED
  BY <1>1, FlushIsThorough, FlushReachesEveryCache, PTL

--------------------------------------------------------------------------------
(* Refinement of StaleReads.                                               *)

\* A call that has data in hand or was answered holds the epoch of that data.
HandInv == \A c \in Calls : pc[c] \in InHand \cup {"answered"} => got[c] # 0

\* A call that stores or returns data has read it: no answer without an epoch.
THEOREM HandsAreFull == Spec => []HandInv
<1>1. Init => HandInv
  BY DEF Init, HandInv, InHand, Critical
<1>2. TypeOK /\ HandInv /\ [Next]_vars => HandInv'
  <2> SUFFICES ASSUME TypeOK, HandInv, [Next]_vars PROVE HandInv'
    OBVIOUS
  <2> USE DEF call, watch, history
  <2>1. ASSUME NEW c \in Calls, Look(c) PROVE HandInv'
    BY <2>1 DEF Look, Found, Live, TypeOK, HandInv, InHand, Critical
  <2>2. ASSUME NEW c \in Calls, Load(c) PROVE HandInv'
    <3>1. epoch # 0
      BY ConfigAssumption DEF TypeOK, Epochs, ConfigAssumption
    <3>2. QED
      BY <2>2, <3>1 DEF Load, TypeOK, HandInv, InHand, Critical
  <2>3. ASSUME NEW c \in Calls, Start(c) \/ GetCache(c) \/ Return(c) PROVE HandInv'
    <3>1. \A d \in Calls : pc'[d] \in InHand \cup {"answered"} =>
            pc[d] \in InHand \cup {"answered"} /\ got'[d] = got[d]
      BY <2>3 DEF Start, GetCache, Return, TypeOK, InHand, Critical
    <3>2. QED
      BY <3>1 DEF HandInv
  <2>4. ASSUME NEW c \in Calls, LockSet(c) \/ Purge(c) \/ Recheck(c) \/ Insert(c)
        PROVE  HandInv'
    <3>1. pc[c] \in InHand /\ UNCHANGED got
      BY <2>4 DEF LockSet, Purge, Recheck, Insert, InHand, Critical
    <3>2. \A d \in Calls \ {c} : pc'[d] = pc[d]
      BY <2>4 DEF LockSet, Purge, Recheck, Insert, TypeOK
    <3>3. QED
      BY <3>1, <3>2 DEF HandInv
  <2>5. ASSUME UNCHANGED <<pc, got>> PROVE HandInv'
    BY <2>5 DEF HandInv
  <2>6. QED
    BY <2>1, <2>2, <2>3, <2>4, <2>5
    DEF Next, Accessor, Clearing, Poll, StartFlush, EndFlush, Flush, Janitor, NewEpoch,
        Tick, vars
<1>3. QED
  BY <1>1, <1>2, TypeCorrect, PTL DEF Spec

\* A step after which every live item and every call holds an epoch that was
\* remembered before, or the current one.
LEMMA MemoryKept ==
  ASSUME \A k \in Keys : Live(k)' => items'[k].epoch \in Remembered \cup {epoch'},
         \A c \in Calls : got'[c] # 0 => got'[c] \in Remembered \cup {epoch'}
  PROVE  Reads!Remembering
<1>1. epoch' \in Remembered'
  BY DEF Remembered
<1>2. Remembered' \subseteq Remembered \cup {epoch'}
  BY DEF Remembered
<1>3. QED
  BY <1>1, <1>2 DEF Reads!Remembering

\* What a live item holds is remembered.
LEMMA ItemsRemembered == \A k \in Keys : Live(k) => items[k].epoch \in Remembered
BY DEF Remembered

\* What a call holds is remembered.
LEMMA HandsRemembered == \A c \in Calls : got[c] # 0 => got[c] \in Remembered
BY DEF Remembered

\* The accessor implements StaleReads: what was forgotten never comes back.
THEOREM AccessorImplementsStaleReads == Spec => ReadsSpec
<1>1. Init => Reads!Init
  <2> SUFFICES ASSUME Init PROVE Reads!Init
    OBVIOUS
  <2>1. Remembered = {epoch}
    BY DEF Init, Remembered, Live, NoItem
  <2>2. Answer = [c \in Calls |-> 0]
    BY DEF Init, Answer
  <2>3. QED
    BY <2>1, <2>2 DEF Init, Reads!Init
<1>2. TypeOK /\ HandInv /\ [Next]_vars => [Reads!Next]_Reads!vars
  <2> SUFFICES ASSUME TypeOK, HandInv, [Next]_vars
               PROVE  Reads!Next \/ UNCHANGED Reads!vars
    OBVIOUS
  <2> USE DEF call, watch, history
  <2>1. ASSUME UNCHANGED items
        PROVE  \A k \in Keys : Live(k)' => items'[k].epoch \in Remembered
    BY <2>1, ItemsRemembered DEF Live
  <2>2. ASSUME UNCHANGED <<pc, got>>
        PROVE  UNCHANGED Answer /\ \A c \in Calls : got'[c] # 0 => got'[c] \in Remembered
    BY <2>2, HandsRemembered DEF Answer
  <2>3. ASSUME Reads!Remembering, UNCHANGED <<epoch, Answer>> PROVE Reads!Next
    BY <2>3 DEF Reads!Next, Reads!Forget
  <2>4. ASSUME NEW c \in Calls, Start(c) \/ GetCache(c) \/ LockSet(c) PROVE Reads!Next
    <3>1. UNCHANGED <<got, items, epoch>>
      BY <2>4 DEF Start, GetCache, LockSet
    <3>2. UNCHANGED Answer
      BY <2>4 DEF Start, GetCache, LockSet, Answer, TypeOK
    <3>3. QED
      BY <2>1, <2>3, <3>1, <3>2, MemoryKept, HandsRemembered
  <2>5. ASSUME NEW c \in Calls, NEW e, e # 0, e \in Remembered, pc[c] # "answered",
               pc' = [pc EXCEPT ![c] = "answered"], got' = [got EXCEPT ![c] = e],
               UNCHANGED epoch,
               \A k \in Keys : Live(k)' => items'[k].epoch \in Remembered
        PROVE  Reads!Next
    <3>1. Answer[c] = 0 /\ Answer' = [Answer EXCEPT ![c] = e]
      BY <2>5 DEF Answer, TypeOK
    <3>2. \A d \in Calls : got'[d] # 0 => got'[d] \in Remembered
      BY <2>5, HandsRemembered DEF TypeOK
    <3>3. Reads!Remembering
      BY <2>5, <3>2, MemoryKept
    <3>4. QED
      BY <2>5, <3>1, <3>3 DEF Reads!Next, Reads!Answer
  <2>6. ASSUME NEW c \in Calls, Look(c) PROVE Reads!Next
    <3>1. UNCHANGED <<items, epoch>> /\ pc[c] = "looking" /\ key[c] \in Keys
      BY <2>6, MethodTyped DEF Look
    <3>2. CASE Found(key[c])
      <4>1. items[key[c]].epoch \in Remembered /\ items[key[c]].epoch # 0
        BY <3>1, <3>2, ItemsRemembered DEF Found, Live
      <4>2. QED
        BY <2>1, <2>5, <2>6, <3>1, <3>2, <4>1 DEF Look
    <3>3. CASE ~Found(key[c])
      <4>1. UNCHANGED got /\ pc' = [pc EXCEPT ![c] = "loading"]
        BY <2>6, <3>3 DEF Look
      <4>2. UNCHANGED Answer
        BY <3>1, <4>1 DEF Answer, TypeOK
      <4>3. QED
        BY <2>1, <2>3, <3>1, <4>1, <4>2, MemoryKept, HandsRemembered
    <3>4. QED
      BY <3>2, <3>3
  <2>7. ASSUME NEW c \in Calls, Load(c) PROVE Reads!Next
    <3>1. UNCHANGED <<items, epoch>> /\ got' = [got EXCEPT ![c] = epoch]
      BY <2>7 DEF Load
    <3>2. UNCHANGED Answer
      BY <2>7 DEF Load, Answer, TypeOK
    <3>3. \A d \in Calls : got'[d] # 0 => got'[d] \in Remembered
      BY <3>1, HandsRemembered DEF TypeOK, Remembered
    <3>4. QED
      BY <2>1, <2>3, <3>1, <3>2, <3>3, MemoryKept
  <2>8. ASSUME NEW c \in Calls, Return(c) PROVE Reads!Next
    <3>1. UNCHANGED <<items, epoch>> /\ pc[c] = "answered" /\ got' = [got EXCEPT ![c] = 0]
      BY <2>8 DEF Return
    <3>2. Answer[c] # 0 /\ Answer' = [Answer EXCEPT ![c] = 0]
      BY <2>8, <3>1 DEF Return, Answer, TypeOK, HandInv
    <3>3. \A d \in Calls : got'[d] # 0 => got'[d] \in Remembered
      BY <3>1, HandsRemembered DEF TypeOK
    <3>4. Reads!Remembering
      BY <2>1, <3>1, <3>3, MemoryKept
    <3>5. QED
      BY <3>1, <3>2, <3>4 DEF Reads!Next, Reads!Return
  <2>9. ASSUME NEW m, items' = DeleteExpired(m)
        PROVE  \A k \in Keys : Live(k)' => items'[k].epoch \in Remembered
    <3>1. \A k \in Keys : Live(k)' => Live(k) /\ items'[k] = items[k]
      BY <2>9 DEF DeleteExpired, NoItem, Live
    <3>2. QED
      BY <3>1, ItemsRemembered
  <2>10. ASSUME NEW c \in Calls, Purge(c) PROVE Reads!Next
    <3>1. UNCHANGED <<got, epoch>>
      BY <2>10 DEF Purge
    <3>2. UNCHANGED Answer
      BY <2>10 DEF Purge, Answer, TypeOK
    <3>3. \A k \in Keys : Live(k)' => items'[k].epoch \in Remembered
      BY <2>9, <2>10 DEF Purge
    <3>4. QED
      BY <2>3, <3>1, <3>2, <3>3, MemoryKept, HandsRemembered
  <2>11. ASSUME NEW c \in Calls, pc[c] \in InHand,
                pc' = [pc EXCEPT ![c] = "answered"], UNCHANGED <<got, epoch>>,
                \A k \in Keys : Live(k)' => items'[k].epoch \in Remembered
         PROVE  Reads!Next
    <3>1. got[c] # 0 /\ got[c] \in Remembered
      BY <2>11, HandsRemembered DEF HandInv
    <3>2. got' = [got EXCEPT ![c] = got[c]]
      BY <2>11 DEF TypeOK
    <3>3. pc[c] # "answered"
      BY <2>11 DEF InHand, Critical
    <3>4. QED
      BY <2>5, <2>11, <3>1, <3>2, <3>3
  <2>12. ASSUME NEW c \in Calls, Recheck(c) PROVE Reads!Next
    <3>1. UNCHANGED <<got, items, epoch>> /\ pc[c] = "rechecking"
      BY <2>12 DEF Recheck
    <3>2. CASE pc' = [pc EXCEPT ![c] = "answered"]
      BY <2>1, <2>11, <3>1, <3>2 DEF InHand, Critical
    <3>3. CASE pc' = [pc EXCEPT ![c] = "inserting"]
      <4>1. UNCHANGED Answer
        BY <3>1, <3>3 DEF Answer, TypeOK
      <4>2. QED
        BY <2>1, <2>3, <3>1, <4>1, MemoryKept, HandsRemembered
    <3>4. QED
      BY <2>12, <3>2, <3>3 DEF Recheck
  <2>13. ASSUME NEW c \in Calls, Insert(c) PROVE Reads!Next
    <3>1. /\ UNCHANGED <<got, epoch>> /\ pc[c] = "inserting"
          /\ pc' = [pc EXCEPT ![c] = "answered"]
      BY <2>13 DEF Insert
    <3>2. got[c] \in Remembered
      BY <3>1, HandsRemembered DEF HandInv, InHand, Critical
    <3>3. ASSUME NEW k \in Keys, Live(k)' PROVE items'[k].epoch \in Remembered
      <4>1. CASE k = key[c]
        BY <2>13, <3>2, <4>1 DEF Insert, NewItem, TypeOK
      <4>2. CASE k # key[c]
        <5>1. items'[k] = items[k]
          BY <2>13, <4>2 DEF Insert, TypeOK
        <5>2. QED
          BY <3>3, <5>1, ItemsRemembered DEF Live
      <4>3. QED
        BY <4>1, <4>2
    <3>4. QED
      BY <2>11, <3>1, <3>3 DEF InHand, Critical
  <2>14. ASSUME UNCHANGED <<pc, got, epoch>>,
                \A k \in Keys : Live(k)' => items'[k].epoch \in Remembered
         PROVE  Reads!Next
    BY <2>2, <2>3, <2>14, MemoryKept
  <2>15. ASSUME NEW m \in Methods, Flush(m) PROVE Reads!Next
    <3>1. \A k \in Keys : Live(k)' => Live(k) /\ items'[k] = items[k]
      BY <2>15 DEF Flush, NoItem, Live
    <3>2. QED
      BY <2>14, <2>15, <3>1, ItemsRemembered DEF Flush
  <2>16. ASSUME NEW m \in Methods, Janitor(m) PROVE Reads!Next
    BY <2>9, <2>14, <2>16 DEF Janitor
  <2>17. CASE Tick
    <3>1. \A k \in Keys : items'[k].epoch = items[k].epoch
      BY <2>17 DEF Tick, TypeOK
    <3>2. \A k \in Keys : items'[k].ttl > 0 => items[k].ttl > 0
      BY <2>17 DEF Tick, TypeOK
    <3>3. \A k \in Keys : Live(k)' => items'[k].epoch \in Remembered
      BY <3>1, <3>2, ItemsRemembered DEF Live
    <3>4. QED
      BY <2>14, <2>17, <3>3 DEF Tick
  <2>18. CASE NewEpoch
    <3>1. epoch' = epoch + 1 /\ UNCHANGED <<pc, got, items>>
      BY <2>18 DEF NewEpoch
    <3>2. Reads!Remembering
      BY <2>1, <2>2, <3>1, MemoryKept
    <3>3. QED
      BY <2>2, <3>1, <3>2 DEF Reads!Next, Reads!Advance
  <2>19. CASE Poll \/ StartFlush \/ EndFlush \/ UNCHANGED vars
    <3>1. UNCHANGED <<pc, got, items, epoch>>
      BY <2>19 DEF Poll, StartFlush, EndFlush, vars
    <3>2. QED
      BY <2>1, <2>14, <3>1
  <2>20. QED
    BY <2>4, <2>6, <2>7, <2>8, <2>10, <2>12, <2>13, <2>15, <2>16, <2>17, <2>18, <2>19
    DEF Next, Accessor, Clearing
<1>3. QED
  BY <1>1, <1>2, TypeCorrect, HandsAreFull, PTL DEF Spec, ReadsSpec, Reads!Spec
=================================================================================
