----------------------------- MODULE PageCacheProofs -----------------------------
(***************************************************************************)
(* Theorems about PageCache, for any number of requests, tokens and        *)
(* addresses.                                                              *)
(***************************************************************************)
EXTENDS PageCache, TLAPS

TypeInv ==
  /\ pc \in [Requests -> Points]
  /\ token \in [Requests -> Tokens \cup {NoToken}]
  /\ address \in [Requests -> Pointers]
  /\ ttl \in [Pointers -> Nat]
  /\ before \in [Requests -> SUBSET Requests]
  /\ page \in [Requests -> Tokens \cup {NoToken}]
  /\ source \in [Requests -> Requests]
  /\ DOMAIN items = Pointers /\ items = [a \in Pointers |-> items[a]]

\* Which requests have a copy of a token in memory, and what came before them.
Copies ==
  \A r \in Requests :
    /\ pc[r] = "arriving" => address[r] = Nil
    /\ pc[r] # "arriving" => (address[r] = Nil <=> token[r] = NoToken)
    /\ \A q \in before[r] : pc[q] = "done"

\* A place in memory is used by one request after the other.
OneAfterTheOther ==
  \A q, r \in Requests :
    q # r /\ address[q] = address[r] /\ address[r] # Nil =>
      q \in before[r] \/ r \in before[q]

\* What is kept at an address is the page of a request that had its token there.
KeptByOwner ==
  \A a \in Pointers :
    ttl[a] > 0 =>
      /\ items[a].by \in Requests
      /\ items[a].page = token[items[a].by]
      /\ address[items[a].by] = a
      /\ pc[items[a].by] \in {"answering", "done"}

Loaded == \A r \in Requests : pc[r] = "storing" => page[r] = token[r]

PageInv ==
  /\ TypeInv /\ Copies /\ OneAfterTheOther /\ KeptByOwner /\ Loaded
  /\ FirstPageIsFirst /\ MixedOnlyWithThePast

LEMMA NilPoints == Nil \in Pointers /\ Nil \notin Addresses
  BY TokensAssumption DEF Pointers

LEMMA Starts == Init => PageInv
<1> SUFFICES ASSUME Init PROVE PageInv
  OBVIOUS
<1>1. TypeInv
  BY NilPoints DEF Init, TypeInv, Points
<1>2. \A r \in Requests : pc[r] = "arriving" /\ address[r] = Nil /\ before[r] = {}
  BY DEF Init
<1>3. \A a \in Pointers : ttl[a] = 0
  BY DEF Init
<1>4. QED
  BY <1>1, <1>2, <1>3
  DEF PageInv, Copies, OneAfterTheOther, KeptByOwner, Loaded, FirstPageIsFirst,
      MixedOnlyWithThePast, Answered

\* A request gets memory that no running request uses.
LEMMA Arrival == ASSUME PageInv, NEW r \in Requests, Arrive(r) PROVE PageInv'
<1> USE DEF PageInv
<1>1. /\ pc[r] = "arriving" /\ pc' = [pc EXCEPT ![r] = "looking"]
      /\ before' = [before EXCEPT ![r] = {q \in Requests : pc[q] = "done"}]
      /\ token' = token /\ items' = items /\ ttl' = ttl /\ page' = page /\ source' = source
  BY DEF Arrive
<1>2. \/ token[r] = NoToken /\ address' = address /\ address'[r] = Nil
      \/ /\ token[r] # NoToken /\ address'[r] \in Addresses \ InUse
         /\ address' = [address EXCEPT ![r] = address'[r]]
  BY <1>1 DEF Arrive, Copies, TypeInv
<1>3. \A q \in Requests \ {r} :
        address'[q] = address[q] /\ pc'[q] = pc[q] /\ before'[q] = before[q]
  BY <1>1, <1>2 DEF TypeInv
<1>4. pc'[r] = "looking" /\ before'[r] = {q \in Requests : pc[q] = "done"} /\ address'[r] \in Pointers
  BY <1>1, <1>2 DEF TypeInv, Pointers
<1>5. TypeInv'
  BY <1>1, <1>2, <1>4 DEF TypeInv, Points, Pointers
<1>6. Copies'
  <2>1. address'[r] = Nil <=> token[r] = NoToken
    BY <1>2, NilPoints
  <2>2. \A q \in Requests : pc[q] = "done" => q # r /\ pc'[q] = "done"
    BY <1>1, <1>3
  <2>3. \A q \in Requests : before'[q] \subseteq Requests
    BY <1>5 DEF TypeInv
  <2>4. QED
    BY <1>1, <1>3, <1>4, <2>1, <2>2, <2>3 DEF Copies
<1>7. OneAfterTheOther'
  <2>1. ASSUME NEW q \in Requests \ {r}, address'[q] = address'[r], address'[r] # Nil
        PROVE  q \in before'[r]
    <3>1. address'[r] \notin InUse
      BY <1>2, <2>1
    <3>2. pc[q] \in {"arriving", "done"}
      BY <3>1, <1>3, <2>1 DEF InUse
    <3>3. pc[q] # "arriving"
      BY <1>3, <2>1 DEF Copies
    <3>4. QED
      BY <1>4, <3>2, <3>3
  <2>2. QED
    BY <1>3, <2>1 DEF OneAfterTheOther
<1>8. KeptByOwner'
  <2>1. ASSUME NEW a \in Pointers, ttl[a] > 0
        PROVE  items[a].by \in Requests \ {r}
    BY <1>1, <2>1 DEF KeptByOwner
  <2>2. QED
    BY <1>1, <1>3, <2>1 DEF KeptByOwner
<1>9. Loaded'
  BY <1>1, <1>3, <1>4 DEF Loaded
<1>10. FirstPageIsFirst' /\ MixedOnlyWithThePast'
  BY <1>1, <1>3, <1>4 DEF FirstPageIsFirst, MixedOnlyWithThePast, Answered
<1>11. QED
  BY <1>5, <1>6, <1>7, <1>8, <1>9, <1>10

\* What a request finds is the page of one that had the address before it.
LEMMA Lookup == ASSUME PageInv, NEW r \in Requests, Look(r) PROVE PageInv'
<1> USE DEF PageInv
<1> DEFINE a == address[r]
<1>1. /\ pc[r] = "looking" /\ UNCHANGED <<token, address, items, ttl, before>>
      /\ \/ /\ ttl[a] > 0
            /\ page' = [page EXCEPT ![r] = items[a].page]
            /\ source' = [source EXCEPT ![r] = items[a].by]
            /\ pc' = [pc EXCEPT ![r] = "answering"]
         \/ /\ pc' = [pc EXCEPT ![r] = "loading"]
            /\ UNCHANGED <<page, source>>
  BY DEF Look, Key
<1>2. \A q \in Requests \ {r} :
        pc'[q] = pc[q] /\ page'[q] = page[q] /\ source'[q] = source[q]
  BY <1>1 DEF TypeInv
<1>3. a \in Pointers /\ pc'[r] \in {"answering", "loading"}
  BY <1>1 DEF TypeInv
<1>4. ASSUME ttl[a] > 0
      PROVE  /\ items[a].by \in Requests \ {r}
             /\ items[a].page = token[items[a].by]
             /\ items[a].page \in Tokens \cup {NoToken}
             /\ token[r] = NoToken => items[a].page = NoToken
             /\ items[a].page # token[r] => items[a].by \in before[r]
  <2> DEFINE b == items[a].by
  <2>1. b \in Requests /\ items[a].page = token[b] /\ address[b] = a /\ pc[b] \in {"answering", "done"}
    BY <1>3, <1>4 DEF KeptByOwner
  <2>2. b # r
    BY <1>1, <2>1
  <2>3. (a = Nil <=> token[r] = NoToken) /\ (a = Nil <=> token[b] = NoToken)
    BY <1>1, <2>1 DEF Copies
  <2>4. ASSUME a # Nil PROVE b \in before[r]
    <3>1. b \in before[r] \/ r \in before[b]
      BY <2>1, <2>2, <2>4 DEF OneAfterTheOther
    <3>2. r \notin before[b]
      BY <1>1, <2>1 DEF Copies
    <3>3. QED
      BY <3>1, <3>2
  <2>5. QED
    BY <2>1, <2>2, <2>3, <2>4 DEF TypeInv
<1>5. TypeInv'
  BY <1>1, <1>4 DEF TypeInv, Points
<1>6. Copies' /\ OneAfterTheOther'
  <2>1. \A q \in Requests : (pc'[q] = "arriving" <=> pc[q] = "arriving")
                            /\ (pc[q] = "done" => pc'[q] = "done")
    BY <1>1, <1>2, <1>3
  <2>2. \A q \in Requests : before[q] \subseteq Requests
    BY DEF TypeInv
  <2>3. QED
    BY <1>1, <2>1, <2>2 DEF Copies, OneAfterTheOther
<1>7. KeptByOwner'
  BY <1>1, <1>2 DEF KeptByOwner
<1>8. Loaded'
  BY <1>1, <1>2, <1>3 DEF Loaded
<1>9. FirstPageIsFirst' /\ MixedOnlyWithThePast'
  <2>1. CASE ttl[a] > 0 /\ pc'[r] = "answering"
    <3>1. page'[r] = items[a].page /\ source'[r] = items[a].by
      BY <1>1, <2>1 DEF TypeInv
    <3>2. QED
      BY <1>1, <1>2, <1>4, <2>1, <3>1 DEF FirstPageIsFirst, MixedOnlyWithThePast, Answered
  <2>2. CASE pc'[r] = "loading"
    BY <1>1, <1>2, <2>2 DEF FirstPageIsFirst, MixedOnlyWithThePast, Answered
  <2>3. QED
    BY <1>1, <2>1, <2>2 DEF TypeInv
<1>10. QED
  BY <1>5, <1>6, <1>7, <1>8, <1>9

\* Loading, storing and returning change what the request itself has.
LEMMA Others ==
  ASSUME PageInv, NEW r \in Requests, Load(r) \/ Store(r) \/ Return(r) PROVE PageInv'
<1> USE DEF PageInv
<1>1. /\ UNCHANGED <<token, address, source, before>>
      /\ \A q \in Requests \ {r} : pc'[q] = pc[q] /\ page'[q] = page[q]
      /\ pc[r] \in {"loading", "storing", "answering"}
      /\ pc'[r] \in {"storing", "answering", "done"}
  BY DEF Load, Store, Return, TypeInv
<1>2. Copies' /\ OneAfterTheOther'
  <2>1. \A q \in Requests : (pc'[q] = "arriving" <=> pc[q] = "arriving")
                            /\ (pc[q] = "done" => pc'[q] = "done")
    BY <1>1
  <2>2. \A q \in Requests : before[q] \subseteq Requests
    BY DEF TypeInv
  <2>3. QED
    BY <1>1, <2>1, <2>2 DEF Copies, OneAfterTheOther
<1>3. CASE Load(r)
  <2>1. /\ pc[r] = "loading" /\ pc'[r] = "storing" /\ page'[r] = token[r]
        /\ items' = items /\ ttl' = ttl
    BY <1>3 DEF Load, TypeInv
  <2>2. TypeInv'
    BY <1>3 DEF Load, TypeInv, Points
  <2>3. KeptByOwner'
    BY <1>1, <2>1 DEF KeptByOwner
  <2>4. QED
    BY <1>1, <1>2, <2>1, <2>2, <2>3
    DEF Loaded, FirstPageIsFirst, MixedOnlyWithThePast, Answered
<1>4. CASE Store(r)
  <2>1. /\ pc[r] = "storing" /\ pc'[r] = "answering" /\ page' = page /\ page[r] = token[r]
        /\ items' = [items EXCEPT ![address[r]] = [page |-> page[r], by |-> r]]
        /\ ttl' = [ttl EXCEPT ![address[r]] = LifeTime]
    BY <1>4 DEF Store, Key, Loaded, TypeInv
  <2>2. TypeInv'
    <3>1. address[r] \in Pointers /\ page[r] \in Tokens \cup {NoToken}
      BY DEF TypeInv
    <3>2. ttl' \in [Pointers -> Nat]
      BY <2>1, <3>1, LifeAssumption DEF TypeInv
    <3>3. DOMAIN items' = Pointers /\ items' = [a \in Pointers |-> items'[a]]
      <4>1. items' = [a \in Pointers |-> IF a = address[r] THEN [page |-> page[r], by |-> r]
                                          ELSE items[a]]
        BY <2>1, <3>1 DEF TypeInv
      <4>2. QED
        BY <4>1
    <3>4. pc' \in [Requests -> Points] /\ UNCHANGED <<token, address, page, source, before>>
      BY <1>4 DEF Store, TypeInv, Points
    <3>5. QED
      BY <3>2, <3>3, <3>4 DEF TypeInv
  <2>3. KeptByOwner'
    <3>1. ASSUME NEW a \in Pointers, a # address[r], ttl'[a] > 0
          PROVE  items'[a] = items[a] /\ ttl[a] > 0
      BY <2>1, <3>1 DEF TypeInv
    <3>2. items'[address[r]].by = r /\ items'[address[r]].page = page[r]
      BY <2>1 DEF TypeInv
    <3>3. QED
      BY <1>1, <2>1, <3>1, <3>2 DEF KeptByOwner
  <2>4. QED
    BY <1>1, <1>2, <2>1, <2>2, <2>3
    DEF Loaded, FirstPageIsFirst, MixedOnlyWithThePast, Answered
<1>5. CASE Return(r)
  <2>1. /\ pc[r] = "answering" /\ pc'[r] = "done" /\ UNCHANGED <<items, ttl, page>>
    BY <1>5 DEF Return, TypeInv
  <2>2. TypeInv'
    BY <1>5 DEF Return, TypeInv, Points
  <2>3. KeptByOwner'
    BY <1>1, <2>1 DEF KeptByOwner
  <2>4. QED
    BY <1>1, <1>2, <2>1, <2>2, <2>3
    DEF Loaded, FirstPageIsFirst, MixedOnlyWithThePast, Answered
<1>6. QED
  BY <1>3, <1>4, <1>5

LEMMA TimePasses == PageInv /\ Tick => PageInv'
<1> SUFFICES ASSUME PageInv, Tick PROVE PageInv'
  OBVIOUS
<1> USE DEF PageInv
<1>1. /\ UNCHANGED <<pc, token, address, items, page, source, before>>
      /\ ttl' = [a \in Pointers |-> IF ttl[a] > 0 THEN ttl[a] - 1 ELSE 0]
  BY DEF Tick
<1>2. \A a \in Pointers : ttl'[a] \in Nat /\ (ttl'[a] > 0 => ttl[a] > 0)
  BY <1>1 DEF TypeInv
<1>3. TypeInv'
  BY <1>1, <1>2 DEF TypeInv
<1>4. KeptByOwner'
  BY <1>1, <1>2 DEF KeptByOwner
<1>5. QED
  BY <1>1, <1>3, <1>4
  DEF Copies, OneAfterTheOther, Loaded, FirstPageIsFirst, MixedOnlyWithThePast, Answered

LEMMA PageInvHolds == Spec => []PageInv
<1>1. PageInv /\ [Next]_vars => PageInv'
  <2> SUFFICES ASSUME PageInv, [Next]_vars PROVE PageInv'
    OBVIOUS
  <2>1. CASE UNCHANGED vars
    BY <2>1 DEF vars, PageInv, TypeInv, Copies, OneAfterTheOther, KeptByOwner, Loaded,
       FirstPageIsFirst, MixedOnlyWithThePast, Answered
  <2>2. QED
    BY <2>1, Arrival, Lookup, Others, TimePasses DEF Next
<1>2. QED
  BY <1>1, Starts, PTL DEF Spec

\* A request without a token gets the first page.
THEOREM FirstPageRight == Spec => []FirstPageIsFirst
  BY PageInvHolds, PTL DEF PageInv

\* A page that is not the request's own is that of a request that had ended when it
\* began.
THEOREM MixedWithThePast == Spec => []MixedOnlyWithThePast
  BY PageInvHolds, PTL DEF PageInv

================================================================================
