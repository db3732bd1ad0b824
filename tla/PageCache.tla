-------------------------------- MODULE PageCache --------------------------------
(***************************************************************************)
(* How pages are cached: getOrLoadWithConToken of app/db/cached/accessor.go *)
(* under the continuation tokens of app/api/common.go.                     *)
(*                                                                         *)
(* A continuation token is a *string.  ReadPaginatorParams allocates it    *)
(* for its request, and key() prints the arguments of a call with %v,      *)
(* which for a pointer inside a slice is its address: the page is kept     *)
(* under the address of the token, not under the token.  The memory of a   *)
(* request that has ended is free for the tokens of later ones.            *)
(***************************************************************************)
EXTENDS Integers

CONSTANTS
  Requests,   \* requests for a page, each handled once
  Tokens,     \* the continuation tokens clients send
  NoToken,    \* no token: the first page is asked for
  Addresses,  \* where the runtime may allocate a token
  Nil,        \* the pointer of a request without token
  LifeTime    \* ticks an item of the cache lives

ASSUME TokensAssumption == NoToken \notin Tokens /\ Nil \notin Addresses
ASSUME LifeAssumption == LifeTime \in Nat \ {0}

VARIABLES
  pc,       \* where each request is
  token,    \* the token each request came with
  address,  \* the address of its copy in memory
  items,    \* the cache: the page under each key and the request that loaded it
  ttl,      \* the ticks each item has to live
  page,     \* the page each request has got, named by the token it belongs to
  source,   \* history: the request that loaded that page
  before    \* history: the requests that had ended when each began

vars == <<pc, token, address, items, ttl, page, source, before>>

NoItem == [page |-> NoToken, by |-> Nil]
Pointers == Addresses \cup {Nil}
Points == {"arriving", "looking", "loading", "storing", "answering", "done"}

Init ==
  /\ pc = [r \in Requests |-> "arriving"]
  /\ token \in [Requests -> Tokens \cup {NoToken}]
  /\ address = [r \in Requests |-> Nil]
  /\ items = [a \in Pointers |-> NoItem]
  /\ ttl = [a \in Pointers |-> 0]
  /\ page = [r \in Requests |-> NoToken]
  /\ source = [r \in Requests |-> r]
  /\ before = [r \in Requests |-> {}]

\* The addresses that the garbage collector may not give away.
InUse == {address[r] : r \in {q \in Requests : pc[q] \notin {"arriving", "done"}}}

\* ReadPaginatorParams.
Arrive(r) ==
  /\ pc[r] = "arriving"
  /\ \/ /\ token[r] = NoToken
        /\ UNCHANGED address
     \/ /\ token[r] # NoToken
        /\ \E a \in Addresses \ InUse : address' = [address EXCEPT ![r] = a]
  /\ before' = [before EXCEPT ![r] = {q \in Requests : pc[q] = "done"}]
  /\ pc' = [pc EXCEPT ![r] = "looking"]
  /\ UNCHANGED <<token, items, ttl, page, source>>

TokenlessKey(r) == Nil

\* key(args); method and count are the same for all the requests here.
Key(r) == address[r]

Look(r) ==
  /\ pc[r] = "looking"
  /\ \/ /\ ttl[Key(r)] > 0
        /\ page' = [page EXCEPT ![r] = items[Key(r)].page]
        /\ source' = [source EXCEPT ![r] = items[Key(r)].by]
        /\ pc' = [pc EXCEPT ![r] = "answering"]
     \/ /\ ttl[Key(r)] = 0
        /\ pc' = [pc EXCEPT ![r] = "loading"]
        /\ UNCHANGED <<page, source>>
  /\ UNCHANGED <<token, address, items, ttl, before>>

Load(r) ==
  /\ pc[r] = "loading"
  /\ page' = [page EXCEPT ![r] = token[r]]
  /\ pc' = [pc EXCEPT ![r] = "storing"]
  /\ UNCHANGED <<token, address, items, ttl, source, before>>

Store(r) ==
  /\ pc[r] = "storing"
  /\ items' = [items EXCEPT ![Key(r)] = [page |-> page[r], by |-> r]]
  /\ ttl' = [ttl EXCEPT ![Key(r)] = LifeTime]
  /\ pc' = [pc EXCEPT ![r] = "answering"]
  /\ UNCHANGED <<token, address, page, source, before>>

\* The response is written; the token of the request becomes garbage.
Return(r) ==
  /\ pc[r] = "answering"
  /\ pc' = [pc EXCEPT ![r] = "done"]
  /\ UNCHANGED <<token, address, items, ttl, page, source, before>>

Tick ==
  /\ ttl' = [a \in Pointers |-> IF ttl[a] > 0 THEN ttl[a] - 1 ELSE 0]
  /\ UNCHANGED <<pc, token, address, items, page, source, before>>

Next ==
  \/ Tick
  \/ \E r \in Requests : Arrive(r) \/ Look(r) \/ Load(r) \/ Store(r) \/ Return(r)

Spec == Init /\ [][Next]_vars

--------------------------------------------------------------------------------
(* Properties.                                                             *)

Answered == {r \in Requests : pc[r] \in {"answering", "done"}}

\* What the description of every paginated method says of its token: it is there "to
\* get next page items", the page that follows where the token was handed out.
OwnPage == \A r \in Answered : page[r] = token[r]

\* A request without token always gets the first page: nil is printed as such, and no
\* token is stored at nil.
FirstPageIsFirst == \A r \in Answered : token[r] = NoToken => page[r] = NoToken

\* A page is mixed up only with that of a request that had ended before this one
\* began: the tokens of requests that run side by side never share an address, nor a
\* key, however they interleave.
MixedOnlyWithThePast ==
  \A r \in Answered : page[r] # token[r] => source[r] \in before[r]
=================================================================================
