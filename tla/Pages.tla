--------------------------------- MODULE Pages ---------------------------------
(***************************************************************************)
(* A client walks a list by its continuation tokens, while the indexer     *)
(* changes the tables and the mempool changes: the readers of              *)
(* app/db/postgres with a token, their queries under                       *)
(* resources/scripts/api, and the lists of app/api/service.go and          *)
(* app/service/contracts_service.go that begin with the mempool.           *)
(*                                                                         *)
(* A reader asks for a row more than the limit.  If it gets that many, the *)
(* key of the last row becomes the token and the row is left for the next  *)
(* page, which begins at the token.  What lists order their rows by        *)
(* differs, and so does what may change while a client walks.              *)
(***************************************************************************)
EXTENDS Integers, FiniteSets

CONSTANTS
  Names,       \* what is listed: transactions, addresses, ...
  Lists,       \* the kinds of lists the client may walk
  Limits,      \* the limits it may ask for
  Width,       \* 2^w: count is an unsigned number of w bits
  Values,      \* values a list may be ordered by
  Groups,      \* epochs a row may belong to
  Starts,      \* the names a table may have when the walk begins
  MaxChanges   \* changes of the table during a walk, at most

Kinds == {"txs", "contractTxs", "tokens", "balances", "delegators",
          "rewards", "totals"}

ASSUME PagesAssumption ==
  /\ IsFiniteSet(Names)
  /\ Lists \subseteq Kinds
  /\ Width \in Nat \ {0}
  /\ Cardinality(Names) <= Width \div 2
  /\ Limits \subseteq Nat
  /\ \A n \in Limits : n + 1 < Width \div 2
  /\ Values \subseteq Nat
  /\ Groups \subseteq Nat
  /\ Starts \subseteq SUBSET Names
  /\ MaxChanges \in Nat

VARIABLES
  list,        \* the list the client walks
  limit,       \* with this limit
  group,       \* for this epoch
  rows,        \* rows of the table
  lastId,      \* the last id a row got
  pending,     \* what the mempool holds
  phase,       \* what the request of the client does
  token,       \* the token the client has
  room,        \* what the mempool left of the limit: count
  first,       \* what the mempool put on the first page
  page,        \* rows of the last page
  listed,      \* rows of the pages before
  stood,       \* history: names the list had at any time since the walk began
  meanwhile,   \* history: mined after the mempool was read for the first page
  changes      \* history: the changes of the table

request == <<list, limit, group>>
table == <<rows, lastId, pending>>
walk == <<phase, token, room, first, page, listed>>
history == <<stood, meanwhile, changes>>
vars == <<request, table, walk, history>>

\* Lists that begin with what the mempool holds; the first is cut at the limit.
Merged == {"txs", "contractTxs"}

--------------------------------------------------------------------------------
(* The order of a list and its tokens.                                     *)

None == [a |-> -1, b |-> -1, any |-> TRUE]
At(a, b) == [a |-> a, b |-> b, any |-> FALSE]

\* Where a row is in the order of a list: ORDER BY id DESC, id, value DESC and
\* id, or value and id.
Place(l, r) ==
  CASE l \in {"txs", "contractTxs", "rewards"} -> At(0 - r.id, 0)
    [] l = "tokens" -> At(r.id, 0)
    [] l \in {"balances", "totals"} -> At(0 - r.value, r.id)
    [] l = "delegators" -> At(r.value, r.id)

Before(p, q) == p.a < q.a \/ (p.a = q.a /\ p.b < q.b)

\* Variants that go on behind the token, and that compare values only.
Behind(p, t) == (p.a = t.a /\ p.b > t.b) \/ p.a > t.a
ByValue(p, t) == p.a >= t.a

\* The condition of a query: value = $3 AND id >= $2 OR value < $3.
FromOn(p, t) == (p.a = t.a /\ p.b >= t.b) \/ p.a > t.a

Ahead(l, s, r) == {q \in s : Before(Place(l, q), Place(l, r))}

\* The rows a query finds from its token on.  The rewards count rows, OFFSET.
\* The condition of epochDelegateeTotalRewards.sql, epoch = $1 AND $4 IS NULL
\* OR ..., asks for the epoch on the first page only.
Matching(l, g, s, t) ==
  CASE l = "rewards" ->
         {r \in s : r.group = g /\
            (t.any \/ Cardinality(Ahead(l, {q \in s : q.group = g}, r)) >= t.a)}
    [] l = "totals" ->
         {r \in s : (r.group = g /\ t.any) \/ (~t.any /\ FromOn(Place(l, r), t))}
    [] OTHER ->
         {r \in s : r.group = g /\ (t.any \/ FromOn(Place(l, r), t))}

\* The first n rows, and the last of them.
Taken(l, s, n) == {r \in s : Cardinality(Ahead(l, s, r)) < n}
\* A variant that takes the token from the last row the page lists.
LastListed(l, s, n) == {r \in s : Cardinality(Ahead(l, s, r)) = n - 2}
Last(l, s, n) == {r \in s : Cardinality(Ahead(l, s, r)) = n - 1}

--------------------------------------------------------------------------------

\* Only some lists are ordered by a value, and only the totals are kept by
\* epochs in one table that a query may leave.
ValuesOf(l) == IF l \in {"balances", "delegators", "totals"} THEN Values ELSE {0}
GroupsOf(l) == IF l = "totals" THEN Groups ELSE {0}

NamesOf(s) == {r.name : r \in s}

Init ==
  /\ list \in Lists
  /\ limit \in Limits
  /\ group \in GroupsOf(list)
  /\ \E names \in Starts :
       /\ lastId = Cardinality(names)
       /\ \E id \in [names -> 1..lastId], value \in [names -> ValuesOf(list)],
             of \in [names -> GroupsOf(list)] :
            /\ \A m, n \in names : id[m] = id[n] => m = n
            /\ rows = {[name |-> n, id |-> id[n], value |-> value[n],
                        group |-> of[n]] : n \in names}
  /\ pending \in SUBSET (Names \ NamesOf(rows))
  /\ list \in Merged \/ pending = {}
  /\ phase = "asking"
  /\ token = None
  /\ room = 0
  /\ first = {}
  /\ page = {}
  /\ listed = {}
  /\ stood = pending \cup NamesOf({r \in rows : r.group = group})
  /\ meanwhile = {}
  /\ changes = [added |-> 0, removed |-> 0, valued |-> 0]

--------------------------------------------------------------------------------
(* A page.                                                                 *)

\* IdentityTxs takes no more from the mempool than the limit.
CutsNone(l) == FALSE
Cuts(l) == l = "txs"

\* count - uint64(len(res)); variants that forget to subtract, or to wrap.
WholeLimit(m) == limit
SignedRoom(m) == limit - Cardinality(m)
Room(m) == (limit - Cardinality(m)) % Width

\* A variant that asks the mempool for every page.
AskEachTime ==
  /\ phase = "asking"
  /\ list \in Merged
  /\ Cardinality(pending) <= limit
  /\ first' = pending
  /\ room' = Room(pending)
  /\ phase' = "merging"
  /\ UNCHANGED <<request, table, token, page, listed, history>>

\* ReadPaginatorParams, and the first look at the mempool when there is no
\* token.  An error of the mempool is ignored: what it holds is not listed.
AskMempool ==
  /\ phase = "asking"
  /\ list \in Merged /\ token = None
  /\ \E m \in SUBSET pending :
       /\ m # pending => m = {} \/ (Cuts(list) /\ Cardinality(m) = limit)
       /\ Cuts(list) => Cardinality(m) <= limit
       /\ first' = m
       /\ room' = Room(m)
       /\ stood' = IF m = {} THEN stood \ pending ELSE stood
  /\ phase' = "merging"
  /\ UNCHANGED <<request, table, token, page, listed, meanwhile, changes>>

Skip ==
  /\ phase = "asking"
  /\ ~(list \in Merged /\ token = None)
  /\ room' = limit
  /\ phase' = "merging"
  /\ UNCHANGED <<request, table, token, first, page, listed, history>>

\* count > 0 keeps the merged lists from asking for nothing.
Full ==
  /\ phase = "merging"
  /\ list \in Merged /\ room = 0
  /\ phase' = "walked"
  /\ UNCHANGED <<request, table, token, room, first, page, listed, history>>

AsksDb == phase = "merging" /\ ~(list \in Merged /\ room = 0)

\* A limit above the largest signed number cannot be bound.
TooMany(n) == n >= Width \div 2

Fail ==
  /\ AsksDb
  /\ TooMany((room + 1) % Width)
  /\ phase' = "failed"
  /\ UNCHANGED <<request, table, token, room, first, page, listed, history>>

\* The token of the rewards is where the page began and the limit.
NextToken(last) ==
  IF last = {} THEN None
  ELSE IF list = "rewards" THEN At((IF token.any THEN 0 ELSE token.a) + room, 0)
  ELSE Place(list, CHOOSE r \in last : TRUE)

\* page, page2 and getResWithContinuationToken: LIMIT count+1, which wraps.
ReadPage ==
  /\ AsksDb
  /\ LET asked == (room + 1) % Width
         found == Matching(list, group, rows, token)
         last == Last(list, found, asked)
     IN /\ ~TooMany(asked)
        /\ page' = Taken(list, found, asked) \ last
        /\ token' = NextToken(last)
        /\ phase' = IF last = {} THEN "walked" ELSE "asking"
  /\ listed' = listed \cup page
  /\ UNCHANGED <<request, table, room, first, history>>

--------------------------------------------------------------------------------
(* The tables and the mempool change.                                      *)

Walking == phase \in {"asking", "merging"}

\* Rewards of a past epoch are written once.
MayChange ==
  /\ Walking
  /\ list # "totals"
  /\ changes.added + changes.removed + changes.valued < MaxChanges

NewRow(n, v) == [name |-> n, id |-> lastId + 1, value |-> v, group |-> group]
Fresh == (Names \ pending) \ NamesOf(rows)

Add(n) ==
  /\ MayChange
  /\ list \notin Merged
  /\ n \in Fresh
  /\ \E v \in ValuesOf(list) : rows' = rows \cup {NewRow(n, v)}
  /\ lastId' = lastId + 1
  /\ changes' = [changes EXCEPT !.added = @ + 1]
  /\ UNCHANGED <<request, pending, walk, stood, meanwhile>>

\* What is mined leaves the mempool.
Mine(n) ==
  /\ MayChange
  /\ n \in pending
  /\ pending' = pending \ {n}
  /\ rows' = rows \cup {NewRow(n, 0)}
  /\ lastId' = lastId + 1
  /\ meanwhile' = IF phase = "merging" THEN meanwhile \cup {n} ELSE meanwhile
  /\ changes' = [changes EXCEPT !.added = @ + 1]
  /\ UNCHANGED <<request, walk, stood>>

\* A reset to an earlier block takes the newest rows of a list by blocks.
Remove(r) ==
  /\ MayChange
  /\ list \in Merged \cup {"rewards"} => \A q \in rows : q.id <= r.id
  /\ rows' = rows \ {r}
  /\ stood' = stood \ {r.name}
  /\ changes' = [changes EXCEPT !.removed = @ + 1]
  /\ UNCHANGED <<request, lastId, pending, walk, meanwhile>>

Change(r, v) ==
  /\ MayChange
  /\ v # r.value
  /\ rows' = (rows \ {r}) \cup {[r EXCEPT !.value = v]}
  /\ stood' = stood \ {r.name}
  /\ changes' = [changes EXCEPT !.valued = @ + 1]
  /\ UNCHANGED <<request, lastId, pending, walk, meanwhile>>

\* A transaction comes into the mempool or is dropped from it.
Pend(n) ==
  /\ Walking
  /\ list \in Merged
  /\ n \in Fresh
  /\ pending' = pending \cup {n}
  /\ UNCHANGED <<request, rows, lastId, walk, history>>

Drop(n) ==
  /\ Walking
  /\ n \in pending
  /\ pending' = pending \ {n}
  /\ stood' = stood \ {n}
  /\ UNCHANGED <<request, rows, lastId, walk, meanwhile, changes>>

Answers == AskMempool \/ Skip \/ Full \/ Fail \/ ReadPage

Next ==
  \/ Answers
  \/ \E n \in Names : Add(n) \/ Mine(n) \/ Pend(n) \/ Drop(n)
  \/ \E r \in rows : Remove(r) \/ \E v \in ValuesOf(list) : Change(r, v)

Spec == Init /\ [][Next]_vars /\ WF_vars(Answers)

--------------------------------------------------------------------------------
(* Properties.                                                             *)

TypeOK ==
  /\ list \in Lists /\ limit \in Limits /\ group \in GroupsOf(list)
  /\ lastId \in Nat
  /\ \A r \in rows \cup page \cup listed :
       /\ r.name \in Names /\ r.id \in 1..lastId
       /\ r.value \in ValuesOf(list) /\ r.group \in GroupsOf(list)
  /\ pending \cup first \cup stood \cup meanwhile \subseteq Names
  /\ phase \in {"asking", "merging", "walked", "failed"}
  /\ token = None \/ token \in [a : Int, b : Int, any : {FALSE}]
  /\ room \in 0..(Width - 1)

\* A walk never goes back, whatever changes: each row of a page comes behind
\* every row of the pages before, at its value then and now.  So no row is
\* listed twice at one value.  The rewards, which count rows, may repeat some
\* when newer ones come.
OnlyForward ==
  \/ list = "rewards" /\ changes.added > 0
  \/ \A r \in page, q \in listed : Before(Place(list, q), Place(list, r))

\* What was in the list when the walk began and stayed, at the same value, has
\* been listed by the end: as a row or, mined or not, from the mempool.
\* Excepted are lists whose first page the mempool filled, which end there,
\* and the rewards, which may skip rows when others are removed.
NoneSkipped ==
  phase = "walked" =>
    \/ list \in Merged /\ Cardinality(first) >= limit
    \/ list = "rewards" /\ changes.removed > 0
    \/ stood \subseteq first \cup NamesOf(page \cup listed)

\* What the mempool put on the first page is listed again only if it was mined
\* before the rest of that page was read.
TwiceOnlyIfMined == first \cap NamesOf(page \cup listed) \subseteq meanwhile

\* A page has no more than the limit, unless the mempool alone has more.
PageFits ==
  LET onFirst == IF listed = {} THEN Cardinality(first) ELSE 0
      size == onFirst + Cardinality(page)
  IN size > limit => page = {} /\ list = "contractTxs"

\* A walk fails only by the wrap-around: when the mempool holds at least two
\* more than the first page takes.
FailsOnlyByWrap ==
  phase = "failed" => list = "contractTxs" /\ Cardinality(first) >= limit + 2

\* A client that takes at least one item a page gets to the end of every list,
\* however the list changes.  (With a limit of 0 it may get the same token for
\* ever.)
WalkEnds == limit > 0 ~> phase \in {"walked", "failed"}

\* The handler of the totals is asked for the rewards of an epoch.
OfTheEpoch == \A r \in page \cup listed : r.group = group

================================================================================
