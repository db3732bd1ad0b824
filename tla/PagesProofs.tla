------------------------------- MODULE PagesProofs -------------------------------
(***************************************************************************)
(* Theorems about Pages: what a walk lists, for tables, mempools, limits   *)
(* and walks of any size.                                                  *)
(***************************************************************************)
EXTENDS Pages, FiniteSetTheorems, TLAPS

RowType == [name : Names, id : Nat, value : Nat, group : Nat]
Sites == [a : Int, b : Int, any : {FALSE}]

\* Finitely many rows, each with an id of its own.
Table(s) ==
  /\ IsFiniteSet(s)
  /\ s \subseteq RowType
  /\ \A r, q \in s : r.id = q.id => r = q

Rank(l, s, r) == Cardinality(Ahead(l, s, r))

--------------------------------------------------------------------------------
(* The order of rows.                                                      *)

\* Before is a strict total order, and FromOn its complement.
LEMMA SitesOrdered ==
  ASSUME NEW p \in Sites, NEW q \in Sites
  PROVE  /\ ~Before(p, p)
         /\ \A t \in Sites : Before(p, q) /\ Before(q, t) => Before(p, t)
         /\ Before(p, q) => ~Before(q, p)
         /\ ~Before(p, q) /\ ~Before(q, p) => p = q
         /\ FromOn(p, q) <=> ~Before(p, q)
<1>1. p.a \in Int /\ p.b \in Int /\ q.a \in Int /\ q.b \in Int
  BY DEF Sites
<1>2. ASSUME p.a = q.a, p.b = q.b PROVE p = q
  <2>1. p.any \in {FALSE} /\ q.any \in {FALSE}
    BY DEF Sites
  <2>2. p.any = q.any
    BY <2>1
  <2>3. /\ p = [a |-> p.a, b |-> p.b, any |-> p.any]
        /\ q = [a |-> q.a, b |-> q.b, any |-> q.any]
    BY DEF Sites
  <2>4. QED
    BY <1>2, <2>2, <2>3
<1>3. ASSUME NEW t \in Sites, Before(p, q), Before(q, t) PROVE Before(p, t)
  <2>1. t.a \in Int /\ t.b \in Int
    BY DEF Sites
  <2>2. QED
    BY <1>1, <1>3, <2>1 DEF Before
<1>4. ~Before(p, q) /\ ~Before(q, p) => p.a = q.a /\ p.b = q.b
  BY <1>1 DEF Before
<1>5. ~Before(p, p) /\ (Before(p, q) => ~Before(q, p)) /\ (FromOn(p, q) <=> ~Before(p, q))
  BY <1>1 DEF Before, FromOn
<1>6. QED
  BY <1>2, <1>3, <1>4, <1>5

\* Each row has a place of its own.
LEMMA Placed ==
  ASSUME NEW l \in Kinds, NEW r \in RowType, NEW q \in RowType
  PROVE  /\ Place(l, r) \in Sites
         /\ Place(l, r) = Place(l, q) => r.id = q.id
<1>1. /\ r.id \in Nat /\ r.value \in Nat /\ 0 - r.id \in Int /\ 0 - r.value \in Int
      /\ q.id \in Nat /\ q.value \in Nat
  BY DEF RowType
<1>2. ASSUME NEW a \in Int, NEW b \in Int, NEW c \in Int, NEW d \in Int
      PROVE  /\ At(a, b) \in Sites
             /\ At(a, b) = At(c, d) => a = c /\ b = d
  <2>1. At(a, b).a = a /\ At(a, b).b = b /\ At(c, d).a = c /\ At(c, d).b = d
    BY DEF At
  <2>2. QED
    BY <2>1 DEF At, Sites
<1>3. CASE l = "txs" \/ l = "contractTxs" \/ l = "rewards"
  <2>1. Place(l, r) = At(0 - r.id, 0) /\ Place(l, q) = At(0 - q.id, 0)
    BY <1>3 DEF Place
  <2>2. QED
    BY <1>1, <1>2, <2>1
<1>4. CASE l = "tokens"
  <2>1. Place(l, r) = At(r.id, 0) /\ Place(l, q) = At(q.id, 0)
    BY <1>4 DEF Place
  <2>2. QED
    BY <1>1, <1>2, <2>1
<1>5. CASE l = "balances" \/ l = "totals"
  <2>1. Place(l, r) = At(0 - r.value, r.id) /\ Place(l, q) = At(0 - q.value, q.id)
    BY <1>5 DEF Place
  <2>2. QED
    BY <1>1, <1>2, <2>1
<1>6. CASE l = "delegators"
  <2>1. Place(l, r) = At(r.value, r.id) /\ Place(l, q) = At(q.value, q.id)
    BY <1>6 DEF Place
  <2>2. QED
    BY <1>1, <1>2, <2>1
<1>7. QED
  BY <1>3, <1>4, <1>5, <1>6 DEF Kinds

LEMMA PartOfTable ==
  ASSUME NEW s, Table(s), NEW t \in SUBSET s
  PROVE  Table(t)
  BY FS_Subset DEF Table

LEMMA RankType ==
  ASSUME NEW l, NEW s, Table(s), NEW r
  PROVE  /\ IsFiniteSet(Ahead(l, s, r))
         /\ Rank(l, s, r) \in Nat
<1>1. Ahead(l, s, r) \in SUBSET s /\ IsFiniteSet(s)
  BY DEF Ahead, Table
<1>2. IsFiniteSet(Ahead(l, s, r))
  BY <1>1, FS_Subset
<1>3. QED
  BY <1>2, FS_CardinalityType DEF Rank

\* Of two rows of a table, the one with fewer rows ahead comes first.
LEMMA RankOrder ==
  ASSUME NEW l \in Kinds, NEW s, Table(s), NEW x \in s, NEW y \in s
  PROVE  /\ Before(Place(l, x), Place(l, y)) <=> Rank(l, s, x) < Rank(l, s, y)
         /\ x = y <=> Rank(l, s, x) = Rank(l, s, y)
<1>1. ASSUME NEW u \in s, NEW v \in s, Before(Place(l, u), Place(l, v))
      PROVE  Rank(l, s, u) < Rank(l, s, v)
  <2>1. /\ IsFiniteSet(Ahead(l, s, u)) /\ Rank(l, s, u) \in Nat
        /\ IsFiniteSet(Ahead(l, s, v)) /\ Rank(l, s, v) \in Nat
    BY RankType
  <2>2. Ahead(l, s, u) \subseteq Ahead(l, s, v)
    <3>1. ASSUME NEW w \in Ahead(l, s, u) PROVE w \in Ahead(l, s, v)
      <4>1. w \in s /\ Before(Place(l, w), Place(l, u))
        BY DEF Ahead
      <4>2. Place(l, w) \in Sites /\ Place(l, u) \in Sites /\ Place(l, v) \in Sites
        BY <4>1, Placed DEF Table
      <4>3. Before(Place(l, w), Place(l, v))
        BY <4>1, <4>2, <1>1, SitesOrdered
      <4>4. QED
        BY <4>1, <4>3 DEF Ahead
    <3>2. QED
      BY <3>1
  <2>3. u \in Ahead(l, s, v) /\ u \notin Ahead(l, s, u)
    <3>1. Place(l, u) \in Sites
      BY Placed DEF Table
    <3>2. QED
      BY <3>1, <1>1, SitesOrdered DEF Ahead
  <2>4. /\ Cardinality(Ahead(l, s, u)) <= Cardinality(Ahead(l, s, v))
        /\ Cardinality(Ahead(l, s, u)) # Cardinality(Ahead(l, s, v))
    BY <2>1, <2>2, <2>3, FS_Subset
  <2>5. QED
    BY <2>1, <2>4 DEF Rank
<1>2. Rank(l, s, x) \in Nat /\ Rank(l, s, y) \in Nat
  BY RankType
<1>3. x # y => Before(Place(l, x), Place(l, y)) \/ Before(Place(l, y), Place(l, x))
  <2>1. Place(l, x) \in Sites /\ Place(l, y) \in Sites
        /\ (Place(l, x) = Place(l, y) => x.id = y.id)
    BY Placed DEF Table
  <2>2. QED
    BY <2>1, SitesOrdered DEF Table
<1>4. Before(Place(l, x), Place(l, y)) => Rank(l, s, x) < Rank(l, s, y)
  BY <1>1
<1>5. Before(Place(l, y), Place(l, x)) => Rank(l, s, y) < Rank(l, s, x)
  BY <1>1
<1>6. QED
  BY <1>2, <1>3, <1>4, <1>5

\* Some row ahead of a row has each of the smaller ranks.
LEMMA RankOnto ==
  ASSUME NEW l \in Kinds, NEW s, Table(s), NEW r \in s,
         NEW k \in Nat, k < Rank(l, s, r)
  PROVE  \E x \in Ahead(l, s, r) : Rank(l, s, x) = k
<1> DEFINE A == Ahead(l, s, r)
           m == Rank(l, s, r)
           T == (0..(m - 1)) \ {k}
           f == [x \in A |-> Rank(l, s, x)]
<1> SUFFICES ASSUME \A x \in A : Rank(l, s, x) # k PROVE FALSE
  OBVIOUS
<1>1. m \in Nat /\ IsFiniteSet(A) /\ Cardinality(A) = m /\ A \subseteq s
  BY RankType DEF Rank, Ahead
<1>2. IsFiniteSet(T) /\ Cardinality(T) = m - 1
  <2>1. IsFiniteSet(0..(m - 1)) /\ Cardinality(0..(m - 1)) = m
    <3>1. 0 \in Int /\ m - 1 \in Int
      BY <1>1
    <3> HIDE DEF m
    <3>2. QED
      BY <1>1, <3>1, FS_Interval
  <2>2. k \in 0..(m - 1)
    BY <1>1
  <2>3. QED
    BY <2>1, <2>2, FS_RemoveElement
<1>3. f \in [A -> T]
  <2>1. ASSUME NEW x \in A PROVE Rank(l, s, x) \in T
    <3>1. Before(Place(l, x), Place(l, r)) /\ x \in s
      BY DEF Ahead
    <3>2. Rank(l, s, x) \in Nat /\ Rank(l, s, x) < m
      BY <3>1, RankOrder, RankType
    <3>3. QED
      BY <3>2, <1>1
  <2>2. QED
    BY <2>1
<1>4. PICK x, y \in A : x # y /\ f[x] = f[y]
  <2>1. Cardinality(T) < Cardinality(A)
    BY <1>1, <1>2
  <2> HIDE DEF A, T, f, m
  <2>2. QED
    BY <1>1, <1>2, <1>3, <2>1, FS_PigeonHole
<1>5. QED
  BY <1>1, <1>4, RankOrder

\* No more than n rows have fewer than n ahead.
LEMMA FewTaken ==
  ASSUME NEW l \in Kinds, NEW s, Table(s), NEW n \in Nat
  PROVE  /\ IsFiniteSet(Taken(l, s, n))
         /\ Cardinality(Taken(l, s, n)) \in Nat
         /\ Cardinality(Taken(l, s, n)) <= n
<1> DEFINE T == Taken(l, s, n)
           f == [x \in T |-> Rank(l, s, x)]
<1>1. T \in SUBSET s
  BY DEF Taken
<1>2. IsFiniteSet(T) /\ Cardinality(T) \in Nat
  BY <1>1, FS_Subset, FS_CardinalityType DEF Table
<1>3. f \in [T -> 0..(n - 1)]
  <2>1. ASSUME NEW x \in T PROVE Rank(l, s, x) \in 0..(n - 1)
    BY RankType DEF Taken, Rank
  <2>2. QED
    BY <2>1
<1>4. IsFiniteSet(0..(n - 1)) /\ Cardinality(0..(n - 1)) = n
  BY FS_Interval
<1>5. ASSUME n < Cardinality(T) PROVE FALSE
  <2>1. PICK x, y \in T : x # y /\ f[x] = f[y]
    <3> HIDE DEF T, f
    <3>1. QED
      BY <1>2, <1>3, <1>4, <1>5, FS_PigeonHole
  <2>2. QED
    BY <2>1, <1>1, RankOrder
<1>6. QED
  BY <1>2, <1>5

\* A page of n rows, of which one more was read: the first n, and the next.
LEMMA PageRows ==
  ASSUME NEW l \in Kinds, NEW s, Table(s), NEW n \in Nat
  PROVE  LET last == Last(l, s, n + 1)
             p == Taken(l, s, n + 1) \ last
         IN /\ p = Taken(l, s, n)
            /\ last = {} \/ \E x \in s : last = {x} /\ Rank(l, s, x) = n
            /\ last = {} => p = s
<1> DEFINE last == Last(l, s, n + 1)
           p == Taken(l, s, n + 1) \ last
<1>1. \A r \in s : Rank(l, s, r) \in Nat
  BY RankType
<1>2. p = Taken(l, s, n)
  BY <1>1 DEF Taken, Last, Rank
<1>3. \A x \in last : x \in s /\ Rank(l, s, x) = n
  BY DEF Last, Rank
<1>4. last = {} \/ \E x \in s : last = {x} /\ Rank(l, s, x) = n
  <2>1. \A x, y \in last : x = y
    BY <1>3, RankOrder
  <2>2. QED
    BY <1>3, <2>1
<1>5. ASSUME last = {} PROVE p = s
  <2>1. ASSUME NEW r \in s, ~(Rank(l, s, r) < n) PROVE FALSE
    <3>1. r \notin last
      BY <1>5
    <3>2. Rank(l, s, r) # n
      BY <3>1 DEF Last, Rank
    <3>3. n < Rank(l, s, r)
      BY <1>1, <2>1, <3>2
    <3>4. PICK x \in Ahead(l, s, r) : Rank(l, s, x) = n
      BY <3>3, RankOnto
    <3>5. x \in last
      BY <3>4 DEF Ahead, Last, Rank
    <3>6. QED
      BY <3>5, <1>5
  <2>2. QED
    BY <1>2, <2>1 DEF Taken, Rank
<1>6. QED
  BY <1>2, <1>4, <1>5

LEMMA NoRows ==
  ASSUME NEW l \in Kinds, NEW s, Table(s)
  PROVE  Taken(l, s, 0) = {} /\ Last(l, s, 0) = {}
<1>1. \A r \in s : Rank(l, s, r) \in Nat
  BY RankType
<1>2. QED
  BY <1>1 DEF Taken, Last, Rank

\* Rows that are left when the first t are passed over have t more ahead.
LEMMA RankPassed ==
  ASSUME NEW l \in Kinds, NEW s, Table(s), NEW t \in Nat,
         NEW r \in s, t <= Rank(l, s, r)
  PROVE  Rank(l, s, r) = t + Rank(l, {q \in s : t <= Rank(l, s, q)}, r)
<1> DEFINE F == {q \in s : t <= Rank(l, s, q)}
           P == Taken(l, s, t)
           A == Ahead(l, F, r)
<1>1. /\ IsFiniteSet(P) /\ Cardinality(P) \in Nat /\ Cardinality(P) <= t
  BY FewTaken
<1>2. Table(F) /\ IsFiniteSet(A) /\ Cardinality(A) \in Nat /\ Rank(l, s, r) \in Nat
  <2>1. Table(F)
    BY PartOfTable
  <2>2. QED
    BY <2>1, RankType DEF Rank
<1>3. ASSUME Cardinality(P) < t PROVE FALSE
  <2> DEFINE f == [k \in 0..(t - 1) |-> CHOOSE x \in P : Rank(l, s, x) = k]
  <2>1. ASSUME NEW k \in 0..(t - 1) PROVE f[k] \in P /\ Rank(l, s, f[k]) = k
    <3>1. k \in Nat /\ k < Rank(l, s, r)
      BY <1>2
    <3>2. \E x \in s : Rank(l, s, x) = k
      BY <3>1, RankOnto DEF Ahead
    <3>3. \E x \in P : Rank(l, s, x) = k
      BY <3>2 DEF Taken, Rank
    <3>4. QED
      BY <3>3
  <2>2. f \in [0..(t - 1) -> P]
    BY <2>1
  <2>3. IsFiniteSet(0..(t - 1)) /\ Cardinality(0..(t - 1)) = t
    BY FS_Interval
  <2>4. PICK j, k \in 0..(t - 1) : j # k /\ f[j] = f[k]
    <3> HIDE DEF P, f
    <3>1. QED
      BY <1>1, <1>3, <2>2, <2>3, FS_PigeonHole
  <2>5. QED
    BY <2>1, <2>4
<1>4. Ahead(l, s, r) = P \cup A
  <2>1. ASSUME NEW x \in s, Rank(l, s, x) < t PROVE x \in Ahead(l, s, r)
    <3>1. Rank(l, s, x) < Rank(l, s, r)
      BY <2>1, <1>2, RankType
    <3>2. QED
      BY <3>1, RankOrder DEF Ahead
  <2>2. ASSUME NEW x \in s, ~(Rank(l, s, x) < t) PROVE x \in F
    BY <2>2, RankType
  <2>3. P = {x \in s : Rank(l, s, x) < t}
    BY DEF Taken, Rank
  <2>4. QED
    BY <2>1, <2>2, <2>3 DEF Ahead
<1>5. P \cap A = {}
  <2>1. \A x \in s : Rank(l, s, x) \in Nat
    BY RankType
  <2>2. QED
    BY <2>1 DEF Taken, Ahead, Rank
<1>6. Cardinality(P \cup A) = Cardinality(P) + Cardinality(A) - 0
  <2> HIDE DEF P, A
  <2>1. QED
    BY <1>1, <1>2, <1>5, FS_Union, FS_EmptySet
<1>7. QED
  BY <1>1, <1>2, <1>3, <1>4, <1>6 DEF Rank

--------------------------------------------------------------------------------
(* The inductive invariant.                                                *)

\* The rows a walk is about.
Own == {r \in rows : r.group = group}

\* A row that comes on the next pages: the rewards count those before.
Still(r) ==
  IF list = "rewards" THEN token.a <= Rank(list, Own, r)
  ELSE ~Before(Place(list, r), token)

TypeInv ==
  /\ list \in Kinds /\ limit \in Nat /\ limit + 1 < Width \div 2 /\ group \in Nat
  /\ Table(rows)
  /\ lastId \in Nat
  /\ \A r \in rows : r.id <= lastId /\ r.value \in ValuesOf(list)
  /\ page \subseteq RowType /\ listed \subseteq RowType
  /\ pending \subseteq Names /\ first \subseteq Names
  /\ phase \in {"asking", "merging", "walked", "failed"}
  /\ token \in Sites \cup {None}
  /\ list = "rewards" /\ token # None => token.a \in Nat
  /\ room \in Nat
  /\ changes \in [added : Nat, removed : Nat, valued : Nat]
  /\ list \notin Merged => pending = {} /\ first = {}
  /\ pending \cap NamesOf(rows) = {}

\* What the phases have in hand: nothing is listed before the first page, and
\* the mempool did not fill it when there is a second.
PhaseInv ==
  /\ token = None /\ Walking => page = {} /\ listed = {}
  /\ token = None /\ phase = "asking" => first = {}
  /\ phase = "merging" =>
       IF list \in Merged /\ token = None
       THEN room = Room(first) /\ (Cuts(list) => Cardinality(first) <= limit)
       ELSE room = limit
  /\ list \in Merged /\ token # None =>
       Cardinality(first) < limit /\ page \cup listed # {}

\* What is listed comes before the token; of the rewards, that many rows do.
ForwardInv ==
  token # None =>
    IF list = "rewards"
    THEN changes.added = 0 =>
           \A q \in page \cup listed :
             \/ q \in Own /\ Rank(list, Own, q) < token.a
             \/ \A r \in rows : r.id < q.id
    ELSE \A q \in page \cup listed : Before(Place(list, q), token)

\* What stood since the walk began is listed or comes on the next pages.
StoodInv ==
  Walking =>
    \/ list = "rewards" /\ changes.removed > 0
    \/ list \in Merged /\ phase = "merging" /\ token = None /\ Cardinality(first) >= limit
    \/ \A n \in stood :
         \/ n \in first \cup NamesOf(page \cup listed)
         \/ token = None /\ phase = "asking" /\ n \in pending
         \/ \E r \in Own : r.name = n /\ (token = None \/ Still(r))

\* What the mempool listed is mined behind the walk, or before its first page.
MinedInv ==
  /\ list \in Merged /\ token # None => 0 - token.a <= lastId
  /\ Walking => \A r \in rows :
       r.name \in first \ meanwhile =>
         token # None /\ Before(Place(list, r), token)

PagesInv ==
  /\ TypeInv /\ PhaseInv /\ ForwardInv /\ StoodInv /\ MinedInv
  /\ OnlyForward /\ NoneSkipped /\ TwiceOnlyIfMined /\ PageFits /\ FailsOnlyByWrap

--------------------------------------------------------------------------------
(* The steps of a walk.                                                    *)

LEMMA Remainder ==
  ASSUME NEW w \in Nat \ {0}, NEW x \in Int
  PROVE  /\ x % w \in Nat
         /\ 0 <= x /\ x < w => x % w = x
         /\ 0 - w <= x /\ x < 0 => x % w = x + w
  OBVIOUS

LEMMA CountType ==
  ASSUME NEW m \in SUBSET Names
  PROVE  /\ IsFiniteSet(m) /\ Cardinality(m) \in Nat
         /\ Cardinality(m) <= Width \div 2
  BY PagesAssumption, FS_Subset, FS_CardinalityType

\* What is asked of the database: a row more than the mempool left of the limit,
\* unless it left less than nothing.
LEMMA Asked ==
  ASSUME TypeInv, PhaseInv, phase = "merging"
  PROVE  LET asked == (room + 1) % Width IN
         /\ asked \in Nat
         /\ room <= limit => asked = room + 1 /\ ~TooMany(asked)
         /\ \/ /\ list \in Merged => Cardinality(first) <= limit
               /\ room <= limit
               /\ list \in Merged /\ token = None => room = limit - Cardinality(first)
            \/ /\ list = "contractTxs" /\ token = None /\ room > limit
               /\ \/ asked = 0 /\ Cardinality(first) = limit + 1 /\ ~TooMany(asked)
                  \/ TooMany(asked) /\ Cardinality(first) >= limit + 2
<1> DEFINE c == Cardinality(first)
           asked == (room + 1) % Width
<1>1. /\ limit \in Nat /\ room \in Nat /\ Width \in Nat \ {0} /\ room + 1 \in Int
      /\ limit + 1 < Width \div 2
  BY PagesAssumption DEF TypeInv
<1>2. /\ Width >= 4 /\ limit + 1 < Width /\ Width \div 2 \in Nat
      /\ 2 * (Width \div 2) <= Width
  BY <1>1
<1>3. c \in Nat /\ c <= Width \div 2
  BY CountType DEF TypeInv
<1>4. asked \in Nat
  BY <1>1, Remainder
<1>5. ASSUME room <= limit PROVE asked = room + 1 /\ ~TooMany(asked)
  <2>1. 0 <= room + 1 /\ room + 1 < Width
    BY <1>1, <1>2, <1>5
  <2>2. asked = room + 1
    BY <1>1, <2>1, Remainder
  <2>3. QED
    BY <1>1, <1>2, <1>5, <2>2 DEF TooMany
<1>6. CASE list \in Merged /\ token = None
  <2>1. room = (limit - c) % Width /\ limit - c \in Int
    BY <1>1, <1>3, <1>6 DEF PhaseInv, Room
  <2>2. CASE c <= limit
    <3>1. 0 <= limit - c /\ limit - c < Width
      BY <1>1, <1>2, <1>3, <2>2
    <3>2. room = limit - c
      BY <1>1, <2>1, <3>1, Remainder
    <3>3. QED
      BY <1>1, <1>3, <1>4, <1>5, <2>2, <3>2
  <2>3. CASE c > limit
    <3>1. list = "contractTxs"
      BY <1>6, <2>3, <1>1, <1>3 DEF PhaseInv, Merged, Cuts
    <3>2. 0 - Width <= limit - c /\ limit - c < 0
      BY <1>1, <1>2, <1>3, <2>3
    <3>3. room = limit - c + Width
      BY <1>1, <2>1, <3>2, Remainder
    <3>4. room > limit
      BY <1>1, <1>2, <1>3, <3>3
    <3>5. CASE c = limit + 1
      <4>1. room + 1 = Width
        BY <1>1, <3>3, <3>5
      <4>2. asked = 0
        BY <1>1, <4>1
      <4>3. ~TooMany(asked)
        BY <1>1, <4>2 DEF TooMany
      <4>4. QED
        BY <1>1, <1>4, <1>6, <3>1, <3>4, <3>5, <4>2, <4>3
    <3>6. CASE c # limit + 1
      <4>1. c >= limit + 2
        BY <1>1, <1>3, <2>3, <3>6
      <4>2. 0 <= room + 1 /\ room + 1 < Width
        BY <1>1, <1>2, <1>3, <3>3, <4>1
      <4>3. asked = room + 1
        BY <1>1, <4>2, Remainder
      <4>4. TooMany(asked)
        BY <1>1, <1>2, <1>3, <3>3, <4>3 DEF TooMany
      <4>5. QED
        BY <1>1, <1>4, <1>6, <3>1, <3>4, <4>1, <4>4
    <3>7. QED
      BY <3>5, <3>6
  <2>4. QED
    BY <1>1, <1>3, <2>2, <2>3
<1>7. CASE ~(list \in Merged /\ token = None)
  <2>1. room = limit
    BY <1>7 DEF PhaseInv
  <2>2. list \in Merged => c < limit
    BY <1>7 DEF PhaseInv
  <2>3. QED
    BY <1>1, <1>3, <1>4, <1>5, <1>7, <2>1, <2>2
<1>8. QED
  BY <1>6, <1>7

LEMMA Initially == Init => PagesInv
<1> SUFFICES ASSUME Init PROVE PagesInv
  OBVIOUS
<1>1. /\ list \in Kinds /\ limit \in Nat /\ limit + 1 < Width \div 2
      /\ group \in Nat
  BY PagesAssumption DEF Init, GroupsOf
<1>2. PICK names \in Starts :
        /\ lastId = Cardinality(names)
        /\ \E id \in [names -> 1..lastId], value \in [names -> ValuesOf(list)],
              of \in [names -> GroupsOf(list)] :
             /\ \A m, n \in names : id[m] = id[n] => m = n
             /\ rows = {[name |-> n, id |-> id[n], value |-> value[n],
                         group |-> of[n]] : n \in names}
  BY DEF Init
<1>3. PICK id \in [names -> 1..lastId], value \in [names -> ValuesOf(list)],
           of \in [names -> GroupsOf(list)] :
        /\ \A m, n \in names : id[m] = id[n] => m = n
        /\ rows = {[name |-> n, id |-> id[n], value |-> value[n],
                    group |-> of[n]] : n \in names}
  BY <1>2
<1>4. names \in SUBSET Names /\ IsFiniteSet(names) /\ lastId \in Nat
  BY <1>2, CountType, PagesAssumption
<1>5. ValuesOf(list) \subseteq Nat /\ GroupsOf(list) \subseteq Nat
  BY PagesAssumption DEF ValuesOf, GroupsOf
<1>6. Table(rows)
  <2> DEFINE row == [n \in names |-> [name |-> n, id |-> id[n], value |-> value[n],
                                      group |-> of[n]]]
  <2>1. row \in Surjection(names, rows)
    BY <1>3 DEF Surjection
  <2>2. IsFiniteSet(rows)
    BY <2>1, <1>4, FS_Surjection
  <2>3. rows \subseteq RowType
    BY <1>3, <1>4, <1>5 DEF RowType
  <2>4. ASSUME NEW r \in rows, NEW q \in rows, r.id = q.id PROVE r = q
    BY <1>3, <2>4
  <2>5. QED
    BY <2>2, <2>3, <2>4 DEF Table
<1>7. \A r \in rows : r.id <= lastId /\ r.value \in ValuesOf(list)
  BY <1>3, <1>4
<1>8. pending \subseteq Names /\ pending \cap NamesOf(rows) = {}
  BY DEF Init
<1>9. /\ phase = "asking" /\ token = None /\ room = 0 /\ first = {} /\ page = {}
      /\ listed = {} /\ stood = pending \cup NamesOf(Own)
      /\ changes = [added |-> 0, removed |-> 0, valued |-> 0]
      /\ list \in Merged \/ pending = {}
  BY DEF Init, Own
<1>10. TypeInv
  BY <1>1, <1>4, <1>6, <1>7, <1>8, <1>9 DEF TypeInv
<1>11. StoodInv
  BY <1>9 DEF StoodInv, NamesOf
<1>12. NamesOf(page \cup listed) = {}
  BY <1>9 DEF NamesOf
<1>13. PageFits
  BY <1>9, <1>1, FS_EmptySet DEF PageFits
<1>14. QED
  BY <1>9, <1>10, <1>11, <1>12, <1>13
  DEF PagesInv, PhaseInv, ForwardInv, MinedInv, OnlyForward, NoneSkipped,
      TwiceOnlyIfMined, FailsOnlyByWrap

LEMMA MempoolAsked == PagesInv /\ AskMempool => PagesInv'
<1> SUFFICES ASSUME PagesInv, AskMempool PROVE PagesInv'
  OBVIOUS
<1> USE DEF PagesInv
<1>1. PICK m \in SUBSET pending :
        /\ m # pending => m = {} \/ (Cuts(list) /\ Cardinality(m) = limit)
        /\ Cuts(list) => Cardinality(m) <= limit
        /\ first' = m
        /\ room' = Room(m)
        /\ stood' = IF m = {} THEN stood \ pending ELSE stood
  BY DEF AskMempool
<1>2. /\ phase = "asking" /\ list \in Merged /\ token = None /\ phase' = "merging"
      /\ page = {} /\ listed = {} /\ first = {} /\ Walking
      /\ UNCHANGED <<request, table, token, page, listed, meanwhile, changes>>
  BY DEF AskMempool, PhaseInv, Walking
<1>3. UNCHANGED <<list, limit, group, rows, lastId, pending>>
  BY <1>2 DEF request, table
<1>4. m \in SUBSET Names /\ Cardinality(m) \in Nat /\ room' \in Nat
  <2>1. m \in SUBSET Names
    BY DEF TypeInv
  <2>2. limit - Cardinality(m) \in Int /\ Width \in Nat \ {0}
    BY <2>1, CountType, PagesAssumption DEF TypeInv
  <2>3. QED
    BY <1>1, <2>1, <2>2, CountType, Remainder DEF Room
<1>5. TypeInv'
  BY <1>1, <1>2, <1>3, <1>4 DEF TypeInv, ValuesOf, Table, NamesOf
<1>6. PhaseInv'
  BY <1>1, <1>2, <1>3 DEF PhaseInv, Room, Cuts
<1>7. NamesOf(page \cup listed) = {} /\ NamesOf(page \cup listed)' = {}
  BY <1>2 DEF NamesOf
<1>8. StoodInv'
  <2>1. CASE Cardinality(m) >= limit
    BY <1>1, <1>2, <1>3, <2>1 DEF StoodInv
  <2>2. CASE ~(Cardinality(m) >= limit)
    <3>1. m = {} \/ m = pending
      BY <1>1, <1>4, <2>2 DEF TypeInv
    <3>2. ASSUME NEW n \in stood'
          PROVE  n \in first' \/ \E r \in Own' : r.name = n
      <4>1. n \in stood /\ (n \in pending => n \in m)
        BY <1>1, <3>1
      <4>2. n \in pending \/ \E r \in Own : r.name = n
        BY <4>1, <1>2, <1>7 DEF StoodInv, Merged
      <4>3. Own' = Own
        BY <1>3 DEF Own
      <4>4. QED
        BY <1>1, <4>1, <4>2, <4>3
    <3>3. QED
      BY <3>2, <1>2 DEF StoodInv
  <2>3. QED
    BY <2>1, <2>2
<1>9. MinedInv'
  <2>1. \A r \in rows : r.name \notin m
    BY DEF TypeInv, NamesOf
  <2>2. QED
    BY <1>1, <1>2, <1>3, <2>1 DEF MinedInv
<1>10. PageFits'
  <2>1. Cardinality({}) = 0
    BY FS_EmptySet
  <2>2. list = "txs" => Cardinality(m) <= limit
    BY <1>1 DEF Cuts
  <2>3. limit \in Nat /\ Cardinality(m) + Cardinality({}) = Cardinality(m)
    BY <2>1, <1>4 DEF TypeInv
  <2>4. list = "txs" \/ list = "contractTxs"
    BY <1>2 DEF Merged
  <2>5. page' = {} /\ listed' = {} /\ first' = m /\ limit' = limit /\ list' = list
    BY <1>1, <1>2, <1>3
  <2>6. QED
    BY <1>4, <2>2, <2>3, <2>4, <2>5 DEF PageFits
<1>11. QED
  BY <1>1, <1>2, <1>3, <1>5, <1>6, <1>7, <1>8, <1>9, <1>10
  DEF ForwardInv, OnlyForward, NoneSkipped, TwiceOnlyIfMined, FailsOnlyByWrap

\* Skip, Full and Fail leave what is listed as it is.
LEMMA NothingRead == PagesInv /\ (Skip \/ Full \/ Fail) => PagesInv'
<1> SUFFICES ASSUME PagesInv, Skip \/ Full \/ Fail PROVE PagesInv'
  OBVIOUS
<1> USE DEF PagesInv
<1>1. /\ UNCHANGED <<list, limit, group, rows, lastId, pending, token, first, page,
                     listed, stood, meanwhile, changes>>
      /\ Walking
  BY DEF Skip, Full, Fail, request, table, history, AsksDb, Walking
<1>2. /\ Own' = Own /\ NamesOf(rows)' = NamesOf(rows)
      /\ NamesOf(page \cup listed)' = NamesOf(page \cup listed)
  BY <1>1 DEF Own, NamesOf
<1>3. OnlyForward' /\ TwiceOnlyIfMined' /\ PageFits' /\ ForwardInv'
  BY <1>1, <1>2 DEF OnlyForward, TwiceOnlyIfMined, PageFits, ForwardInv, Rank
<1>4. CASE Skip
  <2>1. phase = "asking" /\ phase' = "merging" /\ room' = limit
        /\ ~(list \in Merged /\ token = None)
    BY <1>4 DEF Skip
  <2>2. TypeInv'
    BY <1>1, <1>2, <2>1 DEF TypeInv, Table, ValuesOf
  <2>3. PhaseInv'
    BY <1>1, <2>1 DEF PhaseInv, Walking, Cuts
  <2>4. StoodInv'
    BY <1>1, <1>2, <2>1 DEF StoodInv, Still, Rank, TypeInv, Walking
  <2>5. MinedInv'
    BY <1>1, <2>1 DEF MinedInv, Walking
  <2>6. QED
    BY <1>3, <2>1, <2>2, <2>3, <2>4, <2>5 DEF NoneSkipped, FailsOnlyByWrap
<1>5. CASE Full
  <2>1. phase = "merging" /\ phase' = "walked" /\ list \in Merged /\ room = 0 /\ room' = 0
    BY <1>5 DEF Full
  <2>2. TypeInv'
    BY <1>1, <1>2, <2>1 DEF TypeInv, Table, ValuesOf
  <2>3. PhaseInv' /\ StoodInv' /\ MinedInv'
    BY <1>1, <2>1 DEF PhaseInv, StoodInv, MinedInv, Walking
  <2>4. Cardinality(first) >= limit
    <3>1. Cardinality(first) \in Nat /\ limit \in Nat
      BY CountType DEF TypeInv
    <3>2. CASE token = None
      BY <3>1, <3>2, <2>1, Asked DEF TypeInv
    <3>3. CASE token # None
      BY <3>1, <3>3, <2>1 DEF PhaseInv
    <3>4. QED
      BY <3>2, <3>3
  <2>5. QED
    BY <1>1, <1>3, <2>1, <2>2, <2>3, <2>4 DEF NoneSkipped, FailsOnlyByWrap
<1>6. CASE Fail
  <2>1. phase = "merging" /\ phase' = "failed" /\ room' = room /\ TooMany((room + 1) % Width)
    BY <1>6 DEF Fail, AsksDb
  <2>2. TypeInv'
    BY <1>1, <1>2, <2>1 DEF TypeInv, Table, ValuesOf
  <2>3. PhaseInv' /\ StoodInv' /\ MinedInv'
    BY <1>1, <2>1 DEF PhaseInv, StoodInv, MinedInv, Walking
  <2>4. list = "contractTxs" /\ Cardinality(first) >= limit + 2
    BY <2>1, Asked
  <2>5. QED
    BY <1>1, <1>3, <2>1, <2>2, <2>3, <2>4 DEF NoneSkipped, FailsOnlyByWrap
<1>7. QED
  BY <1>4, <1>5, <1>6

LEMMA NoneIsNoSite == /\ None \notin Sites /\ None.any
                      /\ \A t \in Sites : ~t.any
  BY DEF None, Sites

\* How many rewards the pages before had.
Offset == IF token.any THEN 0 ELSE token.a

\* What a query finds: the rows of the walk that come on the next pages, none of
\* which comes before the token.
LEMMA FoundRows ==
  ASSUME TypeInv
  PROVE  LET found == Matching(list, group, rows, token) IN
         /\ Table(found) /\ found \subseteq rows
         /\ \A r \in Own : token = None \/ Still(r) => r \in found
         /\ list # "rewards" /\ token # None =>
              \A r \in found : ~Before(Place(list, r), token)
         /\ list = "rewards" =>
              /\ Offset \in Nat
              /\ found = {r \in Own : Offset <= Rank(list, Own, r)}
<1> DEFINE found == Matching(list, group, rows, token)
<1>1. token \in Sites \cup {None} /\ (token.any <=> token = None) /\ list \in Kinds
  BY NoneIsNoSite DEF TypeInv
<1>2. Table(Own) /\ Own \subseteq rows
  <2>1. Own \in SUBSET rows
    BY DEF Own
  <2>2. QED
    BY <2>1, PartOfTable DEF TypeInv
<1>3. \A r \in rows : Place(list, r) \in Sites
  BY <1>1, Placed DEF TypeInv, Table
<1>4. token # None => \A r \in rows : FromOn(Place(list, r), token) <=> ~Before(Place(list, r), token)
  BY <1>1, <1>3, SitesOrdered
<1>5. CASE list = "rewards"
  <2>1. Offset \in Nat /\ (token # None => Offset = token.a) /\ (token = None => Offset = 0)
    BY <1>1, <1>5 DEF TypeInv, Offset
  <2>2. found = {r \in rows : r.group = group /\
                   (token.any \/ Rank(list, Own, r) >= token.a)}
    BY <1>5 DEF Matching, Rank, Own
  <2>3. \A r \in Own : Rank(list, Own, r) \in Nat
    BY <1>2, RankType
  <2>4. found = {r \in Own : Offset <= Rank(list, Own, r)}
    BY <1>1, <2>1, <2>2, <2>3 DEF Own
  <2>5. found \in SUBSET rows
    BY <2>2
  <2>6. QED
    BY <1>1, <1>5, <2>1, <2>3, <2>4, <2>5, PartOfTable DEF TypeInv, Still
<1>6. CASE list = "totals"
  <2>1. found = {r \in rows : (r.group = group /\ token.any)
                                \/ (~token.any /\ FromOn(Place(list, r), token))}
    BY <1>6 DEF Matching
  <2>2. found \in SUBSET rows
    BY <2>1
  <2>3. QED
    BY <1>1, <1>4, <1>6, <2>1, <2>2, PartOfTable DEF TypeInv, Still, Own
<1>7. CASE list # "rewards" /\ list # "totals"
  <2>1. found = {r \in rows : r.group = group /\ (token.any \/ FromOn(Place(list, r), token))}
    BY <1>7 DEF Matching
  <2>2. found \in SUBSET rows
    BY <2>1
  <2>3. QED
    BY <1>1, <1>4, <1>7, <2>1, <2>2, PartOfTable DEF TypeInv, Still, Own
<1>8. QED
  BY <1>5, <1>6, <1>7

LEMMA PageRead == PagesInv /\ ReadPage => PagesInv'
<1> SUFFICES ASSUME PagesInv, ReadPage PROVE PagesInv'
  OBVIOUS
<1> USE DEF PagesInv
<1> DEFINE asked == (room + 1) % Width
           found == Matching(list, group, rows, token)
           last == Last(list, found, asked)
<1>1. /\ phase = "merging" /\ ~(list \in Merged /\ room = 0) /\ ~TooMany(asked)
      /\ page' = Taken(list, found, asked) \ last
      /\ token' = NextToken(last)
      /\ phase' = IF last = {} THEN "walked" ELSE "asking"
      /\ listed' = listed \cup page
      /\ Walking
  BY DEF ReadPage, AsksDb, Walking
<1>2. UNCHANGED <<list, limit, group, rows, lastId, pending, room, first, stood, meanwhile, changes>>
  BY DEF ReadPage, request, table, history
<1>3. /\ list \in Kinds /\ limit \in Nat /\ room \in Nat
      /\ token \in Sites \cup {None} /\ rows \subseteq RowType
      /\ Cardinality(first) \in Nat
  BY CountType DEF TypeInv, Table
<1>4. /\ Table(found) /\ found \subseteq rows
      /\ \A r \in Own : token = None \/ Still(r) => r \in found
      /\ list # "rewards" /\ token # None =>
           \A r \in found : ~Before(Place(list, r), token)
      /\ list = "rewards" =>
           Offset \in Nat /\ found = {r \in Own : Offset <= Rank(list, Own, r)}
  BY FoundRows
<1>5. \/ /\ list = "contractTxs" /\ token = None /\ asked = 0
         /\ Cardinality(first) = limit + 1
      \/ /\ room <= limit /\ asked = room + 1
         /\ list \in Merged /\ token = None => room = limit - Cardinality(first)
  BY <1>1, Asked
<1>6. CASE token = None /\ list = "contractTxs" /\ asked = 0 /\ Cardinality(first) = limit + 1
  <2>1. page' = {} /\ last = {}
    BY <1>1, <1>3, <1>4, <1>6, NoRows
  <2>2. token' = None /\ phase' = "walked" /\ listed' = {}
    BY <1>1, <1>6, <2>1 DEF NextToken, PhaseInv
  <2>3. TypeInv'
    BY <1>2, <2>1, <2>2 DEF TypeInv, Table, ValuesOf, NamesOf
  <2>4. NamesOf(page \cup listed)' = {}
    BY <2>1, <2>2 DEF NamesOf
  <2>5. PageFits'
    BY <1>2, <1>6, <2>1, <2>2 DEF PageFits
  <2>6. NoneSkipped'
    BY <1>2, <1>3, <1>6 DEF NoneSkipped, Merged
  <2>7. QED
    BY <1>2, <1>6, <2>1, <2>2, <2>3, <2>4, <2>5, <2>6
    DEF PhaseInv, ForwardInv, StoodInv, MinedInv, OnlyForward, TwiceOnlyIfMined,
        FailsOnlyByWrap, Walking
<1>7. CASE /\ room <= limit /\ asked = room + 1
           /\ list \in Merged /\ token = None => room = limit - Cardinality(first)
  <2>1. /\ page' = Taken(list, found, room)
        /\ last = {} \/ \E x \in found : last = {x} /\ Rank(list, found, x) = room
        /\ last = {} => page' = found
    BY <1>1, <1>3, <1>4, <1>7, PageRows
  <2>2. /\ page' \subseteq found
        /\ \A r \in found : r \in page' <=> Rank(list, found, r) < room
    BY <2>1 DEF Taken, Rank
  <2>3. \A r \in RowType : Place(list, r) \in Sites
    BY <1>3, Placed
  <2>4. page \subseteq RowType /\ listed \subseteq RowType /\ found \subseteq RowType
    BY <1>3, <1>4 DEF TypeInv
  \* What was listed comes before what is found.
  <2>5. ASSUME list # "rewards", NEW q \in page \cup listed, NEW r \in found
        PROVE  Before(Place(list, q), Place(list, r))
    <3>1. token # None
      BY <1>1, <2>5 DEF PhaseInv
    <3>2. Before(Place(list, q), token) /\ ~Before(Place(list, r), token)
      BY <1>4, <2>5, <3>1 DEF ForwardInv
    <3>3. Place(list, q) \in Sites /\ Place(list, r) \in Sites /\ token \in Sites
      BY <1>3, <2>3, <2>4, <3>1
    <3>4. token = Place(list, r) \/ Before(token, Place(list, r))
      BY <3>2, <3>3, SitesOrdered
    <3>5. QED
      BY <3>2, <3>3, <3>4, SitesOrdered
  \* For the rewards, it has fewer rows ahead, or came before all that are left.
  <2>6. ASSUME list = "rewards", changes.added = 0, NEW q \in page \cup listed
        PROVE  \/ q \in Own /\ Rank(list, Own, q) < Offset
               \/ \A r \in rows : r.id < q.id
    <3>1. token # None /\ token.any = FALSE
      BY <1>1, <1>3, <2>6, NoneIsNoSite DEF PhaseInv
    <3>2. QED
      BY <2>6, <3>1 DEF ForwardInv, Offset
  <2>7. Table(Own) /\ Own' = Own /\ \A r \in Own : Rank(list, Own, r) \in Nat
    <3>1. Own \in SUBSET rows
      BY DEF Own
    <3>2. Table(Own) /\ Own' = Own
      BY <1>2, <3>1, PartOfTable DEF TypeInv, Own
    <3>3. QED
      BY <3>2, RankType
  <2>8. ASSUME list = "rewards", NEW r \in found
        PROVE  Rank(list, Own, r) = Offset + Rank(list, found, r)
    BY <1>3, <1>4, <2>7, <2>8, RankPassed
  <2>9. OnlyForward'
    <3>1. CASE list = "rewards" /\ changes.added > 0
      BY <1>2, <3>1 DEF OnlyForward
    <3>2. CASE list = "rewards" /\ changes.added = 0
      <4>1. ASSUME NEW r \in page', NEW q \in page \cup listed
            PROVE  Before(Place(list, q), Place(list, r))
        <5>1. r \in found /\ r \in Own /\ Offset <= Rank(list, Own, r) /\ r \in rows
              /\ Offset \in Nat
          BY <1>4, <2>2, <3>2
        <5>2. CASE q \in Own /\ Rank(list, Own, q) < Offset
          <6>1. Rank(list, Own, q) < Rank(list, Own, r)
            BY <2>7, <5>1, <5>2
          <6>2. QED
            BY <1>3, <2>7, <5>1, <5>2, <6>1, RankOrder
        <5>3. CASE \A u \in rows : u.id < q.id
          <6>1. r.id < q.id /\ r.id \in Nat /\ q.id \in Nat
            BY <2>4, <5>1, <5>3 DEF RowType
          <6>2. Place(list, r) = At(0 - r.id, 0) /\ Place(list, q) = At(0 - q.id, 0)
            BY <3>2 DEF Place
          <6>3. QED
            BY <6>1, <6>2 DEF Before, At
        <5>4. QED
          BY <2>6, <3>2, <5>2, <5>3
      <4>2. QED
        BY <1>1, <1>2, <4>1 DEF OnlyForward
    <3>3. CASE list # "rewards"
      BY <1>1, <1>2, <2>2, <2>5, <3>3 DEF OnlyForward
    <3>4. changes.added > 0 \/ changes.added = 0
      BY DEF TypeInv
    <3>5. QED
      BY <3>1, <3>2, <3>3, <3>4
  <2>10. TwiceOnlyIfMined'
    <3>1. ASSUME NEW r \in page', r.name \in first PROVE r.name \in meanwhile
      <4>1. list \in Merged /\ list # "rewards" /\ r \in rows /\ r \in found
        BY <1>4, <2>2, <3>1 DEF TypeInv, Merged
      <4>2. token # None => ~Before(Place(list, r), token)
        BY <1>4, <4>1
      <4>3. QED
        BY <1>1, <3>1, <4>1, <4>2 DEF MinedInv
    <3>2. QED
      BY <1>1, <1>2, <3>1 DEF TwiceOnlyIfMined, NamesOf
  <2>11. PageFits'
    <3>1. Cardinality(page') \in Nat /\ Cardinality(page') <= room
      BY <1>3, <1>4, <2>1, FewTaken
    <3>2. CASE listed' # {}
      BY <1>2, <1>3, <1>7, <3>1, <3>2 DEF PageFits
    <3>3. CASE listed' = {}
      <4>1. page = {} /\ listed = {}
        BY <1>1, <3>3
      <4>2. Cardinality(first) + Cardinality(page') <= limit
        <5>1. CASE list \in Merged
          <6>1. token = None
            BY <4>1, <5>1 DEF PhaseInv
          <6>2. QED
            BY <1>3, <1>7, <3>1, <5>1, <6>1
        <5>2. CASE list \notin Merged
          <6>1. Cardinality(first) = 0
            BY <5>2, FS_EmptySet DEF TypeInv
          <6>2. QED
            BY <1>3, <1>7, <3>1, <6>1
        <5>3. QED
          BY <5>1, <5>2
      <4>3. QED
        BY <1>2, <1>3, <3>1, <3>3, <4>2 DEF PageFits
    <3>4. QED
      BY <3>2, <3>3
  <2>12. FailsOnlyByWrap'
    BY <1>1 DEF FailsOnlyByWrap
  <2>13. CASE last = {}
    <3>1. token' = None /\ phase' = "walked" /\ page' = found
      BY <1>1, <2>1, <2>13 DEF NextToken
    <3>2. TypeInv'
      BY <1>1, <1>2, <2>4, <3>1 DEF TypeInv, Table, ValuesOf, NamesOf
    <3>3. NoneSkipped'
      <4>1. ASSUME NEW n \in stood,
                   ~(list \in Merged /\ Cardinality(first) >= limit),
                   ~(list = "rewards" /\ changes.removed > 0)
            PROVE  n \in first \cup NamesOf(page' \cup listed')
        <5>1. \/ n \in first \cup NamesOf(page \cup listed)
              \/ \E r \in Own : r.name = n /\ (token = None \/ Still(r))
          BY <1>1, <4>1 DEF StoodInv
        <5>2. ASSUME NEW r \in Own, r.name = n, token = None \/ Still(r)
              PROVE  n \in NamesOf(page')
          BY <1>4, <3>1, <5>2 DEF NamesOf
        <5>3. QED
          BY <1>1, <5>1, <5>2 DEF NamesOf
      <4>2. QED
        BY <1>2, <4>1 DEF NoneSkipped
    <3>4. QED
      BY <1>1, <1>2, <2>9, <2>10, <2>11, <2>12, <3>1, <3>2, <3>3
      DEF PhaseInv, ForwardInv, StoodInv, MinedInv, Walking
  <2>14. CASE last # {}
    <3>1. PICK x \in found : last = {x} /\ Rank(list, found, x) = room
      BY <2>1, <2>14
    <3>2. phase' = "asking"
      BY <1>1, <2>14
    <3>3. /\ list # "rewards" => token' = Place(list, x)
          /\ list = "rewards" => token' = At(Offset + room, 0)
      BY <1>1, <3>1 DEF NextToken, Offset
    <3>4. /\ token' \in Sites /\ token' # None /\ Place(list, x) \in Sites
          /\ list = "rewards" => token'.a = Offset + room /\ token'.a \in Nat
      <4>1. Place(list, x) \in Sites
        BY <2>3, <2>4
      <4>2. CASE list = "rewards"
        <5>1. Offset + room \in Nat
          BY <1>3, <1>4, <4>2
        <5>2. \A k \in Nat : At(k, 0) \in Sites /\ At(k, 0).a = k
          BY DEF At, Sites
        <5>3. token' \in Sites /\ token'.a = Offset + room
          BY <3>3, <4>2, <5>1, <5>2
        <5>4. QED
          BY <4>1, <5>1, <5>3, NoneIsNoSite
      <4>3. QED
        BY <3>3, <4>1, <4>2, NoneIsNoSite
    <3>5. TypeInv'
      BY <1>1, <1>2, <2>2, <2>4, <3>2, <3>4 DEF TypeInv, Table, ValuesOf, NamesOf
    <3>6. PhaseInv'
      <4>1. ASSUME list \in Merged PROVE Cardinality(first) < limit /\ page' \cup listed' # {}
        <5>1. CASE token = None
          <6>1. room > 0 /\ room = limit - Cardinality(first)
            BY <1>1, <1>3, <1>7, <4>1, <5>1
          <6>2. \E y \in Ahead(list, found, x) : Rank(list, found, y) = 0
            BY <1>3, <1>4, <3>1, <6>1, RankOnto
          <6>3. page' # {}
            BY <2>2, <6>1, <6>2 DEF Ahead
          <6>4. QED
            BY <1>3, <6>1, <6>3
        <5>2. CASE token # None
          BY <1>1, <4>1, <5>2 DEF PhaseInv
        <5>3. QED
          BY <5>1, <5>2
      <4>2. QED
        BY <1>2, <3>2, <3>4, <4>1 DEF PhaseInv
    <3>7. ForwardInv'
      <4>1. CASE list = "rewards"
        <5>1. ASSUME changes.added = 0, NEW q \in page' \cup listed'
              PROVE  \/ q \in Own /\ Rank(list, Own, q) < token'.a
                     \/ \A r \in rows : r.id < q.id
          <6>1. CASE q \in page'
            <7>1. q \in found /\ q \in Own /\ Rank(list, found, q) < room
              BY <1>4, <2>2, <4>1, <6>1
            <7>2. Rank(list, found, q) \in Nat /\ Offset \in Nat
              BY <1>4, <4>1, RankType
            <7>3. QED
              BY <1>3, <2>8, <3>4, <4>1, <7>1, <7>2
          <6>2. CASE q \in page \cup listed
            BY <1>3, <1>4, <2>6, <2>7, <3>4, <4>1, <5>1, <6>2
          <6>3. QED
            BY <1>1, <5>1, <6>1, <6>2
        <5>2. QED
          BY <1>2, <2>7, <4>1, <5>1 DEF ForwardInv, Rank
      <4>2. CASE list # "rewards"
        <5>1. ASSUME NEW q \in page' PROVE Before(Place(list, q), Place(list, x))
          BY <1>3, <1>4, <2>2, <3>1, RankOrder
        <5>2. QED
          BY <1>1, <1>2, <2>5, <3>3, <4>2, <5>1 DEF ForwardInv
      <4>3. QED
        BY <4>1, <4>2
    <3>8. StoodInv'
      <4>1. ASSUME NEW n \in stood, ~(list = "rewards" /\ changes.removed > 0)
            PROVE  \/ n \in first \cup NamesOf(page' \cup listed')
                   \/ \E r \in Own : r.name = n /\ Still(r)'
        <5>1. ~(list \in Merged /\ token = None /\ Cardinality(first) >= limit)
          BY <1>1, <1>3, <1>7
        <5>2. \/ n \in first \cup NamesOf(page \cup listed)
              \/ \E r \in Own : r.name = n /\ (token = None \/ Still(r))
          BY <1>1, <4>1, <5>1 DEF StoodInv
        <5>3. ASSUME NEW r \in Own, r.name = n, token = None \/ Still(r)
              PROVE  r \in page' \/ Still(r)'
          <6>1. r \in found /\ Rank(list, found, r) \in Nat
            BY <1>4, <5>3, RankType
          <6>2. SUFFICES ASSUME ~(Rank(list, found, r) < room) PROVE Still(r)'
            BY <2>2, <6>1
          <6>3. CASE list = "rewards"
            <7>1. Rank(list, Own, r) = Offset + Rank(list, found, r) /\ Offset \in Nat
              BY <1>4, <2>8, <6>1, <6>3
            <7>2. token'.a <= Rank(list, Own, r)
              BY <1>3, <3>4, <6>1, <6>2, <6>3, <7>1
            <7>3. QED
              BY <1>2, <2>7, <6>3, <7>2 DEF Still, Rank
          <6>4. CASE list # "rewards"
            <7>1. ~Before(Place(list, r), Place(list, x))
              BY <1>3, <1>4, <3>1, <6>1, <6>2, RankOrder
            <7>2. QED
              BY <1>2, <3>3, <6>4, <7>1 DEF Still
          <6>5. QED
            BY <6>3, <6>4
        <5>4. QED
          BY <1>1, <5>2, <5>3 DEF NamesOf
      <4>2. QED
        BY <1>2, <2>7, <3>4, <4>1 DEF StoodInv
    <3>9. MinedInv'
      <4>1. ASSUME list \in Merged PROVE 0 - token'.a <= lastId
        <5>1. list # "rewards" /\ token' = At(0 - x.id, 0)
          BY <3>3, <4>1 DEF Merged, Place
        <5>2. x.id <= lastId /\ x.id \in Nat /\ lastId \in Nat
          BY <1>4, <2>4 DEF TypeInv, RowType
        <5>3. QED
          BY <5>1, <5>2 DEF At
      <4>2. ASSUME NEW r \in rows, r.name \in first \ meanwhile
            PROVE  Before(Place(list, r), token')
        <5>1. list # "rewards" /\ token # None /\ Before(Place(list, r), token)
          BY <1>1, <4>2 DEF MinedInv, TypeInv, Merged
        <5>2. ~Before(Place(list, x), token) /\ Place(list, r) \in Sites /\ token \in Sites
          BY <1>3, <1>4, <2>3, <5>1
        <5>3. token = Place(list, x) \/ Before(token, Place(list, x))
          BY <3>4, <5>2, SitesOrdered
        <5>4. QED
          BY <3>3, <3>4, <5>1, <5>2, <5>3, SitesOrdered
      <4>3. QED
        BY <1>2, <3>4, <4>1, <4>2 DEF MinedInv
    <3>10. NoneSkipped'
      BY <3>2 DEF NoneSkipped
    <3>11. QED
      BY <2>9, <2>10, <2>11, <2>12, <3>5, <3>6, <3>7, <3>8, <3>9, <3>10
  <2>15. QED
    BY <2>13, <2>14
<1>8. QED
  BY <1>5, <1>6, <1>7

--------------------------------------------------------------------------------
(* The changes of the tables and of the mempool.                           *)

\* A change takes nothing of what is listed or in hand.
LEMMA WalkStays ==
  ASSUME PagesInv, Walking, UNCHANGED request, UNCHANGED walk,
         changes' \in [added : Nat, removed : Nat, valued : Nat],
         changes.added <= changes'.added, meanwhile \subseteq meanwhile'
  PROVE  /\ PhaseInv' /\ OnlyForward' /\ NoneSkipped' /\ TwiceOnlyIfMined' /\ PageFits'
         /\ FailsOnlyByWrap' /\ Walking'
<1>1. /\ UNCHANGED <<list, limit, group, phase, token, room, first, page, listed>>
      /\ phase \in {"asking", "merging"}
  BY DEF request, walk, Walking
<1>2. changes.added \in Nat /\ changes'.added \in Nat
  BY DEF PagesInv, TypeInv
<1>3. OnlyForward'
  BY <1>1, <1>2 DEF PagesInv, OnlyForward
<1>4. TwiceOnlyIfMined'
  BY <1>1 DEF PagesInv, TwiceOnlyIfMined, NamesOf
<1>5. QED
  BY <1>1, <1>3, <1>4
  DEF PagesInv, PhaseInv, NoneSkipped, PageFits, FailsOnlyByWrap, Walking, Room, Cuts

LEMMA OneRowMore ==
  ASSUME TypeInv, NEW n \in Names, NEW v \in ValuesOf(list),
         rows' = rows \cup {NewRow(n, v)}, lastId' = lastId + 1, UNCHANGED list
  PROVE  /\ Table(rows)' /\ lastId' \in Nat
         /\ \A r \in rows' : r.id <= lastId' /\ r.value \in ValuesOf(list)'
<1> DEFINE x == NewRow(n, v)
<1>1. v \in Nat /\ ValuesOf(list)' = ValuesOf(list)
  BY PagesAssumption DEF ValuesOf
<1>2. /\ x.id = lastId + 1 /\ x.value = v /\ x \in RowType /\ lastId \in Nat
  BY <1>1 DEF NewRow, RowType, TypeInv
<1>3. IsFiniteSet(rows')
  BY FS_AddElement DEF TypeInv, Table
<1>4. \A r \in rows : r.id \in Nat /\ r.id <= lastId
  BY DEF TypeInv, Table, RowType
<1>5. \A r, q \in rows' : r.id = q.id => r = q
  <2> HIDE DEF x
  <2>1. rows' = rows \cup {x}
    BY DEF x
  <2>2. QED
    BY <1>2, <1>4, <2>1 DEF TypeInv, Table
<1>6. rows' \subseteq RowType
  BY <1>2 DEF TypeInv, Table
<1>7. QED
  BY <1>1, <1>2, <1>3, <1>4, <1>5, <1>6 DEF Table, TypeInv

LEMMA RowAdded == ASSUME PagesInv, NEW n \in Names, Add(n) PROVE PagesInv'
<1> USE DEF PagesInv
<1>1. PICK v \in ValuesOf(list) : rows' = rows \cup {NewRow(n, v)}
  BY DEF Add
<1>2. /\ Walking /\ list \notin Merged /\ lastId' = lastId + 1 /\ pending' = pending
      /\ UNCHANGED request /\ UNCHANGED walk /\ stood' = stood /\ meanwhile' = meanwhile
      /\ changes' = [changes EXCEPT !.added = @ + 1]
  BY DEF Add, MayChange
<1>3. /\ changes' \in [added : Nat, removed : Nat, valued : Nat]
      /\ changes.added <= changes'.added /\ changes'.added > 0
      /\ changes'.removed = changes.removed
  BY <1>2 DEF TypeInv
<1>4. /\ PhaseInv' /\ OnlyForward' /\ NoneSkipped' /\ TwiceOnlyIfMined' /\ PageFits'
      /\ FailsOnlyByWrap' /\ Walking'
  BY <1>2, <1>3, WalkStays
<1>5. UNCHANGED <<list, limit, group, phase, token, room, first, page, listed>>
  BY <1>2 DEF request, walk
<1>6. /\ Table(rows)' /\ lastId' \in Nat
      /\ \A r \in rows' : r.id <= lastId' /\ r.value \in ValuesOf(list)'
  BY <1>1, <1>2, <1>5, OneRowMore
<1>7. TypeInv'
  BY <1>2, <1>3, <1>5, <1>6 DEF TypeInv, NamesOf
<1>8. ForwardInv'
  BY <1>3, <1>5 DEF ForwardInv
<1>9. StoodInv'
  <2>1. Own \subseteq Own'
    BY <1>1, <1>5 DEF Own
  <2>2. ASSUME NEW r \in Own, Still(r) PROVE token = None \/ Still(r)'
    <3>1. CASE list = "rewards" /\ token # None
      <4>1. Ahead(list, Own, r) \in SUBSET Ahead(list, Own', r)
        BY <2>1 DEF Ahead
      <4>2. Table(Own') /\ Table(Own)
        <5>1. Own' \in SUBSET rows' /\ Own \in SUBSET rows /\ Table(rows')
          BY <1>6 DEF Own, Table
        <5>2. QED
          BY <5>1, PartOfTable DEF TypeInv
      <4>3. Rank(list, Own, r) \in Nat /\ Rank(list, Own', r) \in Nat
            /\ Rank(list, Own, r) <= Rank(list, Own', r)
        BY <4>1, <4>2, RankType, FS_Subset DEF Rank
      <4>4. QED
        BY <1>5, <2>2, <3>1, <4>3 DEF Still, Rank, TypeInv
    <3>2. CASE list # "rewards"
      BY <1>5, <2>2, <3>2 DEF Still
    <3>3. QED
      BY <3>1, <3>2
  <2>3. QED
    BY <1>2, <1>3, <1>5, <2>1, <2>2 DEF StoodInv, NamesOf
<1>10. MinedInv'
  BY <1>2, <1>5 DEF MinedInv, TypeInv
<1>11. QED
  BY <1>4, <1>7, <1>8, <1>9, <1>10

LEMMA RowMined == ASSUME PagesInv, NEW n \in Names, Mine(n) PROVE PagesInv'
<1> USE DEF PagesInv
<1>1. /\ Walking /\ n \in pending /\ pending' = pending \ {n}
      /\ rows' = rows \cup {NewRow(n, 0)} /\ lastId' = lastId + 1
      /\ meanwhile' = IF phase = "merging" THEN meanwhile \cup {n} ELSE meanwhile
      /\ UNCHANGED request /\ UNCHANGED walk /\ stood' = stood
      /\ changes' = [changes EXCEPT !.added = @ + 1]
  BY DEF Mine, MayChange
<1>2. list \in Merged /\ list # "rewards" /\ 0 \in ValuesOf(list)
  BY <1>1 DEF TypeInv, Merged, ValuesOf
<1>3. /\ changes' \in [added : Nat, removed : Nat, valued : Nat]
      /\ changes.added <= changes'.added
  BY <1>1 DEF TypeInv
<1>4. /\ PhaseInv' /\ OnlyForward' /\ NoneSkipped' /\ TwiceOnlyIfMined' /\ PageFits'
      /\ FailsOnlyByWrap' /\ Walking'
  BY <1>1, <1>3, WalkStays
<1>5. UNCHANGED <<list, limit, group, phase, token, room, first, page, listed>>
  BY <1>1 DEF request, walk
<1>6. /\ Table(rows)' /\ lastId' \in Nat
      /\ \A r \in rows' : r.id <= lastId' /\ r.value \in ValuesOf(list)'
  BY <1>1, <1>2, <1>5, OneRowMore
<1>7. NewRow(n, 0).name = n /\ NewRow(n, 0).group = group /\ NewRow(n, 0).id = lastId + 1
  BY DEF NewRow
<1>8. TypeInv'
  BY <1>1, <1>2, <1>3, <1>5, <1>6, <1>7 DEF TypeInv, NamesOf
<1>9. ForwardInv'
  BY <1>2, <1>5 DEF ForwardInv
<1>10. StoodInv'
  <2>1. Own' = Own \cup {NewRow(n, 0)}
    BY <1>1, <1>5, <1>7 DEF Own
  <2>2. \A r \in Own : Still(r)' <=> Still(r)
    BY <1>2, <1>5 DEF Still
  <2>3. QED
    BY <1>1, <1>2, <1>5, <1>7, <2>1, <2>2 DEF StoodInv, NamesOf, Walking
<1>11. MinedInv'
  <2>1. token # None => token \in Sites /\ token.a \in Int /\ lastId \in Nat
                        /\ 0 - token.a <= lastId
    BY <1>2 DEF MinedInv, TypeInv, Sites
  <2>2. ASSUME n \in first \ meanwhile'
        PROVE  token # None /\ Before(Place(list, NewRow(n, 0)), token)
    <3>1. phase = "asking" /\ token # None
      BY <1>1, <2>2 DEF PhaseInv, Walking
    <3>2. Place(list, NewRow(n, 0)) = At(0 - (lastId + 1), 0)
      BY <1>2, <1>7 DEF Place, Merged
    <3>3. At(0 - (lastId + 1), 0).a < token.a
      BY <2>1, <3>1 DEF At
    <3>4. QED
      BY <3>1, <3>2, <3>3 DEF Before
  <2>3. meanwhile \subseteq meanwhile'
    BY <1>1
  <2>4. QED
    BY <1>1, <1>5, <1>7, <2>1, <2>2, <2>3 DEF MinedInv, TypeInv
<1>12. QED
  BY <1>4, <1>8, <1>9, <1>10, <1>11

LEMMA RowRemoved == ASSUME PagesInv, NEW r \in rows, Remove(r) PROVE PagesInv'
<1> USE DEF PagesInv
<1>1. /\ Walking /\ rows' = rows \ {r} /\ stood' = stood \ {r.name}
      /\ list = "rewards" => \A q \in rows : q.id <= r.id
      /\ UNCHANGED request /\ UNCHANGED walk
      /\ lastId' = lastId /\ pending' = pending /\ meanwhile' = meanwhile
      /\ changes' = [changes EXCEPT !.removed = @ + 1]
  BY DEF Remove, MayChange
<1>2. /\ changes' \in [added : Nat, removed : Nat, valued : Nat]
      /\ changes'.added = changes.added /\ changes'.added \in Nat /\ changes'.removed > 0
  BY <1>1 DEF TypeInv
<1>3. /\ PhaseInv' /\ OnlyForward' /\ NoneSkipped' /\ TwiceOnlyIfMined' /\ PageFits'
      /\ FailsOnlyByWrap' /\ Walking'
  BY <1>1, <1>2, WalkStays
<1>4. UNCHANGED <<list, limit, group, phase, token, room, first, page, listed>>
  BY <1>1 DEF request, walk
<1>5. Table(rows')
  <2>1. rows' \in SUBSET rows
    BY <1>1
  <2>2. QED
    BY <2>1, PartOfTable DEF TypeInv
<1>6. TypeInv'
  BY <1>1, <1>2, <1>4, <1>5 DEF TypeInv, Table, NamesOf, ValuesOf
<1>7. Own' = Own \ {r}
  BY <1>1, <1>4 DEF Own
<1>8. ForwardInv'
  <2>1. CASE list = "rewards"
    <3>1. ASSUME NEW q \in page \cup listed, token # None,
                 \/ q \in Own /\ Rank(list, Own, q) < token.a
                 \/ \A u \in rows : u.id < q.id
          PROVE  \/ q \in Own' /\ Rank(list, Own', q) < token.a
                 \/ \A u \in rows' : u.id < q.id
      <4>1. CASE \A u \in rows : u.id < q.id
        BY <1>1, <4>1
      <4>2. CASE q = r
        <5>1. ASSUME NEW u \in rows' PROVE u.id < r.id
          <6>1. u \in rows /\ u # r /\ u.id <= r.id
            BY <1>1, <2>1
          <6>2. u.id \in Nat /\ r.id \in Nat /\ u.id # r.id
            BY <6>1 DEF TypeInv, Table, RowType
          <6>3. QED
            BY <6>1, <6>2
        <5>2. QED
          BY <4>2, <5>1
      <4>3. CASE q # r /\ q \in Own /\ Rank(list, Own, q) < token.a
        <5>1. Ahead(list, Own', q) \in SUBSET Ahead(list, Own, q)
          BY <1>7 DEF Ahead
        <5>2. Table(Own) /\ Table(Own')
          <6>1. Own \in SUBSET rows /\ Own' \in SUBSET rows
            BY <1>7 DEF Own
          <6>2. QED
            BY <6>1, PartOfTable DEF TypeInv
        <5>3. Rank(list, Own', q) <= Rank(list, Own, q)
              /\ Rank(list, Own', q) \in Nat /\ Rank(list, Own, q) \in Nat
          BY <5>1, <5>2, RankType, FS_Subset DEF Rank
        <5>4. QED
          BY <1>7, <2>1, <3>1, <4>3, <5>3 DEF TypeInv
      <4>4. QED
        BY <3>1, <4>1, <4>2, <4>3
    <3>2. QED
      BY <1>2, <1>4, <2>1, <3>1 DEF ForwardInv, Rank
  <2>2. CASE list # "rewards"
    BY <1>4, <2>2 DEF ForwardInv
  <2>3. QED
    BY <2>1, <2>2
<1>9. StoodInv'
  <2>1. CASE list = "rewards"
    BY <1>2, <1>4, <2>1 DEF StoodInv
  <2>2. CASE list # "rewards"
    <3>1. \A q \in Own : Still(q)' <=> Still(q)
      BY <1>4, <2>2 DEF Still
    <3>2. \A q \in Own : q.name \in stood' => q \in Own'
      BY <1>1, <1>7
    <3>3. QED
      BY <1>1, <1>4, <2>2, <3>1, <3>2 DEF StoodInv, NamesOf, Walking
  <2>3. QED
    BY <2>1, <2>2
<1>10. MinedInv'
  BY <1>1, <1>4 DEF MinedInv, Walking
<1>11. QED
  BY <1>3, <1>6, <1>8, <1>9, <1>10

LEMMA ValueChanged ==
  ASSUME PagesInv, NEW r \in rows, NEW v \in ValuesOf(list), Change(r, v)
  PROVE  PagesInv'
<1> USE DEF PagesInv
<1> DEFINE y == [r EXCEPT !.value = v]
<1>1. /\ Walking /\ v # r.value /\ rows' = (rows \ {r}) \cup {y}
      /\ stood' = stood \ {r.name}
      /\ UNCHANGED request /\ UNCHANGED walk
      /\ lastId' = lastId /\ pending' = pending /\ meanwhile' = meanwhile
      /\ changes' = [changes EXCEPT !.valued = @ + 1]
  BY DEF Change, MayChange
<1>2. list # "rewards" /\ list \notin Merged
  BY <1>1 DEF TypeInv, ValuesOf, Merged
<1>3. /\ changes' \in [added : Nat, removed : Nat, valued : Nat]
      /\ changes'.added = changes.added /\ changes.added \in Nat
  BY <1>1 DEF TypeInv
<1>4. /\ PhaseInv' /\ OnlyForward' /\ NoneSkipped' /\ TwiceOnlyIfMined' /\ PageFits'
      /\ FailsOnlyByWrap' /\ Walking'
  BY <1>1, <1>3, WalkStays
<1>5. UNCHANGED <<list, limit, group, phase, token, room, first, page, listed>>
  BY <1>1 DEF request, walk
<1>6. r \in RowType /\ v \in Nat /\ ValuesOf(list)' = ValuesOf(list)
  BY <1>5, PagesAssumption DEF TypeInv, Table, ValuesOf
<1>7. y \in RowType /\ y.id = r.id /\ y.value = v /\ y.name = r.name
  BY <1>6 DEF RowType
<1>8. Table(rows')
  <2> HIDE DEF y
  <2>1. IsFiniteSet(rows \ {r})
    BY FS_RemoveElement DEF TypeInv, Table
  <2>2. IsFiniteSet(rows')
    BY <1>1, <2>1, FS_AddElement
  <2>3. rows' \subseteq RowType
    BY <1>1, <1>7 DEF TypeInv, Table
  <2>4. \A p, q \in rows' : p.id = q.id => p = q
    BY <1>1, <1>7 DEF TypeInv, Table
  <2>5. QED
    BY <2>2, <2>3, <2>4 DEF Table
<1> HIDE DEF y
<1>9. TypeInv'
  <2>1. \A q \in rows' : q.id <= lastId /\ q.value \in ValuesOf(list)'
    BY <1>1, <1>6, <1>7 DEF TypeInv
  <2>2. pending = {} /\ first = {}
    BY <1>2 DEF TypeInv
  <2>3. QED
    BY <1>1, <1>3, <1>5, <1>8, <2>1, <2>2 DEF TypeInv, Table
<1>10. ForwardInv'
  BY <1>2, <1>5 DEF ForwardInv
<1>11. StoodInv'
  <2>1. \A q \in Own : Still(q)' <=> Still(q)
    BY <1>2, <1>5 DEF Still
  <2>2. \A q \in Own : q.name \in stood' => q \in Own'
    BY <1>1, <1>5 DEF Own
  <2>3. QED
    BY <1>1, <1>2, <1>5, <2>1, <2>2 DEF StoodInv, NamesOf, Walking
<1>12. MinedInv'
  BY <1>2, <1>5 DEF MinedInv, TypeInv
<1>13. QED
  BY <1>4, <1>9, <1>10, <1>11, <1>12

LEMMA MempoolChanged ==
  ASSUME PagesInv, NEW n \in Names, Pend(n) \/ Drop(n) PROVE PagesInv'
<1> USE DEF PagesInv
<1>1. /\ Walking /\ UNCHANGED request /\ UNCHANGED walk
      /\ rows' = rows /\ lastId' = lastId /\ meanwhile' = meanwhile /\ changes' = changes
      /\ \/ pending' = pending \cup {n} /\ n \notin NamesOf(rows) /\ stood' = stood
            /\ list \in Merged
         \/ pending' = pending \ {n} /\ stood' = stood \ {n}
  BY DEF Pend, Drop, Fresh, history
<1>2. changes' \in [added : Nat, removed : Nat, valued : Nat] /\ changes.added <= changes'.added
  BY <1>1 DEF TypeInv
<1>3. /\ PhaseInv' /\ OnlyForward' /\ NoneSkipped' /\ TwiceOnlyIfMined' /\ PageFits'
      /\ FailsOnlyByWrap' /\ Walking'
  BY <1>1, <1>2, WalkStays
<1>4. UNCHANGED <<list, limit, group, phase, token, room, first, page, listed>>
  BY <1>1 DEF request, walk
<1>5. TypeInv'
  <2>1. NamesOf(rows)' = NamesOf(rows) /\ ValuesOf(list)' = ValuesOf(list)
    BY <1>1, <1>4 DEF NamesOf, ValuesOf
  <2>2. QED
    BY <1>1, <1>2, <1>4, <2>1 DEF TypeInv, Table
<1>6. Own' = Own
  BY <1>1, <1>4 DEF Own
<1>7. ForwardInv' /\ MinedInv'
  BY <1>1, <1>4, <1>6 DEF ForwardInv, MinedInv, Rank, Walking
<1>8. StoodInv'
  <2>1. \A q \in Own : Still(q)' <=> Still(q)
    BY <1>4, <1>6 DEF Still, Rank
  <2>2. stood' \subseteq stood /\ \A m \in stood' : m \in pending => m \in pending'
    BY <1>1
  <2>3. QED
    BY <1>1, <1>4, <1>6, <2>1, <2>2 DEF StoodInv, NamesOf, Walking
<1>9. QED
  BY <1>3, <1>5, <1>7, <1>8

--------------------------------------------------------------------------------

LEMMA PagesInvHolds == Spec => []PagesInv
<1>1. PagesInv /\ [Next]_vars => PagesInv'
  <2> SUFFICES ASSUME PagesInv, [Next]_vars PROVE PagesInv'
    OBVIOUS
  <2>1. CASE Answers
    BY <2>1, MempoolAsked, NothingRead, PageRead DEF Answers
  <2>2. CASE \E n \in Names : Add(n) \/ Mine(n) \/ Pend(n) \/ Drop(n)
    BY <2>2, RowAdded, RowMined, MempoolChanged
  <2>3. CASE \E r \in rows : Remove(r) \/ \E v \in ValuesOf(list) : Change(r, v)
    BY <2>3, RowRemoved, ValueChanged
  <2>4. CASE UNCHANGED vars
    <3>1. UNCHANGED <<list, limit, group, rows, lastId, pending, phase, token, room, first,
                      page, listed, stood, meanwhile, changes>>
      BY <2>4 DEF vars, request, table, walk, history
    <3>2. Own' = Own /\ NamesOf(rows)' = NamesOf(rows) /\ ValuesOf(list)' = ValuesOf(list)
          /\ NamesOf(page \cup listed)' = NamesOf(page \cup listed)
      BY <3>1 DEF Own, NamesOf, ValuesOf
    <3>3. TypeInv' /\ PhaseInv' /\ ForwardInv' /\ StoodInv' /\ MinedInv'
      BY <3>1, <3>2
      DEF PagesInv, TypeInv, PhaseInv, ForwardInv, StoodInv, MinedInv, Still, Rank, Table,
          Walking, Room, Cuts
    <3>4. QED
      BY <3>1, <3>2, <3>3
      DEF PagesInv, OnlyForward, NoneSkipped, TwiceOnlyIfMined, PageFits, FailsOnlyByWrap
  <2>5. QED
    BY <2>1, <2>2, <2>3, <2>4 DEF Next
<1>2. QED
  BY <1>1, Initially, PTL DEF Spec

\* A walk never goes back, whatever changes meanwhile.
THEOREM WalksForward == Spec => []OnlyForward
  BY PagesInvHolds, PTL DEF PagesInv

\* What was in a list when the walk began, and stayed, is listed by its end.
THEOREM WalkIsComplete == Spec => []NoneSkipped
  BY PagesInvHolds, PTL DEF PagesInv

\* What the mempool put on the first page is a row of another only if it was mined
\* between the two readings for that page.
THEOREM ListedOnce == Spec => []TwiceOnlyIfMined
  BY PagesInvHolds, PTL DEF PagesInv

\* A page has no more than the limit, unless the mempool alone has more.
THEOREM PagesFit == Spec => []PageFits
  BY PagesInvHolds, PTL DEF PagesInv

\* Only a mempool that has two more than the first page takes fails a walk.
THEOREM OnlyWrapFails == Spec => []FailsOnlyByWrap
  BY PagesInvHolds, PTL DEF PagesInv

\* Every further token that a client gets lies behind the one it came with.
TokenAdvances ==
  phase = "merging" /\ phase' = "asking" /\ token # None /\ limit > 0 =>
    Before(token, token')

\* The walk makes progress with every page but the last: a reader never answers with
\* the token it was asked with, whatever was added, removed or revalued in between,
\* unless the limit is 0.
THEOREM TokensAdvance == Spec => [][TokenAdvances]_vars
<1>1. PagesInv /\ [Next]_vars => [TokenAdvances]_vars
  <2> SUFFICES ASSUME PagesInv, [Next]_vars, phase = "merging", phase' = "asking",
                      token # None, limit > 0
               PROVE  Before(token, token')
    BY DEF TokenAdvances
  <2> DEFINE asked == (room + 1) % Width
             found == Matching(list, group, rows, token)
             last == Last(list, found, asked)
  <2>1. ReadPage
    <3>1. ~(AskMempool \/ Skip \/ Full \/ Fail)
      BY DEF AskMempool, Skip, Full, Fail
    <3>2. ~UNCHANGED phase
      OBVIOUS
    <3>3. QED
      BY <3>1, <3>2
      DEF Next, Answers, Add, Mine, Pend, Drop, Remove, Change, vars, walk
  <2>2. last # {} /\ token' = NextToken(last)
    BY <2>1 DEF ReadPage
  <2>3. /\ list \in Kinds /\ limit \in Nat /\ token \in Sites /\ ~token.any
        /\ rows \subseteq RowType /\ room = limit
    BY NoneIsNoSite DEF PagesInv, TypeInv, PhaseInv, Table
  <2>4. asked = room + 1
    BY <2>3, Asked DEF PagesInv
  <2>5. /\ Table(found) /\ found \subseteq rows
        /\ list # "rewards" => \A r \in found : ~Before(Place(list, r), token)
        /\ list = "rewards" => Offset \in Nat
    BY FoundRows DEF PagesInv
  <2>6. PICK x \in found : last = {x} /\ Rank(list, found, x) = room
    BY <2>2, <2>3, <2>4, <2>5, PageRows
  <2>7. CASE list = "rewards"
    <3>1. token' = At(token.a + room, 0) /\ token.a \in Nat
      BY <2>2, <2>3, <2>5, <2>7 DEF NextToken, Offset
    <3>2. QED
      BY <2>3, <3>1 DEF Before, At
  <2>8. CASE list # "rewards"
    <3>1. token' = Place(list, x)
      BY <2>2, <2>6, <2>8 DEF NextToken
    <3>2. PICK q \in found : Before(Place(list, q), Place(list, x))
      <4>1. Cardinality(Ahead(list, found, x)) > 0
        BY <2>3, <2>6 DEF Rank
      <4>2. Ahead(list, found, x) # {}
        <5>1. Cardinality({}) = 0
          BY FS_EmptySet
        <5> HIDE DEF found
        <5>2. QED
          BY <4>1, <5>1
      <4>3. QED
        BY <4>2 DEF Ahead
    <3>3. Place(list, q) \in Sites /\ Place(list, x) \in Sites /\ token \in Sites
      BY <2>3, <2>5, Placed
    <3>4. token = Place(list, q) \/ Before(token, Place(list, q))
      BY <2>5, <2>8, <3>3, SitesOrdered
    <3>5. QED
      BY <3>1, <3>2, <3>3, <3>4, SitesOrdered
  <2>9. QED
    BY <2>7, <2>8
<1>2. QED
  BY <1>1, PagesInvHolds, PTL DEF Spec

--------------------------------------------------------------------------------
(* Types.                                                                  *)

RowOK(l, n, r) ==
  /\ r.name \in Names /\ r.id \in 1..n
  /\ r.value \in ValuesOf(l) /\ r.group \in GroupsOf(l)

LEMMA RowsAtFirst ==
  ASSUME Init PROVE \A r \in rows : RowOK(list, lastId, r)
<1>1. PICK names \in Starts :
        \E id \in [names -> 1..lastId], value \in [names -> ValuesOf(list)],
           of \in [names -> GroupsOf(list)] :
          rows = {[name |-> n, id |-> id[n], value |-> value[n],
                   group |-> of[n]] : n \in names}
  BY DEF Init
<1>2. PICK id \in [names -> 1..lastId], value \in [names -> ValuesOf(list)],
           of \in [names -> GroupsOf(list)] :
        rows = {[name |-> n, id |-> id[n], value |-> value[n],
                 group |-> of[n]] : n \in names}
  BY <1>1
<1>3. names \subseteq Names
  BY <1>1, PagesAssumption
<1>4. QED
  BY <1>2, <1>3 DEF RowOK

\* Whatever the indexer does to the table leaves its rows in order.
LEMMA RowsChanged ==
  ASSUME TypeInv, TypeOK, UNCHANGED request,
         \/ \E n \in Names : Add(n) \/ Mine(n) \/ Pend(n) \/ Drop(n)
         \/ \E r \in rows : Remove(r) \/ \E v \in ValuesOf(list) : Change(r, v)
  PROVE  /\ lastId' \in Nat /\ lastId <= lastId'
         /\ \A r \in rows' : RowOK(list, lastId', r)
         /\ pending' \subseteq Names /\ stood' \subseteq Names /\ meanwhile' \subseteq Names
         /\ UNCHANGED walk
<1>1. \A r \in rows : RowOK(list, lastId, r)
  BY DEF TypeOK, RowOK
<1>2. \A r \in rows : RowOK(list, lastId + 1, r)
  BY <1>1 DEF RowOK, TypeOK
<1>3. ASSUME NEW n \in Names, NEW v \in ValuesOf(list)
      PROVE  RowOK(list, lastId + 1, NewRow(n, v))
  BY <1>3 DEF RowOK, NewRow, TypeOK
<1>4. ASSUME NEW n \in Names, Add(n) \/ Mine(n) \/ Pend(n) \/ Drop(n)
      PROVE  /\ lastId' \in Nat /\ lastId <= lastId'
             /\ \A r \in rows' : RowOK(list, lastId', r)
             /\ pending' \subseteq Names /\ stood' \subseteq Names /\ meanwhile' \subseteq Names
             /\ UNCHANGED walk
  <2>1. CASE Add(n)
    BY <2>1, <1>2, <1>3 DEF Add, TypeOK
  <2>2. CASE Mine(n)
    <3>1. 0 \in ValuesOf(list)
      BY <2>2 DEF Mine, TypeInv, Merged, ValuesOf
    <3>2. QED
      BY <2>2, <3>1, <1>2, <1>3 DEF Mine, TypeOK
  <2>3. CASE Pend(n)
    BY <2>3, <1>1 DEF Pend, TypeOK, history
  <2>4. CASE Drop(n)
    BY <2>4, <1>1 DEF Drop, TypeOK
  <2>5. QED
    BY <1>4, <2>1, <2>2, <2>3, <2>4
<1>5. ASSUME NEW r \in rows, NEW v \in ValuesOf(list), Change(r, v)
      PROVE  /\ lastId' = lastId /\ pending' = pending /\ meanwhile' = meanwhile
             /\ stood' \subseteq stood /\ UNCHANGED walk
             /\ \A q \in rows' : RowOK(list, lastId, q)
  <2>1. r \in RowType
    BY DEF TypeInv, Table
  <2>2. RowOK(list, lastId, [r EXCEPT !.value = v])
    BY <1>1, <2>1 DEF RowOK, RowType
  <2>3. rows' = (rows \ {r}) \cup {[r EXCEPT !.value = v]}
    BY <1>5 DEF Change
  <2>4. QED
    BY <1>1, <1>5, <2>2, <2>3 DEF Change
<1>6. ASSUME NEW r \in rows, Remove(r)
      PROVE  /\ lastId' = lastId /\ pending' = pending /\ meanwhile' = meanwhile
             /\ stood' \subseteq stood /\ UNCHANGED walk
             /\ \A q \in rows' : RowOK(list, lastId, q)
  BY <1>1, <1>6 DEF Remove
<1>7. lastId <= lastId
  BY DEF TypeOK
<1>8. QED
  BY <1>4, <1>5, <1>6, <1>7 DEF TypeOK

\* What a page takes are rows of the table.
LEMMA PageFromTable ==
  ASSUME PagesInv, ReadPage
  PROVE  page' \subseteq rows
<1>1. Matching(list, group, rows, token) \subseteq rows
  BY FoundRows DEF PagesInv
<1>2. page' \subseteq Matching(list, group, rows, token)
  BY DEF ReadPage, Taken
<1>3. QED
  BY <1>1, <1>2

\* What counts, ids, tokens and rows are, for every reader's list.
THEOREM TypeCorrect == Spec => []TypeOK
<1>1. Init => TypeOK
  <2> SUFFICES ASSUME Init PROVE TypeOK
    OBVIOUS
  <2>1. /\ list \in Lists /\ limit \in Limits /\ group \in GroupsOf(list)
        /\ pending \subseteq Names /\ phase = "asking" /\ token = None /\ room = 0
        /\ first = {} /\ page = {} /\ listed = {} /\ meanwhile = {}
        /\ stood = pending \cup NamesOf({r \in rows : r.group = group})
    BY DEF Init
  <2>2. \A r \in rows : RowOK(list, lastId, r)
    BY RowsAtFirst
  <2>3. stood \subseteq Names
    BY <2>1, <2>2 DEF NamesOf, RowOK
  <2>4. lastId \in Nat
    BY Initially DEF PagesInv, TypeInv
  <2>5. room \in 0..(Width - 1)
    BY <2>1, PagesAssumption
  <2>6. QED
    BY <2>1, <2>2, <2>3, <2>4, <2>5 DEF TypeOK, RowOK
<1>2. PagesInv /\ PagesInv' /\ TypeOK /\ [Next]_vars => TypeOK'
  <2> SUFFICES ASSUME PagesInv, PagesInv', TypeOK, [Next]_vars PROVE TypeOK'
    OBVIOUS
  <2>1. TypeInv /\ TypeInv'
    BY DEF PagesInv
  <2>2. \A r \in rows \cup page \cup listed : RowOK(list, lastId, r)
    BY DEF TypeOK, RowOK
  <2>3. /\ phase' \in {"asking", "merging", "walked", "failed"}
        /\ token' = None \/ token' \in [a : Int, b : Int, any : {FALSE}]
        /\ lastId' \in Nat /\ first' \subseteq Names
    BY <2>1 DEF TypeInv, Sites
  <2>4. CASE Answers
    <3>1. /\ UNCHANGED request /\ UNCHANGED table /\ meanwhile' = meanwhile
          /\ stood' \subseteq stood /\ page' \subseteq rows \cup page
          /\ listed' \subseteq listed \cup page
      BY <2>4, PageFromTable DEF Answers, AskMempool, Skip, Full, Fail, ReadPage, history
    <3>2. room' \in 0..(Width - 1)
      <4>1. CASE AskMempool
        <5>1. PICK m \in SUBSET pending : room' = Room(m)
          BY <4>1 DEF AskMempool
        <5>2. Cardinality(m) \in Nat /\ limit \in Nat /\ Width \in Nat \ {0}
          <6>1. m \in SUBSET Names
            BY <2>1 DEF TypeInv
          <6>2. QED
            BY <2>1, <6>1, CountType, PagesAssumption DEF TypeInv
        <5>3. QED
          BY <5>1, <5>2 DEF Room
      <4>2. CASE Skip
        <5>1. room' = limit /\ limit \in Nat /\ limit + 1 < Width \div 2 /\ Width \in Nat \ {0}
          BY <2>1, <4>2, PagesAssumption DEF Skip, TypeInv
        <5>2. QED
          BY <5>1
      <4>3. CASE Full \/ Fail \/ ReadPage
        BY <4>3 DEF Full, Fail, ReadPage, TypeOK
      <4>4. QED
        BY <2>4, <4>1, <4>2, <4>3 DEF Answers
    <3>3. /\ list' = list /\ limit' = limit /\ group' = group
          /\ rows' = rows /\ lastId' = lastId /\ pending' = pending
      BY <3>1 DEF request, table
    <3>4. \A r \in rows' \cup page' \cup listed' : RowOK(list, lastId, r)
      BY <2>2, <3>1, <3>3
    <3>5. QED
      BY <2>3, <3>1, <3>2, <3>3, <3>4 DEF TypeOK, RowOK, ValuesOf, GroupsOf
  <2>5. CASE \/ \E n \in Names : Add(n) \/ Mine(n) \/ Pend(n) \/ Drop(n)
             \/ \E r \in rows : Remove(r) \/ \E v \in ValuesOf(list) : Change(r, v)
    <3>1. UNCHANGED request
      BY <2>5 DEF Add, Mine, Pend, Drop, Remove, Change
    <3>2. /\ lastId' \in Nat /\ lastId <= lastId'
          /\ \A r \in rows' : RowOK(list, lastId', r)
          /\ pending' \subseteq Names /\ stood' \subseteq Names /\ meanwhile' \subseteq Names
          /\ UNCHANGED walk
      BY <2>1, <2>5, <3>1, RowsChanged
    <3>3. /\ list' = list /\ limit' = limit /\ group' = group
          /\ page' = page /\ listed' = listed /\ room' = room
      BY <3>1, <3>2 DEF request, walk
    <3>4. 1..lastId \subseteq 1..lastId'
      BY <3>2 DEF TypeOK
    <3>5. \A r \in rows' \cup page' \cup listed' : RowOK(list, lastId', r)
      BY <2>2, <3>2, <3>3, <3>4 DEF RowOK
    <3>6. QED
      BY <2>3, <3>2, <3>3, <3>5 DEF TypeOK, RowOK, ValuesOf, GroupsOf
  <2>6. CASE UNCHANGED vars
    <3>1. UNCHANGED <<list, limit, group, rows, lastId, pending, phase, token, room, first,
                      page, listed, stood, meanwhile>>
      BY <2>6 DEF vars, request, table, walk, history
    <3>2. QED
      BY <3>1 DEF TypeOK, ValuesOf, GroupsOf
  <2>7. QED
    BY <2>4, <2>5, <2>6 DEF Next
<1>3. QED
  BY <1>1, <1>2, PagesInvHolds, PTL DEF Spec

================================================================================
