----------------------------------- MODULE Api -----------------------------------
(***************************************************************************)
(* A request on its way through the program: the handler reads the         *)
(* parameters, the service asks its sources, the cached accessor looks the *)
(* answer up or has a reader query the database, and what was read is      *)
(* kept, an error as well as data, and answered.                           *)
(*                                                                         *)
(* Which parameters, sources, keys and queries belong to a method comes    *)
(* from the tables of Handlers, Services, Caches and Readers.  The model   *)
(* follows arguments by position from layer to layer, as the code passes   *)
(* them.  A value is one of a few tokens; data is abstracted to the        *)
(* arguments it was read for.                                              *)
(*                                                                         *)
(* One request is served at a time, and one item is kept: what requests do *)
(* to each other at the same time is the subject of CachedAccessor and     *)
(* PageCache.  Caches of other names than the item's are empty for a       *)
(* request, so after an item is kept only those that look into its cache   *)
(* arrive (ItemBound).                                                     *)
(***************************************************************************)
EXTENDS Integers, Sequences, FiniteSets

CONSTANTS
  Handler,   \* parameters the handler of each method passes on, in order
  Program,   \* the steps of the methods that do not just ask the database
  Client,    \* arguments of the methods of other sources, in order
  Cached,    \* the methods of the cached accessor
  Read       \* the readers of the database

VARIABLES
  pc,        \* where the request is
  to,        \* the method its handler calls
  val,       \* the values of its parameters
  step,      \* how many steps of the program are done
  got,       \* the values of the arguments the accessor got
  query,     \* how many queries of the reader are done
  held,      \* connections to the database the request holds
  part,      \* what the current step has read
  answer,    \* what the steps done have read
  failed,    \* history: what has failed for the request
  item,      \* the item some cache keeps
  reply      \* the last reply

request == <<to, val>>
progress == <<step, got, query>>
vars == <<pc, request, progress, held, part, answer, failed, item, reply>>

Values == {"a", "b", "bad", "none"}

\* Parameters that are pointers where a key is printed, so that the key shows
\* an address: "none" is nil, and any two others may print alike or not.
Pointers == {"token", "sortBy", "rowLimit"}
\* Arguments that do not come from the request.  The time never repeats.
Given == {"frozen", "afterTime", "epochBefore"}
\* Parameters the handlers refuse when they cannot be read.
Numbers == {"epoch", "limit", "upgrade", "name", "data"}

NamesIn(args) == {args[i] : i \in 1..Len(args)}
Params(m) == NamesIn(Handler[m]) \ Given
Usual(p) == IF p \in Pointers THEN "none" ELSE "a"

\* A request as it may arrive: at most one parameter is not the usual one.
Requests(m) ==
  LET usual == [p \in Params(m) |-> Usual(p)]
  IN {usual} \cup
     {[usual EXCEPT ![p] = v] : p \in Params(m), v \in {"a", "b", "bad"}}

Steps(m) ==
  IF m \in DOMAIN Program THEN Program[m]
  ELSE <<[duty |-> "must", from |-> "db", method |-> m, args |-> Handler[m]]>>
Current == Steps(to)[step + 1]
ValueOf(p) == IF p \in DOMAIN val THEN val[p] ELSE "a"

\* The arguments of the method a step asks, in order.
Formals(s) ==
  IF s.from = "db" THEN Cached[s.method].formals
  ELSE IF s.method \in DOMAIN Client THEN Client[s.method]
  ELSE s.args

\* The values of actual arguments under the names of formal ones.
Bind(formals, values) ==
  [p \in NamesIn(formals) |->
     LET i == CHOOSE j \in 1..Len(formals) : formals[j] = p IN values[i]]
ArgValues(args) == [i \in 1..Len(args) |-> ValueOf(args[i])]

Datum(from, method, bound) == [from |-> from, method |-> method, bound |-> bound]
Nothing == [err |-> FALSE, data |-> {}]
Failure == [err |-> TRUE, data |-> {}]
With(p, datum) == [err |-> p.err, data |-> p.data \cup {datum}]

\* A program has finitely many steps; what it may do without is the mempool and
\* the change log, and a method that falls back on the mempool for the one row it
\* reads is all of its program.
ASSUME ProgramAssumption ==
  \A m \in DOMAIN Handler :
    /\ Len(Steps(m)) \in Nat
    /\ \A i \in 1..Len(Steps(m)) :
         LET s == Steps(m)[i] IN
         /\ s.duty = "may" => s.from \in {"mempool", "contractsMempool", "changeLog"}
         /\ s.from = "db" /\ Cached[s.method].fallback # "" =>
              Len(Steps(m)) = 1 /\ Len(Read[s.method].queries) = 1

\* Only the two methods that list the mempool cannot do without it.
ListsMempool == {"MemPoolTxs", "MemPoolTxsCount"}
Mempools == {"mempool", "contractsMempool"}
ASSUME MempoolAssumption ==
  \A m \in DOMAIN Handler \ ListsMempool : \A i \in 1..Len(Steps(m)) :
    Steps(m)[i].from \in Mempools => Steps(m)[i].duty = "may"

\* The cached accessor has the arguments of its reader in the same order.  No two
\* methods share a cache, and a key has every argument that comes with a request.
ASSUME CacheAssumption ==
  \A m \in DOMAIN Cached :
    LET row == Cached[m] IN
    /\ m \in DOMAIN Read
    /\ row.formals = Read[m].formals
    /\ Len(Read[m].queries) \in Nat
    /\ \A k \in 1..Len(Read[m].queries) :
         NamesIn(Read[m].queries[k].args) \subseteq NamesIn(row.formals)
    /\ NamesIn(row.key) \subseteq NamesIn(row.formals)
    /\ row.cache # "" =>
         /\ NamesIn(row.formals) \ Given \subseteq NamesIn(row.key)
         /\ \A n \in DOMAIN Cached : Cached[n].cache = row.cache => n = m

\* A parameter of a request stands where the method asked has the argument of
\* that name.
ASSUME CallAssumption ==
  \A m \in DOMAIN Handler : \A i \in 1..Len(Steps(m)) :
    LET s == Steps(m)[i] IN
    /\ s.from = "db" => s.method \in DOMAIN Cached
    /\ 1..Len(Formals(s)) \subseteq 1..Len(s.args)
    /\ \A j \in 1..Len(Formals(s)) :
         Formals(s)[j] \in Params(m) => s.args[j] = Formals(s)[j]

\* Each parameter of a request reaches a source the answer cannot do without: a
\* query that binds it, or another source that is asked with it.
Reaches(s) ==
  IF s.from = "db"
  THEN UNION {NamesIn(Read[s.method].queries[k].args) : k \in 1..Len(Read[s.method].queries)}
  ELSE NamesIn(Formals(s))
ASSUME ParameterAssumption ==
  \A m \in DOMAIN Handler : \A p \in Params(m) :
    \E i \in 1..Len(Steps(m)) : Steps(m)[i].duty # "may" /\ p \in Reaches(Steps(m)[i])

CacheRow == Cached[Current.method]
ReaderRow == Read[Current.method]
NextQuery == ReaderRow.queries[query + 1]

NoItem == [cache |-> "", key |-> <<>>, part |-> Nothing]
NoReply == [err |-> FALSE, data |-> {}, full |-> FALSE]

Init ==
  /\ pc = "idle"
  /\ to = ""
  /\ val = <<>>
  /\ step = 0
  /\ got = <<>>
  /\ query = 0
  /\ held = 0
  /\ part = Nothing
  /\ answer = Nothing
  /\ failed = {}
  /\ item = NoItem
  /\ reply = NoReply

--------------------------------------------------------------------------------
(* The handler and the service.                                            *)

LooksInto(m, cache) ==
  \E i \in 1..Len(Steps(m)) :
     Steps(m)[i].from = "db" /\ Cached[Steps(m)[i].method].cache = cache

ItemBound(m) == item = NoItem \/ LooksInto(m, item.cache)

Arrive(m) ==
  /\ pc = "idle"
  /\ ItemBound(m)
  /\ to' = m
  /\ val' \in Requests(m)
  /\ pc' = "reading"
  /\ UNCHANGED <<progress, held, part, answer, failed, item, reply>>

ForgetStep == got' = <<>> /\ query' = 0 /\ part' = Nothing

\* WriteErrorResponse, WriteResponse and WriteResponsePage: the part is what is
\* answered, full tells that no step was passed over.
Reply(p, full) ==
  /\ reply' = [err |-> p.err, data |-> p.data, full |-> full]
  /\ pc' = "answered"
  /\ answer' = Nothing
  /\ step' = 0
  /\ ForgetStep

NumbersRead == \A p \in DOMAIN val \cap Numbers : val[p] # "bad"

Refuse ==
  /\ pc = "reading"
  /\ ~NumbersRead
  /\ failed' = {"params"}
  /\ Reply(Failure, FALSE)
  /\ UNCHANGED <<request, held, item>>

\* A variant that passes on what could not be read.
ServeUnread ==
  /\ pc = "reading"
  /\ pc' = "serving"
  /\ UNCHANGED <<request, progress, held, part, answer, failed, item, reply>>

Serve ==
  /\ pc = "reading"
  /\ NumbersRead
  /\ pc' = "serving"
  /\ UNCHANGED <<request, progress, held, part, answer, failed, item, reply>>

More == pc = "serving" /\ step < Len(Steps(to))

\* A source other than the database answers.
AskOther ==
  /\ More
  /\ Current.from # "db"
  /\ answer' = With(answer, Datum(Current.from, Current.method,
                                  Bind(Formals(Current), ArgValues(Current.args))))
  /\ step' = step + 1
  /\ UNCHANGED <<pc, request, got, query, held, part, failed, item, reply>>

\* Variants that pass over every step that fails, and over none.
OtherSkipped ==
  /\ More
  /\ Current.from # "db"
  /\ failed' = failed \cup {Current.from}
  /\ step' = step + 1
  /\ UNCHANGED <<pc, request, got, query, held, part, answer, item, reply>>

OtherFatal ==
  /\ More
  /\ Current.from # "db"
  /\ failed' = failed \cup {Current.from}
  /\ Reply(Failure, FALSE)
  /\ UNCHANGED <<request, held, item>>

\* It fails: a step that may fail is passed over.
OtherFails ==
  /\ More
  /\ Current.from # "db"
  /\ failed' = failed \cup {Current.from}
  /\ IF Current.duty = "may"
     THEN step' = step + 1 /\ UNCHANGED <<pc, got, query, part, answer, reply>>
     ELSE Reply(Failure, FALSE)
  /\ UNCHANGED <<request, held, item>>

\* A step is not called for: nothing is left to ask for, or the page is not the
\* first one.
PassOver ==
  /\ More
  /\ \/ Current.duty = "rest" /\ Reply(answer, FALSE)
     \/ /\ Current.duty = "may"
        /\ step' = step + 1
        /\ UNCHANGED <<pc, got, query, part, answer, reply>>
  /\ UNCHANGED <<request, held, failed, item>>

Answer ==
  /\ pc = "serving"
  /\ step = Len(Steps(to))
  /\ Reply(answer, TRUE)
  /\ UNCHANGED <<request, held, failed, item>>

\* The handler returns.
Done ==
  /\ pc = "answered"
  /\ pc' = "idle"
  /\ to' = ""
  /\ val' = <<>>
  /\ failed' = {}
  /\ reply' = NoReply
  /\ UNCHANGED <<progress, held, part, answer, item>>

--------------------------------------------------------------------------------
(* The cached accessor: getOrLoad and getOrLoadWithConToken.               *)

AskDb ==
  /\ More
  /\ Current.from = "db"
  /\ got' = Bind(Formals(Current), ArgValues(Current.args))
  /\ part' = Nothing
  /\ query' = 0
  /\ pc' = IF CacheRow.cache = "" THEN "checking" ELSE "looking"
  /\ UNCHANGED <<request, step, held, answer, failed, item, reply>>

KeyOf(row, bound) == [i \in 1..Len(row.key) |-> bound[row.key[i]]]

\* Keys that print alike: for certain, or if an address is used again.
Alike(row, k, l) ==
  \A i \in 1..Len(row.key) :
     /\ row.key[i] # "afterTime"
     /\ IF row.key[i] \in Pointers
        THEN k[i] = "none" <=> l[i] = "none"
        ELSE k[i] = l[i]
ByAddress(row, k) ==
  \E i \in 1..Len(row.key) : row.key[i] \in Pointers /\ k[i] # "none"

\* A variant that does not compare keys.
FoundByName == item.cache = CacheRow.cache

Found == item.cache = CacheRow.cache /\ Alike(CacheRow, KeyOf(CacheRow, got), item.key)

\* What is done with the part of a step: an error fails the method.
Finish(p) ==
  IF p.err THEN Reply(p, FALSE)
  ELSE /\ answer' = [err |-> FALSE, data |-> answer.data \cup p.data]
       /\ step' = step + 1
       /\ pc' = "serving"
       /\ ForgetStep
       /\ UNCHANGED reply

Hit ==
  /\ pc = "looking"
  /\ Found
  /\ Finish(item.part)
  /\ failed' = IF item.part.err THEN failed \cup {"kept"} ELSE failed
  /\ UNCHANGED <<request, held, item>>

Miss ==
  /\ pc = "looking"
  /\ ~Found \/ ByAddress(CacheRow, KeyOf(CacheRow, got))
  /\ pc' = "checking"
  /\ UNCHANGED <<request, progress, held, part, answer, failed, item, reply>>

\* Set keeps the item, or the method has no cache, or it is gone soon.
Keep ==
  /\ pc = "keeping"
  /\ \/ /\ CacheRow.cache # ""
        /\ item' = [cache |-> CacheRow.cache, key |-> KeyOf(CacheRow, got), part |-> part]
     \/ item' = item
  /\ Finish(part)
  /\ UNCHANGED <<request, held, failed>>

\* The item expires, is purged or flushed.
Forget ==
  /\ item # NoItem
  /\ pc \in {"idle", "looking"}
  /\ item' = NoItem
  /\ UNCHANGED <<pc, request, progress, held, part, answer, failed, reply>>

--------------------------------------------------------------------------------
(* The reader.                                                             *)

\* Arguments are checked before a connection is taken.
Check ==
  /\ pc = "checking"
  /\ IF \E p \in ReaderRow.checked : got[p] = "bad"
     THEN part' = Failure /\ failed' = failed \cup {"params"} /\ pc' = "keeping"
     ELSE pc' = "querying" /\ UNCHANGED <<part, failed>>
  /\ UNCHANGED <<request, progress, held, answer, item, reply>>

\* What a query tells: the arguments bound to it.
QueryDatum ==
  Datum("db", Current.method,
        [p \in NamesIn(NextQuery.args) |-> got[p]])

MoreQueries == pc = "querying" /\ query < Len(ReaderRow.queries)

\* db.Query and db.QueryRow take a connection of the pool.
QueryDb ==
  /\ MoreQueries
  /\ held' = held + 1
  /\ pc' = "scanning"
  /\ UNCHANGED <<request, progress, part, answer, failed, item, reply>>

\* A variant whose rows are never closed.
Leak == held' = held

\* Rows are closed, or scanned to the end, and the connection goes back.
Release == held' = held - 1

ScanEnds ==
  /\ pc = "scanning"
  /\ part' = With(part, QueryDatum)
  /\ query' = query + 1
  /\ pc' = "querying"
  /\ Release
  /\ UNCHANGED <<request, step, got, answer, failed, item, reply>>

\* The query or the scan of a row fails; a single row may also be missing, and
\* then the mempool may be asked.
ScanFails ==
  /\ pc = "scanning"
  /\ part' = Failure
  /\ failed' = failed \cup {"db"}
  /\ pc' \in IF NextQuery.kind = "row" /\ CacheRow.fallback # ""
             THEN {"keeping", "fallingBack"} ELSE {"keeping"}
  /\ Release
  /\ UNCHANGED <<request, progress, answer, item, reply>>

\* The connection breaks while rows are read: Next returns false as it does
\* after the last row, and no reader asks rows.Err() why.
ScanBreaks ==
  /\ pc = "scanning"
  /\ NextQuery.kind # "row"
  /\ part' = With(part, QueryDatum)
  /\ failed' = failed \cup {"scan"}
  /\ query' = query + 1
  /\ pc' = "querying"
  /\ Release
  /\ UNCHANGED <<request, step, got, answer, item, reply>>

ReadEnds ==
  /\ pc = "querying"
  /\ query = Len(ReaderRow.queries)
  /\ pc' = "keeping"
  /\ UNCHANGED <<request, progress, held, part, answer, failed, item, reply>>

\* Transaction and TransactionRaw look into the mempool for what is missing.
FallBack ==
  /\ pc = "fallingBack"
  /\ \/ /\ part' = With(Nothing, Datum("mempool", CacheRow.fallback, got))
        /\ UNCHANGED failed
     \/ failed' = failed \cup {"mempool"} /\ UNCHANGED part
  /\ pc' = "keeping"
  /\ UNCHANGED <<request, progress, held, answer, item, reply>>

Next ==
  \/ \E m \in DOMAIN Handler : Arrive(m)
  \/ Refuse \/ Serve \/ AskOther \/ OtherFails \/ PassOver \/ Answer \/ Done
  \/ AskDb \/ Hit \/ Miss \/ Keep \/ Forget
  \/ Check \/ QueryDb \/ ScanEnds \/ ScanFails \/ ScanBreaks \/ ReadEnds
  \/ FallBack

Spec == Init /\ [][Next]_vars

--------------------------------------------------------------------------------
(* Properties.                                                             *)

Asked == \E p \in DOMAIN val \cap Pointers : val[p] # "none"

\* An answer is the request's own: whatever it was put together from was read
\* for the values of this request, whichever parameter of another request the
\* cached answer was read for, and none of its parameters was ignored unless
\* a step was passed over.  Keys with addresses in them are excepted: see
\* PageCache.  (The handlers, the copied methods of the cached accessor and the
\* readers pass arguments by position, and name each cache and key by hand.)
OwnAnswer ==
  pc = "answered" /\ ~reply.err /\ ~Asked =>
    /\ \A d \in reply.data : \A p \in DOMAIN d.bound \cap DOMAIN val :
         d.bound[p] = val[p]
    /\ reply.full => \A p \in DOMAIN val : \E d \in reply.data : p \in DOMAIN d.bound

\* A mempool that fails does not fail a request that the database can answer: only
\* one of the two methods that list the mempool itself.
MempoolNeverFatal ==
  pc = "answered" /\ reply.err /\ to \notin ListsMempool => failed \ Mempools # {}

\* A request whose numbers cannot be read, or whose limit is too large, is
\* answered at once: neither a cache nor a source ever sees it.
BadNumbersReachNothing == ~NumbersRead => pc \in {"reading", "answered"} /\ reply.data = {}

\* A request holds one connection at most, and only while it scans what a query
\* returned: with a pool of connections that all requests share, none waits
\* for a connection while it holds another (SetMaxOpenConns).
OneConnection == held = (IF pc = "scanning" THEN 1 ELSE 0)

\* An answer without an error was read without a failure, except for what the
\* answer can do without, and for a transaction that the mempool had when the
\* database did not.  (A scan that breaks is answered as if it had ended.)
FailuresAreErrors ==
  pc = "answered" /\ ~reply.err =>
    \/ failed \subseteq {"mempool", "contractsMempool", "changeLog", "scan"}
    \/ failed = {"db"} /\ \E d \in reply.data : d.from = "mempool"

================================================================================
