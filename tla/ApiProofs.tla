-------------------------------- MODULE ApiProofs --------------------------------
(***************************************************************************)
(* Theorems about Api, for all tables of methods that ProgramAssumption    *)
(* allows.                                                                 *)
(***************************************************************************)
EXTENDS Api, TLAPS

--------------------------------------------------------------------------------
(* Connections.                                                            *)

\* A request holds a connection just while it scans.
THEOREM OneConnectionHeld == Spec => []OneConnection
<1>1. Init => OneConnection
  BY DEF Init, OneConnection
<1>2. OneConnection /\ [Next]_vars => OneConnection'
  <2> SUFFICES ASSUME OneConnection, [Next]_vars PROVE OneConnection'
    OBVIOUS
  <2> USE DEF OneConnection
  <2>1. ASSUME NEW m \in DOMAIN Handler, Arrive(m) PROVE OneConnection'
    BY <2>1 DEF Arrive
  <2>2. CASE Refuse \/ Serve \/ Answer \/ Done
    BY <2>2 DEF Refuse, Serve, Answer, Done, Reply
  <2>3. CASE AskOther \/ OtherFails \/ PassOver
    BY <2>3 DEF AskOther, OtherFails, PassOver, More, Reply
  <2>4. CASE AskDb \/ Miss \/ Forget
    BY <2>4 DEF AskDb, Miss, Forget, More
  <2>5. CASE Hit
    BY <2>5 DEF Hit, Finish, Reply
  <2>6. CASE Keep
    BY <2>6 DEF Keep, Finish, Reply
  <2>7. CASE Check \/ ReadEnds \/ FallBack
    BY <2>7 DEF Check, ReadEnds, FallBack
  <2>8. CASE QueryDb
    BY <2>8 DEF QueryDb, MoreQueries
  <2>9. CASE ScanEnds \/ ScanFails \/ ScanBreaks
    <3>1. pc = "scanning" /\ held' = held - 1 /\ pc' \in {"querying", "keeping", "fallingBack"}
      BY <2>9 DEF ScanEnds, ScanFails, ScanBreaks, Release
    <3>2. held = 1
      BY <3>1
    <3>3. held' = 0
      BY <3>1, <3>2
    <3>4. QED
      BY <3>1, <3>3
  <2>10. CASE UNCHANGED vars
    BY <2>10 DEF vars
  <2>11. QED
    BY <2>1, <2>2, <2>3, <2>4, <2>5, <2>6, <2>7, <2>8, <2>9, <2>10 DEF Next
<1>3. QED
  BY <1>1, <1>2, PTL DEF Spec

--------------------------------------------------------------------------------
(* Parameters.                                                             *)

LEMMA NoDomain == \A p : p \notin DOMAIN <<>>
  OBVIOUS

\* An idle server has no values, and only an answered request has a reply.
UnreadInv ==
  /\ pc = "idle" => val = <<>>
  /\ pc # "answered" => reply = NoReply
  /\ BadNumbersReachNothing

\* A request whose numbers cannot be read goes no further than its handler.
THEOREM BadNumbersStop == Spec => []BadNumbersReachNothing
<1>1. Init => UnreadInv
  BY NoDomain DEF Init, UnreadInv, BadNumbersReachNothing, NumbersRead
<1>2. UnreadInv /\ [Next]_vars => UnreadInv'
  <2> SUFFICES ASSUME UnreadInv, [Next]_vars PROVE UnreadInv'
    OBVIOUS
  <2> USE DEF UnreadInv, BadNumbersReachNothing
  <2>1. ASSUME NEW m \in DOMAIN Handler, Arrive(m) PROVE UnreadInv'
    BY <2>1 DEF Arrive, NoReply
  <2>2. CASE Refuse
    BY <2>2 DEF Refuse, Reply, Failure, request, NumbersRead
  <2>3. CASE Serve \/ AskOther
    BY <2>3 DEF Serve, AskOther, request, More, NumbersRead
  <2>4. CASE OtherFails \/ PassOver \/ Answer
    BY <2>4 DEF OtherFails, PassOver, Answer, Reply, request, More, NumbersRead
  <2>5. CASE Done
    BY <2>5, NoDomain DEF Done, NumbersRead, NoReply
  <2>6. CASE AskDb \/ Miss \/ Forget
    BY <2>6 DEF AskDb, Miss, Forget, request, More, NumbersRead
  <2>7. CASE Hit
    BY <2>7 DEF Hit, Finish, Reply, request, NumbersRead
  <2>8. CASE Keep
    BY <2>8 DEF Keep, Finish, Reply, request, NumbersRead
  <2>9. CASE Check \/ QueryDb \/ ScanEnds \/ ScanFails \/ ScanBreaks \/ ReadEnds \/ FallBack
    BY <2>9 DEF Check, QueryDb, ScanEnds, ScanFails, ScanBreaks, ReadEnds, FallBack,
       MoreQueries, request, NumbersRead
  <2>10. CASE UNCHANGED vars
    BY <2>10 DEF vars, request, NumbersRead
  <2>11. QED
    BY <2>1, <2>2, <2>3, <2>4, <2>5, <2>6, <2>7, <2>8, <2>9, <2>10 DEF Next
<1>3. QED
  BY <1>1, <1>2, PTL DEF Spec, UnreadInv

--------------------------------------------------------------------------------
(* Failures.                                                               *)

\* What an answer can do without.
Excused == failed \subseteq {"mempool", "contractsMempool", "changeLog", "scan"}
FromMempool(p) == failed = {"db"} /\ \E d \in p.data : d.from = "mempool"
OneStep == step = 0 /\ Len(Steps(to)) = 1

\* What has failed before each point; nothing, at the first step.
FailureInv ==
  /\ step \in Nat /\ query \in Nat
  /\ pc # "idle" => to \in DOMAIN Handler
  /\ pc \in {"idle", "reading", "answered"} => step = 0 /\ ~answer.err
  /\ pc \in {"idle", "reading"} => failed = {}
  /\ pc = "serving" =>
       /\ ~answer.err
       /\ Excused \/ (FromMempool(answer) /\ step = Len(Steps(to)))
       /\ step = 0 => failed = {}
  /\ pc = "scanning" => query < Len(ReaderRow.queries)
  /\ pc \in {"looking", "checking", "querying", "scanning"} =>
       /\ ~answer.err
       /\ Excused
       /\ step < Len(Steps(to)) /\ Current.from = "db"
       /\ step = 0 /\ query = 0 => failed = {}
  /\ pc = "fallingBack" => ~answer.err /\ failed = {"db"} /\ part.err /\ OneStep
  /\ pc = "keeping" => ~answer.err /\ (part.err \/ Excused \/ (FromMempool(part) /\ OneStep))
  /\ pc = "answered" => reply.err \/ Excused \/ FromMempool(reply)

LEMMA BeforeLast ==
  ASSUME FailureInv, pc # "idle", step < Len(Steps(to))
  PROVE  step \in Nat /\ Len(Steps(to)) \in Nat /\ step # Len(Steps(to))
<1>1. step \in Nat /\ to \in DOMAIN Handler
  BY DEF FailureInv
<1>2. Len(Steps(to)) \in Nat
  BY <1>1, ProgramAssumption
<1>3. QED
  BY <1>1, <1>2

\* The assumption for the step a request is at.
LEMMA AtStep ==
  ASSUME FailureInv, pc # "idle", step < Len(Steps(to))
  PROVE  /\ Current.duty = "may" => Current.from \in {"mempool", "contractsMempool", "changeLog"}
         /\ Current.from = "db" /\ CacheRow.fallback # "" =>
              Len(Steps(to)) = 1 /\ Len(ReaderRow.queries) = 1
<1>1. to \in DOMAIN Handler /\ step \in Nat /\ Len(Steps(to)) \in Nat
  BY ProgramAssumption DEF FailureInv
<1>2. step + 1 \in 1..Len(Steps(to))
  BY <1>1
<1>3. QED
  BY <1>1, <1>2, ProgramAssumption DEF Current, CacheRow, ReaderRow

LEMMA Replied ==
  ASSUME FailureInv, NEW p, NEW full, Reply(p, full), UNCHANGED request, pc # "idle",
         p.err \/ failed' \subseteq {"mempool", "contractsMempool", "changeLog", "scan"}
         \/ (failed' = {"db"} /\ \E d \in p.data : d.from = "mempool")
  PROVE  FailureInv'
<1>1. /\ pc' = "answered" /\ step' = 0 /\ query' = 0 /\ answer' = Nothing
      /\ reply' = [err |-> p.err, data |-> p.data, full |-> full]
      /\ to' = to /\ to \in DOMAIN Handler
  BY DEF Reply, ForgetStep, request, FailureInv
<1>2. ~answer'.err
  BY <1>1 DEF Nothing
<1>3. reply'.err = p.err /\ reply'.data = p.data
  BY <1>1
<1>4. reply'.err \/ Excused' \/ FromMempool(reply)'
  BY <1>3 DEF Excused, FromMempool
<1>5. QED
  BY <1>1, <1>2, <1>4 DEF FailureInv

\* What is done with a part, when the step before left the request in order.
LEMMA PartFinished ==
  ASSUME FailureInv, NEW p, Finish(p), UNCHANGED request, ~answer.err, pc # "idle",
         p.err \/ failed' \subseteq {"mempool", "contractsMempool", "changeLog", "scan"}
         \/ (OneStep /\ failed' = {"db"} /\ \E d \in p.data : d.from = "mempool")
  PROVE  FailureInv'
<1>1. step \in Nat /\ to' = to /\ to \in DOMAIN Handler
  BY DEF FailureInv, request
<1>2. CASE p.err
  BY <1>2, Replied DEF Finish
<1>3. CASE ~p.err
  <2>1. /\ answer' = [err |-> FALSE, data |-> answer.data \cup p.data]
        /\ step' = step + 1 /\ pc' = "serving" /\ query' = 0
    BY <1>3 DEF Finish, ForgetStep
  <2>2. step' \in Nat /\ step' # 0 /\ ~answer'.err /\ p.data \subseteq answer'.data
    BY <1>1, <2>1
  <2>3. OneStep => step' = Len(Steps(to))'
    BY <1>1, <2>1 DEF OneStep, Steps
  <2>4. QED
    BY <1>1, <1>3, <2>1, <2>2, <2>3 DEF FailureInv, Excused, FromMempool
<1>4. QED
  BY <1>2, <1>3

LEMMA FailureInvHolds == Spec => []FailureInv
<1>1. Init => FailureInv
  <2> SUFFICES ASSUME Init PROVE FailureInv
    OBVIOUS
  <2>1. pc = "idle" /\ step = 0 /\ query = 0 /\ answer = Nothing /\ failed = {}
    BY DEF Init
  <2>2. ~answer.err
    BY <2>1 DEF Nothing
  <2>3. QED
    BY <2>1, <2>2 DEF FailureInv
<1>2. FailureInv /\ [Next]_vars => FailureInv'
  <2> SUFFICES ASSUME FailureInv, [Next]_vars PROVE FailureInv'
    OBVIOUS
  <2>1. ASSUME NEW m \in DOMAIN Handler, Arrive(m) PROVE FailureInv'
    BY <2>1 DEF Arrive, progress, FailureInv
  <2>2. CASE Refuse
    <3>1. pc = "reading" /\ Reply(Failure, FALSE) /\ UNCHANGED request /\ Failure.err
      BY <2>2 DEF Refuse, Failure
    <3>2. QED
      BY <3>1, Replied
  <2>3. CASE Serve
    BY <2>3 DEF Serve, request, progress, FailureInv, Excused
  <2>4. CASE AskOther
    BY <2>4 DEF AskOther, More, With, request, FailureInv, Excused, FromMempool
  <2>5. CASE OtherFails
    <3>1. /\ pc = "serving" /\ step < Len(Steps(to)) /\ UNCHANGED request
          /\ failed' = failed \cup {Current.from}
      BY <2>5 DEF OtherFails, More
    <3>2. step \in Nat /\ ~answer.err /\ Excused /\ to' = to /\ to \in DOMAIN Handler
      <4>1. step \in Nat /\ Len(Steps(to)) \in Nat /\ step # Len(Steps(to))
        BY <3>1, BeforeLast
      <4>2. QED
        BY <3>1, <4>1 DEF FailureInv, request
    <3>3. CASE Current.duty = "may"
      <4>1. step' = step + 1 /\ UNCHANGED <<pc, got, query, part, answer, reply>>
        BY <2>5, <3>3 DEF OtherFails
      <4>2. Excused'
        BY <3>1, <3>2, <3>3, AtStep DEF Excused
      <4>3. step' \in Nat /\ step' # 0
        BY <3>2, <4>1
      <4>4. QED
        BY <3>1, <3>2, <4>1, <4>2, <4>3 DEF FailureInv
    <3>4. CASE Current.duty # "may"
      <4>1. Reply(Failure, FALSE) /\ Failure.err
        BY <2>5, <3>4 DEF OtherFails, Failure
      <4>2. QED
        BY <3>1, <4>1, Replied
    <3>5. QED
      BY <3>3, <3>4
  <2>6. CASE PassOver
    <3>1. pc = "serving" /\ step < Len(Steps(to)) /\ UNCHANGED request /\ failed' = failed
      BY <2>6 DEF PassOver, More
    <3>2. step \in Nat /\ ~answer.err /\ Excused /\ to' = to /\ to \in DOMAIN Handler
      <4>1. step \in Nat /\ Len(Steps(to)) \in Nat /\ step # Len(Steps(to))
        BY <3>1, BeforeLast
      <4>2. QED
        BY <3>1, <4>1 DEF FailureInv, request
    <3>3. CASE Reply(answer, FALSE)
      BY <3>1, <3>2, <3>3, Replied DEF Excused
    <3>4. CASE step' = step + 1 /\ UNCHANGED <<pc, got, query, part, answer, reply>>
      <4>1. step' \in Nat /\ step' # 0
        BY <3>2, <3>4
      <4>2. QED
        BY <3>1, <3>2, <3>4, <4>1 DEF FailureInv, Excused
    <3>5. QED
      BY <2>6, <3>3, <3>4 DEF PassOver
  <2>7. CASE Answer
    <3>1. pc = "serving" /\ Reply(answer, TRUE) /\ UNCHANGED request /\ failed' = failed
      BY <2>7 DEF Answer
    <3>2. QED
      BY <3>1, Replied DEF FailureInv, Excused, FromMempool
  <2>8. CASE Done
    BY <2>8 DEF Done, progress, FailureInv
  <2>9. CASE AskDb
    <3>1. /\ pc = "serving" /\ step < Len(Steps(to)) /\ Current.from = "db"
          /\ query' = 0 /\ pc' \in {"checking", "looking"} /\ to' = to /\ step' = step
          /\ answer' = answer /\ failed' = failed
      BY <2>9 DEF AskDb, More, request
    <3>2. /\ step \in Nat /\ step # Len(Steps(to)) /\ to \in DOMAIN Handler
          /\ ~answer.err /\ Excused /\ (step = 0 => failed = {})
      <4>1. step \in Nat /\ Len(Steps(to)) \in Nat /\ step # Len(Steps(to))
        BY <3>1, BeforeLast
      <4>2. QED
        BY <3>1, <4>1 DEF FailureInv
    <3>3. Current' = Current /\ Steps(to)' = Steps(to)
      BY <3>1 DEF Current, Steps
    <3>4. QED
      BY <3>1, <3>2, <3>3 DEF FailureInv, Excused
  <2>10. CASE Hit
    <3>1. /\ pc = "looking" /\ Finish(item.part) /\ UNCHANGED request
          /\ ~item.part.err => failed' = failed
      BY <2>10 DEF Hit
    <3>2. ~answer.err /\ Excused
      BY <3>1 DEF FailureInv
    <3>3. QED
      BY <3>1, <3>2, PartFinished DEF Excused
  <2>11. CASE Miss
    BY <2>11 DEF Miss, request, progress, Current, Steps, FailureInv, Excused
  <2>12. CASE Keep
    <3>1. pc = "keeping" /\ Finish(part) /\ UNCHANGED request /\ failed' = failed
      BY <2>12 DEF Keep
    <3>2. ~answer.err /\ (part.err \/ Excused \/ (FromMempool(part) /\ OneStep))
      BY <3>1 DEF FailureInv
    <3>3. QED
      BY <3>1, <3>2, PartFinished DEF Excused, FromMempool
  <2>13. CASE Forget
    BY <2>13 DEF Forget, request, progress, Current, Steps, FailureInv, Excused
  <2>14. CASE Check
    BY <2>14 DEF Check, Failure, request, progress, Current, Steps, FailureInv, Excused
  <2>15. CASE QueryDb
    BY <2>15 DEF QueryDb, MoreQueries, request, progress, Current, Steps, ReaderRow, FailureInv, Excused
  <2>16. CASE ScanEnds \/ ScanBreaks
    BY <2>16 DEF ScanEnds, ScanBreaks, request, Current, Steps, FailureInv, Excused
  <2>17. CASE ScanFails
    <3>1. /\ pc = "scanning" /\ part' = Failure /\ failed' = failed \cup {"db"}
          /\ pc' = "keeping" \/ (pc' = "fallingBack" /\ CacheRow.fallback # "")
          /\ to' = to /\ step' = step /\ query' = query /\ answer' = answer
      BY <2>17 DEF ScanFails, request, progress
    <3>2. part'.err /\ ~answer.err /\ to \in DOMAIN Handler /\ step \in Nat /\ query \in Nat
      BY <3>1 DEF FailureInv, Failure
    <3>3. CASE pc' = "keeping"
      BY <3>1, <3>2, <3>3 DEF FailureInv
    <3>4. CASE pc' = "fallingBack" /\ CacheRow.fallback # ""
      <4>1. step < Len(Steps(to)) /\ query < Len(ReaderRow.queries) /\ Current.from = "db"
            /\ (step = 0 /\ query = 0 => failed = {})
        BY <3>1 DEF FailureInv
      <4>2. Len(Steps(to)) = 1 /\ Len(ReaderRow.queries) = 1
        BY <3>1, <3>4, <4>1, AtStep
      <4>3. step = 0 /\ query = 0 /\ failed' = {"db"}
        <5>1. step < 1 /\ query < 1
          BY <4>1, <4>2
        <5>2. step = 0 /\ query = 0
          BY <3>2, <5>1
        <5>3. QED
          BY <3>1, <4>1, <5>2
      <4>4. OneStep'
        BY <3>1, <4>2, <4>3 DEF OneStep, Steps
      <4>5. QED
        BY <3>1, <3>2, <3>4, <4>3, <4>4 DEF FailureInv
    <3>5. QED
      BY <3>1, <3>3, <3>4
  <2>18. CASE ReadEnds
    BY <2>18 DEF ReadEnds, request, progress, FailureInv, Excused
  <2>19. CASE FallBack
    <3>1. /\ pc = "fallingBack" /\ pc' = "keeping"
          /\ to' = to /\ step' = step /\ query' = query /\ answer' = answer
      BY <2>19 DEF FallBack, request, progress
    <3>2. /\ ~answer.err /\ failed = {"db"} /\ part.err /\ OneStep'
          /\ to \in DOMAIN Handler /\ step \in Nat /\ query \in Nat
      BY <3>1 DEF FailureInv, OneStep, Steps
    <3>3. part'.err \/ FromMempool(part)'
      <4>1. CASE part' = part
        BY <3>2, <4>1
      <4>2. CASE /\ part' = With(Nothing, Datum("mempool", CacheRow.fallback, got))
                 /\ failed' = failed
        <5>1. Datum("mempool", CacheRow.fallback, got).from = "mempool"
          BY DEF Datum
        <5>2. part'.data = {Datum("mempool", CacheRow.fallback, got)}
          BY <4>2 DEF With, Nothing
        <5>3. QED
          BY <3>2, <4>2, <5>1, <5>2 DEF FromMempool
      <4>3. QED
        BY <2>19, <4>1, <4>2 DEF FallBack
    <3>4. QED
      BY <3>1, <3>2, <3>3 DEF FailureInv
  <2>20. CASE UNCHANGED vars
    BY <2>20 DEF vars, request, progress, Current, Steps, ReaderRow, FailureInv, Excused, FromMempool, OneStep
  <2>21. QED
    BY <2>1, <2>2, <2>3, <2>4, <2>5, <2>6, <2>7, <2>8, <2>9, <2>10, <2>11, <2>12, <2>13,
       <2>14, <2>15, <2>16, <2>17, <2>18, <2>19, <2>20 DEF Next
<1>3. QED
  BY <1>1, <1>2, PTL DEF Spec

\* An answer without an error was read without a failure it needed.
THEOREM FailuresAreTold == Spec => []FailuresAreErrors
<1>1. FailureInv => FailuresAreErrors
  BY DEF FailureInv, FailuresAreErrors, Excused, FromMempool
<1>2. QED
  BY <1>1, FailureInvHolds, PTL

--------------------------------------------------------------------------------
(* The mempools.                                                           *)

\* What has failed when the reader or the request ends with an error.
FatalInv ==
  /\ pc \in {"looking", "checking", "querying", "scanning"} => ~part.err
  /\ pc = "keeping" /\ part.err => failed \ Mempools # {}
  /\ MempoolNeverFatal

\* A step that fails the method when it fails is no mempool's.
LEMMA FatalStep ==
  ASSUME FailureInv, pc # "idle", step < Len(Steps(to)), Current.duty # "may",
         to \notin ListsMempool
  PROVE  Current.from \notin Mempools
<1>1. to \in DOMAIN Handler /\ step \in Nat /\ Len(Steps(to)) \in Nat
  BY ProgramAssumption DEF FailureInv
<1>2. step + 1 \in 1..Len(Steps(to))
  BY <1>1
<1>3. QED
  BY <1>1, <1>2, MempoolAssumption DEF Current

\* A mempool that fails does not fail a request that the database can answer.
THEOREM MempoolIsNeverFatal == Spec => []MempoolNeverFatal
<1> USE DEF FatalInv
<1>1. Init => FatalInv
  BY DEF Init, MempoolNeverFatal
<1>2. FailureInv /\ FatalInv /\ [Next]_vars => FatalInv'
  <2> SUFFICES ASSUME FailureInv, FatalInv, [Next]_vars PROVE FatalInv'
    OBVIOUS
  <2>1. ASSUME NEW m \in DOMAIN Handler, Arrive(m) PROVE FatalInv'
    BY <2>1 DEF Arrive, MempoolNeverFatal
  <2>2. CASE Refuse
    BY <2>2 DEF Refuse, Reply, Failure, MempoolNeverFatal, Mempools
  <2>3. CASE Serve \/ AskOther \/ Done
    BY <2>3 DEF Serve, AskOther, Done, More, MempoolNeverFatal
  <2>4. CASE OtherFails
    <3>1. CASE Current.duty = "may"
      BY <2>4, <3>1 DEF OtherFails, More, MempoolNeverFatal
    <3>2. CASE Current.duty # "may"
      <4>1. pc = "serving" /\ step < Len(Steps(to)) /\ to' = to /\ Current.from \in failed'
        BY <2>4 DEF OtherFails, More, request
      <4>2. to \notin ListsMempool => Current.from \notin Mempools
        BY <3>2, <4>1, FatalStep
      <4>3. pc' = "answered"
        BY <2>4, <3>2 DEF OtherFails, Reply
      <4>4. QED
        BY <4>1, <4>2, <4>3 DEF MempoolNeverFatal
    <3>3. QED
      BY <3>1, <3>2
  <2>5. CASE PassOver \/ Answer
    <3>1. pc = "serving" /\ ~answer.err
      BY <2>5 DEF PassOver, Answer, More, FailureInv
    <3>2. CASE \E full : Reply(answer, full)
      BY <3>1, <3>2 DEF Reply, MempoolNeverFatal
    <3>3. CASE UNCHANGED <<pc, reply>>
      BY <3>1, <3>3 DEF MempoolNeverFatal
    <3>4. QED
      BY <2>5, <3>2, <3>3 DEF PassOver, Answer
  <2>6. CASE AskDb
    BY <2>6 DEF AskDb, More, Nothing, MempoolNeverFatal
  <2>7. CASE Hit
    <3>1. Finish(item.part) /\ to' = to /\ (item.part.err => "kept" \in failed')
      BY <2>7 DEF Hit, request
    <3>2. QED
      BY <3>1 DEF Finish, Reply, MempoolNeverFatal, Mempools
  <2>8. CASE Keep
    <3>1. pc = "keeping" /\ Finish(part) /\ to' = to /\ failed' = failed
      BY <2>8 DEF Keep, request
    <3>2. QED
      BY <3>1 DEF Finish, Reply, MempoolNeverFatal
  <2>9. CASE Miss \/ Forget
    BY <2>9 DEF Miss, Forget, request, progress, MempoolNeverFatal
  <2>10. CASE Check
    <3>1. CASE part' = Failure /\ failed' = failed \cup {"params"} /\ pc' = "keeping"
      BY <3>1 DEF Mempools, MempoolNeverFatal
    <3>2. CASE pc' = "querying" /\ UNCHANGED <<part, failed>>
      BY <2>10, <3>2 DEF Check, MempoolNeverFatal
    <3>3. QED
      BY <2>10, <3>1, <3>2 DEF Check
  <2>11. CASE QueryDb \/ ReadEnds
    BY <2>11 DEF QueryDb, MoreQueries, ReadEnds, MempoolNeverFatal
  <2>12. CASE ScanEnds \/ ScanBreaks
    <3>1. pc = "scanning" /\ part' = With(part, QueryDatum) /\ pc' = "querying"
      BY <2>12 DEF ScanEnds, ScanBreaks
    <3>2. part'.err = part.err
      BY <3>1 DEF With
    <3>3. QED
      BY <3>1, <3>2 DEF MempoolNeverFatal
  <2>13. CASE ScanFails
    <3>1. "db" \in failed' /\ pc' \in {"keeping", "fallingBack"}
      BY <2>13 DEF ScanFails
    <3>2. QED
      BY <3>1 DEF Mempools, MempoolNeverFatal
  <2>14. CASE FallBack
    <3>1. "db" \in failed /\ failed \subseteq failed' /\ pc' = "keeping"
      BY <2>14 DEF FallBack, FailureInv
    <3>2. QED
      BY <3>1 DEF Mempools, MempoolNeverFatal
  <2>15. CASE UNCHANGED vars
    BY <2>15 DEF vars, request, MempoolNeverFatal
  <2>16. QED
    BY <2>1, <2>2, <2>3, <2>4, <2>5, <2>6, <2>7, <2>8, <2>9, <2>10, <2>11, <2>12, <2>13,
       <2>14, <2>15 DEF Next
<1>3. QED
  BY <1>1, <1>2, FailureInvHolds, PTL DEF Spec

--------------------------------------------------------------------------------
(* Whose answer it is.                                                     *)

\* The arguments some data was read for.
Bound(data) == UNION {DOMAIN d.bound : d \in data}
\* Data read for the values of the request, and for the arguments the accessor got.
Fits(data) == \A d \in data : \A p \in DOMAIN d.bound \cap DOMAIN val : d.bound[p] = val[p]
ReadFor(data) ==
  \A d \in data : \A p \in DOMAIN d.bound : p \in DOMAIN got /\ d.bound[p] = got[p]

\* What the first n steps reach, but for those an answer can do without.
Answered(n, data) ==
  \A i \in 1..n : Steps(to)[i].duty # "may" => Reaches(Steps(to)[i]) \subseteq Bound(data)
\* What the first n queries of a reader bind.
Scanned(m, n, data) == \A k \in 1..n : NamesIn(Read[m].queries[k].args) \subseteq Bound(data)

AtDb == pc \in {"looking", "checking", "querying", "scanning", "fallingBack", "keeping"}

RequestInv ==
  /\ pc # "idle" => DOMAIN val = Params(to)
  /\ pc \in {"idle", "reading", "answered"} => answer = Nothing

\* The reader has read for what the accessor got from the step it is at.
DbInv ==
  AtDb =>
    /\ step < Len(Steps(to)) /\ Current.from = "db"
    /\ got = Bind(Formals(Current), ArgValues(Current.args))
    /\ pc = "looking" => CacheRow.cache # ""
    /\ pc \in {"looking", "checking"} => part = Nothing /\ query = 0
    /\ pc \in {"querying", "scanning"} =>
         ReadFor(part.data) /\ Scanned(Current.method, query, part.data)
    /\ pc = "keeping" /\ ~part.err =>
         ReadFor(part.data) /\ Scanned(Current.method, Len(ReaderRow.queries), part.data)

AnswerInv ==
  /\ ~Asked => Fits(answer.data)
  /\ pc = "serving" \/ AtDb => Answered(step, answer.data)

\* What is kept is all a reader reads, for the values its key has.
Kept(m, it) ==
  /\ \A d \in it.part.data : \A p \in DOMAIN d.bound \ Given :
       \E i \in 1..Len(Cached[m].key) : Cached[m].key[i] = p /\ it.key[i] = d.bound[p]
  /\ Scanned(m, Len(Read[m].queries), it.part.data)
ItemInv ==
  item.cache # "" /\ ~item.part.err =>
    \A m \in DOMAIN Cached : Cached[m].cache = item.cache => Kept(m, item)

OwnInv == RequestInv /\ DbInv /\ AnswerInv /\ ItemInv /\ OwnAnswer

LEMMA RequestParams ==
  ASSUME NEW m, NEW v \in Requests(m) PROVE DOMAIN v = Params(m)
  BY DEF Requests

LEMMA Bigger ==
  ASSUME NEW c, NEW d, c \subseteq d
  PROVE  /\ Bound(c) \subseteq Bound(d)
         /\ \A n : Answered(n, c) => Answered(n, d)
         /\ \A m, n : Scanned(m, n, c) => Scanned(m, n, d)
<1>1. Bound(c) \subseteq Bound(d)
  BY DEF Bound
<1>2. QED
  BY <1>1 DEF Answered, Scanned

\* Every argument that is a parameter of the request gets its value.
LEMMA BoundByPosition ==
  ASSUME to \in DOMAIN Handler, NEW i \in 1..Len(Steps(to)), DOMAIN val = Params(to)
  PROVE  LET s == Steps(to)[i]
             b == Bind(Formals(s), ArgValues(s.args))
         IN /\ DOMAIN b = NamesIn(Formals(s))
            /\ \A p \in DOMAIN b \cap DOMAIN val : b[p] = val[p]
<1> DEFINE s == Steps(to)[i]
           b == Bind(Formals(s), ArgValues(s.args))
<1>1. DOMAIN b = NamesIn(Formals(s))
  BY DEF Bind
<1>2. ASSUME NEW p \in DOMAIN b \cap DOMAIN val PROVE b[p] = val[p]
  <2> DEFINE j == CHOOSE k \in 1..Len(Formals(s)) : Formals(s)[k] = p
  <2>1. \E k \in 1..Len(Formals(s)) : Formals(s)[k] = p
    BY <1>1, <1>2 DEF NamesIn
  <2>2. j \in 1..Len(Formals(s)) /\ Formals(s)[j] = p
    BY <2>1
  <2>3. b[p] = ArgValues(s.args)[j]
    BY <1>1, <1>2 DEF Bind
  <2> HIDE DEF j, s
  <2>4. j \in 1..Len(s.args) /\ s.args[j] = p
    BY <1>2, <2>2, CallAssumption DEF s
  <2>5. ArgValues(s.args)[j] = ValueOf(p)
    BY <2>4 DEF ArgValues
  <2>6. QED
    BY <1>2, <2>3, <2>5 DEF ValueOf
<1>3. QED
  BY <1>1, <1>2

\* The step a request is at, and the tables for it.
LEMMA Here ==
  ASSUME FailureInv, RequestInv, pc # "idle", step < Len(Steps(to))
  PROVE  /\ to \in DOMAIN Handler /\ step \in Nat /\ Len(Steps(to)) \in Nat
         /\ step + 1 \in 1..Len(Steps(to))
         /\ DOMAIN val = Params(to)
         /\ LET b == Bind(Formals(Current), ArgValues(Current.args))
            IN /\ DOMAIN b = NamesIn(Formals(Current))
               /\ \A p \in DOMAIN b \cap DOMAIN val : b[p] = val[p]
         /\ Current.from = "db" =>
              /\ Current.method \in DOMAIN Cached
              /\ Formals(Current) = CacheRow.formals
<1>1. to \in DOMAIN Handler /\ step \in Nat /\ Len(Steps(to)) \in Nat
      /\ step + 1 \in 1..Len(Steps(to))
  <2>1. to \in DOMAIN Handler /\ step \in Nat /\ Len(Steps(to)) \in Nat
    BY ProgramAssumption DEF FailureInv
  <2>2. QED
    BY <2>1
<1>2. DOMAIN val = Params(to)
  BY DEF RequestInv
<1>3. LET b == Bind(Formals(Current), ArgValues(Current.args))
      IN /\ DOMAIN b = NamesIn(Formals(Current))
         /\ \A p \in DOMAIN b \cap DOMAIN val : b[p] = val[p]
  BY <1>1, <1>2, BoundByPosition DEF Current
<1>4. Current.from = "db" =>
        Current.method \in DOMAIN Cached /\ Formals(Current) = CacheRow.formals
  BY <1>1, CallAssumption DEF Current, Formals, CacheRow
<1>5. QED
  BY <1>1, <1>2, <1>3, <1>4

\* What the accessor got is the request's, and all that the reader binds.
LEMMA GotFits ==
  ASSUME FailureInv, OwnInv, AtDb
  PROVE  /\ pc # "idle" /\ Current.method \in DOMAIN Cached
         /\ got = Bind(Formals(Current), ArgValues(Current.args))
         /\ DOMAIN got = NamesIn(CacheRow.formals)
         /\ \A p \in DOMAIN got \cap DOMAIN val : got[p] = val[p]
         /\ \A k \in 1..Len(ReaderRow.queries) : NamesIn(ReaderRow.queries[k].args) \subseteq DOMAIN got
         /\ Reaches(Current) =
              UNION {NamesIn(ReaderRow.queries[k].args) : k \in 1..Len(ReaderRow.queries)}
         /\ Len(ReaderRow.queries) \in Nat
<1>1. pc # "idle" /\ step < Len(Steps(to)) /\ Current.from = "db"
      /\ got = Bind(Formals(Current), ArgValues(Current.args))
  BY DEF OwnInv, DbInv, AtDb
<1>2. /\ Current.method \in DOMAIN Cached /\ Formals(Current) = CacheRow.formals
      /\ DOMAIN got = NamesIn(CacheRow.formals)
      /\ \A p \in DOMAIN got \cap DOMAIN val : got[p] = val[p]
  BY <1>1, Here DEF OwnInv
<1>3. /\ \A k \in 1..Len(ReaderRow.queries) :
           NamesIn(ReaderRow.queries[k].args) \subseteq NamesIn(CacheRow.formals)
      /\ Len(ReaderRow.queries) \in Nat
  BY <1>2, CacheAssumption DEF CacheRow, ReaderRow
<1>4. Reaches(Current) =
        UNION {NamesIn(ReaderRow.queries[k].args) : k \in 1..Len(ReaderRow.queries)}
  BY <1>1 DEF Reaches, ReaderRow
<1>5. QED
  BY <1>1, <1>2, <1>3, <1>4

\* What all queries of a reader have read is what the request asked for.
LEMMA ReachesAll ==
  ASSUME FailureInv, OwnInv, AtDb, NEW data,
         Scanned(Current.method, Len(ReaderRow.queries), data)
  PROVE  Reaches(Current) \subseteq Bound(data)
<1>1. Reaches(Current) =
        UNION {NamesIn(ReaderRow.queries[k].args) : k \in 1..Len(ReaderRow.queries)}
  BY GotFits
<1>2. \A k \in 1..Len(ReaderRow.queries) : NamesIn(ReaderRow.queries[k].args) \subseteq Bound(data)
  BY DEF Scanned, ReaderRow
<1>3. QED
  BY <1>1, <1>2

LEMMA PartFits ==
  ASSUME FailureInv, OwnInv, AtDb, NEW data, ReadFor(data) PROVE Fits(data)
  BY GotFits DEF Fits, ReadFor

\* What is found under the same key was read for the same values.
LEMMA FoundFits ==
  ASSUME FailureInv, OwnInv, pc = "looking", Found, ~item.part.err
  PROVE  /\ ~Asked => Fits(item.part.data)
         /\ Reaches(Current) \subseteq Bound(item.part.data)
<1>1. AtDb /\ CacheRow.cache # "" /\ item.cache = CacheRow.cache
  BY DEF AtDb, OwnInv, DbInv, Found
<1>2. Current.method \in DOMAIN Cached
  BY <1>1, GotFits
<1>3. Kept(Current.method, item)
  BY <1>1, <1>2 DEF OwnInv, ItemInv, CacheRow
<1>4. Reaches(Current) \subseteq Bound(item.part.data)
  <2>1. Scanned(Current.method, Len(ReaderRow.queries), item.part.data)
    BY <1>3 DEF Kept, ReaderRow
  <2>2. QED
    BY <1>1, <2>1, ReachesAll
<1>5. ASSUME ~Asked, NEW d \in item.part.data, NEW p \in DOMAIN d.bound \cap DOMAIN val
      PROVE  d.bound[p] = val[p]
  <2>1. p \notin Given
    BY <1>1, <1>5, GotFits DEF OwnInv, RequestInv, Params
  <2>2. PICK i \in 1..Len(CacheRow.key) : CacheRow.key[i] = p /\ item.key[i] = d.bound[p]
    BY <1>3, <1>5, <2>1 DEF Kept, CacheRow
  <2>3. p \in DOMAIN got
    <3>1. p \in NamesIn(CacheRow.key)
      BY <2>2 DEF NamesIn
    <3>2. NamesIn(CacheRow.key) \subseteq NamesIn(CacheRow.formals)
      BY <1>2, CacheAssumption DEF CacheRow
    <3>3. QED
      BY <1>1, <3>1, <3>2, GotFits
  <2>4. got[p] = val[p]
    BY <1>1, <1>5, <2>3, GotFits
  <2>5. KeyOf(CacheRow, got)[i] = got[p]
    BY <2>2 DEF KeyOf
  <2>6. IF p \in Pointers THEN got[p] = "none" <=> item.key[i] = "none"
                          ELSE got[p] = item.key[i]
    BY <2>2, <2>5 DEF Found, Alike
  <2>7. CASE p \in Pointers
    <3>1. val[p] = "none"
      BY <1>5, <2>7 DEF Asked
    <3>2. QED
      BY <2>2, <2>4, <2>6, <2>7, <3>1
  <2>8. CASE p \notin Pointers
    BY <2>2, <2>4, <2>6, <2>8
  <2>9. QED
    BY <2>7, <2>8
<1>6. QED
  BY <1>4, <1>5 DEF Fits

\* The key of what was read has the values it was read for.
LEMMA KeptFits ==
  ASSUME FailureInv, OwnInv, AtDb, NEW p, ReadFor(p.data), CacheRow.cache # "",
         Scanned(Current.method, Len(ReaderRow.queries), p.data), NEW m \in DOMAIN Cached,
         Cached[m].cache = CacheRow.cache, NEW it, it.key = KeyOf(CacheRow, got), it.part = p
  PROVE  Kept(m, it)
<1>1. Current.method \in DOMAIN Cached /\ DOMAIN got = NamesIn(CacheRow.formals)
  BY GotFits
<1>2. m = Current.method
  BY <1>1, CacheAssumption DEF CacheRow
<1>3. NamesIn(CacheRow.formals) \ Given \subseteq NamesIn(CacheRow.key)
  BY <1>1, CacheAssumption DEF CacheRow
<1>4. ASSUME NEW d \in it.part.data, NEW q \in DOMAIN d.bound \ Given
      PROVE  \E i \in 1..Len(Cached[m].key) : Cached[m].key[i] = q /\ it.key[i] = d.bound[q]
  <2>1. q \in DOMAIN got /\ d.bound[q] = got[q]
    BY <1>4 DEF ReadFor
  <2>2. PICK i \in 1..Len(CacheRow.key) : CacheRow.key[i] = q
    BY <1>1, <1>3, <1>4, <2>1 DEF NamesIn
  <2>3. KeyOf(CacheRow, got)[i] = got[q]
    BY <2>2 DEF KeyOf
  <2>4. QED
    BY <1>2, <2>1, <2>2, <2>3 DEF CacheRow
<1>5. QED
  BY <1>2, <1>4 DEF Kept, ReaderRow

--------------------------------------------------------------------------------

\* A request is answered.
LEMMA OwnReplied ==
  ASSUME FailureInv, OwnInv, pc # "idle", NEW p, NEW full, Reply(p, full), UNCHANGED request,
         ItemInv', ~p.err /\ ~Asked => Fits(p.data),
         ~p.err /\ full => Params(to) \subseteq Bound(p.data)
  PROVE  OwnInv'
<1>1. /\ pc' = "answered" /\ answer' = Nothing /\ to' = to /\ val' = val
      /\ reply' = [err |-> p.err, data |-> p.data, full |-> full]
  BY DEF Reply, request
<1>2. DOMAIN val = Params(to)
  BY DEF OwnInv, RequestInv
<1>3. RequestInv' /\ DbInv'
  BY <1>1, <1>2 DEF RequestInv, DbInv, AtDb, Params
<1>4. AnswerInv'
  BY <1>1 DEF AnswerInv, Fits, AtDb, Nothing
<1>5. OwnAnswer'
  <2>1. Asked' <=> Asked
    BY <1>1 DEF Asked
  <2>2. reply'.err = p.err /\ reply'.data = p.data /\ reply'.full = full
    BY <1>1
  <2>3. ~p.err /\ ~Asked => \A d \in p.data : \A q \in DOMAIN d.bound \cap DOMAIN val :
                              d.bound[q] = val[q]
    BY DEF Fits
  <2>4. ~p.err /\ full => \A q \in DOMAIN val : \E d \in p.data : q \in DOMAIN d.bound
    BY <1>2 DEF Bound
  <2>5. QED
    BY <1>1, <2>1, <2>2, <2>3, <2>4 DEF OwnAnswer
<1>6. QED
  BY <1>3, <1>4, <1>5 DEF OwnInv

\* A step more is answered, or left out by what can do without it.
LEMMA StepMore ==
  ASSUME FailureInv, OwnInv, pc = "serving" \/ AtDb, step < Len(Steps(to)), pc' = "serving",
         UNCHANGED request, ItemInv', step' = step + 1, answer.data \subseteq answer'.data,
         ~Asked => Fits(answer'.data),
         Current.duty # "may" => Reaches(Current) \subseteq Bound(answer'.data)
  PROVE  OwnInv'
<1>1. to' = to /\ val' = val /\ pc # "idle"
  BY DEF request, AtDb
<1>2. step \in Nat
  BY DEF FailureInv
<1>3. RequestInv' /\ DbInv' /\ OwnAnswer'
  BY <1>1 DEF OwnInv, RequestInv, DbInv, AtDb, OwnAnswer, Params
<1>4. Answered(step, answer'.data)
  BY Bigger DEF OwnInv, AnswerInv
<1>5. Answered(step + 1, answer'.data)
  <2>1. ASSUME NEW i \in 1..(step + 1) PROVE i \in 1..step \/ i = step + 1
    BY <1>2
  <2>2. QED
    BY <1>4, <2>1 DEF Answered, Current
<1>6. AnswerInv'
  BY <1>1, <1>5 DEF AnswerInv, Answered, Fits, Asked, Steps
<1>7. QED
  BY <1>3, <1>6 DEF OwnInv

\* What is done with a part.
LEMMA OwnFinished ==
  ASSUME FailureInv, OwnInv, AtDb, NEW p, Finish(p), UNCHANGED request, ItemInv',
         ~p.err /\ ~Asked => Fits(p.data),
         ~p.err => Reaches(Current) \subseteq Bound(p.data)
  PROVE  OwnInv'
<1>1. pc # "idle" /\ step < Len(Steps(to))
  BY DEF OwnInv, DbInv, AtDb
<1>2. CASE p.err
  BY <1>1, <1>2, OwnReplied DEF Finish
<1>3. CASE ~p.err
  <2>1. pc' = "serving" /\ step' = step + 1 /\ answer'.data = answer.data \cup p.data
    BY <1>3 DEF Finish
  <2>2. ~Asked => Fits(answer'.data)
    BY <1>3, <2>1 DEF OwnInv, AnswerInv, Fits
  <2>3. Reaches(Current) \subseteq Bound(answer'.data)
    BY <1>3, <2>1, Bigger
  <2>4. QED
    BY <1>1, <2>1, <2>2, <2>3, StepMore
<1>4. QED
  BY <1>2, <1>3

\* The accessor and the reader go on with the step.
LEMMA OwnMoves ==
  ASSUME FailureInv, OwnInv, AtDb, AtDb', UNCHANGED <<to, val, step, got, answer, item>>,
         pc' # "looking", pc' = "checking" => part' = Nothing /\ query' = 0,
         pc' \in {"querying", "scanning"} =>
           ReadFor(part'.data) /\ Scanned(Current.method, query', part'.data),
         pc' = "keeping" /\ ~part'.err =>
           ReadFor(part'.data) /\ Scanned(Current.method, Len(ReaderRow.queries), part'.data)
  PROVE  OwnInv'
<1>1. RequestInv' /\ OwnAnswer' /\ ItemInv'
  BY DEF OwnInv, RequestInv, ItemInv, OwnAnswer, AtDb, Params
<1>2. AnswerInv'
  BY DEF OwnInv, AnswerInv, Answered, Fits, Asked, Steps
<1>3. Current' = Current /\ ReaderRow' = ReaderRow /\ Steps(to)' = Steps(to)
  BY DEF Current, Steps, ReaderRow
<1>4. ArgValues(Current.args)' = ArgValues(Current.args)
  BY <1>3 DEF ArgValues, ValueOf
<1>5. DbInv'
  BY <1>3, <1>4 DEF OwnInv, DbInv, ReadFor
<1>6. QED
  BY <1>1, <1>2, <1>5 DEF OwnInv

LEMMA OwnAsks == FailureInv /\ OwnInv /\ (AskOther \/ OtherFails \/ PassOver) => OwnInv'
<1> SUFFICES ASSUME FailureInv, OwnInv, AskOther \/ OtherFails \/ PassOver PROVE OwnInv'
  OBVIOUS
<1>1. /\ pc = "serving" /\ step < Len(Steps(to)) /\ UNCHANGED request /\ item' = item
      /\ pc # "idle"
  BY DEF AskOther, OtherFails, PassOver, More
<1>2. ItemInv'
  BY <1>1 DEF OwnInv, ItemInv
<1>3. ~Asked => Fits(answer.data)
  BY DEF OwnInv, AnswerInv
<1>4. CASE AskOther
  <2> DEFINE b == Bind(Formals(Current), ArgValues(Current.args))
             d == Datum(Current.from, Current.method, b)
  <2>1. /\ DOMAIN b = NamesIn(Formals(Current))
        /\ \A p \in DOMAIN b \cap DOMAIN val : b[p] = val[p]
    BY <1>1, Here DEF OwnInv
  <2>2. /\ Current.from # "db" /\ step' = step + 1 /\ pc' = pc
        /\ answer' = With(answer, d)
    BY <1>4 DEF AskOther
  <2>3. d.bound = b
    BY DEF Datum
  <2>4. Reaches(Current) = DOMAIN b
    BY <2>1, <2>2 DEF Reaches
  <2> HIDE DEF b, d
  <2>5. answer'.data = answer.data \cup {d}
    BY <2>2 DEF With
  <2>6. ~Asked => Fits(answer'.data)
    BY <1>3, <2>1, <2>3, <2>5 DEF Fits
  <2>7. Reaches(Current) \subseteq Bound(answer'.data)
    BY <2>3, <2>4, <2>5 DEF Bound
  <2>8. QED
    BY <1>1, <1>2, <2>2, <2>5, <2>6, <2>7, StepMore
<1>5. CASE /\ Current.duty = "may" /\ step' = step + 1
           /\ UNCHANGED <<pc, got, query, part, answer, reply>>
  BY <1>1, <1>2, <1>3, <1>5, StepMore
<1>6. CASE Reply(Failure, FALSE)
  <2>1. Failure.err
    BY DEF Failure
  <2>2. QED
    BY <1>1, <1>2, <1>6, <2>1, OwnReplied
<1>7. CASE Reply(answer, FALSE)
  BY <1>1, <1>2, <1>3, <1>7, OwnReplied
<1>8. QED
  BY <1>4, <1>5, <1>6, <1>7 DEF OtherFails, PassOver

LEMMA OwnAnswers == FailureInv /\ OwnInv /\ (Refuse \/ Answer) => OwnInv'
<1> SUFFICES ASSUME FailureInv, OwnInv, Refuse \/ Answer PROVE OwnInv'
  OBVIOUS
<1>1. UNCHANGED request /\ item' = item /\ pc # "idle"
  BY DEF Refuse, Answer
<1>2. ItemInv'
  BY <1>1 DEF OwnInv, ItemInv
<1>3. CASE Refuse
  <2>1. Reply(Failure, FALSE) /\ Failure.err
    BY <1>3 DEF Refuse, Failure
  <2>2. QED
    BY <1>1, <1>2, <2>1, OwnReplied
<1>4. CASE Answer
  <2>1. pc = "serving" /\ step = Len(Steps(to)) /\ Reply(answer, TRUE)
    BY <1>4 DEF Answer
  <2>2. (~Asked => Fits(answer.data)) /\ Answered(step, answer.data)
    BY <2>1 DEF OwnInv, AnswerInv
  <2>3. to \in DOMAIN Handler
    BY <2>1 DEF FailureInv
  <2>4. Params(to) \subseteq Bound(answer.data)
    BY <2>1, <2>2, <2>3, ParameterAssumption DEF Answered
  <2>5. QED
    BY <1>1, <1>2, <2>1, <2>2, <2>4, OwnReplied
<1>5. QED
  BY <1>3, <1>4

LEMMA OwnAskDb == FailureInv /\ OwnInv /\ AskDb => OwnInv'
<1> SUFFICES ASSUME FailureInv, OwnInv, AskDb PROVE OwnInv'
  OBVIOUS
<1>1. /\ pc = "serving" /\ step < Len(Steps(to)) /\ Current.from = "db"
      /\ got' = Bind(Formals(Current), ArgValues(Current.args))
      /\ part' = Nothing /\ query' = 0
      /\ pc' = IF CacheRow.cache = "" THEN "checking" ELSE "looking"
      /\ UNCHANGED <<to, val, step, answer, item, reply>>
  BY DEF AskDb, More, request
<1>2. RequestInv' /\ OwnAnswer' /\ ItemInv'
  BY <1>1 DEF OwnInv, RequestInv, ItemInv, OwnAnswer, Params
<1>3. AnswerInv'
  BY <1>1 DEF OwnInv, AnswerInv, Answered, Fits, Asked, Steps
<1>4. Current' = Current /\ CacheRow' = CacheRow /\ Steps(to)' = Steps(to)
  BY <1>1 DEF Current, Steps, CacheRow
<1>5. ArgValues(Current.args)' = ArgValues(Current.args)
  BY <1>1, <1>4 DEF ArgValues, ValueOf
<1>6. DbInv'
  BY <1>1, <1>4, <1>5 DEF DbInv
<1>7. QED
  BY <1>2, <1>3, <1>6 DEF OwnInv

LEMMA OwnFound == FailureInv /\ OwnInv /\ Hit => OwnInv'
<1> SUFFICES ASSUME FailureInv, OwnInv, Hit PROVE OwnInv'
  OBVIOUS
<1>1. /\ pc = "looking" /\ AtDb /\ Found /\ Finish(item.part) /\ UNCHANGED request
      /\ item' = item
  BY DEF Hit, AtDb
<1>2. ItemInv'
  BY <1>1 DEF OwnInv, ItemInv
<1>3. ~item.part.err => /\ ~Asked => Fits(item.part.data)
                        /\ Reaches(Current) \subseteq Bound(item.part.data)
  BY <1>1, FoundFits
<1>4. QED
  BY <1>1, <1>2, <1>3, OwnFinished

LEMMA OwnKept == FailureInv /\ OwnInv /\ Keep => OwnInv'
<1> SUFFICES ASSUME FailureInv, OwnInv, Keep PROVE OwnInv'
  OBVIOUS
<1>1. pc = "keeping" /\ AtDb /\ Finish(part) /\ UNCHANGED request
  BY DEF Keep, AtDb
<1>2. ~part.err => ReadFor(part.data) /\ Scanned(Current.method, Len(ReaderRow.queries), part.data)
  BY <1>1 DEF OwnInv, DbInv
<1>3. ItemInv'
  <2>1. CASE /\ CacheRow.cache # ""
             /\ item' = [cache |-> CacheRow.cache, key |-> KeyOf(CacheRow, got), part |-> part]
    <3>1. /\ item'.cache = CacheRow.cache /\ item'.key = KeyOf(CacheRow, got)
          /\ item'.part = part
      BY <2>1
    <3>2. ASSUME ~part.err, NEW m \in DOMAIN Cached, Cached[m].cache = CacheRow.cache
          PROVE  Kept(m, item')
      BY <1>1, <1>2, <2>1, <3>1, <3>2, KeptFits
    <3>3. QED
      BY <3>1, <3>2 DEF ItemInv
  <2>2. CASE item' = item
    BY <2>2 DEF OwnInv, ItemInv
  <2>3. QED
    BY <2>1, <2>2 DEF Keep
<1>4. ~part.err => Fits(part.data) /\ Reaches(Current) \subseteq Bound(part.data)
  BY <1>1, <1>2, PartFits, ReachesAll
<1>5. QED
  BY <1>1, <1>3, <1>4, OwnFinished

LEMMA OwnForgotten == FailureInv /\ OwnInv /\ Forget => OwnInv'
<1> SUFFICES ASSUME FailureInv, OwnInv, Forget PROVE OwnInv'
  OBVIOUS
<1>1. /\ item' = NoItem
      /\ UNCHANGED <<pc, to, val, step, got, query, part, answer, reply>>
  BY DEF Forget, request, progress
<1>2. ItemInv'
  BY <1>1 DEF ItemInv, NoItem
<1>3. RequestInv' /\ OwnAnswer' /\ AnswerInv'
  BY <1>1 DEF OwnInv, RequestInv, OwnAnswer, AnswerInv, AtDb, Answered, Fits, Asked, Steps, Params
<1>4. /\ Current' = Current /\ CacheRow' = CacheRow /\ ReaderRow' = ReaderRow
      /\ Steps(to)' = Steps(to)
  BY <1>1 DEF Current, Steps, CacheRow, ReaderRow
<1>5. ArgValues(Current.args)' = ArgValues(Current.args)
  BY <1>1, <1>4 DEF ArgValues, ValueOf
<1>6. DbInv'
  BY <1>1, <1>4, <1>5 DEF OwnInv, DbInv, ReadFor, AtDb
<1>7. QED
  BY <1>2, <1>3, <1>6 DEF OwnInv

\* A query has told what it was asked with.
LEMMA QueryRead ==
  ASSUME FailureInv, OwnInv, pc = "scanning", part' = With(part, QueryDatum),
         query' = query + 1
  PROVE  ReadFor(part'.data) /\ Scanned(Current.method, query', part'.data)
<1>1. AtDb /\ query \in Nat /\ query < Len(ReaderRow.queries)
      /\ ReadFor(part.data) /\ Scanned(Current.method, query, part.data)
  BY DEF FailureInv, OwnInv, DbInv, AtDb
<1>2. /\ part'.data = part.data \cup {QueryDatum}
      /\ QueryDatum.bound = [p \in NamesIn(NextQuery.args) |-> got[p]]
  BY DEF With, QueryDatum, Datum
<1>3. Len(ReaderRow.queries) \in Nat
  BY <1>1, GotFits
<1>4. query + 1 \in 1..Len(ReaderRow.queries)
  BY <1>1, <1>3
<1>5. NamesIn(NextQuery.args) \subseteq DOMAIN got
  BY <1>1, <1>4, GotFits DEF NextQuery
<1>6. ReadFor(part'.data)
  BY <1>1, <1>2, <1>5 DEF ReadFor
<1>7. Scanned(Current.method, query + 1, part'.data)
  <2>1. ASSUME NEW k \in 1..(query + 1) PROVE k \in 1..query \/ k = query + 1
    BY <1>1
  <2>2. Scanned(Current.method, query, part'.data)
    BY <1>1, <1>2, Bigger
  <2>3. NamesIn(Read[Current.method].queries[query + 1].args) \subseteq Bound(part'.data)
    BY <1>2 DEF Bound, NextQuery, ReaderRow
  <2>4. QED
    BY <2>1, <2>2, <2>3 DEF Scanned
<1>8. QED
  BY <1>6, <1>7

LEMMA OwnRead ==
  FailureInv /\ OwnInv /\ (Miss \/ Check \/ QueryDb \/ ScanEnds \/ ScanFails \/ ScanBreaks
                           \/ ReadEnds \/ FallBack) => OwnInv'
<1> SUFFICES ASSUME FailureInv, OwnInv,
                    Miss \/ Check \/ QueryDb \/ ScanEnds \/ ScanFails \/ ScanBreaks
                      \/ ReadEnds \/ FallBack
             PROVE  OwnInv'
  OBVIOUS
<1>1. AtDb /\ UNCHANGED <<to, val, step, got, answer, item>>
  BY DEF Miss, Check, QueryDb, MoreQueries, ScanEnds, ScanFails, ScanBreaks, ReadEnds, FallBack,
     request, progress, AtDb
<1>2. DbInv
  BY DEF OwnInv
<1>3. CASE Miss
  <2>1. pc = "looking" /\ pc' = "checking" /\ part' = part /\ query' = query
    BY <1>3 DEF Miss, progress
  <2>2. part = Nothing /\ query = 0
    BY <1>1, <1>2, <2>1 DEF DbInv
  <2>3. QED
    BY <1>1, <2>1, <2>2, OwnMoves DEF AtDb
<1>4. CASE Check
  <2>1. pc = "checking" /\ query' = query
    BY <1>4 DEF Check, progress
  <2>2. part = Nothing /\ query = 0
    BY <1>1, <1>2, <2>1 DEF DbInv
  <2>3. CASE part' = Failure /\ pc' = "keeping"
    <3>1. part'.err
      BY <2>3 DEF Failure
    <3>2. QED
      BY <1>1, <2>3, <3>1, OwnMoves DEF AtDb
  <2>4. CASE part' = part /\ pc' = "querying"
    <3>1. ReadFor(part'.data) /\ Scanned(Current.method, query', part'.data)
      BY <2>1, <2>2, <2>4 DEF ReadFor, Scanned, Nothing
    <3>2. QED
      BY <1>1, <2>4, <3>1, OwnMoves DEF AtDb
  <2>5. QED
    BY <1>4, <2>3, <2>4 DEF Check
<1>5. CASE QueryDb
  <2>1. pc = "querying" /\ pc' = "scanning" /\ part' = part /\ query' = query
    BY <1>5 DEF QueryDb, MoreQueries, progress
  <2>2. ReadFor(part'.data) /\ Scanned(Current.method, query', part'.data)
    BY <1>1, <1>2, <2>1 DEF DbInv
  <2>3. QED
    BY <1>1, <2>1, <2>2, OwnMoves DEF AtDb
<1>6. CASE ScanEnds \/ ScanBreaks
  <2>1. /\ pc = "scanning" /\ pc' = "querying" /\ part' = With(part, QueryDatum)
        /\ query' = query + 1
    BY <1>6 DEF ScanEnds, ScanBreaks
  <2>2. ReadFor(part'.data) /\ Scanned(Current.method, query', part'.data)
    BY <2>1, QueryRead
  <2>3. QED
    BY <1>1, <2>1, <2>2, OwnMoves DEF AtDb
<1>7. CASE ScanFails
  <2>1. pc' \in {"keeping", "fallingBack"} /\ part' = Failure
    BY <1>7 DEF ScanFails
  <2>2. part'.err
    BY <2>1 DEF Failure
  <2>3. QED
    BY <1>1, <2>1, <2>2, OwnMoves DEF AtDb
<1>8. CASE ReadEnds
  <2>1. /\ pc = "querying" /\ query = Len(ReaderRow.queries) /\ pc' = "keeping"
        /\ part' = part
    BY <1>8 DEF ReadEnds, progress
  <2>2. ReadFor(part'.data) /\ Scanned(Current.method, Len(ReaderRow.queries), part'.data)
    BY <1>1, <1>2, <2>1 DEF DbInv
  <2>3. QED
    BY <1>1, <2>1, <2>2, OwnMoves DEF AtDb
<1>9. CASE FallBack
  <2>1. pc = "fallingBack" /\ pc' = "keeping" /\ part.err
    BY <1>9 DEF FallBack, FailureInv
  <2>2. CASE part' = With(Nothing, Datum("mempool", CacheRow.fallback, got))
    <3> DEFINE d == Datum("mempool", CacheRow.fallback, got)
    <3>1. part'.data = {d} /\ d.bound = got
      BY <2>2 DEF With, Nothing, Datum
    <3> HIDE DEF d
    <3>2. ReadFor(part'.data)
      BY <3>1 DEF ReadFor
    <3>3. Bound(part'.data) = DOMAIN got
      BY <3>1 DEF Bound
    <3>4. Scanned(Current.method, Len(ReaderRow.queries), part'.data)
      BY <1>1, <3>3, GotFits DEF Scanned, ReaderRow
    <3>5. QED
      BY <1>1, <2>1, <3>2, <3>4, OwnMoves DEF AtDb
  <2>3. CASE part' = part
    BY <1>1, <2>1, <2>3, OwnMoves DEF AtDb
  <2>4. QED
    BY <1>9, <2>2, <2>3 DEF FallBack
<1>10. QED
  BY <1>3, <1>4, <1>5, <1>6, <1>7, <1>8, <1>9

\* Whatever is answered without an error was read for the values of the request, and
\* with every one of its parameters.
THEOREM AnswersAreOwn == Spec => []OwnAnswer
<1>1. Init => OwnInv
  <2> SUFFICES ASSUME Init PROVE OwnInv
    OBVIOUS
  <2>1. pc = "idle" /\ answer = Nothing /\ item = NoItem
    BY DEF Init
  <2>2. answer.data = {} /\ item.cache = ""
    BY <2>1 DEF Nothing, NoItem
  <2>3. QED
    BY <2>1, <2>2
    DEF OwnInv, RequestInv, DbInv, AnswerInv, ItemInv, OwnAnswer, AtDb, Fits
<1>2. FailureInv /\ OwnInv /\ [Next]_vars => OwnInv'
  <2> SUFFICES ASSUME FailureInv, OwnInv, [Next]_vars PROVE OwnInv'
    OBVIOUS
  <2>1. ASSUME NEW m \in DOMAIN Handler, Arrive(m) PROVE OwnInv'
    <3>1. /\ pc' = "reading" /\ to' = m /\ val' \in Requests(m)
          /\ answer' = answer /\ item' = item /\ pc = "idle"
      BY <2>1 DEF Arrive
    <3>2. DOMAIN val' = Params(m) /\ answer' = Nothing
      BY <3>1, RequestParams DEF OwnInv, RequestInv
    <3>3. ItemInv'
      BY <3>1 DEF OwnInv, ItemInv
    <3>4. QED
      BY <3>1, <3>2, <3>3
      DEF OwnInv, RequestInv, DbInv, AnswerInv, OwnAnswer, AtDb, Fits, Nothing, Params
  <2>2. CASE Serve
    <3>1. /\ pc = "reading" /\ pc' = "serving"
          /\ UNCHANGED <<to, val, step, answer, item>> /\ step = 0
      BY <2>2 DEF Serve, request, progress, FailureInv
    <3>2. Answered(step, answer.data)
      BY <3>1 DEF Answered
    <3>3. QED
      BY <3>1, <3>2
      DEF OwnInv, RequestInv, DbInv, AnswerInv, ItemInv, OwnAnswer, AtDb, Answered, Fits,
          Asked, Steps, Params
  <2>3. CASE Done
    <3>1. pc = "answered" /\ pc' = "idle" /\ answer' = answer /\ item' = item
      BY <2>3 DEF Done
    <3>2. answer' = Nothing
      BY <3>1 DEF OwnInv, RequestInv
    <3>3. ItemInv'
      BY <3>1 DEF OwnInv, ItemInv
    <3>4. QED
      BY <3>1, <3>2, <3>3
      DEF OwnInv, RequestInv, DbInv, AnswerInv, OwnAnswer, AtDb, Fits, Nothing
  <2>4. CASE UNCHANGED vars
    <3>1. UNCHANGED <<pc, to, val, step, got, query, part, answer, item, reply>>
      BY <2>4 DEF vars, request, progress
    <3>2. Current' = Current /\ CacheRow' = CacheRow /\ ReaderRow' = ReaderRow
          /\ Steps(to)' = Steps(to)
      BY <3>1 DEF Current, Steps, CacheRow, ReaderRow
    <3>3. ArgValues(Current.args)' = ArgValues(Current.args)
      BY <3>1, <3>2 DEF ArgValues, ValueOf
    <3>4. DbInv'
      BY <3>1, <3>2, <3>3 DEF OwnInv, DbInv, ReadFor, AtDb
    <3>5. AnswerInv'
      BY <3>1 DEF OwnInv, AnswerInv, AtDb, Answered, Fits, Asked, Steps
    <3>6. RequestInv' /\ ItemInv' /\ OwnAnswer'
      BY <3>1 DEF OwnInv, RequestInv, ItemInv, OwnAnswer, Asked, Params
    <3>7. QED
      BY <3>4, <3>5, <3>6 DEF OwnInv
  <2>5. QED
    BY <2>1, <2>2, <2>3, <2>4, OwnAnswers, OwnAsks, OwnAskDb, OwnFound, OwnKept,
       OwnForgotten, OwnRead DEF Next
<1>3. QED
  BY <1>1, <1>2, FailureInvHolds, PTL DEF Spec, OwnInv

================================================================================
