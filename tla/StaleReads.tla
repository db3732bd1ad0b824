------------------------------- MODULE StaleReads -------------------------------
(***************************************************************************)
(* What a reader of the cached accessor may rely on.  The database moves   *)
(* from epoch to epoch; a call is answered with the data of the current    *)
(* epoch or of an earlier one that is still remembered somewhere, and an   *)
(* epoch that was forgotten everywhere is never answered again.            *)
(***************************************************************************)
EXTENDS Integers

CONSTANT Calls

VARIABLES
  current,     \* the epoch of the database
  remembered,  \* the epochs that a call may be answered with
  answer       \* the epoch of the data each call was answered with, or 0

vars == <<current, remembered, answer>>

\* Only the current epoch enters the memory, and it is always there.
Remembering ==
  /\ current' \in remembered'
  /\ remembered' \subseteq remembered \cup {current'}

Init ==
  /\ current \in Nat \ {0}
  /\ remembered = {current}
  /\ answer = [c \in Calls |-> 0]

Advance ==
  /\ current' = current + 1
  /\ Remembering
  /\ UNCHANGED answer

Forget ==
  /\ Remembering
  /\ UNCHANGED <<current, answer>>

Answer(c) ==
  /\ answer[c] = 0
  /\ \E e \in remembered : answer' = [answer EXCEPT ![c] = e]
  /\ Remembering
  /\ UNCHANGED current

Return(c) ==
  /\ answer[c] # 0
  /\ answer' = [answer EXCEPT ![c] = 0]
  /\ Remembering
  /\ UNCHANGED current

Next == Advance \/ Forget \/ \E c \in Calls : Answer(c) \/ Return(c)

Spec == Init /\ [][Next]_vars
=================================================================================
