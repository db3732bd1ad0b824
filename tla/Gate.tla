---------------------------------- MODULE Gate ----------------------------------
(***************************************************************************)
(* What the request limiter promises to the HTTP handlers behind it: at    *)
(* most Capacity[l] requests are inside lane l at any time, a request goes *)
(* in at most once, and once it was refused or has left it stays so.  The  *)
(* module ReqLimiter implements it (req_limiter.go, server.go).            *)
(***************************************************************************)
EXTENDS Naturals, FiniteSets

CONSTANTS
  Requests,   \* the HTTP requests
  Lanes,      \* the independent sets of handler slots
  Capacity    \* the slots of each lane

VARIABLES
  inside,     \* per lane, the requests whose handler may run
  refused,    \* the requests turned away without running a handler
  served      \* the requests whose handler has ended

vars == <<inside, refused, served>>

Init ==
  /\ inside = [l \in Lanes |-> {}]
  /\ refused = {}
  /\ served = {}

Outside == Requests \ (refused \cup served \cup UNION {inside[l] : l \in Lanes})

Enter(r, l) ==
  /\ r \in Outside
  /\ Cardinality(inside[l]) < Capacity[l]
  /\ inside' = [inside EXCEPT ![l] = @ \cup {r}]
  /\ UNCHANGED <<refused, served>>

Refuse(r) ==
  /\ r \in Outside
  /\ refused' = refused \cup {r}
  /\ UNCHANGED <<inside, served>>

Leave(r, l) ==
  /\ r \in inside[l]
  /\ inside' = [inside EXCEPT ![l] = @ \ {r}]
  /\ served' = served \cup {r}
  /\ UNCHANGED refused

\* One request leaves and its slot goes to another at once, never idle.
HandOver(r, q, l) ==
  /\ r \in inside[l]
  /\ q \in Outside
  /\ inside' = [inside EXCEPT ![l] = (@ \ {r}) \cup {q}]
  /\ served' = served \cup {r}
  /\ UNCHANGED refused

Next ==
  \/ \E r \in Requests : Refuse(r)
  \/ \E r \in Requests, l \in Lanes : Enter(r, l) \/ Leave(r, l)
  \/ \E r, q \in Requests, l \in Lanes : HandOver(r, q, l)

Spec == Init /\ [][Next]_vars
=================================================================================
