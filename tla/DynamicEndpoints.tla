---------------------------- MODULE DynamicEndpoints ----------------------------
(***************************************************************************)
(* The dynamic endpoints: refreshDynamicEndpoints of app/api/server.go.    *)
(* The table of endpoints is loaded when the server starts and then every  *)
(* minute.  The values of its rows, joined without separators, are a hash; *)
(* with another hash, the hash and then the map of methods are replaced,   *)
(* which the handler data reads without a lock.                            *)
(***************************************************************************)
EXTENDS Naturals

CONSTANTS
  Tables,   \* contents of the table
  Hash,     \* the hash of each
  Edits     \* edits of the table, at most

VARIABLES
  rowsOf,   \* what the table holds
  edits,    \* how often it was edited
  loaded,   \* what the refresh has loaded
  step,     \* where the refresh is
  hash,     \* dynamicEndpointsHash
  served    \* dynamicEndpointsByMethod: the table it was made of

endpointVars == <<rowsOf, edits, loaded, step, hash, served>>

NoTable == "no table"

EndpointsInit ==
  /\ rowsOf \in Tables
  /\ edits = 0
  /\ loaded = NoTable
  /\ step = "sleeping"
  /\ hash = ""
  /\ served = NoTable

Edit ==
  /\ edits < Edits
  /\ edits' = edits + 1
  /\ rowsOf' \in Tables \ {rowsOf}
  /\ UNCHANGED <<loaded, step, hash, served>>

\* An error of the database leaves everything as it is.
Load ==
  /\ step = "sleeping"
  /\ loaded' = rowsOf
  /\ step' = IF Hash[rowsOf] = hash THEN "sleeping" ELSE "noting"
  /\ UNCHANGED <<rowsOf, edits, hash, served>>

NoteHash ==
  /\ step = "noting"
  /\ hash' = Hash[loaded]
  /\ step' = "publishing"
  /\ UNCHANGED <<rowsOf, edits, loaded, served>>

\* A variant that loads again what it publishes.
PublishAnew ==
  /\ step = "publishing"
  /\ served' = rowsOf
  /\ step' = "sleeping"
  /\ UNCHANGED <<rowsOf, edits, loaded, hash>>

Publish ==
  /\ step = "publishing"
  /\ served' = loaded
  /\ step' = "sleeping"
  /\ UNCHANGED <<rowsOf, edits, loaded, hash>>

EndpointsNext == Edit \/ Load \/ NoteHash \/ Publish

================================================================================
