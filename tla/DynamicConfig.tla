------------------------------ MODULE DynamicConfig ------------------------------
(***************************************************************************)
(* The dynamic configuration: config/dynamic.go.  Every minute a loop asks *)
(* for the time the file was modified and reads the file if that is later  *)
(* than when it was read last.  The file is written meanwhile, in parts,   *)
(* and may be away for a while.  The first look is made before the program *)
(* starts: a file that is there and cannot be read stops it.               *)
(***************************************************************************)
EXTENDS Naturals

CONSTANTS
  Contents,     \* what the file may say
  LastTime      \* writes happen at times 1 to this

\* A file that is written is not JSON until it is complete.
Partial == "partial"
\* A configuration without a link.
Empty == "empty"

VARIABLES
  file,        \* what the file says
  modified,    \* when it was modified
  present,     \* whether it is there
  update,      \* where updateIfNeeded is
  fileInfo,    \* the time it was told
  modTime,     \* holder.modTime, 0 for nil
  config,      \* holder.config
  away,        \* history: the configuration was emptied since modTime
  rewritten    \* history: times at which the file was written again

configVars == <<file, modified, present, update, fileInfo, modTime, config, away,
                rewritten>>

ConfigInit ==
  /\ file \in Contents /\ modified = 1 /\ present = TRUE
  /\ update = "starting" /\ fileInfo = 0
  /\ modTime = 0 /\ config = Empty
  /\ away = FALSE /\ rewritten = {}

Untouched == UNCHANGED <<update, fileInfo, modTime, config, away>>

\* Time passes or not, as fine as the file system tells it.
Write ==
  /\ present
  /\ file # Partial
  /\ file' = Partial
  /\ modified' \in {modified, modified + 1} \cap 1..LastTime
  /\ rewritten' = IF modified' = modified THEN rewritten \cup {modified} ELSE rewritten
  /\ UNCHANGED present /\ Untouched

Complete ==
  /\ file = Partial
  /\ file' \in Contents
  /\ UNCHANGED <<modified, present, rewritten>> /\ Untouched

\* The file is moved away and back, which keeps its time.
Move ==
  /\ file # Partial
  /\ present' = ~present
  /\ UNCHANGED <<file, modified, rewritten>> /\ Untouched

\* os.Stat and the comparison of the times.
Stat ==
  /\ update \in {"starting", "sleeping"}
  /\ IF ~present THEN
          /\ config' = Empty
          /\ away' = TRUE
          /\ update' = "sleeping"
          /\ UNCHANGED fileInfo
     ELSE /\ fileInfo' = modified
          /\ update' = IF modified <= modTime THEN "sleeping"
                       ELSE IF update = "starting" THEN "first" ELSE "reading"
          /\ UNCHANGED <<config, away>>
  /\ UNCHANGED <<file, modified, present, modTime, rewritten>>

\* A variant that notes the time before it reads.
NoteAndRead ==
  /\ update \in {"first", "reading"}
  /\ modTime' = fileInfo
  /\ config' = IF present /\ file # Partial THEN file ELSE config
  /\ away' = FALSE
  /\ update' = "sleeping"
  /\ UNCHANGED <<file, modified, present, fileInfo, rewritten>>

\* readDynamicConfig: what cannot be read is tried again, but for the first time.
ReadFile ==
  /\ update \in {"first", "reading"}
  /\ IF present /\ file # Partial THEN
          /\ modTime' = fileInfo /\ config' = file /\ away' = FALSE
          /\ update' = "sleeping"
     ELSE /\ update' = IF update = "first" THEN "panicked" ELSE "sleeping"
          /\ UNCHANGED <<modTime, config, away>>
  /\ UNCHANGED <<file, modified, present, fileInfo, rewritten>>

ConfigNext == Write \/ Complete \/ Move \/ Stat \/ ReadFile

--------------------------------------------------------------------------------
(* Properties.                                                             *)

\* When the loop has read a file of this time, the configuration is what the
\* file says, or the file was away since, or it was written again within the
\* time the file system can tell: then it stays another until the next write.
ConfigFollows ==
  update = "sleeping" /\ modTime = modified /\ file # Partial =>
    \/ config = file
    \/ away
    \/ modified \in rewritten

================================================================================
