------------------------------- MODULE ChangeLog -------------------------------
(***************************************************************************)
(* The change log: app/changelog/changelog.go.  Every five minutes a loop  *)
(* fetches the main file; if its length is another, it fetches the files   *)
(* it links to, parses them and publishes two maps, one after the other,   *)
(* which requests read without a lock.                                     *)
(*                                                                         *)
(* A version stands for the content of the main file and of what it links  *)
(* to.                                                                     *)
(***************************************************************************)
EXTENDS Naturals

CONSTANTS
  LastVersion,   \* versions of the main file, at most
  Length,        \* the length of each: two may have the same
  Links,         \* how many files a version links to
  Malformed      \* versions with an item that links to nothing

\* An empty file has nothing to publish.
ASSUME ChangeLogAssumption ==
  /\ LastVersion \in Nat \ {0}
  /\ \A v \in 1..LastVersion : Length[v] \in Nat \ {0}

VARIABLES
  source,        \* the version at srcUrl
  prevLen,       \* prevLen
  refresh,       \* where the loop is
  fetched,       \* the version of the main file it has fetched
  linked,        \* how many files it has fetched
  changeLogs,    \* changeLogsByVersion: the version it was read from
  urls,          \* urlsByUpgrade: the same
  looked,        \* history: versions of the main file that were fetched
  given          \* history: versions whose files were given up

logVars == <<source, prevLen, refresh, fetched, linked, changeLogs, urls, looked,
             given>>

\* What is published before the first refresh.
Nowhere == [version |-> 0, files |-> Links]

LogInit ==
  /\ source = 1
  /\ prevLen = 0
  /\ refresh = "sleeping"
  /\ fetched = 0
  /\ linked = 0
  /\ changeLogs = Nowhere /\ urls = Nowhere
  /\ looked = {} /\ given = {}

NewVersion ==
  /\ source < LastVersion
  /\ source' = source + 1
  /\ UNCHANGED <<prevLen, refresh, fetched, linked, changeLogs, urls, looked, given>>

\* An error leaves everything as it is.  parseMainChangeLog panics when an item
\* of the list has no link, and nothing recovers: the process ends.
FetchMain ==
  /\ refresh = "sleeping"
  /\ looked' = looked \cup {source}
  /\ IF Length[source] = prevLen
     THEN UNCHANGED <<refresh, prevLen, fetched, linked>>
     ELSE /\ prevLen' = Length[source]
          /\ fetched' = source
          /\ linked' = 0
          /\ refresh' = IF source \in Malformed THEN "panicked" ELSE "linking"
  /\ UNCHANGED <<source, changeLogs, urls, given>>

FetchLinked ==
  /\ refresh = "linking"
  /\ linked < Links
  /\ linked' = linked + 1
  /\ UNCHANGED <<source, prevLen, refresh, fetched, changeLogs, urls, looked, given>>

\* A fetch fails: the length stays noted.
LinkedFails ==
  /\ refresh = "linking"
  /\ linked < Links
  /\ refresh' = "sleeping"
  /\ given' = given \cup {fetched}
  /\ UNCHANGED <<source, prevLen, fetched, linked, changeLogs, urls, looked>>

\* A variant that goes on without the rest of the files.
PublishPart ==
  /\ refresh = "linking"
  /\ changeLogs' = [version |-> fetched, files |-> linked]
  /\ refresh' = "publishing"
  /\ UNCHANGED <<source, prevLen, fetched, linked, urls, looked, given>>

PublishLogs ==
  /\ refresh = "linking"
  /\ linked = Links
  /\ changeLogs' = [version |-> fetched, files |-> linked]
  /\ refresh' = "publishing"
  /\ UNCHANGED <<source, prevLen, fetched, linked, urls, looked, given>>

\* A variant that notes the length when it is done.
PublishAndNote ==
  /\ refresh = "publishing"
  /\ urls' = changeLogs
  /\ prevLen' = Length[source]
  /\ refresh' = "sleeping"
  /\ UNCHANGED <<source, fetched, linked, changeLogs, looked, given>>

PublishUrls ==
  /\ refresh = "publishing"
  /\ urls' = changeLogs
  /\ refresh' = "sleeping"
  /\ UNCHANGED <<source, prevLen, fetched, linked, changeLogs, looked, given>>

LogNext ==
  \/ NewVersion
  \/ FetchMain \/ FetchLinked \/ LinkedFails \/ PublishLogs \/ PublishUrls

--------------------------------------------------------------------------------
(* Properties.                                                             *)

\* Requests never see the changes of a part of the files, and see addresses of
\* other changes only while both are replaced, never newer ones.
PublishedWhole ==
  /\ changeLogs.files = Links /\ urls.files = Links
  /\ urls.version <= changeLogs.version
  /\ refresh = "sleeping" => urls = changeLogs

\* A version the loop no longer looks for, because it has noted its length, is
\* the published one, or its files were given up, or another of that length
\* was fetched.  (Then it stays unpublished until the length changes.)
MissedOnlyByLength ==
  refresh = "sleeping" /\ prevLen = Length[source] =>
    \/ changeLogs.version = source
    \/ source \in given
    \/ \E v \in looked \ {source} : Length[v] = Length[source]

================================================================================
