---------------------------- MODULE ChangeLogParser ----------------------------
(***************************************************************************)
(* parseChangeLog of app/changelog/changelog.go: three nested loops that   *)
(* take one line after another from the same place.                        *)
(*                                                                         *)
(* A line is abstracted to its kind: "head" begins the entry of a version, *)
(* "fork" its section on an upgrade, "section" another, "change" an item.  *)
(* The number of a line stands for the version or the upgrade it names.    *)
(* Heads of versions with a patch, and lines of no kind, are passed over   *)
(* by every loop and left out.                                             *)
(***************************************************************************)
EXTENDS Naturals, Sequences, FiniteSets

CONSTANT MaxLines

ASSUME ParserAssumption == MaxLines \in Nat

LineKinds == {"head", "fork", "section", "change"}

VARIABLES
  lines,     \* the kinds of the lines
  at,        \* i: how many lines are taken
  loop,      \* which loop takes the next
  version,   \* the head the inner loops read for
  parsed     \* res: the fork of a version and its changes

parserVars == <<lines, at, loop, version, parsed>>

ParserInit ==
  /\ lines \in UNION {[1..n -> LineKinds] : n \in 0..MaxLines}
  /\ at = 0
  /\ loop = "heads"
  /\ version = 0
  /\ parsed = [h \in {} |-> 0]

Put(h, entry) ==
  parsed' = [v \in DOMAIN parsed \cup {h} |-> IF v = h THEN entry ELSE parsed[v]]

TakeHead ==
  /\ loop = "heads"
  /\ IF lines[at + 1] = "head"
     THEN version' = at + 1 /\ loop' = "forks"
     ELSE UNCHANGED <<version, loop>>
  /\ UNCHANGED parsed

\* Any other line is skipped: the head of the next version as well.
TakeFork ==
  /\ loop = "forks"
  /\ IF lines[at + 1] = "fork"
     THEN Put(version, [fork |-> at + 1, changes |-> {}]) /\ loop' = "changes"
     ELSE UNCHANGED <<parsed, loop>>
  /\ UNCHANGED version

\* A variant that skips what is not a change.
TakeEveryChange ==
  /\ loop = "changes"
  /\ IF lines[at + 1] = "change"
     THEN Put(version, [parsed[version] EXCEPT !.changes = @ \cup {at + 1}])
     ELSE UNCHANGED parsed
  /\ UNCHANGED <<version, loop>>

\* The loop ends with the next header, which is taken, of whatever kind it is.
TakeChange ==
  /\ loop = "changes"
  /\ IF lines[at + 1] = "change"
     THEN /\ Put(version, [parsed[version] EXCEPT !.changes = @ \cup {at + 1}])
          /\ UNCHANGED loop
     ELSE loop' = "heads" /\ UNCHANGED parsed
  /\ UNCHANGED version

Take(take) ==
  /\ at < Len(lines)
  /\ take
  /\ at' = at + 1
  /\ UNCHANGED lines

ParserNext == Take(TakeHead) \/ Take(TakeFork) \/ Take(TakeChange)

--------------------------------------------------------------------------------
(* Properties.                                                             *)

Numbers == 1..Len(lines)
Heads == {h \in Numbers : lines[h] = "head"}
\* The lines of an entry, and the items of a section.
Entry(h) == {i \in Numbers : i > h /\ \A j \in (h + 1)..i : lines[j] # "head"}
Items(f) == {i \in Numbers : i > f /\ \A j \in (f + 1)..i : lines[j] = "change"}
IsFork(h, f) ==
  f \in Entry(h) /\ lines[f] = "fork" /\ \A i \in (h + 1)..(f - 1) : lines[i] # "fork"
HasFork(h) == \E f \in Entry(h) : lines[f] = "fork"
\* The entry before a head ends with a section that is not its fork.
Closed(h) ==
  \A p \in Heads : h - 1 \in Entry(p) \cup {p} =>
    \E f \in Entry(p) : IsFork(p, f) /\ \E i \in Entry(p) : i > f /\ i \notin Items(f)

\* A version that has a fork gets its own upgrade and just the changes of that
\* section, unless the entry before has no fork, or ends with it: then the head
\* is taken for a line of that entry, and the version may be missing.
ParsedOwn ==
  at = Len(lines) =>
    \A h \in Heads : HasFork(h) =>
      IF h \in DOMAIN parsed
      THEN IsFork(h, parsed[h].fork) /\ parsed[h].changes = Items(parsed[h].fork)
      ELSE ~Closed(h)

================================================================================
