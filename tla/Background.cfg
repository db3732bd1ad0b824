\* Two requests, four change logs, six lines, two configurations, three tables.
CONSTANTS
  r1 = r1
  r2 = r2
  c1 = c1
  c2 = c2
  t1 = t1
  t2 = t2
  t3 = t3
  Requests = {r1, r2}
  LastMoment = 3
  LastVersion = 4
  Length <- Lengths
  Links = 2
  Malformed = {4}
  MaxLines = 6
  Contents = {c1, c2}
  LastTime = 3
  Tables = {t1, t2, t3}
  Hash <- Hashes
  Edits = 3
SPECIFICATION Spec
CHECK_DEADLOCK FALSE
INVARIANTS TwiceOnlyIfCaught MaxAsReported  MissedOnlyByLength ParsedOwn ConfigFollows
PROPERTIES EveryReported EndpointsServed
