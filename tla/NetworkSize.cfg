\* Three calls, two connections; a size lives three ticks and an error one.
CONSTANTS
  c1 = c1
  c2 = c2
  c3 = c3
  Nobody = nobody
  Calls = {c1, c2, c3}
  MaxConns = 2
  SuccessLife = 3
  ErrLife = 1
SPECIFICATION FairSpec
INVARIANTS TypeOK SingleFlight
PROPERTIES Throttled AnsweredUnlessHung
