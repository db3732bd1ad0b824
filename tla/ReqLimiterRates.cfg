\* Five requests that race for the counters of two clients, with a limit of 1.
CONSTANTS
  r1 = r1
  r2 = r2
  r3 = r3
  r4 = r4
  r5 = r5
  c1 = c1
  c2 = c2
  none = none
  Requests = {r1, r2, r3, r4, r5}
  NoRequest = none
  Clients = {c1, c2}
  MaxReqCount = 5
  ReqsPerMinuteLimit = 3
  Window = 2
  Timeout = 1
  Paths = {"other"}
  Horizon = 2
SPECIFICATION Spec
SYMMETRY RequestSymmetry
INVARIANTS AtMostOneUncounted HalfMinuteBound
PROPERTIES RefusedOnlyOverLimit
