\* Three requests for one slot of each channel, with timeouts and hanging handlers.
CONSTANTS
  r1 = r1
  r2 = r2
  r3 = r3
  c1 = c1
  none = none
  Requests = {r1, r2, r3}
  NoRequest = none
  Clients = {c1}
  MaxReqCount = 1
  ReqsPerMinuteLimit = 4
  Window = 1
  Timeout = 1
  Paths = {"adjacent", "other"}
  Horizon = 1
SPECIFICATION FairSpec
INVARIANTS TypeOK SlotsConserved NoIdleSlot
PROPERTIES GateSpec NobodyStuck
