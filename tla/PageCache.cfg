\* Four requests with two tokens or none, and memory for two tokens at a time.
CONSTANTS
  r1 = r1
  r2 = r2
  r3 = r3
  r4 = r4
  t1 = t1
  t2 = t2
  a1 = a1
  a2 = a2
  NoToken = none
  Nil = nil
  Requests = {r1, r2, r3, r4}
  Tokens = {t1, t2}
  Addresses = {a1, a2}
  LifeTime = 2
SPECIFICATION Spec
SYMMETRY RequestSymmetry
INVARIANTS FirstPageIsFirst MixedOnlyWithThePast
