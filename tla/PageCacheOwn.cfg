\* Two requests after one another with different tokens.
CONSTANTS
  r1 = r1
  r2 = r2
  t1 = t1
  t2 = t2
  a1 = a1
  NoToken = none
  Nil = nil
  Requests = {r1, r2}
  Tokens = {t1, t2}
  Addresses = {a1}
  LifeTime = 2
SPECIFICATION Spec
SYMMETRY RequestSymmetry
INVARIANTS OwnPage
