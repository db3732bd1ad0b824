\* Two calls on two caches while the epoch changes twice: flushes, stragglers.
CONSTANTS
  c1 = c1
  c2 = c2
  k1 = k1
  k2 = k2
  m1 = m1
  m2 = m2
  Nobody = nobody
  Calls = {c1, c2}
  Keys = {k1, k2}
  Methods = {m1, m2}
  Method <- PairMethod
  MaxSize <- PairSize
  LifeTime <- PairLifeTime
  MaxEpoch = 2
SPECIFICATION FairSpec
INVARIANTS TypeOK StaleOnlyFromStragglers
PROPERTIES OldEpochsForgotten CallsReturn
