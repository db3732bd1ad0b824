\* Three calls that store two keys into a cache for one item.
CONSTANTS
  c1 = c1
  c2 = c2
  c3 = c3
  k1 = k1
  k2 = k2
  m1 = m1
  m2 = m2
  Nobody = nobody
  Calls = {c1, c2, c3}
  Keys = {k1, k2}
  Methods = {m1}
  Method <- CrowdedMethod
  MaxSize <- CrowdedSize
  LifeTime <- CrowdedLifeTime
  MaxEpoch = 3
SPECIFICATION Spec
SYMMETRY CallSymmetry
INVARIANTS SizeBound
PROPERTIES ReadsSpec
