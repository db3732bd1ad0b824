---------------------------- MODULE MCCachedAccessor ----------------------------
(* Instances of CachedAccessor for TLC.                                    *)
EXTENDS CachedAccessor, TLC

CONSTANTS k1, k2, m1, m2

CallSymmetry == Permutations(Calls)

\* One cache with two keys and room for one item.
CrowdedMethod == k1 :> m1 @@ k2 :> m1
CrowdedSize == m1 :> 1
CrowdedLifeTime == m1 :> 1

\* Two caches with a key each; their items live one tick and two.
PairMethod == k1 :> m1 @@ k2 :> m2
PairSize == m1 :> 1 @@ m2 :> 1
PairLifeTime == m1 :> 1 @@ m2 :> 2
=================================================================================
