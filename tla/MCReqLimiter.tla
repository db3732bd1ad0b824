------------------------------ MODULE MCReqLimiter ------------------------------
(* Instances of ReqLimiter for TLC.                                        *)
EXTENDS ReqLimiter, TLC

RequestSymmetry == Permutations(Requests)
=================================================================================
