----------------------------- MODULE MCNetworkSize -----------------------------
(* Instances of NetworkSize for TLC.                                       *)
EXTENDS NetworkSize

=================================================================================
