------------------------- MODULE MCRequestPipeline --------------------------
(* Instances of RequestPipeline for TLC: a pool that the requests fill,    *)
(* as they fill thirty connections under load.                             *)
EXTENDS RequestPipeline, TLC

RequestSymmetry == Permutations(Requests)
=============================================================================
