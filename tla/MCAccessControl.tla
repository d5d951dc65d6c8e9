-------------------------- MODULE MCAccessControl ---------------------------
(* Instances of AccessControl for TLC: request slots are interchangeable.  *)
EXTENDS AccessControl, TLC

RequestSymmetry == Permutations(Requests)
=============================================================================
