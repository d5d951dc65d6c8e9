---------------------------- MODULE MCDirectory -----------------------------
(* Instances of Directory for TLC.  Slots, primary keys and values are only*)
(* compared, so each set is symmetric.                                     *)
EXTENDS Directory, TLC

MCSymmetry ==
  Permutations(Requests) \cup Permutations(Ids) \cup Permutations(Values)
=============================================================================
