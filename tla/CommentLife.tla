---------------------------- MODULE CommentLife -----------------------------
(***************************************************************************)
(* The life of a comment as a reader of a task sees it: it is written once,*)
(* may be edited (and then says so for good), may be removed, and a comment*)
(* that was removed does not come back.                                    *)
(***************************************************************************)
CONSTANT Comments

VARIABLE stage   \* of each comment: "unwritten", "fresh", "edited" or "gone"

Init == stage = [c \in Comments |-> "unwritten"]

Write(c) ==
  /\ stage[c] = "unwritten"
  /\ stage' = [stage EXCEPT ![c] = "fresh"]

Edit(c) ==
  /\ stage[c] = "fresh"
  /\ stage' = [stage EXCEPT ![c] = "edited"]

Remove(c) ==
  /\ stage[c] \in {"fresh", "edited"}
  /\ stage' = [stage EXCEPT ![c] = "gone"]

Next == \E c \in Comments : Write(c) \/ Edit(c) \/ Remove(c)

Spec == Init /\ [][Next]_stage
=============================================================================
