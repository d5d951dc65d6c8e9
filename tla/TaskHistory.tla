---------------------------- MODULE TaskHistory -----------------------------
(***************************************************************************)
(* What is left of the workflow when requests overlap.  A session validates*)
(* its move against the status it loaded, which another session may have   *)
(* replaced by the time the move is written.  So a new status is a valid   *)
(* successor of some status the task HAS held, not of the one it holds.    *)
(***************************************************************************)
EXTENDS TaskRules

CONSTANT Tasks

VARIABLES
  held,      \* the statuses each task has held; {} before its creation
  current    \* the status it holds, or "ABSENT"

vars == <<held, current>>

Init ==
  /\ held = [t \in Tasks |-> {}]
  /\ current = [t \in Tasks |-> "ABSENT"]

Create(t) ==
  /\ held[t] = {}
  /\ held' = [held EXCEPT ![t] = {"PENDING"}]
  /\ current' = [current EXCEPT ![t] = "PENDING"]

Move(t, to) ==
  /\ \E from \in held[t] : is_valid_transition(from, to)
  /\ held' = [held EXCEPT ![t] = @ \cup {to}]
  /\ current' = [current EXCEPT ![t] = to]

Next == \E t \in Tasks : Create(t) \/ \E to \in TaskStatus : Move(t, to)

Spec == Init /\ [][Next]_vars
=============================================================================
