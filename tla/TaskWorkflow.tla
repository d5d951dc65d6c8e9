---------------------------- MODULE TaskWorkflow ----------------------------
(***************************************************************************)
(* The workflow of one task as README.md:14-23 documents it, roles         *)
(* included: it walks PENDING, IN_PROGRESS, UNDER_REVIEW, COMPLETED one    *)
(* step at a time, a manager may send it back from review, any active task *)
(* may be cancelled, and every change is logged with who made it.  Beyond  *)
(* the README: the stamps, and that nothing moves once it is deleted.      *)
(***************************************************************************)
EXTENDS TaskRules

CONSTANT Cancellers   \* the roles that may cancel; README.md:20 has only "ADMIN"

VARIABLES
  phase,      \* "ABSENT", or the status of the task
  started,    \* has a start time
  completed,  \* has a completion time
  deleted,    \* soft-deleted
  trail       \* what the log tells: <<from, to, role>> of each move made

vars == <<phase, started, completed, deleted, trail>>

Init ==
  /\ phase = "ABSENT"
  /\ ~started /\ ~completed /\ ~deleted
  /\ trail = {}

Create ==
  /\ phase = "ABSENT"
  /\ phase' = "PENDING"
  /\ UNCHANGED <<started, completed, deleted, trail>>

Forward ==
  { <<"PENDING", "IN_PROGRESS">>, <<"IN_PROGRESS", "UNDER_REVIEW">>,
    <<"UNDER_REVIEW", "COMPLETED">> }

Active == {"PENDING", "IN_PROGRESS", "UNDER_REVIEW"}

Documented(from, to, role) ==
  \/ <<from, to>> \in Forward
  \/ from = "UNDER_REVIEW" /\ to = "IN_PROGRESS" /\ role # "EMPLOYEE"
  \/ from \in Active /\ to = "CANCELLED" /\ role \in Cancellers

Move(to, role) ==
  /\ ~deleted
  /\ Documented(phase, to, role)
  /\ phase' = to
  /\ started' = (started \/ to = "IN_PROGRESS")
  /\ completed' = (completed \/ to = "COMPLETED")
  /\ trail' = trail \cup {<<phase, to, role>>}
  /\ UNCHANGED deleted

Delete ==
  /\ phase # "ABSENT"
  /\ ~deleted
  /\ deleted' = TRUE
  /\ UNCHANGED <<phase, started, completed, trail>>

Next ==
  \/ Create
  \/ \E to \in TaskStatus, role \in Role : Move(to, role)
  \/ Delete

Spec == Init /\ [][Next]_vars
=============================================================================
