----------------------------- MODULE TaskRules -----------------------------
(* The constant tables of the task workflow: statuses, roles and the       *)
(* transitions each role may make (models/task.py, models/user.py and the  *)
(* table inside task_service.update_task_status).                          *)

TaskStatus ==
  {"PENDING", "IN_PROGRESS", "UNDER_REVIEW", "COMPLETED", "CANCELLED"}

Role == {"ADMIN", "MANAGER", "EMPLOYEE"}

(* Pairs <<from, to>>; COMPLETED and CANCELLED have no successor.          *)
VALID_TRANSITIONS ==
  { <<"PENDING", "IN_PROGRESS">>,      <<"PENDING", "CANCELLED">>,
    <<"IN_PROGRESS", "UNDER_REVIEW">>, <<"IN_PROGRESS", "CANCELLED">>,
    <<"UNDER_REVIEW", "COMPLETED">>,   <<"UNDER_REVIEW", "IN_PROGRESS">> }

is_valid_transition(from, to) == <<from, to>> \in VALID_TRANSITIONS

(* The two moves an employee may make on a task of their own.              *)
allowed_for_employee ==
  { <<"PENDING", "IN_PROGRESS">>, <<"IN_PROGRESS", "UNDER_REVIEW">> }

=============================================================================
