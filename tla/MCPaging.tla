------------------------------ MODULE MCPaging ------------------------------
(* Instances of Paging for TLC: an admin, a manager of d1, and two         *)
(* employees, one of them without a profile.                               *)
EXTENDS Paging, TLC

CONSTANTS admin, manager, worker, newcomer,   \* users
          e1, e2,                             \* profiles of manager and worker
          d1

MCRoleOf == [u \in Users |-> CASE u = admin -> "ADMIN"
                               [] u = manager -> "MANAGER"
                               [] OTHER -> "EMPLOYEE"]
MCProfileOf == [u \in Users |-> CASE u = manager -> e1 [] u = worker -> e2 [] OTHER -> Null]

MCStaff == {[e \in Employees |-> [full_name |-> IF e = e1 THEN 1 ELSE 2,
                                    department_id |-> d1, is_active |-> TRUE]]}

Live(s, e, d, due) == [status |-> s, assigned_to |-> e, department_id |-> d,
                       due_date |-> due, is_deleted |-> FALSE]

(* Open tasks of the worker in d1, with or without due dates.              *)
Plain == {Live("PENDING", e2, d1, due) : due \in {1, Null}}

(* Pairwise: each two of status, assignee and department meet.             *)
Varied == {Live(IF s THEN "PENDING" ELSE "COMPLETED", IF e THEN e1 ELSE e2,
                IF s = e THEN d1 ELSE Null, 1) : s, e \in BOOLEAN}

(* Plain tasks with room for others between, before or after them, a full  *)
(* table, and a task of any kind beside a plain one.                       *)
MCTables ==
  UNION {[D -> Plain] : D \in {{}, {2}, {1, 3}}}
  \cup {<<Live("PENDING", e2, d1, 2), Live("PENDING", e2, d1, Null), Live("PENDING", e2, d1, 1)>>}
  \cup {<<row, Live("PENDING", e2, d1, 1)>> : row \in Varied}

Ask(op, u, f, by, order, size) ==
  [op |-> op, reader |-> u, filters |-> f, sort_by |-> by, sort_order |-> order,
   page_size |-> size]

MCQueries ==
  { Ask("list_tasks", worker, NoFilter, "created_at", "desc", 1),
    Ask("list_tasks", manager, NoFilter, "due_date", "asc", 1),
    Ask("list_tasks", admin, [NoFilter EXCEPT !.status = "PENDING"], "due_date", "desc", 2),
    Ask("get_employee_tasks", manager, [NoFilter EXCEPT !.assigned_to = e2], "created_at", "desc", 2),
    Ask("list_employees", manager, NoFilter, "created_at", "asc", 1),
    Ask("get_department_employees", newcomer, [NoFilter EXCEPT !.department_id = d1],
        "created_at", "asc", 1) }
=============================================================================
