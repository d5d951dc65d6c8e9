---------------------------- MODULE TaskQueries -----------------------------
(***************************************************************************)
(* What can be read of the tables tasks and employees: the lists with      *)
(* their scopes and filters, the single task, the statistics per employee  *)
(* and department, the overview and the overdue list.  The tables change   *)
(* by the commits of the services; how requests that write interleave is   *)
(* TaskService's subject, here each is one step.                           *)
(***************************************************************************)
EXTENDS TaskRules, Naturals, FiniteSets

CONSTANTS
  Tasks,        \* ids of tasks, numbered in the order of created_at
  Employees,    \* ids of employee profiles
  Departments,  \* ids of departments
  Users,        \* accounts that read
  RoleOf,       \* the role of each
  ProfileOf,    \* the employee profile of each, or Null
  Names,        \* values of full_name, in alphabetical order
  Dates,        \* values of due_date
  Now,          \* datetime.now()
  Tables,       \* tables of tasks to start from
  Staff,        \* tables of employees to start from
  Null          \* Python's None, SQL's NULL

ASSUME DomainsAssumption ==
  /\ Tasks \subseteq Nat /\ Names \subseteq Nat /\ Dates \subseteq Nat /\ Now \in Nat
  /\ IsFiniteSet(Tasks) /\ IsFiniteSet(Employees) /\ IsFiniteSet(Departments)
  /\ Null \notin Dates /\ Null \notin Departments /\ Null \notin Employees
  /\ Null \notin TaskStatus

ASSUME UsersAssumption ==
  RoleOf \in [Users -> Role] /\ ProfileOf \in [Users -> Employees \cup {Null}]

VARIABLES
  task,         \* table tasks, by id
  employee      \* table employees, by id

tables == <<task, employee>>

Row == [status: TaskStatus, assigned_to: Employees,
        department_id: Departments \cup {Null}, due_date: Dates \cup {Null},
        is_deleted: BOOLEAN]

Profile == [full_name: Names, department_id: Departments, is_active: BOOLEAN]

ASSUME TablesAssumption ==
  /\ \A T \in Tables : DOMAIN T \subseteq Tasks /\ T \in [DOMAIN T -> Row]
  /\ \A E \in Staff : E \in [Employees -> Profile]

TablesOK ==
  /\ DOMAIN task \subseteq Tasks
  /\ task \in [DOMAIN task -> Row]
  /\ employee \in [Employees -> Profile]

-----------------------------------------------------------------------------
(* Commits of the services                                                 *)

Undeleted == {t \in DOMAIN task : ~task[t].is_deleted}

(* An id below one already taken: created_at is stamped when the row is    *)
(* flushed, and requests commit in another order than they flush.          *)
create_task(t, e, d, due) ==
  /\ t \notin DOMAIN task
  /\ employee[e].is_active
  /\ task' = [x \in DOMAIN task \cup {t} |->
                IF x = t THEN [status |-> "PENDING", assigned_to |-> e, department_id |-> d,
                               due_date |-> due, is_deleted |-> FALSE]
                ELSE task[x]]
  /\ UNCHANGED employee

(* exclude_none: a due date is set or replaced, never removed.             *)
update_task(t, due) ==
  /\ t \in Undeleted
  /\ due # Null
  /\ task' = [task EXCEPT ![t].due_date = due]
  /\ UNCHANGED employee

(* Requests that overlap may skip a step, none leads back to PENDING.      *)
update_task_status(t, status) ==
  /\ t \in Undeleted
  /\ \E s \in TaskStatus : is_valid_transition(s, status)
  /\ task' = [task EXCEPT ![t].status = status]
  /\ UNCHANGED employee

reassign_task(t, e) ==
  /\ t \in Undeleted
  /\ employee[e].is_active
  /\ task' = [task EXCEPT ![t].assigned_to = e]
  /\ UNCHANGED employee

delete_task(t) ==
  /\ t \in Undeleted
  /\ task' = [task EXCEPT ![t].is_deleted = TRUE]
  /\ UNCHANGED employee

(* Both columns are optional in the body.                                  *)
update_employee(e, name, d) ==
  /\ employee[e].is_active
  /\ employee' = [employee EXCEPT ![e].full_name = name, ![e].department_id = d]
  /\ UNCHANGED task

(* Its tasks stay assigned to it.                                          *)
delete_employee(e) ==
  /\ employee[e].is_active
  /\ employee' = [employee EXCEPT ![e].is_active = FALSE]
  /\ UNCHANGED task

Commit ==
  \/ \E t \in Tasks, due \in Dates \cup {Null} :
       \/ \E e \in Employees, d \in Departments \cup {Null} : create_task(t, e, d, due)
       \/ update_task(t, due)
  \/ \E t \in Tasks, s \in TaskStatus : update_task_status(t, s)
  \/ \E t \in Tasks, e \in Employees : reassign_task(t, e)
  \/ \E t \in Tasks : delete_task(t)
  \/ \E e \in Employees, name \in Names, d \in Departments : update_employee(e, name, d)
  \/ \E e \in Employees : delete_employee(e)

-----------------------------------------------------------------------------
(* The statistics                                                          *)

Closed == {"COMPLETED", "CANCELLED"}

(* The loop's test: t.due_date and t.due_date < now and not yet closed.    *)
Overdue(t) ==
  /\ task[t].due_date # Null
  /\ task[t].due_date < Now
  /\ task[t].status \notin Closed

(* Variant: a task is late at the instant it is due.                       *)
Stats_atOnce(S) ==
  [total |-> Cardinality(S),
   of |-> [s \in TaskStatus |-> Cardinality({t \in S : task[t].status = s})],
   overdue |-> Cardinality({t \in S : Overdue(t) \/ task[t].due_date = Now})]

(* The counters the three reports fill from the rows they load.            *)
Stats(S) ==
  [total |-> Cardinality(S),
   of |-> [s \in TaskStatus |-> Cardinality({t \in S : task[t].status = s})],
   overdue |-> Cardinality({t \in S : Overdue(t)})]

get_overview == Stats(Undeleted)

get_department_analytics(d) == Stats({t \in Undeleted : task[t].department_id = d})

(* Defined for an active employee, 404 otherwise.                          *)
get_employee_stats(e) == Stats({t \in Undeleted : task[t].assigned_to = e})

(* A WHERE clause: a comparison with NULL selects nothing.                 *)
get_overdue_tasks ==
  {t \in DOMAIN task : /\ task[t].due_date \in {x \in Dates : x < Now}
                       /\ ~task[t].is_deleted
                       /\ task[t].status \notin Closed}

-----------------------------------------------------------------------------
(* The lists.  dept is the department of the reader's profile as loaded    *)
(* with the reader, Null without a profile.                                *)

InScope(u, dept, t) ==
  CASE RoleOf[u] = "EMPLOYEE" -> ProfileOf[u] # Null /\ task[t].assigned_to = ProfileOf[u]
    [] RoleOf[u] = "MANAGER" /\ ProfileOf[u] # Null -> task[t].department_id = dept
    [] OTHER -> TRUE

(* filters: status, assigned_to and department_id, each None when not      *)
(* asked for.  (priority and search select rows like status does.)         *)
list_tasks(u, dept, filters) ==
  {t \in Undeleted :
     /\ InScope(u, dept, t)
     /\ filters.status \in {Null, task[t].status}
     /\ filters.assigned_to \in {Null, task[t].assigned_to}
     /\ filters.department_id \in {Null, task[t].department_id}}

(* get_task answers 403 outside of it.                                     *)
CanOpen(u, t) ==
  /\ t \in Undeleted
  /\ RoleOf[u] = "EMPLOYEE" =>
       ProfileOf[u] # Null /\ task[t].assigned_to = ProfileOf[u]

get_employee_tasks(e) == {t \in Undeleted : task[t].assigned_to = e}

list_employees(u, dept) ==
  {e \in Employees :
     /\ employee[e].is_active
     /\ RoleOf[u] = "MANAGER" /\ ProfileOf[u] # Null => employee[e].department_id = dept}

get_department_employees(d) ==
  {e \in Employees : employee[e].is_active /\ employee[e].department_id = d}

-----------------------------------------------------------------------------
(* Properties of the reads                                                 *)

NoFilter == [status |-> Null, assigned_to |-> Null, department_id |-> Null]

DepartmentOf(u) ==
  IF ProfileOf[u] = Null THEN Null ELSE employee[ProfileOf[u]].department_id

(* Two functions decide what a reader may see, the list by a WHERE clause  *)
(* and the single task by a check after loading.  They agree: what is      *)
(* listed can be opened, and an employee lists all that they can open.     *)
ListsMatchAccess ==
  \A u \in Users :
    LET listed == list_tasks(u, DepartmentOf(u), NoFilter)
        open == {t \in DOMAIN task : CanOpen(u, t)}
    IN  listed \subseteq open /\ (RoleOf[u] = "EMPLOYEE" => listed = open)

(* The sum of the values of f, as the number of pairs of an argument x and *)
(* a number up to f[x]: proofs can count pairs, but not unfold a fold.     *)
Units(f) == UNION {{x} \X (1..f[x]) : x \in DOMAIN f}

SumOf(f) == Cardinality(Units(f))

(* The reports are computed by four functions, in Python loops and in SQL; *)
(* they tell one story.  The overview is the sum of the departments and of *)
(* the tasks without one; it exceeds the sum over the active employees by  *)
(* the tasks a deactivated employee still holds; its overdue count is the  *)
(* length of the overdue list, its count of a status what an admin gets    *)
(* who lists that status.                                                  *)
ReportsAgree ==
  LET overdue == get_overdue_tasks
      active == {e \in Employees : employee[e].is_active}
      homeless == {t \in Undeleted : task[t].department_id = Null}
      orphaned == {t \in Undeleted : task[t].assigned_to \notin active}
      overview == get_overview
  IN  /\ overview.overdue = Cardinality(overdue)
      /\ \A s \in TaskStatus, u \in {v \in Users : RoleOf[v] = "ADMIN"} :
           overview.of[s] =
             Cardinality(list_tasks(u, DepartmentOf(u), [NoFilter EXCEPT !.status = s]))
      /\ overview.total = Cardinality(homeless) +
           SumOf([d \in Departments |-> get_department_analytics(d).total])
      /\ overview.overdue = Cardinality(homeless \cap overdue) +
           SumOf([d \in Departments |-> get_department_analytics(d).overdue])
      /\ overview.total = Cardinality(orphaned) +
           SumOf([e \in active |-> get_employee_stats(e).total])
      /\ overview.overdue = Cardinality(orphaned \cap overdue) +
           SumOf([e \in active |-> get_employee_stats(e).overdue])

(* The two together: whichever way the tables are read, they say the same. *)
ReadsAgree == ListsMatchAccess /\ ReportsAgree
=============================================================================
