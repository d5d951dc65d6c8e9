---------------------------- MODULE TaskService ----------------------------
(***************************************************************************)
(* The task endpoints of the API as PostgreSQL transactions.               *)
(*                                                                         *)
(* Each HTTP request runs in a database session of its own (get_db).  A    *)
(* handler SELECTs the task, decides on the row it loaded, changes the     *)
(* loaded object, and the session writes it back: flush() sends an UPDATE  *)
(* of the columns that changed (taking the row lock) and the INSERTs of    *)
(* the activity log; get_db commits when the handler has returned.         *)
(* Between the SELECT and the UPDATE other requests may commit: the        *)
(* isolation level is PostgreSQL's default, READ COMMITTED, and no table   *)
(* has a version column.                                                   *)
(*                                                                         *)
(* A request that is refused before it changes anything (401, 403, 404,    *)
(* 422) leaves no trace in this state and is not an action; only a request *)
(* whose checks pass on the row it loads becomes a session here.           *)
(***************************************************************************)
EXTENDS Naturals, FiniteSets, TaskRules

CONSTANTS
  Requests,       \* session slots: the requests in flight at one time
  Tasks,          \* task ids (UUIDs)
  Users,
  Employees,      \* employee profiles
  Fields,         \* the columns PATCH /tasks/{id} may set; one is "title"
  Contents,       \* values of those columns
  Null,           \* SQL NULL / Python None
  RoleOf,         \* the role of each user
  ProfileOf,      \* the employee profile of each user, or Null
  MaxTicks        \* bound: flushes in one behaviour

LogActions == {"created", "status_changed", "reassigned", "deleted"}

ASSUME UsersAssumption ==
  /\ RoleOf \in [Users -> Role]
  /\ ProfileOf \in [Users -> Employees \cup {Null}]

ASSUME FieldsAssumption ==
  /\ "title" \in Fields
  /\ Fields \cap LogActions = {}

ASSUME NullAssumption ==
  /\ Null \notin Nat
  /\ Null \notin Employees

ASSUME MaxTicksAssumption == MaxTicks \in Nat

VARIABLES
  task,      \* table tasks: the committed rows, by id
  activity,  \* table task_activity_logs: the committed entries
  active,    \* employees whose row has is_active = True
  clock,     \* the server's clock: advances with every flush
  session    \* the unit of work of each request in flight

vars == <<task, activity, active, clock, session>>

Time == Nat \cup {Null}

(* A row of tasks.  data stands for the editable columns; department_id and*)
(* assigned_by, which no operation reads or changes, are left out.         *)
Row == [status: TaskStatus, assigned_to: Employees,
        data: [Fields -> Contents],
        started_at: Time, completed_at: Time, is_deleted: BOOLEAN]

LoggedValue == TaskStatus \cup Employees \cup Contents \cup {Null}

(* What _log_activity adds to the session; "updated_<field>" is <field>.   *)
Note == [action: LogActions \cup Fields, old: LoggedValue, new: LoggedValue]

(* A stored log entry: a note with its task, its actor and its timestamp.  *)
Entry == [task: Tasks, actor: Users, action: LogActions \cup Fields,
          old: LoggedValue, new: LoggedValue, at: Nat]

(* A unit of work: old is the row as loaded, new the object as changed.    *)
(*   loaded   the checks of a status change have passed, no stamp is taken *)
(*   lookup   the employee named by the request is still to be SELECTed    *)
(*   ready    the handler's checks have passed, nothing is written         *)
(*   flushed  the UPDATE and INSERTs are sent, the row lock is held        *)
Work == [pc: {"loaded", "lookup", "ready", "flushed"}, user: Users, task: Tasks,
         old: Row, new: Row, notes: SUBSET Note, at: Nat]

Idle == [pc |-> "idle"]

TypeOK ==
  /\ DOMAIN task \subseteq Tasks
  /\ task \in [DOMAIN task -> Row]
  /\ activity \subseteq Entry
  /\ active \subseteq Employees
  /\ clock \in Nat
  /\ session \in [Requests -> Work \cup {Idle}]

-----------------------------------------------------------------------------
(* Sessions                                                                *)

Busy == {r \in Requests : session[r] # Idle}

(* Bound: every session that has yet to flush has a tick reserved.         *)
TickLeft == clock + Cardinality({r \in Busy : session[r].pc # "flushed"}) < MaxTicks

note(action, old, new) == [action |-> action, old |-> old, new |-> new]

Open(r, pc, u, t, old, new, notes) ==
  /\ session[r] = Idle
  /\ TickLeft
  /\ session' = [session EXCEPT ![r] =
       [pc |-> pc, user |-> u, task |-> t, old |-> old, new |-> new,
        notes |-> notes, at |-> clock]]
  /\ UNCHANGED <<task, activity, active, clock>>

(* _get_task: the row must exist and not be soft-deleted.                  *)
Visible(t) == t \in DOMAIN task /\ ~task[t].is_deleted

AdminOrManager(u) == RoleOf[u] \in {"ADMIN", "MANAGER"}
AdminUser(u) == RoleOf[u] = "ADMIN"

-----------------------------------------------------------------------------
(* The handlers, from the load to the first write                          *)

(* POST /tasks.  The id is a fresh UUID; the row stays invisible to other  *)
(* sessions until the commit.                                              *)
create_task(r, u, t, e, data) ==
  LET row == [status |-> "PENDING", assigned_to |-> e, data |-> data,
              started_at |-> Null, completed_at |-> Null, is_deleted |-> FALSE]
  IN  /\ AdminOrManager(u)
      /\ t \notin DOMAIN task
      /\ \A q \in Busy : session[q].task # t
      /\ Open(r, "lookup", u, t, row, row, {note("created", Null, data["title"])})

(* PATCH /tasks/{id}: patch holds the fields the body sets; every one is   *)
(* logged, changed or not.                                                 *)
update_task(r, u, t, patch) ==
  LET old == task[t]
      new == [old EXCEPT !.data = [f \in Fields |->
                IF f \in DOMAIN patch THEN patch[f] ELSE old.data[f]]]
  IN  /\ AdminOrManager(u)
      /\ Visible(t)
      /\ Open(r, "ready", u, t, old, new,
              {note(f, old.data[f], patch[f]) : f \in DOMAIN patch})

(* Variant: the role is checked, the transition is not.                    *)
MayMove_anywhere(u, row, to) ==
  RoleOf[u] = "EMPLOYEE" => row.assigned_to = ProfileOf[u]

(* Variant: the transition is checked, the role is not.                    *)
MayMove_anyone(u, row, to) == is_valid_transition(row.status, to)

(* The checks of update_task_status on the loaded row.                     *)
MayMove(u, row, to) ==
  /\ is_valid_transition(row.status, to)
  /\ RoleOf[u] = "EMPLOYEE" =>
       /\ ProfileOf[u] # Null
       /\ row.assigned_to = ProfileOf[u]
       /\ <<row.status, to>> \in allowed_for_employee

(* PATCH /tasks/{id}/status, up to the answer of the SELECT: the checks    *)
(* look at the loaded row only, whatever has been committed since.         *)
update_task_status(r, u, t, to) ==
  /\ Visible(t)
  /\ MayMove(u, task[t], to)
  /\ Open(r, "loaded", u, t, task[t], [task[t] EXCEPT !.status = to],
          {note("status_changed", task[t].status, to)})

(* Variant: work counts as started when it is handed in.                   *)
Stamped_late(row, now) ==
  [row EXCEPT
     !.started_at = IF row.status = "UNDER_REVIEW" /\ @ = Null THEN now ELSE @,
     !.completed_at = IF row.status = "COMPLETED" THEN now ELSE @]

(* The automatic time stamps of a changed row.                             *)
Stamped(row, now) ==
  [row EXCEPT
     !.started_at = IF row.status = "IN_PROGRESS" /\ @ = Null THEN now ELSE @,
     !.completed_at = IF row.status = "COMPLETED" THEN now ELSE @]

(* The rest of update_task_status, up to the flush.  datetime.now comes    *)
(* after the await of the SELECT: the row loaded may be history by then.   *)
auto_timestamp(r) ==
  LET s == session[r]
  IN  /\ s # Idle
      /\ s.pc = "loaded"
      /\ session' = [session EXCEPT ![r] =
           [s EXCEPT !.pc = "ready", !.new = Stamped(s.new, clock)]]
      /\ UNCHANGED <<task, activity, active, clock>>

(* Variant: the old assignee is read after the new one is set.             *)
reassign_task_late(r, u, t, e) ==
  /\ AdminOrManager(u)
  /\ Visible(t)
  /\ Open(r, "lookup", u, t, task[t], [task[t] EXCEPT !.assigned_to = e],
          {note("reassigned", e, e)})

(* PATCH /tasks/{id}/assign: loads the task, then looks the employee up.   *)
reassign_task(r, u, t, e) ==
  /\ AdminOrManager(u)
  /\ Visible(t)
  /\ Open(r, "lookup", u, t, task[t], [task[t] EXCEPT !.assigned_to = e],
          {note("reassigned", task[t].assigned_to, e)})

(* Variant: the deletion is not logged.                                    *)
delete_task_unlogged(r, u, t) ==
  /\ AdminUser(u)
  /\ Visible(t)
  /\ Open(r, "ready", u, t, task[t], [task[t] EXCEPT !.is_deleted = TRUE], {})

(* DELETE /tasks/{id}: sets the flag; the row is kept.                     *)
delete_task(r, u, t) ==
  /\ AdminUser(u)
  /\ Visible(t)
  /\ Open(r, "ready", u, t, task[t], [task[t] EXCEPT !.is_deleted = TRUE],
          {note("deleted", Null, Null)})

(* Variant: the employee must exist, active or not.                        *)
lookup_assignee_any(r) ==
  /\ session[r] # Idle
  /\ session[r].pc = "lookup"
  /\ session' = [session EXCEPT ![r] = [@ EXCEPT !.pc = "ready"]]
  /\ UNCHANGED <<task, activity, active, clock>>

(* The second SELECT of create_task and reassign_task: 404 unless the      *)
(* employee exists and is active.                                          *)
lookup_assignee(r) ==
  /\ session[r] # Idle
  /\ session[r].pc = "lookup"
  /\ session' = [session EXCEPT ![r] =
       IF @.new.assigned_to \in active THEN [@ EXCEPT !.pc = "ready"] ELSE Idle]
  /\ UNCHANGED <<task, activity, active, clock>>

-----------------------------------------------------------------------------
(* The session: flush, commit, rollback                                    *)

(* An object none of whose columns changed is not written: SQLAlchemy      *)
(* sends no UPDATE for it and the session takes no row lock.               *)
Writes(s) == s.new # s.old

(* Variant: the row is locked by its SELECT, for the session itself too.   *)
LocksRow_early(s, t) == s # Idle /\ s.task = t /\ Writes(s)

LocksRow(s, t) == s # Idle /\ s.pc = "flushed" /\ s.task = t /\ Writes(s)

(* Variant: the log is stamped when its object is made, before the UPDATE. *)
flush_stampedEarly(r) ==
  /\ session[r] # Idle
  /\ session[r].pc = "ready"
  /\ Writes(session[r]) => \A q \in Requests : ~LocksRow(session[q], session[r].task)
  /\ clock' = clock + 1
  /\ session' = [session EXCEPT ![r] = [@ EXCEPT !.pc = "flushed"]]
  /\ UNCHANGED <<task, activity, active>>

(* flush(): the UPDATE waits for the row lock, then the log is inserted,   *)
(* stamped with the time of its INSERT.                                    *)
flush(r) ==
  /\ session[r] # Idle
  /\ session[r].pc = "ready"
  /\ Writes(session[r]) => \A q \in Requests : ~LocksRow(session[q], session[r].task)
  /\ clock' = clock + 1
  /\ session' = [session EXCEPT ![r] = [@ EXCEPT !.pc = "flushed", !.at = clock']]
  /\ UNCHANGED <<task, activity, active>>

(* Variant: an UPDATE that SETs every column of the loaded object.         *)
Column_always(stored, old, new) == new

(* A column of an UPDATE: only the changed ones are SET.                   *)
Column(stored, old, new) == IF new = old THEN stored ELSE new

UpdatedRow(stored, old, new) ==
  [status        |-> Column(stored.status, old.status, new.status),
   assigned_to   |-> Column(stored.assigned_to, old.assigned_to, new.assigned_to),
   data          |-> [f \in Fields |-> Column(stored.data[f], old.data[f], new.data[f])],
   started_at    |-> Column(stored.started_at, old.started_at, new.started_at),
   completed_at  |-> Column(stored.completed_at, old.completed_at, new.completed_at),
   is_deleted    |-> Column(stored.is_deleted, old.is_deleted, new.is_deleted)]

(* The row session s leaves in the table: an INSERT or an UPDATE.          *)
RowAfter(s) ==
  IF s.task \in DOMAIN task THEN UpdatedRow(task[s.task], s.old, s.new) ELSE s.new

Logged(s) ==
  { [task |-> s.task, actor |-> s.user, action |-> n.action,
     old |-> n.old, new |-> n.new, at |-> s.at] : n \in s.notes }

(* get_db after the handler returned: row and log become visible together. *)
commit(r) ==
  LET s == session[r]
  IN  /\ s # Idle
      /\ s.pc = "flushed"
      /\ task' = [t \in DOMAIN task \cup {s.task} |->
                    IF t = s.task THEN RowAfter(s) ELSE task[t]]
      /\ activity' = activity \cup Logged(s)
      /\ session' = [session EXCEPT ![r] = Idle]
      /\ UNCHANGED <<active, clock>>

(* Any failure before the commit - a database error, a value too long for  *)
(* the log's column, the client gone, the process killed - leaves nothing. *)
rollback(r) ==
  /\ session[r] # Idle
  /\ session' = [session EXCEPT ![r] = Idle]
  /\ UNCHANGED <<task, activity, active, clock>>

(* DELETE /employees/{id}, a request of another service: the profile is    *)
(* switched off, tasks assigned to it stay as they are.                    *)
delete_employee(e) ==
  /\ e \in active
  /\ active' = active \ {e}
  /\ UNCHANGED <<task, activity, clock, session>>

(* No request in flight and none arriving.                                 *)
Quiet == Busy = {} /\ UNCHANGED vars

-----------------------------------------------------------------------------
Init ==
  /\ task = [t \in {} |-> Null]
  /\ activity = {}
  /\ active = Employees
  /\ clock = 0
  /\ session = [r \in Requests |-> Idle]

Patches == UNION {[F -> Contents] : F \in SUBSET Fields}

Handler(r) ==
  \E u \in Users, t \in Tasks :
    \/ \E e \in Employees, data \in [Fields -> Contents] :
         create_task(r, u, t, e, data)
    \/ \E patch \in Patches : update_task(r, u, t, patch)
    \/ \E to \in TaskStatus : update_task_status(r, u, t, to)
    \/ \E e \in Employees : reassign_task(r, u, t, e)
    \/ delete_task(r, u, t)

Next ==
  \/ \E r \in Requests :
       \/ Handler(r)
       \/ auto_timestamp(r)
       \/ lookup_assignee(r)
       \/ flush(r)
       \/ commit(r)
       \/ rollback(r)
  \/ \E e \in Employees : delete_employee(e)
  \/ Quiet

Spec == Init /\ [][Next]_vars

(* A handler runs on once its statements return.  An UPDATE that waits for *)
(* a row lock waits in PostgreSQL's queue, so it is not overtaken for ever:*)
(* strong fairness of flush.  New requests and failures are never forced.  *)
Fairness ==
  \A r \in Requests :
    /\ WF_vars(auto_timestamp(r)) /\ WF_vars(lookup_assignee(r))
    /\ SF_vars(flush(r)) /\ WF_vars(commit(r))

FairSpec == Spec /\ Fairness

-----------------------------------------------------------------------------
(* Views of the log                                                        *)

Moves(t) == {e \in activity : e.task = t /\ e.action = "status_changed"}

(* e is the newest entry of S, the one the activity endpoint lists last.   *)
Newest(e, S) == e \in S /\ \A f \in S : f.at <= e.at

(* Consecutive entries of S.                                               *)
Follows(e, f, S) ==
  e \in S /\ f \in S /\ e.at < f.at /\ ~\E g \in S : e.at < g.at /\ g.at < f.at

Held(t) == {"PENDING"} \cup {e.new : e \in Moves(t)}

(* The log shows no overlap of two moves of t: each goes on from the status*)
(* the one before it has left.                                             *)
Chained(t) == \A e, f \in Moves(t) : Follows(e, f, Moves(t)) => f.old = e.new

(* The columns whose changes are logged with old and new value.            *)
Columns == Fields \cup {"status_changed", "reassigned"}

Stored(row, column) ==
  CASE column = "status_changed" -> row.status
    [] column = "reassigned"     -> row.assigned_to
    [] OTHER                     -> row.data[column]

(* The entries of a column of t, and those that changed it.                *)
Entries(t, column) == {e \in activity : e.task = t /\ e.action = column}
Changes(t, column) == {e \in Entries(t, column) : e.old # e.new}

-----------------------------------------------------------------------------
(* Properties of overlapping requests                                      *)

(* The status column always is what the newest status_changed entry says,  *)
(* and PENDING when there is none, however requests overlap: the entry is  *)
(* stamped while the row lock is held, in the transaction of its UPDATE.   *)
StatusFollowsLog ==
  \A t \in DOMAIN task :
    /\ Moves(t) = {} => task[t].status = "PENDING"
    /\ \A e \in Moves(t) : Newest(e, Moves(t)) => task[t].status = e.new

StampsPresent(row) ==
  /\ row.status \in {"IN_PROGRESS", "UNDER_REVIEW", "COMPLETED"}
       => row.started_at # Null
  /\ row.status = "COMPLETED" => row.completed_at # Null
  /\ row.completed_at # Null => row.started_at # Null

(* A task that was ever started, reviewed or completed has a start time, a *)
(* completed one a completion time, although a late writer may overwrite   *)
(* either column.  And work does not end before it starts, unless the log  *)
(* shows two moves that overlapped: one that loaded the task before it was *)
(* started takes its stamp at any later time, after the completion too.    *)
StampsFollowStatus ==
  \A t \in DOMAIN task :
    /\ StampsPresent(task[t])
    /\ Chained(t) /\ task[t].completed_at # Null
         => task[t].started_at <= task[t].completed_at

(* A deleted task stays deleted: a writer that loaded the row before the   *)
(* deletion does not bring it back.  Nothing is removed from either table. *)
NothingComesBack ==
  [][ /\ DOMAIN task \subseteq DOMAIN task'
      /\ activity \subseteq activity'
      /\ \A t \in DOMAIN task : task[t].is_deleted => task'[t].is_deleted ]_vars

(* A commit changes only the columns its own entries name, to the values   *)
(* they name: a session that loaded an old row never writes back a column  *)
(* another session has changed since.  (The stamps go with the status.)    *)
ColumnsChangeAsLogged ==
  [][ \A t \in DOMAIN task :
        LET Says(action, new) ==
              \E e \in activity' \ activity :
                e.task = t /\ e.action = action /\ e.new = new
            Change(column) == task'[t][column] # task[t][column]
        IN  /\ Change("status") => Says("status_changed", task'[t].status)
            /\ Change("assigned_to") => Says("reassigned", task'[t].assigned_to)
            /\ Change("is_deleted") => Says("deleted", Null)
            /\ Change("started_at") => Says("status_changed", "IN_PROGRESS")
            /\ Change("completed_at") => Says("status_changed", "COMPLETED")
            /\ \A f \in Fields :
                 task'[t].data[f] # task[t].data[f] => Says(f, task'[t].data[f]) ]_vars

(* A reader of the log who comes back finds new status entries only after  *)
(* those already seen: commits of one task's moves keep the timestamps'    *)
(* order, because the stamp is taken under the row lock.                   *)
MovesAppend ==
  [][ \A t \in DOMAIN task : \A e \in Moves(t)' \ Moves(t), f \in Moves(t) :
        f.at < e.at ]_vars

(* Each column holds what the newest entry that changed it says, and what  *)
(* every entry says when none did.  Entries may arrive out of order: a     *)
(* request that names the value the column had when it loaded the row is   *)
(* logged and takes no lock (task_service.py:221, :158).                   *)
ColumnsFollowLog ==
  \A t \in DOMAIN task, column \in Columns :
    LET S == Changes(t, column)
    IN  /\ \A e \in S : Newest(e, S) => Stored(task[t], column) = e.new
        /\ S = {} => \A e \in Entries(t, column) : Stored(task[t], column) = e.new

(* A deleted task is deleted in the log, by an admin.                      *)
DeletionIsLogged ==
  \A t \in DOMAIN task :
    task[t].is_deleted <=>
      \E e \in activity : e.task = t /\ e.action = "deleted" /\ AdminUser(e.actor)

(* With requests overlapping, a task still only takes a status that is a   *)
(* valid successor of one it has held.                                     *)
History == INSTANCE TaskHistory WITH
  held <- [t \in Tasks |-> IF t \in DOMAIN task THEN Held(t) ELSE {}],
  current <- [t \in Tasks |-> IF t \in DOMAIN task THEN task[t].status ELSE "ABSENT"]

HistorySpec == History!Spec

(* The workflow of one task as documented, but for README.md:20, "admin    *)
(* only": routers/tasks.py and update_task_status let managers cancel too. *)
Workflow(t) == INSTANCE TaskWorkflow WITH
  Cancellers <- {"ADMIN", "MANAGER"},
  phase <- IF t \in DOMAIN task THEN task[t].status ELSE "ABSENT",
  started <- t \in DOMAIN task /\ task[t].started_at # Null,
  completed <- t \in DOMAIN task /\ task[t].completed_at # Null,
  deleted <- t \in DOMAIN task /\ task[t].is_deleted,
  trail <- {<<e.old, e.new, RoleOf[e.actor]>> : e \in Moves(t)}

(* The log of t gives no overlap away: its moves chain, and none is newer  *)
(* than its deletion.                                                      *)
Undisturbed(t) ==
  /\ Chained(t)
  /\ \A e \in Moves(t), d \in activity :
       d.task = t /\ d.action = "deleted" => e.at < d.at

(* Whatever overlaps, the service leaves the documented workflow of a task *)
(* only in a way its log shows: as long as the log of a task is            *)
(* undisturbed, every step of it has been one of the workflow, made by a   *)
(* role that may make it, and logged with who made it (README.md:23).      *)
StraysAreLogged ==
  [][ \A t \in Tasks : Undisturbed(t)' => [Workflow(t)!Next]_(Workflow(t)!vars) ]_vars

(* The requests that have found e active and may still give it a task.     *)
Assigning(e) ==
  {r \in Busy : /\ session[r].pc # "lookup"
                /\ session[r].new.assigned_to = e
                /\ \E n \in session[r].notes : n.action \in {"created", "reassigned"}}

(* Once an employee is deactivated, no request gets past the lookup with   *)
(* it any more, and a task comes to it only from one that was past it: the *)
(* lookup and the write are not atomic, but nothing else is let through.   *)
DeactivatedGetNoNewWork ==
  [][ \A e \in Employees \ active :
        /\ Assigning(e)' \subseteq Assigning(e)
        /\ \A t \in DOMAIN task' :
             /\ task'[t].assigned_to = e
             /\ t \in DOMAIN task => task[t].assigned_to # e
             => \E r \in Assigning(e) : session[r].task = t ]_vars

(* Every session ends: no request waits for a row lock for ever.           *)
EveryRequestEnds == \A r \in Requests : session[r] # Idle ~> session[r] = Idle

-----------------------------------------------------------------------------
(* The inductive invariant behind StatusFollowsLog, StampsFollowStatus,    *)
(* HistorySpec and the action properties                                   *)

Starts(s) == s.new.started_at # s.old.started_at
Completes(s) == s.new.completed_at # s.old.completed_at

(* What a unit of work holds from its handler on.                          *)
WorkOK(s) ==
  /\ ~s.old.is_deleted
  /\ StampsPresent(s.old)
  /\ s.pc # "loaded" => StampsPresent(s.new)
  /\ s.pc = "loaded" => s.new.status # s.old.status /\ ~Starts(s) /\ ~Completes(s)
  /\ \A n \in s.notes : n.action = "status_changed" =>
       /\ n.old = s.old.status /\ n.new = s.new.status
       /\ is_valid_transition(s.old.status, s.new.status)
  /\ s.new.status # s.old.status => \E n \in s.notes : n.action = "status_changed"
  /\ Starts(s) => /\ s.old.started_at = Null
                  /\ s.old.status = "PENDING"
                  /\ s.new.status = "IN_PROGRESS"
                  /\ ~Completes(s)
  /\ Completes(s) => s.new.completed_at # Null /\ s.old.started_at # Null

(* How it relates to the tables: the row it loaded is one the task had, and*)
(* a completion is stamped no earlier than the start, if the moves chain.  *)
UpToDate(s) ==
  /\ s.at <= clock
  /\ s.new.started_at # Null => s.new.started_at <= clock
  /\ s.new.completed_at # Null => s.new.completed_at <= clock
  /\ s.task \notin DOMAIN task => /\ s.new = s.old
                                  /\ s.new.status = "PENDING"
                                  /\ s.new.started_at = Null
                                  /\ s.new.completed_at = Null
  /\ s.task \in DOMAIN task =>
       LET row == task[s.task]
       IN  /\ s.old.started_at # Null => row.started_at # Null
           /\ s.old.completed_at # Null => row.completed_at # Null
           /\ s.old.status \in Held(s.task)
           /\ Completes(s) /\ Chained(s.task) => row.started_at <= s.new.completed_at

(* A session that has flushed a move will commit the newest status entry.  *)
MoveIsNewest(s) ==
  s.pc = "flushed" /\ s.new.status # s.old.status =>
    \A e \in Moves(s.task) : e.at < s.at

(* Two sessions p and q.                                                   *)
Compatible(p, q) ==
  /\ p.task \notin DOMAIN task => q.task # p.task
  /\ p.task = q.task => ~(LocksRow(p, p.task) /\ LocksRow(q, p.task))

SessionsInv ==
  /\ \A r \in Busy : WorkOK(session[r])
  /\ \A r \in Busy : UpToDate(session[r])
  /\ \A r \in Busy : MoveIsNewest(session[r])
  /\ \A r, q \in Busy : r # q => Compatible(session[r], session[q])

TablesInv ==
  /\ \A e \in activity :
       /\ e.task \in DOMAIN task /\ e.at <= clock
       /\ e.action = "status_changed" => is_valid_transition(e.old, e.new)
  /\ \A t \in DOMAIN task :
       /\ Moves(t) # {} => \E e \in Moves(t) : Newest(e, Moves(t))
       /\ task[t].started_at # Null => Moves(t) # {}
       /\ task[t].started_at # Null => task[t].started_at <= clock
       /\ task[t].completed_at # Null => task[t].completed_at <= clock
       /\ task[t].status \in Held(t)

(* TLC checks that it holds in every reachable state; TaskServiceProofs    *)
(* that every step preserves it.                                           *)
IInv ==
  TypeOK /\ SessionsInv /\ TablesInv /\ StatusFollowsLog /\ StampsFollowStatus

(* What the log entries of a unit of work say of its changes: each changed *)
(* column has one, with its value before and after; an employee's is one   *)
(* they may make; a deletion is an administrator's and nothing else.       *)
NotesOK(s) ==
  LET Says(action, new) == \E n \in s.notes : n.action = action /\ n.new = new
  IN  /\ s.new.is_deleted =>
           Says("deleted", Null) /\ AdminUser(s.user) /\ s.new.status = s.old.status
      /\ \A n \in s.notes : n.action = "deleted" => s.new.is_deleted
      /\ Starts(s) \/ Completes(s) => s.new.status # s.old.status
      /\ Completes(s) => s.new.status = "COMPLETED"
      /\ s.new.status # s.old.status /\ RoleOf[s.user] = "EMPLOYEE"
           => <<s.old.status, s.new.status>> \in allowed_for_employee
      /\ \A column \in Columns :
           /\ Stored(s.new, column) # Stored(s.old, column)
                => Says(column, Stored(s.new, column))
           /\ \A n \in s.notes : n.action = column =>
                n.old = Stored(s.old, column) /\ n.new = Stored(s.new, column)
      /\ s.task \notin DOMAIN task => \A n \in s.notes : n.action = "created"
      /\ s.task \notin DOMAIN task => s.notes # {}

(* A session that holds the row lock is stamped after every entry that the *)
(* earlier holders have left.                                              *)
WriterIsNewest(s) ==
  s.pc = "flushed" /\ Writes(s) =>
    \A e \in activity : e.task = s.task =>
      /\ e.action = "deleted" => e.at < s.at
      /\ e.action \in Columns /\ e.old # e.new => e.at < s.at

(* A column that no entry has changed is as every session has loaded it.   *)
LoadedAsIs(s) ==
  s.task \in DOMAIN task =>
    \A column \in Columns :
      Changes(s.task, column) = {} => Stored(s.old, column) = Stored(task[s.task], column)

(* The inductive invariant behind DeletionIsLogged, ColumnsFollowLog,      *)
(* ColumnsChangeAsLogged, DeactivatedGetNoNewWork and StraysAreLogged (it  *)
(* leans on IInv).  No two units of work are stamped alike, so the entries *)
(* of a commit are new ones.                                               *)
LogInv ==
  /\ DeletionIsLogged
  /\ ColumnsFollowLog
  /\ \A r \in Busy :
       NotesOK(session[r]) /\ WriterIsNewest(session[r]) /\ LoadedAsIs(session[r])
  /\ \A r \in Busy : session[r].pc = "flushed" =>
       /\ \A e \in activity : e.at # session[r].at
       /\ \A q \in Busy \ {r} : session[q].pc = "flushed" => session[q].at # session[r].at

-----------------------------------------------------------------------------
(* Claims of the documentation the code does not keep                      *)

(* README:23, "you can't skip steps or go backwards": one status entry is  *)
(* a valid transition from the one before it.                              *)
NoStepSkipped ==
  \A t \in DOMAIN task : \A e, f \in Moves(t) :
    Follows(e, f, Moves(t)) => is_valid_transition(e.new, f.new)

(* task_service.py:183, "Employees can only update status of their own     *)
(* tasks": an employee's status change is written to a task that is theirs.*)
(* (A flushed session holds the row lock: the row in the table is the one  *)
(* it changes.)                                                            *)
EmployeesMoveTheirOwn ==
  \A r \in Busy :
    LET s == session[r]
    IN  s.pc = "flushed" /\ RoleOf[s.user] = "EMPLOYEE"
          => task[s.task].assigned_to = ProfileOf[s.user]

=============================================================================
