# TaskAlloc in TLA+

TLA+ modules, TLC models and machine-checked proofs about the TaskAlloc API
(FastAPI, SQLAlchemy 2 async, PostgreSQL).  Line references are to the
repository (`app/...` is `src/app/...`, `README.md:n` its README).

What makes this program worth modelling is that all of its state lives in a
database shared by overlapping requests, that every handler is a
read-decide-write sequence at READ COMMITTED without a lock or a version column,
and that the test suite (SQLite in memory, one session, one request at a time)
never overlaps two of them.

## 1. Inventory

### Components

| component | state | operations | correct when |
|---|---|---|---|
| Task workflow (`models/task.py`) | none: `VALID_TRANSITIONS`, employee table | `is_valid_transition` | a task only walks the documented machine |
| Task service (`services/task_service.py`, `routers/tasks.py`) | tables `tasks`, `task_activity_logs` | create, update, change status, reassign, soft-delete; list, get, activity | row and log tell one story; stamps go with the status; deletion is final; roles are kept |
| Authentication (`services/auth_service.py`) | `users` (password hash, last_login), `refresh_tokens` | register, login, refresh, logout, change password | a refresh token is spent once, revocation is final, a password change logs everyone out, no account is duplicated |
| User administration (`services/user_service.py`) | `users` (role, is_active) | activate, deactivate, change role, list | a deactivated account gets nothing more; someone can still administer |
| Request authentication (`core/dependencies.py`) | none: reads `users` | `get_current_user`, role gates | decisions use the role the user has |
| Database sessions (`core/database.py`) | a session per request, a pool of 10 + 20 connections | begin, flush, commit, rollback | all or nothing per request; nobody waits for ever |
| Employees, departments (`services/employee_service.py`, `department_service.py`) | `employees`, `departments` | create, update, soft-delete; list, stats | unique names, emails and profiles; references stay valid |
| Comments (`services/comment_service.py`) | `task_comments`, log entries | add, edit, delete, list | only authors edit; the log records each comment |
| Audit middleware (`core/middleware.py`) | `audit_logs` | one row per mutating request | a change is audited |
| Analytics (`services/analytics_service.py`) | none | aggregates over the tables | numbers agree with the tables |
| Wiring, settings, logging, schemas, health, seeding, migrations | none that changes at run time | | |

### How they interact

A router takes a session from `get_db`, `get_current_user` loads the caller in
the same session, the role gate decides, and the handler calls one service
function.  `get_db` commits when the handler has returned (FastAPI 0.115.6 runs
this before the response is sent) and rolls back on an exception.  Services never call each other;
they share tables: assigning a task reads `employees`, which the employee service
switches off; every request reads `users`, which the user service changes;
comments and tasks write the same log.  The audit middleware runs outside all
of this, after the commit, in a session of its own.

### What is hard

* Two requests load one row, both pass their checks, and both write.  An UPDATE
  names only the columns the object changed, so the result is a mix of the two.
* `flush()` waits for the row lock of another transaction; timestamps are taken
  at different points: `started_at` and `completed_at` after the SELECT has been awaited
  and before the lock, the log's under the lock.  So a stamp may be later than anything
  others have committed since the row was read.
* A handler's second SELECT (the employee, the tokens to revoke, the owner of a
  token) sees a later state than its first: `autoflush=False`, READ COMMITTED.
* A failure at any point must leave nothing of row or log.
* Check-then-insert against unique indexes; an audit row outside the transaction;
  roles that change under a running request.

`PROJECT.json` lists each hazard at its line with the properties that watch it.

## 2. Modules

| module | models | extends / instantiates |
|---|---|---|
| `TaskRules` | the status machine and the employee's moves, as sets of pairs | |
| `TaskWorkflow` | abstract: the workflow of one task as `README.md:14-23` documents it, roles included; who may cancel is a parameter | `TaskRules` |
| `TaskHistory` | abstract: what is left of it when requests overlap | `TaskRules` |
| `TaskService` | the task endpoints as overlapping transactions | `TaskRules`; instantiates the two above |
| `TaskServiceProofs` | theorems about `TaskService`: its inductive invariant and `TaskHistory` | `TaskService` |
| `TaskLogProofs` | more of them: the log, the columns, the assignments, the documented workflow | `TaskServiceProofs` |
| `AuthService` | login, refresh, logout, password change, (de)activation | |
| `AuthServiceProofs` | theorems about `AuthService` | `AuthService` |
| `AccessControl` | the gate every request passes, and the user administration behind it, which changes the rows the gate reads | `TaskRules` |
| `AccessControlProofs` | theorems about `AccessControl` | `AccessControl` |
| `CommentLife` | abstract: the life of a comment | |
| `CommentService` | comments on a task as overlapping transactions, beside its reassignment and deletion | `TaskRules`; instantiates `CommentLife` |
| `CommentServiceProofs` | theorems about `CommentService` | `CommentService` |
| `RequestPipeline` | connection pool, handler, commit, audit middleware, answer | |
| `RequestPipelineProofs` | theorems about `RequestPipeline` | `RequestPipeline` |
| `Directory` | accounts, departments and employee profiles: check-then-insert against unique indexes, rename, soft deletion | |
| `DirectoryProofs` | theorems about `Directory` | `Directory` |
| `TaskQueries` | lists, single task, statistics, overview and overdue list as functions of the tables; commits of the services as single steps | `TaskRules` |
| `Paging` | a client that reads a list page by page beside those commits | `TaskQueries` |
| `PagingProofs` | theorems about `Paging` and `TaskQueries` | `Paging` |
| `MCTaskService`, `MCAuthService`, `MCAccessControl`, `MCCommentService`, `MCDirectory`, `MCRequestPipeline`, `MCPaging` | instances for TLC | |

### TaskService and the code

| in the module | in the code |
|---|---|
| `task`, `activity` | committed rows of `tasks` and `task_activity_logs` |
| `active` | `employees.is_active` |
| `session[r]` | the `AsyncSession` of a request in flight: `old` the row as loaded, `new` the object as changed, `notes` the log entries added, `pc` how far it is |
| `create_task` ... `delete_task` | the service function up to its first write: the load (`_get_task`), the role gate, the checks, the assignments |
| `update_task_status`, `auto_timestamp` | lines 172-192 on the row the SELECT has read, and lines 194-201: `datetime.now` is called after the await, so anything may be committed between the two (`pc` is "loaded" meanwhile) |
| `lookup_assignee` | the SELECT of the employee: a second look at the database |
| `flush` | `db.flush()` (or the flush inside the commit): take the row lock, send UPDATE and INSERTs, stamp the log |
| `commit`, `rollback` | `get_db` after the handler; `Column` is SQLAlchemy's "only changed columns are SET" |
| `clock` | the server's clock; it advances with every flush |

A request that is refused changes nothing and is not an action; the guards are
the conjunction of the checks that let it through.  The one refusal that is a step
is a failed `lookup_assignee`, because the load came before it.

Abstractions.  `data` maps the columns of `TaskUpdate` (title, description,
priority, due date, hours) to values that are only compared.
`department_id` and `assigned_by` are written once and read by no write, so they
are left out.  Ids are fresh UUIDs: creation picks an unused one.  Creation sends its
INSERT before its log entry; both are invisible until the commit, so they are
one step.  The other handlers take nothing from outside the session between their SELECT
and their next await, so when they decide on the loaded row makes no difference.
The clock of the server is taken to be monotonic.  The `String(256)` of the log columns shows only as a failing flush,
that is a `rollback`, as does a lost connection or a killed process.

### AuthService and the code

`user` and `token` are the tables, `exchanged` a history variable that counts the
access tokens issued for each refresh token.  A transaction is `select` (the second SELECT of
refresh or change_password is to come), then `write`: `update_row` UPDATEs its
rows one by one in the unit of work's order (users, then tokens by primary key),
waiting for each row's lock and keeping it; `commit` publishes.  A password
stands for its salted hash (so writing it always is a change), a refresh token
is its row's primary key, expiry is a flag that an `expire` step sets at any
time.  `Token.password` is history: what the login was given.

`outdated` and `earlier` are history too: a token is outdated once a password change has
committed whose listing of the user's tokens it can have been in.

### AccessControl and the code

`user` holds `role` and `is_active` of the committed `users` rows, `claim` the role written
into each user's latest unexpired access token (`create_access_token`, a login or a
refresh; `expire`, half an hour later).  A request is `request` (the SELECT and the decisions of
`get_current_user` and `require_role`), `get_user` (the SELECT of the target), `flush`
and `commit`.  The gate reads the row and not the claim.  SQLAlchemy keeps one object per
row and session and does not refresh it, so a caller who names themselves as the
target gets the object of the gate, `seen`, and an object that already is as asked is not
written (`Writes`).  `alone` is history: no other request has been in flight meanwhile.  A login's own UPDATE of
`last_login` touches neither column.

### TaskQueries, Paging and the code

`TaskQueries` keeps the columns the reads look at: status, assignee, department, due
date and the deletion mark; name, department and activity of an employee.  Task ids are
numbered in the order of `created_at`.  `list_tasks` is its scope (`InScope`) and its filters; priority and
the search text select rows in the same way as the status and are left out.  `Stats` is the
loop that three reports share word for word; being one definition for the three copies, it
would not show a change made to one of them.

A page of `Paging` is three steps, as in the code: the gate (`first_page`, `next_page`; it
loads the reader's department, and `get_employee_tasks` its employee), `select_count`
(`total` and `total_pages`) and `select_page`.  `Pages` is the set of answers PostgreSQL may give to ORDER
BY, OFFSET and LIMIT: rows that tie come in any order.  `others` is one commit of another
request; `hist` records what it did to the list.  `list_users` and `list_departments` page in the
same way (`created_at` descending, a unique name) and are not repeated.

### CommentService and the code

`comment` and `activity` are the tables `task_comments` and the "commented" part of
`task_activity_logs`; `task` holds the two columns of `tasks` that decide about
comments, changed by the commits of the task service.  `add_comment` has one look at
the database; `update_comment` and `delete_comment` load the task first and the
comment in a second SELECT (`select_comment`).  A comment is really DELETEd, so a
`flush` may find no row: the UPDATE then raises StaleDataError (the request fails), the
DELETE only warns (it is answered as if it had deleted).  `Entry.comment` and `holders`
are history: which comment an entry came with, and which employees a task has had.
`Excerpt` is `content[:100]`.

### Directory and the code

`row` holds the rows of `users`, `departments` and `employees`; `keys` are their unique
columns.  A creation is the handler's call, one `check` per SELECT (an employee has two:
the email, then the profile of the user), `flush` and `commit`.  A `check` that finds one row
is the 409 (`answer` "conflict"); one that finds two is the exception of
`scalar_one_or_none`, a `flush` that meets a taken value the IntegrityError: both a 500
("error").  `WaitsFor` is what an INSERT or a renaming UPDATE waits for in PostgreSQL:
the row's lock, or the fate of an uncommitted entry of a unique index.
`session[r].rivals` is history: what others committed since the request began.  An
unknown department or user (a foreign key) is a `rollback`.  Left out: the columns
no check reads (description, department_id, designation and so on); `update_employee`,
which changes only those, is a commit of `TaskQueries`.

### RequestPipeline and the code

One request from its arrival to its answer.  `conn` counts its pooled connections:
one from the first statement to the end of `get_db`, another while its audit row is written.
`changed` and `audit` survive a `crash`; everything in flight does not.
`refuse` is an HTTPException (a response, audited), `fail` any other exception
(no response inside the middleware, hence no audit row; answered 500 by
`global_exception_handler`).  A COMMIT whose connection breaks may or may not have
been executed.  What handlers do to the tables is the other modules' subject: here
a change is done or not.

## 3. Runs

| run | instance | what it shows |
|---|---|---|
| `task_overlap` | 2 requests, 1 task, admin and worker, 5 flushes | `StatusFollowsLog`, `StampsFollowStatus`, `DeletionIsLogged` (in the inductive `LogInv`), `NothingComesBack`, `MovesAppend`, the inductive `IInv`, that `TaskHistory` is implemented, and that the documented workflow is left only in ways the log shows (`StraysAreLogged`) |
| `task_edits` | 2 requests, 2 employees, 2 values, 3 flushes, fairness | `ColumnsFollowLog`, `ColumnsChangeAsLogged`, `DeactivatedGetNoNewWork`; every request ends |
| `auth_overlap` | 2 requests, 1 user, 2 tokens, fairness | `ExchangesBounded`, `ChangeRevokesEarlierTokens`, `RevocationIsFinal`, `DeactivationShutsOut`, the inductive `IInv`, every request ends |
| `access_overlap` | 2 requests, 2 accounts, one seeded, 2 roles | `RemovalStopsNewRequests`, `EachCommitItsColumn`, `OfficeEmptiedByOwnHand`, `LockoutIsFinal`, the inductive `IInv` |
| `comment_overlap` | 2 requests, 2 tasks, 1 comment id, admin and worker, 2 texts | `UneditedAsLogged` (in the inductive `IInv`), `EditsLand`, `EmployeesCommentAsHolders`, `DeletionClosesComments`, and that `CommentLife` is implemented |
| `directory_overlap` | 2 requests, 3 rows, 2 values, all three tables | `ValuesAreUnique` (in the inductive `IInv`), `LateErrorNeedsARival`, `DeactivationIsFinal` |
| `request_pipeline` | 2 requests, a pool of 1, fairness | `OutcomesAreTrue`, `UnauditedHaveACause` (in the inductive `IInv`); `PoolServes` without help of the timeout |
| `paging` | 3 tasks, 2 employees, 4 readers, 6 lists, pages of 1 and 2, 2 commits | `NothingMissed`, `UndisturbedWalkIsExact`, the inductive `IInv`, `ReadsAgree` (`ListsMatchAccess` and `ReportsAgree`) |
| `task_skipped_step` | 2 requests, 3 flushes | violation of `NoStepSkipped` |
| `task_not_their_own` | 2 requests, 2 employees, 3 flushes | violation of `EmployeesMoveTheirOwn` |
| `auth_double_refresh` | 2 requests, 1 token | violation of `ExchangedOnce` |
| `auth_stray_login` | 2 requests, 2 passwords, 1 token | violation of `PasswordChangeForcesLogin` |

What overlapping costs is visible in the pairs: the documented promise, which overlapping
requests break, and the weaker one that is stated and checked in its place
(`NoStepSkipped` / `HistorySpec` and `StraysAreLogged`, `ExchangedOnce` / `ExchangesBounded`,
`PasswordChangeForcesLogin` / `ChangeRevokesEarlierTokens`).

`StraysAreLogged` says what an auditor can rely on.  The log of a task is `Undisturbed` when
each status entry goes on from the status the one before it has left and none is newer than
the deletion.  As long as it is, each step of the task was one of the documented workflow,
made by a role that may make it and logged as such, stamps included; a step outside the workflow
(two changes that both go through, a change after the deletion) leaves a gap in the
log for good.  `StampsFollowStatus` has the same condition for "completed after started":
a request that loaded the task before it was started stamps the start at any later time.

What `access_overlap` says about administration: removing an administrator stops
their next request at once and does not stop the one in flight; the last
administrator can go by their own hand, and two who remove each other both succeed; from
then on nobody can ever be made one through the API.  What `paging` says: a page
number is only as good as the list is quiet.  The three conditions of `NothingMissed`
(nothing leaves or moves, nothing arrives between the two SELECTs of the last page, no
ties in the sort column) are all needed: without any one of them TLC finds a walk that
misses a task that was there all the time.

Bounds.  Rows never influence each other except through requests, and a request
touches one task, so one task is enough; two requests are the smallest
overlap, and every two-session condition (`Compatible`) is pairwise.  `MaxTicks`
bounds the flushes of a behaviour: five let a task be created, started by one
session, reviewed, completed and then started by a late one, and that is needed: without
its condition on the log, `StampsFollowStatus` is violated by exactly this behaviour.
The runs have no manager (one more user multiplies the states by ten): a manager differs
from the administrator only in `delete_task`, and the theorems cover all roles.  Each session in flight
has a tick reserved, so the bound never keeps one from finishing.
Two tokens are needed for a password change to hold several locks while a refresh
holds another; two passwords for "old" and "new".  Comments do not
influence each other, so one id is enough; two tasks let a request name the wrong
one.  A creation can meet two rows (the email of one user, the username of another) and
a rename a third, so the directory has three ids and two values.  Two accounts are a
caller and a target, or an administrator acting alone; a third would only be another bystander.
Three tasks make two or three pages; `MaxCommits` = 2 puts a commit between any two
statements of a page and another one later; the tables a walk starts from (`Tables`)
leave room for a row to arrive in front,
between and behind, and hold tasks in which every two of status, assignee and department
meet.  A pool of one with two requests has every contention a full pool of thirty
has, including a request that would wait for itself.  The proofs have
none of these bounds.

Fairness.  A handler's next statement is executed once the event loop runs
(weak fairness of the lookups and of `commit`); PostgreSQL queues those waiting for a
row lock, so a waiting UPDATE is not overtaken for ever (strong fairness of
`flush` and `update_row`); the pool hands connections out in order (strong fairness
of `checkout` and `write_audit_log`).  No arrival, failure, timeout, crash or expiry is
forced.  A deadlock of the model would be an error in every run: the
explicit stutters `Quiet` and `Done` are enabled only when nothing is in flight.

### Where the code and its documentation part

* `README.md:23` "you can't skip steps": two changes of one task, each valid
  on the row it loaded, are both written (start and cancel give CANCELLED then
  IN_PROGRESS).  Run `task_skipped_step`.
* `task_service.py:183` "Employees can only update status of their own tasks": the
  assignee is compared on the row as loaded; after a reassignment the change of the former
  assignee is still written.  Run `task_not_their_own`.
* `auth_service.py:106` "Rotate: revoke old": two refreshes overlapping
  with one token both get an access token.  Run `auth_double_refresh`.
* `auth_service.py:131` "Revoke all refresh tokens": a login that verified the old
  password and commits after the tokens were listed keeps its token.  Run
  `auth_stray_login`.

Also noticed while modelling, without a run.  `README.md:20` says of a cancellation "admin
only": `routers/tasks.py` and `update_task_status` let managers cancel too.
`TaskWorkflow` has the roles that may as its constant `Cancellers`, and the service is shown
to keep it for `{"ADMIN", "MANAGER"}`, not for `{"ADMIN"}`
(by the theorem: the runs have no manager).  `README.md:20` also says
any active task may be cancelled: `TaskWorkflow` allows it, `UNDER_REVIEW` has no
transition to `CANCELLED` in the code, so that step is never taken (an
implementation may do less than its specification).

Further: no write compares a
manager's department with the task's (`README.md:11`); comments are deleted for good although `README.md` says
nothing ever is; registering an email and a username that belong to two users
fails with a 500 (`auth_service.py:35`), as does renaming a department to a taken
name (`department_service.py:74`): these are the answers "error" of `Directory`;
the audit log has no row for a request that ends in an unhandled exception, nor when the
audit write fails, although `middleware.py:22` says "every mutating request"
(`UnauditedHaveACause` says exactly when); a refresh revokes the refresh token but hands
out no new one, whatever "Rotate" says; `README.md:150` lists a due date range among the filters,
which `routers/tasks.py` does not expose; an unknown `sort_by` fails inside the
handler, where `TaskFilter` is built, and is a 500; a manager without a profile lists
every task; a deactivated employee keeps their tasks, which then appear in no
employee's statistics.

## 4. Proofs

`TaskServiceProofs` proves, for any number of sessions, tasks, users, employees,
columns and any clock bound, from the four named assumptions of `TaskService` only:

* `Invariance`, `Spec => []IInv`, and from it `TypeCorrect`,
  `StatusFollowsLogCorrect`, `StampsFollowStatusCorrect`;
* `NothingComesBackCorrect` and `MovesAppendCorrect`, the action properties;
* `ImplementsHistory`, `Spec => HistorySpec`: each step is a `TaskHistory` step or a
  stutter.

Why an inductive invariant.  `StatusFollowsLog` says nothing of sessions in
flight, and a commit may break it from a state no execution reaches.  `IInv`
adds what each session carries: its object was made by a handler
(`WorkOK`), what it loaded is something the task once was (`UpToDate`), a session
that has flushed a move is stamped after every committed move (`MoveIsNewest`), and two
sessions never hold one row's lock together (`Compatible`).  The argument: a flush takes the
lock and then the stamp of the log, so
among the sessions of one task the moves' entries are ordered as their commits.  A
start is stamped only by a session that loaded the task `PENDING` (`WorkOK`), a status no move
leads to: once another move is committed, the entry of a late start does not go on from
it and the log no longer chains.  While it does chain, a completion was stamped after
its session had loaded a started task, hence after that start (`UpToDate`).  The proof goes by actions: what opening a session, looking up,
flushing, committing and rolling back do to each conjunct.

`TaskLogProofs` goes on from `TaskServiceProofs`, with the same assumptions:

* `LogInvariance`, `Spec => []LogInv`, and from it `ColumnsFollowLogCorrect`,
  `DeletionIsLoggedCorrect`, `ColumnsChangeAsLoggedCorrect`, `DeactivatedGetNoNewWorkCorrect`.
  `LogInv` says of each unit of work that its entries tell its changes (`NotesOK`), and that no
  two of them, in flight or committed, are stamped alike: so the entries of a commit are new,
  and they say what the commit writes.  For `ColumnsFollowLog` it adds that a session with the row
  lock is stamped after every entry that changed something (`WriterIsNewest`), and that
  a column nobody has changed is as every session has loaded it (`LoadedAsIs`): that is
  what an entry which takes no lock, because it names the value loaded, needs.
* `StraysAreLoggedCorrect`, `Spec => StraysAreLogged`.  Only a commit changes a task.  If its
  move leaves the log chained, the status it loaded is the status of the row, so the
  transition it checked is the one it makes; if no deletion is older than its
  entry, the row it changes is not deleted.  Its role was checked by the handler, and the pairs an
  employee may move are forward ones (`DocumentedMoves`).

`AccessControlProofs` proves, for any number of accounts, sessions and roles, from
`SeededAssumption` and `RolesAssumption`:

* `Invariance`, `Spec => []IInv`;
* `RemovalStopsNewRequestsCorrect`, `LockoutIsFinalCorrect`,
  `OfficeEmptiedByOwnHandCorrect` and `EachCommitItsColumnCorrect`, the action properties.

Its `IInv` says what a request in flight carries.  One that is still alone is
the only one in flight and has an administrator for a caller: the gate saw one,
a registration makes no row worse, and every other way of changing a row is a
commit of another request.  So its caller is left when it removes somebody else.  No step but
`request` brings a caller in flight and no step but `commit` changes an existing
row; the action properties follow from these two groups of steps.

`AuthServiceProofs`, from `TokensAssumption` (token rows are locked in the order of
their keys, which are numbers) and `RequestsAssumption` (finitely many requests at a time: the pool of
`core/database.py` and the server bound them):

* `Invariance` (`IInv`), `ExchangesBoundedCorrect`, `ChangeRevokesEarlierTokensCorrect`,
  `RevocationIsFinalCorrect`, `DeactivationShutsOutCorrect`;
* `SomeoneProceedsCorrect`: among the requests in flight there is always one that waits
  for no row lock.  Each locks its rows in the order of `Precedes`, so what it holds comes
  before what it waits for; the request whose awaited row is last waits for nobody.  This is the
  safety half of "every request ends".

What a refresh or a password change still has to revoke is in its `todo` or `held`
(`WorkOK`): that is why a listed token is revoked when the answer goes out, and why a
token's exchanges are bounded by the refreshes that overlap.

`CommentServiceProofs`, from `UsersAssumption` and `ExcerptAssumption`: `Invariance`,
`UneditedAsLoggedCorrect`, `EmployeesCommentAsHoldersCorrect`, `EditsLandCorrect`,
`DeletionClosesCommentsCorrect`, and `ImplementsLife`, `Spec => LifeSpec`.  The argument: a flush
that finds its comment locks the row (`Apart`: one locker at most), so between
that flush and the commit nobody deletes it.

`RequestPipelineProofs`, from `PoolAssumption` and `MethodsAssumption`: `Invariance`,
`OutcomesAreTrueCorrect`, `UnauditedHaveACauseCorrect`, and `PoolNeverStuckCorrect`: a request
holds no connection while it waits for one (the audit row's is taken after the
handler's is returned), so if all in flight wait, a connection is free.

`DirectoryProofs`, from `TablesAssumption`: `Invariance`, `ValuesAreUniqueCorrect`,
`LateErrorNeedsARivalCorrect`, `DeactivationIsFinalCorrect`.  Two requests that have both sent
their row are of different rows and different values, because the second waits for
the first (`Apart`); rows that agree with what a creation has already looked
up were committed after it began (`rivals`).

`PagingProofs`, from the assumptions of `TaskQueries` and `Paging` (finitely many rows,
sort keys that are numbers or `Null`):

* `Invariance` and `NothingMissedCorrect`.  `IInv` says that an item which was there all the time
  and is on no page so far has at least as many items in front of it as pages times
  page size have been answered: arrivals only add to them, and a page that does not
  show it consists of items in front of it.  At the end that is more than the list has.
  It rests on `PageIsExact` (OFFSET and LIMIT: with no ties a page holds exactly the items
  whose `Rank` is on it) and `PagesSuffice` (the rounding up);
* `UndisturbedWalkIsExactCorrect`.  Of a list left alone `IInv` says that the items whose rank
  is on an answered page have been shown once and the others not, and that the pages so
  far have together as many items as they have room for, or the list has;
* `ReadsAgreeCorrect`: the lists, the single task, the overview, the reports and the
  overdue list, whatever the tables hold.

The sums in the last two are `SumOf(f)`, the number of pairs of an argument `x` and a number
up to `f[x]`.  A fold over a set would need induction over the set; pairs can be counted
with bijections (`SumAdds`, one more for each item on a page; `SumByColumn`, the rows with
each value of a column and the rest are all rows).

Every inductive invariant above is also checked by TLC, in the run of its module.

Only model-checked:

* liveness: `EveryRequestEnds` of `TaskService` and `AuthService`, `PoolServes` (fairness
  and ENABLED are beyond the prover);
* the four violations, which are counterexamples.

## 5. Plan

The modules of the first plan exist, and every property of the passing runs but the
liveness is a theorem.  What is left:

1. that `NothingMissed` needs each of its conditions (nothing left or moved, nothing
   came after the last count, no ties), as named counterexamples;
2. the three reports as three definitions, so that a change to one copy of the loop shows.

## 6. Not modelled

JWT and hashing (library calls), validation by Pydantic (handlers start from valid
input), the wording of errors, logging, the rate limiter (created, applied to no
route), CORS, migrations, deployment files, the sample data of the seed scripts.  `list_users`,
`list_departments`, the comments of a task and its activity are reads that page or list
like those of `Paging`.  The content of an audit row is left out, and so are `SKIP_PATHS`
(`middleware.py:24`; no mutating route is one) and a COMMIT of the audit row whose
outcome is unknown.  Durability, replication and crash recovery of
PostgreSQL itself are assumed.
