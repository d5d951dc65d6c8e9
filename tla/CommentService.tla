--------------------------- MODULE CommentService ---------------------------
(***************************************************************************)
(* Comments on tasks (comment_service.py) as overlapping PostgreSQL        *)
(* transactions, next to the operations of the task service they depend    *)
(* on: reassignment, which decides whose comments are let in, and deletion,*)
(* which closes a task.                                                    *)
(*                                                                         *)
(* Unlike a task, a comment is really DELETEd: a request that loaded it    *)
(* may find no row to UPDATE or DELETE when it comes to write.  SQLAlchemy *)
(* raises StaleDataError for the UPDATE and only warns for the DELETE.     *)
(***************************************************************************)
EXTENDS Naturals, TaskRules

CONSTANTS
  Requests,      \* session slots
  Tasks,
  Users,
  Employees,
  Comments,      \* ids of comments: bound on the comments ever written
  Contents,      \* texts of comments
  Excerpts,      \* texts of at most 100 characters
  Excerpt,       \* the first 100 characters of each text
  Null,
  RoleOf,        \* the role of each user
  ProfileOf      \* the employee profile of each user, or Null

ASSUME UsersAssumption ==
  /\ RoleOf \in [Users -> Role]
  /\ ProfileOf \in [Users -> Employees \cup {Null}]
  /\ Null \notin Employees

ASSUME ExcerptAssumption == Excerpt \in [Contents -> Excerpts]

VARIABLES
  task,          \* table tasks: assignee and is_deleted of each task
  holders,       \* history: the employees each task has been assigned to
  comment,       \* table task_comments: the committed rows, by id
  activity,      \* table task_activity_logs: the "commented" entries
  session        \* the transaction of each request in flight

vars == <<task, holders, comment, activity, session>>

Row == [task: Tasks, author: Users, content: Contents, is_edited: BOOLEAN]

(* comment is history, no column: the comment the entry was added with.    *)
Entry == [comment: Comments, task: Tasks, actor: Users, new: Excerpts]

Op == {"add", "update", "delete"}

(*   select   the comment is still to be SELECTed                          *)
(*   ready    the checks have passed; old is the comment as loaded         *)
(*   flushed  the statements are sent                                      *)
Work == [pc: {"select", "ready", "flushed"}, op: Op, user: Users, task: Tasks,
         comment: Comments, content: Contents \cup {Null}, old: Row \cup {Null}]

Idle == [pc |-> "idle"]

TypeOK ==
  /\ task \in [Tasks -> [assigned_to: Employees, is_deleted: BOOLEAN]]
  /\ holders \in [Tasks -> SUBSET Employees]
  /\ DOMAIN comment \subseteq Comments
  /\ comment \in [DOMAIN comment -> Row]
  /\ activity \subseteq Entry
  /\ session \in [Requests -> Work \cup {Idle}]

-----------------------------------------------------------------------------
Busy == {r \in Requests : session[r] # Idle}

Written == DOMAIN comment \cup {e.comment : e \in activity}

Open(r, pc, op, u, t, c, content) ==
  /\ session[r] = Idle
  /\ session' = [session EXCEPT ![r] =
       [pc |-> pc, op |-> op, user |-> u, task |-> t, comment |-> c,
        content |-> content, old |-> Null]]
  /\ UNCHANGED <<task, holders, comment, activity>>

(* Variant: the task is looked up without the is_deleted filter.           *)
Visible_unfiltered(t) == t \in Tasks

(* _get_task_or_404                                                        *)
Visible(t) == ~task[t].is_deleted

(* Variant: any employee may comment on any task.                          *)
MayComment_anyone(u, t) == u \in Users /\ t \in Tasks

(* Employees comment on their own tasks only.                              *)
MayComment(u, t) ==
  RoleOf[u] = "EMPLOYEE" =>
    ProfileOf[u] # Null /\ task[t].assigned_to = ProfileOf[u]

(* POST /tasks/{id}/comments: the checks, on the task as loaded.           *)
add_comment(r, u, t, c, content) ==
  /\ Visible(t)
  /\ MayComment(u, t)
  /\ c \notin Written
  /\ \A q \in Busy : session[q].comment # c
  /\ Open(r, "ready", "add", u, t, c, content)

(* PATCH and DELETE /tasks/{id}/comments/{id}: the task is loaded first.   *)
(* A comment that is already gone is a plain 404.                          *)
update_comment(r, u, t, c, content) ==
  /\ Visible(t)
  /\ c \in DOMAIN comment
  /\ Open(r, "select", "update", u, t, c, content)

delete_comment(r, u, t, c) ==
  /\ Visible(t)
  /\ c \in DOMAIN comment
  /\ Open(r, "select", "delete", u, t, c, Null)

(* Variant: a comment is found by its id alone, under any task's URL.      *)
Found_anywhere(s) == s.comment \in DOMAIN comment

Found(s) == s.comment \in DOMAIN comment /\ comment[s.comment].task = s.task

(* ... then the comment: 404 if it is gone, 403 if it is someone else's.   *)
select_comment(r) ==
  LET s == session[r]
      allowed == /\ Found(s)
                 /\ \/ comment[s.comment].author = s.user
                    \/ s.op = "delete" /\ RoleOf[s.user] = "ADMIN"
  IN  /\ r \in Busy
      /\ s.pc = "select"
      /\ session' = [session EXCEPT ![r] =
           IF allowed THEN [s EXCEPT !.pc = "ready", !.old = comment[s.comment]]
                      ELSE Idle]
      /\ UNCHANGED <<task, holders, comment, activity>>

-----------------------------------------------------------------------------
(* The session: flush, commit, rollback                                    *)

(* An edit that changes neither column sends no UPDATE.                    *)
Writes(s) ==
  s.op = "update" => s.old.content # s.content \/ ~s.old.is_edited

Locks(s, c) ==
  s # Idle /\ s.pc = "flushed" /\ s.op # "add" /\ s.comment = c /\ Writes(s)

(* flush(): UPDATE and DELETE wait for the row lock, then work on the row  *)
(* as it is now.  If it is gone, the edit fails (StaleDataError, a 500).   *)
flush(r) ==
  LET s == session[r]
      stale == s.op = "update" /\ Writes(s) /\ s.comment \notin DOMAIN comment
  IN  /\ r \in Busy
      /\ s.pc = "ready"
      /\ Writes(s) => \A q \in Busy : ~Locks(session[q], s.comment)
      /\ session' = [session EXCEPT ![r] =
           IF stale THEN Idle ELSE [s EXCEPT !.pc = "flushed"]]
      /\ UNCHANGED <<task, holders, comment, activity>>

(* Variant: the edit mark is not set.                                      *)
Edited_unmarked(row, s) == [row EXCEPT !.content = s.content]

(* The stored row after an edit: only changed columns are SET.             *)
Edited(row, s) ==
  [row EXCEPT !.content = IF s.old.content = s.content THEN @ ELSE s.content,
              !.is_edited = TRUE]

(* Variant: the entry is not written.                                      *)
Logged_not(s) == {}

(* A new comment is logged, with an excerpt.                               *)
Logged(s) ==
  IF s.op = "add"
    THEN {[comment |-> s.comment, task |-> s.task, actor |-> s.user,
           new |-> Excerpt[s.content]]}
    ELSE {}

CommentsAfter(s) ==
  CASE s.op = "add" ->
         [c \in DOMAIN comment \cup {s.comment} |->
            IF c = s.comment THEN [task |-> s.task, author |-> s.user,
                                   content |-> s.content, is_edited |-> FALSE]
            ELSE comment[c]]
    [] s.op = "update" ->
         [c \in DOMAIN comment |->
            IF c = s.comment /\ Writes(s) THEN Edited(comment[c], s) ELSE comment[c]]
    [] s.op = "delete" -> [c \in DOMAIN comment \ {s.comment} |-> comment[c]]

commit(r) ==
  LET s == session[r]
  IN  /\ r \in Busy
      /\ s.pc = "flushed"
      /\ comment' = CommentsAfter(s)
      /\ activity' = activity \cup Logged(s)
      /\ session' = [session EXCEPT ![r] = Idle]
      /\ UNCHANGED <<task, holders>>

rollback(r) ==
  /\ r \in Busy
  /\ session' = [session EXCEPT ![r] = Idle]
  /\ UNCHANGED <<task, holders, comment, activity>>

-----------------------------------------------------------------------------
(* Commits of the task service                                             *)

reassign_task(t, e) ==
  /\ Visible(t)
  /\ task' = [task EXCEPT ![t].assigned_to = e]
  /\ holders' = [holders EXCEPT ![t] = @ \cup {e}]
  /\ UNCHANGED <<comment, activity, session>>

delete_task(t) ==
  /\ Visible(t)
  /\ task' = [task EXCEPT ![t].is_deleted = TRUE]
  /\ UNCHANGED <<holders, comment, activity, session>>

(* No request in flight and none arriving.                                 *)
Quiet == Busy = {} /\ UNCHANGED vars

-----------------------------------------------------------------------------
Init ==
  /\ task \in [Tasks -> [assigned_to: Employees, is_deleted: {FALSE}]]
  /\ holders = [t \in Tasks |-> {task[t].assigned_to}]
  /\ comment = [c \in {} |-> Null]
  /\ activity = {}
  /\ session = [r \in Requests |-> Idle]

Handler(r) ==
  \E u \in Users, t \in Tasks, c \in Comments :
    \/ \E content \in Contents :
         add_comment(r, u, t, c, content) \/ update_comment(r, u, t, c, content)
    \/ delete_comment(r, u, t, c)

Next ==
  \/ \E r \in Requests :
       Handler(r) \/ select_comment(r) \/ flush(r) \/ commit(r) \/ rollback(r)
  \/ \E t \in Tasks : delete_task(t) \/ \E e \in Employees : reassign_task(t, e)
  \/ Quiet

Spec == Init /\ [][Next]_vars

-----------------------------------------------------------------------------
(* Properties                                                              *)

(* A comment that does not say it was edited reads as the log has it, from *)
(* its author on its task, whatever edits and deletions overlapped; and an *)
(* edited one still has its entry.                                         *)
UneditedAsLogged ==
  \A c \in DOMAIN comment : \E e \in activity :
    /\ e.comment = c /\ e.task = comment[c].task /\ e.actor = comment[c].author
    /\ comment[c].is_edited \/ e.new = Excerpt[comment[c].content]

(* Types, and the agreement of the two tables a comment is written to.     *)
Inv == TypeOK /\ UneditedAsLogged

(* Between the UPDATE of an edit and its commit the comment is still there *)
(* and still the author's, under the task it was reached by: a deletion    *)
(* that overlaps comes before (and the edit fails) or after.               *)
EditsLand ==
  \A r \in Busy :
    LET s == session[r]
    IN  s.pc = "flushed" /\ s.op = "update" /\ Writes(s) =>
          /\ s.comment \in DOMAIN comment
          /\ comment[s.comment].author = s.user
          /\ comment[s.comment].task = s.task

(* An employee's comment is on a task that is or was assigned to them (not *)
(* "is": a reassignment may commit between the check and the INSERT).      *)
EmployeesCommentAsHolders ==
  \A c \in DOMAIN comment :
    RoleOf[comment[c].author] = "EMPLOYEE" =>
      ProfileOf[comment[c].author] \in holders[comment[c].task]

(* The inductive invariant.  What a request in flight carries: an employee *)
(* who adds has held the task, and what an edit or deletion has loaded     *)
(* still tells whose comment it is and where, if it is still there.        *)
WorkOK(s) ==
  /\ s.op = "add" =>
       /\ s.pc # "select" /\ s.comment \notin Written
       /\ RoleOf[s.user] = "EMPLOYEE" => ProfileOf[s.user] \in holders[s.task]
  /\ s.op # "delete" => s.content \in Contents
  /\ s.op # "add" => s.comment \in Written
  /\ s.op # "add" /\ s.pc # "select" =>
       /\ s.old \in Row /\ s.old.task = s.task
       /\ s.op = "update" => s.old.author = s.user
       /\ s.comment \in DOMAIN comment =>
            comment[s.comment].author = s.old.author /\ comment[s.comment].task = s.old.task
  /\ Locks(s, s.comment) /\ s.op = "update" => s.comment \in DOMAIN comment

(* Two requests in flight do not add the same comment, and at most one has *)
(* its row locked.                                                         *)
Apart(s, w) ==
  s.comment = w.comment =>
    s.op # "add" /\ w.op # "add" /\ ~(Locks(s, s.comment) /\ Locks(w, s.comment))

IInv ==
  /\ Inv /\ EmployeesCommentAsHolders
  /\ \A t \in Tasks : task[t].assigned_to \in holders[t]
  /\ \A r \in Busy : WorkOK(session[r])
  /\ \A r, q \in Busy : r # q => Apart(session[r], session[q])

OnTask(t) == {r \in Busy : session[r].task = t}
CommentsOf(t) == {<<c, comment[c]>> : c \in {c \in DOMAIN comment : comment[c].task = t}}

(* The deletion of a task closes its comments: no request starts on them   *)
(* any more, and once those in flight are gone they stay as they are.      *)
DeletionClosesComments ==
  [][ \A t \in Tasks : task[t].is_deleted =>
        /\ OnTask(t)' \subseteq OnTask(t)
        /\ OnTask(t) = {} => CommentsOf(t)' = CommentsOf(t) ]_vars

(* Where each comment is in its life.                                      *)
Stage == [c \in Comments |->
  CASE c \in DOMAIN comment -> (IF comment[c].is_edited THEN "edited" ELSE "fresh")
    [] c \in Written \ DOMAIN comment -> "gone"
    [] OTHER -> "unwritten"]

(* Written once, logged with the writing, marked when edited, and never    *)
(* back once removed.                                                      *)
Life == INSTANCE CommentLife WITH stage <- Stage

LifeSpec == Life!Spec
=============================================================================
