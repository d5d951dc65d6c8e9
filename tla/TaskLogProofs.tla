---------------------------- MODULE TaskLogProofs ---------------------------
(***************************************************************************)
(* More theorems about TaskService: what its log says of deletions and of  *)
(* every column, what becomes of a deactivated employee, and that a task   *)
(* leaves the documented workflow only where its log shows an overlap.     *)
(***************************************************************************)
EXTENDS TaskServiceProofs

(* The unit of work that a handler opens, field by field.                  *)
LEMMA OpenFields ==
  ASSUME TypeOK, NEW r \in Requests, NEW pc, NEW u, NEW t, NEW old, NEW new, NEW notes,
         Open(r, pc, u, t, old, new, notes)
  PROVE  LET s == session'[r]
         IN  /\ s.pc = pc /\ s.user = u /\ s.task = t /\ s.old = old /\ s.new = new
             /\ s.notes = notes
  BY DEF TypeOK, Open

(* The columns of a row whose changes are logged, one by one.              *)
LEMMA StoredColumns ==
  /\ \A column \in Columns : column \in {"status_changed", "reassigned"} \/ column \in Fields
  /\ \A row : Stored(row, "status_changed") = row.status
              /\ Stored(row, "reassigned") = row.assigned_to
  /\ \A row : \A f \in Fields : Stored(row, f) = row.data[f]
  /\ \A f \in Fields : f \notin LogActions
  /\ "created" \notin Columns /\ "deleted" \notin Columns
  BY FieldsAssumption DEF Columns, Stored, LogActions

(* Two rows that agree on them.                                            *)
LEMMA SameColumns ==
  ASSUME NEW a, NEW b, a.status = b.status, a.assigned_to = b.assigned_to,
         \A f \in Fields : a.data[f] = b.data[f]
  PROVE  \A column \in Columns : Stored(a, column) = Stored(b, column)
  BY StoredColumns

(* What it carries: entries that tell its changes, and an assignment is    *)
(* still to look its employee up.                                          *)
Opens(s) ==
  /\ NotesOK(s)
  /\ s.pc # "lookup" => \A n \in s.notes : n.action \notin {"created", "reassigned"}

(* Handler by handler: POST /tasks,                                        *)
LEMMA CreateNotes ==
  ASSUME IInv, NEW r \in Requests, NEW u \in Users, NEW t \in Tasks,
         NEW e \in Employees, NEW data \in [Fields -> Contents],
         create_task(r, u, t, e, data)
  PROVE  Opens(session'[r])
<1>. DEFINE s == session'[r]
            row == [status |-> "PENDING", assigned_to |-> e, data |-> data,
                    started_at |-> Null, completed_at |-> Null, is_deleted |-> FALSE]
            n == note("created", Null, data["title"])
<1>1. /\ s.pc = "lookup" /\ s.user = u /\ s.task = t /\ s.old = row /\ s.new = row
      /\ s.notes = {n}
      /\ t \notin DOMAIN task
  BY OpenFields DEF create_task, IInv
<1>2. ~row.is_deleted /\ n.action = "created"
  BY DEF note
<1>. HIDE DEF s, row, n
<1>3. \A column \in Columns : n.action # column
  BY <1>2, StoredColumns
<1>. QED
  BY <1>1, <1>2, <1>3 DEF s, Opens, NotesOK, Starts, Completes

(* PATCH /tasks/{id}: an entry for each column of the body,                *)
LEMMA UpdateNotes ==
  ASSUME IInv, NEW r \in Requests, NEW u \in Users, NEW t \in Tasks,
         NEW patch \in Patches, update_task(r, u, t, patch)
  PROVE  Opens(session'[r])
<1>. DEFINE s == session'[r]
            old == task[t]
            new == [old EXCEPT !.data = [f \in Fields |->
                      IF f \in DOMAIN patch THEN patch[f] ELSE old.data[f]]]
            notes == {note(f, old.data[f], patch[f]) : f \in DOMAIN patch}
<1>1. /\ s.pc = "ready" /\ s.user = u /\ s.task = t /\ s.old = old /\ s.new = new
      /\ s.notes = notes
      /\ Visible(t)
  BY OpenFields DEF update_task, IInv
<1>2. old \in Row /\ ~old.is_deleted
  BY <1>1, LoadedRow
<1>3. PICK F \in SUBSET Fields : patch \in [F -> Contents]
  BY DEF Patches
<1>4. /\ new.status = old.status /\ new.assigned_to = old.assigned_to
      /\ new.started_at = old.started_at /\ new.completed_at = old.completed_at
      /\ new.is_deleted = old.is_deleted
      /\ \A f \in Fields : new.data[f] = IF f \in DOMAIN patch THEN patch[f] ELSE old.data[f]
  BY <1>2 DEF Row
<1>5. \A n \in notes : /\ n.action \in Fields \cap DOMAIN patch
                       /\ n.old = old.data[n.action] /\ n.new = patch[n.action]
  BY <1>3 DEF note
<1>6. \A f \in DOMAIN patch : \E n \in notes : n.action = f /\ n.new = patch[f]
  <2>. SUFFICES ASSUME NEW f \in DOMAIN patch
                PROVE  \E n \in notes : n.action = f /\ n.new = patch[f]
    OBVIOUS
  <2>1. note(f, old.data[f], patch[f]) \in notes
    OBVIOUS
  <2>. QED
    BY <2>1 DEF note
<1>7. Fields \cap {"created", "status_changed", "reassigned", "deleted"} = {}
  BY FieldsAssumption DEF LogActions
<1>8. s.task \in DOMAIN task
  BY <1>1 DEF Visible
<1>. HIDE DEF s, old, new, notes
<1>9. ASSUME NEW column \in Columns
      PROVE  /\ Stored(new, column) # Stored(old, column)
                  => \E n \in notes : n.action = column /\ n.new = Stored(new, column)
             /\ \A n \in notes : n.action = column =>
                  n.old = Stored(old, column) /\ n.new = Stored(new, column)
  <2>1. CASE column \in {"status_changed", "reassigned"}
    BY <1>4, <1>5, <1>7, <2>1, StoredColumns
  <2>2. CASE column \in Fields
    BY <1>4, <1>5, <1>6, <2>2, StoredColumns
  <2>. QED
    BY <2>1, <2>2, StoredColumns
<1>10. NotesOK(s)
  BY <1>1, <1>2, <1>4, <1>5, <1>7, <1>8, <1>9 DEF NotesOK, Starts, Completes
<1>. QED
  BY <1>1, <1>5, <1>7, <1>10 DEF s, Opens

(* PATCH /tasks/{id}/status: a valid transition is a change,               *)
LEMMA StatusNotes ==
  ASSUME IInv, NEW r \in Requests, NEW u \in Users, NEW t \in Tasks,
         NEW to \in TaskStatus, update_task_status(r, u, t, to)
  PROVE  Opens(session'[r])
<1>. DEFINE s == session'[r]
            old == task[t]
            new == [old EXCEPT !.status = to]
            n == note("status_changed", old.status, to)
<1>1. /\ s.pc = "loaded" /\ s.user = u /\ s.task = t /\ s.old = old /\ s.new = new
      /\ s.notes = {n}
      /\ Visible(t) /\ MayMove(u, old, to)
  BY OpenFields DEF update_task_status, IInv
<1>2. old \in Row /\ ~old.is_deleted
  BY <1>1, LoadedRow
<1>3. /\ new.status = to /\ new.assigned_to = old.assigned_to /\ new.data = old.data
      /\ new.started_at = old.started_at /\ new.completed_at = old.completed_at
      /\ new.is_deleted = old.is_deleted
  BY <1>2 DEF Row
<1>4. RoleOf[u] = "EMPLOYEE" => <<old.status, to>> \in allowed_for_employee
  BY <1>1 DEF MayMove
<1>5. n.action = "status_changed" /\ n.old = old.status /\ n.new = to
  BY DEF note
<1>6. s.task \in DOMAIN task
  BY <1>1 DEF Visible
<1>. HIDE DEF s, old, new, n
<1>7. ASSUME NEW column \in Columns
      PROVE  /\ Stored(new, column) # Stored(old, column)
                  => n.action = column /\ n.new = Stored(new, column)
             /\ n.action = column =>
                  n.old = Stored(old, column) /\ n.new = Stored(new, column)
  BY <1>3, <1>5, StoredColumns DEF LogActions
<1>8. NotesOK(s)
  BY <1>1, <1>2, <1>3, <1>4, <1>5, <1>6, <1>7 DEF NotesOK, Starts, Completes
<1>. QED
  BY <1>1, <1>5, <1>8 DEF s, Opens

(* PATCH /tasks/{id}/assign: the old assignee is read before it is lost,   *)
LEMMA ReassignNotes ==
  ASSUME IInv, NEW r \in Requests, NEW u \in Users, NEW t \in Tasks,
         NEW e \in Employees, reassign_task(r, u, t, e)
  PROVE  Opens(session'[r])
<1>. DEFINE s == session'[r]
            old == task[t]
            new == [old EXCEPT !.assigned_to = e]
            n == note("reassigned", old.assigned_to, e)
<1>1. /\ s.pc = "lookup" /\ s.user = u /\ s.task = t /\ s.old = old /\ s.new = new
      /\ s.notes = {n}
      /\ Visible(t)
  BY OpenFields DEF reassign_task, IInv
<1>2. old \in Row /\ ~old.is_deleted
  BY <1>1, LoadedRow
<1>3. /\ new.status = old.status /\ new.assigned_to = e /\ new.data = old.data
      /\ new.started_at = old.started_at /\ new.completed_at = old.completed_at
      /\ new.is_deleted = old.is_deleted
  BY <1>2 DEF Row
<1>4. n.action = "reassigned" /\ n.old = old.assigned_to /\ n.new = e
  BY DEF note
<1>5. s.task \in DOMAIN task
  BY <1>1 DEF Visible
<1>. HIDE DEF s, old, new, n
<1>6. ASSUME NEW column \in Columns
      PROVE  /\ Stored(new, column) # Stored(old, column)
                  => n.action = column /\ n.new = Stored(new, column)
             /\ n.action = column =>
                  n.old = Stored(old, column) /\ n.new = Stored(new, column)
  BY <1>3, <1>4, StoredColumns DEF LogActions
<1>7. NotesOK(s)
  BY <1>1, <1>2, <1>3, <1>4, <1>5, <1>6 DEF NotesOK, Starts, Completes
<1>. QED
  BY <1>1, <1>7 DEF s, Opens

(* DELETE /tasks/{id}: an administrator's, and it changes only the flag.   *)
LEMMA DeleteNotes ==
  ASSUME IInv, NEW r \in Requests, NEW u \in Users, NEW t \in Tasks, delete_task(r, u, t)
  PROVE  Opens(session'[r])
<1>. DEFINE s == session'[r]
            old == task[t]
            new == [old EXCEPT !.is_deleted = TRUE]
            n == note("deleted", Null, Null)
<1>1. /\ s.pc = "ready" /\ s.user = u /\ s.task = t /\ s.old = old /\ s.new = new
      /\ s.notes = {n}
      /\ Visible(t) /\ AdminUser(u)
  BY OpenFields DEF delete_task, IInv
<1>2. old \in Row /\ ~old.is_deleted
  BY <1>1, LoadedRow
<1>3. /\ new.status = old.status /\ new.assigned_to = old.assigned_to /\ new.data = old.data
      /\ new.started_at = old.started_at /\ new.completed_at = old.completed_at
      /\ new.is_deleted
  BY <1>2 DEF Row
<1>4. n.action = "deleted" /\ n.new = Null
  BY DEF note
<1>5. s.task \in DOMAIN task
  BY <1>1 DEF Visible
<1>. HIDE DEF s, old, new, n
<1>6. \A column \in Columns : Stored(new, column) = Stored(old, column) /\ n.action # column
  BY <1>3, <1>4, SameColumns, StoredColumns
<1>7. NotesOK(s)
  BY <1>1, <1>2, <1>3, <1>4, <1>5, <1>6 DEF NotesOK, Starts, Completes
<1>. QED
  BY <1>1, <1>4, <1>7 DEF s, Opens

(* A handler opens a unit of work of this kind on the row as it is, and    *)
(* touches nothing else.                                                   *)
LEMMA HandlerOpens ==
  ASSUME IInv, NEW r \in Requests, Handler(r)
  PROVE  /\ Opens(session'[r]) /\ LoadedAsIs(session'[r])
         /\ session'[r].pc # "flushed" /\ session'[r] # Idle
         /\ session[r] = Idle
         /\ session' = [session EXCEPT ![r] = session'[r]]
         /\ UNCHANGED <<task, activity, active, clock>>
<1>1. PICK s : Opened(r, s)
  BY CreateOpens, UpdateOpens, StatusOpens, ReassignOpens, DeleteOpens DEF Handler
<1>2. /\ session'[r] = s /\ s.pc # "flushed" /\ s \in Work /\ session[r] = Idle
      /\ session' = [session EXCEPT ![r] = s]
      /\ UNCHANGED <<task, activity, active, clock>>
      /\ s.task \in DOMAIN task => s.old = task[s.task]
  BY <1>1 DEF Opened, IInv, TypeOK
<1>3. Opens(session'[r])
  BY CreateNotes, UpdateNotes, StatusNotes, ReassignNotes, DeleteNotes DEF Handler
<1>4. LoadedAsIs(s)
  BY <1>2 DEF LoadedAsIs
<1>. QED
  BY <1>2, <1>3, <1>4, WorkIsNotIdle

-----------------------------------------------------------------------------
(* The invariant of the log                                                *)

(* A step of one slot that writes no table.                                *)
LEMMA LogStep ==
  ASSUME IInv, LogInv, NEW r \in Requests, NEW s1, UNCHANGED <<task, activity>>,
         session' = [session EXCEPT ![r] = s1],
         s1 # Idle =>
           /\ NotesOK(s1) /\ WriterIsNewest(s1) /\ LoadedAsIs(s1)
           /\ s1.pc = "flushed" =>
                /\ \A e \in activity : e.at # s1.at
                /\ \A q \in Busy : session[q].pc = "flushed" => session[q].at # s1.at
  PROVE  LogInv'
<1>1. /\ \A q \in Requests \ {r} : session'[q] = session[q]
      /\ session'[r] = s1
      /\ \A q \in Busy' : q \in Requests /\ (q # r => q \in Busy) /\ (q = r => s1 # Idle)
  BY DEF Busy, IInv, TypeOK
<1>2. DeletionIsLogged' /\ ColumnsFollowLog'
  BY DEF LogInv, DeletionIsLogged, AdminUser, ColumnsFollowLog, Entries, Changes, Newest
<1>3. (\A q \in Busy :
         NotesOK(session[q]) /\ WriterIsNewest(session[q]) /\ LoadedAsIs(session[q]))'
  <2>. SUFFICES ASSUME NEW q \in Busy'
                PROVE  (NotesOK(session[q]) /\ WriterIsNewest(session[q])
                        /\ LoadedAsIs(session[q]))'
    OBVIOUS
  <2>0. PICK p : p = session'[q]
    OBVIOUS
  <2>1. NotesOK(p) /\ WriterIsNewest(p) /\ LoadedAsIs(p)
    BY <1>1, <2>0 DEF LogInv
  <2>2. NotesOK(session[q])'
    BY <2>0, <2>1 DEF NotesOK, Starts, Completes, AdminUser
  <2>3. WriterIsNewest(session[q])'
    BY <2>0, <2>1 DEF WriterIsNewest, Writes
  <2>4. LoadedAsIs(session[q])'
    BY <2>0, <2>1 DEF LoadedAsIs, Changes, Entries
  <2>. QED
    BY <2>2, <2>3, <2>4
<1>4. \A q \in Busy' : session'[q].pc = "flushed" =>
        /\ \A e \in activity' : e.at # session'[q].at
        /\ \A p \in Busy' \ {q} :
             session'[p].pc = "flushed" => session'[p].at # session'[q].at
  BY <1>1 DEF LogInv
<1>. QED
  BY <1>2, <1>3, <1>4 DEF LogInv

(* The lookup lets a unit of work go on as it is, or ends it.              *)
LEMMA LogLookup ==
  ASSUME IInv, LogInv, NEW r \in Requests, lookup_assignee(r)
  PROVE  LogInv'
<1>. DEFINE s == session[r]
            s1 == [s EXCEPT !.pc = "ready"]
<1>1. /\ r \in Busy /\ s \in Work /\ NotesOK(s) /\ LoadedAsIs(s)
      /\ UNCHANGED <<task, activity>>
      /\ session' = [session EXCEPT ![r] = s1] \/ session' = [session EXCEPT ![r] = Idle]
  BY BusyWork DEF lookup_assignee, LogInv, IInv, Busy
<1>2. /\ s1.pc = "ready" /\ s1.user = s.user /\ s1.task = s.task /\ s1.old = s.old
      /\ s1.new = s.new /\ s1.notes = s.notes
  BY <1>1 DEF Work
<1>. HIDE DEF s, s1
<1>3. NotesOK(s1)
  BY <1>1, <1>2 DEF NotesOK, Starts, Completes
<1>4. WriterIsNewest(s1) /\ LoadedAsIs(s1)
  BY <1>1, <1>2 DEF WriterIsNewest, LoadedAsIs
<1>. QED
  BY <1>1, <1>2, <1>3, <1>4, LogStep

(* The stamps are not logged, and come only with a move.                   *)
LEMMA LogTimestamp ==
  ASSUME IInv, LogInv, NEW r \in Requests, auto_timestamp(r)
  PROVE  LogInv'
<1>0. PICK s : s = session[r]
  OBVIOUS
<1>0a. PICK new : new = Stamped(s.new, clock)
  OBVIOUS
<1>0b. PICK s1 : s1 = [s EXCEPT !.pc = "ready", !.new = new]
  OBVIOUS
<1>1. /\ r \in Busy /\ s \in Work /\ s.pc = "loaded" /\ s.new \in Row
      /\ WorkOK(s) /\ NotesOK(s) /\ LoadedAsIs(s)
      /\ UNCHANGED <<task, activity>>
      /\ session' = [session EXCEPT ![r] = s1]
  BY <1>0, <1>0a, <1>0b, BusyWork DEF auto_timestamp, Busy, IInv, SessionsInv, LogInv
<1>2. /\ new.status = s.new.status /\ new.assigned_to = s.new.assigned_to
      /\ new.data = s.new.data /\ new.is_deleted = s.new.is_deleted
      /\ new.completed_at # s.new.completed_at => new.status = "COMPLETED"
  BY <1>0a, <1>1 DEF Stamped, Row
<1>3. /\ s1.pc = "ready" /\ s1.user = s.user /\ s1.task = s.task /\ s1.old = s.old
      /\ s1.new = new /\ s1.notes = s.notes
  BY <1>0b, <1>1 DEF Work
<1>4. \A column \in Columns : Stored(new, column) = Stored(s.new, column)
  BY <1>2, SameColumns
<1>5. /\ s.new.status # s.old.status
      /\ s.new.completed_at = s.old.completed_at
  BY <1>1 DEF WorkOK, Completes
<1>6. NotesOK(s1)
  <2>1. s.task \notin DOMAIN task => s1.task \notin DOMAIN task
    BY <1>3
  <2>. QED
    BY <1>1, <1>2, <1>3, <1>4, <1>5 DEF NotesOK, Starts, Completes
<1>7. WriterIsNewest(s1) /\ LoadedAsIs(s1)
  BY <1>1, <1>3 DEF WriterIsNewest, LoadedAsIs
<1>. QED
  BY <1>1, <1>3, <1>6, <1>7, LogStep

(* flush stamps with a time that no entry and no other session has.        *)
LEMMA LogFlush ==
  ASSUME IInv, LogInv, NEW r \in Requests, flush(r)
  PROVE  LogInv'
<1>0. PICK s : s = session[r]
  OBVIOUS
<1>0a. PICK s1 : s1 = [s EXCEPT !.pc = "flushed", !.at = clock + 1]
  OBVIOUS
<1>1. /\ r \in Busy /\ s \in Work /\ NotesOK(s) /\ LoadedAsIs(s) /\ clock \in Nat
      /\ UNCHANGED <<task, activity>>
      /\ session' = [session EXCEPT ![r] = s1]
  BY <1>0, <1>0a, BusyWork DEF flush, LogInv, IInv, Busy, TypeOK
<1>2. /\ s1.pc = "flushed" /\ s1.at = clock + 1 /\ s1.user = s.user /\ s1.task = s.task
      /\ s1.old = s.old /\ s1.new = s.new /\ s1.notes = s.notes
  BY <1>0a, <1>1 DEF Work
<1>3. \A e \in activity : e.at \in Nat /\ e.at <= clock
  BY DEF IInv, TypeOK, TablesInv, Entry
<1>4. \A q \in Busy : session[q].at \in Nat /\ session[q].at <= clock
  BY BusyWork DEF IInv, SessionsInv, UpToDate
<1>5. NotesOK(s1)
  BY <1>1, <1>2 DEF NotesOK, Starts, Completes
<1>6. /\ \A e \in activity : e.at < s1.at /\ e.at # s1.at
      /\ \A q \in Busy : session[q].at # s1.at
  BY <1>1, <1>2, <1>3, <1>4
<1>7. WriterIsNewest(s1) /\ LoadedAsIs(s1)
  BY <1>1, <1>2, <1>6 DEF WriterIsNewest, LoadedAsIs
<1>. QED
  BY <1>1, <1>5, <1>6, <1>7, LogStep

(* A row a, column by column, as an UPDATE of a stored one leaves it.      *)
Written(row, old, new, a) ==
  /\ a.status = Column(row.status, old.status, new.status)
  /\ a.assigned_to = Column(row.assigned_to, old.assigned_to, new.assigned_to)
  /\ a.started_at = Column(row.started_at, old.started_at, new.started_at)
  /\ a.completed_at = Column(row.completed_at, old.completed_at, new.completed_at)
  /\ a.is_deleted = Column(row.is_deleted, old.is_deleted, new.is_deleted)
  /\ \A f \in Fields : a.data[f] = Column(row.data[f], old.data[f], new.data[f])

(* What a commit leaves of the row it writes.                              *)
LEMMA CommitColumns ==
  ASSUME IInv, NEW r \in Requests, commit(r)
  PROVE  LET s == session[r]
             a == task'[s.task]
         IN  /\ r \in Busy /\ s \in Work /\ s.pc = "flushed" /\ WorkOK(s) /\ UpToDate(s)
             /\ s.old \in Row /\ s.new \in Row
             /\ DOMAIN task' = DOMAIN task \cup {s.task}
             /\ \A t \in DOMAIN task \ {s.task} : task'[t] = task[t]
             /\ activity' = activity \cup Logged(s)
             /\ session' = [session EXCEPT ![r] = Idle]
             /\ UNCHANGED active
             /\ s.task \notin DOMAIN task => a = s.new /\ s.new = s.old
             /\ s.task \in DOMAIN task =>
                  LET row == task[s.task]
                  IN  row \in Row /\ Written(row, s.old, s.new, a)
<1>. DEFINE s == session[r]
            a == task'[s.task]
<1>1. /\ r \in Busy /\ s \in Work /\ s.pc = "flushed" /\ WorkOK(s) /\ UpToDate(s)
      /\ s.old \in Row /\ s.new \in Row
      /\ task' = [t \in DOMAIN task \cup {s.task} |-> IF t = s.task THEN RowAfter(s) ELSE task[t]]
      /\ activity' = activity \cup Logged(s)
      /\ session' = [session EXCEPT ![r] = Idle]
      /\ UNCHANGED active
  BY BusyWork DEF commit, Busy, IInv, SessionsInv
<1>2. CASE s.task \notin DOMAIN task
  BY <1>1, <1>2 DEF RowAfter, UpToDate
<1>3. CASE s.task \in DOMAIN task
  <2>1. task[s.task] \in Row /\ a = UpdatedRow(task[s.task], s.old, s.new)
    BY <1>1, <1>3 DEF RowAfter, IInv, TypeOK
  <2>2. a = UpdatedRow(task[s.task], s.old, s.new) => Written(task[s.task], s.old, s.new, a)
    BY DEF UpdatedRow, Written
  <2>. HIDE DEF s, a
  <2>. QED
    BY <1>1, <1>3, <2>1, <2>2 DEF s, a
<1>. QED
  BY <1>2, <1>3

(* The entries of a commit, one for each note.                             *)
LEMMA LoggedEntries ==
  ASSUME NEW s
  PROVE  /\ \A e \in Logged(s) : /\ e.task = s.task /\ e.actor = s.user /\ e.at = s.at
                                 /\ \E n \in s.notes : e.action = n.action /\ e.old = n.old
                                                       /\ e.new = n.new
         /\ \A n \in s.notes : \E e \in Logged(s) :
              /\ e.task = s.task /\ e.actor = s.user /\ e.at = s.at
              /\ e.action = n.action /\ e.old = n.old /\ e.new = n.new
<1>1. ASSUME NEW n \in s.notes
      PROVE  \E e \in Logged(s) :
               /\ e.task = s.task /\ e.actor = s.user /\ e.at = s.at
               /\ e.action = n.action /\ e.old = n.old /\ e.new = n.new
  <2>. DEFINE e == [task |-> s.task, actor |-> s.user, action |-> n.action,
                    old |-> n.old, new |-> n.new, at |-> s.at]
  <2>1. e \in Logged(s)
    BY DEF Logged
  <2>2. /\ e.task = s.task /\ e.actor = s.user /\ e.at = s.at
        /\ e.action = n.action /\ e.old = n.old /\ e.new = n.new
    OBVIOUS
  <2>. HIDE DEF e
  <2>. QED
    BY <2>1, <2>2
<1>. QED
  BY <1>1 DEF Logged

(* A session whose columns are as it loaded them tells of no change, and   *)
(* one whose column has changed tells of nothing else.                     *)
LEMMA LoggedColumn ==
  ASSUME NEW s, NotesOK(s), NEW column \in Columns
  PROVE  LET T == {e \in Logged(s) : e.action = column}
         IN  /\ \A e \in T : /\ e.task = s.task /\ e.at = s.at
                             /\ e.old = Stored(s.old, column) /\ e.new = Stored(s.new, column)
             /\ Stored(s.new, column) # Stored(s.old, column) => T # {}
<1>. DEFINE T == {e \in Logged(s) : e.action = column}
<1>1. ASSUME NEW e \in T
      PROVE  /\ e.task = s.task /\ e.at = s.at
             /\ e.old = Stored(s.old, column) /\ e.new = Stored(s.new, column)
  <2>1. PICK n \in s.notes : e.action = n.action /\ e.old = n.old /\ e.new = n.new
    BY LoggedEntries
  <2>. QED
    BY <2>1, LoggedEntries DEF NotesOK
<1>2. ASSUME Stored(s.new, column) # Stored(s.old, column)
      PROVE  T # {}
  <2>1. PICK n \in s.notes : n.action = column
    BY <1>2 DEF NotesOK
  <2>2. PICK e \in Logged(s) : e.action = n.action
    BY LoggedEntries
  <2>. QED
    BY <2>1, <2>2
<1>. QED
  BY <1>1, <1>2

(* What a commit does to one logged column of the row it writes: either    *)
(* the row and the column's changes are as before, or its entries are the  *)
(* newest changes and the row has their value.                             *)
LEMMA CommitColumn ==
  ASSUME IInv, LogInv, NEW r \in Requests, commit(r), NEW s, s = session[r],
         s.task \in DOMAIN task, NEW column \in Columns
  PROVE  LET t == s.task
             v == Stored(task[t], column)
             w == Stored(task'[t], column)
         IN  /\ Stored(s.new, column) = Stored(s.old, column) =>
                  w = v /\ Changes(t, column)' = Changes(t, column)
             /\ Stored(s.new, column) # Stored(s.old, column) =>
                  /\ w = Stored(s.new, column)
                  /\ Changes(t, column)' # {}
                  /\ \A e \in Changes(t, column)' : Newest(e, Changes(t, column)') => e.new = w
<1>. DEFINE t == s.task
            row == task[t]
            a == task'[t]
            T == {e \in Logged(s) : e.action = column}
<1>1. /\ r \in Busy /\ s \in Work /\ s.at \in Nat /\ s.pc = "flushed"
      /\ NotesOK(s) /\ WriterIsNewest(s) /\ activity' = activity \cup Logged(s)
      /\ Written(row, s.old, s.new, a)
  <2>1. r \in Busy /\ s.pc = "flushed" /\ activity' = activity \cup Logged(s)
    BY CommitColumns
  <2>2. Written(row, s.old, s.new, a)
    BY CommitColumns
  <2>. QED
    BY <2>1, <2>2, BusyWork DEF LogInv, IInv
<1>2. Stored(a, column) = IF Stored(s.new, column) = Stored(s.old, column)
                            THEN Stored(row, column) ELSE Stored(s.new, column)
  <2>. HIDE DEF row, a
  <2>1. CASE column \in {"status_changed", "reassigned"}
    BY <1>1, <2>1, StoredColumns DEF Written, Column
  <2>2. CASE column \in Fields
    BY <1>1, <2>2, StoredColumns DEF Written, Column
  <2>. QED
    BY <2>1, <2>2, StoredColumns
<1>3. /\ \A e \in T : /\ e.task = t /\ e.at = s.at
                      /\ e.old = Stored(s.old, column) /\ e.new = Stored(s.new, column)
      /\ Stored(s.new, column) # Stored(s.old, column) => T # {}
  BY <1>1, LoggedColumn
<1>. HIDE DEF T
<1>4. Changes(t, column)' = Changes(t, column) \cup {e \in T : e.old # e.new}
  <2>1. Entries(t, column)' = Entries(t, column) \cup T
    BY <1>1, <1>3 DEF Entries, T
  <2>. QED
    BY <2>1 DEF Changes
<1>5. CASE Stored(s.new, column) = Stored(s.old, column)
  BY <1>2, <1>3, <1>4, <1>5
<1>6. CASE Stored(s.new, column) # Stored(s.old, column)
  <2>1. Changes(t, column)' = Changes(t, column) \cup T /\ T # {}
    BY <1>3, <1>4, <1>6
  <2>2. \A e \in Changes(t, column) : e.at < s.at /\ e.at \in Nat
    <3>1. Writes(s)
      BY <1>6 DEF Writes
    <3>. QED
      BY <1>1, <3>1 DEF WriterIsNewest, Changes, Entries, IInv, TypeOK, Entry
  <2>3. ASSUME NEW e \in Changes(t, column)', Newest(e, Changes(t, column)')
        PROVE  e.new = Stored(s.new, column)
    <3>1. PICK f \in T : TRUE
      BY <2>1
    <3>2. s.at <= e.at
      BY <1>3, <2>1, <2>3, <3>1 DEF Newest
    <3>3. e \in T
      BY <1>1, <2>1, <2>2, <3>2
    <3>. QED
      BY <1>3, <3>3
  <2>. QED
    BY <1>2, <1>6, <2>1, <2>3
<1>. QED
  BY <1>5, <1>6

(* commit adds the entries of its unit of work and of no other.            *)
LEMMA LogCommit ==
  ASSUME IInv, LogInv, NEW r \in Requests, commit(r)
  PROVE  LogInv'
<1>. DEFINE s == session[r]
            a == task'[s.task]
<1>1. /\ r \in Busy /\ s \in Work /\ s.pc = "flushed" /\ WorkOK(s)
      /\ s.old \in Row /\ s.new \in Row
      /\ DOMAIN task' = DOMAIN task \cup {s.task}
      /\ \A t \in DOMAIN task \ {s.task} : task'[t] = task[t]
      /\ activity' = activity \cup Logged(s)
      /\ session' = [session EXCEPT ![r] = Idle]
      /\ s.task \notin DOMAIN task => a = s.new /\ s.new = s.old
      /\ s.task \in DOMAIN task =>
           /\ task[s.task] \in Row
           /\ a.is_deleted = Column(task[s.task].is_deleted, s.old.is_deleted, s.new.is_deleted)
  BY CommitColumns DEF Written
<1>2. NotesOK(s)
  BY <1>1 DEF LogInv
<1>3. \A e \in Logged(s) : e.task = s.task /\ e.actor = s.user /\ e.at = s.at
  BY LoggedEntries
<1>4. (\E e \in Logged(s) : e.action = "deleted" /\ AdminUser(e.actor)) <=> s.new.is_deleted
  <2>1. s.new.is_deleted \in BOOLEAN
    BY <1>1 DEF Row
  <2>2. ASSUME s.new.is_deleted
        PROVE  \E e \in Logged(s) : e.action = "deleted" /\ AdminUser(e.actor)
    <3>1. PICK n \in s.notes : n.action = "deleted" /\ AdminUser(s.user)
      BY <1>2, <2>2 DEF NotesOK
    <3>2. PICK e \in Logged(s) : e.actor = s.user /\ e.action = n.action
      BY LoggedEntries
    <3>. QED
      BY <3>1, <3>2 DEF AdminUser
  <2>3. ASSUME NEW e \in Logged(s), e.action = "deleted"
        PROVE  s.new.is_deleted
    <3>1. PICK n \in s.notes : e.action = n.action
      BY LoggedEntries
    <3>. QED
      BY <1>2, <2>3, <3>1 DEF NotesOK
  <2>. QED
    BY <2>1, <2>2, <2>3
<1>5. DeletionIsLogged'
  <2>1. ASSUME NEW t \in DOMAIN task'
        PROVE  task'[t].is_deleted <=>
                 \E e \in activity' : e.task = t /\ e.action = "deleted" /\ AdminUser(e.actor)
    <3>1. CASE t # s.task
      BY <1>1, <1>3, <3>1 DEF LogInv, DeletionIsLogged
    <3>2. CASE t = s.task /\ t \notin DOMAIN task
      <4>1. \A e \in activity : e.task # t
        BY <3>2 DEF IInv, TablesInv
      <4>2. ~s.new.is_deleted /\ ~a.is_deleted
        BY <1>1, <3>2 DEF WorkOK
      <4>. QED
        BY <1>1, <1>4, <3>2, <4>1, <4>2
    <3>3. CASE t = s.task /\ t \in DOMAIN task
      <4>1. ~s.old.is_deleted /\ s.new.is_deleted \in BOOLEAN /\ s.old.is_deleted \in BOOLEAN
            /\ task[t].is_deleted \in BOOLEAN
        BY <1>1, <3>3 DEF WorkOK, Row
      <4>2. a.is_deleted <=> task[t].is_deleted \/ s.new.is_deleted
        BY <1>1, <3>3, <4>1 DEF Column
      <4>3. task[t].is_deleted <=>
              \E e \in activity : e.task = t /\ e.action = "deleted" /\ AdminUser(e.actor)
        BY <3>3 DEF LogInv, DeletionIsLogged
      <4>. QED
        BY <1>1, <1>3, <1>4, <3>3, <4>2, <4>3
    <3>. QED
      BY <3>1, <3>2, <3>3
  <2>. QED
    BY <2>1 DEF DeletionIsLogged, AdminUser
<1>6. \A q \in Busy' : q \in Busy \ {r} /\ session'[q] = session[q]
  BY <1>1 DEF Busy, IInv, TypeOK
<1>6a. \A t, column : t # s.task =>
          Entries(t, column)' = Entries(t, column) /\ Changes(t, column)' = Changes(t, column)
  <2>1. \A t, column : t # s.task => Entries(t, column)' = Entries(t, column)
    BY <1>1, <1>3 DEF Entries
  <2>. QED
    BY <2>1 DEF Changes
<1>6b. ColumnsFollowLog'
  <2>1. ASSUME NEW t \in DOMAIN task', NEW column \in Columns
        PROVE  /\ \A e \in Changes(t, column)' :
                    Newest(e, Changes(t, column)') => Stored(task'[t], column) = e.new
               /\ Changes(t, column)' = {} =>
                    \A e \in Entries(t, column)' : Stored(task'[t], column) = e.new
    <3>1. CASE t # s.task
      <4>1. t \in DOMAIN task /\ task'[t] = task[t]
        BY <1>1, <3>1
      <4>. QED
        BY <1>6a, <3>1, <4>1 DEF LogInv, ColumnsFollowLog
    <3>2. CASE t = s.task /\ t \notin DOMAIN task
      <4>1. \A e \in activity : e.task # t
        BY <3>2 DEF IInv, TablesInv
      <4>2. \A e \in Logged(s) : e.action # column
        <5>1. \A n \in s.notes : n.action # column
          BY <1>2, <3>2, StoredColumns DEF NotesOK
        <5>2. \A e \in Logged(s) : \E n \in s.notes : e.action = n.action
          BY LoggedEntries
        <5>. QED
          BY <5>1, <5>2
      <4>3. Entries(t, column)' = {}
        BY <1>1, <4>1, <4>2 DEF Entries
      <4>. QED
        BY <4>3 DEF Changes
    <3>3. CASE t = s.task /\ t \in DOMAIN task
      <4>0. PICK s0 : s0 = s
        OBVIOUS
      <4>1. /\ Stored(s0.new, column) = Stored(s0.old, column) =>
                 /\ Stored(task'[t], column) = Stored(task[t], column)
                 /\ Changes(t, column)' = Changes(t, column)
            /\ Stored(s0.new, column) # Stored(s0.old, column) =>
                 /\ Changes(t, column)' # {}
                 /\ \A e \in Changes(t, column)' :
                      Newest(e, Changes(t, column)') => e.new = Stored(task'[t], column)
        BY <3>3, <4>0, CommitColumn
      <4>2. ASSUME Changes(t, column)' = {}, NEW e \in Entries(t, column)'
            PROVE  Stored(task'[t], column) = e.new
        <5>1. /\ Stored(s0.new, column) = Stored(s0.old, column)
              /\ Stored(task'[t], column) = Stored(task[t], column)
              /\ Changes(t, column) = {}
          BY <4>1, <4>2
        <5>2. Stored(s0.old, column) = Stored(task[t], column)
          BY <1>1, <3>3, <4>0, <5>1 DEF LogInv, LoadedAsIs
        <5>3. CASE e \in Entries(t, column)
          BY <3>3, <5>1, <5>3 DEF LogInv, ColumnsFollowLog
        <5>4. CASE e \notin Entries(t, column)
          <6>1. e \in Logged(s0) /\ e.action = column
            BY <1>1, <4>0, <4>2, <5>4 DEF Entries
          <6>2. e.new = Stored(s0.new, column)
            BY <1>2, <4>0, <6>1, LoggedColumn
          <6>. QED
            BY <5>1, <5>2, <6>2
        <5>. QED
          BY <5>3, <5>4
      <4>3. ASSUME NEW e \in Changes(t, column)', Newest(e, Changes(t, column)')
            PROVE  Stored(task'[t], column) = e.new
        BY <3>3, <4>1, <4>3 DEF LogInv, ColumnsFollowLog
      <4>. QED
        BY <4>2, <4>3
    <3>. QED
      BY <3>1, <3>2, <3>3
  <2>. QED
    BY <2>1 DEF ColumnsFollowLog, Newest
<1>7. (\A q \in Busy :
         NotesOK(session[q]) /\ WriterIsNewest(session[q]) /\ LoadedAsIs(session[q]))'
  <2>. SUFFICES ASSUME NEW q \in Busy'
                PROVE  (NotesOK(session[q]) /\ WriterIsNewest(session[q])
                        /\ LoadedAsIs(session[q]))'
    OBVIOUS
  <2>0. PICK p : p = session[q]
    OBVIOUS
  <2>0a. PICK s0 : s0 = s
    OBVIOUS
  <2>1. /\ NotesOK(p) /\ WriterIsNewest(p) /\ LoadedAsIs(p) /\ session'[q] = p
        /\ Compatible(s0, p) /\ p # Idle /\ s0 # Idle
    BY <1>1, <1>6, <2>0, <2>0a DEF LogInv, IInv, SessionsInv, Busy
  <2>2. NotesOK(session[q])'
    BY <1>1, <2>1 DEF NotesOK, Starts, Completes, AdminUser
  <2>3. WriterIsNewest(session[q])'
    <3>1. CASE p.pc = "flushed" /\ Writes(p) /\ p.task = s0.task
      <4>1. ~Writes(s0)
        BY <1>1, <2>0a, <2>1, <3>1 DEF Compatible, LocksRow
      <4>2. ASSUME NEW e \in Logged(s0)
            PROVE  e.action # "deleted" /\ ~(e.action \in Columns /\ e.old # e.new)
        <5>1. PICK n \in s0.notes : e.action = n.action /\ e.old = n.old /\ e.new = n.new
          BY LoggedEntries
        <5>2. s0.new = s0.old /\ ~s0.new.is_deleted
          BY <1>1, <2>0a, <4>1 DEF Writes, WorkOK
        <5>. QED
          BY <1>2, <2>0a, <5>1, <5>2 DEF NotesOK
      <4>. QED
        BY <1>1, <2>0a, <2>1, <4>2 DEF WriterIsNewest, Writes
    <3>2. CASE ~(p.pc = "flushed" /\ Writes(p))
      BY <2>1, <3>2 DEF WriterIsNewest, Writes
    <3>3. CASE p.task # s0.task
      BY <1>1, <1>3, <2>0a, <2>1, <3>3 DEF WriterIsNewest, Writes
    <3>. QED
      BY <3>1, <3>2, <3>3
  <2>4. LoadedAsIs(p)'
    <3>. SUFFICES ASSUME p.task \in DOMAIN task', NEW column \in Columns,
                         Changes(p.task, column)' = {}
                  PROVE  Stored(p.old, column) = Stored(task'[p.task], column)
      BY DEF LoadedAsIs
    <3>1. CASE p.task # s0.task
      BY <1>1, <1>6a, <2>0a, <2>1, <3>1 DEF LoadedAsIs
    <3>2. CASE p.task = s0.task
      <4>1. s0.task \in DOMAIN task
        BY <2>1, <3>2 DEF Compatible
      <4>2. /\ Stored(task'[p.task], column) = Stored(task[p.task], column)
            /\ Changes(p.task, column) = {}
        BY <2>0a, <3>2, <4>1, CommitColumn
      <4>. QED
        BY <2>1, <3>2, <4>1, <4>2 DEF LoadedAsIs
    <3>. QED
      BY <3>1, <3>2
  <2>5. LoadedAsIs(session[q])'
    BY <2>1, <2>4 DEF LoadedAsIs, Changes, Entries
  <2>. QED
    BY <2>2, <2>3, <2>5
<1>8. \A q \in Busy' : session'[q].pc = "flushed" =>
        /\ \A e \in activity' : e.at # session'[q].at
        /\ \A p \in Busy' \ {q} :
             session'[p].pc = "flushed" => session'[p].at # session'[q].at
  BY <1>1, <1>3, <1>6 DEF LogInv
<1>. QED
  BY <1>5, <1>6b, <1>7, <1>8 DEF LogInv

(* The first state.                                                        *)
LEMMA LogInit == Init => LogInv
  BY DEF Init, LogInv, DeletionIsLogged, ColumnsFollowLog, Busy

(* Every step.                                                             *)
LEMMA LogNext == IInv /\ LogInv /\ [Next]_vars => LogInv'
<1>. SUFFICES ASSUME IInv, LogInv, [Next]_vars PROVE LogInv'
  OBVIOUS
<1>1. ASSUME NEW r \in Requests, Handler(r)
      PROVE  LogInv'
  <2>0. PICK s1 : s1 = session'[r]
    OBVIOUS
  <2>1. /\ NotesOK(s1) /\ LoadedAsIs(s1) /\ s1.pc # "flushed"
        /\ session' = [session EXCEPT ![r] = s1]
        /\ UNCHANGED <<task, activity>>
    BY <1>1, <2>0, HandlerOpens DEF Opens
  <2>2. WriterIsNewest(s1)
    BY <2>1 DEF WriterIsNewest
  <2>. QED
    BY <2>1, <2>2, LogStep
<1>2. ASSUME NEW r \in Requests, rollback(r)
      PROVE  LogInv'
  <2>1. session' = [session EXCEPT ![r] = Idle] /\ UNCHANGED <<task, activity>>
    BY <1>2 DEF rollback
  <2>. QED
    BY <2>1, LogStep
<1>3. CASE UNCHANGED <<task, activity, session>>
  BY <1>3 DEF LogInv, DeletionIsLogged, ColumnsFollowLog, Entries, Changes, Newest, Busy,
              NotesOK, WriterIsNewest, LoadedAsIs, Writes, Starts, Completes, AdminUser
<1>. QED
  BY <1>1, <1>2, <1>3, LogLookup, LogTimestamp, LogFlush, LogCommit
     DEF Next, Quiet, vars, delete_employee

(* The entries of every unit of work tell its changes, and none is stamped *)
(* like another.                                                           *)
THEOREM LogInvariance == Spec => []LogInv
  BY LogInit, LogNext, Invariance, PTL DEF Spec

(* Every column has the value of the newest entry that changed it, whatever*)
(* order the entries become visible in.                                    *)
THEOREM ColumnsFollowLogCorrect == Spec => []ColumnsFollowLog
  BY LogInvariance, PTL DEF LogInv

(* A deleted task is deleted in the log, by an administrator, and no other *)
(* is, however requests overlap.                                           *)
THEOREM DeletionIsLoggedCorrect == Spec => []DeletionIsLogged
  BY LogInvariance, PTL DEF LogInv

-----------------------------------------------------------------------------
(* What a step may never do                                                *)

(* A commit changes a column only if it adds an entry that says so: the    *)
(* entries of a unit of work tell its changes, its stamp is nobody else's, *)
(* and columns it did not change keep the stored value.                    *)
LEMMA CommitSays ==
  ASSUME IInv, LogInv, NEW r \in Requests, commit(r), NEW t \in DOMAIN task
  PROVE  LET Says(action, new) ==
               \E e \in activity' \ activity :
                 e.task = t /\ e.action = action /\ e.new = new
             Change(column) == task'[t][column] # task[t][column]
         IN  /\ Change("status") => Says("status_changed", task'[t].status)
             /\ Change("assigned_to") => Says("reassigned", task'[t].assigned_to)
             /\ Change("is_deleted") => Says("deleted", Null)
             /\ Change("started_at") => Says("status_changed", "IN_PROGRESS")
             /\ Change("completed_at") => Says("status_changed", "COMPLETED")
             /\ \A f \in Fields :
                  task'[t].data[f] # task[t].data[f] => Says(f, task'[t].data[f])
<1>. DEFINE s == session[r]
            a == task'[t]
            row == task[t]
            Says(action, new) ==
              \E e \in activity' \ activity : e.task = t /\ e.action = action /\ e.new = new
<1>1. /\ r \in Busy /\ s \in Work /\ s.pc = "flushed" /\ WorkOK(s)
      /\ s.old \in Row /\ s.new \in Row
      /\ t # s.task => a = row
      /\ activity' = activity \cup Logged(s)
      /\ t = s.task =>
           /\ row \in Row
           /\ a.status = Column(row.status, s.old.status, s.new.status)
           /\ a.assigned_to = Column(row.assigned_to, s.old.assigned_to, s.new.assigned_to)
           /\ a.started_at = Column(row.started_at, s.old.started_at, s.new.started_at)
           /\ a.completed_at = Column(row.completed_at, s.old.completed_at, s.new.completed_at)
           /\ a.is_deleted = Column(row.is_deleted, s.old.is_deleted, s.new.is_deleted)
           /\ \A f \in Fields :
                a.data[f] = Column(row.data[f], s.old.data[f], s.new.data[f])
  <2>1. /\ r \in Busy /\ s \in Work /\ s.pc = "flushed" /\ WorkOK(s)
        /\ s.old \in Row /\ s.new \in Row
        /\ activity' = activity \cup Logged(s)
    BY CommitColumns
  <2>2. t # s.task => a = row
    BY CommitColumns
  <2>3. CASE t = s.task
    BY <2>1, <2>3, CommitColumns DEF Written
  <2>. QED
    BY <2>1, <2>2, <2>3
<1>2. NotesOK(s) /\ \A e \in activity : e.at # s.at
  BY <1>1 DEF LogInv
<1>3. CASE t # s.task
  <2>1. task'[t] = task[t]
    BY <1>1, <1>3
  <2>. QED
    BY <2>1
<1>4. CASE t = s.task
  <2>1. ASSUME NEW action, NEW new, \E n \in s.notes : n.action = action /\ n.new = new
        PROVE  Says(action, new)
    <3>1. PICK n \in s.notes : n.action = action /\ n.new = new
      BY <2>1
    <3>2. PICK e \in Logged(s) : e.task = t /\ e.at = s.at /\ e.action = action /\ e.new = new
      BY <1>4, <3>1, LoggedEntries
    <3>. QED
      BY <1>1, <1>2, <3>2
  <2>2. ASSUME s.new.status # s.old.status
        PROVE  \E n \in s.notes : n.action = "status_changed" /\ n.new = s.new.status
    BY <1>1, <2>2 DEF WorkOK
  <2>. HIDE DEF Says, s
  <2>3. a.status # row.status => Says("status_changed", a.status)
    BY <1>1, <1>4, <2>1, <2>2 DEF Column
  <2>2a. \A column \in Columns : Stored(s.new, column) # Stored(s.old, column) =>
           \E n \in s.notes : n.action = column /\ n.new = Stored(s.new, column)
    BY <1>2 DEF NotesOK
  <2>4. a.assigned_to # row.assigned_to => Says("reassigned", a.assigned_to)
    <3>1. s.new.assigned_to # s.old.assigned_to =>
            \E n \in s.notes : n.action = "reassigned" /\ n.new = s.new.assigned_to
      BY <2>2a, StoredColumns DEF Columns
    <3>. QED
      BY <1>1, <1>4, <2>1, <3>1 DEF Column
  <2>5. a.is_deleted # row.is_deleted => Says("deleted", Null)
    <3>1. s.new.is_deleted => \E n \in s.notes : n.action = "deleted" /\ n.new = Null
      BY <1>2 DEF NotesOK
    <3>2. a.is_deleted # row.is_deleted => s.new.is_deleted
      BY <1>1, <1>4 DEF Column, WorkOK, Row
    <3>. QED
      BY <2>1, <3>1, <3>2
  <2>6. a.started_at # row.started_at => Says("status_changed", "IN_PROGRESS")
    <3>1. Starts(s) => s.new.status = "IN_PROGRESS" /\ s.new.status # s.old.status
      BY <1>1, <1>2 DEF WorkOK, NotesOK
    <3>2. a.started_at # row.started_at => Starts(s)
      BY <1>1, <1>4 DEF Column, Starts
    <3>. QED
      BY <2>1, <2>2, <3>1, <3>2
  <2>7. a.completed_at # row.completed_at => Says("status_changed", "COMPLETED")
    <3>1. Completes(s) => s.new.status = "COMPLETED" /\ s.new.status # s.old.status
      BY <1>2 DEF NotesOK
    <3>2. a.completed_at # row.completed_at => Completes(s)
      BY <1>1, <1>4 DEF Column, Completes
    <3>. QED
      BY <2>1, <2>2, <3>1, <3>2
  <2>8. ASSUME NEW f \in Fields, a.data[f] # row.data[f]
        PROVE  Says(f, a.data[f])
    <3>1. s.new.data[f] # s.old.data[f] /\ a.data[f] = s.new.data[f]
      BY <1>1, <1>4, <2>8 DEF Column
    <3>2. \E n \in s.notes : n.action = f /\ n.new = s.new.data[f]
      BY <2>2a, <3>1, StoredColumns DEF Columns
    <3>. QED
      BY <2>1, <3>1, <3>2
  <2>. QED
    BY <2>3, <2>4, <2>5, <2>6, <2>7, <2>8 DEF Says
<1>. QED
  BY <1>3, <1>4

(* A session that loaded an old row never writes back a column another     *)
(* session has changed since.                                              *)
THEOREM ColumnsChangeAsLoggedCorrect == Spec => ColumnsChangeAsLogged
<1>. DEFINE Logs ==
       \A t \in DOMAIN task :
         LET Says(action, new) ==
               \E e \in activity' \ activity :
                 e.task = t /\ e.action = action /\ e.new = new
             Change(column) == task'[t][column] # task[t][column]
         IN  /\ Change("status") => Says("status_changed", task'[t].status)
             /\ Change("assigned_to") => Says("reassigned", task'[t].assigned_to)
             /\ Change("is_deleted") => Says("deleted", Null)
             /\ Change("started_at") => Says("status_changed", "IN_PROGRESS")
             /\ Change("completed_at") => Says("status_changed", "COMPLETED")
             /\ \A f \in Fields :
                  task'[t].data[f] # task[t].data[f] => Says(f, task'[t].data[f])
<1>1. IInv /\ LogInv /\ [Next]_vars => [Logs]_vars
  <2>. SUFFICES ASSUME IInv, LogInv, [Next]_vars PROVE Logs
    OBVIOUS
  <2>1. CASE \E r \in Requests : commit(r)
    BY <2>1, CommitSays
  <2>2. CASE UNCHANGED <<task, activity>>
    BY <2>2
  <2>. QED
    BY <2>1, <2>2, OnlyCommitWrites
<1>. QED
  BY <1>1, Invariance, LogInvariance, PTL DEF Spec, ColumnsChangeAsLogged

(* Nobody comes to have found a deactivated employee active: the lookup    *)
(* refuses, and the handlers that assign all go through it.                *)
LEMMA AssigningShrinks ==
  ASSUME IInv, [Next]_vars, NEW e \in Employees \ active
  PROVE  Assigning(e)' \subseteq Assigning(e)
<1>. SUFFICES ASSUME NEW q \in Assigning(e)' PROVE q \in Assigning(e)
  OBVIOUS
<1>1. /\ q \in Requests /\ session'[q] # Idle /\ session'[q].pc # "lookup"
      /\ session'[q].new.assigned_to = e
      /\ \E n \in session'[q].notes : n.action \in {"created", "reassigned"}
  BY DEF Assigning, Busy
<1>2. ASSUME session'[q] = session[q]
      PROVE  q \in Assigning(e)
  BY <1>1, <1>2 DEF Assigning, Busy
<1>3. ASSUME NEW r \in Requests, Handler(r)
      PROVE  q \in Assigning(e)
  <2>1. Opens(session'[r]) /\ session' = [session EXCEPT ![r] = session'[r]]
    BY <1>3, HandlerOpens
  <2>2. q # r
    BY <1>1, <2>1 DEF Opens
  <2>. QED
    BY <1>1, <1>2, <2>1, <2>2 DEF IInv, TypeOK
<1>4. ASSUME NEW r \in Requests, lookup_assignee(r)
      PROVE  q \in Assigning(e)
  <2>. DEFINE s == session[r]
              s1 == [s EXCEPT !.pc = "ready"]
  <2>1. /\ r \in Busy /\ s \in Work
        /\ session' = [session EXCEPT ![r] = IF s.new.assigned_to \in active THEN s1 ELSE Idle]
    BY <1>4, BusyWork DEF lookup_assignee, Busy, IInv
  <2>2. s1.new = s.new
    BY <2>1 DEF Work
  <2>. HIDE DEF s1
  <2>3. q # r
    BY <1>1, <2>1, <2>2 DEF IInv, TypeOK
  <2>. QED
    BY <1>1, <1>2, <2>1, <2>3 DEF IInv, TypeOK
<1>4a. ASSUME NEW r \in Requests, auto_timestamp(r)
       PROVE  q \in Assigning(e)
  <2>. DEFINE s == session[r]
              new == Stamped(s.new, clock)
              s1 == [s EXCEPT !.pc = "ready", !.new = new]
  <2>1. /\ r \in Busy /\ s \in Work /\ s.new \in Row /\ s.pc = "loaded"
        /\ session' = [session EXCEPT ![r] = s1]
    BY <1>4a, BusyWork DEF auto_timestamp, Busy, IInv
  <2>2. new.assigned_to = s.new.assigned_to
    BY <2>1 DEF Stamped, Row
  <2>. HIDE DEF new
  <2>3. s1.new = new /\ s1.notes = s.notes
    BY <2>1 DEF Work
  <2>. HIDE DEF s1
  <2>4. CASE q = r
    BY <1>1, <2>1, <2>2, <2>3, <2>4 DEF Assigning, IInv, TypeOK
  <2>5. CASE q # r
    BY <1>1, <1>2, <2>1, <2>5 DEF IInv, TypeOK
  <2>. QED
    BY <2>4, <2>5
<1>5. ASSUME NEW r \in Requests, flush(r)
      PROVE  q \in Assigning(e)
  <2>. DEFINE s == session[r]
              s1 == [s EXCEPT !.pc = "flushed", !.at = clock + 1]
  <2>1. /\ r \in Busy /\ s \in Work /\ s.pc = "ready"
        /\ session' = [session EXCEPT ![r] = s1]
    BY <1>5, BusyWork DEF flush, Busy, IInv
  <2>2. s1.new = s.new /\ s1.notes = s.notes
    BY <2>1 DEF Work
  <2>. HIDE DEF s1
  <2>3. CASE q = r
    BY <1>1, <2>1, <2>2, <2>3 DEF Assigning, IInv, TypeOK
  <2>4. CASE q # r
    BY <1>1, <1>2, <2>1, <2>4 DEF IInv, TypeOK
  <2>. QED
    BY <2>3, <2>4
<1>6. ASSUME NEW r \in Requests, commit(r) \/ rollback(r)
      PROVE  q \in Assigning(e)
  <2>1. session' = [session EXCEPT ![r] = Idle]
    BY <1>6 DEF commit, rollback
  <2>. QED
    BY <1>1, <1>2, <2>1 DEF IInv, TypeOK
<1>7. CASE UNCHANGED session
  BY <1>2, <1>7
<1>. QED
  BY <1>3, <1>4, <1>4a, <1>5, <1>6, <1>7 DEF Next, Quiet, vars, delete_employee

(* A task that comes to an employee comes by the commit of a creation or a *)
(* reassignment.                                                           *)
LEMMA CommitAssigns ==
  ASSUME IInv, LogInv, NEW r \in Requests, commit(r), NEW t \in DOMAIN task',
         t \in DOMAIN task => task[t].assigned_to # task'[t].assigned_to
  PROVE  r \in Assigning(task'[t].assigned_to) /\ session[r].task = t
<1>. DEFINE s == session[r]
            a == task'[t]
<1>1. /\ r \in Busy /\ s.pc = "flushed"
      /\ DOMAIN task' = DOMAIN task \cup {s.task}
      /\ \A x \in DOMAIN task \ {s.task} : task'[x] = task[x]
      /\ s.task \notin DOMAIN task => task'[s.task] = s.new
      /\ s.task \in DOMAIN task =>
           task'[s.task].assigned_to =
             Column(task[s.task].assigned_to, s.old.assigned_to, s.new.assigned_to)
  BY CommitColumns DEF Written
<1>2. NotesOK(s)
  BY <1>1 DEF LogInv
<1>3. t = s.task
  BY <1>1
<1>4. CASE t \notin DOMAIN task
  BY <1>1, <1>2, <1>3, <1>4 DEF Assigning, NotesOK
<1>5. CASE t \in DOMAIN task
  <2>1. s.new.assigned_to # s.old.assigned_to /\ a.assigned_to = s.new.assigned_to
    BY <1>1, <1>3, <1>5 DEF Column
  <2>2. \E n \in s.notes : n.action = "reassigned"
    BY <1>2, <2>1, StoredColumns DEF NotesOK, Columns
  <2>. QED
    BY <1>1, <1>3, <2>1, <2>2 DEF Assigning
<1>. QED
  BY <1>4, <1>5

(* Once an employee is deactivated, work comes to it only from requests    *)
(* that had looked it up before.                                           *)
THEOREM DeactivatedGetNoNewWorkCorrect == Spec => DeactivatedGetNoNewWork
<1>. DEFINE Refused ==
       \A e \in Employees \ active :
         /\ Assigning(e)' \subseteq Assigning(e)
         /\ \A t \in DOMAIN task' :
              /\ task'[t].assigned_to = e
              /\ t \in DOMAIN task => task[t].assigned_to # e
              => \E r \in Assigning(e) : session[r].task = t
<1>1. IInv /\ LogInv /\ [Next]_vars => [Refused]_vars
  <2>. SUFFICES ASSUME IInv, LogInv, [Next]_vars PROVE Refused
    OBVIOUS
  <2>1. CASE \E r \in Requests : commit(r)
    BY <2>1, AssigningShrinks, CommitAssigns
  <2>2. CASE UNCHANGED <<task, activity>>
    BY <2>2, AssigningShrinks
  <2>. QED
    BY <2>1, <2>2, OnlyCommitWrites
<1>. QED
  BY <1>1, Invariance, LogInvariance, PTL DEF Spec, DeactivatedGetNoNewWork

-----------------------------------------------------------------------------
(* The documented workflow                                                 *)

(* What a task looks like to the workflow depends on its row and its moves.*)
LEMMA SameTask ==
  ASSUME NEW t, t \in DOMAIN task' <=> t \in DOMAIN task,
         t \in DOMAIN task => task'[t] = task[t],
         Moves(t)' = Moves(t)
  PROVE  UNCHANGED Workflow(t)!vars
<1>1. /\ (IF t \in DOMAIN task' THEN task'[t].status ELSE "ABSENT")
           = (IF t \in DOMAIN task THEN task[t].status ELSE "ABSENT")
      /\ (t \in DOMAIN task' /\ task'[t].started_at # Null)
           = (t \in DOMAIN task /\ task[t].started_at # Null)
      /\ (t \in DOMAIN task' /\ task'[t].completed_at # Null)
           = (t \in DOMAIN task /\ task[t].completed_at # Null)
      /\ (t \in DOMAIN task' /\ task'[t].is_deleted)
           = (t \in DOMAIN task /\ task[t].is_deleted)
  OBVIOUS
<1>2. {<<e.old, e.new, RoleOf[e.actor]>> : e \in Moves(t)}'
        = {<<e.old, e.new, RoleOf[e.actor]>> : e \in Moves(t)}
  OBVIOUS
<1>. QED
  BY <1>1, <1>2 DEF Workflow!vars

(* A task that is moved after its deletion shows it in its log.            *)
LEMMA MovedAlive ==
  ASSUME IInv, LogInv, NEW r \in Requests, commit(r), NEW s, s = session[r],
         s.task \in DOMAIN task, s.new.status # s.old.status, Undisturbed(s.task)'
  PROVE  ~task[s.task].is_deleted
<1>. SUFFICES ASSUME task[s.task].is_deleted PROVE FALSE
  OBVIOUS
<1>1. r \in Busy /\ s \in Work /\ s.at \in Nat /\ s.pc = "flushed" /\ WriterIsNewest(s)
  BY CommitColumns, BusyWork DEF LogInv, IInv
<1>2. activity' = activity \cup Logged(s)
  BY CommitColumns
<1>3. PICK d \in activity : d.task = s.task /\ d.action = "deleted"
  BY DEF LogInv, DeletionIsLogged
<1>4. d.at \in Nat /\ d.at < s.at
  BY <1>1, <1>3 DEF WriterIsNewest, Writes, IInv, TypeOK, Entry
<1>5. PICK e \in Moves(s.task)' : e.at = s.at
  BY <1>1, MovesAfterCommit
<1>6. e.at < d.at
  BY <1>2, <1>3, <1>5 DEF Undisturbed
<1>. QED
  BY <1>1, <1>4, <1>5, <1>6

(* The moves the checks of update_task_status let through are documented   *)
(* ones, for the role that makes them.                                     *)
LEMMA DocumentedMoves ==
  ASSUME NEW t, NEW from, NEW to, NEW role \in Role, is_valid_transition(from, to),
         role = "EMPLOYEE" => <<from, to>> \in allowed_for_employee
  PROVE  Workflow(t)!Documented(from, to, role)
  BY DEF Workflow!Documented, Workflow!Forward, Workflow!Active, is_valid_transition,
         VALID_TRANSITIONS, allowed_for_employee, Role

(* A commit, on the task it writes, is a step of the workflow, or none, as *)
(* long as the log shows no overlap.                                       *)
LEMMA WorkflowCommit ==
  ASSUME IInv, LogInv, IInv', NEW r \in Requests, commit(r), NEW s, s = session[r],
         Undisturbed(s.task)'
  PROVE  [Workflow(s.task)!Next]_(Workflow(s.task)!vars)
<1>. DEFINE t == s.task
<1>0. PICK row : row = task[t]
  OBVIOUS
<1>0a. PICK a : a = task'[t]
  OBVIOUS
<1>1. /\ r \in Busy /\ s \in Work /\ WorkOK(s) /\ UpToDate(s) /\ NotesOK(s)
      /\ s.old \in Row /\ s.new \in Row /\ s.user \in Users
      /\ t \in DOMAIN task'
      /\ t \notin DOMAIN task => a = s.new /\ s.new = s.old
  <2>1. r \in Busy /\ s \in Work /\ WorkOK(s) /\ UpToDate(s) /\ s.old \in Row /\ s.new \in Row
    BY CommitColumns
  <2>2. t \in DOMAIN task' /\ (t \notin DOMAIN task => a = s.new /\ s.new = s.old)
    BY <1>0a, CommitColumns
  <2>. QED
    BY <2>1, <2>2 DEF LogInv, Work
<1>2. t \in DOMAIN task => row \in Row /\ Written(row, s.old, s.new, a)
  BY <1>0, <1>0a, CommitColumns
<1>3. /\ s.new.status = s.old.status => Moves(t)' = Moves(t)
      /\ s.new.status # s.old.status =>
           /\ Moves(t) \subseteq Moves(t)'
           /\ \A e \in Moves(t)' \ Moves(t) :
                e.actor = s.user /\ e.old = s.old.status /\ e.new = s.new.status
           /\ \E e \in Moves(t)' :
                e.actor = s.user /\ e.old = s.old.status /\ e.new = s.new.status
  BY <1>1, MovesAfterCommit
<1>4. s.new.status # s.old.status /\ t \in DOMAIN task => s.old.status = row.status
  BY <1>0, <1>1, ChainedCommit DEF Undisturbed
<1>5. StampsPresent(a)
  BY <1>0a, <1>1 DEF IInv, StampsFollowStatus
<1>. DEFINE trail == {<<e.old, e.new, RoleOf[e.actor]>> : e \in Moves(t)}
<1>6. CASE t \notin DOMAIN task
  <2>1. Moves(t) = {} /\ Moves(t)' = {}
    <3>1. Moves(t) = {}
      BY <1>6 DEF IInv, TablesInv, Moves
    <3>. QED
      BY <1>1, <1>3, <1>6, <3>1
  <2>2. /\ a.status = "PENDING" /\ a.started_at = Null /\ a.completed_at = Null
        /\ ~a.is_deleted
    BY <1>1, <1>6 DEF UpToDate, WorkOK
  <2>3. Workflow(t)!Create
    BY <1>0a, <1>1, <1>6, <2>1, <2>2 DEF Workflow!Create
  <2>. QED
    BY <2>3 DEF Workflow!Next
<1>7. CASE t \in DOMAIN task /\ s.new.status # s.old.status
  <2>. DEFINE to == s.new.status
              role == RoleOf[s.user]
  <2>1. /\ is_valid_transition(row.status, to) /\ to \in TaskStatus /\ role \in Role
        /\ role = "EMPLOYEE" => <<row.status, to>> \in allowed_for_employee
    BY <1>1, <1>4, <1>7, UsersAssumption DEF WorkOK, NotesOK, Row
  <2>2. ~row.is_deleted /\ ~s.new.is_deleted /\ ~s.old.is_deleted
    BY <1>0, <1>1, <1>7, MovedAlive DEF NotesOK, WorkOK
  <2>3. /\ a.status = to /\ ~a.is_deleted
        /\ a.started_at # Null <=> row.started_at # Null \/ to = "IN_PROGRESS"
        /\ a.completed_at # Null <=> row.completed_at # Null \/ to = "COMPLETED"
    <3>1. /\ a.status = to
          /\ a.is_deleted = row.is_deleted
          /\ a.started_at = IF Starts(s) THEN s.new.started_at ELSE row.started_at
          /\ a.completed_at = IF Completes(s) THEN s.new.completed_at ELSE row.completed_at
      BY <1>1, <1>2, <1>7, <2>2 DEF Written, Column, Starts, Completes, Row
    <3>2. /\ Starts(s) => to = "IN_PROGRESS" /\ s.new.started_at # Null
          /\ Completes(s) => to = "COMPLETED" /\ s.new.completed_at # Null
      BY <1>1 DEF WorkOK, NotesOK, Starts
    <3>. QED
      BY <1>5, <2>2, <3>1, <3>2 DEF StampsPresent
  <2>4. trail' = trail \cup {<<row.status, to, role>>}
    <3>1. PICK M1 : M1 = Moves(t)'
      OBVIOUS
    <3>2. PICK M : M = Moves(t)
      OBVIOUS
    <3>3. {<<e.old, e.new, RoleOf[e.actor]>> : e \in M1}
            = {<<e.old, e.new, RoleOf[e.actor]>> : e \in M} \cup {<<row.status, to, role>>}
      <4>1. /\ M \subseteq M1
            /\ \A e \in M1 \ M : <<e.old, e.new, RoleOf[e.actor]>> = <<row.status, to, role>>
            /\ \E e \in M1 : <<e.old, e.new, RoleOf[e.actor]>> = <<row.status, to, role>>
        BY <1>3, <1>4, <1>7, <3>1, <3>2
      <4>. HIDE DEF to, role
      <4>. QED
        BY <4>1
    <3>. QED
      BY <3>1, <3>2, <3>3
  <2>5. Workflow(t)!Documented(row.status, to, role)
    BY <2>1, DocumentedMoves
  <2>6. Workflow(t)!Move(to, role)
    <3>. HIDE DEF to, role
    <3>. QED
      BY <1>0, <1>0a, <1>1, <1>7, <2>2, <2>3, <2>4, <2>5 DEF Workflow!Move
  <2>. QED
    BY <2>1, <2>6 DEF Workflow!Next, Workflow!TaskStatus, TaskStatus, Workflow!Role, Role
<1>8. CASE t \in DOMAIN task /\ s.new.status = s.old.status
  <2>1. /\ a.status = row.status
        /\ a.started_at = row.started_at /\ a.completed_at = row.completed_at
        /\ a.is_deleted <=> row.is_deleted \/ s.new.is_deleted
    BY <1>1, <1>2, <1>8 DEF Written, Column, NotesOK, WorkOK, Starts, Completes, Row
  <2>2. Moves(t)' = Moves(t)
    BY <1>3, <1>8
  <2>3. trail' = trail
    BY <2>2
  <2>4. CASE a.is_deleted = row.is_deleted
    <3>1. UNCHANGED Workflow(t)!vars
      BY <1>0, <1>0a, <1>1, <1>8, <2>1, <2>3, <2>4 DEF Workflow!vars
    <3>. QED
      BY <3>1
  <2>5. CASE a.is_deleted # row.is_deleted
    <3>1. ~row.is_deleted /\ a.is_deleted
      BY <1>1, <1>2, <1>8, <2>1, <2>5 DEF Row, Written, Column
    <3>2. row.status # "ABSENT"
      BY <1>2, <1>8 DEF Row, TaskStatus
    <3>3. Workflow(t)!Delete
      BY <1>0, <1>0a, <1>1, <1>8, <2>1, <2>3, <3>1, <3>2 DEF Workflow!Delete
    <3>. QED
      BY <3>3 DEF Workflow!Next
  <2>. QED
    BY <2>4, <2>5
<1>. QED
  BY <1>6, <1>7, <1>8

(* However requests overlap, a task leaves the documented workflow only in *)
(* a way that its own log shows.                                           *)
THEOREM StraysAreLoggedCorrect == Spec => StraysAreLogged
<1>. DEFINE Keeps ==
       \A t \in Tasks : Undisturbed(t)' => [Workflow(t)!Next]_(Workflow(t)!vars)
<1>1. IInv /\ IInv' /\ LogInv /\ [Next]_vars => [Keeps]_vars
  <2>. SUFFICES ASSUME IInv, IInv', LogInv, [Next]_vars, NEW t \in Tasks, Undisturbed(t)'
                PROVE  [Workflow(t)!Next]_(Workflow(t)!vars)
    OBVIOUS
  <2>1. ASSUME NEW r \in Requests, commit(r)
        PROVE  [Workflow(t)!Next]_(Workflow(t)!vars)
    <3>1. PICK s : s = session[r]
      OBVIOUS
    <3>2. CASE t = s.task
      BY <2>1, <3>1, <3>2, WorkflowCommit
    <3>3. CASE t # s.task
      <4>1. /\ t \in DOMAIN task' <=> t \in DOMAIN task
            /\ t \in DOMAIN task => task'[t] = task[t]
        BY <2>1, <3>1, <3>3, CommitColumns
      <4>2. Moves(t)' = Moves(t)
        <5>1. r \in Busy
          BY <2>1 DEF commit, Busy
        <5>. QED
          BY <2>1, <3>1, <3>3, <5>1, MovesAfterCommit
      <4>. QED
        BY <4>1, <4>2, SameTask
    <3>. QED
      BY <3>2, <3>3
  <2>2. CASE UNCHANGED <<task, activity>>
    <3>1. Moves(t)' = Moves(t)
      BY <2>2, SameLog
    <3>. QED
      BY <2>2, <3>1, SameTask
  <2>. QED
    BY <2>1, <2>2, OnlyCommitWrites
<1>. QED
  BY <1>1, Invariance, LogInvariance, PTL DEF Spec, StraysAreLogged
=============================================================================
