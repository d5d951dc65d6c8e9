------------------------- MODULE TaskServiceProofs -------------------------
(***************************************************************************)
(* Proofs about TaskService, for every number of sessions, tasks, users,   *)
(* employees and columns.  IInv is shown to be inductive, one lemma per    *)
(* kind of step; the safety properties follow from it.                     *)
(***************************************************************************)
EXTENDS TaskService, TLAPS

(* What the five handlers have in common: session r becomes a unit of work *)
(* s on the row as it is now, or on a row that is not in the table yet; no *)
(* stamp is taken.                                                         *)
Opened(r, s) ==
  /\ session[r] = Idle
  /\ s \in Work
  /\ s.pc # "flushed"
  /\ s.at = clock
  /\ WorkOK(s)
  /\ ~Starts(s) /\ ~Completes(s)
  /\ \/ s.task \in DOMAIN task /\ s.old = task[s.task]
     \/ /\ s.task \notin DOMAIN task
        /\ \A q \in Busy : session[q].task # s.task
        /\ s.new = s.old
        /\ s.new.status = "PENDING"
        /\ s.new.started_at = Null
        /\ s.new.completed_at = Null
  /\ session' = [session EXCEPT ![r] = s]
  /\ UNCHANGED <<task, activity, active, clock>>

(* The types of a session's parts, from TypeOK.                            *)
LEMMA BusyWork ==
  ASSUME TypeOK, NEW r \in Busy
  PROVE  /\ r \in Requests
         /\ session[r] \in Work
         /\ session[r].old \in Row /\ session[r].new \in Row
         /\ session[r].task \in Tasks /\ session[r].at \in Nat
  BY DEF TypeOK, Busy, Work

(* A unit of work is never the record of an idle slot.                     *)
LEMMA WorkIsNotIdle == \A s \in Work : s # Idle
  BY DEF Work, Idle

(* Valid transitions change the status, and lead to a status.              *)
LEMMA TransitionsMove ==
  ASSUME NEW from, NEW to, is_valid_transition(from, to)
  PROVE  from # to /\ to \in TaskStatus /\ to # "PENDING"
  BY DEF is_valid_transition, VALID_TRANSITIONS, TaskStatus

(* What the log says of the moves depends on the log only.                 *)
LEMMA SameLog ==
  ASSUME UNCHANGED activity
  PROVE  \A t : Moves(t)' = Moves(t) /\ Held(t)' = Held(t) /\ (Chained(t)' <=> Chained(t))
<1>1. \A t : Moves(t)' = Moves(t)
  BY DEF Moves
<1> QED BY <1>1 DEF Held, Chained, Follows

(* With the rows and the clock as they are too, so do the tables' parts.   *)
LEMMA SameTables ==
  ASSUME IInv, UNCHANGED <<task, activity, clock>>
  PROVE  TablesInv' /\ StatusFollowsLog' /\ StampsFollowStatus'
  BY SameLog DEF IInv, TablesInv, StatusFollowsLog, StampsFollowStatus, Newest

-----------------------------------------------------------------------------
(* Opening a session                                                       *)

LEMMA OpenedPreserves ==
  ASSUME IInv, NEW r \in Requests, NEW s, Opened(r, s)
  PROVE  IInv'
<1> USE DEF IInv
<1>0. /\ s \in Work /\ s # Idle /\ s.old \in Row /\ s.new \in Row
      /\ s.task \in Tasks /\ s.at \in Nat
  BY WorkIsNotIdle DEF Opened, Work
<1>1. /\ session'[r] = s
      /\ \A q \in Requests : q # r => session'[q] = session[q]
      /\ task' = task /\ activity' = activity /\ clock' = clock /\ active' = active
  BY DEF Opened, TypeOK
<1>2. TypeOK'
  BY <1>0, <1>1 DEF Opened, TypeOK
<1>3. Busy' = Busy \cup {r} /\ r \notin Busy
  BY <1>0, <1>1 DEF Busy, Opened
<1>4. \A t : Moves(t)' = Moves(t) /\ Held(t)' = Held(t) /\ (Chained(t)' <=> Chained(t))
  BY <1>1, SameLog
<1>5. \A q \in Busy : session'[q] = session[q] /\ q \in Requests
  BY <1>1, <1>3 DEF Busy
<1>6. WorkOK(s) /\ s.pc # "flushed"
  BY DEF Opened
<1>7. UpToDate(s)'
  <2>1. CASE s.task \in DOMAIN task
    <3> DEFINE row == task[s.task]
    <3>1. row \in Row /\ s.old = row
      BY <2>1 DEF TypeOK, Opened
    <3>2. ~Starts(s) /\ ~Completes(s)
      BY DEF Opened
    <3>3. /\ row.started_at # Null => row.started_at <= clock
          /\ row.completed_at # Null => row.completed_at <= clock
      BY <2>1 DEF TablesInv
    <3>4. clock \in Nat /\ s.at = clock
      BY DEF TypeOK, Opened
    <3>5. s.old.status \in Held(s.task)
      BY <3>1, <2>1 DEF TablesInv
    <3> QED
      BY <1>0, <1>1, <1>4, <2>1, <3>1, <3>2, <3>3, <3>4, <3>5
      DEF UpToDate, Starts, Completes, Row, Time
  <2>2. CASE s.task \notin DOMAIN task
    BY <1>0, <1>1, <2>2 DEF UpToDate, Opened, TypeOK
  <2> QED BY <2>1, <2>2
<1>8. \A q \in Busy : UpToDate(session[q])' /\ MoveIsNewest(session[q])'
  BY <1>1, <1>4, <1>5 DEF SessionsInv, UpToDate, MoveIsNewest
<1>9. \A q \in Busy : Compatible(s, session[q])' /\ Compatible(session[q], s)'
  <2> SUFFICES ASSUME NEW q \in Busy
               PROVE  Compatible(s, session[q])' /\ Compatible(session[q], s)'
    OBVIOUS
  <2> DEFINE p == session[q]
  <2>1. /\ p \in Work /\ p.new \in Row /\ p.old \in Row
        /\ WorkOK(p) /\ UpToDate(p) /\ session'[q] = p
    BY BusyWork, <1>5 DEF SessionsInv
  <2> HIDE DEF p
  <2>2. ~LocksRow(s, s.task)
    BY DEF LocksRow, Opened
  <2>3. s.task \notin DOMAIN task => p.task # s.task
    BY DEF Opened, p
  <2>4. p.task \notin DOMAIN task => p.task # s.task
    <3>1. CASE s.task \in DOMAIN task
      BY <3>1
    <3>2. CASE s.task \notin DOMAIN task
      BY <3>2, <2>3
    <3> QED BY <3>1, <3>2
  <2> QED
    BY <1>1, <2>1, <2>2, <2>3, <2>4 DEF Compatible, LocksRow
<1>10. SessionsInv'
  <2>1. \A q \in Busy' : WorkOK(session[q])'
    BY <1>1, <1>3, <1>5, <1>6 DEF SessionsInv, WorkOK, Starts, Completes
  <2>2. \A q \in Busy' : UpToDate(session[q])'
    BY <1>1, <1>3, <1>7, <1>8 DEF UpToDate
  <2>3. \A q \in Busy' : MoveIsNewest(session[q])'
    BY <1>1, <1>3, <1>6, <1>8 DEF MoveIsNewest
  <2>4. \A p, q \in Busy' : p # q => Compatible(session[p], session[q])'
    BY <1>1, <1>3, <1>5, <1>9 DEF SessionsInv, Compatible, LocksRow, Writes
  <2> QED BY <2>1, <2>2, <2>3, <2>4 DEF SessionsInv
<1>11. TablesInv' /\ StatusFollowsLog' /\ StampsFollowStatus'
  BY <1>1, SameTables
<1> QED BY <1>2, <1>10, <1>11

-----------------------------------------------------------------------------
(* Every handler opens a session as Opened describes it.                   *)

(* A loaded row, changed: what the four handlers on an existing task share.*)
LEMMA LoadOpens ==
  ASSUME IInv, NEW r \in Requests, NEW u \in Users, NEW t \in Tasks, Visible(t),
         NEW pc \in {"loaded", "lookup", "ready"}, NEW new \in Row, NEW notes \in SUBSET Note,
         Open(r, pc, u, t, task[t], new, notes),
         WorkOK([pc |-> pc, user |-> u, task |-> t, old |-> task[t], new |-> new,
                 notes |-> notes, at |-> clock]),
         new.started_at = task[t].started_at, new.completed_at = task[t].completed_at
  PROVE  \E s : Opened(r, s)
<1> DEFINE s == [pc |-> pc, user |-> u, task |-> t, old |-> task[t], new |-> new,
                 notes |-> notes, at |-> clock]
<1>1. s \in Work
  BY DEF IInv, TypeOK, Work, Visible
<1>2. Opened(r, s)
  BY <1>1 DEF Opened, Open, Visible, Starts, Completes
<1> QED BY <1>2

(* Facts about the row a handler loads.                                    *)
LEMMA LoadedRow ==
  ASSUME IInv, NEW t \in Tasks, Visible(t)
  PROVE  task[t] \in Row /\ StampsPresent(task[t]) /\ ~task[t].is_deleted
  BY DEF IInv, TypeOK, Visible, StampsFollowStatus

LEMMA CreateOpens ==
  ASSUME IInv, NEW r \in Requests, NEW u \in Users, NEW t \in Tasks,
         NEW e \in Employees, NEW data \in [Fields -> Contents],
         create_task(r, u, t, e, data)
  PROVE  \E s : Opened(r, s)
<1> DEFINE row == [status |-> "PENDING", assigned_to |-> e, data |-> data,
                   started_at |-> Null, completed_at |-> Null, is_deleted |-> FALSE]
           notes == {note("created", Null, data["title"])}
           s == [pc |-> "lookup", user |-> u, task |-> t, old |-> row, new |-> row,
                 notes |-> notes, at |-> clock]
<1>1. row \in Row
  BY DEF Row, Time, TaskStatus
<1>2. notes \subseteq Note
  BY FieldsAssumption DEF note, Note, LogActions, LoggedValue
<1>3. s \in Work
  BY <1>1, <1>2 DEF IInv, TypeOK, Work
<1>4. WorkOK(s)
  <2>1. StampsPresent(row) /\ ~row.is_deleted
    BY DEF StampsPresent
  <2>2. \A n \in notes : n.action # "status_changed"
    BY DEF note
  <2>3. s.pc = "lookup" /\ s.old = row /\ s.new = row /\ s.notes = notes
    OBVIOUS
  <2> HIDE DEF s, row, notes
  <2> QED BY <2>1, <2>2, <2>3 DEF WorkOK, Starts, Completes
<1>5. Opened(r, s)
  BY <1>3, <1>4 DEF Opened, create_task, Open, Starts, Completes
<1> QED BY <1>5

LEMMA UpdateOpens ==
  ASSUME IInv, NEW r \in Requests, NEW u \in Users, NEW t \in Tasks,
         NEW patch \in Patches, update_task(r, u, t, patch)
  PROVE  \E s : Opened(r, s)
<1> DEFINE old == task[t]
           new == [old EXCEPT !.data = [f \in Fields |->
                     IF f \in DOMAIN patch THEN patch[f] ELSE old.data[f]]]
           notes == {note(f, old.data[f], patch[f]) : f \in DOMAIN patch}
<1>1. Visible(t) /\ Open(r, "ready", u, t, old, new, notes)
  BY DEF update_task
<1>2. old \in Row /\ StampsPresent(old) /\ ~old.is_deleted
  BY <1>1, LoadedRow
<1>3. PICK F \in SUBSET Fields : patch \in [F -> Contents]
  BY DEF Patches
<1>4. new \in Row
  BY <1>2, <1>3 DEF Row
<1>5. notes \subseteq Note
  BY <1>2, <1>3 DEF note, Note, LoggedValue, Row
<1>6. \A n \in notes : n.action # "status_changed"
  BY <1>3, FieldsAssumption DEF note, LogActions
<1>7. /\ new.status = old.status
      /\ new.started_at = old.started_at /\ new.completed_at = old.completed_at
  BY <1>2 DEF Row
<1> HIDE DEF old, new, notes
<1>8. WorkOK([pc |-> "ready", user |-> u, task |-> t, old |-> old, new |-> new,
              notes |-> notes, at |-> clock])
  BY <1>2, <1>6, <1>7 DEF WorkOK, Starts, Completes, StampsPresent
<1> QED BY <1>1, <1>4, <1>5, <1>7, <1>8, LoadOpens DEF old

LEMMA StatusOpens ==
  ASSUME IInv, NEW r \in Requests, NEW u \in Users, NEW t \in Tasks,
         NEW to \in TaskStatus, update_task_status(r, u, t, to)
  PROVE  \E s : Opened(r, s)
<1> DEFINE old == task[t]
           new == [old EXCEPT !.status = to]
           notes == {note("status_changed", old.status, to)}
<1>1. Visible(t) /\ Open(r, "loaded", u, t, old, new, notes)
  BY DEF update_task_status
<1>2. old \in Row /\ StampsPresent(old) /\ ~old.is_deleted
  BY <1>1, LoadedRow
<1>3. is_valid_transition(old.status, to)
  BY DEF update_task_status, MayMove
<1>4. new \in Row
  BY <1>2 DEF Row
<1>5. notes \subseteq Note
  BY <1>2 DEF note, Note, LogActions, LoggedValue, Row
<1>6. /\ new.status = to
      /\ new.started_at = old.started_at /\ new.completed_at = old.completed_at
  BY <1>2 DEF Row
<1>7. /\ \A n \in notes : /\ n.action = "status_changed"
                          /\ n.old = old.status /\ n.new = new.status
      /\ \E n \in notes : n.action = "status_changed"
  BY <1>6 DEF note
<1> HIDE DEF old, new, notes
<1>8. WorkOK([pc |-> "loaded", user |-> u, task |-> t, old |-> old, new |-> new,
              notes |-> notes, at |-> clock])
  BY <1>2, <1>3, <1>6, <1>7, TransitionsMove DEF WorkOK, Starts, Completes
<1> QED BY <1>1, <1>4, <1>5, <1>6, <1>8, LoadOpens DEF old

LEMMA ReassignOpens ==
  ASSUME IInv, NEW r \in Requests, NEW u \in Users, NEW t \in Tasks,
         NEW e \in Employees, reassign_task(r, u, t, e)
  PROVE  \E s : Opened(r, s)
<1> DEFINE old == task[t]
           new == [old EXCEPT !.assigned_to = e]
           notes == {note("reassigned", old.assigned_to, e)}
<1>1. Visible(t) /\ Open(r, "lookup", u, t, old, new, notes)
  BY DEF reassign_task
<1>2. old \in Row /\ StampsPresent(old) /\ ~old.is_deleted
  BY <1>1, LoadedRow
<1>3. new \in Row
  BY <1>2 DEF Row
<1>4. /\ new.status = old.status
      /\ new.started_at = old.started_at /\ new.completed_at = old.completed_at
  BY <1>2 DEF Row
<1>6. /\ notes \subseteq Note
      /\ \A n \in notes : n.action # "status_changed"
  BY <1>2 DEF Row, note, Note, LogActions, LoggedValue
<1> HIDE DEF old, new, notes
<1>5. WorkOK([pc |-> "lookup", user |-> u, task |-> t, old |-> old, new |-> new,
              notes |-> notes, at |-> clock])
  BY <1>2, <1>4, <1>6 DEF WorkOK, Starts, Completes, StampsPresent
<1> QED BY <1>1, <1>3, <1>4, <1>5, <1>6, LoadOpens DEF old

LEMMA DeleteOpens ==
  ASSUME IInv, NEW r \in Requests, NEW u \in Users, NEW t \in Tasks, delete_task(r, u, t)
  PROVE  \E s : Opened(r, s)
<1> DEFINE old == task[t]
           new == [old EXCEPT !.is_deleted = TRUE]
           notes == {note("deleted", Null, Null)}
<1>1. Visible(t) /\ Open(r, "ready", u, t, old, new, notes)
  BY DEF delete_task
<1>2. old \in Row /\ StampsPresent(old) /\ ~old.is_deleted
  BY <1>1, LoadedRow
<1>3. new \in Row
  BY <1>2 DEF Row
<1>4. /\ new.status = old.status
      /\ new.started_at = old.started_at /\ new.completed_at = old.completed_at
  BY <1>2 DEF Row
<1>6. /\ notes \subseteq Note
      /\ \A n \in notes : n.action # "status_changed"
  BY <1>2 DEF Row, note, Note, LogActions, LoggedValue
<1> HIDE DEF old, new, notes
<1>5. WorkOK([pc |-> "ready", user |-> u, task |-> t, old |-> old, new |-> new,
              notes |-> notes, at |-> clock])
  BY <1>2, <1>4, <1>6 DEF WorkOK, Starts, Completes, StampsPresent
<1> QED BY <1>1, <1>3, <1>4, <1>5, <1>6, LoadOpens DEF old

LEMMA HandlerPreserves ==
  ASSUME IInv, NEW r \in Requests, Handler(r)
  PROVE  IInv'
<1>1. \E s : Opened(r, s)
  BY CreateOpens, UpdateOpens, StatusOpens, ReassignOpens, DeleteOpens DEF Handler
<1> QED BY <1>1, OpenedPreserves

-----------------------------------------------------------------------------
(* Steps that write no row                                                 *)

(* A session may end, or move on within its program, without disturbing    *)
(* the others, as long as it takes no lock and its unit of work is in      *)
(* order.                                                                  *)
LEMMA QuietStepPreserves ==
  ASSUME IInv, NEW r \in Busy, NEW s1,
         session' = [session EXCEPT ![r] = s1],
         s1 # Idle => /\ s1 \in Work /\ s1.pc = "ready" /\ s1.task = session[r].task
                      /\ WorkOK(s1) /\ UpToDate(s1),
         UNCHANGED <<task, activity, active, clock>>
  PROVE  IInv'
<1> USE DEF IInv
<1>1. r \in Requests
  BY DEF Busy
<1>2. /\ \A q \in Requests : q # r => session'[q] = session[q]
      /\ session'[r] = s1
      /\ s1 \in Work \cup {Idle}
      /\ session' \in [Requests -> Work \cup {Idle}]
  BY <1>1 DEF TypeOK
<1>4. TypeOK'
  BY <1>2 DEF TypeOK
<1>5. \A t : Moves(t)' = Moves(t) /\ Held(t)' = Held(t) /\ (Chained(t)' <=> Chained(t))
  BY SameLog
<1>6. \A q \in Busy' : /\ q \in Busy
                       /\ q # r => session'[q] = session[q]
                       /\ q = r => s1 # Idle
  BY <1>1, <1>2 DEF Busy
<1>7. ASSUME NEW q \in Busy'
      PROVE  (WorkOK(session[q]) /\ UpToDate(session[q]) /\ MoveIsNewest(session[q]))'
  <2>0. PICK p : p = session'[q]
    OBVIOUS
  <2>1. WorkOK(p) /\ UpToDate(p) /\ MoveIsNewest(p)
    <3>1. CASE q = r
      BY <1>2, <1>6, <2>0, <3>1 DEF MoveIsNewest
    <3>2. CASE q # r
      BY <1>6, <2>0, <3>2 DEF SessionsInv
    <3> QED BY <3>1, <3>2
  <2>2. WorkOK(session[q])'
    BY <2>0, <2>1 DEF WorkOK, Starts, Completes
  <2>3. UpToDate(session[q])'
    BY <1>5, <2>0, <2>1 DEF UpToDate, Completes
  <2>4. MoveIsNewest(session[q])'
    BY <1>5, <2>0, <2>1 DEF MoveIsNewest
  <2> QED BY <2>2, <2>3, <2>4
<1>8. ASSUME NEW p \in Busy', NEW q \in Busy', p # q
      PROVE  Compatible(session[p], session[q])'
  <2>1. Compatible(session[p], session[q])
    BY <1>6, <1>8 DEF SessionsInv
  <2>2. CASE p = r
    BY <1>2, <1>6, <1>8, <2>1, <2>2 DEF Compatible, LocksRow, Writes
  <2>3. CASE q = r
    BY <1>2, <1>6, <1>8, <2>1, <2>3 DEF Compatible, LocksRow, Writes
  <2>4. CASE p # r /\ q # r
    BY <1>6, <1>8, <2>1, <2>4 DEF Compatible, LocksRow, Writes
  <2> QED BY <2>2, <2>3, <2>4
<1>9. SessionsInv'
  BY <1>7, <1>8 DEF SessionsInv
<1>10. TablesInv' /\ StatusFollowsLog' /\ StampsFollowStatus'
  BY SameTables
<1> QED BY <1>4, <1>9, <1>10

(* The lookup keeps the unit of work as it is, or drops it.                *)
LEMMA LookupPreserves ==
  ASSUME IInv, NEW r \in Requests, lookup_assignee(r)
  PROVE  IInv'
<1> DEFINE s == session[r]
           s1 == [s EXCEPT !.pc = "ready"]
<1>1. /\ r \in Busy /\ s \in Work /\ s.pc = "lookup" /\ WorkOK(s) /\ UpToDate(s)
      /\ session' = [session EXCEPT ![r] = s1] \/ session' = [session EXCEPT ![r] = Idle]
      /\ UNCHANGED <<task, activity, active, clock>>
  BY BusyWork DEF lookup_assignee, Busy, IInv, SessionsInv
<1>2. /\ s1 \in Work /\ s1.pc = "ready" /\ s1.task = s.task /\ s1.old = s.old
      /\ s1.new = s.new /\ s1.notes = s.notes /\ s1.at = s.at
  BY <1>1 DEF Work
<1> HIDE DEF s, s1
<1>3. WorkOK(s1) /\ UpToDate(s1)
  BY <1>1, <1>2 DEF WorkOK, UpToDate, Starts, Completes
<1> QED BY <1>1, <1>2, <1>3, QuietStepPreserves DEF s

LEMMA RollbackPreserves ==
  ASSUME IInv, NEW r \in Requests, rollback(r)
  PROVE  IInv'
<1>1. r \in Busy
  BY DEF rollback, Busy
<1> QED BY <1>1, QuietStepPreserves DEF rollback

(* The stamps are taken some time after the load.  A start is stamped only *)
(* on a row loaded as PENDING; a completion only on one that was started,  *)
(* and no start in the table is later than now.                            *)
LEMMA TimestampPreserves ==
  ASSUME IInv, NEW r \in Requests, auto_timestamp(r)
  PROVE  IInv'
<1>0. PICK s : s = session[r]
  OBVIOUS
<1>0a. PICK new : new = Stamped(s.new, clock)
  OBVIOUS
<1>0b. PICK s1 : s1 = [s EXCEPT !.pc = "ready", !.new = new]
  OBVIOUS
<1>1. /\ r \in Busy /\ s \in Work /\ s.pc = "loaded" /\ s.old \in Row /\ s.new \in Row
      /\ WorkOK(s) /\ UpToDate(s) /\ clock \in Nat /\ Null \notin Nat
      /\ UNCHANGED <<task, activity, active, clock>>
  BY <1>0, BusyWork, NullAssumption DEF auto_timestamp, Busy, IInv, SessionsInv, TypeOK
<1>2. /\ new \in Row /\ new.status = s.new.status /\ new.is_deleted = s.new.is_deleted
      /\ new.started_at =
           IF s.new.status = "IN_PROGRESS" /\ s.new.started_at = Null THEN clock
                                                                   ELSE s.new.started_at
      /\ new.completed_at =
           IF s.new.status = "COMPLETED" THEN clock ELSE s.new.completed_at
      /\ s.new.status \notin {"IN_PROGRESS", "COMPLETED"} => new = s.new
  BY <1>0a, <1>1 DEF Stamped, Row, Time
<1>3. /\ s1 \in Work /\ s1.pc = "ready" /\ s1.task = s.task /\ s1.old = s.old
      /\ s1.new = new /\ s1.notes = s.notes /\ s1.at = s.at
  BY <1>0b, <1>1, <1>2 DEF Work
<1>4. session' = [session EXCEPT ![r] = s1]
  BY <1>0, <1>0a, <1>0b DEF auto_timestamp
<1>5. /\ s.new.started_at = s.old.started_at /\ s.new.completed_at = s.old.completed_at
      /\ StampsPresent(s.old)
      /\ s.new.status # s.old.status => is_valid_transition(s.old.status, s.new.status)
  BY <1>1 DEF WorkOK, Starts, Completes
<1>6. /\ s.new.status = "IN_PROGRESS" /\ s.old.started_at = Null => s.old.status = "PENDING"
      /\ s.new.status = "COMPLETED" => s.old.started_at # Null
      /\ s.new.status = "UNDER_REVIEW" => s.old.started_at # Null
  BY <1>5 DEF is_valid_transition, VALID_TRANSITIONS, StampsPresent
<1>7. WorkOK(s1)
  <2>1. StampsPresent(new)
    BY <1>1, <1>2, <1>5, <1>6 DEF StampsPresent
  <2>2. Starts(s1) => /\ s1.old.started_at = Null
                      /\ s1.old.status = "PENDING"
                      /\ s1.new.status = "IN_PROGRESS"
                      /\ ~Completes(s1)
    BY <1>2, <1>3, <1>5, <1>6 DEF Starts, Completes
  <2>3. Completes(s1) => s1.new.completed_at # Null /\ s1.old.started_at # Null
    BY <1>1, <1>2, <1>3, <1>5, <1>6 DEF Completes
  <2> QED BY <1>1, <1>2, <1>3, <2>1, <2>2, <2>3 DEF WorkOK
<1>8. UpToDate(s1)
  <2>1. CASE s.task \notin DOMAIN task
    <3>1. new = s.new
      BY <1>1, <1>2, <2>1 DEF UpToDate
    <3> QED BY <1>1, <1>3, <2>1, <3>1 DEF UpToDate
  <2>2. CASE s.task \in DOMAIN task
    <3> DEFINE row == task[s.task]
    <3>1. row.started_at # Null => row.started_at <= clock
      BY <2>2 DEF IInv, TablesInv
    <3>2. Completes(s1) => new.completed_at = clock /\ row.started_at # Null
      BY <1>1, <1>2, <1>3, <1>5, <1>6, <2>2 DEF Completes, UpToDate
    <3>3. /\ s.at <= clock
          /\ s.new.started_at # Null => s.new.started_at <= clock
          /\ s.new.completed_at # Null => s.new.completed_at <= clock
          /\ s.old.started_at # Null => row.started_at # Null
          /\ s.old.completed_at # Null => row.completed_at # Null
          /\ s.old.status \in Held(s.task)
      BY <1>1, <2>2 DEF UpToDate
    <3>4. /\ new.started_at # Null => new.started_at <= clock
          /\ new.completed_at # Null => new.completed_at <= clock
      BY <1>1, <1>2, <3>3
    <3> QED BY <1>3, <2>2, <3>1, <3>2, <3>3, <3>4 DEF UpToDate
  <2> QED BY <2>1, <2>2
<1> QED BY <1>0, <1>1, <1>3, <1>4, <1>7, <1>8, QuietStepPreserves

(* Taking the row lock: the guard of flush keeps it exclusive, and the     *)
(* stamp is later than every entry there is.                               *)
LEMMA FlushPreserves ==
  ASSUME IInv, NEW r \in Requests, flush(r)
  PROVE  IInv'
<1> USE DEF IInv
<1> DEFINE s == session[r]
<1>0. PICK s1 : s1 = [s EXCEPT !.pc = "flushed", !.at = clock + 1]
  OBVIOUS
<1>1. s \in Work /\ r \in Busy /\ s # Idle /\ s.pc = "ready"
  BY BusyWork DEF flush, Busy
<1>2. /\ \A q \in Requests : q # r => session'[q] = session[q]
      /\ session'[r] = s1
      /\ session' = [session EXCEPT ![r] = s1]
      /\ clock' = clock + 1 /\ clock \in Nat
      /\ task' = task /\ activity' = activity /\ active' = active
  BY <1>0 DEF flush, TypeOK
<1>3. /\ s1 \in Work /\ s1.pc = "flushed" /\ s1.task = s.task
      /\ s1.old = s.old /\ s1.new = s.new /\ s1.notes = s.notes /\ s1.at = clock + 1
  <2>1. clock + 1 \in Nat
    BY <1>2
  <2> HIDE DEF s, IInv
  <2> QED BY <1>0, <1>1, <2>1 DEF Work
<1>4. TypeOK'
  BY <1>2, <1>3 DEF TypeOK
<1>13. s1 # Idle
  BY <1>3, WorkIsNotIdle
<1>5. \A t : Moves(t)' = Moves(t) /\ Held(t)' = Held(t) /\ (Chained(t)' <=> Chained(t))
  BY <1>2, SameLog
<1>6. Busy' = Busy /\ Busy \subseteq Requests
  BY <1>1, <1>2, <1>13 DEF Busy
<1>7. \A e \in activity : e.at \in Nat /\ e.at < clock + 1
  BY <1>2 DEF TablesInv, TypeOK, Entry
<1>8. ASSUME NEW q \in Busy
      PROVE  (WorkOK(session[q]) /\ UpToDate(session[q]) /\ MoveIsNewest(session[q]))'
  <2>1. WorkOK(session[q]) /\ UpToDate(session[q]) /\ MoveIsNewest(session[q])
    BY DEF SessionsInv
  <2>2. session[q] \in Work /\ session[q].new \in Row
    BY BusyWork
  <2>3. CASE q = r
    <3>1. WorkOK(s1)
      BY <1>1, <1>3, <2>1, <2>3 DEF WorkOK, Starts, Completes
    <3>2. UpToDate(s1)'
      BY <1>2, <1>3, <1>5, <2>1, <2>2, <2>3
      DEF UpToDate, Starts, Completes, Row, Time
    <3>3. MoveIsNewest(s1)'
      BY <1>2, <1>3, <1>5, <1>7 DEF MoveIsNewest, Moves
    <3>4. session'[q] = s1
      BY <1>2, <2>3
    <3> QED
      BY <3>1, <3>2, <3>3, <3>4
      DEF WorkOK, UpToDate, MoveIsNewest, Starts, Completes
  <2>4. CASE q # r
    <3>1. session'[q] = session[q]
      BY <1>2, <1>6, <2>4
    <3>2. WorkOK(session[q])'
      BY <2>1, <3>1 DEF WorkOK, Starts, Completes
    <3>3. UpToDate(session[q])'
      BY <1>2, <1>5, <2>1, <2>2, <3>1 DEF UpToDate, Starts, Completes, Work, Row, Time
    <3>4. MoveIsNewest(session[q])'
      BY <1>5, <2>1, <3>1 DEF MoveIsNewest
    <3> QED BY <3>2, <3>3, <3>4
  <2> QED BY <2>3, <2>4
<1>9. ASSUME NEW p \in Busy, NEW q \in Busy, p # q
      PROVE  Compatible(session[p], session[q])'
  <2>1. Compatible(session[p], session[q])
    BY <1>9 DEF SessionsInv
  <2>2. \A x \in Busy : Writes(s) => ~LocksRow(session[x], s.task)
    BY <1>6 DEF flush
  <2>3. CASE p = r
    <3>1. session'[q] = session[q] /\ session'[p] = s1
      BY <1>2, <1>6, <1>9, <2>3
    <3> QED
      BY <1>2, <1>3, <2>1, <2>2, <2>3, <3>1
      DEF Compatible, LocksRow, Writes, Starts, Completes
  <2>4. CASE q = r
    <3>1. session'[p] = session[p] /\ session'[q] = s1
      BY <1>2, <1>6, <1>9, <2>4
    <3> QED
      BY <1>2, <1>3, <2>1, <2>2, <2>4, <3>1
      DEF Compatible, LocksRow, Writes, Starts, Completes
  <2>5. CASE p # r /\ q # r
    BY <1>2, <1>6, <2>1, <2>5 DEF Compatible, LocksRow, Writes, Starts, Completes
  <2> QED BY <2>3, <2>4, <2>5
<1>10. SessionsInv'
  BY <1>6, <1>8, <1>9 DEF SessionsInv
<1>11. TablesInv'
  <2>1. \A t \in DOMAIN task : task[t] \in Row
    BY DEF TypeOK
  <2> QED BY <1>2, <1>5, <1>7, <2>1 DEF TablesInv, Newest, Row, Time, TypeOK, Entry
<1>12. StatusFollowsLog' /\ StampsFollowStatus'
  BY <1>2, <1>5 DEF StatusFollowsLog, StampsFollowStatus, Newest
<1> QED BY <1>4, <1>10, <1>11, <1>12

-----------------------------------------------------------------------------
(* The commit                                                              *)

(* An UPDATE of the changed columns leaves a row; each column is the       *)
(* session's if it changed it, the stored one otherwise.                   *)
LEMMA UpdatedRowColumns ==
  ASSUME NEW stored \in Row, NEW old \in Row, NEW new \in Row
  PROVE  LET row == UpdatedRow(stored, old, new)
         IN  /\ row \in Row
             /\ row.status = Column(stored.status, old.status, new.status)
             /\ row.started_at = Column(stored.started_at, old.started_at, new.started_at)
             /\ row.completed_at =
                  Column(stored.completed_at, old.completed_at, new.completed_at)
             /\ row.is_deleted = Column(stored.is_deleted, old.is_deleted, new.is_deleted)
<1>1. \A f \in Fields : Column(stored.data[f], old.data[f], new.data[f]) \in Contents
  BY DEF Row, Column
<1> QED BY <1>1 DEF UpdatedRow, Row, Column

(* What a commit does to the rows: the row of the task it writes stays a   *)
(* row, has its stamps, and its columns are those of the session or those  *)
(* that were there.                                                        *)
LEMMA RowAfterCommit ==
  ASSUME IInv, NEW r \in Busy, session[r].pc # "loaded"
  PROVE  LET s == session[r]
             a == RowAfter(s)
         IN  /\ a \in Row
             /\ StampsPresent(a)
             /\ a.started_at # Null => a.started_at <= clock
             /\ a.completed_at # Null => a.completed_at <= clock
             /\ s.task \in DOMAIN task =>
                  LET row == task[s.task]
                  IN  /\ a.status =
                           IF s.new.status = s.old.status THEN row.status ELSE s.new.status
                      /\ a.started_at =
                           IF Starts(s) THEN s.new.started_at ELSE row.started_at
                      /\ a.completed_at =
                           IF Completes(s) THEN s.new.completed_at ELSE row.completed_at
                      /\ row.started_at # Null => a.started_at # Null
                      /\ row.completed_at # Null => a.completed_at # Null
                      /\ row.is_deleted => a.is_deleted
             /\ s.task \notin DOMAIN task => a = s.new
<1> USE DEF IInv
<1>0. PICK s : s = session[r]
  OBVIOUS
<1>1. /\ s \in Work /\ s.old \in Row /\ s.new \in Row /\ s.task \in Tasks
      /\ WorkOK(s) /\ UpToDate(s)
  BY <1>0, BusyWork DEF SessionsInv
<1>2. CASE s.task \notin DOMAIN task
  BY <1>0, <1>1, <1>2 DEF RowAfter, WorkOK, UpToDate
<1>3. CASE s.task \in DOMAIN task
  <2>0. PICK row : row = task[s.task]
    OBVIOUS
  <2>1. PICK a : a = UpdatedRow(row, s.old, s.new)
    OBVIOUS
  <2>2. row \in Row /\ StampsPresent(row) /\ RowAfter(s) = a
    BY <1>3, <2>0, <2>1 DEF TypeOK, StampsFollowStatus, RowAfter
  <2>3. /\ a \in Row
        /\ a.status = IF s.new.status = s.old.status THEN row.status ELSE s.new.status
        /\ a.started_at = IF Starts(s) THEN s.new.started_at ELSE row.started_at
        /\ a.completed_at = IF Completes(s) THEN s.new.completed_at ELSE row.completed_at
        /\ a.is_deleted =
             IF s.new.is_deleted = s.old.is_deleted THEN row.is_deleted ELSE s.new.is_deleted
    BY <1>1, <2>1, <2>2, UpdatedRowColumns DEF Column, Starts, Completes, WorkOK
  <2>4. /\ row.started_at # Null => row.started_at <= clock
        /\ row.completed_at # Null => row.completed_at <= clock
    BY <1>3, <2>0 DEF TablesInv
  <2>5. row.is_deleted => a.is_deleted
    BY <1>1, <2>2, <2>3 DEF WorkOK, Row
  <2>6. /\ Starts(s) => s.new.started_at # Null
        /\ Completes(s) => s.new.completed_at # Null /\ row.started_at # Null
    BY <1>1, <1>3, <2>0 DEF WorkOK, UpToDate, Starts
  <2>7. /\ s.new.started_at # Null /\ ~Starts(s) => row.started_at # Null
        /\ s.new.completed_at # Null /\ ~Completes(s) => row.completed_at # Null
    BY <1>1, <1>3, <2>0 DEF UpToDate, Starts, Completes
  <2>7a. StampsPresent(s.new)
    <3>1. StampsPresent(s.old) /\ (s.pc # "loaded" => StampsPresent(s.new))
      BY <1>1 DEF WorkOK
    <3> QED BY <1>0, <3>1
  <2>8. StampsPresent(a)
    <3>1. a.status \in {"IN_PROGRESS", "UNDER_REVIEW", "COMPLETED"} => a.started_at # Null
      BY <2>2, <2>3, <2>6, <2>7, <2>7a DEF StampsPresent
    <3>2. a.status = "COMPLETED" => a.completed_at # Null
      BY <2>2, <2>3, <2>6, <2>7, <2>7a DEF StampsPresent
    <3>3. a.completed_at # Null => a.started_at # Null
      BY <2>2, <2>3, <2>6 DEF StampsPresent
    <3> QED BY <3>1, <3>2, <3>3 DEF StampsPresent
  <2>9. /\ a.started_at # Null => a.started_at <= clock
        /\ a.completed_at # Null => a.completed_at <= clock
    BY <1>1, <2>3, <2>4 DEF UpToDate
  <2>10. /\ row.started_at # Null => a.started_at # Null
         /\ row.completed_at # Null => a.completed_at # Null
    BY <2>3, <2>6
  <2> QED BY <1>0, <1>3, <2>0, <2>2, <2>3, <2>5, <2>8, <2>9, <2>10
<1> QED BY <1>2, <1>3

(* What a commit does to the log of its task: a session that changed the   *)
(* status appends entries that say so, any other adds no status entry.     *)
LEMMA MovesAfterCommit ==
  ASSUME IInv, NEW r \in Busy, commit(r), NEW s, s = session[r]
  PROVE  /\ \A x : x # s.task => Moves(x)' = Moves(x)
         /\ \A x : Held(x) \subseteq Held(x)'
         /\ s.new.status = s.old.status => Moves(s.task)' = Moves(s.task)
         /\ s.new.status # s.old.status =>
              /\ Moves(s.task) \subseteq Moves(s.task)'
              /\ \A e \in Moves(s.task)' \ Moves(s.task) :
                   /\ e.at = s.at /\ e.actor = s.user
                   /\ e.old = s.old.status /\ e.new = s.new.status
              /\ \E e \in Moves(s.task)' :
                   /\ e.at = s.at /\ e.actor = s.user
                   /\ e.old = s.old.status /\ e.new = s.new.status
<1>1. s \in Work /\ WorkOK(s)
  BY BusyWork DEF IInv, SessionsInv
<1>2. activity' = activity \cup Logged(s)
  BY DEF commit
<1>3. \A e \in Logged(s) : e.task = s.task /\ e.actor = s.user /\ e.at = s.at
  BY DEF Logged
<1>4. \A e \in Logged(s) : e.action = "status_changed" =>
        e.old = s.old.status /\ e.new = s.new.status /\ s.new.status # s.old.status
  BY <1>1, TransitionsMove DEF Logged, WorkOK
<1>5. s.new.status # s.old.status => \E e \in Logged(s) : e.action = "status_changed"
  <2> SUFFICES ASSUME s.new.status # s.old.status
               PROVE  \E e \in Logged(s) : e.action = "status_changed"
    OBVIOUS
  <2>1. PICK n \in s.notes : n.action = "status_changed"
    BY <1>1 DEF WorkOK
  <2> DEFINE e == [task |-> s.task, actor |-> s.user, action |-> n.action,
                   old |-> n.old, new |-> n.new, at |-> s.at]
  <2>2. e \in Logged(s) /\ e.action = n.action
    BY DEF Logged
  <2> QED BY <2>1, <2>2
<1>6. \A x : Moves(x)' = Moves(x) \cup {e \in Logged(s) : e.task = x /\ e.action = "status_changed"}
  BY <1>2 DEF Moves
<1>7. \A x : Held(x) \subseteq Held(x)'
  BY <1>6 DEF Held
<1> QED BY <1>3, <1>4, <1>5, <1>6, <1>7

(* If the moves of a task chain after a commit, they did before, and what  *)
(* it moved was the status the task had.  So a start was committed on a    *)
(* task that had not moved: a late one breaks the chain.                   *)
LEMMA ChainedCommit ==
  ASSUME IInv, NEW r \in Busy, commit(r), NEW s, s = session[r], Chained(s.task)'
  PROVE  /\ Chained(s.task)
         /\ s.new.status # s.old.status /\ s.task \in DOMAIN task =>
              s.old.status = task[s.task].status
         /\ Starts(s) => s.task \in DOMAIN task /\ task[s.task].started_at = Null
<1>1. /\ s \in Work /\ s.at \in Nat /\ s.pc = "flushed"
      /\ WorkOK(s) /\ UpToDate(s) /\ MoveIsNewest(s)
  BY BusyWork DEF IInv, SessionsInv, commit
<1>2. PICK M : M = Moves(s.task)
  OBVIOUS
<1>3. PICK M1 : M1 = Moves(s.task)'
  OBVIOUS
<1>4. \A e \in M : e.at \in Nat
  BY <1>2 DEF Moves, IInv, TypeOK, Entry
<1>5. /\ s.new.status = s.old.status => M1 = M
      /\ s.new.status # s.old.status =>
           /\ M \subseteq M1
           /\ \A e \in M1 \ M : e.at = s.at /\ e.old = s.old.status
           /\ \E e \in M1 : e.at = s.at
  BY <1>2, <1>3, MovesAfterCommit
<1>6. \A e, f \in M1 : Follows(e, f, M1) => f.old = e.new
  BY <1>3 DEF Chained, Follows
<1>7. CASE s.new.status = s.old.status
  <2>1. Chained(s.task)
    BY <1>2, <1>5, <1>6, <1>7 DEF Chained
  <2>2. ~Starts(s)
    BY <1>1, <1>7 DEF WorkOK
  <2> QED BY <1>7, <2>1, <2>2
<1>8. CASE s.new.status # s.old.status
  <2>1. \A e \in M : e.at < s.at
    BY <1>1, <1>2, <1>8 DEF MoveIsNewest
  <2>2. /\ M \subseteq M1 /\ \A e \in M1 \ M : e.at = s.at /\ e.old = s.old.status
        /\ M1 \ M # {}
    BY <1>4, <1>5, <1>8, <2>1
  <2>3. \A e \in M : e.at \in Nat /\ e.at < s.at
    BY <1>4, <2>1
  <2>4. /\ \A e, f \in M : Follows(e, f, M) => f.old = e.new
        /\ \A e \in M, f \in M1 \ M : Newest(e, M) => f.old = e.new
    <3>1. ASSUME NEW e \in M, NEW f \in M, Follows(e, f, M)
          PROVE  f.old = e.new
      <4>1. Follows(e, f, M1)
        BY <1>1, <2>2, <2>3, <3>1 DEF Follows
      <4> QED BY <1>6, <2>2, <4>1
    <3>2. ASSUME NEW e \in M, NEW f \in M1 \ M, Newest(e, M)
          PROVE  f.old = e.new
      <4>1. Follows(e, f, M1)
        BY <1>1, <2>2, <2>3, <3>2 DEF Follows, Newest
      <4> QED BY <1>6, <2>2, <4>1
    <3> QED BY <3>1, <3>2
  <2>5. s.task \in DOMAIN task
    BY <1>1, <1>8 DEF UpToDate
  <2>6. CASE M = {}
    <3>1. task[s.task].started_at = Null
      BY <1>2, <2>5, <2>6 DEF IInv, TablesInv
    <3>2. task[s.task].status = "PENDING" /\ s.old.status = "PENDING"
      BY <1>1, <1>2, <2>5, <2>6 DEF IInv, StatusFollowsLog, UpToDate, Held
    <3> QED BY <1>2, <2>4, <2>5, <3>1, <3>2 DEF Chained
  <2>7. CASE M # {}
    <3>1. PICK e \in M : Newest(e, M)
      BY <1>2, <2>5, <2>7 DEF IInv, TablesInv
    <3>2. s.old.status = e.new /\ task[s.task].status = e.new
      BY <1>2, <2>2, <2>4, <2>5, <3>1 DEF IInv, StatusFollowsLog
    <3>3. e.new # "PENDING"
      <4>1. is_valid_transition(e.old, e.new)
        BY <1>2, <3>1 DEF IInv, TablesInv, Moves
      <4> QED BY <4>1, TransitionsMove
    <3>4. ~Starts(s)
      BY <1>1, <3>2, <3>3 DEF WorkOK
    <3> QED BY <1>2, <2>4, <3>2, <3>4 DEF Chained
  <2> QED BY <2>6, <2>7
<1> QED BY <1>7, <1>8

LEMMA CommitPreserves ==
  ASSUME IInv, NEW r \in Requests, commit(r)
  PROVE  IInv'
<1>1. r \in Busy
  BY DEF commit, Busy
<1>2. PICK s : s = session[r]
  OBVIOUS
<1>3. PICK a : a = RowAfter(s)
  OBVIOUS
<1>4. /\ s \in Work /\ s.old \in Row /\ s.new \in Row /\ s.task \in Tasks /\ s.at \in Nat
      /\ s.pc = "flushed" /\ WorkOK(s) /\ UpToDate(s) /\ MoveIsNewest(s) /\ s # Idle
  BY <1>1, <1>2, BusyWork DEF IInv, SessionsInv, commit
<1>5. /\ DOMAIN task' = DOMAIN task \cup {s.task}
      /\ task'[s.task] = a
      /\ \A t \in DOMAIN task : t # s.task => task'[t] = task[t]
      /\ task' \in [DOMAIN task' -> Row]
  BY <1>1, <1>2, <1>3, <1>4, RowAfterCommit DEF commit, IInv, TypeOK
<1>6. /\ activity' = activity \cup Logged(s)
      /\ active' = active /\ clock' = clock /\ clock \in Nat
      /\ \A q \in Requests : q # r => session'[q] = session[q]
      /\ session'[r] = Idle
      /\ session' \in [Requests -> Work \cup {Idle}]
  BY <1>2 DEF commit, IInv, TypeOK
<1>7. \A q \in Busy' : q \in Busy /\ q # r /\ q \in Requests /\ session'[q] = session[q]
  BY <1>6 DEF Busy
<1>8. Logged(s) \subseteq Entry
  BY <1>4 DEF Logged, Entry, Work, Note
<1>9. TypeOK'
  BY <1>4, <1>5, <1>6, <1>8 DEF TypeOK, IInv
<1>10. /\ a \in Row
       /\ StampsPresent(a)
       /\ a.started_at # Null => a.started_at <= clock
       /\ a.completed_at # Null => a.completed_at <= clock
       /\ s.task \in DOMAIN task =>
            LET row == task[s.task]
            IN  /\ a.status =
                     IF s.new.status = s.old.status THEN row.status ELSE s.new.status
                /\ a.started_at = IF Starts(s) THEN s.new.started_at ELSE row.started_at
                /\ a.completed_at =
                     IF Completes(s) THEN s.new.completed_at ELSE row.completed_at
                /\ row.started_at # Null => a.started_at # Null
                /\ row.completed_at # Null => a.completed_at # Null
       /\ s.task \notin DOMAIN task => a = s.new
  BY <1>1, <1>2, <1>3, <1>4, RowAfterCommit
<1>11. /\ \A x : x # s.task => Moves(x)' = Moves(x)
       /\ \A x : Held(x) \subseteq Held(x)'
       /\ s.new.status = s.old.status => Moves(s.task)' = Moves(s.task)
       /\ s.new.status # s.old.status =>
            /\ Moves(s.task) \subseteq Moves(s.task)'
            /\ \A e \in Moves(s.task)' \ Moves(s.task) : e.at = s.at /\ e.new = s.new.status
            /\ \E e \in Moves(s.task)' : e.at = s.at /\ e.new = s.new.status
  BY <1>1, <1>2, MovesAfterCommit
<1>11a. \A x : x # s.task => (Chained(x)' <=> Chained(x))
  BY <1>11 DEF Chained, Follows
<1>11b. Chained(s.task)' =>
          /\ Chained(s.task)
          /\ Starts(s) => s.task \in DOMAIN task /\ task[s.task].started_at = Null
  BY <1>1, <1>2, ChainedCommit
<1>12. s.task \notin DOMAIN task =>
         Moves(s.task) = {} /\ s.new.status = "PENDING" /\ s.new.status = s.old.status
  BY <1>4 DEF IInv, TablesInv, Moves, UpToDate
<1>13. \A e \in Moves(s.task) : e.at \in Nat /\ e.at <= clock
  BY DEF Moves, IInv, TypeOK, Entry, TablesInv
<1>14. StampsFollowStatus'
  <2>1. ASSUME NEW t \in DOMAIN task'
        PROVE  /\ StampsPresent(task'[t])
               /\ Chained(t)' /\ task'[t].completed_at # Null
                    => task'[t].started_at <= task'[t].completed_at
    <3>1. CASE t # s.task
      BY <1>5, <1>11a, <3>1 DEF IInv, StampsFollowStatus
    <3>2. CASE t = s.task
      <4>1. StampsPresent(task'[t])
        BY <1>5, <1>10, <3>2
      <4>2. ASSUME Chained(t)', task'[t].completed_at # Null
            PROVE  task'[t].started_at <= task'[t].completed_at
        <5>1. s.task \in DOMAIN task
          BY <1>4, <1>5, <1>10, <3>2, <4>2 DEF UpToDate
        <5>2. PICK row : row = task[s.task]
          OBVIOUS
        <5>3. /\ StampsPresent(row)
              /\ row.completed_at # Null => row.started_at <= row.completed_at
          BY <1>11b, <3>2, <4>2, <5>1, <5>2 DEF IInv, StampsFollowStatus
        <5>4. /\ Completes(s) => row.started_at <= s.new.completed_at
              /\ Starts(s) => row.started_at = Null /\ ~Completes(s)
          BY <1>4, <1>11b, <3>2, <4>2, <5>1, <5>2 DEF UpToDate, WorkOK
        <5> QED BY <1>5, <1>10, <3>2, <4>2, <5>1, <5>2, <5>3, <5>4 DEF StampsPresent
      <4> QED BY <4>1, <4>2
    <3> QED BY <3>1, <3>2
  <2> QED BY <2>1 DEF StampsFollowStatus, StampsPresent
<1>15. StatusFollowsLog'
  <2> SUFFICES ASSUME NEW t \in DOMAIN task'
               PROVE  /\ Moves(t)' = {} => task'[t].status = "PENDING"
                      /\ \A e \in Moves(t)' : Newest(e, Moves(t)') => task'[t].status = e.new
    BY DEF StatusFollowsLog, Newest
  <2>1. CASE t # s.task
    BY <1>5, <1>11, <2>1 DEF IInv, StatusFollowsLog
  <2>2. CASE t = s.task /\ s.new.status = s.old.status
    BY <1>5, <1>10, <1>11, <1>12, <2>2 DEF IInv, StatusFollowsLog
  <2>3. CASE t = s.task /\ s.new.status # s.old.status
    <3>1. s.task \in DOMAIN task /\ task'[t].status = s.new.status
      BY <1>5, <1>10, <1>12, <2>3
    <3>2. \A e \in Moves(s.task) : e.at < s.at /\ e.at \in Nat
      BY <1>4, <1>13, <2>3 DEF MoveIsNewest
    <3>3. \A e \in Moves(t)' : Newest(e, Moves(t)') => e.new = s.new.status
      BY <1>4, <1>11, <2>3, <3>2 DEF Newest
    <3> QED BY <1>11, <2>3, <3>1, <3>3
  <2> QED BY <2>1, <2>2, <2>3
<1>16. TablesInv'
  <2>1. ASSUME NEW e \in activity'
        PROVE  /\ e.task \in DOMAIN task' /\ e.at <= clock'
               /\ e.action = "status_changed" => is_valid_transition(e.old, e.new)
    <3>1. CASE e \in activity
      BY <1>5, <1>6, <3>1 DEF IInv, TablesInv
    <3>2. CASE e \in Logged(s)
      BY <1>4, <1>5, <1>6, <3>2 DEF Logged, UpToDate, WorkOK
    <3> QED BY <1>6, <3>1, <3>2
  <2>2. ASSUME NEW t \in DOMAIN task'
        PROVE  /\ Moves(t)' # {} => \E e \in Moves(t)' : Newest(e, Moves(t)')
               /\ task'[t].started_at # Null => Moves(t)' # {}
               /\ task'[t].started_at # Null => task'[t].started_at <= clock'
               /\ task'[t].completed_at # Null => task'[t].completed_at <= clock'
               /\ task'[t].status \in Held(t)'
    <3>1. CASE t # s.task
      BY <1>5, <1>6, <1>11, <3>1 DEF IInv, TablesInv
    <3>2. CASE t = s.task
      <4>1. a.status \in Held(s.task)'
        <5>1. CASE s.task \notin DOMAIN task
          BY <1>10, <1>12, <5>1 DEF Held
        <5>2. CASE s.task \in DOMAIN task /\ s.new.status = s.old.status
          BY <1>10, <1>11, <5>2 DEF IInv, TablesInv
        <5>3. CASE s.task \in DOMAIN task /\ s.new.status # s.old.status
          BY <1>10, <1>11, <5>3 DEF Held
        <5> QED BY <5>1, <5>2, <5>3
      <4>2. Moves(t)' # {} => \E e \in Moves(t)' : Newest(e, Moves(t)')
        <5>1. CASE s.new.status = s.old.status
          <6>1. Moves(t)' = Moves(t)
            BY <1>11, <3>2, <5>1
          <6>2. Moves(t) # {} => t \in DOMAIN task
            BY DEF Moves, IInv, TablesInv
          <6>3. Moves(t) # {} => \E e \in Moves(t) : Newest(e, Moves(t))
            BY <6>2 DEF IInv, TablesInv
          <6> QED BY <6>1, <6>3
        <5>2. CASE s.new.status # s.old.status
          <6>1. PICK e \in Moves(t)' : e.at = s.at
            BY <1>11, <3>2, <5>2
          <6>2. \A f \in Moves(t)' : f.at <= s.at
            BY <1>4, <1>11, <1>13, <3>2, <5>2 DEF MoveIsNewest
          <6> QED BY <6>1, <6>2 DEF Newest
        <5> QED BY <5>1, <5>2
      <4>3. task'[t].started_at # Null => Moves(t)' # {}
        <5>1. CASE s.task \notin DOMAIN task
          BY <1>4, <1>5, <1>10, <3>2, <5>1 DEF UpToDate
        <5>2. CASE s.task \in DOMAIN task /\ s.new.status # s.old.status
          BY <1>11, <3>2, <5>2
        <5>3. CASE s.task \in DOMAIN task /\ s.new.status = s.old.status
          <6>1. ~Starts(s)
            BY <1>4, <5>3 DEF WorkOK
          <6> QED BY <1>5, <1>10, <1>11, <3>2, <5>3, <6>1 DEF IInv, TablesInv
        <5> QED BY <5>1, <5>2, <5>3
      <4> QED BY <1>5, <1>6, <1>10, <3>2, <4>1, <4>2, <4>3
    <3> QED BY <3>1, <3>2
  <2> QED BY <2>1, <2>2 DEF TablesInv, Newest
<1>17. ASSUME NEW q \in Busy'
       PROVE  (WorkOK(session[q]) /\ UpToDate(session[q]) /\ MoveIsNewest(session[q]))'
  <2>0. PICK p : p = session[q]
    OBVIOUS
  <2>1. /\ p \in Work /\ p.new \in Row /\ p.old \in Row
        /\ WorkOK(p) /\ UpToDate(p) /\ MoveIsNewest(p)
        /\ session'[q] = p /\ q \in Busy
        /\ Compatible(p, s) /\ Compatible(s, p)
    BY <1>1, <1>2, <1>7, <2>0, BusyWork DEF IInv, SessionsInv
  <2>2. UpToDate(p)'
    <3>1. CASE p.task # s.task
      BY <1>5, <1>6, <1>11, <1>11a, <2>1, <3>1 DEF UpToDate, Starts, Completes
    <3>2. CASE p.task = s.task
      <4>1. s.task \in DOMAIN task
        BY <2>1, <3>2 DEF Compatible
      <4>3. task'[p.task] = a /\ p.task \in DOMAIN task'
        BY <1>5, <3>2
      <4>5. Completes(p) /\ Chained(p.task)' => a.started_at <= p.new.completed_at
        <5>1. Completes(p) => task[s.task].started_at # Null
          BY <2>1, <3>2, <4>1 DEF UpToDate, WorkOK
        <5> QED BY <1>10, <1>11b, <2>1, <3>2, <4>1, <5>1 DEF UpToDate
      <4>6. /\ p.old.started_at # Null => a.started_at # Null
            /\ p.old.completed_at # Null => a.completed_at # Null
            /\ p.old.status \in Held(p.task)'
        BY <1>10, <1>11, <2>1, <3>2, <4>1 DEF UpToDate
      <4> QED
        BY <1>6, <2>1, <4>3, <4>5, <4>6 DEF UpToDate, Starts, Completes
    <3> QED BY <3>1, <3>2
  <2>3. MoveIsNewest(p)'
    <3>1. CASE p.task # s.task
      BY <1>11, <2>1, <3>1 DEF MoveIsNewest
    <3>2. CASE p.task = s.task /\ s.new.status = s.old.status
      BY <1>11, <2>1, <3>2 DEF MoveIsNewest
    <3>3. CASE p.task = s.task /\ s.new.status # s.old.status
      <4>1. LocksRow(s, s.task)
        BY <1>4, <3>3 DEF LocksRow, Writes
      <4>2. ~(p.pc = "flushed" /\ p.new.status # p.old.status)
        BY <2>1, <3>3, <4>1, WorkIsNotIdle DEF Compatible, LocksRow, Writes
      <4> QED BY <4>2 DEF MoveIsNewest
    <3> QED BY <3>1, <3>2, <3>3
  <2> QED
    BY <2>1, <2>2, <2>3 DEF WorkOK, UpToDate, MoveIsNewest, Starts, Completes, StampsPresent
<1>18. ASSUME NEW p \in Busy', NEW q \in Busy', p # q
       PROVE  Compatible(session[p], session[q])'
  <2>1. Compatible(session[p], session[q])
    BY <1>7, <1>18 DEF IInv, SessionsInv
  <2> QED
    BY <1>5, <1>7, <2>1 DEF Compatible, LocksRow, Writes, Starts, Completes
<1>19. SessionsInv'
  BY <1>17, <1>18 DEF SessionsInv
<1> QED BY <1>9, <1>14, <1>15, <1>16, <1>19 DEF IInv

-----------------------------------------------------------------------------
(* The invariant                                                           *)

LEMMA InitInv == Init => IInv
<1> SUFFICES ASSUME Init PROVE IInv
  OBVIOUS
<1>1. Busy = {}
  BY DEF Init, Busy
<1>2. TypeOK
  BY DEF Init, TypeOK
<1> QED
  BY <1>1, <1>2 DEF Init, IInv, SessionsInv, TablesInv, StatusFollowsLog, StampsFollowStatus

(* A step that changes none of the tables but active, and no session.      *)
LEMMA IdleStepPreserves ==
  ASSUME IInv, active' \subseteq active, UNCHANGED <<task, activity, clock, session>>
  PROVE  IInv'
<1>1. TypeOK'
  BY DEF IInv, TypeOK
<1>2. /\ \A t : Moves(t)' = Moves(t) /\ Held(t)' = Held(t) /\ (Chained(t)' <=> Chained(t))
      /\ Busy' = Busy
  BY SameLog DEF Busy
<1>3. SessionsInv'
  BY <1>2 DEF IInv, SessionsInv, WorkOK, UpToDate, MoveIsNewest, Compatible
<1>4. TablesInv' /\ StatusFollowsLog' /\ StampsFollowStatus'
  BY SameTables
<1> QED BY <1>1, <1>3, <1>4 DEF IInv

LEMMA NextInv == IInv /\ [Next]_vars => IInv'
<1> SUFFICES ASSUME IInv, [Next]_vars PROVE IInv'
  OBVIOUS
<1>1. ASSUME NEW r \in Requests, Handler(r) PROVE IInv'
  BY <1>1, HandlerPreserves
<1>2. ASSUME NEW r \in Requests, lookup_assignee(r) PROVE IInv'
  BY <1>2, LookupPreserves
<1>2a. ASSUME NEW r \in Requests, auto_timestamp(r) PROVE IInv'
  BY <1>2a, TimestampPreserves
<1>3. ASSUME NEW r \in Requests, flush(r) PROVE IInv'
  BY <1>3, FlushPreserves
<1>4. ASSUME NEW r \in Requests, commit(r) PROVE IInv'
  BY <1>4, CommitPreserves
<1>5. ASSUME NEW r \in Requests, rollback(r) PROVE IInv'
  BY <1>5, RollbackPreserves
<1>6. ASSUME NEW e \in Employees, delete_employee(e) PROVE IInv'
  BY <1>6, IdleStepPreserves DEF delete_employee
<1>7. ASSUME Quiet \/ UNCHANGED vars PROVE IInv'
  BY <1>7, IdleStepPreserves DEF Quiet, vars
<1> QED BY <1>1, <1>2, <1>2a, <1>3, <1>4, <1>5, <1>6, <1>7 DEF Next

(* The inductive invariant holds in every reachable state, whatever the    *)
(* number of sessions and the order of their statements.                   *)
THEOREM Invariance == Spec => []IInv
  BY InitInv, NextInv, PTL DEF Spec

(* Every table and every session keeps its shape.                          *)
THEOREM TypeCorrect == Spec => []TypeOK
  BY Invariance, PTL DEF IInv

(* The status column agrees with the activity log in every reachable state *)
(* (README: "both happen in the same transaction").                        *)
THEOREM StatusFollowsLogCorrect == Spec => []StatusFollowsLog
  BY Invariance, PTL DEF IInv

(* Whatever the status needs is stamped, although late writers may         *)
(* overwrite both columns; and work ends before it starts only where the   *)
(* log shows two moves that overlapped.                                    *)
THEOREM StampsFollowStatusCorrect == Spec => []StampsFollowStatus
  BY Invariance, PTL DEF IInv

-----------------------------------------------------------------------------
(* Only a commit changes the tables of tasks and of their log.             *)

LEMMA OnlyCommitWrites ==
  ASSUME [Next]_vars
  PROVE  \/ \E r \in Requests : commit(r)
         \/ UNCHANGED <<task, activity>>
<1>1. ASSUME NEW r \in Requests, Handler(r) PROVE UNCHANGED <<task, activity>>
  BY <1>1 DEF Handler, create_task, update_task, update_task_status,
              reassign_task, delete_task, Open
<1>2. ASSUME NEW r \in Requests,
             auto_timestamp(r) \/ lookup_assignee(r) \/ flush(r) \/ rollback(r)
      PROVE  UNCHANGED <<task, activity>>
  BY <1>2 DEF auto_timestamp, lookup_assignee, flush, rollback
<1>3. ASSUME NEW e \in Employees, delete_employee(e) PROVE UNCHANGED <<task, activity>>
  BY <1>3 DEF delete_employee
<1>4. ASSUME Quiet \/ UNCHANGED vars PROVE UNCHANGED <<task, activity>>
  BY <1>4 DEF Quiet, vars
<1> QED BY <1>1, <1>2, <1>3, <1>4 DEF Next

-----------------------------------------------------------------------------
(* The service implements TaskHistory.                                     *)

(* A function that differs from another at one point only.                 *)
LEMMA OnePointUpdate ==
  ASSUME NEW S, NEW f, NEW g, NEW x \in S, NEW y,
         f = [z \in S |-> f[z]], g = [z \in S |-> g[z]],
         \A z \in S : z # x => g[z] = f[z], g[x] = y
  PROVE  g = [f EXCEPT ![x] = y]
  OBVIOUS

LEMMA HistoryInit == Init => History!Init
  BY DEF Init, History!Init

LEMMA HistoryCommit ==
  ASSUME IInv, NEW r \in Requests, commit(r)
  PROVE  [History!Next]_(History!vars)
<1>1. r \in Busy
  BY DEF commit, Busy
<1>2. PICK s : s = session[r]
  OBVIOUS
<1>3. PICK a : a = RowAfter(s)
  OBVIOUS
<1>4. /\ s \in Work /\ s.task \in Tasks /\ s.new \in Row /\ WorkOK(s) /\ UpToDate(s)
      /\ s.pc = "flushed"
  BY <1>1, <1>2, BusyWork DEF IInv, SessionsInv, commit
<1>5. /\ DOMAIN task' = DOMAIN task \cup {s.task}
      /\ task'[s.task] = a
      /\ \A t \in DOMAIN task : t # s.task => task'[t] = task[t]
  BY <1>2, <1>3 DEF commit
<1>6. /\ s.task \in DOMAIN task =>
           a.status = IF s.new.status = s.old.status THEN task[s.task].status
                                                     ELSE s.new.status
      /\ s.task \notin DOMAIN task => a = s.new /\ s.new.status = "PENDING"
  BY <1>1, <1>2, <1>3, <1>4, RowAfterCommit DEF UpToDate
<1>7. /\ \A x : x # s.task => Moves(x)' = Moves(x)
      /\ s.new.status = s.old.status => Moves(s.task)' = Moves(s.task)
      /\ s.new.status # s.old.status =>
           /\ Moves(s.task) \subseteq Moves(s.task)'
           /\ \A e \in Moves(s.task)' \ Moves(s.task) : e.new = s.new.status
           /\ \E e \in Moves(s.task)' : e.new = s.new.status
  BY <1>1, <1>2, MovesAfterCommit
<1> DEFINE held == [t \in Tasks |-> IF t \in DOMAIN task THEN Held(t) ELSE {}]
           current == [t \in Tasks |-> IF t \in DOMAIN task THEN task[t].status ELSE "ABSENT"]
<1>7a. /\ held = [t \in Tasks |-> held[t]] /\ held' = [t \in Tasks |-> held'[t]]
        /\ current = [t \in Tasks |-> current[t]] /\ current' = [t \in Tasks |-> current'[t]]
  OBVIOUS
<1>8. \A t \in Tasks : t # s.task => held'[t] = held[t] /\ current'[t] = current[t]
  BY <1>5, <1>7 DEF Held
<1>9. CASE s.task \notin DOMAIN task
  <2>1. Moves(s.task)' = {} /\ s.new.status = s.old.status
    <3>1. Moves(s.task) = {}
      BY <1>9 DEF IInv, TablesInv, Moves
    <3>2. s.new.status = s.old.status
      BY <1>4, <1>9 DEF UpToDate
    <3> QED BY <1>7, <3>1, <3>2
  <2>2. held'[s.task] = {"PENDING"} /\ current'[s.task] = "PENDING" /\ held[s.task] = {}
    BY <1>4, <1>5, <1>6, <1>9, <2>1 DEF Held
  <2>3. /\ held' = [held EXCEPT ![s.task] = {"PENDING"}]
        /\ current' = [current EXCEPT ![s.task] = "PENDING"]
    <3> HIDE DEF held, current
    <3> QED BY <1>4, <1>7a, <1>8, <2>2, OnePointUpdate
  <2>4. History!Create(s.task)
    BY <2>2, <2>3 DEF History!Create
  <2> QED BY <1>4, <2>4 DEF History!Next
<1>10. CASE s.task \in DOMAIN task /\ s.new.status = s.old.status
  <2>1. held'[s.task] = held[s.task] /\ current'[s.task] = current[s.task]
    BY <1>4, <1>5, <1>6, <1>7, <1>10 DEF Held
  <2>2. held' = held /\ current' = current
    BY <1>8, <2>1
  <2> QED BY <2>2 DEF History!vars
<1>11. CASE s.task \in DOMAIN task /\ s.new.status # s.old.status
  <2> DEFINE to == s.new.status
  <2>1. is_valid_transition(s.old.status, to) /\ s.old.status \in Held(s.task)
    BY <1>4, <1>11 DEF WorkOK, UpToDate
  <2>2. to \in TaskStatus
    BY <2>1, TransitionsMove
  <2>3. Held(s.task)' = Held(s.task) \cup {to}
    BY <1>7, <1>11 DEF Held
  <2>4. held'[s.task] = held[s.task] \cup {to} /\ current'[s.task] = to
    BY <1>4, <1>5, <1>6, <1>11, <2>3
  <2>5. /\ held' = [held EXCEPT ![s.task] = @ \cup {to}]
        /\ current' = [current EXCEPT ![s.task] = to]
    <3> HIDE DEF held, current
    <3> QED BY <1>4, <1>7a, <1>8, <2>4, OnePointUpdate
  <2>6. \E from \in held[s.task] : is_valid_transition(from, to)
    BY <1>4, <1>11, <2>1
  <2>7. History!Move(s.task, to)
    BY <2>5, <2>6 DEF History!Move, History!is_valid_transition, is_valid_transition,
                      History!VALID_TRANSITIONS, VALID_TRANSITIONS
  <2> QED BY <1>4, <2>2, <2>7 DEF History!Next, History!TaskStatus, TaskStatus
<1> QED BY <1>9, <1>10, <1>11

LEMMA HistoryStep == IInv /\ [Next]_vars => [History!Next]_(History!vars)
<1> SUFFICES ASSUME IInv, [Next]_vars PROVE [History!Next]_(History!vars)
  OBVIOUS
<1>1. CASE \E r \in Requests : commit(r)
  BY <1>1, HistoryCommit
<1>2. CASE UNCHANGED <<task, activity>>
  BY <1>2 DEF History!vars, Held, Moves
<1> QED BY <1>1, <1>2, OnlyCommitWrites

(* However requests overlap, a task only takes a status that is a valid    *)
(* successor of one it has held: the service implements TaskHistory.       *)
THEOREM ImplementsHistory == Spec => HistorySpec
  BY Invariance, HistoryInit, HistoryStep, PTL DEF Spec, HistorySpec, History!Spec

-----------------------------------------------------------------------------
(* Action properties                                                       *)

LEMMA CommitKeeps ==
  ASSUME IInv, NEW r \in Requests, commit(r)
  PROVE  /\ DOMAIN task \subseteq DOMAIN task'
         /\ activity \subseteq activity'
         /\ \A t \in DOMAIN task : task[t].is_deleted => task'[t].is_deleted
<1>1. r \in Busy
  BY DEF commit, Busy
<1>2. PICK s : s = session[r]
  OBVIOUS
<1>3. /\ DOMAIN task' = DOMAIN task \cup {s.task}
      /\ \A t \in DOMAIN task' : task'[t] = IF t = s.task THEN RowAfter(s) ELSE task[t]
      /\ activity' = activity \cup Logged(s)
  BY <1>2 DEF commit
<1>4. s.task \in DOMAIN task /\ task[s.task].is_deleted => RowAfter(s).is_deleted
  BY <1>1, <1>2, RowAfterCommit DEF commit
<1> QED BY <1>3, <1>4

LEMMA CommitAppends ==
  ASSUME IInv, NEW r \in Requests, commit(r), NEW t,
         NEW e \in Moves(t)' \ Moves(t), NEW f \in Moves(t)
  PROVE  f.at < e.at
<1>1. r \in Busy
  BY DEF commit, Busy
<1>2. PICK s : s = session[r]
  OBVIOUS
<1>3. t = s.task /\ s.new.status # s.old.status /\ e.at = s.at
  BY <1>1, <1>2, MovesAfterCommit
<1>4. s.pc = "flushed" /\ MoveIsNewest(s)
  BY <1>1, <1>2 DEF IInv, SessionsInv, commit
<1> QED BY <1>3, <1>4 DEF MoveIsNewest

(* No step brings a deleted task back, or removes a row or a log entry.    *)
THEOREM NothingComesBackCorrect == Spec => NothingComesBack
<1> DEFINE Keeps ==
      /\ DOMAIN task \subseteq DOMAIN task'
      /\ activity \subseteq activity'
      /\ \A t \in DOMAIN task : task[t].is_deleted => task'[t].is_deleted
<1>1. IInv /\ [Next]_vars => [Keeps]_vars
  <2> SUFFICES ASSUME IInv, [Next]_vars PROVE Keeps
    OBVIOUS
  <2>1. CASE \E r \in Requests : commit(r)
    BY <2>1, CommitKeeps
  <2>2. CASE UNCHANGED <<task, activity>>
    BY <2>2
  <2> QED BY <2>1, <2>2, OnlyCommitWrites
<1> QED BY <1>1, Invariance, PTL DEF Spec, NothingComesBack

(* Status entries of a task become visible in the order of their stamps.   *)
THEOREM MovesAppendCorrect == Spec => MovesAppend
<1> DEFINE Appends ==
      \A t \in DOMAIN task : \A e \in Moves(t)' \ Moves(t), f \in Moves(t) : f.at < e.at
<1>1. IInv /\ [Next]_vars => [Appends]_vars
  <2> SUFFICES ASSUME IInv, [Next]_vars PROVE Appends
    OBVIOUS
  <2>1. CASE \E r \in Requests : commit(r)
    BY <2>1, CommitAppends
  <2>2. CASE UNCHANGED <<task, activity>>
    BY <2>2 DEF Moves
  <2> QED BY <2>1, <2>2, OnlyCommitWrites
<1> QED BY <1>1, Invariance, PTL DEF Spec, MovesAppend
=============================================================================
