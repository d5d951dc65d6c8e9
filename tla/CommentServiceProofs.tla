------------------------ MODULE CommentServiceProofs -----------------------
(***************************************************************************)
(* Theorems about CommentService, for any number of users, tasks, comments *)
(* and requests in flight.                                                 *)
(***************************************************************************)
EXTENDS CommentService, TLAPS

(* A request in flight has the fields of Work.                             *)
LEMMA BusyWork ==
  ASSUME TypeOK, NEW r \in Busy
  PROVE  r \in Requests /\ session[r] \in Work
  BY DEF TypeOK, Busy

(* A record with the fields of Work is not the idle session.               *)
LEMMA WorkIsNotIdle ==
  ASSUME NEW s \in Work
  PROVE  s # Idle
<1>1. s.pc # "idle"
  BY DEF Work
<1>2. Idle.pc = "idle"
  BY DEF Idle
<1>. QED
  BY <1>1, <1>2

(* To be apart is symmetric.                                               *)
LEMMA ApartSymmetric ==
  ASSUME NEW s, NEW w, Apart(s, w)
  PROVE  Apart(w, s)
  BY DEF Apart

(* Initially nothing is written and nobody writes.                         *)
LEMMA InitInv == Init => IInv
<1>. SUFFICES ASSUME Init PROVE IInv
  OBVIOUS
<1>1. Busy = {} /\ DOMAIN comment = {}
  BY DEF Init, Busy
<1>2. /\ task \in [Tasks -> [assigned_to: Employees, is_deleted: BOOLEAN]]
      /\ holders = [t \in Tasks |-> {task[t].assigned_to}]
  BY DEF Init
<1>3. TypeOK
  BY <1>1, <1>2 DEF Init, TypeOK
<1>4. \A t \in Tasks : task[t].assigned_to \in holders[t]
  BY <1>2
<1>. QED
  BY <1>1, <1>3, <1>4 DEF IInv, Inv, UneditedAsLogged, EmployeesCommentAsHolders

(* Slot r is given the session s, or freed; the others are as they were.   *)
LEMMA SlotChanged ==
  ASSUME TypeOK, NEW r \in Requests, NEW s \in Work \cup {Idle},
         session' = [session EXCEPT ![r] = s]
  PROVE  /\ session' \in [Requests -> Work \cup {Idle}]
         /\ session'[r] = s
         /\ \A q \in Requests \ {r} : session'[q] = session[q]
         /\ s = Idle => Busy' = Busy \ {r}
         /\ s # Idle => Busy' = Busy \cup {r}
  BY DEF TypeOK, Busy

(* A step of slot r that leaves the tables alone.                          *)
LEMMA SlotStep ==
  ASSUME IInv, NEW r \in Requests, NEW s \in Work \cup {Idle},
         session' = [session EXCEPT ![r] = s],
         UNCHANGED <<task, holders, comment, activity>>,
         s # Idle => WorkOK(s) /\ \A q \in Busy \ {r} : Apart(s, session[q])
  PROVE  IInv'
<1>. USE DEF IInv, Inv
<1>1. /\ session' \in [Requests -> Work \cup {Idle}]
      /\ session'[r] = s
      /\ \A q \in Requests \ {r} : session'[q] = session[q]
      /\ s = Idle => Busy' = Busy \ {r}
      /\ s # Idle => Busy' = Busy \cup {r}
  BY SlotChanged
<1>2. TypeOK'
  BY <1>1 DEF TypeOK
<1>3. UneditedAsLogged' /\ EmployeesCommentAsHolders'
  BY DEF UneditedAsLogged, EmployeesCommentAsHolders
<1>4. \A q \in Busy' : q \in Requests /\ (q # r => q \in Busy) /\ (q = r => s # Idle)
  BY <1>1 DEF Busy
<1>5. \A q \in Busy' : WorkOK(session'[q])
  BY <1>1, <1>4
<1>6. (\A q \in Busy : WorkOK(session[q]))'
  BY <1>5 DEF WorkOK, Written, Locks, Writes, Idle
<1>7. \A q, p \in Busy' : q # p => Apart(session'[q], session'[p])
  BY <1>1, <1>4, ApartSymmetric
<1>8. (\A q, p \in Busy : q # p => Apart(session[q], session[p]))'
  BY <1>7 DEF Apart, Locks, Writes, Idle
<1>. QED
  BY <1>2, <1>3, <1>6, <1>8

-----------------------------------------------------------------------------
(* The handlers                                                            *)

(* What a handler opens.                                                   *)
LEMMA OpenInv ==
  ASSUME IInv, NEW r \in Requests, NEW pc \in {"select", "ready"}, NEW op \in Op,
         NEW u \in Users, NEW t \in Tasks, NEW c \in Comments,
         NEW content \in Contents \cup {Null},
         Open(r, pc, op, u, t, c, content),
         op # "delete" => content \in Contents,
         IF op = "add"
           THEN /\ pc = "ready" /\ c \notin Written /\ MayComment(u, t)
                /\ \A q \in Busy : session[q].comment # c
           ELSE pc = "select" /\ c \in Written
  PROVE  IInv'
<1>. DEFINE s == [pc |-> pc, op |-> op, user |-> u, task |-> t, comment |-> c,
                  content |-> content, old |-> Null]
<1>1. /\ session' = [session EXCEPT ![r] = s]
      /\ UNCHANGED <<task, holders, comment, activity>>
  BY DEF Open
<1>2. s \in Work
  BY DEF Work
<1>3. ~Locks(s, c)
  BY DEF Locks
<1>4. op = "add" /\ RoleOf[u] = "EMPLOYEE" => ProfileOf[u] \in holders[t]
  BY DEF MayComment, IInv
<1>5. WorkOK(s)
  BY <1>3, <1>4 DEF WorkOK
<1>6. ASSUME NEW q \in Busy \ {r}
      PROVE  Apart(s, session[q])
  <2>1. WorkOK(session[q])
    BY DEF IInv
  <2>. QED
    BY <1>3, <2>1 DEF Apart, WorkOK
<1>. HIDE DEF s
<1>. QED
  BY <1>1, <1>2, <1>5, <1>6, SlotStep

(* The handlers keep the invariant.                                        *)
LEMMA HandlerInv ==
  ASSUME IInv, NEW r \in Requests, Handler(r)
  PROVE  IInv'
<1>. USE DEF Op
<1>1. \A c \in DOMAIN comment : c \in Written
  BY DEF Written
<1>2. PICK u \in Users, t \in Tasks, c \in Comments :
        \/ \E content \in Contents :
             add_comment(r, u, t, c, content) \/ update_comment(r, u, t, c, content)
        \/ delete_comment(r, u, t, c)
  BY DEF Handler
<1>3. ASSUME NEW content \in Contents, add_comment(r, u, t, c, content)
      PROVE  IInv'
  BY <1>3, OpenInv DEF add_comment
<1>4. ASSUME NEW content \in Contents, update_comment(r, u, t, c, content)
      PROVE  IInv'
  BY <1>1, <1>4, OpenInv DEF update_comment
<1>5. CASE delete_comment(r, u, t, c)
  BY <1>1, <1>5, OpenInv DEF delete_comment
<1>. QED
  BY <1>2, <1>3, <1>4, <1>5

-----------------------------------------------------------------------------
(* The steps of a transaction                                              *)

(* The comment is loaded: whose it is and where is checked.                *)
LEMMA SelectCommentInv ==
  ASSUME IInv, NEW r \in Requests, select_comment(r)
  PROVE  IInv'
<1>. DEFINE s == session[r]
            row == comment[s.comment]
            allowed == /\ Found(s)
                       /\ \/ row.author = s.user
                          \/ s.op = "delete" /\ RoleOf[s.user] = "ADMIN"
            s1 == IF allowed THEN [s EXCEPT !.pc = "ready", !.old = row] ELSE Idle
<1>1. /\ r \in Busy /\ s.pc = "select" /\ TypeOK
      /\ UNCHANGED <<task, holders, comment, activity>>
  BY DEF select_comment, IInv, Inv
<1>2. session' = [session EXCEPT ![r] = s1]
  BY DEF select_comment
<1>3. s \in Work /\ WorkOK(s) /\ \A q \in Busy \ {r} : Apart(s, session[q])
  BY <1>1, BusyWork DEF IInv
<1>4. CASE ~allowed
  BY <1>1, <1>2, <1>4, SlotStep
<1>5. CASE allowed
  <2>1. row \in Row /\ row.task = s.task /\ (s.op = "update" => row.author = s.user)
    BY <1>1, <1>3, <1>5 DEF Found, TypeOK, Work
  <2>2. /\ s1 \in Work
        /\ s1.pc = "ready" /\ s1.old = row /\ s1.op = s.op /\ s1.user = s.user
        /\ s1.task = s.task /\ s1.comment = s.comment /\ s1.content = s.content
    <3>. HIDE DEF row, s
    <3>. QED
      BY <1>3, <1>5, <2>1 DEF Work
  <2>. HIDE DEF s1
  <2>3. ~Locks(s1, s1.comment)
    BY <2>2 DEF Locks
  <2>4. WorkOK(s1)
    BY <1>1, <1>3, <2>1, <2>2, <2>3 DEF WorkOK
  <2>5. \A q \in Busy \ {r} : Apart(s1, session[q])
    BY <1>3, <2>2, <2>3 DEF Apart
  <2>. QED
    BY <1>1, <1>2, <2>2, <2>4, <2>5, SlotStep
<1>. QED
  BY <1>4, <1>5

(* The statements are sent: the row is locked, and an edit found it.       *)
LEMMA FlushInv ==
  ASSUME IInv, NEW r \in Requests, flush(r)
  PROVE  IInv'
<1>. DEFINE s == session[r]
            stale == s.op = "update" /\ Writes(s) /\ s.comment \notin DOMAIN comment
            s1 == IF stale THEN Idle ELSE [s EXCEPT !.pc = "flushed"]
<1>1. /\ r \in Busy /\ s.pc = "ready" /\ TypeOK
      /\ Writes(s) => \A q \in Busy : ~Locks(session[q], s.comment)
      /\ UNCHANGED <<task, holders, comment, activity>>
  BY DEF flush, IInv, Inv
<1>2. session' = [session EXCEPT ![r] = s1]
  BY DEF flush
<1>3. s \in Work /\ WorkOK(s) /\ \A q \in Busy \ {r} : Apart(s, session[q])
  BY <1>1, BusyWork DEF IInv
<1>4. CASE stale
  BY <1>1, <1>2, <1>4, SlotStep
<1>5. CASE ~stale
  <2>1. /\ s1 \in Work
        /\ s1.pc = "flushed" /\ s1.old = s.old /\ s1.op = s.op /\ s1.user = s.user
        /\ s1.task = s.task /\ s1.comment = s.comment /\ s1.content = s.content
    <3>. HIDE DEF stale, s
    <3>. QED
      BY <1>3, <1>5 DEF Work
  <2>. HIDE DEF s1
  <2>2. Locks(s1, s1.comment) => Writes(s)
    BY <2>1 DEF Locks, Writes
  <2>3. WorkOK(s1)
    BY <1>1, <1>3, <1>5, <2>1, <2>2 DEF WorkOK
  <2>4. \A q \in Busy \ {r} : Apart(s1, session[q])
    BY <1>1, <1>3, <2>1, <2>2 DEF Apart
  <2>. QED
    BY <1>1, <1>2, <2>1, <2>3, <2>4, SlotStep
<1>. QED
  BY <1>4, <1>5

(* A rollback frees the slot, and that is all.                             *)
LEMMA RollbackInv ==
  ASSUME IInv, NEW r \in Requests, rollback(r)
  PROVE  IInv'
  BY SlotStep DEF rollback

-----------------------------------------------------------------------------
(* The commit                                                              *)

(* A comment that is in the table is in the log.                           *)
LEMMA WrittenIsLogged ==
  ASSUME Inv
  PROVE  Written = {e.comment : e \in activity}
  BY DEF Inv, UneditedAsLogged, Written

(* What a commit does to the table: one row more, one row edited in place, *)
(* one row less, or nothing.                                               *)
LEMMA CommitComments ==
  ASSUME IInv, NEW r \in Requests, commit(r)
  PROVE  LET s == session[r]
         IN  /\ DOMAIN comment' \subseteq Comments
             /\ comment' \in [DOMAIN comment' -> Row]
             /\ s.op = "add" => s.comment \in DOMAIN comment' \ DOMAIN comment
             /\ s.op = "delete" => s.comment \notin DOMAIN comment'
             /\ \A c \in DOMAIN comment \ DOMAIN comment' : s.op = "delete" /\ c = s.comment
             /\ \A c \in DOMAIN comment' \ DOMAIN comment :
                  /\ s.op = "add" /\ c = s.comment
                  /\ comment'[c].task = s.task /\ comment'[c].author = s.user
                  /\ comment'[c].content = s.content /\ ~comment'[c].is_edited
             /\ \A c \in DOMAIN comment \cap DOMAIN comment' :
                  /\ comment'[c].task = comment[c].task
                  /\ comment'[c].author = comment[c].author
                  /\ \/ comment'[c] = comment[c]
                     \/ s.op = "update" /\ c = s.comment /\ comment'[c].is_edited
<1>. DEFINE s == session[r]
<1>1. /\ r \in Busy /\ s \in Work /\ WorkOK(s) /\ TypeOK /\ comment' = CommentsAfter(s)
  BY BusyWork DEF commit, IInv, Inv
<1>2. s.op \in {"add", "update", "delete"}
  BY <1>1 DEF Work, Op
<1>3. CASE s.op = "add"
  <2>. DEFINE row == [task |-> s.task, author |-> s.user,
                      content |-> s.content, is_edited |-> FALSE]
  <2>1. comment' = [c \in DOMAIN comment \cup {s.comment} |->
                      IF c = s.comment THEN row ELSE comment[c]]
    BY <1>1, <1>3 DEF CommentsAfter
  <2>2. row \in Row /\ s.comment \in Comments /\ s.comment \notin DOMAIN comment
    BY <1>1, <1>3 DEF WorkOK, Work, Row, Written
  <2>3. row.task = s.task /\ row.author = s.user /\ row.content = s.content /\ ~row.is_edited
    OBVIOUS
  <2>. HIDE DEF row
  <2>. QED
    BY <1>1, <1>3, <2>1, <2>2, <2>3 DEF TypeOK
<1>4. CASE s.op = "update"
  <2>1. comment' = [c \in DOMAIN comment |->
                      IF c = s.comment /\ Writes(s) THEN Edited(comment[c], s) ELSE comment[c]]
    BY <1>1, <1>4 DEF CommentsAfter
  <2>2. ASSUME NEW c \in DOMAIN comment
        PROVE  /\ Edited(comment[c], s) \in Row
               /\ Edited(comment[c], s).task = comment[c].task
               /\ Edited(comment[c], s).author = comment[c].author
               /\ Edited(comment[c], s).is_edited
    <3>1. comment[c] \in Row /\ s.content \in Contents
      BY <1>1, <1>4 DEF TypeOK, WorkOK
    <3>. QED
      BY <3>1 DEF Edited, Row
  <2>. QED
    BY <1>1, <1>4, <2>1, <2>2 DEF TypeOK
<1>5. CASE s.op = "delete"
  <2>1. comment' = [c \in DOMAIN comment \ {s.comment} |-> comment[c]]
    BY <1>1, <1>5 DEF CommentsAfter
  <2>. QED
    BY <1>1, <1>5, <2>1 DEF TypeOK
<1>. QED
  BY <1>2, <1>3, <1>4, <1>5

(* What a commit does to the log.                                          *)
LEMMA CommitLog ==
  ASSUME IInv, NEW r \in Requests, commit(r)
  PROVE  LET s == session[r]
         IN  /\ activity \subseteq activity'
             /\ activity' \subseteq Entry
             /\ Written' = Written \cup (IF s.op = "add" THEN {s.comment} ELSE {})
             /\ s.op = "add" =>
                  \E e \in activity' : /\ e.comment = s.comment /\ e.task = s.task
                                       /\ e.actor = s.user /\ e.new = Excerpt[s.content]
<1>. DEFINE s == session[r]
            entry == [comment |-> s.comment, task |-> s.task, actor |-> s.user,
                      new |-> Excerpt[s.content]]
<1>1. /\ s \in Work /\ WorkOK(s) /\ TypeOK /\ activity' = activity \cup Logged(s)
  BY BusyWork DEF commit, IInv, Inv
<1>2. Written = {e.comment : e \in activity}
  BY WrittenIsLogged DEF IInv
<1>3. s.op = "add" => Logged(s) = {entry} /\ entry \in Entry /\ s.comment \in DOMAIN comment'
  BY <1>1, ExcerptAssumption, CommitComments DEF Logged, WorkOK, Work, Op, Entry
<1>4. s.op # "add" => Logged(s) = {}
  BY DEF Logged
<1>5. \A c \in DOMAIN comment' : c \in DOMAIN comment \/ (s.op = "add" /\ c = s.comment)
  BY CommitComments
<1>6. entry.comment = s.comment /\ entry.task = s.task /\ entry.actor = s.user
      /\ entry.new = Excerpt[s.content]
  OBVIOUS
<1>. HIDE DEF entry
<1>7. DOMAIN comment \subseteq Written
  BY DEF Written
<1>8. CASE s.op = "add"
  <2>1. activity' = activity \cup {entry} /\ s.comment \in Written'
    BY <1>1, <1>3, <1>8 DEF Written
  <2>2. Written' = Written \cup {s.comment}
    BY <1>2, <1>5, <1>6, <1>7, <2>1 DEF Written
  <2>. QED
    BY <1>1, <1>3, <1>6, <1>8, <2>1, <2>2 DEF TypeOK
<1>9. CASE s.op # "add"
  <2>1. activity' = activity
    BY <1>1, <1>4, <1>9
  <2>2. Written' = Written
    BY <1>2, <1>5, <1>7, <1>9, <2>1 DEF Written
  <2>. QED
    BY <1>1, <1>9, <2>1, <2>2 DEF TypeOK
<1>. QED
  BY <1>8, <1>9

(* A commit frees its slot and keeps what is known of the others: they are *)
(* about other comments, or about one it has not locked.                   *)
LEMMA CommitInv ==
  ASSUME IInv, NEW r \in Requests, commit(r)
  PROVE  IInv'
<1>. DEFINE s == session[r]
<1>1. /\ r \in Busy /\ s.pc = "flushed" /\ TypeOK /\ s \in Work /\ WorkOK(s)
      /\ session' = [session EXCEPT ![r] = Idle]
      /\ UNCHANGED <<task, holders>>
  BY BusyWork DEF commit, IInv, Inv
<1>2. /\ session' \in [Requests -> Work \cup {Idle}]
      /\ \A q \in Requests \ {r} : session'[q] = session[q]
      /\ Busy' = Busy \ {r}
  BY <1>1, SlotChanged
<1>3. TypeOK'
  BY <1>1, <1>2, CommitComments, CommitLog DEF TypeOK
<1>4. UneditedAsLogged'
  <2>. SUFFICES ASSUME NEW c \in DOMAIN comment'
                PROVE  \E e \in activity' :
                         /\ e.comment = c /\ e.task = comment'[c].task
                         /\ e.actor = comment'[c].author
                         /\ comment'[c].is_edited \/ e.new = Excerpt[comment'[c].content]
    BY DEF UneditedAsLogged
  <2>1. CASE c \in DOMAIN comment
    <3>1. PICK e \in activity :
            /\ e.comment = c /\ e.task = comment[c].task /\ e.actor = comment[c].author
            /\ comment[c].is_edited \/ e.new = Excerpt[comment[c].content]
      BY <2>1 DEF IInv, Inv, UneditedAsLogged
    <3>2. e \in activity'
      BY CommitLog
    <3>3. /\ comment'[c].task = comment[c].task /\ comment'[c].author = comment[c].author
          /\ comment'[c] = comment[c] \/ comment'[c].is_edited
      BY <2>1, CommitComments
    <3>. QED
      BY <3>1, <3>2, <3>3
  <2>2. CASE c \notin DOMAIN comment
    BY <2>2, CommitComments, CommitLog
  <2>. QED
    BY <2>1, <2>2
<1>5. EmployeesCommentAsHolders'
  <2>. SUFFICES ASSUME NEW c \in DOMAIN comment', RoleOf[comment'[c].author] = "EMPLOYEE"
                PROVE  ProfileOf[comment'[c].author] \in holders[comment'[c].task]
    BY <1>1 DEF EmployeesCommentAsHolders
  <2>1. CASE c \in DOMAIN comment
    BY <2>1, CommitComments DEF IInv, EmployeesCommentAsHolders
  <2>2. CASE c \notin DOMAIN comment
    BY <1>1, <2>2, CommitComments DEF WorkOK
  <2>. QED
    BY <2>1, <2>2
<1>6. ASSUME NEW q \in Busy'
      PROVE  WorkOK(session[q])'
  <2>. DEFINE w == session[q]
  <2>1. /\ q \in Busy /\ q # r /\ session'[q] = w /\ WorkOK(w)
        /\ Apart(s, w) /\ Apart(w, s)
    BY <1>1, <1>2 DEF IInv
  <2>2. /\ w.op = "add" => w.comment \notin Written'
        /\ w.op # "add" => w.comment \in Written'
    BY <2>1, CommitLog DEF WorkOK, Apart
  <2>3. ASSUME w.op # "add", w.comment \in DOMAIN comment'
        PROVE  /\ w.comment \in DOMAIN comment
               /\ comment'[w.comment].author = comment[w.comment].author
               /\ comment'[w.comment].task = comment[w.comment].task
    BY <2>1, <2>3, CommitComments DEF Apart
  <2>4. ASSUME Locks(w, w.comment), w.op = "update"
        PROVE  w.comment \in DOMAIN comment'
    <3>1. w.comment \in DOMAIN comment
      BY <2>1, <2>4 DEF WorkOK
    <3>2. ASSUME s.op = "delete", s.comment = w.comment
          PROVE  FALSE
      <4>1. Locks(s, s.comment)
        BY <1>1, <3>2, WorkIsNotIdle DEF Locks, Writes
      <4>. QED
        BY <2>1, <2>4, <3>2, <4>1 DEF Apart
    <3>. QED
      BY <3>1, <3>2, CommitComments
  <2>. HIDE DEF w
  <2>5. /\ w.op = "add" => w.pc # "select" /\ w.comment \notin Written'
        /\ w.op = "add" /\ RoleOf[w.user] = "EMPLOYEE" => ProfileOf[w.user] \in holders[w.task]
        /\ w.op # "delete" => w.content \in Contents
        /\ w.op # "add" => w.comment \in Written'
    BY <2>1, <2>2 DEF WorkOK
  <2>6. w.op # "add" /\ w.pc # "select" =>
          /\ w.old \in Row /\ w.old.task = w.task
          /\ w.op = "update" => w.old.author = w.user
          /\ w.comment \in DOMAIN comment' =>
               /\ comment'[w.comment].author = w.old.author
               /\ comment'[w.comment].task = w.old.task
    BY <2>1, <2>3 DEF WorkOK
  <2>7. session'[q] = w /\ holders' = holders /\ Locks(w, w.comment)' = Locks(w, w.comment)
    BY <1>1, <2>1 DEF w, Locks, Writes, Idle
  <2>. QED
    BY <2>4, <2>5, <2>6, <2>7 DEF WorkOK
<1>7. \A q, p \in Busy' : q # p => Apart(session'[q], session'[p])
  BY <1>2 DEF IInv, Busy
<1>8. (\A q, p \in Busy : q # p => Apart(session[q], session[p]))'
  BY <1>7 DEF Apart, Locks, Writes, Idle
<1>9. (\A t \in Tasks : task[t].assigned_to \in holders[t])'
  BY <1>1 DEF IInv
<1>. QED
  BY <1>3, <1>4, <1>5, <1>6, <1>8, <1>9 DEF IInv, Inv

-----------------------------------------------------------------------------
(* The task service                                                        *)

(* Reassignment adds a holder; deletion hides the task.  Neither looks at  *)
(* the comments or at the requests on them.                                *)
LEMMA TaskStepInv ==
  ASSUME IInv, NEW t \in Tasks,
         delete_task(t) \/ \E e \in Employees : reassign_task(t, e)
  PROVE  IInv'
<1>1. UNCHANGED <<comment, activity, session>>
  BY DEF delete_task, reassign_task
<1>2. /\ task' \in [Tasks -> [assigned_to: Employees, is_deleted: BOOLEAN]]
      /\ holders' \in [Tasks -> SUBSET Employees]
      /\ \A u \in Tasks : holders[u] \subseteq holders'[u] /\ task'[u].assigned_to \in holders'[u]
  <2>1. /\ task \in [Tasks -> [assigned_to: Employees, is_deleted: BOOLEAN]]
        /\ holders \in [Tasks -> SUBSET Employees]
        /\ \A u \in Tasks : task[u].assigned_to \in holders[u]
    BY DEF IInv, Inv, TypeOK
  <2>2. CASE delete_task(t)
    <3>1. /\ task' = [task EXCEPT ![t].is_deleted = TRUE] /\ holders' = holders
      BY <2>2 DEF delete_task
    <3>. QED
      BY <2>1, <3>1
  <2>3. ASSUME NEW e \in Employees, reassign_task(t, e)
        PROVE  <1>2!1 /\ <1>2!2 /\ <1>2!3
    <3>1. /\ task' = [task EXCEPT ![t].assigned_to = e]
          /\ holders' = [holders EXCEPT ![t] = holders[t] \cup {e}]
      BY <2>1, <2>3 DEF reassign_task
    <3>. QED
      BY <2>1, <3>1
  <2>. QED
    BY <2>2, <2>3
<1>3. Inv'
  BY <1>1, <1>2 DEF IInv, Inv, TypeOK, UneditedAsLogged
<1>4. EmployeesCommentAsHolders'
  <2>. SUFFICES ASSUME NEW c \in DOMAIN comment, RoleOf[comment[c].author] = "EMPLOYEE"
                PROVE  ProfileOf[comment[c].author] \in holders'[comment[c].task]
    BY <1>1 DEF EmployeesCommentAsHolders
  <2>1. comment[c].task \in Tasks
    BY DEF IInv, Inv, TypeOK, Row
  <2>. QED
    BY <1>2, <2>1 DEF IInv, EmployeesCommentAsHolders
<1>5. (\A r \in Busy : WorkOK(session[r]))'
  <2>. SUFFICES ASSUME NEW r \in Busy'
                PROVE  WorkOK(session[r])'
    OBVIOUS
  <2>1. r \in Busy /\ session'[r] = session[r] /\ WorkOK(session[r]) /\ session[r].task \in Tasks
    BY <1>1, BusyWork DEF IInv, Inv, Busy, Work
  <2>. QED
    BY <1>1, <1>2, <2>1 DEF WorkOK, Written, Locks, Writes, Idle
<1>6. (\A r, q \in Busy : r # q => Apart(session[r], session[q]))'
  BY <1>1 DEF IInv, Busy, Apart, Locks, Writes, Idle
<1>. QED
  BY <1>2, <1>3, <1>4, <1>5, <1>6 DEF IInv

-----------------------------------------------------------------------------
(* The theorems                                                            *)

(* Every step keeps the invariant.                                         *)
LEMMA NextInv ==
  ASSUME IInv, [Next]_vars
  PROVE  IInv'
<1>1. CASE UNCHANGED vars
  <2>1. Inv' /\ EmployeesCommentAsHolders'
    BY <1>1 DEF vars, IInv, Inv, TypeOK, UneditedAsLogged, EmployeesCommentAsHolders
  <2>2. (\A r \in Busy : WorkOK(session[r]))'
    BY <1>1 DEF vars, IInv, Busy, WorkOK, Written, Locks, Writes, Idle
  <2>3. (\A r, q \in Busy : r # q => Apart(session[r], session[q]))'
    BY <1>1 DEF vars, IInv, Busy, Apart, Locks, Writes, Idle
  <2>. QED
    BY <1>1, <2>1, <2>2, <2>3 DEF vars, IInv
<1>2. ASSUME NEW r \in Requests,
             Handler(r) \/ select_comment(r) \/ flush(r) \/ commit(r) \/ rollback(r)
      PROVE  IInv'
  BY <1>2, HandlerInv, SelectCommentInv, FlushInv, CommitInv, RollbackInv
<1>3. ASSUME NEW t \in Tasks, delete_task(t) \/ \E e \in Employees : reassign_task(t, e)
      PROVE  IInv'
  BY <1>3, TaskStepInv
<1>. QED
  BY <1>1, <1>2, <1>3 DEF Next, Quiet

(* The inductive invariant holds throughout.                               *)
THEOREM Invariance == Spec => []IInv
<1>1. IInv /\ [Next]_vars => IInv'
  BY NextInv
<1>. QED
  BY InitInv, <1>1, PTL DEF Spec

(* A comment not marked as edited reads as the log has it.                 *)
THEOREM UneditedAsLoggedCorrect == Spec => []Inv
<1>1. IInv => Inv
  BY DEF IInv
<1>. QED
  BY Invariance, <1>1, PTL

(* An employee's comment is on a task that was assigned to them.           *)
THEOREM EmployeesCommentAsHoldersCorrect == Spec => []EmployeesCommentAsHolders
<1>1. IInv => EmployeesCommentAsHolders
  BY DEF IInv
<1>. QED
  BY Invariance, <1>1, PTL

(* An edit that has been sent will be found in the row of its author.      *)
THEOREM EditsLandCorrect == Spec => []EditsLand
<1>1. ASSUME IInv PROVE EditsLand
  <2>. SUFFICES ASSUME NEW r \in Busy, session[r].pc = "flushed", session[r].op = "update",
                       Writes(session[r])
                PROVE  /\ session[r].comment \in DOMAIN comment
                       /\ comment[session[r].comment].author = session[r].user
                       /\ comment[session[r].comment].task = session[r].task
    BY DEF EditsLand
  <2>1. session[r] \in Work /\ WorkOK(session[r])
    BY <1>1, BusyWork DEF IInv, Inv
  <2>2. Locks(session[r], session[r].comment)
    BY <2>1, WorkIsNotIdle DEF Locks
  <2>. QED
    BY <2>1, <2>2 DEF WorkOK
<1>. QED
  BY Invariance, <1>1, PTL

-----------------------------------------------------------------------------
(* Deletion of a task                                                      *)

(* On a deleted task no request starts, and only one that is on it changes *)
(* its comments.                                                           *)
LEMMA ClosedTask ==
  ASSUME IInv, [Next]_vars, NEW t \in Tasks, task[t].is_deleted
  PROVE  /\ OnTask(t)' \subseteq OnTask(t)
         /\ OnTask(t) = {} => CommentsOf(t)' = CommentsOf(t)
<1>1. /\ session \in [Requests -> Work \cup {Idle}]
      /\ \A r \in Busy : session[r] \in Work /\ session[r] # Idle
  BY BusyWork DEF IInv, Inv, TypeOK, Busy
<1>2. ASSUME NEW r \in Requests, Handler(r)
      PROVE  OnTask(t)' \subseteq OnTask(t) /\ comment' = comment
  <2>1. PICK v \in Tasks :
          Visible(v) /\ \E pc, op, u, c, content : Open(r, pc, op, u, v, c, content)
    <3>1. PICK u \in Users, v \in Tasks, c \in Comments :
            \/ \E content \in Contents :
                 add_comment(r, u, v, c, content) \/ update_comment(r, u, v, c, content)
            \/ delete_comment(r, u, v, c)
      BY <1>2 DEF Handler
    <3>2. ASSUME NEW content \in Contents, add_comment(r, u, v, c, content)
          PROVE  Visible(v) /\ Open(r, "ready", "add", u, v, c, content)
      BY <3>2 DEF add_comment
    <3>3. ASSUME NEW content \in Contents, update_comment(r, u, v, c, content)
          PROVE  Visible(v) /\ Open(r, "select", "update", u, v, c, content)
      BY <3>3 DEF update_comment
    <3>4. ASSUME delete_comment(r, u, v, c)
          PROVE  Visible(v) /\ Open(r, "select", "delete", u, v, c, Null)
      BY <3>4 DEF delete_comment
    <3>. QED
      BY <3>1, <3>2, <3>3, <3>4
  <2>2. v # t
    BY <2>1 DEF Visible
  <2>3. /\ session'[r].task = v /\ comment' = comment
        /\ \A q \in Requests \ {r} : session'[q] = session[q]
    BY <1>1, <2>1 DEF Open
  <2>. QED
    BY <2>2, <2>3 DEF OnTask, Busy
<1>3. ASSUME NEW r \in Requests, select_comment(r) \/ flush(r)
      PROVE  OnTask(t)' \subseteq OnTask(t) /\ comment' = comment
  <2>1. r \in Busy /\ comment' = comment
    BY <1>3 DEF select_comment, flush
  <2>2. PICK s \in {Idle} \cup {w \in Work : w.task = session[r].task} :
          session' = [session EXCEPT ![r] = s]
    <3>1. CASE select_comment(r)
      <4>. DEFINE s == session[r]
                  row == comment[s.comment]
                  w == [s EXCEPT !.pc = "ready", !.old = row]
      <4>1. session' = [session EXCEPT ![r] = Idle] \/
              (session' = [session EXCEPT ![r] = w] /\ Found(s))
        BY <3>1 DEF select_comment
      <4>2. s \in Work /\ (Found(s) => row \in Row)
        BY <1>1, <2>1 DEF Found, IInv, Inv, TypeOK
      <4>3. Found(s) => w \in Work /\ w.task = s.task
        <5>. HIDE DEF s, row
        <5>. QED
          BY <4>2 DEF Work
      <4>. HIDE DEF w
      <4>. QED
        BY <4>1, <4>3
    <3>2. CASE flush(r)
      <4>. DEFINE w == [session[r] EXCEPT !.pc = "flushed"]
      <4>1. session' = [session EXCEPT ![r] = Idle] \/ session' = [session EXCEPT ![r] = w]
        BY <3>2 DEF flush
      <4>2. w \in Work /\ w.task = session[r].task
        BY <1>1, <2>1 DEF Work
      <4>. HIDE DEF w
      <4>. QED
        BY <4>1, <4>2
    <3>. QED
      BY <1>3, <3>1, <3>2
  <2>3. \A q \in OnTask(t)' : q \in OnTask(t)
    BY <1>1, <2>1, <2>2 DEF OnTask, Busy
  <2>. QED
    BY <2>1, <2>3
<1>4. ASSUME NEW r \in Requests, commit(r)
      PROVE  /\ OnTask(t)' \subseteq OnTask(t)
             /\ OnTask(t) = {} => CommentsOf(t)' = CommentsOf(t)
  <2>. DEFINE s == session[r]
  <2>1. r \in Busy /\ s.pc = "flushed" /\ session' = [session EXCEPT ![r] = Idle]
    BY <1>4 DEF commit
  <2>2. OnTask(t)' \subseteq OnTask(t)
    BY <1>1, <2>1 DEF OnTask, Busy
  <2>3. ASSUME s.task # t, NEW c
        PROVE  /\ (c \in DOMAIN comment' /\ comment'[c].task = t)
                    <=> (c \in DOMAIN comment /\ comment[c].task = t)
               /\ c \in DOMAIN comment /\ comment[c].task = t => comment'[c] = comment[c]
    <3>1. WorkOK(s) /\ s \in Work
      BY <1>1, <2>1 DEF IInv
    <3>2. s.op # "add" /\ s.comment \in DOMAIN comment => comment[s.comment].task = s.task
      BY <2>1, <3>1 DEF WorkOK
    <3>. QED
      BY <1>4, <2>3, <3>2, CommitComments
  <2>4. OnTask(t) = {} => s.task # t
    BY <2>1 DEF OnTask
  <2>. QED
    BY <2>2, <2>3, <2>4 DEF CommentsOf
<1>5. ASSUME NEW r \in Requests, rollback(r)
      PROVE  OnTask(t)' \subseteq OnTask(t) /\ comment' = comment
  BY <1>1, <1>5 DEF rollback, OnTask, Busy
<1>6. ASSUME NEW v \in Tasks, delete_task(v) \/ \E e \in Employees : reassign_task(v, e)
      PROVE  OnTask(t)' \subseteq OnTask(t) /\ comment' = comment
  BY <1>6 DEF delete_task, reassign_task, OnTask, Busy
<1>7. CASE UNCHANGED vars
  BY <1>7 DEF vars, OnTask, Busy, CommentsOf
<1>8. comment' = comment => CommentsOf(t)' = CommentsOf(t)
  BY DEF CommentsOf
<1>. QED
  BY <1>2, <1>3, <1>4, <1>5, <1>6, <1>7, <1>8 DEF Next, Quiet

(* A deleted task gets no new request on its comments, and once those in   *)
(* flight are through its comments stay as they are.                       *)
THEOREM DeletionClosesCommentsCorrect == Spec => DeletionClosesComments
<1>1. IInv /\ [Next]_vars =>
        [ \A t \in Tasks : task[t].is_deleted =>
            /\ OnTask(t)' \subseteq OnTask(t)
            /\ OnTask(t) = {} => CommentsOf(t)' = CommentsOf(t) ]_vars
  BY ClosedTask
<1>. QED
  BY Invariance, <1>1, PTL DEF Spec, DeletionClosesComments

-----------------------------------------------------------------------------
(* The service implements CommentLife                                      *)

(* What Stage says, case by case.                                          *)
LEMMA StageCases ==
  ASSUME NEW c \in Comments
  PROVE  /\ c \in DOMAIN comment /\ comment[c].is_edited => Stage[c] = "edited"
         /\ c \in DOMAIN comment /\ ~comment[c].is_edited => Stage[c] = "fresh"
         /\ c \notin DOMAIN comment /\ c \in Written => Stage[c] = "gone"
         /\ c \notin Written => Stage[c] = "unwritten"
<1>1. DOMAIN comment \subseteq Written
  BY DEF Written
<1>. QED
  BY <1>1 DEF Stage

(* The stages of the comments depend on the two tables only.               *)
LEMMA StageUnchanged ==
  ASSUME UNCHANGED <<comment, activity>>
  PROVE  Stage' = Stage
  BY DEF Stage, Written

(* A commit moves at most its own comment, and by a step of a life.        *)
LEMMA LifeCommit ==
  ASSUME IInv, NEW r \in Requests, commit(r)
  PROVE  [Life!Next]_Stage
<1>. DEFINE s == session[r]
            k == s.comment
<1>1. /\ s \in Work /\ WorkOK(s) /\ s.pc = "flushed" /\ k \in Comments /\ s.op \in Op
  BY BusyWork DEF commit, IInv, Inv, Work
<1>2. /\ \A c \in Comments \ {k} :
           /\ c \in DOMAIN comment' <=> c \in DOMAIN comment
           /\ c \in DOMAIN comment => comment'[c] = comment[c]
           /\ c \in Written' <=> c \in Written
      /\ k \in Written'
  BY <1>1, CommitComments, CommitLog DEF WorkOK
<1>3. \A c \in Comments \ {k} : Stage'[c] = Stage[c]
  BY <1>2 DEF Stage
<1>4. /\ DOMAIN Stage = Comments /\ Stage = [c \in Comments |-> Stage[c]]
      /\ DOMAIN Stage' = Comments /\ Stage' = [c \in Comments |-> Stage'[c]]
  BY DEF Stage
<1>4a. Stage' = [Stage EXCEPT ![k] = Stage'[k]]
  BY <1>1, <1>3, <1>4
<1>5. CASE s.op = "add"
  <2>1. /\ k \notin Written /\ k \in DOMAIN comment' /\ ~comment'[k].is_edited
    BY <1>1, <1>5, CommitComments DEF WorkOK
  <2>2. Stage[k] = "unwritten" /\ Stage'[k] = "fresh"
    BY <1>1, <1>5, <2>1, StageCases DEF Stage
  <2>3. Life!Write(k)
    BY <1>4a, <2>2 DEF Life!Write
  <2>. QED
    BY <1>1, <2>3 DEF Life!Next
<1>6. CASE s.op = "delete"
  <2>1. k \notin DOMAIN comment' /\ k \in Written /\ k \in Written'
    BY <1>1, <1>2, <1>6, CommitComments DEF WorkOK
  <2>2. Stage'[k] = "gone"
    BY <1>1, <2>1 DEF Stage
  <2>3. CASE k \in DOMAIN comment
    <3>1. Stage[k] \in {"fresh", "edited"}
      BY <1>1, <2>3, StageCases
    <3>2. Life!Remove(k)
      BY <1>4a, <2>2, <3>1 DEF Life!Remove
    <3>. QED
      BY <1>1, <3>2 DEF Life!Next
  <2>4. CASE k \notin DOMAIN comment
    <3>1. Stage[k] = "gone"
      BY <1>1, <2>1, <2>4, StageCases
    <3>. QED
      BY <1>3, <2>2, <3>1 DEF Stage
  <2>. QED
    BY <2>3, <2>4
<1>7. CASE s.op = "update"
  <2>1. k \in Written /\ k \in Written' /\ (k \in DOMAIN comment' <=> k \in DOMAIN comment)
    BY <1>1, <1>2, <1>7, CommitComments DEF WorkOK
  <2>2. CASE k \in DOMAIN comment /\ comment'[k] # comment[k] /\ ~comment[k].is_edited
    <3>1. comment'[k].is_edited
      BY <2>1, <2>2, CommitComments
    <3>2. Stage[k] = "fresh" /\ Stage'[k] = "edited"
      BY <1>1, <2>1, <2>2, <3>1, StageCases DEF Stage
    <3>3. Life!Edit(k)
      BY <1>4a, <3>2 DEF Life!Edit
    <3>. QED
      BY <1>1, <3>3 DEF Life!Next
  <2>3. CASE ~(k \in DOMAIN comment /\ comment'[k] # comment[k] /\ ~comment[k].is_edited)
    <3>1. Stage'[k] = Stage[k]
      <4>1. k \in DOMAIN comment => comment'[k] = comment[k] \/ comment'[k].is_edited
        BY <2>1, CommitComments
      <4>. QED
        BY <1>1, <2>1, <2>3, <4>1 DEF Stage
    <3>. QED
      BY <1>3, <3>1 DEF Stage
  <2>. QED
    BY <2>2, <2>3
<1>. QED
  BY <1>1, <1>5, <1>6, <1>7 DEF Op

(* Every step is a step of a comment's life, or none.                      *)
LEMMA LifeStep ==
  ASSUME IInv, [Next]_vars
  PROVE  [Life!Next]_Stage
<1>1. ASSUME NEW r \in Requests, commit(r)
      PROVE  [Life!Next]_Stage
  BY <1>1, LifeCommit
<1>2. CASE UNCHANGED <<comment, activity>>
  BY <1>2, StageUnchanged
<1>3. (\E r \in Requests : commit(r)) \/ UNCHANGED <<comment, activity>>
  <2>1. ASSUME NEW r \in Requests, Handler(r)
        PROVE  UNCHANGED <<comment, activity>>
    BY <2>1 DEF Handler, add_comment, update_comment, delete_comment, Open
  <2>2. ASSUME NEW r \in Requests, select_comment(r) \/ flush(r) \/ rollback(r)
        PROVE  UNCHANGED <<comment, activity>>
    BY <2>2 DEF select_comment, flush, rollback
  <2>3. ASSUME NEW t \in Tasks, delete_task(t) \/ \E e \in Employees : reassign_task(t, e)
        PROVE  UNCHANGED <<comment, activity>>
    BY <2>3 DEF delete_task, reassign_task
  <2>. QED
    BY <2>1, <2>2, <2>3 DEF Next, Quiet, vars
<1>. QED
  BY <1>1, <1>2, <1>3

(* Initially no comment is written.                                        *)
LEMMA LifeInit == Init => Life!Init
  BY DEF Init, Life!Init, Stage, Written

(* However edits and deletions overlap, a comment is written once, marked  *)
(* for good when it is edited, and does not come back: the service         *)
(* implements CommentLife.                                                 *)
THEOREM ImplementsLife == Spec => LifeSpec
  BY Invariance, LifeInit, LifeStep, PTL DEF Spec, LifeSpec, Life!Spec
=============================================================================
