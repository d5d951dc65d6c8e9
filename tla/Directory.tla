----------------------------- MODULE Directory ------------------------------
(***************************************************************************)
(* Accounts, departments and employee profiles: the three tables whose     *)
(* rows are known by unique values.  Each is created by check-then-insert: *)
(* a SELECT for a row that has the value, then an INSERT that the unique   *)
(* indexes may still refuse, because another request has inserted it in    *)
(* between.  Departments are renamed without a check; departments and      *)
(* employees are soft-deleted and keep their values.                       *)
(***************************************************************************)
EXTENDS Naturals, FiniteSets, Sequences

CONSTANTS
  Requests,     \* session slots
  Tables,       \* those of the three tables that are looked at
  Ids,          \* primary keys of all rows: bound on the rows ever created
  Values,       \* values of the unique columns
  Null          \* Python's None

ASSUME TablesAssumption == Tables \subseteq {"users", "departments", "employees"}

VARIABLES
  row,          \* the committed rows, by primary key
  session,      \* the transaction of each request in flight
  answer        \* the answer to the last request of each slot

vars == <<row, session, answer>>

(* Variant: the name of a department is not declared unique.               *)
Unique_nameless(t) ==
  CASE t = "users" -> {"username", "email"}
    [] t = "departments" -> {}
    [] t = "employees" -> {"email", "user_id"}

(* The columns declared unique=True, those that identify a row.            *)
Unique(t) ==
  CASE t = "users" -> {"username", "email"}
    [] t = "departments" -> {"name"}
    [] t = "employees" -> {"email", "user_id"}

Column == {"username", "email", "name", "user_id"}

Keys(t) ==
  CASE t = "users" -> [{"username", "email"} -> Values]
    [] t = "departments" -> [{"name"} -> Values]
    [] t = "employees" -> [{"email", "user_id"} -> Values]

(* Variant: the profile of the user is not looked for.                     *)
Checks_emailOnly(t) ==
  CASE t = "users" -> <<{"username", "email"}>>
    [] t = "departments" -> <<{"name"}>>
    [] t = "employees" -> <<{"email"}>>

(* The SELECTs before an INSERT: each looks for rows that agree in one of  *)
(* the columns.  Inactive rows are found like others.                      *)
Checks(t) ==
  CASE t = "users" -> <<{"username", "email"}>>
    [] t = "departments" -> <<{"name"}>>
    [] t = "employees" -> <<{"email"}, {"user_id"}>>

Row == UNION {[table: {t}, keys: Keys(t), is_active: BOOLEAN] : t \in Tables}

(*   check    next is the SELECT number n of the checks                    *)
(*   ready    nothing is sent yet     flushed  INSERT or UPDATE are sent   *)
(* old is the row as loaded, equal to new for a creation.  rivals is       *)
(* history: the rows other requests have committed meanwhile.              *)
Work == [pc: {"check", "ready", "flushed"}, n: 1..3, op: {"create", "update"},
         id: Ids, old: Row, new: Row, rivals: SUBSET Ids]

Idle == [pc |-> "idle"]

TypeOK ==
  /\ DOMAIN row \subseteq Ids
  /\ row \in [DOMAIN row -> Row]
  /\ session \in [Requests -> Work \cup {Idle}]
  /\ answer \in [Requests -> {"none", "ok", "conflict", "error"}]

-----------------------------------------------------------------------------
Busy == {r \in Requests : session[r] # Idle}

Open(r, pc, op, i, old, new) ==
  /\ session[r] = Idle
  /\ session' = [session EXCEPT ![r] =
       [pc |-> pc, n |-> 1, op |-> op, id |-> i, old |-> old, new |-> new,
        rivals |-> {}]]
  /\ answer' = [answer EXCEPT ![r] = "none"]
  /\ UNCHANGED row

End(r, what) ==
  /\ session' = [session EXCEPT ![r] = Idle]
  /\ answer' = [answer EXCEPT ![r] = what]
  /\ UNCHANGED row

(* register_user, create_department, create_employee.                      *)
create(r, t, i, keys) ==
  LET new == [table |-> t, keys |-> keys, is_active |-> TRUE]
  IN  /\ i \notin DOMAIN row
      /\ \A q \in Busy : session[q].id # i
      /\ Open(r, "check", "create", i, new, new)

Agree(x, y, columns) ==
  x.table = y.table /\ \E k \in columns : x.keys[k] = y.keys[k]

(* scalar_one_or_none: no row is fine, one is a conflict (409), and two -  *)
(* the email of one user, the username of another - an exception (500).    *)
check(r) ==
  LET s == session[r]
      found == {i \in DOMAIN row : Agree(row[i], s.new, Checks(s.new.table)[s.n])}
  IN  /\ r \in Busy
      /\ s.pc = "check"
      /\ IF found # {}
           THEN End(r, IF Cardinality(found) = 1 THEN "conflict" ELSE "error")
           ELSE /\ session' = [session EXCEPT ![r] =
                     IF s.n < Len(Checks(s.new.table)) THEN [s EXCEPT !.n = s.n + 1]
                     ELSE [s EXCEPT !.pc = "ready", !.n = 1]]
                /\ UNCHANGED <<row, answer>>

Visible(t, i) == i \in DOMAIN row /\ row[i].table = t /\ row[i].is_active

(* update_department: the new name, if one is given, is not looked for.    *)
(* (update_employee changes none of the columns modelled here.)            *)
update_department(r, i, name) ==
  /\ Visible("departments", i)
  /\ Open(r, "ready", "update", i, row[i],
          IF name = Null THEN row[i] ELSE [row[i] EXCEPT !.keys = [name |-> name]])

(* delete_department, delete_employee                                      *)
soft_delete(r, t, i) ==
  /\ t # "users"
  /\ Visible(t, i)
  /\ Open(r, "ready", "update", i, row[i], [row[i] EXCEPT !.is_active = FALSE])

-----------------------------------------------------------------------------
(* An object with no change is not written.                                *)
Writes(s) == s.op = "create" \/ s.new # s.old

SetsKeys(s) == s.op = "create" \/ s.new.keys # s.old.keys

(* What p is about to write waits for q: the row itself, or a value that q *)
(* is putting into a unique index or may be taking out of it.              *)
WaitsFor(p, q) ==
  LET columns == Unique(p.new.table)
  IN  /\ q.pc = "flushed" /\ Writes(p) /\ Writes(q)
      /\ \/ p.id = q.id
         \/ SetsKeys(p) /\ Agree(p.new, q.new, columns)
         \/ SetsKeys(p) /\ q.id \in DOMAIN row /\ Agree(p.new, row[q.id], columns)

(* Variant: an UPDATE that SETs every column of the loaded object.         *)
RowAfter_whole(s) == s.new

(* The row s leaves: an UPDATE SETs the changed columns only.              *)
RowAfter(s) ==
  IF s.op = "create" THEN s.new
  ELSE [row[s.id] EXCEPT
          !.keys = IF SetsKeys(s) THEN s.new.keys ELSE @,
          !.is_active = IF s.new.is_active = s.old.is_active THEN @ ELSE s.new.is_active]

Clash(s) ==
  \E i \in DOMAIN row \ {s.id} : Agree(row[i], s.new, Unique(s.new.table))

(* flush(): once nothing is left to wait for, a value that another row has *)
(* is an IntegrityError (500).                                             *)
flush(r) ==
  LET s == session[r]
  IN  /\ r \in Busy
      /\ s.pc = "ready"
      /\ \A q \in Busy \ {r} : ~WaitsFor(s, session[q])
      /\ IF SetsKeys(s) /\ Clash(s)
           THEN End(r, "error")
           ELSE /\ session' = [session EXCEPT ![r] = [s EXCEPT !.pc = "flushed"]]
                /\ UNCHANGED <<row, answer>>

commit(r) ==
  LET s == session[r]
  IN  /\ r \in Busy
      /\ s.pc = "flushed"
      /\ row' = [i \in DOMAIN row \cup {s.id} |->
                   IF i = s.id /\ Writes(s) THEN RowAfter(s) ELSE row[i]]
      /\ session' = [q \in Requests |->
           IF q = r \/ q \notin Busy THEN Idle
           ELSE [session[q] EXCEPT !.rivals = @ \cup {s.id}]]
      /\ answer' = [answer EXCEPT ![r] = "ok"]

(* A failure of another kind (an unknown department or user id, the        *)
(* connection, the process): nothing is left.                              *)
rollback(r) == r \in Busy /\ End(r, "none")

Quiet == Busy = {} /\ UNCHANGED vars

-----------------------------------------------------------------------------
Init ==
  /\ row = [i \in {} |-> Idle]
  /\ session = [r \in Requests |-> Idle]
  /\ answer = [r \in Requests |-> "none"]

Handler(r) ==
  \E i \in Ids, t \in Tables :
    \/ \E keys \in Keys(t) : create(r, t, i, keys)
    \/ soft_delete(r, t, i)
    \/ \E name \in Values \cup {Null} : t = "departments" /\ update_department(r, i, name)

Next ==
  \/ \E r \in Requests : Handler(r) \/ check(r) \/ flush(r) \/ commit(r) \/ rollback(r)
  \/ Quiet

Spec == Init /\ [][Next]_vars

-----------------------------------------------------------------------------
(* Properties                                                              *)

(* However creations and renames overlap, no two rows of a table, active   *)
(* or not, share an email, a username, a name or a user.  (Every lookup by *)
(* such a value is a scalar_one_or_none, which fails on two rows.)         *)
ValuesAreUnique ==
  \A i, j \in DOMAIN row : i # j => \A k \in Column :
    k \in DOMAIN row[i].keys /\ row[i].table = row[j].table
      => row[i].keys[k] # row[j].keys[k]

(* Tables and sessions keep their types, and the tables their unique       *)
(* columns.                                                                *)
Inv == TypeOK /\ ValuesAreUnique

(* The columns in which the SELECTs of a creation have found no such row.  *)
Passed(s) ==
  IF s.pc = "check"
    THEN {k \in Column : \E m \in 1..(s.n - 1) : k \in Checks(s.new.table)[m]}
    ELSE Unique(s.new.table)

(* The inductive invariant.  What a request in flight carries: a creation  *)
(* has no row yet, and those that agree with it where it has looked are    *)
(* rivals; an update is of a row that was active; and what is sent does    *)
(* not clash with a row.                                                   *)
WorkOK(s) ==
  /\ s.op = "create" =>
       /\ s.new = s.old /\ s.id \notin DOMAIN row
       /\ \A i \in DOMAIN row \ s.rivals : ~Agree(row[i], s.new, Passed(s))
  /\ s.op = "update" =>
       /\ s.pc # "check" /\ s.old.is_active
       /\ s.id \in DOMAIN row /\ row[s.id].table = s.new.table
  /\ s.pc = "flushed" /\ SetsKeys(s) => ~Clash(s)

(* Of two requests in flight: a creation has its primary key for itself,   *)
(* and what both have sent is of different rows and different values.      *)
Apart(p, q) ==
  /\ p.op = "create" \/ q.op = "create" => p.id # q.id
  /\ p.pc = "flushed" /\ q.pc = "flushed" /\ Writes(p) /\ Writes(q) =>
       /\ p.id # q.id
       /\ SetsKeys(p) /\ SetsKeys(q) => ~Agree(p.new, q.new, Unique(p.new.table))

IInv ==
  /\ Inv
  /\ \A r \in Busy : answer[r] = "none" /\ WorkOK(session[r])
  /\ \A r, q \in Busy : r # q => Apart(session[r], session[q])

(* A creation that got past its checks is refused by an index (500 instead *)
(* of 409) only because another request committed such a row since it      *)
(* began: run alone, it is answered 201 or 409.                            *)
LateErrorNeedsARival ==
  [][ \A r \in Busy :
        session[r].pc = "ready" /\ session[r].op = "create" /\ answer'[r] = "error"
          => \E i \in session[r].rivals : Agree(row[i], session[r].new, Unique(row[i].table))
    ]_vars

(* A deactivated department or profile stays deactivated, and in place:    *)
(* a rename that loaded it while it was active does not bring it back.     *)
DeactivationIsFinal ==
  [][ \A i \in DOMAIN row : i \in DOMAIN row' /\
        (~row[i].is_active => ~row'[i].is_active) ]_vars
=============================================================================
