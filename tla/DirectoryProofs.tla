--------------------------- MODULE DirectoryProofs -------------------------
(***************************************************************************)
(* Theorems about Directory, for any number of rows, values and requests   *)
(* in flight.                                                              *)
(***************************************************************************)
EXTENDS Directory, TLAPS

(* A request in flight has the fields of Work.                             *)
LEMMA BusyWork ==
  ASSUME TypeOK, NEW r \in Busy
  PROVE  r \in Requests /\ session[r] \in Work /\ session[r] # Idle
  BY DEF TypeOK, Busy

(* A record with the fields of Work is not the idle session.               *)
LEMMA WorkIsNotIdle ==
  ASSUME NEW s \in Work
  PROVE  s # Idle
<1>1. s.pc # "idle"
  BY DEF Work
<1>2. Idle.pc = "idle"
  BY DEF Idle
<1>. QED
  BY <1>1, <1>2

(* A row has a value in each unique column of its table, and in no other.  *)
LEMMA RowFields ==
  ASSUME NEW x \in Row
  PROVE  /\ x.table \in Tables /\ x.keys \in Keys(x.table) /\ x.is_active \in BOOLEAN
         /\ DOMAIN x.keys = Unique(x.table)
         /\ Unique(x.table) \subseteq Column
<1>1. PICK t \in Tables : x \in [table: {t}, keys: Keys(t), is_active: BOOLEAN]
  BY DEF Row
<1>2. x.table = t /\ x.keys \in Keys(t) /\ x.is_active \in BOOLEAN
  BY <1>1
<1>3. CASE t = "users"
  BY <1>2, <1>3 DEF Keys, Unique, Column
<1>4. CASE t = "departments"
  BY <1>2, <1>4 DEF Keys, Unique, Column
<1>5. CASE t = "employees"
  BY <1>2, <1>5 DEF Keys, Unique, Column
<1>. QED
  BY <1>3, <1>4, <1>5, TablesAssumption

(* What has these fields is a row.                                         *)
LEMMA MakeRow ==
  ASSUME NEW t \in Tables, NEW keys \in Keys(t), NEW a \in BOOLEAN
  PROVE  [table |-> t, keys |-> keys, is_active |-> a] \in Row
  BY DEF Row

(* A row with other keys, or another flag, or both, is a row.              *)
LEMMA ChangeKeys ==
  ASSUME NEW x \in Row, NEW keys \in Keys(x.table)
  PROVE  LET y == [x EXCEPT !.keys = keys]
         IN  y \in Row /\ y.table = x.table /\ y.keys = keys /\ y.is_active = x.is_active
<1>1. PICK t \in Tables : x \in [table: {t}, keys: Keys(t), is_active: BOOLEAN]
  BY DEF Row
<1>2. [x EXCEPT !.keys = keys] \in [table: {t}, keys: Keys(t), is_active: BOOLEAN]
  BY <1>1
<1>. QED
  BY <1>1, <1>2 DEF Row

(* The same for the flag.                                                  *)
LEMMA ChangeActive ==
  ASSUME NEW x \in Row, NEW a \in BOOLEAN
  PROVE  LET y == [x EXCEPT !.is_active = a]
         IN  y \in Row /\ y.table = x.table /\ y.keys = x.keys /\ y.is_active = a
<1>1. PICK t \in Tables : x \in [table: {t}, keys: Keys(t), is_active: BOOLEAN]
  BY DEF Row
<1>2. [x EXCEPT !.is_active = a] \in [table: {t}, keys: Keys(t), is_active: BOOLEAN]
  BY <1>1
<1>. QED
  BY <1>1, <1>2 DEF Row

(* The checks of a table, one after the other, cover its unique columns.   *)
LEMMA ChecksCoverUnique ==
  ASSUME NEW t \in Tables, NEW n \in 1..3
  PROVE  /\ Len(Checks(t)) \in 1..2
         /\ n >= Len(Checks(t)) =>
              \A k \in Unique(t) : k \in Checks(t)[n] \/ \E m \in 1..(n - 1) : k \in Checks(t)[m]
<1>1. CASE t = "users"
  BY <1>1 DEF Checks, Unique
<1>2. CASE t = "departments"
  BY <1>2 DEF Checks, Unique
<1>3. CASE t = "employees"
  BY <1>3 DEF Checks, Unique
<1>. QED
  BY <1>1, <1>2, <1>3, TablesAssumption

(* Two rows in the sense of Apart are so in either order.                  *)
LEMMA ApartSymmetric ==
  ASSUME NEW p, NEW q, Apart(p, q)
  PROVE  Apart(q, p)
  BY DEF Apart, Agree

(* Agreement is about the table and the keys.                              *)
LEMMA AgreeByKeys ==
  ASSUME NEW x, NEW y, NEW z, NEW columns, x.table = y.table, x.keys = y.keys
  PROVE  Agree(x, z, columns) <=> Agree(y, z, columns)
  BY DEF Agree

-----------------------------------------------------------------------------
(* Initially there is no row and no request.                               *)
LEMMA InitInv == Init => IInv
<1>. SUFFICES ASSUME Init PROVE IInv
  OBVIOUS
<1>1. Busy = {} /\ DOMAIN row = {}
  BY DEF Init, Busy
<1>2. TypeOK
  BY <1>1 DEF Init, TypeOK
<1>. QED
  BY <1>1, <1>2 DEF IInv, Inv, ValuesAreUnique

(* A step of slot r that leaves the rows alone.                            *)
LEMMA SlotStep ==
  ASSUME IInv, NEW r \in Requests, NEW s \in Work \cup {Idle},
         NEW a \in {"none", "ok", "conflict", "error"},
         session' = [session EXCEPT ![r] = s],
         answer' = [answer EXCEPT ![r] = a],
         UNCHANGED row,
         s # Idle => /\ a = "none" /\ WorkOK(s)
                     /\ \A q \in Busy \ {r} : Apart(s, session[q])
  PROVE  IInv'
<1>. USE DEF IInv, Inv
<1>1. /\ session' \in [Requests -> Work \cup {Idle}]
      /\ session'[r] = s /\ answer'[r] = a
      /\ \A q \in Requests \ {r} : session'[q] = session[q] /\ answer'[q] = answer[q]
  BY DEF TypeOK
<1>2. TypeOK'
  BY <1>1 DEF TypeOK
<1>3. ValuesAreUnique'
  BY DEF ValuesAreUnique
<1>4. \A q \in Busy' : q \in Requests /\ (q # r => q \in Busy) /\ (q = r => s # Idle)
  BY <1>1 DEF Busy
<1>5. \A q \in Busy' : answer'[q] = "none" /\ WorkOK(session'[q])
  BY <1>1, <1>4
<1>6. (\A q \in Busy : answer[q] = "none" /\ WorkOK(session[q]))'
  <2>. SUFFICES ASSUME NEW q \in Busy'
                PROVE  answer'[q] = "none" /\ WorkOK(session[q])'
    OBVIOUS
  <2>. QED
    BY <1>5 DEF WorkOK, Clash
<1>7. \A q, p \in Busy' : q # p => Apart(session'[q], session'[p])
  BY <1>1, <1>4, ApartSymmetric
<1>8. (\A q, p \in Busy : q # p => Apart(session[q], session[p]))'
  BY <1>7 DEF Apart, Agree, SetsKeys, Writes, Unique
<1>. QED
  BY <1>2, <1>3, <1>6, <1>8

(* A slot that is freed.                                                   *)
LEMMA EndInv ==
  ASSUME IInv, NEW r \in Requests, NEW a \in {"none", "ok", "conflict", "error"}, End(r, a)
  PROVE  IInv'
  BY SlotStep DEF End

-----------------------------------------------------------------------------
(* The handlers                                                            *)

(* What a handler opens.                                                   *)
LEMMA OpenInv ==
  ASSUME IInv, NEW r \in Requests, NEW pc \in {"check", "ready"},
         NEW op \in {"create", "update"}, NEW i \in Ids, NEW old \in Row, NEW new \in Row,
         Open(r, pc, op, i, old, new),
         IF op = "create"
           THEN /\ pc = "check" /\ old = new /\ i \notin DOMAIN row
                /\ \A q \in Busy : session[q].id # i
           ELSE /\ pc = "ready" /\ old.is_active
                /\ i \in DOMAIN row /\ row[i].table = new.table
  PROVE  IInv'
<1>. DEFINE s == [pc |-> pc, n |-> 1, op |-> op, id |-> i, old |-> old, new |-> new,
                  rivals |-> {}]
<1>1. /\ session' = [session EXCEPT ![r] = s] /\ answer' = [answer EXCEPT ![r] = "none"]
      /\ UNCHANGED row
  BY DEF Open
<1>2. s \in Work
  BY DEF Work
<1>3. op = "create" => Passed(s) = {}
  BY DEF Passed
<1>4. WorkOK(s)
  BY <1>3 DEF WorkOK, Agree
<1>5. ASSUME NEW q \in Busy \ {r}
      PROVE  Apart(s, session[q])
  <2>1. WorkOK(session[q]) /\ session[q] \in Work
    BY BusyWork DEF IInv, Inv
  <2>. QED
    BY <2>1 DEF Apart, WorkOK
<1>. HIDE DEF s
<1>. QED
  BY <1>1, <1>2, <1>4, <1>5, SlotStep

(* The handlers keep the invariant.                                        *)
LEMMA HandlerInv ==
  ASSUME IInv, NEW r \in Requests, Handler(r)
  PROVE  IInv'
<1>1. PICK i \in Ids, t \in Tables :
        \/ \E keys \in Keys(t) : create(r, t, i, keys)
        \/ soft_delete(r, t, i)
        \/ \E name \in Values \cup {Null} : t = "departments" /\ update_department(r, i, name)
  BY DEF Handler
<1>2. \A j \in DOMAIN row : row[j] \in Row
  BY DEF IInv, Inv, TypeOK
<1>3. ASSUME NEW keys \in Keys(t), create(r, t, i, keys)
      PROVE  IInv'
  <2>. DEFINE new == [table |-> t, keys |-> keys, is_active |-> TRUE]
  <2>1. new \in Row
    BY MakeRow
  <2>2. /\ i \notin DOMAIN row /\ (\A q \in Busy : session[q].id # i)
        /\ Open(r, "check", "create", i, new, new)
    BY <1>3 DEF create
  <2>. HIDE DEF new
  <2>. QED
    BY <2>1, <2>2, OpenInv
<1>4. CASE soft_delete(r, t, i)
  <2>. DEFINE new == [row[i] EXCEPT !.is_active = FALSE]
  <2>1. /\ i \in DOMAIN row /\ row[i].is_active /\ row[i] \in Row
        /\ Open(r, "ready", "update", i, row[i], new)
    BY <1>2, <1>4 DEF soft_delete, Visible
  <2>2. new \in Row /\ new.table = row[i].table
    BY <2>1, ChangeActive
  <2>. HIDE DEF new
  <2>. QED
    BY <2>1, <2>2, OpenInv
<1>5. ASSUME NEW name \in Values \cup {Null}, t = "departments", update_department(r, i, name)
      PROVE  IInv'
  <2>. DEFINE new == IF name = Null THEN row[i]
                     ELSE [row[i] EXCEPT !.keys = [name |-> name]]
  <2>1. /\ i \in DOMAIN row /\ row[i].table = "departments" /\ row[i].is_active
        /\ row[i] \in Row /\ Open(r, "ready", "update", i, row[i], new)
    BY <1>2, <1>5 DEF update_department, Visible
  <2>2. new \in Row /\ new.table = row[i].table
    <3>1. CASE name = Null
      BY <2>1, <3>1
    <3>2. CASE name # Null
      <4>1. [name |-> name] \in Keys("departments")
        BY <3>2 DEF Keys
      <4>. QED
        BY <2>1, <3>2, <4>1, ChangeKeys
    <3>. QED
      BY <3>1, <3>2
  <2>. HIDE DEF new
  <2>. QED
    BY <2>1, <2>2, OpenInv
<1>. QED
  BY <1>1, <1>3, <1>4, <1>5

-----------------------------------------------------------------------------
(* The steps of a transaction                                              *)

(* A SELECT that finds no row: those that agree with the creation in the   *)
(* columns looked at so far are rivals.  After the last one these are all  *)
(* the unique columns.                                                     *)
LEMMA CheckInv ==
  ASSUME IInv, NEW r \in Requests, check(r)
  PROVE  IInv'
<1>. DEFINE s == session[r]
            t == s.new.table
            found == {i \in DOMAIN row : Agree(row[i], s.new, Checks(t)[s.n])}
            s1 == IF s.n < Len(Checks(t)) THEN [s EXCEPT !.n = s.n + 1]
                  ELSE [s EXCEPT !.pc = "ready", !.n = 1]
<1>1. /\ r \in Busy /\ s.pc = "check" /\ s \in Work /\ WorkOK(s) /\ answer[r] = "none"
      /\ \A q \in Busy \ {r} : Apart(s, session[q])
      /\ answer \in [Requests -> {"none", "ok", "conflict", "error"}]
  BY BusyWork DEF check, IInv, Inv, TypeOK
<1>2. CASE found # {}
  <2>1. End(r, IF Cardinality(found) = 1 THEN "conflict" ELSE "error")
    BY <1>2 DEF check
  <2>. HIDE DEF found
  <2>. QED
    BY <2>1, EndInv
<1>3. CASE found = {}
  <2>1. session' = [session EXCEPT ![r] = s1] /\ UNCHANGED <<row, answer>>
    BY <1>3 DEF check
  <2>2. /\ s.op = "create" /\ s.new \in Row /\ t \in Tables /\ s.n \in 1..3
        /\ Unique(t) \subseteq Column
    BY <1>1, RowFields DEF Work, WorkOK
  <2>3. /\ Len(Checks(t)) \in 1..2
        /\ s.n >= Len(Checks(t)) =>
             \A k \in Unique(t) : k \in Checks(t)[s.n] \/ \E m \in 1..(s.n - 1) : k \in Checks(t)[m]
    BY <2>2, ChecksCoverUnique
  <2>4. /\ s1 \in Work
        /\ s1.op = s.op /\ s1.id = s.id /\ s1.old = s.old /\ s1.new = s.new
        /\ s1.rivals = s.rivals
        /\ \/ s.n < Len(Checks(t)) /\ s1.pc = "check" /\ s1.n = s.n + 1
           \/ s.n >= Len(Checks(t)) /\ s1.pc = "ready"
    <3>. DEFINE last == Len(Checks(t))
    <3>0. s.n \in 1..3 /\ last \in 1..2
      BY <2>2, <2>3
    <3>. HIDE DEF last
    <3>1. CASE s.n < last
      <4>1. s1 = [s EXCEPT !.n = s.n + 1]
        BY <3>1 DEF last
      <4>2. s.n + 1 \in 1..3
        BY <3>0, <3>1
      <4>. USE DEF last
      <4>. HIDE DEF t, s1
      <4>. QED
        BY <1>1, <3>1, <4>1, <4>2 DEF Work
    <3>2. CASE ~(s.n < last)
      <4>1. s1 = [s EXCEPT !.pc = "ready", !.n = 1]
        BY <3>2 DEF last
      <4>2. s.n >= last
        BY <3>0, <3>2
      <4>3. 1 \in 1..3
        OBVIOUS
      <4>. USE DEF last
      <4>. HIDE DEF t, s1
      <4>. QED
        BY <1>1, <4>1, <4>2, <4>3 DEF Work
    <3>. QED
      BY <3>1, <3>2
  <2>. HIDE DEF s1
  <2>5. Passed(s) = {k \in Column : \E m \in 1..(s.n - 1) : k \in Checks(t)[m]}
    BY <1>1 DEF Passed
  <2>6. ASSUME NEW k \in Passed(s1)
        PROVE  k \in Checks(t)[s.n] \/ k \in Passed(s)
    <3>1. CASE s.n < Len(Checks(t)) /\ s1.pc = "check" /\ s1.n = s.n + 1
      <4>1. PICK m \in 1..s.n : k \in Checks(t)[m] /\ k \in Column
        BY <2>2, <2>4, <2>6, <3>1 DEF Passed
      <4>2. m = s.n \/ m \in 1..(s.n - 1)
        BY <2>2
      <4>. HIDE DEF t
      <4>. QED
        BY <2>5, <4>1, <4>2
    <3>2. CASE s.n >= Len(Checks(t)) /\ s1.pc = "ready"
      <4>1. k \in Unique(t)
        BY <2>4, <2>6, <3>2 DEF Passed
      <4>. HIDE DEF t
      <4>. QED
        BY <2>2, <2>3, <2>5, <3>2, <4>1
    <3>. QED
      BY <2>4, <3>1, <3>2
  <2>7. \A i \in DOMAIN row \ s.rivals : ~Agree(row[i], s.new, Passed(s1))
    <3>1. \A i \in DOMAIN row : ~Agree(row[i], s.new, Checks(t)[s.n])
      BY <1>3
    <3>2. \A i \in DOMAIN row \ s.rivals : ~Agree(row[i], s.new, Passed(s))
      BY <1>1, <2>2 DEF WorkOK
    <3>. HIDE DEF t
    <3>. QED
      BY <2>6, <3>1, <3>2 DEF Agree
  <2>8. WorkOK(s1)
    BY <1>1, <2>2, <2>4, <2>7 DEF WorkOK
  <2>9. \A q \in Busy \ {r} : Apart(s1, session[q])
    BY <1>1, <2>4 DEF Apart
  <2>10. answer' = [answer EXCEPT ![r] = "none"]
    BY <1>1, <2>1
  <2>. QED
    BY <1>1, <2>1, <2>4, <2>8, <2>9, <2>10, SlotStep
<1>. QED
  BY <1>2, <1>3

(* The statements are sent: nothing that is sent already is about the same *)
(* row or the same values, and no row has the values.                      *)
LEMMA FlushInv ==
  ASSUME IInv, NEW r \in Requests, flush(r)
  PROVE  IInv'
<1>. DEFINE s == session[r]
            s1 == [s EXCEPT !.pc = "flushed"]
<1>1. /\ r \in Busy /\ s.pc = "ready" /\ s \in Work /\ WorkOK(s) /\ answer[r] = "none"
      /\ \A q \in Busy \ {r} : Apart(s, session[q]) /\ ~WaitsFor(s, session[q])
      /\ answer \in [Requests -> {"none", "ok", "conflict", "error"}]
  BY BusyWork DEF flush, IInv, Inv, TypeOK
<1>2. CASE SetsKeys(s) /\ Clash(s)
  BY <1>2, EndInv DEF flush
<1>3. CASE ~(SetsKeys(s) /\ Clash(s))
  <2>1. session' = [session EXCEPT ![r] = s1] /\ UNCHANGED <<row, answer>>
    BY <1>3 DEF flush
  <2>2. /\ s1 \in Work /\ s1.pc = "flushed" /\ s1.op = s.op /\ s1.id = s.id
        /\ s1.old = s.old /\ s1.new = s.new /\ s1.rivals = s.rivals
    BY <1>1 DEF Work
  <2>. HIDE DEF s1
  <2>3. /\ Passed(s1) = Passed(s) /\ (SetsKeys(s1) <=> SetsKeys(s))
        /\ (Clash(s1) <=> Clash(s)) /\ (Writes(s1) <=> Writes(s))
    BY <1>1, <2>2 DEF Passed, SetsKeys, Clash, Writes
  <2>4. WorkOK(s1)
    BY <1>1, <1>3, <2>2, <2>3 DEF WorkOK
  <2>5. \A q \in Busy \ {r} : Apart(s1, session[q])
    BY <1>1, <2>2, <2>3 DEF Apart, WaitsFor
  <2>6. answer' = [answer EXCEPT ![r] = "none"]
    BY <1>1, <2>1
  <2>. QED
    BY <1>1, <2>1, <2>2, <2>4, <2>5, <2>6, SlotStep
<1>. QED
  BY <1>2, <1>3

(* What a commit does to the rows: one is added, or one changed in the     *)
(* columns that were set.                                                  *)
LEMMA CommitRows ==
  ASSUME IInv, NEW r \in Requests, commit(r)
  PROVE  LET s == session[r]
         IN  /\ DOMAIN row' = DOMAIN row \cup {s.id} /\ s.id \in Ids
             /\ \A i \in DOMAIN row \ {s.id} : row'[i] = row[i]
             /\ row'[s.id] \in Row /\ row'[s.id].table = s.new.table
             /\ SetsKeys(s) => row'[s.id].keys = s.new.keys
             /\ ~SetsKeys(s) => /\ s.id \in DOMAIN row /\ row'[s.id].keys = row[s.id].keys
                                /\ row[s.id].table = s.new.table
             /\ s.id \in DOMAIN row /\ ~row[s.id].is_active => ~row'[s.id].is_active
<1>. DEFINE s == session[r]
<1>1. /\ s \in Work /\ WorkOK(s) /\ s.op \in {"create", "update"} /\ s.id \in Ids
      /\ s.new \in Row /\ s.old \in Row
      /\ row' = [i \in DOMAIN row \cup {s.id} |->
                   IF i = s.id /\ Writes(s) THEN RowAfter(s) ELSE row[i]]
  BY BusyWork DEF commit, IInv, Inv, Work
<1>2. CASE s.op = "create"
  <2>1. Writes(s) /\ SetsKeys(s) /\ s.id \notin DOMAIN row
    BY <1>1, <1>2 DEF Writes, SetsKeys, WorkOK
  <2>2. row'[s.id] = s.new
    BY <1>1, <1>2, <2>1 DEF RowAfter
  <2>. QED
    BY <1>1, <2>1, <2>2
<1>3. CASE s.op = "update"
  <2>1. /\ s.id \in DOMAIN row /\ row[s.id] \in Row /\ s.old.is_active
        /\ row[s.id].table = s.new.table
    BY <1>1, <1>3 DEF WorkOK, IInv, Inv, TypeOK
  <2>2. CASE ~Writes(s)
    <3>1. row'[s.id] = row[s.id] /\ ~SetsKeys(s)
      BY <1>1, <1>3, <2>2 DEF Writes, SetsKeys
    <3>. QED
      BY <1>1, <2>1, <3>1
  <2>3. CASE Writes(s)
    <3>. DEFINE keys == IF SetsKeys(s) THEN s.new.keys ELSE row[s.id].keys
                a == IF s.new.is_active = s.old.is_active THEN row[s.id].is_active
                     ELSE s.new.is_active
    <3>1. row'[s.id] = [row[s.id] EXCEPT !.keys = keys, !.is_active = a]
      BY <1>1, <1>3, <2>3 DEF RowAfter
    <3>2. keys \in Keys(row[s.id].table) /\ a \in BOOLEAN
      BY <1>1, <2>1, RowFields
    <3>3. ~row[s.id].is_active => ~a
      BY <1>1, <2>1, RowFields
    <3>. DEFINE x == row[s.id]
                y == row'[s.id]
    <3>4. x \in Row /\ keys \in Keys(x.table) /\ a \in BOOLEAN
          /\ y = [x EXCEPT !.keys = keys, !.is_active = a]
      BY <2>1, <3>1, <3>2
    <3>. HIDE DEF keys, a, x, y
    <3>5. y \in Row /\ y.table = x.table /\ y.keys = keys /\ y.is_active = a
      <4>1. PICK t \in Tables : x \in [table: {t}, keys: Keys(t), is_active: BOOLEAN]
        BY <3>4 DEF Row
      <4>2. x.table = t
        BY <4>1
      <4>3. y \in [table: {t}, keys: Keys(t), is_active: BOOLEAN]
        BY <3>4, <4>1, <4>2
      <4>4. y.table = x.table /\ y.keys = keys /\ y.is_active = a
        BY <3>4, <4>1
      <4>. QED
        BY <4>3, <4>4 DEF Row
    <3>. USE DEF x, y
    <3>. QED
      BY <1>1, <2>1, <3>3, <3>5 DEF keys
  <2>. QED
    BY <2>2, <2>3
<1>. QED
  BY <1>1, <1>2, <1>3

(* A commit keeps the invariant.  The row it leaves is a rival of every    *)
(* other request in flight; it has no value of another row, nor of what is *)
(* sent but not committed.                                                 *)
LEMMA CommitInv ==
  ASSUME IInv, NEW r \in Requests, commit(r)
  PROVE  IInv'
<1>. DEFINE s == session[r]
            x == row'[s.id]
<1>1. /\ r \in Busy /\ s \in Work /\ WorkOK(s) /\ s.pc = "flushed" /\ s.id \in Ids
      /\ s.op \in {"create", "update"}
      /\ s.id \in DOMAIN row => row[s.id].table = s.new.table
      /\ \A q \in Busy \ {r} : Apart(s, session[q])
  BY BusyWork DEF commit, IInv, Inv, WorkOK, Work
<1>2. /\ DOMAIN row' = DOMAIN row \cup {s.id}
      /\ \A i \in DOMAIN row \ {s.id} : row'[i] = row[i]
      /\ x \in Row /\ x.table = s.new.table
      /\ SetsKeys(s) => x.keys = s.new.keys
      /\ ~SetsKeys(s) => s.id \in DOMAIN row /\ x.keys = row[s.id].keys
  BY CommitRows
<1>3. /\ DOMAIN row \subseteq Ids /\ \A i \in DOMAIN row : row[i] \in Row
      /\ ValuesAreUnique /\ TypeOK
  BY DEF IInv, Inv, TypeOK
<1>4. /\ session' = [q \in Requests |->
           IF q = r \/ q \notin Busy THEN Idle
           ELSE [session[q] EXCEPT !.rivals = session[q].rivals \cup {s.id}]]
      /\ answer' = [answer EXCEPT ![r] = "ok"]
      /\ row' = [i \in DOMAIN row \cup {s.id} |->
                   IF i = s.id /\ Writes(s) THEN RowAfter(s) ELSE row[i]]
  BY DEF commit
<1>5. ASSUME NEW q \in Busy \ {r}
      PROVE  /\ session'[q] \in Work
             /\ session'[q].pc = session[q].pc /\ session'[q].op = session[q].op
             /\ session'[q].id = session[q].id /\ session'[q].old = session[q].old
             /\ session'[q].new = session[q].new
             /\ session'[q].rivals = session[q].rivals \cup {s.id}
             /\ session[q] \in Work /\ WorkOK(session[q]) /\ answer'[q] = "none"
             /\ Apart(s, session[q])
  <2>. DEFINE w == session[q]
              w1 == session'[q]
              j == s.id
  <2>1. w \in Work /\ WorkOK(w) /\ Apart(s, w) /\ answer[q] = "none" /\ q \in Requests
    BY <1>1, BusyWork DEF IInv, Inv
  <2>2. w1 = [w EXCEPT !.rivals = w.rivals \cup {j}] /\ j \in Ids
    BY <1>1, <1>4, <2>1
  <2>3. answer'[q] = "none"
    BY <1>3, <1>4, <2>1 DEF TypeOK
  <2>. HIDE DEF w, w1, j
  <2>4. /\ w1 \in Work /\ w1.pc = w.pc /\ w1.op = w.op /\ w1.id = w.id
        /\ w1.old = w.old /\ w1.new = w.new /\ w1.rivals = w.rivals \cup {j}
    BY <2>1, <2>2 DEF Work
  <2>. QED
    BY <2>1, <2>3, <2>4 DEF w, w1, j
<1>6. Busy' \subseteq Busy \ {r} /\ \A q \in Requests \ (Busy \ {r}) : session'[q] = Idle
  BY <1>4 DEF Busy
<1>7. TypeOK'
  <2>1. DOMAIN row' \subseteq Ids /\ row' \in [DOMAIN row' -> Row]
    <3>1. \A i \in DOMAIN row' : row'[i] \in Row
      BY <1>2, <1>3
    <3>. QED
      BY <1>1, <1>2, <1>3, <1>4, <3>1
  <2>2. session' \in [Requests -> Work \cup {Idle}]
    <3>1. \A q \in Requests : session'[q] \in Work \cup {Idle}
      BY <1>5, <1>6
    <3>. QED
      BY <1>4, <3>1
  <2>3. answer' \in [Requests -> {"none", "ok", "conflict", "error"}]
    BY <1>3, <1>4 DEF TypeOK
  <2>. QED
    BY <2>1, <2>2, <2>3 DEF TypeOK
<1>8. ASSUME NEW i \in DOMAIN row \ {s.id}, NEW k \in Column,
             k \in DOMAIN row[i].keys, row[i].table = x.table
      PROVE  row[i].keys[k] # x.keys[k]
  <2>1. k \in Unique(s.new.table)
    BY <1>2, <1>3, <1>8, RowFields
  <2>2. CASE SetsKeys(s)
    BY <1>1, <1>2, <1>8, <2>1, <2>2 DEF WorkOK, Clash, Agree
  <2>3. CASE ~SetsKeys(s)
    BY <1>1, <1>2, <1>3, <1>8, <2>3 DEF ValuesAreUnique
  <2>. QED
    BY <2>2, <2>3
<1>9. ValuesAreUnique'
  <2>1. ASSUME NEW i \in DOMAIN row', NEW j \in DOMAIN row', i # j, NEW k \in Column,
               k \in DOMAIN row'[i].keys, row'[i].table = row'[j].table
        PROVE  row'[i].keys[k] # row'[j].keys[k]
    <3>1. CASE i # s.id /\ j # s.id
      BY <1>2, <1>3, <2>1, <3>1 DEF ValuesAreUnique
    <3>2. CASE j = s.id
      BY <1>2, <1>8, <2>1, <3>2
    <3>3. CASE i = s.id
      <4>1. row'[j] = row[j] /\ row[j] \in Row /\ j \in DOMAIN row \ {s.id}
        BY <1>2, <1>3, <2>1, <3>3
      <4>2. k \in DOMAIN row[j].keys
        BY <1>2, <2>1, <3>3, <4>1, RowFields
      <4>. QED
        BY <1>8, <2>1, <3>3, <4>1, <4>2
    <3>. QED
      BY <3>1, <3>2, <3>3
  <2>. QED
    BY <2>1 DEF ValuesAreUnique
<1>10. (\A q \in Busy : answer[q] = "none" /\ WorkOK(session[q]))'
  <2>. SUFFICES ASSUME NEW q \in Busy'
                PROVE  answer'[q] = "none" /\ WorkOK(session[q])'
    OBVIOUS
  <2>. DEFINE p == session[q]
  <2>1. q \in Busy \ {r} /\ p \in Work /\ WorkOK(p) /\ Apart(s, p)
    BY <1>5, <1>6
  <2>2. /\ p'.pc = p.pc /\ p'.op = p.op /\ p'.id = p.id /\ p'.old = p.old /\ p'.new = p.new
        /\ p'.rivals = p.rivals \cup {s.id}
        /\ answer'[q] = "none"
    BY <1>5, <2>1
  <2>3. ASSUME p.op = "create"
        PROVE  /\ p'.new = p'.old /\ p'.id \notin DOMAIN row'
               /\ \A i \in DOMAIN row' \ p'.rivals : ~Agree(row'[i], p'.new, Passed(p)')
    <3>1. p.id # s.id
      BY <2>1, <2>3 DEF Apart
    <3>2. Passed(p)' = Passed(p)
      <4>1. p'.n = p.n
        BY <1>4, <2>1, BusyWork DEF Work, IInv, Inv
      <4>. QED
        BY <2>2, <4>1 DEF Passed
    <3>3. /\ p.new = p.old /\ p.id \notin DOMAIN row
          /\ \A i \in DOMAIN row \ p.rivals : ~Agree(row[i], p.new, Passed(p))
      BY <2>1, <2>3 DEF WorkOK
    <3>. QED
      BY <1>2, <2>2, <3>1, <3>2, <3>3
  <2>4. ASSUME p.op = "update"
        PROVE  /\ p'.pc # "check" /\ p'.old.is_active
               /\ p'.id \in DOMAIN row' /\ row'[p'.id].table = p'.new.table
    <3>1. /\ p.pc # "check" /\ p.old.is_active
          /\ p.id \in DOMAIN row /\ row[p.id].table = p.new.table
      BY <2>1, <2>4 DEF WorkOK
    <3>. QED
      BY <1>1, <1>2, <2>2, <3>1
  <2>5. ASSUME p.pc = "flushed", SetsKeys(p), NEW i \in DOMAIN row' \ {p.id}
        PROVE  ~Agree(row'[i], p.new, Unique(p.new.table))
    <3>1. \A j \in DOMAIN row \ {p.id} : ~Agree(row[j], p.new, Unique(p.new.table))
      BY <2>1, <2>5 DEF WorkOK, Clash
    <3>2. CASE i # s.id
      BY <1>2, <2>5, <3>1, <3>2
    <3>3. CASE i = s.id /\ SetsKeys(s)
      <4>1. Writes(s) /\ Writes(p)
        BY <2>5, <3>3 DEF Writes, SetsKeys
      <4>2. ~Agree(s.new, p.new, Unique(s.new.table))
        BY <1>1, <2>1, <2>5, <3>3, <4>1 DEF Apart
      <4>. QED
        BY <1>2, <3>3, <4>2 DEF Agree
    <3>4. CASE i = s.id /\ ~SetsKeys(s)
      BY <1>1, <1>2, <2>5, <3>1, <3>4 DEF Agree
    <3>. QED
      BY <3>2, <3>3, <3>4
  <2>6. SetsKeys(p)' <=> SetsKeys(p)
    BY <2>2 DEF SetsKeys
  <2>7. (p.pc = "flushed" /\ SetsKeys(p) => ~Clash(p))'
    BY <2>2, <2>5, <2>6 DEF Clash
  <2>8. (p.op = "create" =>
           /\ p.new = p.old /\ p.id \notin DOMAIN row
           /\ \A i \in DOMAIN row \ p.rivals : ~Agree(row[i], p.new, Passed(p)))'
    BY <2>2, <2>3 DEF Agree
  <2>9. (p.op = "update" =>
           /\ p.pc # "check" /\ p.old.is_active
           /\ p.id \in DOMAIN row /\ row[p.id].table = p.new.table)'
    BY <2>2, <2>4
  <2>. QED
    BY <2>2, <2>7, <2>8, <2>9 DEF WorkOK
<1>11. (\A q, p \in Busy : q # p => Apart(session[q], session[p]))'
  <2>. SUFFICES ASSUME NEW q \in Busy', NEW p \in Busy', q # p
                PROVE  Apart(session[q], session[p])'
    OBVIOUS
  <2>1. Apart(session[q], session[p]) /\ q \in Busy \ {r} /\ p \in Busy \ {r}
    BY <1>6 DEF IInv
  <2>. QED
    BY <1>5, <2>1 DEF Apart, Agree, SetsKeys, Writes
<1>. QED
  BY <1>7, <1>9, <1>10, <1>11 DEF IInv, Inv

-----------------------------------------------------------------------------
(* Every step keeps the invariant.                                         *)
LEMMA NextInv == IInv /\ [Next]_vars => IInv'
<1>. SUFFICES ASSUME IInv, [Next]_vars PROVE IInv'
  OBVIOUS
<1>1. CASE UNCHANGED vars
  BY <1>1 DEF vars, IInv, Inv, TypeOK, ValuesAreUnique, Busy, WorkOK, Apart, Clash, Agree,
              SetsKeys, Writes, Passed
<1>2. ASSUME NEW r \in Requests, Handler(r)
      PROVE  IInv'
  BY <1>2, HandlerInv
<1>3. ASSUME NEW r \in Requests, check(r)
      PROVE  IInv'
  BY <1>3, CheckInv
<1>4. ASSUME NEW r \in Requests, flush(r)
      PROVE  IInv'
  BY <1>4, FlushInv
<1>5. ASSUME NEW r \in Requests, commit(r)
      PROVE  IInv'
  BY <1>5, CommitInv
<1>6. ASSUME NEW r \in Requests, rollback(r)
      PROVE  IInv'
  BY <1>6, EndInv DEF rollback
<1>. QED
  BY <1>1, <1>2, <1>3, <1>4, <1>5, <1>6 DEF Next, Quiet

(* The inductive invariant holds whatever the requests in flight do.       *)
THEOREM Invariance == Spec => []IInv
  BY InitInv, NextInv, PTL DEF Spec

(* However creations and renames overlap, no two rows of a table share a   *)
(* unique value.                                                           *)
THEOREM ValuesAreUniqueCorrect == Spec => []ValuesAreUnique
<1>1. IInv => ValuesAreUnique
  BY DEF IInv, Inv
<1>. QED
  BY <1>1, Invariance, PTL

-----------------------------------------------------------------------------
(* What a step may never do                                                *)

(* A 500 instead of a 409 has a rival as its cause: only the flush of the  *)
(* creation itself answers so, and the row it clashes with is one its      *)
(* SELECTs did not find.                                                   *)
LEMMA LateErrorStep ==
  ASSUME IInv, Next, NEW r \in Busy,
         session[r].pc = "ready", session[r].op = "create", answer'[r] = "error"
  PROVE  \E i \in session[r].rivals :
           Agree(row[i], session[r].new, Unique(row[i].table))
<1>. DEFINE s == session[r]
<1>1. /\ r \in Requests /\ s # Idle /\ s \in Work /\ WorkOK(s) /\ answer[r] = "none"
      /\ answer \in [Requests -> {"none", "ok", "conflict", "error"}]
  BY BusyWork DEF IInv, Inv, TypeOK
<1>2. ASSUME NEW q \in Requests, NEW a, q # r \/ a # "error",
             answer' = [answer EXCEPT ![q] = a]
      PROVE  FALSE
  BY <1>1, <1>2
<1>3. ASSUME NEW q \in Requests, Handler(q)
      PROVE  FALSE
  BY <1>2, <1>3 DEF Handler, create, soft_delete, update_department, Open
<1>4. ASSUME NEW q \in Requests, check(q)
      PROVE  FALSE
  <2>1. q # r
    BY <1>4 DEF check
  <2>. QED
    BY <1>1, <1>2, <1>4, <2>1 DEF check, End
<1>5. ASSUME NEW q \in Requests, commit(q)
      PROVE  FALSE
  BY <1>2, <1>5 DEF commit
<1>6. ASSUME NEW q \in Requests, rollback(q)
      PROVE  FALSE
  BY <1>2, <1>6 DEF rollback, End
<1>7. ASSUME NEW q \in Requests, flush(q)
      PROVE  q = r /\ Clash(s)
  BY <1>1, <1>2, <1>7 DEF flush, End
<1>8. Clash(s)
  BY <1>1, <1>3, <1>4, <1>5, <1>6, <1>7 DEF Next, Quiet, vars
<1>9. PICK i \in DOMAIN row \ {s.id} : Agree(row[i], s.new, Unique(s.new.table))
  BY <1>8 DEF Clash
<1>10. i \in s.rivals
  BY <1>1, <1>9 DEF WorkOK, Passed
<1>11. row[i].table = s.new.table
  BY <1>9 DEF Agree
<1>. QED
  BY <1>9, <1>10, <1>11

(* A creation that got past its checks fails on a unique index only        *)
(* because another request has committed such a row meanwhile.             *)
THEOREM LateErrorNeedsARivalCorrect == Spec => LateErrorNeedsARival
<1>1. IInv /\ [Next]_vars =>
        [ \A r \in Busy :
            session[r].pc = "ready" /\ session[r].op = "create" /\ answer'[r] = "error"
              => \E i \in session[r].rivals :
                   Agree(row[i], session[r].new, Unique(row[i].table)) ]_vars
  BY LateErrorStep
<1>. QED
  BY <1>1, Invariance, PTL DEF Spec, LateErrorNeedsARival

(* A commit writes the columns it changed only; nothing else writes rows.  *)
LEMMA DeactivationStep ==
  ASSUME IInv, Next, NEW i \in DOMAIN row
  PROVE  i \in DOMAIN row' /\ (~row[i].is_active => ~row'[i].is_active)
<1>1. ASSUME NEW r \in Requests, commit(r)
      PROVE  i \in DOMAIN row' /\ (~row[i].is_active => ~row'[i].is_active)
  BY <1>1, CommitRows
<1>2. ASSUME NEW r \in Requests, ~commit(r), Handler(r) \/ check(r) \/ flush(r) \/ rollback(r)
      PROVE  UNCHANGED row
  BY <1>2 DEF Handler, create, soft_delete, update_department, Open, check, flush, rollback, End
<1>. QED
  BY <1>1, <1>2 DEF Next, Quiet, vars

(* A deactivated department or profile stays deactivated, and in place.    *)
THEOREM DeactivationIsFinalCorrect == Spec => DeactivationIsFinal
<1>1. IInv /\ [Next]_vars =>
        [ \A i \in DOMAIN row : i \in DOMAIN row' /\
            (~row[i].is_active => ~row'[i].is_active) ]_vars
  BY DeactivationStep
<1>. QED
  BY <1>1, Invariance, PTL DEF Spec, DeactivationIsFinal
=============================================================================
