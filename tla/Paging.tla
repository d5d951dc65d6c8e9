------------------------------- MODULE Paging -------------------------------
(***************************************************************************)
(* A client reads a list page by page while the tables change.  Every page *)
(* is a request of its own: it loads the reader, then SELECTs the count,   *)
(* then SELECTs the rows with ORDER BY, OFFSET and LIMIT; under READ       *)
(* COMMITTED each SELECT sees what is committed by then.  The client goes  *)
(* on while its page is below the total_pages it was last told.            *)
(***************************************************************************)
EXTENDS TaskQueries

CONSTANTS
  Queries,      \* what the client may ask for
  MaxCommits    \* bound on the commits during a behaviour

Query == [op: {"list_tasks", "get_employee_tasks", "list_employees",
               "get_department_employees"},
          reader: Users, filters: [status: TaskStatus \cup {Null},
                                   assigned_to: Employees \cup {Null},
                                   department_id: Departments \cup {Null}],
          sort_by: {"created_at", "due_date"}, sort_order: {"asc", "desc"},
          page_size: Nat \ {0}]

ASSUME QueriesAssumption == Queries \subseteq Query /\ MaxCommits \in Nat

VARIABLES
  walk,         \* the request in flight and what the client has been told
  hist,         \* history: what happened to the list meanwhile
  commits       \* number of commits so far

vars == <<task, employee, walk, hist, commits>>

Item == Tasks \cup Employees

(*   gated    the reader is loaded, with the department of its profile     *)
(*   counted  total is known                                               *)
(*   between  a page is answered, there are more                           *)
(*   done     the last page is answered                                    *)
(* seen: how often each item has been on a page.                           *)
Walk == [pc: {"gated", "counted", "between", "done"}, q: Queries, page: Nat \ {0},
         dept: Departments \cup {Null}, total: Nat, total_pages: Nat \ {0},
         seen: [Item -> Nat]]

Idle == [pc |-> "idle"]

(* always: items listed since the walk began; left: one has left the list  *)
(* or moved in it; came: one has come; late: one has come since the last   *)
(* count.                                                                  *)
History == [always: SUBSET Item, left: BOOLEAN, came: BOOLEAN, late: BOOLEAN]

TypeOK ==
  /\ TablesOK
  /\ walk \in Walk \cup {Idle}
  /\ hist \in History
  /\ commits \in 0..MaxCommits

-----------------------------------------------------------------------------
(* The rows of a query and their order                                     *)

Listing ==
  IF walk = Idle THEN {}
  ELSE LET q == walk.q
       IN  CASE q.op = "list_tasks" -> list_tasks(q.reader, walk.dept, q.filters)
             [] q.op = "get_employee_tasks" -> get_employee_tasks(q.filters.assigned_to)
             [] q.op = "list_employees" -> list_employees(q.reader, walk.dept)
             [] q.op = "get_department_employees" ->
                  get_department_employees(q.filters.department_id)

(* The sort column.  get_department_employees has no ORDER BY.             *)
SortKey(x) ==
  LET q == walk.q
  IN  CASE q.op = "list_tasks" /\ q.sort_by = "due_date" -> task[x].due_date
        [] q.op = "list_employees" -> employee[x].full_name
        [] q.op = "get_department_employees" -> Null
        [] OTHER -> x

(* PostgreSQL takes NULL for larger than every value.                      *)
Smaller(a, b) == a # Null /\ (b = Null \/ a < b)

(* x is before y in every answer; rows with equal keys come in any order.  *)
Before(x, y) ==
  IF walk.q.op \in {"list_employees", "get_department_employees"} \/ walk.q.sort_order = "asc"
  THEN Smaller(SortKey(x), SortKey(y))
  ELSE Smaller(SortKey(y), SortKey(x))

Lesser(a, b) == IF a < b THEN a ELSE b

(* Variant: OFFSET page * page_size.                                       *)
Offset_next(page, size) == page * size

Offset(page, size) == (page - 1) * size

(* The pages a SELECT may return: skipped come before them, rest after.    *)
Pages(S, offset, limit) ==
  {P \in SUBSET S :
     \E skipped \in SUBSET (S \ P) :
       LET rest == (S \ P) \ skipped
       IN  /\ Cardinality(skipped) = Lesser(offset, Cardinality(S))
           /\ Cardinality(P) = Lesser(limit, Cardinality(S) - Cardinality(skipped))
           /\ \A x \in S \ skipped, y \in skipped : ~Before(x, y)
           /\ \A x \in rest, y \in P : ~Before(x, y)}

(* Variant: no floor of one page.                                          *)
TotalPages_bare(total, size) == (total + size - 1) \div size

(* Variant: integer division instead of ceil.                              *)
TotalPages_floor(total, size) == IF total < size THEN 1 ELSE total \div size

(* math.ceil(total / page_size) if total else 1                            *)
TotalPages(total, size) == IF total = 0 THEN 1 ELSE (total + size - 1) \div size

-----------------------------------------------------------------------------
(* One page                                                                *)

(* What the step does to the list under the client's eyes.                 *)
Noted ==
  LET came == ~(Listing' \subseteq Listing)
  IN  [always |-> hist.always \cap Listing',
       left |-> hist.left \/ \E x \in Listing :
                                x \notin Listing' \/ SortKey(x)' # SortKey(x),
       came |-> hist.came \/ came,
       late |-> hist.late \/ came]

(* get_current_user and the role gate; get_employee_tasks also loads the   *)
(* employee and answers 404 if it is not active.                           *)
MayAsk(q) ==
  /\ q.op \in {"get_employee_tasks", "list_employees"} => RoleOf[q.reader] # "EMPLOYEE"
  /\ q.op = "get_employee_tasks" => employee[q.filters.assigned_to].is_active

first_page(q) ==
  /\ walk = Idle
  /\ UNCHANGED <<task, employee, commits>>
  /\ MayAsk(q)
  /\ walk' = [pc |-> "gated", q |-> q, page |-> 1, dept |-> DepartmentOf(q.reader),
              total |-> 0, total_pages |-> 1, seen |-> [x \in Item |-> 0]]
  /\ hist' = [always |-> Listing', left |-> FALSE, came |-> FALSE, late |-> FALSE]

next_page ==
  /\ walk # Idle
  /\ walk.pc = "between"
  /\ UNCHANGED <<task, employee, commits>>
  /\ MayAsk(walk.q)
  /\ walk' = [walk EXCEPT !.pc = "gated", !.page = @ + 1, !.dept = DepartmentOf(walk.q.reader)]
  /\ hist' = Noted

select_count ==
  /\ walk # Idle
  /\ walk.pc = "gated"
  /\ walk' = [walk EXCEPT !.pc = "counted", !.total = Cardinality(Listing),
                          !.total_pages = TotalPages(Cardinality(Listing), walk.q.page_size)]
  /\ hist' = [hist EXCEPT !.late = FALSE]
  /\ UNCHANGED <<task, employee, commits>>

select_page ==
  /\ walk # Idle
  /\ walk.pc = "counted"
  /\ \E P \in Pages(Listing, Offset(walk.page, walk.q.page_size), walk.q.page_size) :
       walk' = [walk EXCEPT !.pc = IF walk.page < walk.total_pages THEN "between" ELSE "done",
                            !.seen = [x \in Item |-> IF x \in P THEN @[x] + 1 ELSE @[x]]]
  /\ UNCHANGED <<task, employee, hist, commits>>

(* Another request commits.                                                *)
others ==
  /\ commits < MaxCommits
  /\ Commit
  /\ commits' = commits + 1
  /\ UNCHANGED walk
  /\ hist' = Noted

Init ==
  /\ task \in Tables
  /\ employee \in Staff
  /\ walk = Idle
  /\ hist = [always |-> {}, left |-> FALSE, came |-> FALSE, late |-> FALSE]
  /\ commits = 0

Next ==
  \/ \E q \in Queries : first_page(q)
  \/ next_page \/ select_count \/ select_page
  \/ others

Spec == Init /\ [][Next]_vars

-----------------------------------------------------------------------------
(* Properties                                                              *)

Finished == walk # Idle /\ walk.pc = "done"

Seen == {x \in Item : walk.seen[x] > 0}

(* No two listed items share their value in the sort column.               *)
KeysDiffer == \A x, y \in Listing : x # y => Before(x, y) \/ Before(y, x)

(* OFFSET paging slips when the list changes.  What holds: while items are *)
(* added, even in front of or between those already read, a client that    *)
(* reads to the last page misses none that was there all the time; unless  *)
(* an item leaves or moves, an item arrives between the count and the rows *)
(* of the last page, or the sort column has ties.                          *)
NothingMissed ==
  Finished /\ ~hist.left /\ ~hist.late /\ KeysDiffer => hist.always \subseteq Seen

(* A list left alone is told right: the pages together have as many items  *)
(* as the total says, and each item once when the sort column has no ties. *)
UndisturbedWalkIsExact ==
  Finished /\ ~hist.left /\ ~hist.came =>
    /\ walk.total = Cardinality(Listing)
    /\ walk.total = SumOf(walk.seen)
    /\ KeysDiffer => \A x \in Listing : walk.seen[x] = 1

-----------------------------------------------------------------------------
(* The inductive invariant behind NothingMissed                            *)

(* How many items of the list come before x.                               *)
Rank(x) == Cardinality({y \in Listing : Before(y, x)})

(* The number of pages the client has.                                     *)
Answered == IF walk.pc \in {"between", "done"} THEN walk.page ELSE walk.page - 1

(* An item that was there all the time and is on no page so far is on none *)
(* of the pages answered: arrivals only push it further back.  A list to   *)
(* which nothing came since the count is no longer than the count.  And of *)
(* a list left alone the pages answered are exactly its first items.       *)
WalkOK ==
  /\ hist.always \subseteq Listing
  /\ ~hist.left /\ KeysDiffer =>
       \A x \in hist.always \ Seen : Rank(x) >= Answered * walk.q.page_size
  /\ walk.pc # "gated" =>
       /\ walk.total_pages = TotalPages(walk.total, walk.q.page_size)
       /\ ~hist.late => Cardinality(Listing) <= walk.total
  /\ walk.pc = "done" => walk.page >= walk.total_pages
  /\ ~hist.left /\ ~hist.came =>
       /\ walk.pc # "gated" => walk.total = Cardinality(Listing)
       /\ SumOf(walk.seen) = Lesser(Answered * walk.q.page_size, Cardinality(Listing))
       /\ KeysDiffer => \A x \in Listing :
            walk.seen[x] = IF Rank(x) < Answered * walk.q.page_size THEN 1 ELSE 0

(* TLC checks that it holds in every reachable state; PagingProofs that    *)
(* every step preserves it.                                                *)
IInv == TypeOK /\ (walk # Idle => WalkOK)
=============================================================================
