---------------------------- MODULE PagingProofs -----------------------------
(***************************************************************************)
(* Proofs about Paging and TaskQueries, for every table, list, page size   *)
(* and number of commits.                                                  *)
(***************************************************************************)
EXTENDS Paging, FiniteSetTheorems, TLAPS

(* The pages of math.ceil hold all items.                                  *)
LEMMA PagesSuffice ==
  ASSUME NEW total \in Nat, NEW size \in Nat \ {0}
  PROVE  /\ TotalPages(total, size) \in Nat \ {0}
         /\ total <= TotalPages(total, size) * size
<1>1. CASE total = 0
  BY <1>1 DEF TotalPages
<1>2. CASE total # 0
  <2>. DEFINE n == total + size - 1
              k == n \div size
  <2>1. n \in Nat
    BY <1>2
  <2>2. k \in Int /\ n < k * size + size
    BY <2>1
  <2>. HIDE DEF k
  <2>3. total <= k * size
    BY <2>2
  <2>4. k >= 1
    BY <1>2, <2>2, <2>3
  <2>. QED
    BY <1>2, <2>2, <2>3, <2>4 DEF TotalPages, k
<1>. QED
  BY <1>1, <1>2

(* Items are finitely many.                                                *)
LEMMA ItemsFinite == IsFiniteSet(Item)
  BY DomainsAssumption, FS_Union DEF Item

(* Whatever a list holds, it is finite, and no item comes before itself.   *)
LEMMA ListTypes ==
  TypeOK => /\ Listing \subseteq Item /\ IsFiniteSet(Listing)
            /\ \A x \in Listing : ~Before(x, x)
<1>. SUFFICES ASSUME TypeOK
              PROVE  /\ Listing \subseteq Item /\ IsFiniteSet(Listing)
                     /\ \A x \in Listing : ~Before(x, x)
  OBVIOUS
<1>1. IsFiniteSet(Item)
  BY ItemsFinite
<1>2. CASE walk = Idle
  BY <1>2, FS_EmptySet DEF Listing
<1>3. CASE walk # Idle
  <2>. DEFINE q == walk.q
  <2>1. walk \in Walk
    BY <1>3 DEF TypeOK
  <2>1a. q \in Query
    BY <2>1, QueriesAssumption DEF Walk
  <2>2. \A x : Smaller(x, x) => ~(x \in Nat)
    BY DEF Smaller
  <2>3. CASE q.op \in {"list_tasks", "get_employee_tasks"}
    <3>1. Listing \subseteq DOMAIN task
      BY <1>3, <2>3 DEF Listing, list_tasks, get_employee_tasks, Undeleted
    <3>2. \A x \in Listing : SortKey(x) \in Nat \cup {Null}
      BY <2>3, <3>1, DomainsAssumption DEF SortKey, TypeOK, TablesOK, Row
    <3>. QED
      BY <1>1, <2>2, <3>1, <3>2, FS_Subset DEF Before, Smaller, TypeOK, TablesOK, Item
  <2>4. CASE q.op \in {"list_employees", "get_department_employees"}
    <3>1. Listing \subseteq Employees
      BY <1>3, <2>4 DEF Listing, list_employees, get_department_employees
    <3>2. \A x \in Listing : SortKey(x) \in Nat \cup {Null}
      BY <2>4, <3>1, DomainsAssumption DEF SortKey, TypeOK, TablesOK, Profile
    <3>. QED
      BY <1>1, <2>2, <3>1, <3>2, FS_Subset DEF Before, Smaller, Item
  <2>. QED
    BY <2>1a, <2>3, <2>4 DEF Query
<1>. QED
  BY <1>2, <1>3

-----------------------------------------------------------------------------
(* Sums                                                                    *)

(* A sum over finitely many arguments counts a finite set.                 *)
LEMMA UnitsFinite ==
  ASSUME NEW S, IsFiniteSet(S), NEW f \in [S -> Nat]
  PROVE  IsFiniteSet(Units(f)) /\ SumOf(f) \in Nat
<1>. DEFINE of == [x \in S |-> {x} \X (1..f[x])]
            all == {of[x] : x \in S}
<1>1. of \in Surjection(S, all)
  BY DEF Surjection
<1>2. IsFiniteSet(all)
  BY <1>1, FS_Surjection
<1>3. ASSUME NEW x \in S
      PROVE  IsFiniteSet(of[x])
  <2>1. 1 \in Int /\ f[x] \in Int
    OBVIOUS
  <2>2. IsFiniteSet({x}) /\ IsFiniteSet(1..f[x])
    BY <2>1, FS_Singleton, FS_Interval
  <2>3. IsFiniteSet({x} \X (1..f[x]))
    BY <2>2, FS_Product
  <2>. QED
    BY <2>3
<1>4. Units(f) = UNION all
  BY DEF Units
<1>5. \A T \in all : IsFiniteSet(T)
  BY <1>3
<1>. HIDE DEF all
<1>. QED
  BY <1>2, <1>4, <1>5, FS_UNION, FS_CardinalityType DEF SumOf

(* The pairs a sum counts.                                                 *)
LEMMA UnitsAre ==
  ASSUME NEW S, NEW f \in [S -> Nat]
  PROVE  \A z : z \in Units(f) <=> \E x \in S : \E n \in 1..f[x] : z = <<x, n>>
  BY DEF Units

(* The sum of zeros.                                                       *)
LEMMA SumOfNone ==
  ASSUME NEW S
  PROVE  SumOf([x \in S |-> 0]) = 0
<1>1. Units([x \in S |-> 0]) = {}
  BY DEF Units
<1>. QED
  BY <1>1, FS_EmptySet DEF SumOf

(* One more for each argument in P.                                        *)
LEMMA SumAdds ==
  ASSUME NEW S, IsFiniteSet(S), NEW f \in [S -> Nat], NEW P \in SUBSET S
  PROVE  SumOf([x \in S |-> IF x \in P THEN f[x] + 1 ELSE f[x]]) = SumOf(f) + Cardinality(P)
<1>. DEFINE g == [x \in S |-> IF x \in P THEN f[x] + 1 ELSE f[x]]
            unit == [x \in P |-> <<x, f[x] + 1>>]
            new == {unit[x] : x \in P}
<1>1. g \in [S -> Nat]
  OBVIOUS
<1>2. Units(g) = Units(f) \cup new
  <2>1. \A z : z \in Units(f) <=> \E x \in S : \E n \in 1..f[x] : z = <<x, n>>
    BY UnitsAre
  <2>2. \A z : z \in Units(g) <=> \E x \in S : \E n \in 1..g[x] : z = <<x, n>>
    BY <1>1, UnitsAre
  <2>3. \A x \in P : \A n : n \in 1..g[x] <=> n \in 1..f[x] \/ n = f[x] + 1
    <3>1. \A k \in Nat : \A n : n \in 1..(k + 1) <=> n \in 1..k \/ n = k + 1
      OBVIOUS
    <3>2. \A x \in P : f[x] \in Nat /\ g[x] = f[x] + 1
      OBVIOUS
    <3>. QED
      BY <3>1, <3>2
  <2>4. \A x \in S \ P : g[x] = f[x]
    OBVIOUS
  <2>5. \A z : z \in new <=> \E x \in P : z = <<x, f[x] + 1>>
    OBVIOUS
  <2>. HIDE DEF g, new
  <2>6. ASSUME NEW z \in Units(g)
        PROVE  z \in Units(f) \cup new
    <3>1. PICK x, n : x \in S /\ n \in 1..g[x] /\ z = <<x, n>>
      BY <2>2, <2>6
    <3>. QED
      BY <2>1, <2>3, <2>4, <2>5, <3>1
  <2>7. ASSUME NEW z \in Units(f)
        PROVE  z \in Units(g)
    <3>1. PICK x, n : x \in S /\ n \in 1..f[x] /\ z = <<x, n>>
      BY <2>1, <2>7
    <3>. QED
      BY <2>2, <2>3, <2>4, <3>1
  <2>8. ASSUME NEW z \in new
        PROVE  z \in Units(g)
    <3>1. PICK x \in P : z = <<x, f[x] + 1>>
      BY <2>5, <2>8
    <3>. QED
      BY <2>2, <2>3, <3>1
  <2>. QED
    BY <2>6, <2>7, <2>8
<1>3. Units(f) \cap new = {}
  BY UnitsAre
<1>4. ExistsBijection(P, new)
  <2>1. unit \in Bijection(P, new)
    BY DEF Bijection, Injection, Surjection, IsInjective
  <2>. QED
    BY <2>1 DEF ExistsBijection
<1>5. IsFiniteSet(P) /\ IsFiniteSet(new) /\ Cardinality(new) = Cardinality(P)
  BY <1>4, FS_Subset, FS_Bijection
<1>. HIDE DEF new, g
<1>6. Cardinality(Units(f) \cup new) = SumOf(f) + Cardinality(P) - Cardinality({})
  BY <1>3, <1>5, UnitsFinite, FS_Union DEF SumOf
<1>7. SumOf(g) = SumOf(f) + Cardinality(P)
  BY <1>2, <1>5, <1>6, UnitsFinite, FS_EmptySet, FS_CardinalityType DEF SumOf
<1>. QED
  BY <1>7 DEF g

(* Rows counted by the value of a column: the counts of the values in S    *)
(* add up to all rows but those with another value.                        *)
LEMMA SumByColumn ==
  ASSUME NEW S, IsFiniteSet(S), NEW T, IsFiniteSet(T), NEW column
  PROVE  Cardinality(T) = Cardinality({t \in T : column[t] \notin S}) +
                          SumOf([d \in S |-> Cardinality({t \in T : column[t] = d})])
<1>. DEFINE group == [d \in S |-> {t \in T : column[t] = d}]
            f == [d \in S |-> Cardinality(group[d])]
            number == [d \in S |-> CHOOSE b : b \in Bijection(1..f[d], group[d])]
            within == {t \in T : column[t] \in S}
            rest == {t \in T : column[t] \notin S}
            nth == [z \in Units(f) |-> number[z[1]][z[2]]]
<1>1. ASSUME NEW d \in S
      PROVE  f[d] \in Nat /\ number[d] \in Bijection(1..f[d], group[d])
  <2>1. IsFiniteSet(group[d])
    BY FS_Subset, group[d] \in SUBSET T
  <2>2. f[d] \in Nat /\ ExistsBijection(1..f[d], group[d])
    BY <2>1, FS_CardinalityType
  <2>. HIDE DEF group, f
  <2>. QED
    BY <2>2 DEF ExistsBijection
<1>2. f \in [S -> Nat]
  BY <1>1
<1>3. \A d \in S : \A t : t \in group[d] <=> t \in T /\ column[t] = d
  OBVIOUS
<1>. HIDE DEF group, f, number
<1>4. \A z : z \in Units(f) <=> \E d \in S : \E n \in 1..f[d] : z = <<d, n>>
  BY <1>2, UnitsAre
<1>5. \A d \in S : \A n \in 1..f[d] : <<d, n>> \in Units(f) /\ nth[<<d, n>>] = number[d][n]
  BY <1>4
<1>6. \A d \in S : \A n \in 1..f[d] : number[d][n] \in T /\ column[number[d][n]] = d
  BY <1>1, <1>3 DEF Bijection, Injection
<1>7. nth \in Bijection(Units(f), within)
  <2>1. nth \in [Units(f) -> within]
    BY <1>4, <1>5, <1>6
  <2>2. ASSUME NEW y \in Units(f), NEW z \in Units(f), nth[y] = nth[z]
        PROVE  y = z
    <3>1. PICK d, n : d \in S /\ n \in 1..f[d] /\ y = <<d, n>>
      BY <1>4
    <3>2. PICK e, k : e \in S /\ k \in 1..f[e] /\ z = <<e, k>>
      BY <1>4
    <3>3. number[d][n] = number[e][k] /\ d = e
      BY <1>5, <1>6, <2>2, <3>1, <3>2
    <3>. QED
      BY <1>1, <3>1, <3>2, <3>3 DEF Bijection, Injection, IsInjective
  <2>3. ASSUME NEW t \in within
        PROVE  \E z \in Units(f) : nth[z] = t
    <3>1. PICK n \in 1..f[column[t]] : number[column[t]][n] = t
      BY <1>1, <1>3 DEF Bijection, Surjection
    <3>. QED
      BY <1>5, <3>1
  <2>. HIDE DEF nth, within
  <2>. QED
    BY <2>1, <2>2, <2>3 DEF Bijection, Injection, Surjection, IsInjective
<1>8. IsFiniteSet(within) /\ Cardinality(within) = SumOf(f)
  BY <1>2, <1>7, UnitsFinite, FS_Bijection DEF SumOf, ExistsBijection
<1>9. IsFiniteSet(rest) /\ Cardinality(rest) \in Nat
  BY FS_Subset, FS_CardinalityType
<1>10. T = rest \cup within /\ rest \cap within = {}
  OBVIOUS
<1>. HIDE DEF within, rest
<1>11. Cardinality(T) = Cardinality(rest) + Cardinality(within) - Cardinality({})
  BY <1>8, <1>9, <1>10, FS_Union
<1>12. Cardinality(T) = Cardinality(rest) + SumOf(f)
  BY <1>2, <1>8, <1>9, <1>11, UnitsFinite, FS_EmptySet
<1>. QED
  BY <1>12 DEF f, group, rest

-----------------------------------------------------------------------------
(* Types                                                                   *)

(* Every commit of the services keeps the tables' types.                   *)
LEMMA CommitTypes ==
  ASSUME TablesOK, Commit
  PROVE  TablesOK'
<1>1. ASSUME NEW t \in Tasks, NEW due \in Dates \cup {Null},
             \/ \E e \in Employees, d \in Departments \cup {Null} : create_task(t, e, d, due)
             \/ update_task(t, due)
      PROVE  TablesOK'
  <2>1. ASSUME NEW e \in Employees, NEW d \in Departments \cup {Null}, create_task(t, e, d, due)
        PROVE  TablesOK'
    BY <2>1 DEF create_task, TablesOK, Row, TaskStatus
  <2>2. CASE update_task(t, due)
    BY <2>2 DEF update_task, TablesOK, Row, Undeleted
  <2>. QED
    BY <1>1, <2>1, <2>2
<1>2. ASSUME NEW t \in Tasks, NEW s \in TaskStatus, update_task_status(t, s)
      PROVE  TablesOK'
  BY <1>2 DEF update_task_status, TablesOK, Row, Undeleted
<1>3. ASSUME NEW t \in Tasks, NEW e \in Employees, reassign_task(t, e)
      PROVE  TablesOK'
  BY <1>3 DEF reassign_task, TablesOK, Row, Undeleted
<1>4. ASSUME NEW t \in Tasks, delete_task(t)
      PROVE  TablesOK'
  <2>1. t \in DOMAIN task /\ task \in [DOMAIN task -> Row]
    BY <1>4 DEF delete_task, TablesOK, Undeleted
  <2>2. [task[t] EXCEPT !.is_deleted = TRUE] \in Row
    BY <2>1 DEF Row
  <2>3. task' = [task EXCEPT ![t] = [task[t] EXCEPT !.is_deleted = TRUE]] /\ employee' = employee
    BY <1>4 DEF delete_task
  <2>. QED
    BY <2>1, <2>2, <2>3 DEF TablesOK
<1>5. ASSUME NEW e \in Employees, NEW name \in Names, NEW d \in Departments,
             update_employee(e, name, d)
      PROVE  TablesOK'
  BY <1>5 DEF update_employee, TablesOK, Profile
<1>6. ASSUME NEW e \in Employees, delete_employee(e)
      PROVE  TablesOK'
  BY <1>6 DEF delete_employee, TablesOK, Profile
<1>. QED
  BY <1>1, <1>2, <1>3, <1>4, <1>5, <1>6 DEF Commit

(* The fields of a walk.                                                   *)
LEMMA WalkTypes ==
  ASSUME TypeOK, walk # Idle
  PROVE  /\ walk \in Walk /\ walk.q \in Queries /\ walk.q \in Query
         /\ walk.q.page_size \in Nat \ {0} /\ walk.q.reader \in Users
         /\ walk.page \in Nat \ {0} /\ walk.total \in Nat /\ walk.total_pages \in Nat \ {0}
         /\ walk.seen \in [Item -> Nat]
         /\ walk.pc \in {"gated", "counted", "between", "done"}
  BY QueriesAssumption DEF TypeOK, Walk, Query

(* A walk is not the record of a client that does nothing.                 *)
LEMMA WalkIsNotIdle == \A w \in Walk : w # Idle
  BY DEF Walk, Idle

(* The department that is loaded with the reader.                          *)
LEMMA DepartmentTypes ==
  ASSUME TablesOK, NEW u \in Users
  PROVE  DepartmentOf(u) \in Departments \cup {Null}
  BY UsersAssumption DEF DepartmentOf, TablesOK, Profile

(* What Noted writes down is a history.                                    *)
LEMMA NotedTypes ==
  ASSUME TypeOK, hist' = Noted
  PROVE  hist' \in History
  BY DEF TypeOK, Noted, History

(* Every step keeps the types.                                             *)
LEMMA TypesNext ==
  ASSUME TypeOK, [Next]_vars
  PROVE  TypeOK'
<1>1. ASSUME NEW q \in Queries, first_page(q)
      PROVE  TypeOK'
  <2>1. q.reader \in Users
    BY QueriesAssumption DEF Query
  <2>2. DepartmentOf(q.reader) \in Departments \cup {Null}
    BY <2>1, DepartmentTypes DEF TypeOK
  <2>3. walk' \in Walk
    BY <1>1, <2>2 DEF first_page, Walk
  <2>4. TypeOK' <=> hist' \in History
    BY <1>1, <2>3 DEF first_page, TypeOK, TablesOK
  <2>5. Listing' \subseteq Item
    <3>1. walk'.q = q /\ q.op \in {"list_tasks", "get_employee_tasks", "list_employees",
                                   "get_department_employees"}
      BY <1>1, QueriesAssumption DEF first_page, Query
    <3>2. walk' # Idle /\ DOMAIN task' \subseteq Tasks
      BY <1>1, <2>3, WalkIsNotIdle DEF TypeOK, TablesOK, first_page
    <3>. QED
      BY <3>1, <3>2 DEF Listing, list_tasks, get_employee_tasks, Undeleted,
                        list_employees, get_department_employees, Item
  <2>. QED
    BY <1>1, <2>4, <2>5 DEF first_page, History
<1>2. CASE next_page
  <2>1. DepartmentOf(walk.q.reader) \in Departments \cup {Null}
    BY <1>2, WalkTypes, DepartmentTypes DEF TypeOK, next_page
  <2>2. walk' \in Walk
    <3>. DEFINE d == DepartmentOf(walk.q.reader)
                p == walk.page + 1
    <3>1. walk \in Walk /\ p \in Nat \ {0}
      BY <1>2, WalkTypes DEF next_page
    <3>2. walk' = [walk EXCEPT !.pc = "gated", !.page = p, !.dept = d]
      BY <1>2 DEF next_page
    <3>. HIDE DEF d, p
    <3>. QED
      BY <2>1, <3>1, <3>2 DEF Walk, d
  <2>. QED
    BY <1>2, <2>2, NotedTypes DEF next_page, TypeOK, TablesOK
<1>3. CASE select_count
  <2>1. Cardinality(Listing) \in Nat
    BY ListTypes, FS_CardinalityType
  <2>2. TotalPages(Cardinality(Listing), walk.q.page_size) \in Nat \ {0}
    BY <1>3, <2>1, WalkTypes, PagesSuffice DEF select_count
  <2>3. walk' \in Walk
    BY <1>3, <2>1, <2>2, WalkTypes DEF select_count, Walk
  <2>4. hist' \in History
    BY <1>3 DEF select_count, TypeOK, History
  <2>. QED
    BY <1>3, <2>3, <2>4 DEF select_count, TypeOK, TablesOK
<1>4. CASE select_page
  <2>1. PICK P : walk' = [walk EXCEPT
          !.pc = IF walk.page < walk.total_pages THEN "between" ELSE "done",
          !.seen = [x \in Item |-> IF x \in P THEN walk.seen[x] + 1 ELSE walk.seen[x]]]
    BY <1>4 DEF select_page
  <2>2. walk' \in Walk
    <3>. DEFINE pc == IF walk.page < walk.total_pages THEN "between" ELSE "done"
                seen == [x \in Item |-> IF x \in P THEN walk.seen[x] + 1 ELSE walk.seen[x]]
    <3>1. walk \in Walk /\ seen \in [Item -> Nat] /\ pc \in {"between", "done"}
      BY <1>4, WalkTypes DEF select_page
    <3>2. walk' = [walk EXCEPT !.pc = pc, !.seen = seen]
      BY <2>1
    <3>. HIDE DEF pc, seen
    <3>. QED
      BY <3>1, <3>2 DEF Walk
  <2>. QED
    BY <1>4, <2>2 DEF select_page, TypeOK, TablesOK
<1>5. CASE others
  <2>1. TablesOK'
    BY <1>5, CommitTypes DEF others, TypeOK
  <2>2. commits' \in 0..MaxCommits
    BY <1>5, QueriesAssumption DEF others, TypeOK
  <2>. QED
    BY <1>5, <2>1, <2>2, NotedTypes DEF others, TypeOK
<1>6. CASE UNCHANGED vars
  BY <1>6 DEF vars, TypeOK, TablesOK
<1>. QED
  BY <1>1, <1>2, <1>3, <1>4, <1>5, <1>6 DEF Next

-----------------------------------------------------------------------------
(* Nothing is missed                                                       *)

(* A part that lacks an item is smaller.                                   *)
LEMMA Fewer ==
  ASSUME NEW S, IsFiniteSet(S), NEW T \in SUBSET S, NEW x \in S \ T
  PROVE  Cardinality(T) \in Nat /\ Cardinality(S) \in Nat /\ Cardinality(T) < Cardinality(S)
<1>1. IsFiniteSet(T) /\ Cardinality(T) <= Cardinality(S) /\ Cardinality(T) # Cardinality(S)
  BY FS_Subset
<1>. QED
  BY <1>1, FS_CardinalityType

(* For the next state, too.                                                *)
LEMMA ListFinite == TypeOK => IsFiniteSet(Listing)
  BY ListTypes

(* An item has fewer items before it than the list has.                    *)
LEMMA RankBelow ==
  ASSUME TypeOK, NEW x \in Listing
  PROVE  Rank(x) \in Nat /\ Cardinality(Listing) \in Nat /\ Rank(x) < Cardinality(Listing)
<1>. DEFINE preceding == {y \in Listing : Before(y, x)}
<1>1. x \notin preceding /\ preceding \subseteq Listing
  BY ListTypes
<1>2. IsFiniteSet(Listing) /\ Rank(x) = Cardinality(preceding)
  BY ListFinite DEF Rank
<1>. HIDE DEF preceding
<1>. QED
  BY <1>1, <1>2, Fewer

(* When the sort column has no ties, page number page holds the items whose *)
(* rank is on it, whichever of the answers the ORDER BY allows comes.      *)
LEMMA PageIsExact ==
  ASSUME TypeOK, KeysDiffer, NEW page \in Nat \ {0}, NEW size \in Nat \ {0},
         NEW P \in Pages(Listing, Offset(page, size), size), NEW x \in Listing
  PROVE  x \in P <=> (page - 1) * size <= Rank(x) /\ Rank(x) < page * size
<1>. DEFINE S == Listing
            o == Offset(page, size)
            preceding == {y \in S : Before(y, x)}
<1>1. /\ IsFiniteSet(S) /\ P \subseteq S /\ x \in S
      /\ \A y \in S : ~Before(y, y)
      /\ \A y, z \in S : y # z => Before(y, z) \/ Before(z, y)
      /\ Rank(x) = Cardinality(preceding)
      /\ o \in Nat /\ o = (page - 1) * size /\ o + size = page * size
      /\ Cardinality(preceding) < Cardinality(S)
  BY ListTypes, RankBelow DEF Pages, KeysDiffer, Rank, Offset
<1>2. PICK skipped \in SUBSET (S \ P) :
        /\ Cardinality(skipped) = Lesser(o, Cardinality(S))
        /\ Cardinality(P) = Lesser(size, Cardinality(S) - Cardinality(skipped))
        /\ \A y \in S \ skipped, z \in skipped : ~Before(y, z)
        /\ \A y \in (S \ P) \ skipped, z \in P : ~Before(y, z)
  BY DEF Pages
<1>. HIDE DEF S, o, preceding
<1>3. /\ IsFiniteSet(skipped) /\ IsFiniteSet(P) /\ IsFiniteSet(preceding)
      /\ IsFiniteSet(P \cup skipped) /\ P \cup skipped \in SUBSET S
      /\ Cardinality(S) \in Nat /\ Cardinality(skipped) \in Nat /\ Cardinality(P) \in Nat
      /\ Cardinality(preceding) \in Nat
  <2>1. skipped \subseteq S /\ P \subseteq S /\ preceding \subseteq S
    BY <1>1 DEF preceding
  <2>2. P \cup skipped \subseteq S
    BY <2>1
  <2>. QED
    BY <1>1, <2>1, <2>2, FS_Subset, FS_CardinalityType
<1>4. Cardinality(P \cup skipped) = Cardinality(P) + Cardinality(skipped)
  <2>1. P \cap skipped = {}
    BY <1>2
  <2>2. Cardinality(P \cup skipped) = Cardinality(P) + Cardinality(skipped) - Cardinality({})
    BY <1>3, <2>1, FS_Union
  <2>. QED
    BY <1>3, <2>2, FS_EmptySet
<1>5. CASE x \in skipped
  <2>1. preceding \subseteq skipped /\ x \in skipped \ preceding
    BY <1>1, <1>2, <1>5 DEF preceding
  <2>2. Cardinality(preceding) < Cardinality(skipped)
    BY <1>3, <2>1, Fewer
  <2>. QED
    BY <1>1, <1>2, <1>3, <1>5, <2>2 DEF Lesser
<1>6. CASE x \in P
  <2>1. skipped \subseteq preceding
    BY <1>1, <1>2, <1>6 DEF preceding
  <2>2. preceding \subseteq P \cup skipped /\ x \in (P \cup skipped) \ preceding
    BY <1>1, <1>2, <1>6 DEF preceding
  <2>3. Cardinality(skipped) <= Cardinality(preceding)
    BY <1>3, <2>1, FS_Subset
  <2>4. Cardinality(preceding) < Cardinality(P) + Cardinality(skipped)
    BY <1>3, <1>4, <2>2, Fewer
  <2>5. Cardinality(skipped) = o /\ Cardinality(P) <= size
    BY <1>1, <1>2, <1>3, <2>3 DEF Lesser
  <2>. QED
    BY <1>1, <1>3, <1>6, <2>3, <2>4, <2>5
<1>7. CASE x \notin P \cup skipped
  <2>1. P \cup skipped \subseteq preceding
    BY <1>1, <1>2, <1>7 DEF preceding
  <2>2. Cardinality(P) + Cardinality(skipped) < Cardinality(S)
    BY <1>1, <1>3, <1>4, <1>7, Fewer, x \in S \ (P \cup skipped)
  <2>3. Cardinality(skipped) = o /\ Cardinality(P) = size
    BY <1>1, <1>2, <1>3, <2>2 DEF Lesser
  <2>4. Cardinality(P \cup skipped) <= Cardinality(preceding)
    BY <1>3, <2>1, FS_Subset
  <2>. QED
    BY <1>1, <1>3, <1>4, <1>7, <2>3, <2>4
<1>. QED
  BY <1>5, <1>6, <1>7

(* The pages before and this one have together min(page * size, length).   *)
LEMMA PageLength ==
  ASSUME TypeOK, NEW page \in Nat \ {0}, NEW size \in Nat \ {0},
         NEW P \in Pages(Listing, Offset(page, size), size)
  PROVE  /\ P \subseteq Item /\ IsFiniteSet(P)
         /\ Lesser((page - 1) * size, Cardinality(Listing)) + Cardinality(P) =
              Lesser(page * size, Cardinality(Listing))
<1>. DEFINE length == Cardinality(Listing)
            o == (page - 1) * size
<1>1. P \subseteq Item /\ IsFiniteSet(P) /\ length \in Nat
  BY ListTypes, FS_Subset, FS_CardinalityType DEF Pages
<1>2. Cardinality(P) = Lesser(size, length - Lesser(o, length))
  BY DEF Pages, Offset
<1>3. o \in Nat /\ page * size = o + size
  OBVIOUS
<1>. HIDE DEF length, o
<1>4. Lesser(o, length) + Cardinality(P) = Lesser(page * size, length)
  BY <1>1, <1>2, <1>3 DEF Lesser
<1>. QED
  BY <1>1, <1>4 DEF length, o

(* The list as other commits, or a reload of the reader, leave it: unless  *)
(* an item left or moved, everyone keeps those who come before.            *)
LEMMA NotedKeeps ==
  ASSUME IInv, TypeOK', walk # Idle, walk' # Idle,
         walk'.q = walk.q, walk'.seen = walk.seen, Answered' = Answered, hist' = Noted
  PROVE  /\ hist'.always \subseteq Listing'
         /\ ~hist'.left /\ KeysDiffer' =>
              \A x \in hist'.always \ Seen' : Rank(x)' >= Answered' * walk'.q.page_size
         /\ ~hist'.late => ~hist.late /\ Listing' \subseteq Listing
         /\ ~hist'.left /\ ~hist'.came =>
              /\ ~hist.left /\ ~hist.came /\ Listing' = Listing
              /\ SumOf(walk'.seen) = Lesser(Answered' * walk'.q.page_size, Cardinality(Listing'))
              /\ KeysDiffer' => \A x \in Listing' :
                   walk'.seen[x] = IF Rank(x)' < Answered' * walk'.q.page_size THEN 1 ELSE 0
<1>1. /\ hist'.always = hist.always \cap Listing'
      /\ ~hist'.late => ~hist.late /\ Listing' \subseteq Listing
  BY DEF Noted
<1>2. ASSUME ~hist'.left, KeysDiffer', NEW x \in hist'.always \ Seen'
      PROVE  Rank(x)' >= Answered' * walk'.q.page_size
  <2>1. ~hist.left /\ \A y \in Listing : y \in Listing' /\ SortKey(y)' = SortKey(y)
    BY <1>2 DEF Noted
  <2>2. \A y, z \in Listing : Before(y, z)' <=> Before(y, z)
    BY <2>1 DEF Before
  <2>3. KeysDiffer
    BY <1>2, <2>1, <2>2 DEF KeysDiffer
  <2>4. x \in hist.always \ Seen /\ x \in Listing
    BY <1>1, <1>2 DEF Seen, IInv, WalkOK
  <2>5. Rank(x) >= Answered * walk.q.page_size
    BY <2>1, <2>3, <2>4 DEF IInv, WalkOK
  <2>. DEFINE preceding == {y \in Listing : Before(y, x)}
  <2>6. preceding \subseteq preceding'
    BY <2>1, <2>2, <2>4
  <2>7. (IsFiniteSet(Listing))'
    BY ListFinite, PTL
  <2>8. IsFiniteSet(preceding')
    BY <2>7, FS_Subset, preceding' \subseteq Listing'
  <2>9. Rank(x) = Cardinality(preceding) /\ Rank(x)' = Cardinality(preceding')
    BY DEF Rank
  <2>. HIDE DEF preceding
  <2>10. /\ Rank(x) \in Nat /\ Rank(x)' \in Nat /\ Rank(x) <= Rank(x)'
    BY <2>6, <2>8, <2>9, FS_Subset, FS_CardinalityType
  <2>11. Answered * walk.q.page_size \in Nat
    BY WalkTypes DEF IInv, Answered
  <2>. QED
    BY <2>5, <2>10, <2>11
<1>3. ASSUME ~hist'.left, ~hist'.came
      PROVE  /\ ~hist.left /\ ~hist.came /\ Listing' = Listing
             /\ \A x \in Listing : SortKey(x)' = SortKey(x)
  BY <1>3 DEF Noted
<1>3a. ASSUME ~hist'.left, ~hist'.came
       PROVE  SumOf(walk'.seen) = Lesser(Answered' * walk'.q.page_size, Cardinality(Listing'))
  BY <1>3, <1>3a DEF IInv, WalkOK
<1>4. ASSUME ~hist'.left, ~hist'.came, KeysDiffer', NEW x \in Listing'
      PROVE  walk'.seen[x] = IF Rank(x)' < Answered' * walk'.q.page_size THEN 1 ELSE 0
  <2>1. \A y, z \in Listing : Before(y, z)' <=> Before(y, z)
    BY <1>3, <1>4 DEF Before
  <2>2. KeysDiffer /\ Rank(x)' = Rank(x) /\ x \in Listing
    BY <1>3, <1>4, <2>1 DEF KeysDiffer, Rank
  <2>. QED
    BY <1>3, <1>4, <2>2 DEF IInv, WalkOK
<1>. QED
  BY <1>1, <1>2, <1>3, <1>3a, <1>4

(* The list depends on the tables and on what is asked for only.           *)
LEMMA ListKept ==
  ASSUME TypeOK, walk # Idle, walk' # Idle, walk'.q = walk.q, walk'.dept = walk.dept,
         UNCHANGED <<task, employee>>
  PROVE  /\ Listing' = Listing /\ (KeysDiffer' <=> KeysDiffer)
         /\ \A x : Rank(x)' = Rank(x)
<1>1. Listing' = Listing
  <2>1. PICK q, dept : q = walk.q /\ dept = walk.dept
    OBVIOUS
  <2>2. q.op \in {"list_tasks", "get_employee_tasks", "list_employees",
                  "get_department_employees"}
    BY <2>1, WalkTypes DEF Query
  <2>3. CASE q.op = "list_tasks"
    BY <2>1, <2>3 DEF Listing, list_tasks, Undeleted, InScope
  <2>4. CASE q.op = "get_employee_tasks"
    BY <2>1, <2>4 DEF Listing, get_employee_tasks, Undeleted
  <2>5. CASE q.op = "list_employees"
    BY <2>1, <2>5 DEF Listing, list_employees
  <2>6. CASE q.op = "get_department_employees"
    BY <2>1, <2>6 DEF Listing, get_department_employees
  <2>. QED
    BY <2>2, <2>3, <2>4, <2>5, <2>6
<1>2. \A x : SortKey(x)' = SortKey(x)
  BY DEF SortKey
<1>3. \A x, y : Before(x, y)' <=> Before(x, y)
  BY <1>2 DEF Before
<1>. QED
  BY <1>1, <1>3 DEF KeysDiffer, Rank

(* The first page: nothing is answered, every rank will do.                *)
LEMMA FirstPageKeeps ==
  ASSUME IInv, TypeOK', NEW q \in Queries, first_page(q)
  PROVE  WalkOK'
<1>1. /\ walk'.pc = "gated" /\ walk'.page = 1 /\ hist'.always = Listing'
      /\ walk'.q = q
  BY DEF first_page
<1>2. Answered' = 0 /\ walk'.q.page_size \in Nat
  BY <1>1, QueriesAssumption DEF Answered, Query
<1>2a. walk'.seen = [x \in Item |-> 0] /\ (Listing \subseteq Item)'
  <2>1. (Listing \subseteq Item)'
    BY ListTypes, PTL
  <2>. QED
    BY <2>1 DEF first_page
<1>3. ASSUME NEW x
      PROVE  Rank(x)' \in Nat
  <2>. DEFINE preceding == {y \in Listing : Before(y, x)}
  <2>1. (IsFiniteSet(Listing))'
    BY ListFinite, PTL
  <2>2. IsFiniteSet(preceding')
    BY <2>1, FS_Subset, preceding' \subseteq Listing'
  <2>3. Rank(x)' = Cardinality(preceding')
    BY DEF Rank
  <2>. QED
    BY <2>2, <2>3, FS_CardinalityType
<1>4. SumOf(walk'.seen) = 0 /\ Cardinality(Listing)' \in Nat
  <2>1. SumOf(walk'.seen) = 0
    BY <1>2a, SumOfNone
  <2>2. (IsFiniteSet(Listing))'
    BY ListFinite, PTL
  <2>. QED
    BY <2>1, <2>2, FS_CardinalityType
<1>. QED
  BY <1>1, <1>2, <1>2a, <1>3, <1>4 DEF WalkOK, Lesser

(* The next page: the reader's department may have changed meanwhile.      *)
LEMMA NextPageKeeps ==
  ASSUME IInv, TypeOK', next_page
  PROVE  walk' # Idle /\ WalkOK'
<1>1. /\ walk # Idle /\ walk.pc = "between" /\ walk \in Walk /\ walk.page \in Nat \ {0}
      /\ hist' = Noted
  BY WalkTypes DEF next_page, IInv
<1>2. /\ walk'.q = walk.q /\ walk'.seen = walk.seen /\ walk'.pc = "gated"
      /\ walk'.page = walk.page + 1 /\ walk' # Idle
  BY <1>1 DEF next_page, Walk, Idle
<1>3. Answered' = Answered
  BY <1>1, <1>2 DEF Answered
<1>. QED
  BY <1>1, <1>2, <1>3, NotedKeeps DEF WalkOK

(* The count: whatever came before it is counted.                          *)
LEMMA CountKeeps ==
  ASSUME IInv, select_count
  PROVE  walk' # Idle /\ WalkOK'
<1>1. /\ walk # Idle /\ walk.pc = "gated" /\ walk \in Walk /\ WalkOK
      /\ hist \in History /\ UNCHANGED <<task, employee>>
  BY WalkTypes DEF select_count, IInv, TypeOK
<1>2. /\ walk'.q = walk.q /\ walk'.seen = walk.seen /\ walk'.pc = "counted"
      /\ walk'.page = walk.page /\ walk'.dept = walk.dept /\ walk' # Idle
      /\ walk'.total = Cardinality(Listing)
      /\ walk'.total_pages = TotalPages(Cardinality(Listing), walk.q.page_size)
  BY <1>1 DEF select_count, Walk, Idle
<1>3. hist'.always = hist.always /\ hist'.left = hist.left /\ hist'.came = hist.came
  BY <1>1 DEF select_count, History
<1>4. /\ Listing' = Listing /\ (KeysDiffer' <=> KeysDiffer)
      /\ \A x : Rank(x)' = Rank(x)
  BY <1>1, <1>2, ListKept DEF IInv
<1>5. Answered' = Answered /\ Seen' = Seen
  BY <1>1, <1>2 DEF Answered, Seen
<1>6. Cardinality(Listing) <= Cardinality(Listing)
  BY ListFinite, FS_CardinalityType DEF IInv
<1>. QED
  BY <1>1, <1>2, <1>3, <1>4, <1>5, <1>6 DEF WalkOK

(* The rows: who is not on the page comes after it.                        *)
LEMMA PageKeeps ==
  ASSUME IInv, select_page
  PROVE  walk' # Idle /\ WalkOK'
<1>1. /\ walk # Idle /\ walk.pc = "counted" /\ walk \in Walk /\ WalkOK /\ TypeOK
      /\ UNCHANGED <<task, employee, hist>>
      /\ walk.page \in Nat \ {0} /\ walk.total_pages \in Nat \ {0}
      /\ walk.q.page_size \in Nat \ {0} /\ walk.seen \in [Item -> Nat]
  BY WalkTypes DEF select_page, IInv
<1>. DEFINE page == walk.page
            size == walk.q.page_size
<1>2. PICK P \in Pages(Listing, Offset(page, size), size) :
        walk' = [walk EXCEPT
          !.pc = IF walk.page < walk.total_pages THEN "between" ELSE "done",
          !.seen = [x \in Item |-> IF x \in P THEN walk.seen[x] + 1 ELSE walk.seen[x]]]
  BY <1>1 DEF select_page, Walk
<1>3. /\ walk'.q = walk.q /\ walk'.page = page /\ walk'.dept = walk.dept /\ walk' # Idle
      /\ walk'.total = walk.total /\ walk'.total_pages = walk.total_pages
      /\ walk'.pc \in {"between", "done"}
      /\ walk'.pc = "done" => page >= walk.total_pages
      /\ walk'.seen = [x \in Item |-> IF x \in P THEN walk.seen[x] + 1 ELSE walk.seen[x]]
  <2>. DEFINE pc == IF walk.page < walk.total_pages THEN "between" ELSE "done"
              seen == [x \in Item |-> IF x \in P THEN walk.seen[x] + 1 ELSE walk.seen[x]]
  <2>1. pc \in {"between", "done"} /\ (pc = "done" => page >= walk.total_pages)
    BY <1>1
  <2>2. walk' = [walk EXCEPT !.pc = pc, !.seen = seen]
    BY <1>2
  <2>. HIDE DEF pc, seen
  <2>. QED
    BY <1>1, <2>1, <2>2 DEF Walk, Idle, seen
<1>4. /\ Listing' = Listing /\ (KeysDiffer' <=> KeysDiffer)
      /\ \A x : Rank(x)' = Rank(x)
  BY <1>1, <1>3, ListKept
<1>5. Answered = page - 1 /\ Answered' = page
  BY <1>1, <1>3 DEF Answered
<1>6. ASSUME ~hist.left, KeysDiffer, NEW x \in hist.always \ Seen'
      PROVE  Rank(x) >= page * size
  <2>1. x \in Listing /\ x \in Item
    BY <1>1, <1>6, ListTypes DEF WalkOK
  <2>2. x \notin P /\ x \notin Seen
    BY <1>1, <1>3, <1>6, <2>1 DEF Seen
  <2>3. Rank(x) >= (page - 1) * size
    BY <1>1, <1>5, <1>6, <2>2 DEF WalkOK
  <2>. QED
    BY <1>1, <1>2, <1>6, <2>1, <2>2, <2>3, PageIsExact, RankBelow
<1>7. ASSUME ~hist.left, ~hist.came, KeysDiffer, NEW x \in Listing
      PROVE  walk'.seen[x] = IF Rank(x) < page * size THEN 1 ELSE 0
  <2>1. walk.seen[x] = IF Rank(x) < (page - 1) * size THEN 1 ELSE 0
    BY <1>1, <1>5, <1>7 DEF WalkOK
  <2>2. x \in P <=> (page - 1) * size <= Rank(x) /\ Rank(x) < page * size
    BY <1>1, <1>2, <1>7, PageIsExact
  <2>3. walk'.seen[x] = IF x \in P THEN walk.seen[x] + 1 ELSE walk.seen[x]
    BY <1>1, <1>3, <1>7, ListTypes
  <2>4. Rank(x) \in Nat /\ (page - 1) * size <= page * size /\ (page - 1) * size \in Int
        /\ page * size \in Int
    BY <1>1, <1>7, RankBelow
  <2>. HIDE DEF page, size
  <2>. QED
    BY <2>1, <2>2, <2>3, <2>4
<1>8. ASSUME ~hist.left, ~hist.came
      PROVE  SumOf(walk'.seen) = Lesser(page * size, Cardinality(Listing))
  <2>1. SumOf(walk.seen) = Lesser((page - 1) * size, Cardinality(Listing))
    BY <1>1, <1>5, <1>8 DEF WalkOK
  <2>2. /\ P \subseteq Item /\ IsFiniteSet(P)
        /\ Lesser((page - 1) * size, Cardinality(Listing)) + Cardinality(P) =
             Lesser(page * size, Cardinality(Listing))
    BY <1>1, <1>2, PageLength
  <2>3. SumOf(walk'.seen) = SumOf(walk.seen) + Cardinality(P)
    BY <1>1, <1>3, <2>2, ItemsFinite, SumAdds
  <2>. QED
    BY <2>1, <2>2, <2>3
<1>. QED
  BY <1>1, <1>3, <1>4, <1>5, <1>6, <1>7, <1>8 DEF WalkOK

(* A commit of another request.                                            *)
LEMMA OthersKeep ==
  ASSUME IInv, TypeOK', others, walk # Idle
  PROVE  WalkOK'
<1>1. /\ walk' = walk /\ hist' = Noted /\ WalkOK /\ walk' # Idle
  BY DEF others, IInv
<1>2. Answered' = Answered
  BY <1>1 DEF Answered
<1>3. /\ hist'.always \subseteq Listing'
      /\ ~hist'.left /\ KeysDiffer' =>
           \A x \in hist'.always \ Seen' : Rank(x)' >= Answered' * walk'.q.page_size
      /\ ~hist'.late => ~hist.late /\ Listing' \subseteq Listing
      /\ ~hist'.left /\ ~hist'.came =>
           /\ ~hist.left /\ ~hist.came /\ Listing' = Listing
           /\ SumOf(walk'.seen) = Lesser(Answered' * walk'.q.page_size, Cardinality(Listing'))
           /\ KeysDiffer' => \A x \in Listing' :
                walk'.seen[x] = IF Rank(x)' < Answered' * walk'.q.page_size THEN 1 ELSE 0
  BY <1>1, <1>2, NotedKeeps
<1>4. ASSUME walk.pc # "gated", ~hist'.late
      PROVE  Cardinality(Listing') <= walk.total
  <2>1. Cardinality(Listing) <= walk.total /\ Listing' \subseteq Listing
    BY <1>1, <1>3, <1>4 DEF WalkOK
  <2>2. /\ Cardinality(Listing') <= Cardinality(Listing)
        /\ Cardinality(Listing) \in Nat /\ Cardinality(Listing') \in Nat
    BY <2>1, ListFinite, FS_Subset, FS_CardinalityType DEF IInv
  <2>. QED
    BY <2>1, <2>2, WalkTypes DEF IInv
<1>. QED
  BY <1>1, <1>3, <1>4 DEF WalkOK

(* The first state.                                                        *)
LEMMA InitInv == Init => IInv
<1>. SUFFICES ASSUME Init PROVE IInv
  OBVIOUS
<1>1. TypeOK
  BY TablesAssumption, QueriesAssumption DEF Init, TypeOK, TablesOK, History
<1>. QED
  BY <1>1 DEF Init, IInv

(* Every step.                                                             *)
LEMMA NextInv == IInv /\ [Next]_vars => IInv'
<1>. SUFFICES ASSUME IInv, [Next]_vars PROVE IInv'
  OBVIOUS
<1>1. TypeOK'
  BY TypesNext DEF IInv
<1>2. CASE UNCHANGED vars
  BY <1>1, <1>2, ListKept DEF IInv, vars, WalkOK, Answered, Seen
<1>3. CASE others
  BY <1>1, <1>3, OthersKeep DEF IInv, others
<1>. QED
  BY <1>1, <1>2, <1>3, FirstPageKeeps, NextPageKeeps, CountKeeps, PageKeeps DEF Next, IInv

(* The inductive invariant holds for any list, page size and commits.      *)
THEOREM Invariance == Spec => []IInv
  BY InitInv, NextInv, PTL DEF Spec

(* The last page reaches the end of a list to which nothing came since the *)
(* count.                                                                  *)
LEMMA PagesReach ==
  ASSUME IInv, Finished, Cardinality(Listing) <= walk.total
  PROVE  Cardinality(Listing) <= walk.page * walk.q.page_size
<1>1. /\ TypeOK /\ WalkOK /\ walk # Idle /\ walk.pc = "done"
      /\ walk.page \in Nat \ {0} /\ walk.total \in Nat /\ walk.q.page_size \in Nat \ {0}
  BY WalkTypes DEF IInv, Finished
<1>. DEFINE size == walk.q.page_size
            pages == TotalPages(walk.total, size)
<1>2. walk.page >= pages
  BY <1>1 DEF WalkOK
<1>3. pages \in Nat /\ walk.total <= pages * size
  BY <1>1, PagesSuffice
<1>. HIDE DEF pages, size
<1>4. pages * size <= walk.page * size
  BY <1>1, <1>2, <1>3 DEF size
<1>5. Cardinality(Listing) \in Nat
  BY <1>1, ListFinite, FS_CardinalityType
<1>. QED
  BY <1>1, <1>3, <1>4, <1>5 DEF size

(* A client that reads to the last page has been shown every item that was *)
(* there all the time, while items arrive anywhere in the list.            *)
THEOREM NothingMissedCorrect == Spec => []NothingMissed
<1>1. IInv => NothingMissed
  <2>. SUFFICES ASSUME IInv, Finished, ~hist.left, ~hist.late, KeysDiffer,
                       NEW x \in hist.always \ Seen
                PROVE  FALSE
    BY DEF NothingMissed
  <2>1. /\ TypeOK /\ WalkOK /\ walk.pc = "done" /\ x \in Listing
        /\ walk.page \in Nat \ {0} /\ walk.q.page_size \in Nat \ {0}
    BY WalkTypes DEF IInv, Finished, WalkOK
  <2>2. Rank(x) >= walk.page * walk.q.page_size
    BY <2>1 DEF WalkOK, Answered
  <2>3. Cardinality(Listing) <= walk.page * walk.q.page_size
    BY <2>1, PagesReach DEF WalkOK
  <2>4. Rank(x) \in Nat /\ Cardinality(Listing) \in Nat /\ Rank(x) < Cardinality(Listing)
    BY <2>1, RankBelow
  <2>. QED
    BY <2>1, <2>2, <2>3, <2>4
<1>. QED
  BY <1>1, Invariance, PTL

(* Of a list left alone the total is its length and the number of items on *)
(* the pages together; each item is shown exactly once when the sort       *)
(* column has no ties.                                                     *)
THEOREM UndisturbedWalkIsExactCorrect == Spec => []UndisturbedWalkIsExact
<1>1. ASSUME IInv, Finished, ~hist.left, ~hist.came
      PROVE  /\ walk.total = Cardinality(Listing) /\ walk.total = SumOf(walk.seen)
             /\ KeysDiffer => \A x \in Listing : walk.seen[x] = 1
  <2>. DEFINE last == walk.page * walk.q.page_size
  <2>1. /\ TypeOK /\ WalkOK /\ walk.total = Cardinality(Listing) /\ Answered = walk.page
        /\ walk.total \in Nat /\ last \in Nat
    BY <1>1, WalkTypes DEF IInv, Finished, WalkOK, Answered
  <2>2. Cardinality(Listing) <= last
    BY <1>1, <2>1, PagesReach
  <2>3. SumOf(walk.seen) = Lesser(last, Cardinality(Listing))
    BY <1>1, <2>1 DEF WalkOK
  <2>. HIDE DEF last
  <2>4. SumOf(walk.seen) = Cardinality(Listing)
    BY <2>1, <2>2, <2>3 DEF Lesser
  <2>5. ASSUME KeysDiffer, NEW x \in Listing
        PROVE  walk.seen[x] = 1
    <3>1. Rank(x) < last
      BY <2>1, <2>2, <2>5, RankBelow
    <3>. QED
      BY <1>1, <2>1, <2>5, <3>1 DEF WalkOK, last
  <2>. QED
    BY <2>1, <2>4, <2>5
<1>2. IInv => UndisturbedWalkIsExact
  BY <1>1 DEF UndisturbedWalkIsExact
<1>. QED
  BY <1>2, Invariance, PTL

(* What is listed can be opened, and an employee lists all they can open.  *)
LEMMA ListsMatchAccessCorrect == ListsMatchAccess
<1>. SUFFICES ASSUME NEW u \in Users
              PROVE  LET listed == list_tasks(u, DepartmentOf(u), NoFilter)
                         open == {t \in DOMAIN task : CanOpen(u, t)}
                     IN  listed \subseteq open /\ (RoleOf[u] = "EMPLOYEE" => listed = open)
  BY DEF ListsMatchAccess
<1>1. \A t \in Undeleted :
        t \in list_tasks(u, DepartmentOf(u), NoFilter) <=> InScope(u, DepartmentOf(u), t)
  BY DEF list_tasks, NoFilter
<1>2. \A t : RoleOf[u] = "EMPLOYEE" =>
        (InScope(u, DepartmentOf(u), t) <=>
           ProfileOf[u] # Null /\ task[t].assigned_to = ProfileOf[u])
  BY DEF InScope
<1>3. list_tasks(u, DepartmentOf(u), NoFilter) \subseteq Undeleted
  BY DEF list_tasks
<1>. QED
  BY <1>1, <1>2, <1>3 DEF CanOpen, Undeleted

(* The overdue list holds what the loops of the reports count.             *)
LEMMA OverdueRows ==
  ASSUME TablesOK
  PROVE  get_overdue_tasks = {t \in Undeleted : Overdue(t)}
<1>1. \A t \in DOMAIN task :
        task[t].due_date # Null /\ task[t].due_date < Now
          <=> task[t].due_date \in {x \in Dates : x < Now}
  BY DomainsAssumption DEF TablesOK, Row
<1>. QED
  BY <1>1 DEF Undeleted, Overdue, get_overdue_tasks

(* The rows with each value of a column, or with a value outside of S.     *)
RowsWith(column, d) == {t \in Undeleted : column[t] = d}

RowsOutside(column, S) == {t \in Undeleted : column[t] \notin S}

Totals(column, S) == [d \in S |-> Stats(RowsWith(column, d)).total]

Overdues(column, S) == [d \in S |-> Stats(RowsWith(column, d)).overdue]

(* A report on all rows, and reports on the rows with each value of a      *)
(* column: their totals and their overdue counts add up.                   *)
LEMMA StatsAddUp ==
  ASSUME TablesOK, NEW S, IsFiniteSet(S), NEW column
  PROVE  /\ get_overview.total =
              Cardinality(RowsOutside(column, S)) + SumOf(Totals(column, S))
         /\ get_overview.overdue =
              Cardinality(RowsOutside(column, S) \cap get_overdue_tasks) + SumOf(Overdues(column, S))
<1>. DEFINE late == {t \in Undeleted : Overdue(t)}
<1>1. IsFiniteSet(Undeleted) /\ IsFiniteSet(late)
  <2>1. Undeleted \subseteq Tasks /\ late \subseteq Tasks
    BY DEF TablesOK, Undeleted
  <2>. QED
    BY <2>1, DomainsAssumption, FS_Subset
<1>2. get_overview.total = Cardinality(Undeleted) /\ get_overview.overdue = Cardinality(late)
  BY DEF get_overview, Stats
<1>3. ASSUME NEW d \in S
      PROVE  /\ Stats(RowsWith(column, d)).total = Cardinality({t \in Undeleted : column[t] = d})
             /\ Stats(RowsWith(column, d)).overdue = Cardinality({t \in late : column[t] = d})
  <2>1. /\ RowsWith(column, d) = {t \in Undeleted : column[t] = d}
        /\ {t \in RowsWith(column, d) : Overdue(t)} = {t \in late : column[t] = d}
    BY DEF RowsWith
  <2>. QED
    BY <2>1 DEF Stats
<1>4. RowsOutside(column, S) \cap get_overdue_tasks = {t \in late : column[t] \notin S}
  BY OverdueRows DEF RowsOutside
<1>. HIDE DEF late
<1>5. Cardinality(Undeleted) = Cardinality({t \in Undeleted : column[t] \notin S}) +
                               SumOf([d \in S |-> Cardinality({t \in Undeleted : column[t] = d})])
  BY <1>1, SumByColumn
<1>6. Cardinality(late) = Cardinality({t \in late : column[t] \notin S}) +
                          SumOf([d \in S |-> Cardinality({t \in late : column[t] = d})])
  BY <1>1, SumByColumn
<1>7. /\ Totals(column, S) = [d \in S |-> Cardinality({t \in Undeleted : column[t] = d})]
      /\ Overdues(column, S) = [d \in S |-> Cardinality({t \in late : column[t] = d})]
  BY <1>3 DEF Totals, Overdues
<1>. QED
  BY <1>2, <1>4, <1>5, <1>6, <1>7 DEF RowsOutside

(* Whichever way the tables are read, lists, single tasks, overview,       *)
(* reports per department and employee and the overdue list agree.         *)
THEOREM ReadsAgreeCorrect == Spec => []ReadsAgree
<1>1. ASSUME TablesOK
      PROVE  ReportsAgree
  <2>. DEFINE active == {e \in Employees : employee[e].is_active}
              homeless == {t \in Undeleted : task[t].department_id = Null}
              orphaned == {t \in Undeleted : task[t].assigned_to \notin active}
              overdue == get_overdue_tasks
  <2>1. get_overview.overdue = Cardinality(overdue)
    BY <1>1, OverdueRows DEF get_overview, Stats
  <2>2. ASSUME NEW s \in TaskStatus, NEW u \in Users, RoleOf[u] = "ADMIN"
        PROVE  get_overview.of[s] =
                 Cardinality(list_tasks(u, DepartmentOf(u), [NoFilter EXCEPT !.status = s]))
    <3>. DEFINE f == [NoFilter EXCEPT !.status = s]
    <3>1. f.status = s /\ f.assigned_to = Null /\ f.department_id = Null /\ s # Null
      BY DomainsAssumption DEF NoFilter
    <3>2. \A t : InScope(u, DepartmentOf(u), t)
      BY <2>2 DEF InScope
    <3>. HIDE DEF f
    <3>3. list_tasks(u, DepartmentOf(u), f) = {t \in Undeleted : task[t].status = s}
      BY <3>1, <3>2 DEF list_tasks
    <3>. QED
      BY <3>3 DEF get_overview, Stats, f
  <2>3. /\ get_overview.total = Cardinality(homeless) +
             SumOf([d \in Departments |-> get_department_analytics(d).total])
        /\ get_overview.overdue = Cardinality(homeless \cap overdue) +
             SumOf([d \in Departments |-> get_department_analytics(d).overdue])
    <3>. DEFINE column == [t \in DOMAIN task |-> task[t].department_id]
    <3>1. homeless = RowsOutside(column, Departments)
      BY <1>1, DomainsAssumption DEF RowsOutside, Undeleted, TablesOK, Row
    <3>2. \A d : get_department_analytics(d) = Stats(RowsWith(column, d))
      <4>1. \A d : {t \in Undeleted : task[t].department_id = d} = RowsWith(column, d)
        BY DEF RowsWith, Undeleted
      <4>. QED
        BY <4>1 DEF get_department_analytics
    <3>3. /\ [d \in Departments |-> get_department_analytics(d).total] = Totals(column, Departments)
          /\ [d \in Departments |-> get_department_analytics(d).overdue] = Overdues(column, Departments)
      BY <3>2 DEF Totals, Overdues
    <3>4. IsFiniteSet(Departments)
      BY DomainsAssumption
    <3>. HIDE DEF column, homeless
    <3>5. /\ get_overview.total =
               Cardinality(RowsOutside(column, Departments)) + SumOf(Totals(column, Departments))
          /\ get_overview.overdue =
               Cardinality(RowsOutside(column, Departments) \cap overdue) + SumOf(Overdues(column, Departments))
      BY <1>1, <3>4, StatsAddUp
    <3>. QED
      BY <3>1, <3>3, <3>5
  <2>4. /\ get_overview.total = Cardinality(orphaned) +
             SumOf([e \in active |-> get_employee_stats(e).total])
        /\ get_overview.overdue = Cardinality(orphaned \cap overdue) +
             SumOf([e \in active |-> get_employee_stats(e).overdue])
    <3>. DEFINE column == [t \in DOMAIN task |-> task[t].assigned_to]
    <3>1. orphaned = RowsOutside(column, active)
      BY DEF RowsOutside, Undeleted
    <3>2. \A e : get_employee_stats(e) = Stats(RowsWith(column, e))
      <4>1. \A e : {t \in Undeleted : task[t].assigned_to = e} = RowsWith(column, e)
        BY DEF RowsWith, Undeleted
      <4>. QED
        BY <4>1 DEF get_employee_stats
    <3>3. /\ [e \in active |-> get_employee_stats(e).total] = Totals(column, active)
          /\ [e \in active |-> get_employee_stats(e).overdue] = Overdues(column, active)
      BY <3>2 DEF Totals, Overdues
    <3>4. IsFiniteSet(active)
      BY DomainsAssumption, FS_Subset
    <3>. HIDE DEF column, orphaned, active
    <3>5. /\ get_overview.total =
               Cardinality(RowsOutside(column, active)) + SumOf(Totals(column, active))
          /\ get_overview.overdue =
               Cardinality(RowsOutside(column, active) \cap overdue) + SumOf(Overdues(column, active))
      BY <1>1, <3>4, StatsAddUp
    <3>. QED
      BY <3>1, <3>3, <3>5
  <2>. QED
    BY <2>1, <2>2, <2>3, <2>4 DEF ReportsAgree
<1>2. IInv => ReadsAgree
  BY <1>1, ListsMatchAccessCorrect DEF IInv, TypeOK, ReadsAgree
<1>. QED
  BY <1>2, Invariance, PTL
=============================================================================
