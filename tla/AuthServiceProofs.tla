------------------------- MODULE AuthServiceProofs --------------------------
(***************************************************************************)
(* Theorems about AuthService, for any number of accounts, passwords,      *)
(* tokens and requests in flight.                                          *)
(***************************************************************************)
EXTENDS AuthService, FiniteSetTheorems, WellFoundedInduction, TLAPS

(* A request in flight has the fields of Work.                             *)
LEMMA BusyWork ==
  ASSUME TypeOK, NEW r \in Busy
  PROVE  r \in Requests /\ session[r] \in Work /\ session[r] # Idle
  BY DEF TypeOK, Busy

(* A record with the fields of Work is not the idle session.               *)
LEMMA WorkIsNotIdle ==
  ASSUME NEW s \in Work
  PROVE  s # Idle
<1>1. s.pc # "idle"
  BY DEF Work
<1>2. Idle.pc = "idle"
  BY DEF Idle
<1>. QED
  BY <1>1, <1>2

(* Rows of the two tables are told apart.                                  *)
LEMMA Rows ==
  /\ \A u \in Users : UserRow(u) \in DbRow
  /\ \A k \in Tokens : TokenRow(k) \in DbRow
  /\ \A u, k : UserRow(u) # TokenRow(k)
  /\ \A u, v : UserRow(u) = UserRow(v) => u = v
  /\ \A j, k : TokenRow(j) = TokenRow(k) => j = k
  /\ \A u : UserRow(u).table = "users" /\ UserRow(u).id = u
  /\ \A k : TokenRow(k).table = "refresh_tokens" /\ TokenRow(k).id = k
<1>1. /\ \A u : UserRow(u).table = "users" /\ UserRow(u).id = u
      /\ \A k : TokenRow(k).table = "refresh_tokens" /\ TokenRow(k).id = k
  BY DEF UserRow, TokenRow
<1>2. "users" # "refresh_tokens"
  OBVIOUS
<1>3. /\ \A u \in Users : UserRow(u) \in DbRow
      /\ \A k \in Tokens : TokenRow(k) \in DbRow
  BY DEF DbRow
<1>4. \A u, k : UserRow(u) # TokenRow(k)
  BY <1>1, <1>2
<1>5. /\ \A u, v : UserRow(u) = UserRow(v) => u = v
      /\ \A j, k : TokenRow(j) = TokenRow(k) => j = k
  BY <1>1
<1>. QED
  BY <1>1, <1>3, <1>4, <1>5

(* Of a row of DbRow: whose it is and in which table.                      *)
LEMMA RowCases ==
  ASSUME NEW x \in DbRow
  PROVE  \/ \E u \in Users : x = UserRow(u)
         \/ \E k \in Tokens : x = TokenRow(k)
  BY DEF DbRow

-----------------------------------------------------------------------------
(* The bound on exchanges, as a fact about finite sets: requests that have *)
(* read a token are no more than there are requests.                       *)
LEMMA PendingFinite ==
  ASSUME NEW k
  PROVE  /\ IsFiniteSet(Pending(k))
         /\ Cardinality(Pending(k)) \in Nat
         /\ Cardinality(Pending(k)) <= Cardinality(Requests)
         /\ Cardinality(Requests) \in Nat
<1>1. Pending(k) \in SUBSET Requests
  BY DEF Pending, Busy
<1>. QED
  BY <1>1, RequestsAssumption, FS_Subset, FS_CardinalityType

(* When no request starts to exchange k, as many can follow as before.     *)
LEMMA PendingShrinks ==
  ASSUME NEW k, Pending(k)' \subseteq Pending(k)
  PROVE  /\ Cardinality(Pending(k)') \in Nat
         /\ Cardinality(Pending(k)') <= Cardinality(Pending(k))
<1>1. IsFiniteSet(Pending(k)) /\ Pending(k)' \in SUBSET Pending(k)
  BY PendingFinite
<1>. QED
  BY <1>1, FS_Subset, FS_CardinalityType

-----------------------------------------------------------------------------
(* Initially there is no token and no request.                             *)
LEMMA InitInv == Init => IInv
<1>. SUFFICES ASSUME Init PROVE IInv
  OBVIOUS
<1>1. Busy = {} /\ DOMAIN token = {}
  BY DEF Init, Busy
<1>2. TypeOK
  BY <1>1 DEF Init, TypeOK, User
<1>3. ExchangesBounded
  <2>. SUFFICES ASSUME NEW k \in Tokens
                PROVE  /\ exchanged[k] = 0
                       /\ exchanged[k] + Cardinality(Pending(k)) <= Cardinality(Requests)
    BY DEF ExchangesBounded
  <2>. QED
    BY PendingFinite DEF Init
<1>. QED
  BY <1>1, <1>2, <1>3 DEF IInv, ChangeRevokesEarlierTokens

(* Slot r is given the session s, or freed; the others are as they were.   *)
LEMMA SlotChanged ==
  ASSUME TypeOK, NEW r \in Requests, NEW s \in Work \cup {Idle},
         session' = [session EXCEPT ![r] = s]
  PROVE  /\ session' \in [Requests -> Work \cup {Idle}]
         /\ session'[r] = s
         /\ \A q \in Requests \ {r} : session'[q] = session[q]
         /\ s = Idle => Busy' = Busy \ {r}
         /\ s # Idle => Busy' = Busy \cup {r}
  BY DEF TypeOK, Busy

(* A step of slot r that leaves the tables alone and exchanges no token it *)
(* was not already exchanging, except one that has not been revoked.       *)
LEMMA SlotStep ==
  ASSUME IInv, NEW r \in Requests, NEW s \in Work \cup {Idle},
         session' = [session EXCEPT ![r] = s],
         UNCHANGED <<user, token, exchanged>>,
         s # Idle => WorkOK(s),
         s # Idle /\ s.op = "refresh" =>
           \/ r \in Busy /\ session[r].op = "refresh" /\ session[r].token = s.token
           \/ r \notin Busy /\ ~token[s.token].is_revoked
  PROVE  /\ IInv'
         /\ \A k \in DOMAIN token : token[k].is_revoked => Pending(k)' \subseteq Pending(k)
<1>. USE DEF IInv
<1>1. /\ session' \in [Requests -> Work \cup {Idle}]
      /\ session'[r] = s
      /\ \A q \in Requests \ {r} : session'[q] = session[q]
      /\ s = Idle => Busy' = Busy \ {r}
      /\ s # Idle => Busy' = Busy \cup {r}
  BY SlotChanged
<1>2. TypeOK'
  BY <1>1 DEF TypeOK
<1>3. \A q \in Busy' : q \in Requests /\ session'[q] # Idle /\ (q # r => q \in Busy)
  BY <1>1 DEF Busy
<1>4. \A q \in Busy' : WorkOK(session'[q])
  BY <1>1, <1>3
<1>5. (\A q \in Busy : WorkOK(session[q]))'
  BY <1>4 DEF WorkOK, UserRow, TokenRow, Precedes
<1>6. ASSUME NEW k
      PROVE  \/ Pending(k)' \subseteq Pending(k)
             \/ /\ Pending(k)' \subseteq Pending(k) \cup {r} /\ r \notin Pending(k)
                /\ s # Idle /\ s.op = "refresh" /\ s.token = k /\ ~token[k].is_revoked
  <2>1. Pending(k)' \subseteq Pending(k) \cup {r}
    BY <1>1, <1>3 DEF Pending
  <2>2. CASE r \notin Pending(k)'
    BY <2>1, <2>2
  <2>3. CASE r \in Pending(k)'
    <3>1. s # Idle /\ s.op = "refresh" /\ s.token = k
      BY <1>1, <1>3, <2>3 DEF Pending
    <3>2. CASE r \in Busy /\ session[r].op = "refresh" /\ session[r].token = s.token
      BY <2>1, <3>1, <3>2 DEF Pending
    <3>3. CASE r \notin Busy /\ ~token[s.token].is_revoked
      BY <2>1, <3>1, <3>3 DEF Pending
    <3>. QED
      BY <3>1, <3>2, <3>3
  <2>. QED
    BY <2>2, <2>3
<1>7. ExchangesBounded'
  <2>. SUFFICES ASSUME NEW k \in Tokens
                PROVE  /\ exchanged[k] > 0 => k \in DOMAIN token /\ token[k].is_revoked
                       /\ exchanged[k] + Cardinality(Pending(k)') <= Cardinality(Requests)
    BY DEF ExchangesBounded
  <2>1. /\ exchanged[k] > 0 => k \in DOMAIN token /\ token[k].is_revoked
        /\ exchanged[k] + Cardinality(Pending(k)) <= Cardinality(Requests)
        /\ exchanged[k] \in Nat
    BY DEF ExchangesBounded, TypeOK
  <2>2. CASE Pending(k)' \subseteq Pending(k)
    BY <2>1, <2>2, PendingShrinks, PendingFinite
  <2>3. CASE ~(Pending(k)' \subseteq Pending(k))
    <3>1. exchanged[k] = 0
      BY <1>6, <2>1, <2>3
    <3>2. Pending(k)' \in SUBSET Requests
      BY <1>3 DEF Pending
    <3>3. /\ Cardinality(Pending(k)') <= Cardinality(Requests)
          /\ Cardinality(Pending(k)') \in Nat
      BY <3>2, RequestsAssumption, FS_Subset, FS_CardinalityType
    <3>. QED
      BY <2>1, <3>1, <3>3
  <2>. QED
    BY <2>2, <2>3
<1>8. ChangeRevokesEarlierTokens'
  BY DEF ChangeRevokesEarlierTokens
<1>. QED
  BY <1>2, <1>5, <1>6, <1>7, <1>8

-----------------------------------------------------------------------------
(* The handlers, each up to its first wait.                                *)

(* What every handler opens: nothing is locked, and a password change      *)
(* remembers the tokens of its user.                                       *)
LEMMA OpenInv ==
  ASSUME IInv, NEW r \in Requests, NEW pc \in {"select", "write"}, NEW op \in Op,
         NEW u \in Users, NEW k \in Tokens \cup {Null}, NEW p \in Passwords \cup {Null},
         NEW todo \in SUBSET DbRow,
         Open(r, pc, op, u, k, p, todo),
         op \in {"login", "change_password"} => p \in Passwords,
         op = "login" => k \in Tokens,
         pc = "select" => op \in {"refresh", "change_password"},
         op = "change_password" => pc = "select",
         op = "refresh" => /\ k \in DOMAIN token /\ ~token[k].is_revoked
                           /\ TokenRow(k) \in todo,
         \A x \in todo : x.table = "users" => x = UserRow(u)
  PROVE  /\ IInv'
         /\ \A j \in DOMAIN token : token[j].is_revoked => Pending(j)' \subseteq Pending(j)
         /\ UNCHANGED <<user, token>>
<1>. DEFINE earlier == IF op = "change_password"
                         THEN {j \in DOMAIN token : token[j].user = u} ELSE {}
            s == [pc |-> pc, op |-> op, user |-> u, token |-> k, password |-> p,
                  todo |-> todo, held |-> {}, earlier |-> earlier]
<1>1. /\ session[r] = Idle /\ session' = [session EXCEPT ![r] = s]
      /\ UNCHANGED <<user, token, exchanged>>
  BY DEF Open
<1>2. earlier \subseteq Tokens /\ (\A j \in earlier : j \in DOMAIN token /\ token[j].user = u)
  BY DEF IInv, TypeOK
<1>3. s \in Work
  BY <1>2 DEF Work
<1>4. WorkOK(s)
  BY <1>2 DEF WorkOK
<1>5. r \notin Busy
  BY <1>1 DEF Busy
<1>. HIDE DEF earlier
<1>. QED
  BY <1>1, <1>3, <1>4, <1>5, SlotStep

(* A step of a handler of any kind keeps the invariant, takes hold of no   *)
(* revoked token and changes no table.                                     *)
LEMMA HandlerInv ==
  ASSUME IInv, NEW r \in Requests, Handler(r)
  PROVE  /\ IInv'
         /\ \A j \in DOMAIN token : token[j].is_revoked => Pending(j)' \subseteq Pending(j)
         /\ UNCHANGED <<user, token>>
<1>. DEFINE Goal == /\ IInv'
                    /\ \A j \in DOMAIN token :
                         token[j].is_revoked => Pending(j)' \subseteq Pending(j)
                    /\ UNCHANGED <<user, token>>
<1>. USE DEF Op
<1>1. \A j \in DOMAIN token : j \in Tokens /\ token[j].user \in Users
  BY DEF IInv, TypeOK, Token
<1>2. ASSUME NEW u \in Users, NEW p \in Passwords, NEW k \in Tokens, login_user(r, u, p, k)
      PROVE  Goal
  <2>1. {UserRow(u)} \in SUBSET DbRow
    BY Rows
  <2>2. Open(r, "write", "login", u, k, p, {UserRow(u)})
    BY <1>2 DEF login_user
  <2>. QED
    BY <2>1, <2>2, OpenInv
<1>3. ASSUME NEW k \in Tokens, refresh_access_token(r, k)
      PROVE  Goal
  <2>1. /\ {TokenRow(k)} \in SUBSET DbRow
        /\ \A x \in {TokenRow(k)} : x.table # "users"
    BY Rows
  <2>2. /\ k \in DOMAIN token /\ ~token[k].is_revoked
        /\ Open(r, "select", "refresh", token[k].user, k, Null, {TokenRow(k)})
    BY <1>3 DEF refresh_access_token
  <2>. QED
    BY <1>1, <2>1, <2>2, OpenInv
<1>4. ASSUME NEW k \in Tokens, logout_user(r, k)
      PROVE  Goal
  <2>. DEFINE todo == IF token[k].is_revoked THEN {} ELSE {TokenRow(k)}
  <2>1. todo \in SUBSET DbRow /\ \A x \in todo : x.table # "users"
    BY Rows
  <2>2. k \in DOMAIN token /\ Open(r, "write", "logout", token[k].user, k, Null, todo)
    BY <1>4 DEF logout_user
  <2>. DEFINE u == token[k].user
  <2>3. u \in Users
    BY <1>1, <2>2
  <2>. HIDE DEF todo, u
  <2>4. /\ "write" \in {"select", "write"} /\ "logout" \in Op
        /\ k \in Tokens \cup {Null} /\ Null \in Passwords \cup {Null}
        /\ \A x \in todo : x.table = "users" => x = UserRow(u)
    BY <2>1
  <2>5. Open(r, "write", "logout", u, k, Null, todo)
    BY <2>2 DEF u
  <2>. HIDE DEF Op
  <2>. QED
    BY <2>1, <2>3, <2>4, <2>5, OpenInv
<1>5. ASSUME NEW u \in Users, NEW p \in Passwords, change_password(r, u, p)
      PROVE  Goal
  <2>1. {UserRow(u)} \in SUBSET DbRow
    BY Rows
  <2>2. Open(r, "select", "change_password", u, Null, p, {UserRow(u)})
    BY <1>5 DEF change_password
  <2>. QED
    BY <2>1, <2>2, OpenInv
<1>6. ASSUME NEW u \in Users, NEW op \in {"activate", "deactivate"}, set_active(r, u, op)
      PROVE  Goal
  <2>. DEFINE todo == IF user[u].is_active = (op = "activate") THEN {} ELSE {UserRow(u)}
  <2>1. todo \in SUBSET DbRow /\ \A x \in todo : x = UserRow(u)
    BY Rows
  <2>2. Open(r, "write", op, u, Null, Null, todo)
    BY <1>6 DEF set_active
  <2>. HIDE DEF todo
  <2>. QED
    BY <2>1, <2>2, OpenInv
<1>. QED
  BY <1>2, <1>3, <1>4, <1>5, <1>6 DEF Handler

-----------------------------------------------------------------------------
(* The steps of a transaction                                              *)

(* The owner is looked up: the refresh goes on to write, or is refused.    *)
LEMMA SelectOwnerInv ==
  ASSUME IInv, NEW r \in Requests, select_owner(r)
  PROVE  /\ IInv'
         /\ \A k \in DOMAIN token : token[k].is_revoked => Pending(k)' \subseteq Pending(k)
<1>. DEFINE s == session[r]
            s1 == IF user[s.user].is_active THEN [s EXCEPT !.pc = "write"] ELSE Idle
<1>1. /\ r \in Busy /\ s.op = "refresh" /\ s.pc = "select" /\ TypeOK
      /\ UNCHANGED <<user, token, exchanged>>
  BY DEF select_owner, IInv
<1>2. session' = [session EXCEPT ![r] = s1]
  BY <1>1 DEF select_owner, TypeOK
<1>3. s \in Work /\ WorkOK(s)
  BY <1>1, BusyWork DEF IInv
<1>4. /\ s1 \in Work \cup {Idle}
      /\ s1 # Idle => /\ s1.op = s.op /\ s1.token = s.token /\ s1.todo = s.todo
                      /\ s1.held = s.held /\ s1.earlier = s.earlier /\ s1.user = s.user
                      /\ s1.password = s.password /\ s1.pc = "write"
  BY <1>3 DEF Work
<1>. HIDE DEF s1
<1>5. s1 # Idle => WorkOK(s1)
  BY <1>1, <1>3, <1>4 DEF WorkOK
<1>. QED
  BY <1>1, <1>2, <1>4, <1>5, SlotStep

(* The tokens are listed: each of an earlier login is revoked already, or  *)
(* from now on to be revoked.                                              *)
LEMMA SelectTokensInv ==
  ASSUME IInv, NEW r \in Requests, select_tokens(r)
  PROVE  /\ IInv'
         /\ \A k \in DOMAIN token : token[k].is_revoked => Pending(k)' \subseteq Pending(k)
<1>. DEFINE s == session[r]
            alive == {k \in DOMAIN token : token[k].user = s.user /\ ~token[k].is_revoked}
            listed == {TokenRow(k) : k \in alive}
            s1 == [s EXCEPT !.pc = "write", !.todo = s.todo \cup listed]
<1>1. /\ r \in Busy /\ s.op = "change_password" /\ s.pc = "select" /\ TypeOK
      /\ UNCHANGED <<user, token, exchanged>>
  BY DEF select_tokens, IInv
<1>2. session' = [session EXCEPT ![r] = s1]
  BY DEF select_tokens
<1>3. s \in Work /\ WorkOK(s)
  BY <1>1, BusyWork DEF IInv
<1>4. /\ listed \subseteq DbRow /\ (\A x \in listed : x.table # "users")
      /\ \A k \in DOMAIN token :
           token[k].user = s.user /\ ~token[k].is_revoked => TokenRow(k) \in listed
  BY <1>1, Rows DEF TypeOK
<1>. HIDE DEF listed
<1>5. /\ s1 \in Work
      /\ s1.op = s.op /\ s1.token = s.token /\ s1.todo = s.todo \cup listed
      /\ s1.held = s.held /\ s1.earlier = s.earlier /\ s1.user = s.user
      /\ s1.password = s.password /\ s1.pc = "write"
  BY <1>3, <1>4 DEF Work
<1>. HIDE DEF s1
<1>6. WorkOK(s1)
  BY <1>1, <1>3, <1>4, <1>5 DEF WorkOK
<1>. QED
  BY <1>1, <1>2, <1>5, <1>6, SlotStep

(* The row a transaction updates next precedes all it is still to update.  *)
LEMMA NextRowPrecedes ==
  ASSUME NEW s \in Work, WorkOK(s), NEW x \in NextRow(s), NEW y \in s.todo \ {x}
  PROVE  Precedes(x, y)
<1>1. x \in DbRow /\ y \in DbRow /\ x \in s.todo
  BY DEF Work, NextRow
<1>2. CASE \E u \in Users : y = UserRow(u)
  <2>1. y = UserRow(s.user) /\ y.table = "users"
    BY <1>1, <1>2, Rows DEF WorkOK
  <2>2. x.table = "users"
    BY <1>1, <2>1, Rows DEF NextRow
  <2>. QED
    BY <1>1, <2>1, <2>2 DEF WorkOK
<1>3. CASE \E k \in Tokens : y = TokenRow(k)
  <2>1. PICK k \in Tokens : y = TokenRow(k)
    BY <1>3
  <2>2. CASE x.table = "users"
    BY <2>1, <2>2, Rows DEF Precedes
  <2>3. CASE x.table # "users"
    <3>1. PICK j \in Tokens : x = TokenRow(j)
      BY <1>1, <2>3, RowCases, Rows
    <3>2. j <= k /\ j # k
      BY <1>1, <2>1, <2>3, <3>1, Rows DEF NextRow
    <3>3. j \in Nat /\ k \in Nat
      BY TokensAssumption
    <3>. QED
      BY <2>1, <3>1, <3>2, <3>3, Rows DEF Precedes
  <2>. QED
    BY <2>2, <2>3
<1>. QED
  BY <1>1, <1>2, <1>3, RowCases

(* A row is updated and locked.                                            *)
LEMMA UpdateRowInv ==
  ASSUME IInv, NEW r \in Requests, update_row(r)
  PROVE  /\ IInv'
         /\ \A k \in DOMAIN token : token[k].is_revoked => Pending(k)' \subseteq Pending(k)
<1>. DEFINE s == session[r]
<1>1. PICK x \in NextRow(s) :
        session' = [session EXCEPT ![r] = [s EXCEPT !.todo = s.todo \ {x}, !.held = s.held \cup {x}]]
  BY DEF update_row
<1>. DEFINE s1 == [s EXCEPT !.todo = s.todo \ {x}, !.held = s.held \cup {x}]
<1>2. /\ r \in Busy /\ s.pc = "write" /\ TypeOK /\ UNCHANGED <<user, token, exchanged>>
      /\ session' = [session EXCEPT ![r] = s1]
  BY <1>1 DEF update_row, IInv, TypeOK
<1>3. s \in Work /\ WorkOK(s) /\ x \in s.todo
  BY <1>2, BusyWork DEF IInv, NextRow
<1>4. /\ s1 \in Work
      /\ s1.op = s.op /\ s1.token = s.token /\ s1.todo = s.todo \ {x}
      /\ s1.held = s.held \cup {x} /\ s1.earlier = s.earlier /\ s1.user = s.user
      /\ s1.password = s.password /\ s1.pc = s.pc
  BY <1>3 DEF Work
<1>. HIDE DEF s1
<1>5. s1.todo \cup s1.held = s.todo \cup s.held
  BY <1>3, <1>4
<1>6. \A y \in s1.held, z \in s1.todo : Precedes(y, z)
  BY <1>3, <1>4, NextRowPrecedes DEF WorkOK
<1>7. WorkOK(s1)
  BY <1>2, <1>3, <1>4, <1>5, <1>6 DEF WorkOK
<1>. QED
  BY <1>2, <1>3, <1>4, <1>7, SlotStep

(* A rollback frees the slot, and that is all.                             *)
LEMMA RollbackInv ==
  ASSUME IInv, NEW r \in Requests, rollback(r)
  PROVE  /\ IInv'
         /\ \A k \in DOMAIN token : token[k].is_revoked => Pending(k)' \subseteq Pending(k)
  BY SlotStep DEF rollback

(* Tokens expire: what is known of the requests in flight stays true.      *)
LEMMA ExpireInv ==
  ASSUME IInv, NEW k \in Tokens, expire(k)
  PROVE  /\ IInv'
         /\ UNCHANGED <<user, session>>
         /\ \A j \in DOMAIN token : /\ j \in DOMAIN token'
                                    /\ token'[j].is_revoked = token[j].is_revoked
<1>. USE DEF IInv
<1>1. /\ k \in DOMAIN token /\ token' = [token EXCEPT ![k].expired = TRUE]
      /\ UNCHANGED <<user, exchanged, session>>
  BY DEF expire
<1>2. /\ DOMAIN token' = DOMAIN token
      /\ \A j \in DOMAIN token :
           /\ token'[j] \in Token
           /\ token'[j].is_revoked = token[j].is_revoked
           /\ token'[j].outdated = token[j].outdated
           /\ token'[j].user = token[j].user
  <2>. SUFFICES ASSUME NEW j \in DOMAIN token
                PROVE  /\ token'[j] \in Token
                       /\ token'[j].is_revoked = token[j].is_revoked
                       /\ token'[j].outdated = token[j].outdated
                       /\ token'[j].user = token[j].user
    BY <1>1
  <2>1. token[j] \in Token
    BY DEF TypeOK
  <2>2. token'[j] = IF j = k THEN [token[j] EXCEPT !.expired = TRUE] ELSE token[j]
    BY <1>1
  <2>. QED
    BY <2>1, <2>2 DEF Token
<1>3. TypeOK'
  <2>1. token' \in [DOMAIN token' -> Token]
    BY <1>1, <1>2
  <2>. QED
    BY <1>1, <1>2, <2>1 DEF TypeOK
<1>4. ChangeRevokesEarlierTokens'
  BY <1>2 DEF ChangeRevokesEarlierTokens
<1>5. Busy' = Busy /\ \A j : Pending(j)' = Pending(j)
  BY <1>1 DEF Busy, Pending
<1>6. ExchangesBounded'
  BY <1>1, <1>2, <1>5 DEF ExchangesBounded
<1>7. \A q \in Busy : WorkOK(session[q])'
  BY <1>1, <1>2 DEF WorkOK, UserRow, TokenRow, Precedes
<1>8. (\A q \in Busy : WorkOK(session[q]))'
  BY <1>5, <1>7
<1>. QED
  BY <1>1, <1>2, <1>3, <1>4, <1>6, <1>8

-----------------------------------------------------------------------------
(* The commit                                                              *)

(* What a commit does to the tokens: those locked are revoked, those a     *)
(* password change found are outdated, and nothing else.                   *)
LEMMA CommitTokens ==
  ASSUME IInv, NEW r \in Requests, commit(r)
  PROVE  /\ DOMAIN token \subseteq DOMAIN token'
         /\ DOMAIN token' \subseteq Tokens
         /\ token' \in [DOMAIN token' -> Token]
         /\ \A k \in DOMAIN token :
              /\ token'[k].user = token[k].user
              /\ token'[k].is_revoked = (token[k].is_revoked \/ TokenRow(k) \in session[r].held)
              /\ token'[k].outdated = (token[k].outdated \/ k \in session[r].earlier)
         /\ \A k \in DOMAIN token' \ DOMAIN token :
              ~token'[k].outdated /\ session[r].op = "login"
<1>. DEFINE s == session[r]
            D == DOMAIN token \cup (IF s.op = "login" THEN {s.token} ELSE {})
            new == [user |-> s.user, is_revoked |-> FALSE, expired |-> FALSE,
                    password |-> s.password, outdated |-> FALSE]
<1>1. /\ r \in Busy /\ s \in Work /\ WorkOK(s) /\ TypeOK
  BY BusyWork DEF commit, IInv
<1>2. token' = [k \in D |->
        IF k \notin DOMAIN token THEN new
        ELSE [token[k] EXCEPT !.is_revoked = @ \/ TokenRow(k) \in s.held,
                              !.outdated = @ \/ k \in s.earlier]]
  BY DEF commit, TokenAfter
<1>3. s.op = "login" => s.token \in Tokens /\ s.password \in Passwords
  BY <1>1 DEF WorkOK, Work, IInv
<1>4. s.op = "login" => new \in Token
  BY <1>1, <1>3 DEF Work, Token
<1>5. ASSUME NEW k \in DOMAIN token
      PROVE  /\ token'[k] \in Token
             /\ token'[k].user = token[k].user
             /\ token'[k].is_revoked = (token[k].is_revoked \/ TokenRow(k) \in s.held)
             /\ token'[k].outdated = (token[k].outdated \/ k \in s.earlier)
  <2>. DEFINE a == token[k].is_revoked \/ TokenRow(k) \in s.held
              b == token[k].outdated \/ k \in s.earlier
  <2>1. token[k] \in Token
    BY <1>1 DEF TypeOK
  <2>2. token'[k] = [token[k] EXCEPT !.is_revoked = a, !.outdated = b]
    BY <1>2
  <2>3. a \in BOOLEAN /\ b \in BOOLEAN
    BY <2>1 DEF Token
  <2>. HIDE DEF a, b
  <2>4. /\ token'[k] \in Token /\ token'[k].user = token[k].user
        /\ token'[k].is_revoked = a /\ token'[k].outdated = b
    BY <2>1, <2>2, <2>3 DEF Token
  <2>. QED
    BY <2>4 DEF a, b
<1>6. ASSUME NEW k \in D \ DOMAIN token
      PROVE  /\ token'[k] = new /\ s.op = "login"
  BY <1>2
<1>7. D \subseteq Tokens
  BY <1>1, <1>3 DEF TypeOK
<1>8. token' \in [D -> Token]
  BY <1>2, <1>4, <1>5, <1>6
<1>. QED
  BY <1>2, <1>5, <1>6, <1>7, <1>8

(* What a commit does to the accounts: the columns hold passwords and      *)
(* flags, whatever was written.                                            *)
LEMMA CommitUsers ==
  ASSUME IInv, NEW r \in Requests, commit(r)
  PROVE  user' \in [Users -> User]
<1>. DEFINE s == session[r]
<1>1. s \in Work /\ WorkOK(s) /\ TypeOK
  BY BusyWork DEF commit, IInv
<1>2. user' = UserAfter(s)
  BY DEF commit
<1>3. s.op = "change_password" => s.password \in Passwords
  BY <1>1 DEF WorkOK
<1>4. ASSUME NEW u \in Users
      PROVE  UserAfter(s)[u] \in User
  BY <1>1, <1>3 DEF UserAfter, User, TypeOK
<1>. QED
  BY <1>2, <1>4 DEF UserAfter

(* A commit frees its slot; a refresh counts one more exchange of a token  *)
(* that is now revoked, and is no longer pending.                          *)
LEMMA CommitInv ==
  ASSUME IInv, NEW r \in Requests, commit(r)
  PROVE  /\ IInv'
         /\ \A k \in DOMAIN token : token[k].is_revoked =>
              /\ k \in DOMAIN token' /\ token'[k].is_revoked
              /\ Pending(k)' \subseteq Pending(k)
<1>. DEFINE s == session[r]
<1>1. /\ r \in Busy /\ s.pc = "write" /\ s.todo = {} /\ TypeOK
      /\ session' = [session EXCEPT ![r] = Idle]
      /\ exchanged' = IF s.op = "refresh"
                        THEN [exchanged EXCEPT ![s.token] = exchanged[s.token] + 1] ELSE exchanged
  BY DEF commit, IInv, TypeOK
<1>2. s \in Work /\ WorkOK(s)
  BY <1>1, BusyWork DEF IInv
<1>3. /\ session' \in [Requests -> Work \cup {Idle}]
      /\ \A q \in Requests \ {r} : session'[q] = session[q]
      /\ Busy' = Busy \ {r}
  BY <1>1, SlotChanged
<1>4. \A k : Pending(k)' = Pending(k) \ {r}
  BY <1>3 DEF Pending, Busy
<1>5. s.op = "refresh" => /\ s.token \in DOMAIN token /\ s.token \in Tokens
                          /\ TokenRow(s.token) \in s.held
  BY <1>1, <1>2 DEF WorkOK, TypeOK
<1>6. exchanged' \in [Tokens -> Nat]
  BY <1>1, <1>5 DEF TypeOK
<1>7. TypeOK'
  BY <1>3, <1>6, CommitUsers, CommitTokens DEF TypeOK
<1>8. \A k \in DOMAIN token : token[k].is_revoked =>
        k \in DOMAIN token' /\ token'[k].is_revoked
  BY CommitTokens
<1>9. ChangeRevokesEarlierTokens'
  <2>. SUFFICES ASSUME NEW k \in DOMAIN token', token'[k].outdated
                PROVE  token'[k].is_revoked
    BY DEF ChangeRevokesEarlierTokens
  <2>1. k \in DOMAIN token /\ (token[k].outdated \/ k \in s.earlier)
    BY CommitTokens
  <2>2. CASE token[k].outdated
    BY <1>8, <2>1, <2>2 DEF IInv, ChangeRevokesEarlierTokens
  <2>3. CASE k \in s.earlier
    <3>1. token[k].is_revoked \/ TokenRow(k) \in s.held
      BY <1>1, <1>2, <2>3 DEF WorkOK
    <3>. QED
      BY <2>1, <3>1, CommitTokens
  <2>. QED
    BY <2>1, <2>2, <2>3
<1>10. ExchangesBounded'
  <2>. SUFFICES ASSUME NEW k \in Tokens
                PROVE  /\ exchanged'[k] > 0 => k \in DOMAIN token' /\ token'[k].is_revoked
                       /\ exchanged'[k] + Cardinality(Pending(k)') <= Cardinality(Requests)
    BY DEF ExchangesBounded
  <2>1. /\ exchanged[k] > 0 => k \in DOMAIN token /\ token[k].is_revoked
        /\ exchanged[k] + Cardinality(Pending(k)) <= Cardinality(Requests)
        /\ exchanged[k] \in Nat
    BY <1>1 DEF IInv, ExchangesBounded, TypeOK
  <2>2. CASE s.op = "refresh" /\ s.token = k
    <3>1. exchanged'[k] = exchanged[k] + 1
      BY <1>1, <2>2 DEF TypeOK
    <3>2. k \in DOMAIN token' /\ token'[k].is_revoked
      BY <1>5, <2>2, CommitTokens
    <3>3. r \in Pending(k)
      BY <1>1, <2>2 DEF Pending
    <3>4. Cardinality(Pending(k)') = Cardinality(Pending(k)) - 1
      BY <1>4, <3>3, PendingFinite, FS_RemoveElement
    <3>. QED
      BY <2>1, <3>1, <3>2, <3>4, PendingFinite
  <2>3. CASE ~(s.op = "refresh" /\ s.token = k)
    <3>1. exchanged'[k] = exchanged[k]
      BY <1>1, <2>3 DEF TypeOK
    <3>2. Pending(k)' \subseteq Pending(k)
      BY <1>4
    <3>. QED
      BY <1>8, <2>1, <3>1, <3>2, PendingShrinks, PendingFinite
  <2>. QED
    BY <2>2, <2>3
<1>11. (\A q \in Busy : WorkOK(session[q]))'
  <2>. SUFFICES ASSUME NEW q \in Busy'
                PROVE  WorkOK(session[q])'
    OBVIOUS
  <2>1. q \in Busy /\ session'[q] = session[q] /\ WorkOK(session[q])
    BY <1>3 DEF Busy, IInv
  <2>2. \A k \in DOMAIN token :
          /\ k \in DOMAIN token' /\ token'[k].user = token[k].user
          /\ token[k].is_revoked => token'[k].is_revoked
    BY CommitTokens
  <2>. QED
    BY <2>1, <2>2 DEF WorkOK, UserRow, TokenRow, Precedes
<1>. QED
  BY <1>4, <1>7, <1>8, <1>9, <1>10, <1>11 DEF IInv

-----------------------------------------------------------------------------
(* The theorems                                                            *)

(* Every step keeps the invariant, and what has been revoked is over.      *)
LEMMA NextInv ==
  ASSUME IInv, [Next]_vars
  PROVE  /\ IInv'
         /\ \A k \in DOMAIN token : token[k].is_revoked =>
              token'[k].is_revoked /\ Pending(k)' \subseteq Pending(k)
<1>. DEFINE Goal == /\ IInv'
                    /\ \A k \in DOMAIN token : token[k].is_revoked =>
                         token'[k].is_revoked /\ Pending(k)' \subseteq Pending(k)
<1>1. ASSUME NEW r \in Requests, Handler(r) PROVE Goal
  BY <1>1, HandlerInv
<1>2. ASSUME NEW r \in Requests, select_owner(r) PROVE Goal
  BY <1>2, SelectOwnerInv DEF select_owner
<1>3. ASSUME NEW r \in Requests, select_tokens(r) PROVE Goal
  BY <1>3, SelectTokensInv DEF select_tokens
<1>4. ASSUME NEW r \in Requests, update_row(r) PROVE Goal
  BY <1>4, UpdateRowInv DEF update_row
<1>5. ASSUME NEW r \in Requests, commit(r) PROVE Goal
  BY <1>5, CommitInv
<1>6. ASSUME NEW r \in Requests, rollback(r) PROVE Goal
  BY <1>6, RollbackInv DEF rollback
<1>7. ASSUME NEW k \in Tokens, expire(k) PROVE Goal
  <2>1. \A j : Pending(j)' = Pending(j)
    BY <1>7, ExpireInv DEF Pending, Busy
  <2>. QED
    BY <1>7, <2>1, ExpireInv
<1>8. CASE UNCHANGED vars
  <2>1. \A j : Pending(j)' = Pending(j)
    BY <1>8 DEF vars, Pending, Busy
  <2>2. TypeOK' /\ ChangeRevokesEarlierTokens'
    BY <1>8 DEF vars, IInv, TypeOK, ChangeRevokesEarlierTokens
  <2>3. ExchangesBounded'
    BY <1>8, <2>1 DEF vars, IInv, ExchangesBounded
  <2>4. (\A q \in Busy : WorkOK(session[q]))'
    BY <1>8 DEF vars, IInv, WorkOK, Busy, UserRow, TokenRow, Precedes
  <2>. QED
    BY <1>8, <2>1, <2>2, <2>3, <2>4 DEF vars, IInv
<1>. QED
  BY <1>1, <1>2, <1>3, <1>4, <1>5, <1>6, <1>7, <1>8 DEF Next, Proceed

(* The inductive invariant holds throughout.                               *)
THEOREM Invariance == Spec => []IInv
<1>1. IInv /\ [Next]_vars => IInv'
  BY NextInv
<1>. QED
  BY InitInv, <1>1, PTL DEF Spec

(* The bound on exchanges.                                                 *)
THEOREM ExchangesBoundedCorrect == Spec => []ExchangesBounded
<1>1. IInv => ExchangesBounded
  BY DEF IInv
<1>. QED
  BY Invariance, <1>1, PTL

(* What a password change found is revoked when it has been answered.      *)
THEOREM ChangeRevokesEarlierTokensCorrect == Spec => []ChangeRevokesEarlierTokens
<1>1. IInv => ChangeRevokesEarlierTokens
  BY DEF IInv
<1>. QED
  BY Invariance, <1>1, PTL

(* No token is revived, and none is picked up once it is revoked.          *)
THEOREM RevocationIsFinalCorrect == Spec => RevocationIsFinal
<1>1. IInv /\ [Next]_vars =>
        [ \A k \in DOMAIN token : token[k].is_revoked =>
            token'[k].is_revoked /\ Pending(k)' \subseteq Pending(k) ]_vars
  BY NextInv
<1>. QED
  BY Invariance, <1>1, PTL DEF Spec, RevocationIsFinal

(* A step serves a deactivated account no request it was not serving:      *)
(* login and change_password look at is_active when they start, a refresh  *)
(* when it loads the owner.                                                *)
LEMMA ServingShrinks ==
  ASSUME TypeOK, NEW u \in Users, ~user[u].is_active, [Next]_vars
  PROVE  Serving(u)' \subseteq Serving(u)
<1>. SUFFICES ASSUME NEW q \in Serving(u)'
              PROVE  q \in Serving(u)
  OBVIOUS
<1>1. /\ q \in Requests /\ session'[q] # Idle /\ session'[q].user = u
      /\ \/ session'[q].op \in {"login", "change_password"}
         \/ session'[q].op = "refresh" /\ session'[q].pc = "write"
  BY DEF Serving, Busy
<1>2. CASE session'[q] = session[q]
  BY <1>1, <1>2 DEF Serving, Busy
<1>3. ASSUME NEW r \in Requests, NEW pc, NEW op, NEW v, NEW k, NEW p, NEW todo,
             Open(r, pc, op, v, k, p, todo),
             op \in {"login", "change_password"} => user[v].is_active,
             op = "refresh" => pc # "write"
      PROVE  q \in Serving(u)
  <2>1. CASE q = r
    <3>1. /\ session'[q].op = op /\ session'[q].user = v /\ session'[q].pc = pc
      BY <1>3, <2>1 DEF Open, TypeOK
    <3>. QED
      BY <1>1, <1>3, <3>1
  <2>2. CASE q # r
    BY <1>2, <1>3, <2>2 DEF Open, TypeOK
  <2>. QED
    BY <2>1, <2>2
<1>4. ASSUME NEW r \in Requests, Handler(r) PROVE q \in Serving(u)
  <2>1. ASSUME NEW v \in Users, NEW p \in Passwords, NEW k \in Tokens, login_user(r, v, p, k)
        PROVE  q \in Serving(u)
    BY <1>3, <2>1 DEF login_user
  <2>2. ASSUME NEW k \in Tokens, refresh_access_token(r, k)
        PROVE  q \in Serving(u)
    BY <1>3, <2>2 DEF refresh_access_token
  <2>3. ASSUME NEW k \in Tokens, logout_user(r, k)
        PROVE  q \in Serving(u)
    BY <1>3, <2>3 DEF logout_user
  <2>4. ASSUME NEW v \in Users, NEW p \in Passwords, change_password(r, v, p)
        PROVE  q \in Serving(u)
    BY <1>3, <2>4 DEF change_password, CurrentUser
  <2>5. ASSUME NEW v \in Users, NEW op \in {"activate", "deactivate"}, set_active(r, v, op)
        PROVE  q \in Serving(u)
    BY <1>3, <2>5 DEF set_active
  <2>. QED
    BY <1>4, <2>1, <2>2, <2>3, <2>4, <2>5 DEF Handler
<1>5. ASSUME NEW r \in Requests, select_owner(r) PROVE q \in Serving(u)
  <2>1. /\ r \in Busy /\ session[r] \in Work
        /\ session' = [session EXCEPT ![r] = IF user[session[r].user].is_active
                          THEN [session[r] EXCEPT !.pc = "write"] ELSE Idle]
    BY <1>5, BusyWork DEF select_owner, TypeOK
  <2>2. CASE q = r
    <3>1. user[session[r].user].is_active /\ session'[r] = [session[r] EXCEPT !.pc = "write"]
      BY <1>1, <2>1, <2>2 DEF TypeOK
    <3>2. session'[r].user = session[r].user
      BY <2>1, <3>1 DEF Work
    <3>. QED
      BY <1>1, <2>2, <3>1, <3>2
  <2>3. CASE q # r
    BY <1>2, <2>1, <2>3 DEF TypeOK
  <2>. QED
    BY <2>2, <2>3
<1>6. ASSUME NEW r \in Requests, select_tokens(r) \/ update_row(r) PROVE q \in Serving(u)
  <2>1. PICK s1 \in Work : /\ s1.op = session[r].op /\ s1.user = session[r].user
                           /\ session[r].op = "refresh" => s1.pc = session[r].pc
                           /\ session' = [session EXCEPT ![r] = s1]
    <3>1. r \in Busy /\ session[r] \in Work
      BY <1>6, BusyWork DEF select_tokens, update_row
    <3>2. CASE select_tokens(r)
      <4>. DEFINE alive == {k \in DOMAIN token : /\ token[k].user = session[r].user
                                                 /\ ~token[k].is_revoked}
                  todo == session[r].todo \cup {TokenRow(k) : k \in alive}
      <4>1. todo \in SUBSET DbRow
        BY <3>1, Rows DEF Work, TypeOK
      <4>2. /\ session[r].op = "change_password"
            /\ session' = [session EXCEPT ![r] =
                             [session[r] EXCEPT !.pc = "write", !.todo = todo]]
        BY <3>2 DEF select_tokens
      <4>. HIDE DEF todo
      <4>3. [session[r] EXCEPT !.pc = "write", !.todo = todo] \in Work
        BY <3>1, <4>1 DEF Work
      <4>. QED
        BY <3>1, <4>2, <4>3 DEF Work
    <3>3. CASE update_row(r)
      <4>1. PICK x \in session[r].todo :
              session' = [session EXCEPT ![r] =
                [session[r] EXCEPT !.todo = session[r].todo \ {x},
                                   !.held = session[r].held \cup {x}]]
        BY <3>3 DEF update_row, NextRow
      <4>2. [session[r] EXCEPT !.todo = session[r].todo \ {x},
                               !.held = session[r].held \cup {x}] \in Work
        BY <3>1, <4>1 DEF Work
      <4>. QED
        BY <3>1, <4>1, <4>2 DEF Work
    <3>. QED
      BY <1>6, <3>2, <3>3
  <2>2. r \in Busy
    BY <1>6 DEF select_tokens, update_row
  <2>3. CASE q = r
    BY <1>1, <2>1, <2>2, <2>3 DEF TypeOK, Serving
  <2>4. CASE q # r
    BY <1>2, <2>1, <2>4 DEF TypeOK
  <2>. QED
    BY <2>3, <2>4
<1>7. ASSUME NEW r \in Requests, commit(r) \/ rollback(r) PROVE q \in Serving(u)
  BY <1>1, <1>2, <1>7 DEF commit, rollback, TypeOK
<1>8. ASSUME NEW k \in Tokens, expire(k) PROVE q \in Serving(u)
  BY <1>2, <1>8 DEF expire
<1>9. CASE UNCHANGED vars
  BY <1>2, <1>9 DEF vars
<1>. QED
  BY <1>4, <1>5, <1>6, <1>7, <1>8, <1>9 DEF Next, Proceed

(* A deactivated account is shut out.                                      *)
THEOREM DeactivationShutsOutCorrect == Spec => DeactivationShutsOut
<1>1. IInv /\ [Next]_vars =>
        [ \A u \in Users : ~user[u].is_active => Serving(u)' \subseteq Serving(u) ]_vars
  BY ServingShrinks DEF IInv
<1>. QED
  BY Invariance, <1>1, PTL DEF Spec, DeactivationShutsOut

-----------------------------------------------------------------------------
(* No circular wait                                                        *)

(* The order in which rows are locked is a strict one.                     *)
LEMMA PrecedesIsStrict ==
  /\ \A x \in DbRow : ~Precedes(x, x)
  /\ \A x, y, z \in DbRow : Precedes(x, y) /\ Precedes(y, z) => Precedes(x, z)
<1>1. \A x \in DbRow : x.table = "refresh_tokens" => x.id \in Nat
  BY Rows, RowCases, TokensAssumption
<1>2. \A x \in DbRow : ~Precedes(x, x)
  BY <1>1 DEF Precedes
<1>3. ASSUME NEW x \in DbRow, NEW y \in DbRow, NEW z \in DbRow,
             Precedes(x, y), Precedes(y, z)
      PROVE  Precedes(x, z)
  <2>1. y.table = "refresh_tokens" /\ z.table = "refresh_tokens" /\ y.id < z.id
    BY <1>3 DEF Precedes
  <2>2. CASE x.table = "users"
    BY <2>1, <2>2 DEF Precedes
  <2>3. CASE x.table # "users"
    <3>1. x.table = "refresh_tokens" /\ x.id < y.id
      BY <1>3, <2>3, Rows, RowCases DEF Precedes
    <3>. QED
      BY <1>1, <2>1, <3>1 DEF Precedes
  <2>. QED
    BY <2>2, <2>3
<1>. QED
  BY <1>2, <1>3

(* Of finitely many requests, one is at a row no other is past.            *)
LEMMA LastInOrder ==
  ASSUME NEW S, IsFiniteSet(S), S # {}, NEW f \in [S -> DbRow]
  PROVE  \E r \in S : \A q \in S : ~Precedes(f[r], f[q])
<1>. DEFINE Above(r) == {q \in S : Precedes(f[r], f[q])}
            T == {Above(r) : r \in S}
<1>1. IsWellFoundedOn(StrictSubsetOrdering(S), SUBSET S)
  BY FS_StrictSubsetOrderingWellFounded, FS_FiniteSubsetsOfFinite
<1>2. T \subseteq SUBSET S /\ T # {}
  <2>1. \A r \in S : Above(r) \in SUBSET S /\ Above(r) \in T
    OBVIOUS
  <2>. QED
    BY <2>1
<1>3. PICK A \in T : \A B \in T : ~(<<B, A>> \in StrictSubsetOrdering(S))
  <2>. HIDE DEF T
  <2>. QED
    BY <1>1, <1>2, WFMin
<1>4. PICK r \in S : A = Above(r)
  BY <1>3
<1>5. ASSUME NEW q \in S, Precedes(f[r], f[q])
      PROVE  FALSE
  <2>1. Above(q) \subseteq Above(r)
    BY <1>5, PrecedesIsStrict
  <2>2. q \in Above(r) /\ q \notin Above(q)
    BY <1>5, PrecedesIsStrict
  <2>3. Above(q) \in SUBSET S /\ Above(r) \in SUBSET S /\ Above(q) \in T
    OBVIOUS
  <2>4. Above(q) # Above(r)
    BY <2>2
  <2>. HIDE DEF Above, T
  <2>5. <<Above(q), Above(r)>> \in StrictSubsetOrdering(S)
    BY <2>1, <2>3, <2>4 DEF StrictSubsetOrdering
  <2>. QED
    BY <1>3, <1>4, <2>3, <2>5
<1>. QED
  BY <1>5

(* A transaction with rows to update has a next one.                       *)
LEMMA NextRowExists ==
  ASSUME NEW s \in Work, s.todo # {}
  PROVE  NextRow(s) # {}
<1>1. s.todo \subseteq DbRow
  BY DEF Work
<1>2. CASE \E u \in Users : UserRow(u) \in s.todo
  BY <1>2, Rows DEF NextRow
<1>3. CASE ~(\E u \in Users : UserRow(u) \in s.todo)
  <2>. DEFINE T == {k \in Tokens : TokenRow(k) \in s.todo}
  <2>1. T \subseteq Nat /\ T # {}
    BY <1>1, <1>3, RowCases, TokensAssumption
  <2>2. PICK k \in T : \A j \in T : ~(<<j, k>> \in OpToRel(<, Nat))
    <3>. HIDE DEF T
    <3>. QED
      BY <2>1, NatLessThanWellFounded, WFMin
  <2>3. \A j \in T : k <= j
    <3>1. \A j \in T : ~(j < k)
      BY <2>1, <2>2 DEF OpToRel
    <3>. QED
      BY <2>1, <3>1
  <2>4. \A y \in s.todo : y.table = "refresh_tokens" /\ k <= y.id
    BY <1>1, <1>3, <2>3, RowCases, Rows
  <2>5. TokenRow(k) \in NextRow(s)
    BY <2>4, Rows DEF NextRow
  <2>. QED
    BY <2>5
<1>. QED
  BY <1>2, <1>3

(* If every request waited, each for a row another has locked, the one     *)
(* waiting for the last row in order would wait for a request that has     *)
(* that row and waits for a still later one.                               *)
LEMMA NoCircularWait == IInv => SomeoneProceeds
<1>. SUFFICES ASSUME IInv, Busy # {},
                     \A r \in Busy : /\ session[r].pc # "select" /\ session[r].todo # {}
                                     /\ \A x \in NextRow(session[r]) : ~Free(x)
              PROVE  FALSE
  BY DEF SomeoneProceeds
<1>. DEFINE next == [r \in Busy |-> CHOOSE x \in NextRow(session[r]) : TRUE]
<1>1. \A r \in Busy : session[r] \in Work /\ WorkOK(session[r])
  BY BusyWork DEF IInv
<1>2. \A r \in Busy : next[r] \in NextRow(session[r]) /\ next[r] \in session[r].todo
  BY <1>1, NextRowExists DEF NextRow
<1>3. next \in [Busy -> DbRow]
  BY <1>1, <1>2 DEF Work
<1>4. IsFiniteSet(Busy)
  BY RequestsAssumption, FS_Subset DEF Busy
<1>. HIDE DEF next
<1>5. PICK r \in Busy : \A q \in Busy : ~Precedes(next[r], next[q])
  BY <1>3, <1>4, LastInOrder
<1>6. PICK q \in Busy : next[r] \in session[q].held
  BY <1>2 DEF Free
<1>7. Precedes(next[r], next[q])
  BY <1>1, <1>2, <1>6 DEF WorkOK
<1>. QED
  BY <1>5, <1>7

(* The row locks of requests in flight never form a circle.                *)
THEOREM SomeoneProceedsCorrect == Spec => []SomeoneProceeds
  BY Invariance, NoCircularWait, PTL
=============================================================================
