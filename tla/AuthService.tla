---------------------------- MODULE AuthService ----------------------------
(***************************************************************************)
(* Passwords and refresh tokens: auth_service.py, and the two operations   *)
(* of user_service.py that switch an account on and off.                   *)
(*                                                                         *)
(* Each request is a PostgreSQL transaction at READ COMMITTED: it SELECTs, *)
(* decides on what it read, and at the flush UPDATEs the rows it changed   *)
(* one by one, in the order of SQLAlchemy's unit of work (users before     *)
(* refresh_tokens, each table by primary key), holding every row lock to   *)
(* the commit.  Requests refused by their first SELECT change nothing and  *)
(* are not actions.                                                        *)
(***************************************************************************)
EXTENDS Naturals, FiniteSets

CONSTANTS
  Requests,     \* session slots
  Users,
  Passwords,
  Tokens,       \* primary keys of refresh_tokens: bound on logins
  Null

ASSUME TokensAssumption == Tokens \subseteq Nat /\ Null \notin Tokens

(* The connection pool bounds the transactions in flight.                  *)
ASSUME RequestsAssumption == IsFiniteSet(Requests)

VARIABLES
  user,         \* table users: password (standing for its hash), is_active
  token,        \* table refresh_tokens: the committed rows, by id
  exchanged,    \* history: access tokens issued for each refresh token
  session       \* the transaction of each request in flight

vars == <<user, token, exchanged, session>>

User == [password: Passwords, is_active: BOOLEAN]

(* expired stands for expires_at < now.  The last two are history, no      *)
(* columns: the password the login that made the token was given, and      *)
(* whether a password change has been answered that began after the login. *)
Token == [user: Users, is_revoked: BOOLEAN, expired: BOOLEAN,
          password: Passwords, outdated: BOOLEAN]

(* A row a transaction updates.                                            *)
UserRow(u) == [table |-> "users", id |-> u]
TokenRow(k) == [table |-> "refresh_tokens", id |-> k]
DbRow == {UserRow(u) : u \in Users} \cup {TokenRow(k) : k \in Tokens}

Op == {"login", "refresh", "logout", "change_password", "activate", "deactivate"}

(*   select   the second SELECT of refresh or change_password is to come   *)
(*   write    the handler is done; todo are the rows still to be UPDATEd,  *)
(*            held those it has updated and locked                         *)
(* earlier is history: the tokens a password change has found in the table.*)
Work == [pc: {"select", "write"}, op: Op, user: Users, token: Tokens \cup {Null},
         password: Passwords \cup {Null}, todo: SUBSET DbRow, held: SUBSET DbRow,
         earlier: SUBSET Tokens]

Idle == [pc |-> "idle"]

TypeOK ==
  /\ user \in [Users -> User]
  /\ DOMAIN token \subseteq Tokens
  /\ token \in [DOMAIN token -> Token]
  /\ exchanged \in [Tokens -> Nat]
  /\ session \in [Requests -> Work \cup {Idle}]

-----------------------------------------------------------------------------
Busy == {r \in Requests : session[r] # Idle}

Open(r, pc, op, u, k, p, todo) ==
  /\ session[r] = Idle
  /\ session' = [session EXCEPT ![r] =
       [pc |-> pc, op |-> op, user |-> u, token |-> k, password |-> p,
        todo |-> todo, held |-> {},
        earlier |-> IF op = "change_password"
                      THEN {j \in DOMAIN token : token[j].user = u} ELSE {}]]
  /\ UNCHANGED <<user, token, exchanged>>

(* POST /auth/login: the password is verified against the row as loaded;   *)
(* last_login is written to it and a new token inserted.                   *)
login_user(r, u, p, k) ==
  /\ user[u].password = p
  /\ user[u].is_active
  /\ k \notin DOMAIN token
  /\ \A q \in Busy : session[q].token # k
  /\ Open(r, "write", "login", u, k, p, {UserRow(u)})

(* Variant: the token is not revoked when it is exchanged.                 *)
refresh_access_token_kept(r, k) ==
  /\ k \in DOMAIN token
  /\ ~token[k].is_revoked
  /\ ~token[k].expired
  /\ Open(r, "select", "refresh", token[k].user, k, Null, {})

(* Variant: a token that has been revoked is still accepted.               *)
refresh_access_token_unchecked(r, k) ==
  /\ k \in DOMAIN token
  /\ ~token[k].expired
  /\ Open(r, "select", "refresh", token[k].user, k, Null, {TokenRow(k)})

(* POST /auth/refresh: the token must be known, not revoked, not expired.  *)
refresh_access_token(r, k) ==
  /\ k \in DOMAIN token
  /\ ~token[k].is_revoked
  /\ ~token[k].expired
  /\ Open(r, "select", "refresh", token[k].user, k, Null, {TokenRow(k)})

(* Variant: the owner's account is not checked.                            *)
select_owner_any(r) ==
  /\ r \in Busy
  /\ session[r].op = "refresh"
  /\ session[r].pc = "select"
  /\ session' = [session EXCEPT ![r] = [@ EXCEPT !.pc = "write"]]
  /\ UNCHANGED <<user, token, exchanged>>

(* ... whose second SELECT loads the owner: refused if deactivated.        *)
select_owner(r) ==
  /\ r \in Busy
  /\ session[r].op = "refresh"
  /\ session[r].pc = "select"
  /\ session' = [session EXCEPT ![r] =
       IF user[@.user].is_active THEN [@ EXCEPT !.pc = "write"] ELSE Idle]
  /\ UNCHANGED <<user, token, exchanged>>

(* POST /auth/logout: nothing to write for a token already revoked.        *)
logout_user(r, k) ==
  /\ k \in DOMAIN token
  /\ Open(r, "write", "logout", token[k].user, k, Null,
          IF token[k].is_revoked THEN {} ELSE {TokenRow(k)})

(* get_current_user: the bearer token's user is loaded and must be active. *)
CurrentUser(u) == user[u].is_active

(* PATCH /auth/me/password: the current password is verified against the   *)
(* row get_current_user loaded.  A hash is salted: the column changes      *)
(* whatever the new password is.                                           *)
change_password(r, u, new) ==
  /\ CurrentUser(u)
  /\ Open(r, "select", "change_password", u, Null, new, {UserRow(u)})

(* Variant: the tokens are left alone.                                     *)
select_tokens_none(r) ==
  /\ r \in Busy
  /\ session[r].op = "change_password"
  /\ session[r].pc = "select"
  /\ session' = [session EXCEPT ![r] = [@ EXCEPT !.pc = "write"]]
  /\ UNCHANGED <<user, token, exchanged>>

(* ... whose second SELECT loads the user's unrevoked tokens, to revoke.   *)
select_tokens(r) ==
  LET s == session[r]
      alive == {k \in DOMAIN token : token[k].user = s.user /\ ~token[k].is_revoked}
  IN  /\ r \in Busy
      /\ s.op = "change_password"
      /\ s.pc = "select"
      /\ session' = [session EXCEPT ![r] =
           [s EXCEPT !.pc = "write", !.todo = s.todo \cup {TokenRow(k) : k \in alive}]]
      /\ UNCHANGED <<user, token, exchanged>>

(* POST /users/{id}/activate and /deactivate, by an admin: no UPDATE when  *)
(* the flag is already so.                                                 *)
set_active(r, u, op) ==
  Open(r, "write", op, u, Null, Null,
       IF user[u].is_active = (op = "activate") THEN {} ELSE {UserRow(u)})

-----------------------------------------------------------------------------
(* The transaction: UPDATEs, commit, rollback                              *)

(* Variant: rows are updated in any order.                                 *)
NextRow_any(s) == s.todo

(* The row s updates next: users first, then tokens by primary key.        *)
NextRow(s) ==
  {x \in s.todo :
     \/ x.table = "users"
     \/ \A y \in s.todo : y.table = "refresh_tokens" /\ x.id <= y.id}

Free(x) == \A q \in Busy : x \notin session[q].held

update_row(r) ==
  LET s == session[r]
  IN  /\ r \in Busy
      /\ s.pc = "write"
      /\ \E x \in NextRow(s) :
           /\ Free(x)
           /\ session' = [session EXCEPT ![r] =
                [s EXCEPT !.todo = s.todo \ {x}, !.held = s.held \cup {x}]]
      /\ UNCHANGED <<user, token, exchanged>>

(* Variant: every UPDATE of a user writes the session's password.          *)
UserAfter_whole(s) ==
  [u \in Users |->
     IF UserRow(u) \notin s.held THEN user[u]
     ELSE [user[u] EXCEPT !.password = s.password]]

(* The tables after s commits: is_revoked is only ever SET to true, and a  *)
(* row is only touched in the columns the handler changed.                 *)
UserAfter(s) ==
  [u \in Users |->
     IF UserRow(u) \notin s.held THEN user[u]
     ELSE [password  |-> IF s.op = "change_password" THEN s.password ELSE user[u].password,
           is_active |-> IF s.op \in {"activate", "deactivate"}
                           THEN s.op = "activate" ELSE user[u].is_active]]

TokenAfter(s) ==
  [k \in DOMAIN token \cup (IF s.op = "login" THEN {s.token} ELSE {}) |->
     IF k \notin DOMAIN token
       THEN [user |-> s.user, is_revoked |-> FALSE, expired |-> FALSE,
             password |-> s.password, outdated |-> FALSE]
       ELSE [token[k] EXCEPT !.is_revoked = @ \/ TokenRow(k) \in s.held,
                             !.outdated = @ \/ k \in s.earlier]]

(* get_db commits before the response, with its access token, is sent.     *)
commit(r) ==
  LET s == session[r]
  IN  /\ r \in Busy
      /\ s.pc = "write"
      /\ s.todo = {}
      /\ user' = UserAfter(s)
      /\ token' = TokenAfter(s)
      /\ exchanged' = IF s.op = "refresh"
                        THEN [exchanged EXCEPT ![s.token] = @ + 1] ELSE exchanged
      /\ session' = [session EXCEPT ![r] = Idle]

(* A failure, the client gone, the process killed: nothing is left.        *)
rollback(r) ==
  /\ r \in Busy
  /\ session' = [session EXCEPT ![r] = Idle]
  /\ UNCHANGED <<user, token, exchanged>>

(* Seven days have passed since the login.                                 *)
expire(k) ==
  /\ k \in DOMAIN token
  /\ ~token[k].expired
  /\ token' = [token EXCEPT ![k].expired = TRUE]
  /\ UNCHANGED <<user, exchanged, session>>

-----------------------------------------------------------------------------
(* Accounts start active, each with some password and no token.            *)
Init ==
  /\ user \in [Users -> [password: Passwords, is_active: {TRUE}]]
  /\ token = [k \in {} |-> Null]
  /\ exchanged = [k \in Tokens |-> 0]
  /\ session = [r \in Requests |-> Idle]

Handler(r) ==
  \/ \E u \in Users, p \in Passwords, k \in Tokens : login_user(r, u, p, k)
  \/ \E k \in Tokens : refresh_access_token(r, k) \/ logout_user(r, k)
  \/ \E u \in Users, p \in Passwords : change_password(r, u, p)
  \/ \E u \in Users, op \in {"activate", "deactivate"} : set_active(r, u, op)

Proceed(r) == select_owner(r) \/ select_tokens(r) \/ update_row(r) \/ commit(r)

Next ==
  \/ \E r \in Requests : Handler(r) \/ Proceed(r) \/ rollback(r)
  \/ \E k \in Tokens : expire(k)

Spec == Init /\ [][Next]_vars

(* A transaction runs on; an UPDATE waiting for a row lock is queued by    *)
(* PostgreSQL and not overtaken for ever, hence strong fairness.           *)
Fairness ==
  \A r \in Requests :
    /\ WF_vars(select_owner(r)) /\ WF_vars(select_tokens(r)) /\ WF_vars(commit(r))
    /\ SF_vars(update_row(r))

FairSpec == Spec /\ Fairness

-----------------------------------------------------------------------------
(* Properties                                                              *)

(* The requests that have read token k and may still exchange it.          *)
Pending(k) == {r \in Busy : session[r].op = "refresh" /\ session[r].token = k}

(* An exchanged token is spent: revoked, and never exchanged more often    *)
(* than requests can be in flight at once, since only those that read it   *)
(* before the first exchange committed can still follow.                   *)
ExchangesBounded ==
  \A k \in Tokens :
    /\ exchanged[k] > 0 => k \in DOMAIN token /\ token[k].is_revoked
    /\ exchanged[k] + Cardinality(Pending(k)) <= Cardinality(Requests)

(* Whatever logins, refreshes, logouts and password changes overlap, a     *)
(* revoked token is never revived, and no request that starts after the    *)
(* revocation gets hold of it.                                             *)
RevocationIsFinal ==
  [][ \A k \in DOMAIN token : token[k].is_revoked =>
        token'[k].is_revoked /\ Pending(k)' \subseteq Pending(k) ]_vars

(* Every request ends: transactions of one user never wait for each other  *)
(* in a circle, because they lock rows in one order.                       *)
EveryRequestEnds == \A r \in Requests : session[r] # Idle ~> session[r] = Idle

(* An answered password change leaves no token of the account alive that   *)
(* was in the table when the change began, whoever else was refreshing or  *)
(* logging out with them meanwhile.                                        *)
ChangeRevokesEarlierTokens ==
  \A k \in DOMAIN token : token[k].outdated => token[k].is_revoked

(* The requests that have found u active and go on to a token or a hash.   *)
Serving(u) ==
  {r \in Busy : /\ session[r].user = u
                /\ \/ session[r].op \in {"login", "change_password"}
                   \/ session[r].op = "refresh" /\ session[r].pc = "write"}

(* Once an account is deactivated, no login, refresh or password change    *)
(* gets past its check: only those already past it can still be answered.  *)
DeactivationShutsOut ==
  [][ \A u \in Users : ~user[u].is_active => Serving(u)' \subseteq Serving(u) ]_vars

(* Whatever has locks waits on, there is no circle: while requests are in  *)
(* flight, one of them has a next statement that no row lock holds up.     *)
SomeoneProceeds ==
  Busy # {} =>
    \E r \in Busy :
      \/ session[r].pc = "select" \/ session[r].todo = {}
      \/ \E x \in NextRow(session[r]) : Free(x)

(* The order in which every transaction locks rows.                        *)
Precedes(x, y) ==
  y.table = "refresh_tokens" /\ (x.table = "users" \/ x.id < y.id)

(* The inductive invariant: what a request in flight carries.  A refresh   *)
(* has its token still to revoke or has it locked; a password change, once *)
(* it has listed the tokens, likewise each one it found alive; the rows a  *)
(* request has locked precede those it is still to lock, and only its own  *)
(* user's row is among them.                                               *)
WorkOK(s) ==
  /\ s.op \in {"login", "change_password"} => s.password \in Passwords
  /\ s.op = "login" => s.token \in Tokens
  /\ s.pc = "select" => s.op \in {"refresh", "change_password"} /\ s.held = {}
  /\ s.op = "refresh" => s.token \in DOMAIN token /\ TokenRow(s.token) \in s.todo \cup s.held
  /\ s.op # "change_password" => s.earlier = {}
  /\ \A k \in s.earlier :
       /\ k \in DOMAIN token
       /\ token[k].user = s.user
       /\ s.pc = "write" => token[k].is_revoked \/ TokenRow(k) \in s.todo \cup s.held
  /\ \A x \in s.todo \cup s.held : x.table = "users" => x = UserRow(s.user)
  /\ \A x \in s.held, y \in s.todo : Precedes(x, y)

IInv ==
  /\ TypeOK /\ ExchangesBounded /\ ChangeRevokesEarlierTokens
  /\ \A r \in Busy : WorkOK(session[r])

-----------------------------------------------------------------------------
(* Claims of the documentation the code does not keep                      *)

(* auth_service.py:106 "Rotate: revoke old, issue new access token": a     *)
(* refresh token buys one access token.  (Two refreshes both read it       *)
(* before either revokes it.)                                              *)
ExchangedOnce == \A k \in Tokens : exchanged[k] <= 1

(* auth_service.py:131 "Revoke all refresh tokens (force re-login          *)
(* everywhere)": a live refresh token was obtained with the user's current *)
(* password.  (A login that verified the old one commits its token after   *)
(* the tokens were listed.)                                                *)
PasswordChangeForcesLogin ==
  \A k \in DOMAIN token :
    ~token[k].is_revoked => token[k].password = user[token[k].user].password
=============================================================================
