------------------------ MODULE AccessControlProofs -------------------------
(***************************************************************************)
(* Theorems about AccessControl, for any number of accounts, sessions and  *)
(* roles: the inductive invariant IInv and what follows from it.           *)
(***************************************************************************)
EXTENDS AccessControl, TLAPS

(* The parts of a session in flight, from its type.                        *)
LEMMA SessionType ==
  ASSUME TypeOK, NEW r \in Busy
  PROVE  /\ r \in Requests
         /\ session[r] \in Work
         /\ session[r] # Idle
  BY DEF TypeOK, Busy

(* No session in flight is idle: a record with a caller is no other.       *)
LEMMA WorkIsNotIdle ==
  ASSUME NEW s \in Work
  PROVE  s # Idle
<1>1. s.pc # "idle"
  BY DEF Work
<1>2. Idle.pc = "idle"
  BY DEF Idle
<1>. QED
  BY <1>1, <1>2

(* What a change leaves in the row.                                        *)
LEMMA ChangedRow ==
  ASSUME NEW row \in Row, NEW op \in Op, NEW role \in Roles \cup {Null},
         op = "update_role" => role # Null
  PROVE  /\ Changed(row, op, role) \in Row
         /\ op # "update_role" => Changed(row, op, role).role = row.role
         /\ op = "update_role" => Changed(row, op, role).is_active = row.is_active
         /\ Changed(Changed(row, op, role), op, role) = Changed(row, op, role)
  BY DEF Changed, Row, Op

-----------------------------------------------------------------------------
(* Initially nobody is in flight.                                          *)
LEMMA InitInv == Init => IInv
<1>. SUFFICES ASSUME Init PROVE IInv
  OBVIOUS
<1>1. Busy = {}
  BY DEF Init, Busy
<1>2. TypeOK
  BY SeededAssumption, RolesAssumption DEF Init, TypeOK, Row
<1>. QED
  BY <1>1, <1>2 DEF IInv

(* A step that gives slot r a session s, or frees it, and changes nothing  *)
(* of the others: who is in flight afterwards.                             *)
LEMMA SlotChanged ==
  ASSUME TypeOK, NEW r \in Requests, NEW s \in Work \cup {Idle},
         session' = [session EXCEPT ![r] = s]
  PROVE  /\ session' \in [Requests -> Work \cup {Idle}]
         /\ session'[r] = s
         /\ \A q \in Requests \ {r} : session'[q] = session[q]
         /\ s = Idle => Busy' = Busy \ {r}
         /\ s # Idle => Busy' = Busy \cup {r}
         /\ \A q \in Busy' \ {r} : session'[q] = session[q]
         /\ r \in Busy => Busy' \subseteq Busy
  BY DEF TypeOK, Busy

(* The tables are left alone and slot r goes on or is freed.               *)
LEMMA SlotStep ==
  ASSUME IInv, NEW r \in Busy, NEW s \in Work \cup {Idle},
         session' = [session EXCEPT ![r] = s],
         UNCHANGED <<user, claim>>,
         s # Idle => /\ WorkOK(s)
                     /\ s.alone = session[r].alone
                     /\ s.caller = session[r].caller
  PROVE  IInv'
<1>. USE DEF IInv
<1>1. r \in Requests /\ session[r] \in Work
  BY SessionType
<1>2. /\ session' \in [Requests -> Work \cup {Idle}]
      /\ session'[r] = s
      /\ \A q \in Requests \ {r} : session'[q] = session[q]
      /\ s = Idle => Busy' = Busy \ {r}
      /\ s # Idle => Busy' = Busy \cup {r}
  BY <1>1, SlotChanged
<1>3. TypeOK'
  BY <1>2 DEF TypeOK
<1>4. ASSUME NEW q \in Busy'
      PROVE  /\ WorkOK(session'[q])
             /\ session'[q].alone => Busy' = {q} /\ session'[q].caller \in Admins'
  <2>1. Admins' = Admins /\ q \in Requests /\ q \in Busy
    BY <1>1, <1>2, <1>4 DEF Admins, Busy
  <2>2. CASE q = r
    <3>1. s # Idle
      BY <1>2, <2>2
    <3>. QED
      BY <1>2, <2>1, <2>2, <3>1
  <2>3. CASE q # r
    <3>1. session'[q] = session[q]
      BY <1>2, <2>1, <2>3
    <3>2. ~session[q].alone
      BY <2>1, <2>3
    <3>. QED
      BY <2>1, <3>1, <3>2
  <2>. QED
    BY <2>2, <2>3
<1>5. (\A q \in Busy : /\ WorkOK(session[q])
                       /\ session[q].alone => Busy = {q} /\ session[q].caller \in Admins)'
  BY <1>4 DEF WorkOK, AsAsked
<1>. QED
  BY <1>3, <1>5

(* Accounts and tokens change, sessions do not; administrators stay.       *)
LEMMA TablesStep ==
  ASSUME IInv, UNCHANGED session,
         DOMAIN user' \subseteq Users, user' \in [DOMAIN user' -> Row],
         claim' \in [Users -> Roles \cup {Null}],
         Admins \subseteq Admins'
  PROVE  IInv'
<1>1. TypeOK'
  BY DEF IInv, TypeOK
<1>2. Busy' = Busy
  BY DEF Busy
<1>. QED
  BY <1>1, <1>2 DEF IInv, WorkOK, AsAsked

(* A registration makes no administrator.                                  *)
LEMMA RegisterInv ==
  ASSUME IInv, NEW u \in Users, register(u)
  PROVE  IInv' /\ Admins' = Admins
<1>1. "EMPLOYEE" \in Roles /\ "EMPLOYEE" # "ADMIN"
  BY RolesAssumption
<1>2. /\ DOMAIN user' \subseteq Users
      /\ user' \in [DOMAIN user' -> Row]
      /\ claim' \in [Users -> Roles \cup {Null}]
  BY <1>1 DEF register, IInv, TypeOK, Row
<1>3. Admins' = Admins
  BY <1>1 DEF register, Admins
<1>4. UNCHANGED session
  BY DEF register
<1>. QED
  BY <1>2, <1>3, <1>4, TablesStep

(* A token is handed out or runs out: only the claims change.              *)
LEMMA TokenInv ==
  ASSUME IInv, NEW u \in Users, create_access_token(u) \/ expire(u)
  PROVE  IInv' /\ UNCHANGED <<user, session>>
<1>1. UNCHANGED <<user, session>>
  BY DEF create_access_token, expire
<1>2. claim' \in [Users -> Roles \cup {Null}]
  BY DEF create_access_token, expire, IInv, TypeOK, Row
<1>3. Admins' = Admins
  BY <1>1 DEF Admins
<1>4. DOMAIN user' \subseteq Users /\ user' \in [DOMAIN user' -> Row]
  BY <1>1 DEF IInv, TypeOK
<1>. QED
  BY <1>1, <1>2, <1>3, <1>4, TablesStep

(* A request comes in: whoever was alone no longer is.                     *)
LEMMA RequestInv ==
  ASSUME IInv, NEW r \in Requests, NEW u \in Users, NEW v \in Users, NEW op \in Op,
         NEW role \in Roles \cup {Null}, request(r, u, op, role, v)
  PROVE  /\ IInv'
         /\ u \in Admins
         /\ session'[r].caller = u
         /\ r \notin Busy /\ Busy' = Busy \cup {r}
         /\ \A q \in Busy : session'[q].caller = session[q].caller
<1>. DEFINE s == [pc |-> "gated", caller |-> u, seen |-> user[u], op |-> op,
                  role |-> role, target |-> v, old |-> Null, alone |-> Busy = {}]
<1>. USE DEF IInv
<1>1. u \in Admins /\ user[u] \in Row /\ r \notin Busy
  BY DEF request, require_admin, CurrentUser, Admins, TypeOK, Busy
<1>2. UNCHANGED <<user, claim>>
  BY DEF request
<1>3. session' = [q \in Requests |->
           CASE q = r -> s
             [] q \in Busy -> [session[q] EXCEPT !.alone = FALSE]
             [] OTHER -> Idle]
  BY DEF request
<1>4. /\ session'[r] = s
      /\ \A q \in Busy : session'[q] = [session[q] EXCEPT !.alone = FALSE]
      /\ \A q \in Requests \ (Busy \cup {r}) : session'[q] = Idle
  BY <1>1, <1>3 DEF Busy
<1>5. /\ session'[r] \in Work /\ session'[r].pc = "gated" /\ session'[r].caller = u
      /\ session'[r].op = op /\ session'[r].role = role
      /\ session'[r].alone = (Busy = {})
  BY <1>1, <1>4 DEF Work
<1>6. \A q \in Busy : /\ session'[q] \in Work /\ ~session'[q].alone
                      /\ session'[q].pc = session[q].pc
                      /\ session'[q].op = session[q].op
                      /\ session'[q].role = session[q].role
                      /\ session'[q].old = session[q].old
                      /\ session'[q].caller = session[q].caller
  <2>. SUFFICES ASSUME NEW q \in Busy
                PROVE  LET x == session[q]
                           y == session'[q]
                       IN  /\ y \in Work /\ ~y.alone
                           /\ y.pc = x.pc /\ y.op = x.op /\ y.role = x.role
                           /\ y.old = x.old /\ y.caller = x.caller
    OBVIOUS
  <2>1. session[q] \in Work
    BY SessionType
  <2>2. session'[q] = [session[q] EXCEPT !.alone = FALSE]
    BY <1>4
  <2>. QED
    BY <2>1, <2>2 DEF Work
<1>7. Busy' = Busy \cup {r}
  BY <1>4, <1>5, <1>6, WorkIsNotIdle DEF Busy
<1>8. TypeOK'
  <2>1. session' \in [Requests -> Work \cup {Idle}]
    BY <1>3, <1>4, <1>5, <1>6
  <2>. QED
    BY <1>2, <2>1 DEF TypeOK
<1>9. ASSUME NEW q \in Busy'
      PROVE  /\ WorkOK(session'[q])
             /\ session'[q].alone => Busy' = {q} /\ session'[q].caller \in Admins'
  <2>1. Admins' = Admins
    BY <1>2 DEF Admins
  <2>2. CASE q = r
    <3>1. WorkOK(session'[r])
      BY <1>5 DEF WorkOK, request
    <3>. QED
      BY <1>1, <1>5, <1>7, <2>1, <2>2, <3>1
  <2>3. CASE q \in Busy
    <3>1. WorkOK(session[q]) => WorkOK(session'[q])
      BY <1>6, <2>3 DEF WorkOK, AsAsked
    <3>. QED
      BY <1>6, <2>3, <3>1
  <2>. QED
    BY <1>7, <2>2, <2>3
<1>10. (\A q \in Busy : /\ WorkOK(session[q])
                        /\ session[q].alone => Busy = {q} /\ session[q].caller \in Admins)'
  BY <1>9 DEF WorkOK, AsAsked
<1>. QED
  BY <1>1, <1>5, <1>6, <1>7, <1>8, <1>10

(* get_user finds a row, or the request ends.                              *)
LEMMA GetUserInv ==
  ASSUME IInv, NEW r \in Requests, get_user(r)
  PROVE  /\ IInv'
         /\ UNCHANGED user
         /\ Busy' \subseteq Busy
         /\ \A q \in Busy' : session'[q].caller = session[q].caller
<1>. DEFINE s == session[r]
            old == IF s.target = s.caller THEN s.seen ELSE user[s.target]
            s1 == [s EXCEPT !.pc = "ready", !.old = old]
<1>1. r \in Busy /\ s \in Work /\ s # Idle /\ TypeOK /\ WorkOK(s)
  BY SessionType DEF get_user, IInv
<1>2. UNCHANGED <<user, claim>>
  BY DEF get_user
<1>3. CASE s.target \notin DOMAIN user
  <2>1. session' = [session EXCEPT ![r] = Idle]
    BY <1>3 DEF get_user
  <2>2. IInv'
    BY <1>1, <1>2, <2>1, SlotStep
  <2>. QED
    BY <1>1, <1>2, <2>1, <2>2, SlotChanged
<1>4. CASE s.target \in DOMAIN user
  <2>1. session' = [session EXCEPT ![r] = s1]
    BY <1>4 DEF get_user
  <2>2. old \in Row
    BY <1>1, <1>4 DEF TypeOK, Work
  <2>4. /\ s1 \in Work /\ s1.pc = "ready" /\ s1.old = old /\ s1.caller = s.caller
        /\ s1.alone = s.alone /\ s1.op = s.op /\ s1.role = s.role
    BY <1>1, <2>2 DEF Work
  <2>. HIDE DEF old, s1
  <2>5. WorkOK(s1)
    BY <1>1, <2>2, <2>4 DEF WorkOK, AsAsked
  <2>6. s1 # Idle
    BY <2>4, WorkIsNotIdle
  <2>7. IInv'
    BY <1>1, <1>2, <2>1, <2>4, <2>5, SlotStep
  <2>. QED
    BY <1>1, <1>2, <2>1, <2>4, <2>6, <2>7, SlotChanged
<1>. QED
  BY <1>3, <1>4

(* flush sends the UPDATE; the table changes with the commit.              *)
LEMMA FlushInv ==
  ASSUME IInv, NEW r \in Requests, flush(r)
  PROVE  /\ IInv'
         /\ UNCHANGED user
         /\ Busy' \subseteq Busy
         /\ \A q \in Busy' : session'[q].caller = session[q].caller
<1>. DEFINE s == session[r]
            s1 == [s EXCEPT !.pc = "flushed"]
<1>1. r \in Busy /\ s \in Work /\ s # Idle /\ TypeOK /\ WorkOK(s) /\ s.pc = "ready"
  BY SessionType DEF flush, IInv
<1>2. UNCHANGED <<user, claim>> /\ session' = [session EXCEPT ![r] = s1]
  BY DEF flush
<1>3. /\ s1 \in Work /\ s1.old = s.old /\ s1.op = s.op
      /\ s1.role = s.role /\ s1.alone = s.alone /\ s1.caller = s.caller
  BY <1>1 DEF Work
<1>. HIDE DEF s1
<1>4. WorkOK(s1)
  BY <1>1, <1>3 DEF WorkOK, AsAsked
<1>5. IInv'
  BY <1>1, <1>2, <1>3, <1>4, SlotStep
<1>6. s1 # Idle
  BY <1>3, WorkIsNotIdle
<1>. QED
  BY <1>1, <1>2, <1>3, <1>5, <1>6, SlotChanged

(* A rollback frees the slot and leaves the table alone.                   *)
LEMMA RollbackInv ==
  ASSUME IInv, NEW r \in Requests, rollback(r)
  PROVE  /\ IInv'
         /\ UNCHANGED user
         /\ Busy' \subseteq Busy
         /\ \A q \in Busy' : session'[q].caller = session[q].caller
<1>1. /\ r \in Busy /\ TypeOK /\ UNCHANGED <<user, claim>>
      /\ session' = [session EXCEPT ![r] = Idle]
  BY DEF rollback, IInv
<1>2. IInv'
  BY <1>1, SlotStep
<1>. QED
  BY <1>1, <1>2, SlotChanged

(* A commit leaves RowAfter in the table and frees the slot.               *)
LEMMA CommitInv ==
  ASSUME IInv, NEW r \in Requests, commit(r)
  PROVE  /\ IInv'
         /\ r \in Busy /\ session'[r] = Idle
         /\ user' = [user EXCEPT ![session[r].target] = RowAfter(session[r])]
         /\ Busy' \subseteq Busy
         /\ \A q \in Busy' : session'[q].caller = session[q].caller
<1>. DEFINE s == session[r]
<1>. USE DEF IInv
<1>1. /\ r \in Busy
      /\ user' = [user EXCEPT ![s.target] = RowAfter(s)]
      /\ UNCHANGED claim
      /\ session' = [session EXCEPT ![r] = Idle]
  BY DEF commit
<1>2. s \in Work /\ WorkOK(s)
  BY <1>1, SessionType
<1>3. s.target \in DOMAIN user => RowAfter(s) \in Row
  <2>. SUFFICES ASSUME s.target \in DOMAIN user PROVE RowAfter(s) \in Row
    OBVIOUS
  <2>1. user[s.target] \in Row
    BY DEF TypeOK
  <2>2. s.op \in Op /\ s.role \in Roles \cup {Null} /\ (s.op = "update_role" => s.role # Null)
    BY <1>2 DEF Work, WorkOK
  <2>. QED
    BY <2>1, <2>2, ChangedRow DEF RowAfter
<1>4. /\ session'[r] = Idle
      /\ \A q \in Requests \ {r} : session'[q] = session[q]
  BY <1>1 DEF TypeOK
<1>5. Busy' = Busy \ {r}
  BY <1>1, <1>4 DEF Busy
<1>6. TypeOK'
  <2>1. session' \in [Requests -> Work \cup {Idle}]
    BY <1>1 DEF TypeOK
  <2>2. DOMAIN user' = DOMAIN user /\ user' \in [DOMAIN user -> Row]
    BY <1>1, <1>3 DEF TypeOK
  <2>. QED
    BY <1>1, <2>1, <2>2 DEF TypeOK
<1>7. ASSUME NEW q \in Busy'
      PROVE  WorkOK(session'[q]) /\ ~session'[q].alone
  <2>1. q \in Busy \ {r} /\ session'[q] = session[q]
    BY <1>4, <1>5 DEF Busy
  <2>. QED
    BY <1>1, <2>1
<1>8. (\A q \in Busy : /\ WorkOK(session[q])
                       /\ session[q].alone => Busy = {q} /\ session[q].caller \in Admins)'
  BY <1>7 DEF WorkOK
<1>. QED
  BY <1>1, <1>4, <1>5, <1>6, <1>8 DEF Busy

-----------------------------------------------------------------------------
(* The invariant is kept by every step.                                    *)
LEMMA NextInv == IInv /\ [Next]_vars => IInv'
<1>. SUFFICES ASSUME IInv, [Next]_vars PROVE IInv'
  OBVIOUS
<1>1. CASE UNCHANGED vars
  BY <1>1 DEF vars, IInv, TypeOK, WorkOK, AsAsked, Busy, Admins
<1>2. ASSUME NEW u \in Users, register(u)
      PROVE  IInv'
  BY <1>2, RegisterInv
<1>3. ASSUME NEW u \in Users, create_access_token(u) \/ expire(u)
      PROVE  IInv'
  BY <1>3, TokenInv
<1>4. ASSUME NEW r \in Requests, Handler(r)
      PROVE  IInv'
  BY <1>4, RequestInv DEF Handler
<1>5. ASSUME NEW r \in Requests, get_user(r) \/ flush(r) \/ commit(r) \/ rollback(r)
      PROVE  IInv'
  BY <1>5, GetUserInv, FlushInv, CommitInv, RollbackInv
<1>. QED
  BY <1>1, <1>2, <1>3, <1>4, <1>5 DEF Next, Quiet

(* The inductive invariant holds of every reachable state.                 *)
THEOREM Invariance == Spec => []IInv
  BY InitInv, NextInv, PTL DEF Spec

(* The action properties look at the steps in four groups.                 *)
LEMMA Steps ==
  ASSUME [Next]_vars
  PROVE  \/ UNCHANGED <<user, session>>
         \/ \E u \in Users : register(u)
         \/ \E r \in Requests, u, v \in Users, op \in Op, role \in Roles \cup {Null} :
              request(r, u, op, role, v)
         \/ \E r \in Requests : commit(r)
         \/ \E r \in Requests : get_user(r) \/ flush(r) \/ rollback(r)
  BY DEF Next, Handler, Quiet, create_access_token, expire, vars

(* A user who is no administrator in the table gets no request past the    *)
(* gate, whatever the token claims.                                        *)
THEOREM RemovalStopsNewRequestsCorrect == Spec => RemovalStopsNewRequests
<1>. DEFINE A == \A u \in Users \ Admins : InService(u)' \subseteq InService(u)
<1>1. ASSUME IInv, [Next]_vars PROVE A
  <2>. SUFFICES ASSUME NEW u \in Users \ Admins PROVE InService(u)' \subseteq InService(u)
    OBVIOUS
  <2>1. CASE UNCHANGED <<user, session>>
    BY <2>1 DEF InService, Busy
  <2>2. ASSUME NEW v \in Users, register(v) PROVE InService(u)' \subseteq InService(u)
    BY <2>2 DEF register, InService, Busy
  <2>3. ASSUME NEW r \in Requests, NEW c \in Users, NEW v \in Users, NEW op \in Op,
               NEW role \in Roles \cup {Null}, request(r, c, op, role, v)
        PROVE  InService(u)' \subseteq InService(u)
    BY <1>1, <2>3, RequestInv DEF InService
  <2>4. ASSUME NEW r \in Requests, commit(r) PROVE InService(u)' \subseteq InService(u)
    BY <1>1, <2>4, CommitInv DEF InService
  <2>5. ASSUME NEW r \in Requests, get_user(r) \/ flush(r) \/ rollback(r)
        PROVE  InService(u)' \subseteq InService(u)
    BY <1>1, <2>5, GetUserInv, FlushInv, RollbackInv DEF InService
  <2>. QED
    BY <1>1, <2>1, <2>2, <2>3, <2>4, <2>5, Steps
<1>. QED
  BY <1>1, Invariance, PTL DEF Spec, RemovalStopsNewRequests

(* Without an administrator, and without a request of one in flight, there *)
(* is never an administrator again.                                        *)
THEOREM LockoutIsFinalCorrect == Spec => LockoutIsFinal
<1>. DEFINE A == Admins = {} /\ Busy = {} => Admins' = {} /\ Busy' = {}
<1>1. ASSUME IInv, [Next]_vars PROVE A
  <2>. SUFFICES ASSUME Admins = {}, Busy = {} PROVE Admins' = {} /\ Busy' = {}
    OBVIOUS
  <2>1. CASE UNCHANGED <<user, session>>
    BY <2>1 DEF Admins, Busy
  <2>2. ASSUME NEW v \in Users, register(v) PROVE Admins' = {} /\ Busy' = {}
    <3>1. Admins' = Admins
      BY <1>1, <2>2, RegisterInv
    <3>. QED
      BY <2>2, <3>1 DEF register, Busy
  <2>3. ASSUME NEW r \in Requests, NEW c \in Users, NEW v \in Users, NEW op \in Op,
               NEW role \in Roles \cup {Null}, request(r, c, op, role, v)
        PROVE  FALSE
    BY <1>1, <2>3, RequestInv
  <2>4. ASSUME NEW r \in Requests, commit(r) \/ get_user(r) \/ flush(r) \/ rollback(r)
        PROVE  FALSE
    BY <2>4 DEF commit, get_user, flush, rollback
  <2>. QED
    BY <1>1, <2>1, <2>2, <2>3, <2>4, Steps
<1>. QED
  BY <1>1, Invariance, PTL DEF Spec, LockoutIsFinal

(* The last administrator is removed by their own request or by one that   *)
(* overlapped with another: the caller of one that ran alone is left.      *)
THEOREM OfficeEmptiedByOwnHandCorrect == Spec => OfficeEmptiedByOwnHand
<1>. DEFINE Own(r) == /\ session'[r] = Idle
                      /\ \/ session[r].target = session[r].caller
                         \/ ~session[r].alone
            A == Admins # {} /\ Admins' = {} => \E r \in Busy : Own(r)
<1>1. ASSUME IInv, [Next]_vars PROVE A
  <2>. SUFFICES ASSUME Admins # {}, Admins' = {} PROVE \E r \in Busy : Own(r)
    OBVIOUS
  <2>1. ~UNCHANGED user
    BY DEF Admins
  <2>2. ASSUME NEW v \in Users, register(v) PROVE FALSE
    BY <1>1, <2>2, RegisterInv
  <2>3. ASSUME NEW r \in Requests, NEW c \in Users, NEW v \in Users, NEW op \in Op,
               NEW role \in Roles \cup {Null}, request(r, c, op, role, v)
        PROVE  FALSE
    BY <2>1, <2>3 DEF request
  <2>4. ASSUME NEW r \in Requests, commit(r) PROVE \E q \in Busy : Own(q)
    <3>1. /\ r \in Busy /\ session'[r] = Idle
          /\ user' = [user EXCEPT ![session[r].target] = RowAfter(session[r])]
      BY <1>1, <2>4, CommitInv
    <3>2. ASSUME session[r].target # session[r].caller, session[r].alone PROVE FALSE
      <4>1. session[r].caller \in Admins
        BY <1>1, <3>1, <3>2 DEF IInv
      <4>2. session[r].caller \in Admins'
        BY <3>1, <3>2, <4>1 DEF Admins
      <4>. QED
        BY <4>2
    <3>. QED
      BY <3>1, <3>2
  <2>5. ASSUME NEW r \in Requests, get_user(r) \/ flush(r) \/ rollback(r)
        PROVE  FALSE
    BY <2>1, <2>5 DEF get_user, flush, rollback
  <2>. QED
    BY <1>1, <2>1, <2>2, <2>3, <2>4, <2>5, Steps
<1>. QED
  BY <1>1, Invariance, PTL DEF Spec, OfficeEmptiedByOwnHand

(* Each commit changes the column its request is about, however old the    *)
(* row is that the request read.                                           *)
THEOREM EachCommitItsColumnCorrect == Spec => EachCommitItsColumn
<1>. DEFINE Ended(u, ops) == \E r \in Busy : /\ session'[r] = Idle
                                             /\ session[r].target = u
                                             /\ session[r].op \in ops
            Fits(u) == /\ user'[u].is_active # user[u].is_active =>
                             Ended(u, {"activate", "deactivate"})
                       /\ user'[u].role # user[u].role => Ended(u, {"update_role"})
            A == \A u \in DOMAIN user : Fits(u)
<1>1. ASSUME IInv, [Next]_vars PROVE A
  <2>. SUFFICES ASSUME NEW u \in DOMAIN user PROVE Fits(u)
    OBVIOUS
  <2>1. CASE user'[u] = user[u]
    BY <2>1
  <2>2. ASSUME NEW v \in Users, register(v) PROVE user'[u] = user[u]
    BY <2>2 DEF register
  <2>3. ASSUME NEW r \in Requests, NEW c \in Users, NEW v \in Users, NEW op \in Op,
               NEW role \in Roles \cup {Null}, request(r, c, op, role, v)
        PROVE  user'[u] = user[u]
    BY <2>3 DEF request
  <2>4. ASSUME NEW r \in Requests, commit(r) PROVE Fits(u)
    <3>. DEFINE s == session[r]
    <3>1. /\ r \in Busy /\ session'[r] = Idle
          /\ user' = [user EXCEPT ![s.target] = RowAfter(s)]
      BY <1>1, <2>4, CommitInv
    <3>2. CASE u # s.target
      BY <2>1, <3>1, <3>2
    <3>3. CASE u = s.target
      <4>1. CASE ~Writes(s)
        BY <2>1, <3>1, <3>3, <4>1 DEF RowAfter
      <4>2. CASE Writes(s)
        <5>1. /\ s.op \in Op /\ s.role \in Roles \cup {Null}
              /\ s.op = "update_role" => s.role # Null
              /\ user[u] \in Row
          BY <1>1, <3>1, SessionType DEF IInv, WorkOK, Work, TypeOK
        <5>2. user'[u] = Changed(user[u], s.op, s.role)
          BY <3>1, <3>3, <4>2 DEF RowAfter
        <5>3. /\ s.op # "update_role" => user'[u].role = user[u].role
              /\ s.op = "update_role" => user'[u].is_active = user[u].is_active
          BY <5>1, <5>2, ChangedRow
        <5>. QED
          BY <3>1, <3>3, <5>1, <5>3 DEF Op
      <4>. QED
        BY <4>1, <4>2
    <3>. QED
      BY <3>2, <3>3
  <2>5. ASSUME NEW r \in Requests, get_user(r) \/ flush(r) \/ rollback(r)
        PROVE  user'[u] = user[u]
    BY <2>5 DEF get_user, flush, rollback
  <2>. QED
    BY <1>1, <2>1, <2>2, <2>3, <2>4, <2>5, Steps
<1>. QED
  BY <1>1, Invariance, PTL DEF Spec, EachCommitItsColumn
=============================================================================
