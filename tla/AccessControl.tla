--------------------------- MODULE AccessControl ----------------------------
(***************************************************************************)
(* Who may administer: the gate every request passes (get_current_user and *)
(* require_role of core/dependencies.py) and the operations of             *)
(* user_service.py behind it, which change the very rows the gate reads.   *)
(*                                                                         *)
(* A request SELECTs its caller, decides on the row it read, SELECTs the   *)
(* user it is about and UPDATEs the one column it changed.  A caller that  *)
(* names itself gets back the object the gate has loaded: SQLAlchemy's     *)
(* session has one object per row and does not refresh it.                 *)
(***************************************************************************)
EXTENDS TaskRules

CONSTANTS
  Requests,     \* session slots
  Users,        \* ids of accounts: bound on registrations
  Seeded,       \* the accounts scripts/seed.py creates
  Roles,        \* the roles in use
  Null          \* Python's None

ASSUME SeededAssumption == Seeded \subseteq Users

ASSUME RolesAssumption ==
  {"ADMIN", "EMPLOYEE"} \subseteq Roles /\ Roles \subseteq Role /\ Null \notin Roles

VARIABLES
  user,         \* table users: role and is_active, by id
  claim,        \* the role in the unexpired access token of each user
  session       \* the request in flight in each slot

vars == <<user, claim, session>>

Row == [role: Roles, is_active: BOOLEAN]

Op == {"activate", "deactivate", "update_role"}

(*   gated    the caller is loaded and let in                              *)
(*   ready    the target is loaded (old) and changed, nothing is written   *)
(*   flushed  the UPDATE is sent, the row lock is held                     *)
(* History: alone, no other request has been in flight meanwhile.          *)
Work == [pc: {"gated", "ready", "flushed"}, caller: Users, seen: Row,
         op: Op, role: Roles \cup {Null}, target: Users, old: Row \cup {Null},
         alone: BOOLEAN]

Idle == [pc |-> "idle"]

TypeOK ==
  /\ DOMAIN user \subseteq Users
  /\ user \in [DOMAIN user -> Row]
  /\ claim \in [Users -> Roles \cup {Null}]
  /\ session \in [Requests -> Work \cup {Idle}]

-----------------------------------------------------------------------------
(* Accounts and access tokens                                              *)

Busy == {r \in Requests : session[r] # Idle}

(* Variant: the body may name the role.                                    *)
register_chosen(u) ==
  /\ u \notin DOMAIN user
  /\ \E role \in Roles :
       user' = [v \in DOMAIN user \cup {u} |->
                  IF v = u THEN [role |-> role, is_active |-> TRUE] ELSE user[v]]
  /\ UNCHANGED <<claim, session>>

(* POST /auth/register, committed: an employee, whatever the body says.    *)
register(u) ==
  /\ u \notin DOMAIN user
  /\ user' = [v \in DOMAIN user \cup {u} |->
                IF v = u THEN [role |-> "EMPLOYEE", is_active |-> TRUE] ELSE user[v]]
  /\ UNCHANGED <<claim, session>>

(* A login or a refresh: the token carries the role of the row as read.    *)
create_access_token(u) ==
  /\ u \in DOMAIN user
  /\ user[u].is_active
  /\ claim' = [claim EXCEPT ![u] = user[u].role]
  /\ UNCHANGED <<user, session>>

(* Thirty minutes have passed: decode_access_token finds nothing.          *)
expire(u) ==
  /\ claim[u] # Null
  /\ claim' = [claim EXCEPT ![u] = Null]
  /\ UNCHANGED <<user, session>>

-----------------------------------------------------------------------------
(* The gate                                                                *)

(* get_current_user: a valid token, of an account that is there and active.*)
CurrentUser(u) ==
  /\ claim[u] # Null
  /\ u \in DOMAIN user
  /\ user[u].is_active

(* Variant: the role is taken from the token.                              *)
require_admin_claimed(u) == CurrentUser(u) /\ claim[u] = "ADMIN"

(* Variant: any account that is signed in passes.                          *)
require_admin_anyone(u) == CurrentUser(u)

(* require_role(ADMIN): the role of the row just loaded.                   *)
require_admin(u) == CurrentUser(u) /\ user[u].role = "ADMIN"

(* Variant: one PATCH of both columns, a field left out is stored as None. *)
Changed_both(row, op, role) == [role |-> role, is_active |-> op = "activate"]

(* The row with the change asked for.                                      *)
Changed(row, op, role) ==
  IF op = "update_role" THEN [row EXCEPT !.role = role]
  ELSE [row EXCEPT !.is_active = (op = "activate")]

AsAsked(row, s) == row = Changed(row, s.op, s.role)

(* PATCH /users/{id}/activate, /deactivate and /role, up to the gate.      *)
request(r, u, op, role, v) ==
  LET s == [pc |-> "gated", caller |-> u, seen |-> user[u], op |-> op,
            role |-> role, target |-> v, old |-> Null, alone |-> Busy = {}]
  IN  /\ session[r] = Idle
      /\ require_admin(u)
      /\ (op = "update_role") = (role # Null)
      /\ session' = [q \in Requests |->
           CASE q = r -> s
             [] q \in Busy -> [session[q] EXCEPT !.alone = FALSE]
             [] OTHER -> Idle]
      /\ UNCHANGED <<user, claim>>

-----------------------------------------------------------------------------
(* The service                                                             *)

(* get_user: the target's row as it is now, but the object of the gate     *)
(* when the caller is the target.  Nobody there: 404.                      *)
get_user(r) ==
  LET s == session[r]
      old == IF s.target = s.caller THEN s.seen ELSE user[s.target]
  IN  /\ r \in Busy
      /\ s.pc = "gated"
      /\ session' = [session EXCEPT ![r] =
           IF s.target \notin DOMAIN user THEN Idle
           ELSE [s EXCEPT !.pc = "ready", !.old = old]]
      /\ UNCHANGED <<user, claim>>

(* An object that already was as asked is not written.                     *)
Writes(s) == ~AsAsked(s.old, s)

Locks(s, v) == s.pc = "flushed" /\ s.target = v /\ Writes(s)

(* flush(): the UPDATE waits for the row's lock.                           *)
flush(r) ==
  LET s == session[r]
  IN  /\ r \in Busy
      /\ s.pc = "ready"
      /\ Writes(s) => \A q \in Busy : ~Locks(session[q], s.target)
      /\ session' = [session EXCEPT ![r] = [@ EXCEPT !.pc = "flushed"]]
      /\ UNCHANGED <<user, claim>>

(* Variant: an UPDATE that SETs every column of the loaded object.         *)
RowAfter_whole(s) == Changed(s.old, s.op, s.role)

(* The row s leaves: the UPDATE SETs the one column that changed.          *)
RowAfter(s) ==
  IF Writes(s) THEN Changed(user[s.target], s.op, s.role) ELSE user[s.target]

(* get_db commits, then the request is answered "User deactivated".        *)
commit(r) ==
  /\ r \in Busy
  /\ session[r].pc = "flushed"
  /\ user' = [user EXCEPT ![session[r].target] = RowAfter(session[r])]
  /\ session' = [session EXCEPT ![r] = Idle]
  /\ UNCHANGED claim

rollback(r) ==
  /\ r \in Busy
  /\ session' = [session EXCEPT ![r] = Idle]
  /\ UNCHANGED <<user, claim>>

(* No request in flight and none arriving.                                 *)
Quiet == Busy = {} /\ UNCHANGED vars

-----------------------------------------------------------------------------
Init ==
  /\ user = [u \in Seeded |-> [role |-> "ADMIN", is_active |-> TRUE]]
  /\ claim = [u \in Users |-> Null]
  /\ session = [r \in Requests |-> Idle]

Handler(r) ==
  \E u, v \in Users, op \in Op, role \in Roles \cup {Null} : request(r, u, op, role, v)

Next ==
  \/ \E u \in Users : register(u) \/ create_access_token(u) \/ expire(u)
  \/ \E r \in Requests : Handler(r) \/ get_user(r) \/ flush(r) \/ commit(r) \/ rollback(r)
  \/ Quiet

Spec == Init /\ [][Next]_vars

-----------------------------------------------------------------------------
(* Properties                                                              *)

Admins == {u \in DOMAIN user : user[u].role = "ADMIN" /\ user[u].is_active}

InService(u) == {r \in Busy : session[r].caller = u}

(* A demotion or deactivation takes effect with its commit, whatever the   *)
(* tokens handed out before it say: no further request of that user passes *)
(* the gate, only those already past it run on.                            *)
RemovalStopsNewRequests ==
  [][ \A u \in Users \ Admins : InService(u)' \subseteq InService(u) ]_vars

(* Administrators are made by administrators.  Once there is none left and *)
(* no request of one is in flight, no registration, login or request ever  *)
(* makes one again: the lockout is final (scripts/seed.py finds its        *)
(* account there and creates no other).                                    *)
LockoutIsFinal ==
  [][ Admins = {} /\ Busy = {} => Admins' = {} /\ Busy' = {} ]_vars

(* The last administrator goes by their own hand, or when requests of      *)
(* administrators overlap (two who remove each other both succeed).  A     *)
(* request that ran alone never removes somebody else as the last one.     *)
OfficeEmptiedByOwnHand ==
  [][ Admins # {} /\ Admins' = {} =>
        \E r \in Busy : /\ session'[r] = Idle
                        /\ \/ session[r].target = session[r].caller
                           \/ ~session[r].alone ]_vars

(* A role change does not switch an account back on, nor an activation     *)
(* bring back a role: each commit changes the column its request is about, *)
(* although it read the row before others changed it.                      *)
EachCommitItsColumn ==
  [][ \A u \in DOMAIN user :
        LET Ended(ops) == \E r \in Busy : /\ session'[r] = Idle
                                          /\ session[r].target = u
                                          /\ session[r].op \in ops
        IN  /\ user'[u].is_active # user[u].is_active => Ended({"activate", "deactivate"})
            /\ user'[u].role # user[u].role => Ended({"update_role"}) ]_vars

(* The inductive invariant: what a request in flight carries.  One that is *)
(* alone still has an administrator for a caller.                          *)
WorkOK(s) ==
  /\ s.op = "update_role" => s.role # Null
  /\ s.pc # "gated" => s.old \in Row

IInv ==
  /\ TypeOK
  /\ \A r \in Busy :
       /\ WorkOK(session[r])
       /\ session[r].alone => Busy = {r} /\ session[r].caller \in Admins
=============================================================================
