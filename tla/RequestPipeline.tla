-------------------------- MODULE RequestPipeline ---------------------------
(***************************************************************************)
(* The way of one request through the server: a pooled connection for its  *)
(* session (get_db), the handler, the commit, then the audit middleware    *)
(* with a session and a connection of its own, and the answer.             *)
(*                                                                         *)
(* get_db is left before the response leaves the route (FastAPI 0.115.6),  *)
(* so the middleware sees the response only after the commit.  An          *)
(* exception that is no HTTPException passes through the middleware to the *)
(* outermost handler, which answers 500.                                   *)
(***************************************************************************)
EXTENDS Naturals, FiniteSets

CONSTANTS
  Requests,      \* every request of a behaviour, each handled once
  PoolSize,      \* pool_size + max_overflow
  Methods        \* the HTTP methods of the requests

ASSUME PoolAssumption == PoolSize \in Nat \ {0} /\ IsFiniteSet(Requests)

ASSUME MethodsAssumption == Methods \subseteq {"GET", "POST", "PATCH", "DELETE"}

VARIABLES
  stage,         \* how far each request is
  method,        \* its HTTP method
  status,        \* the class of its response: "ok", "refused", "error"
  conn,          \* the pooled connections it holds
  changed,       \* requests whose changes are committed
  audit,         \* table audit_logs: <<request, status>>
  hit            \* history: requests hit by a failure outside the handler

vars == <<stage, method, status, conn, changed, audit, hit>>

(* Variant: a method is forgotten.                                         *)
MUTATING_METHODS_short == {"POST", "PATCH"}

MUTATING_METHODS == {"POST", "PATCH", "PUT", "DELETE"}

Writing(r) == method[r] # "GET"

(*   new       not arrived         queued     waiting for a connection     *)
(*   running   in the handler      returned   a response, get_db is left   *)
(*   auditing  writing its row     raised     an exception is on its way   *)
(*   sending   the response is on its way to the client                    *)
(*   answered  the client has it   lost       the process died             *)
Stage == {"new", "queued", "running", "returned", "auditing", "sending",
          "raised", "answered", "lost"}

(* No 500 is ever audited.                                                 *)
TypeOK ==
  /\ stage \in [Requests -> Stage]
  /\ method \in [Requests -> Methods \cup {"GET"}]
  /\ status \in [Requests -> {"none", "ok", "refused", "error"}]
  /\ conn \in [Requests -> 0..PoolSize]
  /\ changed \subseteq Requests
  /\ audit \subseteq Requests \X {"ok", "refused"}
  /\ hit \subseteq Requests

-----------------------------------------------------------------------------
(* Requests that hold n connections or more; a request holds two at most.  *)
Holding(n) == {r \in Requests : conn[r] >= n}
ConnectionFree == Cardinality(Holding(1)) + Cardinality(Holding(2)) < PoolSize

Go(r, from, to) ==
  /\ stage[r] = from
  /\ stage' = [stage EXCEPT ![r] = to]

Respond(r, s) == status' = [status EXCEPT ![r] = s]

arrive(r, m) ==
  /\ Go(r, "new", "queued")
  /\ method' = [method EXCEPT ![r] = m]
  /\ UNCHANGED <<status, conn, changed, audit, hit>>

(* The session's first statement checks a connection out.                  *)
checkout(r) ==
  /\ Go(r, "queued", "running")
  /\ ConnectionFree
  /\ conn' = [conn EXCEPT ![r] = @ + 1]
  /\ UNCHANGED <<method, status, changed, audit, hit>>

(* Variant: the session is closed when the response has been sent.         *)
commit_keeping(r) ==
  /\ Go(r, "running", "returned")
  /\ Respond(r, "ok")
  /\ changed' = IF Writing(r) THEN changed \cup {r} ELSE changed
  /\ UNCHANGED <<method, conn, audit, hit>>

(* Variant: the response leaves first, and the commit then fails.          *)
commit_afterwards(r) ==
  /\ Go(r, "running", "returned")
  /\ Respond(r, "ok")
  /\ conn' = [conn EXCEPT ![r] = 0]
  /\ changed' \in {changed, IF Writing(r) THEN changed \cup {r} ELSE changed}
  /\ UNCHANGED <<method, audit, hit>>

(* The handler returns; get_db commits and gives the connection back.      *)
commit(r) ==
  /\ Go(r, "running", "returned")
  /\ Respond(r, "ok")
  /\ conn' = [conn EXCEPT ![r] = 0]
  /\ changed' = IF Writing(r) THEN changed \cup {r} ELSE changed
  /\ UNCHANGED <<method, audit, hit>>

(* An HTTPException, before the first statement (401, 422, unknown route)  *)
(* or later: get_db rolls back, the exception becomes a response.          *)
refuse(r) ==
  /\ Go(r, "queued", "returned") \/ Go(r, "running", "returned")
  /\ Respond(r, "refused")
  /\ conn' = [conn EXCEPT ![r] = 0]
  /\ UNCHANGED <<method, changed, audit, hit>>

(* Any other exception in the handler, or a COMMIT that fails; when the    *)
(* connection breaks during the COMMIT, it may have been executed.         *)
fail(r) ==
  /\ Go(r, "running", "raised")
  /\ Respond(r, "error")
  /\ conn' = [conn EXCEPT ![r] = 0]
  /\ changed' \in {changed, IF Writing(r) THEN changed \cup {r} ELSE changed}
  /\ hit' = hit \cup {r}
  /\ UNCHANGED <<method, audit>>

(* No connection within the pool's timeout of thirty seconds.              *)
checkout_timeout(r) ==
  /\ Go(r, "queued", "raised")
  /\ ~ConnectionFree
  /\ Respond(r, "error")
  /\ hit' = hit \cup {r}
  /\ UNCHANGED <<method, conn, changed, audit>>

-----------------------------------------------------------------------------
(* AuditLogMiddleware                                                      *)

skip_audit(r) ==
  /\ method[r] \notin MUTATING_METHODS
  /\ Go(r, "returned", "sending")
  /\ UNCHANGED <<method, status, conn, changed, audit, hit>>

write_audit_log(r) ==
  /\ method[r] \in MUTATING_METHODS
  /\ Go(r, "returned", "auditing")
  /\ ConnectionFree
  /\ conn' = [conn EXCEPT ![r] = @ + 1]
  /\ UNCHANGED <<method, status, changed, audit, hit>>

audit_commit(r) ==
  /\ Go(r, "auditing", "sending")
  /\ conn' = [conn EXCEPT ![r] = @ - 1]
  /\ audit' = audit \cup {<<r, status[r]>>}
  /\ UNCHANGED <<method, status, changed, hit>>

(* "Never let audit logging crash the app": a timeout of the pool, a value *)
(* too long for its column, a database error are swallowed.                *)
audit_fail(r) ==
  /\ \/ Go(r, "auditing", "sending") /\ conn' = [conn EXCEPT ![r] = @ - 1]
     \/ /\ Go(r, "returned", "sending") /\ UNCHANGED conn
        /\ method[r] \in MUTATING_METHODS
        /\ ~ConnectionFree
  /\ hit' = hit \cup {r}
  /\ UNCHANGED <<method, status, changed, audit>>

-----------------------------------------------------------------------------
(* The response, and global_exception_handler's 500.                       *)
send(r) ==
  /\ Go(r, "sending", "answered") \/ Go(r, "raised", "answered")
  /\ conn' = [conn EXCEPT ![r] = 0]
  /\ UNCHANGED <<method, status, changed, audit, hit>>

InFlight == {r \in Requests : stage[r] \notin {"new", "answered", "lost"}}

(* The process dies and is started again: what is in flight is lost, what  *)
(* is committed stays.                                                     *)
crash ==
  /\ InFlight # {}
  /\ stage' = [r \in Requests |-> IF r \in InFlight THEN "lost" ELSE stage[r]]
  /\ conn' = [r \in Requests |-> 0]
  /\ hit' = hit \cup InFlight
  /\ UNCHANGED <<method, status, changed, audit>>

Done == (\A r \in Requests : stage[r] \in {"answered", "lost"}) /\ UNCHANGED vars

Init ==
  /\ stage = [r \in Requests |-> "new"]
  /\ method = [r \in Requests |-> "GET"]
  /\ status = [r \in Requests |-> "none"]
  /\ conn = [r \in Requests |-> 0]
  /\ changed = {}
  /\ audit = {}
  /\ hit = {}

Handler(r) == commit(r) \/ refuse(r) \/ fail(r)

Step(r) ==
  \/ \E m \in Methods : arrive(r, m)
  \/ checkout(r) \/ checkout_timeout(r) \/ Handler(r)
  \/ skip_audit(r) \/ write_audit_log(r) \/ audit_commit(r) \/ audit_fail(r)
  \/ send(r)

Next == (\E r \in Requests : Step(r)) \/ crash \/ Done

Spec == Init /\ [][Next]_vars

(* The pool serves its waiters in their order (AsyncAdaptedQueuePool):     *)
(* strong fairness.  Handlers come to an end, one way or another.  Nothing *)
(* forces a timeout, a failing audit or a crash.                           *)
Fairness ==
  \A r \in Requests :
    /\ SF_vars(checkout(r)) /\ SF_vars(write_audit_log(r))
    /\ WF_vars(Handler(r)) /\ WF_vars(skip_audit(r))
    /\ WF_vars(audit_commit(r)) /\ WF_vars(send(r))

FairSpec == Spec /\ Fairness

-----------------------------------------------------------------------------
(* Properties                                                              *)

(* What the client was told and what the audit log says is what happened,  *)
(* through every crash: "ok" only when the change is committed, "refused"  *)
(* only when there is none.                                                *)
OutcomesAreTrue ==
  \A r \in Requests, s \in {"ok", "refused"} :
    (stage[r] = "answered" /\ status[r] = s) \/ <<r, s>> \in audit
      => (r \in changed <=> s = "ok" /\ Writing(r))

(* A committed change lacks its audit row, once its request is over, only  *)
(* because an exception, a failing audit write or a crash hit that very    *)
(* request: the middleware passes no method over.                          *)
UnauditedHaveACause ==
  \A r \in changed :
    stage[r] \in {"answered", "lost"} => <<r, "ok">> \in audit \/ r \in hit

(* Types, and what a committed change leaves in the audit log.             *)
Inv == TypeOK /\ UnauditedHaveACause

(* The connections in use are never more than the pool has, and never all  *)
(* held by requests that wait for one more: when every request in flight   *)
(* waits for a connection, one is free.                                    *)
PoolBounded == Cardinality(Holding(1)) + Cardinality(Holding(2)) <= PoolSize

Waiting(r) ==
  \/ stage[r] = "queued"
  \/ stage[r] = "returned" /\ method[r] \in MUTATING_METHODS

PoolNeverStuck == (\A r \in InFlight : Waiting(r)) => ConnectionFree

(* The inductive invariant.  What is known of a request at its stage: a    *)
(* connection is held in the handler and in the audit, and not in between; *)
(* a response with its outcome stands once the transaction has ended.      *)
RequestOK(r) ==
  /\ conn[r] = IF stage[r] \in {"running", "auditing"} THEN 1 ELSE 0
  /\ stage[r] \in {"new", "queued", "running"} => status[r] = "none"
  /\ stage[r] \in {"returned", "auditing", "sending"} => status[r] \in {"ok", "refused"}
  /\ stage[r] = "raised" => status[r] = "error"
  /\ status[r] = "none" => r \notin changed
  /\ status[r] \in {"ok", "refused"} => (r \in changed <=> status[r] = "ok" /\ Writing(r))
  /\ status[r] = "error" => r \in hit
  /\ \A s \in {"ok", "refused"} : <<r, s>> \in audit => s = status[r]
  /\ stage[r] = "sending" /\ r \in changed => <<r, "ok">> \in audit \/ r \in hit

IInv == Inv /\ PoolBounded /\ \A r \in Requests : RequestOK(r)

(* Every request that arrived ends without the help of a timeout: none     *)
(* waits for a connection that can only be freed by another one waiting.   *)
PoolServes == \A r \in Requests : stage[r] = "queued" ~> stage[r] \in {"answered", "lost"}

=============================================================================
