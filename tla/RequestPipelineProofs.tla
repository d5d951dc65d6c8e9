------------------------ MODULE RequestPipelineProofs ----------------------
(***************************************************************************)
(* Theorems about RequestPipeline, for any number of requests and any size *)
(* of the connection pool.                                                 *)
(***************************************************************************)
EXTENDS RequestPipeline, FiniteSetTheorems, TLAPS

(* Nothing about request q changes, unless it is hit by a failure.         *)
SameFor(q) ==
  /\ stage'[q] = stage[q] /\ method'[q] = method[q] /\ status'[q] = status[q]
  /\ conn'[q] = conn[q]
  /\ q \in changed' <=> q \in changed
  /\ \A s \in {"ok", "refused"} : <<q, s>> \in audit' <=> <<q, s>> \in audit
  /\ q \in hit => q \in hit'

(* What is known of a request is about that request alone.                 *)
LEMMA SameForOK ==
  ASSUME NEW q, RequestOK(q), SameFor(q)
  PROVE  RequestOK(q)'
  BY DEF RequestOK, SameFor, Writing

(* Inv, request by request.                                                *)
Accounted(r) ==
  r \in changed /\ stage[r] \in {"answered", "lost"} => <<r, "ok">> \in audit \/ r \in hit

(* To have a cause, too, is about that request alone.                      *)
LEMMA SameForAccounted ==
  ASSUME NEW q, Accounted(q), SameFor(q)
  PROVE  Accounted(q)'
  BY DEF Accounted, SameFor

(* Every committed change is of a request, so its cause is looked up there.*)
LEMMA InvByRequest ==
  ASSUME TypeOK
  PROVE  Inv <=> \A r \in Requests : Accounted(r)
  BY DEF TypeOK, Inv, UnauditedHaveACause, Accounted

-----------------------------------------------------------------------------
(* The pool                                                                *)

(* Those that hold connections can be counted.                             *)
LEMMA HoldingFinite ==
  ASSUME NEW n
  PROVE  IsFiniteSet(Holding(n)) /\ Cardinality(Holding(n)) \in Nat
<1>1. Holding(n) \in SUBSET Requests
  BY DEF Holding
<1>. QED
  BY <1>1, PoolAssumption, FS_Subset, FS_CardinalityType

(* A request holds one connection at most, so nobody holds two.            *)
LEMMA NobodyHoldsTwo ==
  ASSUME \A r \in Requests : RequestOK(r)
  PROVE  Holding(2) = {} /\ Cardinality(Holding(2)) = 0
<1>1. \A r \in Requests : conn[r] \in {0, 1}
  BY DEF RequestOK
<1>2. Holding(2) = {}
  BY <1>1 DEF Holding
<1>. QED
  BY <1>2, FS_EmptySet

(* The bound stands when nobody takes a connection, and when one request   *)
(* takes a free one.                                                       *)
LEMMA PoolStep ==
  ASSUME IInv, \A r \in Requests : RequestOK(r)', NEW r \in Requests,
         \A q \in Requests \ {r} : conn'[q] = 0 \/ conn'[q] = conn[q],
         conn'[r] = 0 \/ conn'[r] = conn[r] \/ ConnectionFree
  PROVE  PoolBounded'
<1>1. /\ Holding(2) = {} /\ Cardinality(Holding(2)) = 0
      /\ Holding(2)' = {} /\ Cardinality(Holding(2)') = 0
  <2>1. \A q \in Requests : conn'[q] \in {0, 1}
    BY DEF RequestOK
  <2>2. Holding(2)' = {}
    BY <2>1 DEF Holding
  <2>. QED
    BY <2>2, NobodyHoldsTwo, FS_EmptySet DEF IInv
<1>2. /\ PoolSize \in Nat /\ Cardinality(Holding(1)) <= PoolSize
      /\ ConnectionFree => Cardinality(Holding(1)) < PoolSize
  BY <1>1, PoolAssumption, HoldingFinite DEF IInv, PoolBounded, ConnectionFree
<1>3. Holding(1)' \subseteq Holding(1) \cup {r}
  BY DEF Holding, IInv, Inv, TypeOK
<1>4. CASE Holding(1)' \subseteq Holding(1)
  <2>1. Cardinality(Holding(1)') <= Cardinality(Holding(1)) /\ Cardinality(Holding(1)') \in Nat
    BY <1>4, HoldingFinite, FS_Subset, FS_CardinalityType
  <2>. QED
    BY <1>1, <1>2, <2>1, HoldingFinite DEF PoolBounded
<1>5. CASE ~(Holding(1)' \subseteq Holding(1))
  <2>1. r \in Holding(1)' /\ r \notin Holding(1)
    BY <1>3, <1>5
  <2>2. ConnectionFree
    BY <2>1 DEF Holding, IInv, Inv, TypeOK
  <2>3. Cardinality(Holding(1) \cup {r}) = Cardinality(Holding(1)) + 1
    BY <2>1, HoldingFinite, FS_AddElement
  <2>4. IsFiniteSet(Holding(1) \cup {r})
    BY HoldingFinite, FS_AddElement
  <2>5. Cardinality(Holding(1)') <= Cardinality(Holding(1) \cup {r})
        /\ Cardinality(Holding(1)') \in Nat
    BY <1>3, <2>4, FS_Subset, FS_CardinalityType
  <2>. QED
    BY <1>1, <1>2, <2>2, <2>3, <2>5, HoldingFinite DEF PoolBounded
<1>. QED
  BY <1>4, <1>5

-----------------------------------------------------------------------------
(* Initially no request has arrived.                                       *)
LEMMA InitInv == Init => IInv
<1>. SUFFICES ASSUME Init PROVE IInv
  OBVIOUS
<1>1. TypeOK
  BY PoolAssumption DEF Init, TypeOK, Stage
<1>2. Inv
  BY <1>1 DEF Init, Inv, UnauditedHaveACause
<1>3. \A r \in Requests : RequestOK(r)
  BY DEF Init, RequestOK
<1>4. Holding(1) = {} /\ Holding(2) = {}
  BY DEF Init, Holding
<1>5. PoolBounded
  BY <1>4, FS_EmptySet, PoolAssumption DEF PoolBounded
<1>. QED
  BY <1>2, <1>3, <1>5 DEF IInv

(* A step of request r: its own stage, method, response and connections    *)
(* may change, those of the others do not.                                 *)
LEMMA OneRequest ==
  ASSUME IInv, NEW r \in Requests,
         stage' = [stage EXCEPT ![r] = stage'[r]],
         method' = [method EXCEPT ![r] = method'[r]],
         status' = [status EXCEPT ![r] = status'[r]],
         conn' = [conn EXCEPT ![r] = conn'[r]],
         stage'[r] \in Stage, method'[r] \in Methods \cup {"GET"},
         status'[r] \in {"none", "ok", "refused", "error"}, conn'[r] \in {0, 1},
         changed' = changed \/ changed' = changed \cup {r},
         audit' = audit \/ (/\ audit' = audit \cup {<<r, status'[r]>>}
                            /\ status'[r] \in {"ok", "refused"}),
         hit' = hit \/ hit' = hit \cup {r},
         RequestOK(r)', Accounted(r)',
         conn'[r] = 0 \/ conn'[r] = conn[r] \/ ConnectionFree
  PROVE  IInv'
<1>1. TypeOK
  BY DEF IInv, Inv
<1>2. TypeOK'
  <2>1. conn'[r] \in 0..PoolSize
    BY PoolAssumption
  <2>2. audit' \subseteq Requests \X {"ok", "refused"}
    BY <1>1 DEF TypeOK
  <2>3. changed' \subseteq Requests /\ hit' \subseteq Requests
    BY <1>1 DEF TypeOK
  <2>4. /\ stage' \in [Requests -> Stage]
        /\ method' \in [Requests -> Methods \cup {"GET"}]
        /\ status' \in [Requests -> {"none", "ok", "refused", "error"}]
        /\ conn' \in [Requests -> 0..PoolSize]
    BY <1>1, <2>1 DEF TypeOK
  <2>. QED
    BY <2>2, <2>3, <2>4 DEF TypeOK
<1>3. ASSUME NEW q \in Requests \ {r}
      PROVE  SameFor(q)
  <2>1. /\ stage'[q] = stage[q] /\ status'[q] = status[q]
        /\ conn'[q] = conn[q] /\ method'[q] = method[q]
    BY <1>1 DEF TypeOK
  <2>2. /\ q \in changed' <=> q \in changed
        /\ \A s \in {"ok", "refused"} : <<q, s>> \in audit' <=> <<q, s>> \in audit
        /\ q \in hit => q \in hit'
    OBVIOUS
  <2>. QED
    BY <2>1, <2>2 DEF SameFor
<1>4. \A q \in Requests : RequestOK(q)'
  BY <1>3, SameForOK DEF IInv
<1>5. \A q \in Requests : Accounted(q)
  BY <1>1, InvByRequest DEF IInv
<1>6. \A q \in Requests : Accounted(q)'
  BY <1>3, <1>5, SameForAccounted
<1>7. Inv'
  BY <1>2, <1>6 DEF TypeOK, Inv, UnauditedHaveACause, Accounted
<1>8. PoolBounded'
  BY <1>3, <1>4, PoolStep DEF SameFor
<1>. QED
  BY <1>4, <1>7, <1>8 DEF IInv

(* A request has one of four methods, and all but GET are audited.         *)
LEMMA WritingIsMutating ==
  ASSUME TypeOK, NEW r \in Requests, Writing(r)
  PROVE  method[r] \in MUTATING_METHODS
  BY MethodsAssumption DEF TypeOK, Writing, MUTATING_METHODS

-----------------------------------------------------------------------------
(* The steps of a request                                                  *)

(* Each step leaves what is to be known of its request at its new stage.   *)
LEMMA StepInv ==
  ASSUME IInv, NEW r \in Requests, Step(r)
  PROVE  IInv'
<1>1. /\ stage \in [Requests -> Stage] /\ stage[r] \in Stage
      /\ method \in [Requests -> Methods \cup {"GET"}]
      /\ method = [method EXCEPT ![r] = method[r]]
      /\ method[r] \in Methods \cup {"GET"}
      /\ status \in [Requests -> {"none", "ok", "refused", "error"}]
      /\ status = [status EXCEPT ![r] = status[r]]
      /\ status[r] \in {"none", "ok", "refused", "error"}
      /\ conn \in [Requests -> 0..PoolSize]
      /\ conn = [conn EXCEPT ![r] = conn[r]]
      /\ conn[r] \in {0, 1}
      /\ \A s : <<r, s>> \in audit => s \in {"ok", "refused"}
      /\ RequestOK(r) /\ Accounted(r)
  BY InvByRequest DEF IInv, Inv, TypeOK, RequestOK
<1>. USE DEF Go, Respond
<1>2. ASSUME NEW m \in Methods, arrive(r, m)
      PROVE  IInv'
  <2>1. /\ stage[r] = "new"
        /\ stage' = [stage EXCEPT ![r] = "queued"]
        /\ status' = [status EXCEPT ![r] = status[r]]
        /\ conn' = [conn EXCEPT ![r] = conn[r]]
        /\ method' = [method EXCEPT ![r] = m] /\ UNCHANGED <<changed, audit, hit>>
    BY <1>1, <1>2 DEF arrive, RequestOK
  <2>2. /\ stage'[r] = "queued" /\ status'[r] = status[r] /\ conn'[r] = conn[r]
        /\ method'[r] = m
    BY <1>1, <2>1
  <2>3. RequestOK(r)' /\ Accounted(r)'
    BY <1>1, <2>1, <2>2 DEF RequestOK, Accounted, Writing
  <2>. QED
    BY <1>1, <2>1, <2>2, <2>3, OneRequest DEF Stage
<1>3. CASE checkout(r)
  <2>1. /\ stage[r] = "queued" /\ ConnectionFree
        /\ stage' = [stage EXCEPT ![r] = "running"]
        /\ status' = [status EXCEPT ![r] = status[r]]
        /\ conn' = [conn EXCEPT ![r] = 1]
        /\ UNCHANGED <<method, changed, audit, hit>>
    BY <1>1, <1>3 DEF checkout, RequestOK
  <2>2. /\ stage'[r] = "running" /\ status'[r] = status[r] /\ conn'[r] = 1
        /\ method'[r] = method[r]
    BY <1>1, <2>1
  <2>3. RequestOK(r)' /\ Accounted(r)'
    BY <1>1, <2>1, <2>2 DEF RequestOK, Accounted, Writing
  <2>. QED
    BY <1>1, <2>1, <2>2, <2>3, OneRequest DEF Stage
<1>4. CASE checkout_timeout(r)
  <2>1. /\ stage[r] = "queued"
        /\ stage' = [stage EXCEPT ![r] = "raised"]
        /\ status' = [status EXCEPT ![r] = "error"]
        /\ conn' = [conn EXCEPT ![r] = conn[r]]
        /\ hit' = hit \cup {r} /\ UNCHANGED <<method, changed, audit>>
    BY <1>1, <1>4 DEF checkout_timeout, RequestOK
  <2>2. /\ stage'[r] = "raised" /\ status'[r] = "error" /\ conn'[r] = conn[r]
        /\ method'[r] = method[r]
    BY <1>1, <2>1
  <2>3. RequestOK(r)' /\ Accounted(r)'
    BY <1>1, <2>1, <2>2 DEF RequestOK, Accounted, Writing
  <2>. QED
    BY <1>1, <2>1, <2>2, <2>3, OneRequest DEF Stage
<1>5. CASE commit(r)
  <2>1. /\ stage[r] = "running"
        /\ stage' = [stage EXCEPT ![r] = "returned"]
        /\ status' = [status EXCEPT ![r] = "ok"]
        /\ conn' = [conn EXCEPT ![r] = 0]
        /\ changed' = (IF Writing(r) THEN changed \cup {r} ELSE changed)
        /\ UNCHANGED <<method, audit, hit>>
    BY <1>1, <1>5 DEF commit, RequestOK
  <2>2. /\ stage'[r] = "returned" /\ status'[r] = "ok" /\ conn'[r] = 0
        /\ method'[r] = method[r]
    BY <1>1, <2>1
  <2>3. RequestOK(r)' /\ Accounted(r)'
    BY <1>1, <2>1, <2>2 DEF RequestOK, Accounted, Writing
  <2>. QED
    BY <1>1, <2>1, <2>2, <2>3, OneRequest DEF Stage
<1>6. CASE refuse(r)
  <2>1. /\ stage[r] \in {"queued", "running"}
        /\ stage' = [stage EXCEPT ![r] = "returned"]
        /\ status' = [status EXCEPT ![r] = "refused"]
        /\ conn' = [conn EXCEPT ![r] = 0]
        /\ UNCHANGED <<method, changed, audit, hit>>
    BY <1>1, <1>6 DEF refuse, RequestOK
  <2>2. /\ stage'[r] = "returned" /\ status'[r] = "refused" /\ conn'[r] = 0
        /\ method'[r] = method[r]
    BY <1>1, <2>1
  <2>3. RequestOK(r)' /\ Accounted(r)'
    BY <1>1, <2>1, <2>2 DEF RequestOK, Accounted, Writing
  <2>. QED
    BY <1>1, <2>1, <2>2, <2>3, OneRequest DEF Stage
<1>7. CASE fail(r)
  <2>1. /\ stage[r] = "running"
        /\ stage' = [stage EXCEPT ![r] = "raised"]
        /\ status' = [status EXCEPT ![r] = "error"]
        /\ conn' = [conn EXCEPT ![r] = 0]
        /\ changed' = changed \/ changed' = (changed \cup {r})
        /\ hit' = hit \cup {r} /\ UNCHANGED <<method, audit>>
    BY <1>1, <1>7 DEF fail, RequestOK
  <2>2. /\ stage'[r] = "raised" /\ status'[r] = "error" /\ conn'[r] = 0
        /\ method'[r] = method[r]
    BY <1>1, <2>1
  <2>3. RequestOK(r)' /\ Accounted(r)'
    BY <1>1, <2>1, <2>2 DEF RequestOK, Accounted, Writing
  <2>. QED
    BY <1>1, <2>1, <2>2, <2>3, OneRequest DEF Stage
<1>8. CASE skip_audit(r)
  <2>1. /\ stage[r] = "returned" /\ ~Writing(r)
        /\ stage' = [stage EXCEPT ![r] = "sending"]
        /\ status' = [status EXCEPT ![r] = status[r]]
        /\ conn' = [conn EXCEPT ![r] = conn[r]]
        /\ UNCHANGED <<method, changed, audit, hit>>
    BY <1>1, <1>8, WritingIsMutating DEF skip_audit, IInv, Inv
  <2>2. /\ stage'[r] = "sending" /\ status'[r] = status[r] /\ conn'[r] = conn[r]
        /\ method'[r] = method[r]
    BY <1>1, <2>1
  <2>3. RequestOK(r)' /\ Accounted(r)'
    BY <1>1, <2>1, <2>2 DEF RequestOK, Accounted, Writing
  <2>. QED
    BY <1>1, <2>1, <2>2, <2>3, OneRequest DEF Stage
<1>9. CASE write_audit_log(r)
  <2>1. /\ stage[r] = "returned" /\ ConnectionFree
        /\ stage' = [stage EXCEPT ![r] = "auditing"]
        /\ status' = [status EXCEPT ![r] = status[r]]
        /\ conn' = [conn EXCEPT ![r] = 1]
        /\ UNCHANGED <<method, changed, audit, hit>>
    BY <1>1, <1>9 DEF write_audit_log, RequestOK
  <2>2. /\ stage'[r] = "auditing" /\ status'[r] = status[r] /\ conn'[r] = 1
        /\ method'[r] = method[r]
    BY <1>1, <2>1
  <2>3. RequestOK(r)' /\ Accounted(r)'
    BY <1>1, <2>1, <2>2 DEF RequestOK, Accounted, Writing
  <2>. QED
    BY <1>1, <2>1, <2>2, <2>3, OneRequest DEF Stage
<1>10. CASE audit_commit(r)
  <2>1. /\ stage[r] = "auditing"
        /\ stage' = [stage EXCEPT ![r] = "sending"]
        /\ status' = [status EXCEPT ![r] = status[r]]
        /\ conn' = [conn EXCEPT ![r] = 0]
        /\ audit' = audit \cup {<<r, status[r]>>} /\ UNCHANGED <<method, changed, hit>>
    BY <1>1, <1>10 DEF audit_commit, RequestOK
  <2>2. /\ stage'[r] = "sending" /\ status'[r] = status[r] /\ conn'[r] = 0
        /\ method'[r] = method[r]
    BY <1>1, <2>1
  <2>3. /\ <<r, status[r]>> \in audit'
        /\ \A s : <<r, s>> \in audit' => <<r, s>> \in audit \/ s = status[r]
    BY <2>1
  <2>4. RequestOK(r)' /\ Accounted(r)'
    <3>1. /\ \A s : <<r, s>> \in audit' => s = status[r]
          /\ r \in changed => status[r] = "ok" /\ <<r, "ok">> \in audit'
          /\ status[r] \in {"ok", "refused"}
          /\ r \in changed <=> status[r] = "ok" /\ Writing(r)
      BY <1>1, <2>1, <2>3 DEF RequestOK
    <3>2. (r \in changed' <=> r \in changed) /\ (Writing(r)' <=> Writing(r))
      BY <2>1, <2>2 DEF Writing
    <3>3. RequestOK(r)'
      BY <2>2, <3>1, <3>2 DEF RequestOK
    <3>4. Accounted(r)'
      BY <3>1, <3>2 DEF Accounted
    <3>. QED
      BY <3>3, <3>4
  <2>. QED
    <3>1. status'[r] \in {"ok", "refused"} /\ audit' = audit \cup {<<r, status'[r]>>}
      BY <1>1, <2>1, <2>2 DEF RequestOK
    <3>. QED
      BY <1>1, <2>1, <2>2, <2>4, <3>1, OneRequest DEF Stage
<1>11. CASE audit_fail(r)
  <2>1. /\ stage[r] \in {"returned", "auditing"}
        /\ stage' = [stage EXCEPT ![r] = "sending"]
        /\ status' = [status EXCEPT ![r] = status[r]]
        /\ conn' = [conn EXCEPT ![r] = 0]
        /\ hit' = hit \cup {r} /\ UNCHANGED <<method, changed, audit>>
    BY <1>1, <1>11 DEF audit_fail, RequestOK
  <2>2. /\ stage'[r] = "sending" /\ status'[r] = status[r] /\ conn'[r] = 0
        /\ method'[r] = method[r]
    BY <1>1, <2>1
  <2>3. RequestOK(r)' /\ Accounted(r)'
    BY <1>1, <2>1, <2>2 DEF RequestOK, Accounted, Writing
  <2>. QED
    BY <1>1, <2>1, <2>2, <2>3, OneRequest DEF Stage
<1>12. CASE send(r)
  <2>1. /\ stage[r] \in {"sending", "raised"}
        /\ stage' = [stage EXCEPT ![r] = "answered"]
        /\ status' = [status EXCEPT ![r] = status[r]]
        /\ conn' = [conn EXCEPT ![r] = 0]
        /\ UNCHANGED <<method, changed, audit, hit>>
    BY <1>1, <1>12 DEF send, RequestOK
  <2>2. /\ stage'[r] = "answered" /\ status'[r] = status[r] /\ conn'[r] = 0
        /\ method'[r] = method[r]
    BY <1>1, <2>1
  <2>3. RequestOK(r)' /\ Accounted(r)'
    BY <1>1, <2>1, <2>2 DEF RequestOK, Accounted, Writing
  <2>. QED
    BY <1>1, <2>1, <2>2, <2>3, OneRequest DEF Stage
<1>. QED
  BY <1>2, <1>3, <1>4, <1>5, <1>6, <1>7, <1>8, <1>9, <1>10, <1>11, <1>12 DEF Step, Handler

-----------------------------------------------------------------------------
(* A crash frees every connection and hits every request in flight.        *)
LEMMA CrashInv ==
  ASSUME IInv, crash
  PROVE  IInv'
<1>1. /\ stage' = [r \in Requests |-> IF r \in InFlight THEN "lost" ELSE stage[r]]
      /\ conn' = [r \in Requests |-> 0]
      /\ hit' = hit \cup InFlight
      /\ UNCHANGED <<method, status, changed, audit>>
      /\ InFlight \subseteq Requests /\ TypeOK
  BY DEF crash, InFlight, IInv, Inv
<1>2. TypeOK'
  BY <1>1, PoolAssumption DEF TypeOK, Stage
<1>3. ASSUME NEW r \in Requests
      PROVE  RequestOK(r)' /\ Accounted(r)'
  <2>1. RequestOK(r) /\ Accounted(r)
    BY <1>1, InvByRequest DEF IInv
  <2>2. CASE r \in InFlight
    <3>1. stage'[r] = "lost" /\ conn'[r] = 0 /\ r \in hit'
      BY <1>1, <2>2
    <3>. QED
      BY <1>1, <2>1, <3>1 DEF RequestOK, Accounted, Writing
  <2>3. CASE r \notin InFlight
    <3>1. /\ stage'[r] = stage[r] /\ conn'[r] = 0 /\ (r \in hit => r \in hit')
          /\ stage[r] \in {"new", "answered", "lost"}
      BY <1>1, <2>3 DEF InFlight
    <3>. QED
      BY <1>1, <2>1, <3>1 DEF RequestOK, Accounted, Writing
  <2>. QED
    BY <2>2, <2>3
<1>4. Inv'
  BY <1>2, <1>3 DEF TypeOK, Inv, UnauditedHaveACause, Accounted
<1>5. Holding(1)' = {} /\ Holding(2)' = {}
  BY <1>1 DEF Holding
<1>6. PoolBounded'
  BY <1>5, FS_EmptySet, PoolAssumption DEF PoolBounded
<1>. QED
  BY <1>3, <1>4, <1>6 DEF IInv

(* Every step keeps the invariant.                                         *)
LEMMA NextInv ==
  ASSUME IInv, [Next]_vars
  PROVE  IInv'
<1>1. CASE UNCHANGED vars
  <2>1. Inv' /\ PoolBounded'
    BY <1>1 DEF vars, IInv, Inv, TypeOK, UnauditedHaveACause, PoolBounded, Holding
  <2>2. \A r \in Requests : RequestOK(r)'
    BY <1>1 DEF vars, IInv, RequestOK, Writing
  <2>. QED
    BY <2>1, <2>2 DEF IInv
<1>. QED
  BY <1>1, StepInv, CrashInv DEF Next, Done

-----------------------------------------------------------------------------
(* The theorems                                                            *)

(* The inductive invariant holds throughout, whatever fails or crashes.    *)
THEOREM Invariance == Spec => []IInv
<1>1. IInv /\ [Next]_vars => IInv'
  BY NextInv
<1>. QED
  BY InitInv, <1>1, PTL DEF Spec

(* What was answered and what was audited is what happened.                *)
THEOREM OutcomesAreTrueCorrect == Spec => []OutcomesAreTrue
<1>1. ASSUME IInv PROVE OutcomesAreTrue
  <2>. SUFFICES ASSUME NEW r \in Requests, NEW s \in {"ok", "refused"},
                       (stage[r] = "answered" /\ status[r] = s) \/ <<r, s>> \in audit
                PROVE  r \in changed <=> s = "ok" /\ Writing(r)
    BY DEF OutcomesAreTrue
  <2>1. RequestOK(r)
    BY <1>1 DEF IInv
  <2>2. status[r] = s
    BY <2>1 DEF RequestOK
  <2>. QED
    BY <2>1, <2>2 DEF RequestOK
<1>. QED
  BY Invariance, <1>1, PTL

(* A change without its audit row has its cause.                           *)
THEOREM UnauditedHaveACauseCorrect == Spec => []Inv
<1>1. IInv => Inv
  BY DEF IInv
<1>. QED
  BY Invariance, <1>1, PTL

(* A request that waits for a connection holds none, neither before its    *)
(* handler nor between its commit and its audit row; so if all wait, none  *)
(* is taken.                                                               *)
THEOREM PoolNeverStuckCorrect == Spec => []PoolNeverStuck
<1>1. ASSUME IInv PROVE PoolNeverStuck
  <2>. SUFFICES ASSUME \A r \in InFlight : Waiting(r)
                PROVE  ConnectionFree
    BY DEF PoolNeverStuck
  <2>1. \A r \in Requests : conn[r] = 0
    <3>. SUFFICES ASSUME NEW r \in Requests
                  PROVE  conn[r] = 0
      OBVIOUS
    <3>1. stage[r] \notin {"running", "auditing"}
      BY DEF InFlight, Waiting
    <3>. QED
      BY <1>1, <3>1 DEF IInv, RequestOK
  <2>2. Holding(1) = {} /\ Holding(2) = {}
    BY <2>1 DEF Holding
  <2>. QED
    BY <2>2, FS_EmptySet, PoolAssumption DEF ConnectionFree
<1>. QED
  BY Invariance, <1>1, PTL
=============================================================================
