----------------------- MODULE EmailPipelineProofs ------------------------
(***************************************************************************)
(* The email pipeline, for every number of workers, messages and tenants,  *)
(* every TTL of at least two ticks and every bound: its types; once per    *)
(* window without overlap and once per worker with it; that it implements  *)
(* EmailLifecycle; that the usage log owes nothing and holds nothing       *)
(* unearned (LedgerInv); that no accepted email is lost until something    *)
(* fails (KeptInv); and that a duplicate is told what it duplicates        *)
(* (DuplicateInv).                                                         *)
(***************************************************************************)
EXTENDS EmailPipeline, FiniteSetTheorems, TLAPS

-----------------------------------------------------------------------------
(* Type correctness.                                                       *)

\* The empty request record is a request.
LEMMA NoRequestType == NoRequest \in Request
  BY DEF NoRequest, NoEnvelope, NoPayload, Request, Companies, Tokens, Payload,
         Steps, Ops, Statuses

\* Moving one handler to a step keeps the requests well-formed when the record
\* it goes on with has what the step needs.
LEMMA ContinueType ==
  ASSUME RequestsOK, NEW w \in Workers, NEW step \in Steps, NEW r \in Request,
         Continue(w, step, r),
         step # "idle" => r.mid \in Mids /\ r.op \in Ops,
         step \in {"clear", "mark"} \cup AfterMark => r.tenant \in TenantIds
  PROVE  RequestsOK'
<1> DEFINE q == [r EXCEPT !.pc = step]
<1>1. q \in Request /\ q.pc = step /\ q.mid = r.mid /\ q.op = r.op /\ q.tenant = r.tenant
  BY DEF Request
<1>2. req' = [req EXCEPT ![w] = q]
  BY DEF Continue
<1>3. req' \in [Workers -> Request]
  BY <1>1, <1>2 DEF RequestsOK
<1>4. ASSUME NEW v \in Workers
      PROVE  /\ Busy(v)' => Mid(v)' \in Mids /\ req'[v].op \in Ops
             /\ req'[v].pc \in {"clear", "mark"} \cup AfterMark => req'[v].tenant \in TenantIds
  <2> HIDE DEF q
  <2>1. CASE v = w
    BY <1>1, <1>2, <2>1 DEF RequestsOK, Busy, Mid
  <2>2. CASE v # w
    BY <1>2, <2>2 DEF RequestsOK, Busy, Mid
  <2> QED BY <2>1, <2>2
<1> QED BY <1>3, <1>4 DEF RequestsOK

\* Answering keeps the requests well-formed.
LEMMA RespondType ==
  ASSUME RequestsOK, NEW w \in Workers, Busy(w), NEW status \in Statuses,
         NEW tenant \in TenantIds \cup {None}, NEW intent \in Intents \cup {None},
         Respond(w, status, tenant, intent)
  PROVE  RequestsOK'
<1> DEFINE r == [NoRequest EXCEPT !.op = req[w].op, !.mid = Mid(w), !.status = status,
                                  !.tenant = tenant, !.intent = intent, !.late = req[w].late]
<1>1. req[w] \in Request /\ Mid(w) \in Mids /\ req[w].op \in Ops
  BY DEF RequestsOK
<1>2. r \in Request /\ r.mid \in Mids /\ r.op \in Ops
  BY <1>1, NoRequestType DEF Request, Mid, NoRequest
<1>3. Continue(w, "reply", r)
  BY DEF Respond
<1> HIDE DEF r
<1>4. "reply" \in Steps /\ "reply" \notin {"clear", "mark"} \cup AfterMark
  BY DEF Steps, AfterMark
<1> QED BY <1>2, <1>3, <1>4, ContinueType

LEMMA ValidateType ==
  ASSUME StoresOK, NEW c PROVE Validate(c) \in TenantIds \cup {None}
  BY DEF StoresOK, Validate, Registered
LEMMA InferType ==
  ASSUME StoresOK, NEW t PROVE Infer(t) \in TenantIds \cup {None}
  BY DEF StoresOK, Infer, Registered
LEMMA CandidateType ==
  ASSUME NEW a \in Companies, NEW b \in Companies, NEW c \in Companies
  PROVE  Candidate(a, b, c) \in TenantIds \cup {None}
  BY DEF Candidate, Companies

\* A request is accepted by an idle worker and changes nothing else.
LEMMA AcceptType ==
  ASSUME TypeOK, NEW w \in Workers, NEW step \in {"check", "precheck"}, NEW r \in Request,
         r.mid \in Mids, r.op \in Ops, Accept(w, step, r)
  PROVE  TypeOK'
<1>1. step \in Steps /\ step \notin {"clear", "mark"} \cup AfterMark
  BY DEF Steps, AfterMark
<1>2. RequestsOK /\ Continue(w, step, r)
  BY DEF TypeOK, Accept
<1>3. RequestsOK'
  BY <1>1, <1>2, ContinueType
<1>4. requests' = requests + 1 /\ UNCHANGED <<stores, faults, crashes, history>>
  BY DEF Accept
<1> QED BY <1>3, <1>4 DEF TypeOK, StoresOK, CountersOK, HistoryOK, stores, history

\* A step that reads: it answers, or it goes on with its own record.
LEMMA ReadType ==
  ASSUME TypeOK, RequestsOK', faults' \in Nat,
         UNCHANGED <<stores, requests, crashes, history>>
  PROVE  TypeOK'
  BY DEF TypeOK, StoresOK, CountersOK, HistoryOK, stores, history

LEMMA CallsType ==
  ASSUME CountersOK, NEW w, NEW ok, Calls(w, ok) PROVE faults' \in Nat
  BY DEF CountersOK, Calls

\* What a busy worker's record holds.
LEMMA BusyRequest ==
  ASSUME TypeOK, NEW w \in Workers, Busy(w)
  PROVE  /\ req[w] \in Request
         /\ req[w].mid \in Mids /\ Mid(w) = req[w].mid /\ req[w].op \in Ops
         /\ req[w].candidate \in TenantIds \cup {None} /\ req[w].inferred \in TenantIds \cup {None}
         /\ req[w].tenant \in TenantIds \cup {None} /\ req[w].intent \in Intents \cup {None}
         /\ req[w].payload \in Payload
         /\ req[w].env.header \in Companies /\ req[w].env.body \in Companies
  BY DEF TypeOK, RequestsOK, Request, Mid

\* The stored records have their types.
LEMMA StoredTypes ==
  ASSUME TypeOK, NEW m \in Mids
  PROVE  /\ pending[m].payload \in Payload /\ pending[m].ttl \in 0..Ttl
         /\ receipt[m].tenant \in TenantIds \cup {None}
         /\ receipt[m].intent \in Intents \cup {None} /\ receipt[m].ttl \in 0..Ttl
         /\ processed[m] \in 0..Ttl
  BY DEF TypeOK, StoresOK

LEMMA PayloadTypes ==
  ASSUME NEW p \in Payload
  PROVE  /\ p.candidate \in TenantIds \cup {None} /\ p.inferred \in TenantIds \cup {None}
         /\ p.intent \in Intents \cup {None} /\ p.attempts \in Nat
  BY DEF Payload

\* What a client sends is a request about a message of its own.
LEMMA SentRequest ==
  ASSUME NEW w \in Workers, IngestRequest(w) \/ ResolveRequest(w) \/ ReprocessRequest(w)
  PROVE  \E r \in Request, step \in {"check", "precheck"} :
           r.mid \in Mids /\ r.op \in Ops /\ Accept(w, step, r)
<1>1. CASE IngestRequest(w)
  <2>1. PICK m \in Mids, e \in Envelopes :
          Accept(w, "check", [NoRequest EXCEPT !.op = "email_ingest", !.mid = m, !.env = e])
    BY <1>1 DEF IngestRequest
  <2>2. e \in [header : Companies, body : Companies, token : Tokens]
    BY EnvelopeAssumption
  <2> DEFINE r == [NoRequest EXCEPT !.op = "email_ingest", !.mid = m, !.env = e]
  <2>3. r \in Request /\ r.mid \in Mids /\ r.op \in Ops
    BY <2>2, NoRequestType DEF Request, Ops
  <2> HIDE DEF r
  <2> QED BY <2>1, <2>3 DEF r
<1>2. CASE ResolveRequest(w)
  <2>1. PICK m \in Mids, e \in Envelopes :
          Accept(w, "check", [NoRequest EXCEPT !.op = "email_resolve", !.mid = m,
                                 !.candidate = Candidate(e.header, e.body, None)])
    BY <1>2 DEF ResolveRequest
  <2>2. e.header \in Companies /\ e.body \in Companies /\ None \in Companies
    BY EnvelopeAssumption DEF Companies
  <2> DEFINE c == Candidate(e.header, e.body, None)
  <2> DEFINE r == [NoRequest EXCEPT !.op = "email_resolve", !.mid = m, !.candidate = c]
  <2>3. c \in TenantIds \cup {None}
    BY <2>2, CandidateType
  <2> HIDE DEF c
  <2>4. r \in Request /\ r.mid \in Mids /\ r.op \in Ops
    BY <2>3, NoRequestType DEF Request, Ops
  <2> HIDE DEF r
  <2> QED BY <2>1, <2>4 DEF r, c
<1>3. CASE ReprocessRequest(w)
  <2>1. PICK m \in Mids :
          Accept(w, "precheck", [NoRequest EXCEPT !.op = "email_reprocess", !.mid = m])
    BY <1>3 DEF ReprocessRequest
  <2> DEFINE r == [NoRequest EXCEPT !.op = "email_reprocess", !.mid = m]
  <2>2. r \in Request /\ r.mid \in Mids /\ r.op \in Ops
    BY NoRequestType DEF Request, Ops
  <2> HIDE DEF r
  <2> QED BY <2>1, <2>2 DEF r
<1> QED BY <1>1, <1>2, <1>3

\* The requests clients send are well-typed.
LEMMA SendType ==
  ASSUME TypeOK, NEW w \in Workers,
         IngestRequest(w) \/ ResolveRequest(w) \/ ReprocessRequest(w)
  PROVE  TypeOK'
  BY SentRequest, AcceptType

\* A busy worker that goes on with its own record, or answers without a
\* tenant, keeps the requests well-formed.
LEMMA ProceedType ==
  ASSUME TypeOK, NEW w \in Workers, Busy(w), NEW step \in Steps,
         step \notin {"clear", "mark"} \cup AfterMark \/ req[w].tenant \in TenantIds,
         Continue(w, step, req[w])
  PROVE  RequestsOK'
  BY BusyRequest, ContinueType DEF TypeOK

LEMMA AnswerType ==
  ASSUME TypeOK, NEW w \in Workers, Busy(w), NEW status \in Statuses,
         Respond(w, status, None, None)
  PROVE  RequestsOK'
  BY RespondType DEF TypeOK

\* The reading steps are well-typed.
LEMMA ReadStepType ==
  ASSUME TypeOK, NEW w \in Workers,
         \/ RoutePrecheck(w) \/ RoutePrefetch(w) \/ CheckProcessed(w)
         \/ GetReceipt(w) \/ ServicePeek(w) \/ FetchPending(w)
  PROVE  TypeOK'
<1> USE DEF Statuses, Steps, AfterMark
<1>0. CountersOK /\ RequestsOK
  BY DEF TypeOK
<1>1. CASE RoutePrecheck(w)
  <2>1. PICK ok \in BOOLEAN :
          /\ Calls(w, ok)
          /\ IF ~ok THEN Abort(w)
             ELSE Continue(w, IF processed[Mid(w)] > 0 THEN "check" ELSE "prefetch", req[w])
    BY <1>1 DEF RoutePrecheck
  <2>2. Busy(w) /\ UNCHANGED <<stores, requests, crashes, history>>
    BY <1>1 DEF RoutePrecheck, At, Busy
  <2>3. RequestsOK'
    BY <2>1, <2>2, ProceedType, AnswerType DEF Abort
  <2> QED BY <1>0, <2>1, <2>2, <2>3, CallsType, ReadType
<1>2. CASE RoutePrefetch(w)
  <2>1. PICK ok \in BOOLEAN :
          /\ Calls(w, ok)
          /\ IF ok /\ Live(Mid(w)) THEN Continue(w, "check", req[w])
             ELSE Respond(w, "not_found", None, None)
    BY <1>2 DEF RoutePrefetch
  <2>2. Busy(w) /\ UNCHANGED <<stores, requests, crashes, history>>
    BY <1>2 DEF RoutePrefetch, At, Busy
  <2>3. RequestsOK'
    BY <2>1, <2>2, ProceedType, AnswerType
  <2> QED BY <1>0, <2>1, <2>2, <2>3, CallsType, ReadType
<1>3. CASE CheckProcessed(w)
  <2>1. PICK ok \in BOOLEAN :
          /\ Calls(w, ok)
          /\ IF ~ok THEN Abort(w)
             ELSE Continue(w, IF processed[Mid(w)] > 0 THEN "receipt"
                              ELSE FirstStep(req[w].op), req[w])
    BY <1>3 DEF CheckProcessed
  <2>2. Busy(w) /\ UNCHANGED <<stores, requests, crashes, history>>
    BY <1>3 DEF CheckProcessed, At, Busy
  <2>3. FirstStep(req[w].op) \in {"triage", "fetch", "peek"}
    BY <2>2, BusyRequest DEF FirstStep, Ops
  <2>4. RequestsOK'
    BY <2>1, <2>2, <2>3, ProceedType, AnswerType DEF Abort
  <2> QED BY <1>0, <2>1, <2>2, <2>4, CallsType, ReadType
<1>4. CASE GetReceipt(w)
  <2>1. PICK ok \in BOOLEAN :
          /\ Calls(w, ok)
          /\ IF ok /\ receipt[Mid(w)].ttl > 0
             THEN Respond(w, "duplicate_skipped", receipt[Mid(w)].tenant, receipt[Mid(w)].intent)
             ELSE Respond(w, "duplicate_skipped", None, None)
    BY <1>4 DEF GetReceipt
  <2>2. Busy(w) /\ UNCHANGED <<stores, requests, crashes, history>>
    BY <1>4 DEF GetReceipt, At, Busy
  <2>3. /\ receipt[Mid(w)].tenant \in TenantIds \cup {None}
        /\ receipt[Mid(w)].intent \in Intents \cup {None}
    BY <2>2, BusyRequest, StoredTypes
  <2>4. RequestsOK'
    BY <1>0, <2>1, <2>2, <2>3, RespondType, AnswerType
  <2> QED BY <1>0, <2>1, <2>2, <2>4, CallsType, ReadType
<1>5. CASE ServicePeek(w)
  <2>1. PICK ok \in BOOLEAN :
          /\ Calls(w, ok)
          /\ IF ok /\ Live(Mid(w)) THEN Continue(w, "fetch", req[w])
             ELSE Respond(w, "pending_tenant", None, None)
    BY <1>5 DEF ServicePeek
  <2>2. Busy(w) /\ UNCHANGED <<stores, requests, crashes, history>>
    BY <1>5 DEF ServicePeek, At, Busy
  <2>3. RequestsOK'
    BY <2>1, <2>2, ProceedType, AnswerType
  <2> QED BY <1>0, <2>1, <2>2, <2>3, CallsType, ReadType
<1>6. CASE FetchPending(w)
  <2> DEFINE r == [req[w] EXCEPT !.payload = pending[Mid(w)].payload]
  <2>1. PICK ok \in BOOLEAN :
          /\ Calls(w, ok)
          /\ IF ok /\ Live(Mid(w)) THEN Continue(w, "validate", r)
             ELSE Respond(w, "pending_tenant", None, None)
    BY <1>6 DEF FetchPending
  <2>2. Busy(w) /\ UNCHANGED <<stores, requests, crashes, history>>
    BY <1>6 DEF FetchPending, At, Busy
  <2>3. r \in Request /\ r.mid \in Mids /\ r.op \in Ops
    BY <2>2, BusyRequest, StoredTypes DEF Request
  <2> HIDE DEF r
  <2>4. RequestsOK'
    BY <1>0, <2>1, <2>2, <2>3, ContinueType, AnswerType
  <2> QED BY <1>0, <2>1, <2>2, <2>4, CallsType, ReadType
<1> QED BY <1>1, <1>2, <1>3, <1>4, <1>5, <1>6

\* The two steps that only compute are well-typed: the tenant they carry on
\* towards the marker is a registered one.
LEMMA ComputeStepType ==
  ASSUME TypeOK, NEW w \in Workers, Triage(w) \/ ValidateTenant(w)
  PROVE  TypeOK'
<1> USE DEF Steps, AfterMark
<1>0. StoresOK /\ RequestsOK /\ faults \in Nat /\ None \in TenantIds \cup {None}
  BY DEF TypeOK, CountersOK
<1>1. CASE Triage(w)
  <2>1. Busy(w)
    BY <1>1 DEF Triage, At, Busy
  <2> DEFINE inferred  == Infer(req[w].env.token)
             candidate == Candidate(req[w].env.header, req[w].env.body, inferred)
             tenant    == Validate(candidate)
  <2>2. PICK i \in Intents :
          Continue(w, IF tenant = None THEN "park" ELSE "mark",
             [req[w] EXCEPT !.env = NoEnvelope, !.tenant = tenant, !.intent = i,
                !.candidate = IF tenant = None THEN candidate ELSE None,
                !.inferred  = IF tenant = None THEN inferred ELSE None])
    BY <1>1 DEF Triage
  <2>3. inferred \in TenantIds \cup {None} /\ candidate \in TenantIds \cup {None}
        /\ tenant \in TenantIds \cup {None}
    BY <1>0, <2>1, BusyRequest, InferType, CandidateType, ValidateType DEF Companies
  <2> HIDE DEF inferred, candidate, tenant
  <2> DEFINE kept == IF tenant = None THEN candidate ELSE None
             seen == IF tenant = None THEN inferred ELSE None
             r == [req[w] EXCEPT !.env = NoEnvelope, !.tenant = tenant, !.intent = i,
                                 !.candidate = kept, !.inferred  = seen]
  <2>4. NoEnvelope \in [header : Companies, body : Companies, token : Tokens]
    BY DEF NoEnvelope, Companies, Tokens
  <2>5. r \in Request /\ r.mid \in Mids /\ r.op \in Ops /\ r.tenant = tenant
    <3>1. kept \in TenantIds \cup {None} /\ seen \in TenantIds \cup {None}
          /\ i \in Intents \cup {None} /\ req[w] \in Request
          /\ req[w].mid \in Mids /\ req[w].op \in Ops
      BY <2>1, <2>3, BusyRequest
    <3> HIDE DEF kept, seen
    <3> QED BY <2>3, <2>4, <3>1 DEF Request
  <2> HIDE DEF r
  <2>6. RequestsOK'
    BY <1>0, <2>2, <2>3, <2>5, ContinueType DEF r, kept, seen
  <2> QED BY <1>0, <1>1, <2>6, ReadType DEF Triage
<1>2. CASE ValidateTenant(w)
  <2>1. Busy(w)
    BY <1>2 DEF ValidateTenant, At, Busy
  <2> DEFINE p      == req[w].payload
             cid    == IF req[w].op = "email_resolve" THEN req[w].candidate
                       ELSE Candidate(p.candidate, p.inferred, None)
             tenant == Validate(cid)
             r      == [req[w] EXCEPT !.candidate = None, !.tenant = tenant, !.intent = p.intent]
  <2>2. Continue(w, IF tenant = None THEN "bump" ELSE "clear", r)
    BY <1>2 DEF ValidateTenant
  <2>3. tenant \in TenantIds \cup {None} /\ p.intent \in Intents \cup {None}
    BY <1>0, <2>1, ValidateType, BusyRequest, PayloadTypes
  <2> HIDE DEF tenant
  <2>4. r \in Request /\ r.mid \in Mids /\ r.op \in Ops /\ r.tenant = tenant
    BY <2>1, <2>3, BusyRequest DEF Request
  <2> HIDE DEF r
  <2>5. RequestsOK'
    BY <1>0, <2>2, <2>3, <2>4, ContinueType
  <2> QED BY <1>0, <1>2, <2>5, ReadType DEF ValidateTenant
<1> QED BY <1>1, <1>2

\* Writing or clearing one pending record keeps the type of the store.
LEMMA PendingType ==
  ASSUME TypeOK, NEW m \in Mids, NEW p \in Payload
  PROVE  /\ StoredPending(m, p) \in [Mids -> [ttl : 0..Ttl, payload : Payload]]
         /\ ClearedPending(m) \in [Mids -> [ttl : 0..Ttl, payload : Payload]]
<1>1. Ttl \in 0..Ttl /\ 0 \in 0..Ttl
  BY TtlAssumption
<1>2. NoPayload \in Payload
  BY DEF NoPayload, Payload
<1>3. [ttl |-> Ttl, payload |-> p] \in [ttl : 0..Ttl, payload : Payload]
  BY <1>1
<1>4. NoPending \in [ttl : 0..Ttl, payload : Payload]
  BY <1>1, <1>2 DEF NoPending
<1> QED BY <1>3, <1>4 DEF TypeOK, StoresOK, StoredPending, ClearedPending

\* The steps that write the pending record are well-typed.
LEMMA PendingStepType ==
  ASSUME TypeOK, NEW w \in Workers,
         ParkEmail(w) \/ BumpPendingAttempt(w) \/ ClearPending(w) \/ ClearAfterMark(w)
  PROVE  TypeOK'
<1> USE DEF Steps, Statuses
<1>0. RequestsOK /\ CountersOK /\ NoPayload \in Payload
  BY DEF TypeOK, NoPayload, Payload
<1>1. SUFFICES pending' \in [Mids -> [ttl : 0..Ttl, payload : Payload]] /\ RequestsOK'
  <2>1. faults' \in Nat
    BY <1>0, CallsType DEF ParkEmail, BumpPendingAttempt, ClearPending, ClearAfterMark
  <2>2. UNCHANGED <<processed, receipt, tenants, usage, requests, crashes, history>>
    BY DEF ParkEmail, BumpPendingAttempt, ClearPending, ClearAfterMark
  <2> QED BY <1>1, <2>1, <2>2 DEF TypeOK, StoresOK, CountersOK, HistoryOK, history
<1>2. Busy(w)
  BY DEF ParkEmail, BumpPendingAttempt, ClearPending, ClearAfterMark, At, Busy
<1>3. pending \in [Mids -> [ttl : 0..Ttl, payload : Payload]] /\ Mid(w) \in Mids
  BY <1>2, BusyRequest DEF TypeOK, StoresOK
<1>4. CASE ParkEmail(w)
  <2> DEFINE p == [candidate |-> req[w].candidate, inferred |-> req[w].inferred,
                   intent |-> req[w].intent, attempts |-> 0]
  <2>1. p \in Payload
    BY <1>2, BusyRequest DEF Payload
  <2>2. PICK ok \in BOOLEAN :
          pending' = IF Lands(w, ok) THEN StoredPending(Mid(w), p) ELSE pending
    BY <1>4 DEF ParkEmail
  <2> HIDE DEF p
  <2>3. pending' \in [Mids -> [ttl : 0..Ttl, payload : Payload]]
    BY <1>3, <2>1, <2>2, PendingType
  <2>4. Respond(w, "pending_tenant", None, req[w].intent)
    BY <1>4 DEF ParkEmail
  <2> QED BY <1>0, <1>2, <2>3, <2>4, BusyRequest, RespondType
<1>5. CASE BumpPendingAttempt(w)
  <2> DEFINE p == [req[w].payload EXCEPT !.attempts = @ + 1]
  <2>1. p \in Payload
    BY <1>2, BusyRequest DEF Payload
  <2>2. PICK ok \in BOOLEAN :
          pending' = IF Lands(w, ok) THEN StoredPending(Mid(w), p) ELSE pending
    BY <1>5 DEF BumpPendingAttempt
  <2> HIDE DEF p
  <2>3. pending' \in [Mids -> [ttl : 0..Ttl, payload : Payload]]
    BY <1>3, <2>1, <2>2, PendingType
  <2>4. Respond(w, "pending_tenant", None, req[w].intent)
    BY <1>5 DEF BumpPendingAttempt
  <2> QED BY <1>0, <1>2, <2>3, <2>4, BusyRequest, RespondType
<1>6. CASE ClearPending(w)
  <2> DEFINE r == [req[w] EXCEPT !.payload = NoPayload]
  <2>1. pending' \in [Mids -> [ttl : 0..Ttl, payload : Payload]]
    BY <1>0, <1>3, <1>6, PendingType DEF ClearPending
  <2>2. Continue(w, "mark", r)
    BY <1>6 DEF ClearPending
  <2>3. r \in Request /\ r.mid \in Mids /\ r.op \in Ops /\ r.tenant = req[w].tenant
    BY <1>0, <1>2, BusyRequest DEF Request
  <2>4. req[w].tenant \in TenantIds
    BY <1>0, <1>6 DEF ClearPending, At, RequestsOK
  <2> HIDE DEF r
  <2> QED BY <1>0, <2>1, <2>2, <2>3, <2>4, ContinueType
<1>7. CASE ClearAfterMark(w)
  <2>1. pending' \in [Mids -> [ttl : 0..Ttl, payload : Payload]]
    BY <1>0, <1>3, <1>7, PendingType DEF ClearAfterMark
  <2>2. req[w].tenant \in TenantIds
    BY <1>0, <1>7 DEF ClearAfterMark, At, RequestsOK, AfterMark
  <2>3. Continue(w, IF req[w].op = "email_ingest" THEN "log_ingested" ELSE "log_jira", req[w])
    BY <1>7 DEF ClearAfterMark
  <2> QED BY <1>2, <2>1, <2>2, <2>3, ProceedType
<1> QED BY <1>4, <1>5, <1>6, <1>7

\* Marking records one processing, of the tenant the worker carries.
LEMMA MarkType ==
  ASSUME TypeOK, NEW w \in Workers, At(w, "mark"), Mark(w)
  PROVE  processed' \in [Mids -> 0..Ttl] /\ HistoryOK'
<1>1. Busy(w) /\ Mid(w) \in Mids /\ req[w].op \in Ops /\ req[w].intent \in Intents \cup {None}
  BY BusyRequest DEF At, Busy
<1>2. req[w].tenant \in TenantIds
  BY DEF At, TypeOK, RequestsOK
<1>3. [mid |-> Mid(w), tenant |-> req[w].tenant, intent |-> req[w].intent,
       source |-> req[w].op] \in Commit
  BY <1>1, <1>2 DEF Commit
<1>4. done' \in Seq(Commit)
  BY <1>3 DEF Mark, TypeOK, HistoryOK
<1> QED BY <1>1, <1>4, TtlAssumption DEF Mark, TypeOK, StoresOK, HistoryOK

\* The marker, the receipt and the log rows are well-typed.
LEMMA CommitStepType ==
  ASSUME TypeOK, NEW w \in Workers,
         MarkProcessed(w) \/ SetReceipt(w) \/ LogIngested(w) \/ LogBillable(w)
  PROVE  TypeOK'
<1> USE DEF Steps, Statuses, AfterMark
<1>0. RequestsOK /\ CountersOK /\ faults' \in Nat
  BY CallsType DEF TypeOK, MarkProcessed, SetReceipt, LogIngested, LogBillable, LogUsage
<1>1. /\ Busy(w) /\ Mid(w) \in Mids /\ req[w].op \in Ops
      /\ req[w].intent \in Intents \cup {None}
  BY BusyRequest DEF MarkProcessed, SetReceipt, LogIngested, LogBillable, At, Busy
<1>2. req[w].tenant \in TenantIds
  BY <1>0 DEF MarkProcessed, SetReceipt, LogIngested, LogBillable, At, RequestsOK
<1>3. \A type \in EventTypes : Row(w, type) \in Event
  BY <1>1, <1>2 DEF Row, Event, EventTypes
<1>4. CASE MarkProcessed(w)
  <2>1. PICK ok \in BOOLEAN, wrote \in BOOLEAN :
          /\ IF Lands(w, wrote) THEN Mark(w) ELSE UNCHANGED <<processed, history>>
          /\ IF ok THEN Continue(w, "receipt_set", req[w]) ELSE Abort(w)
    BY <1>4 DEF MarkProcessed
  <2>2. At(w, "mark") /\ UNCHANGED <<receipt, pending, tenants, usage, requests, crashes>>
    BY <1>4 DEF MarkProcessed
  <2>3. processed' \in [Mids -> 0..Ttl] /\ HistoryOK'
    BY <2>1, <2>2, MarkType DEF TypeOK, StoresOK, HistoryOK, history
  <2>4. RequestsOK'
    BY <1>1, <1>2, <2>1, ProceedType, AnswerType DEF Abort
  <2> QED BY <1>0, <2>2, <2>3, <2>4 DEF TypeOK, StoresOK, CountersOK
<1>5. CASE SetReceipt(w)
  <2> DEFINE rc == [ttl |-> Ttl, tenant |-> req[w].tenant, intent |-> req[w].intent]
  <2>1. rc \in [ttl : 0..Ttl, tenant : TenantIds \cup {None}, intent : Intents \cup {None}]
    BY <1>1, <1>2, TtlAssumption
  <2>2. \/ receipt' = [receipt EXCEPT ![Mid(w)] = rc]
        \/ receipt' = receipt
    BY <1>5 DEF SetReceipt
  <2> HIDE DEF rc
  <2>3. receipt' \in [Mids -> [ttl : 0..Ttl, tenant : TenantIds \cup {None},
                               intent : Intents \cup {None}]]
    BY <1>1, <2>1, <2>2 DEF TypeOK, StoresOK
  <2>4. RequestsOK'
    BY <1>1, <1>2, <1>5, ProceedType DEF SetReceipt
  <2> QED BY <1>0, <1>5, <2>3, <2>4
          DEF SetReceipt, TypeOK, StoresOK, CountersOK, HistoryOK, history
<1>6. CASE LogIngested(w)
  <2>1. usage' \in Seq(Event)
    BY <1>3, <1>6 DEF LogIngested, LogUsage, EventTypes, TypeOK, StoresOK
  <2>2. RequestsOK'
    BY <1>1, <1>2, <1>6, ProceedType DEF LogIngested
  <2> QED BY <1>0, <1>6, <2>1, <2>2
          DEF LogIngested, TypeOK, StoresOK, CountersOK, HistoryOK, history
<1>7. CASE LogBillable(w)
  <2>1. usage' \in Seq(Event)
    BY <1>3, <1>7 DEF LogBillable, LogUsage, EventTypes, TypeOK, StoresOK
  <2>2. RequestsOK'
    BY <1>0, <1>1, <1>2, <1>7, RespondType DEF LogBillable
  <2> QED BY <1>0, <1>7, <2>1, <2>2
          DEF LogBillable, TypeOK, StoresOK, CountersOK, HistoryOK, history
<1> QED BY <1>4, <1>5, <1>6, <1>7

\* The answer leaves the worker idle.
LEMMA ReplyType ==
  ASSUME TypeOK, NEW w \in Workers, Reply(w) PROVE TypeOK'
<1>1. RequestsOK'
  BY NoRequestType DEF TypeOK, RequestsOK, Reply, NoRequest, Busy, Mid, AfterMark
<1>2. owed' \subseteq Mids
  BY BusyRequest DEF Reply, At, Busy, TypeOK, HistoryOK
<1> QED BY <1>1, <1>2 DEF Reply, TypeOK, StoresOK, CountersOK, HistoryOK, stores

\* Ageing keeps every time to live within 0..Ttl.
LEMMA TickType ==
  ASSUME TypeOK, Tick PROVE TypeOK'
<1> USE TtlAssumption
<1>1. processed' \in [Mids -> 0..Ttl]
  BY DEF Tick, TypeOK, StoresOK, Left
<1>2. receipt' \in [Mids -> [ttl : 0..Ttl, tenant : TenantIds \cup {None},
                             intent : Intents \cup {None}]]
  <2> DEFINE R == [ttl : 0..Ttl, tenant : TenantIds \cup {None}, intent : Intents \cup {None}]
  <2>1. NoReceipt \in R
    BY DEF NoReceipt
  <2>2. ASSUME NEW rc \in R PROVE AgedReceipt(rc) \in R
    <3>1. CASE rc.ttl <= 1
      BY <2>1, <3>1 DEF AgedReceipt
    <3>2. CASE ~(rc.ttl <= 1)
      <4>1. rc.ttl - 1 \in 0..Ttl
        BY <3>2
      <4> QED BY <3>2, <4>1 DEF AgedReceipt
    <3> QED BY <3>1, <3>2
  <2> QED BY <2>2 DEF Tick, TypeOK, StoresOK
<1>3. pending' \in [Mids -> [ttl : 0..Ttl, payload : Payload]]
  <2> DEFINE R == [ttl : 0..Ttl, payload : Payload]
  <2>1. NoPending \in R
    BY DEF NoPending, NoPayload, Payload
  <2>2. ASSUME NEW pd \in R PROVE Aged(pd) \in R
    <3>1. CASE pd.ttl <= 1
      BY <2>1, <3>1 DEF Aged
    <3>2. CASE ~(pd.ttl <= 1)
      <4>1. pd.ttl - 1 \in 0..Ttl
        BY <3>2
      <4> QED BY <3>2, <4>1 DEF Aged
    <3> QED BY <3>1, <3>2
  <2> QED BY <2>2 DEF Tick, TypeOK, StoresOK
<1>4. RequestsOK'
  <2>1. \A w \in Workers : [req[w] EXCEPT !.late = Busy(w)] \in Request
    BY DEF TypeOK, RequestsOK, Request, Busy
  <2>2. req' \in [Workers -> Request]
    BY <2>1 DEF Tick
  <2>3. \A w \in Workers : req'[w].pc = req[w].pc /\ req'[w].mid = req[w].mid
                           /\ req'[w].op = req[w].op /\ req'[w].tenant = req[w].tenant
    BY DEF Tick, TypeOK, RequestsOK, Request
  <2> QED BY <2>2, <2>3 DEF TypeOK, RequestsOK, Busy, Mid
<1>5. HistoryOK'
  BY DEF Tick, TypeOK, HistoryOK
<1> QED BY <1>1, <1>2, <1>3, <1>4, <1>5 DEF Tick, TypeOK, StoresOK, CountersOK

\* A new tenant and a restart keep the types.
LEMMA EnvironmentType ==
  ASSUME TypeOK, RegisterTenant \/ Crash PROVE TypeOK'
<1>1. CASE RegisterTenant
  BY <1>1 DEF RegisterTenant, TypeOK, StoresOK, RequestsOK, CountersOK, HistoryOK,
              history, Busy, Mid
<1>2. CASE Crash
  <2>1. RequestsOK'
    BY <1>2, NoRequestType DEF Crash, RequestsOK, NoRequest, Busy, Mid, AfterMark
  <2> QED BY <1>2, <2>1 DEF Crash, TypeOK, StoresOK, CountersOK, HistoryOK, stores, history
<1> QED BY <1>1, <1>2

LEMMA InitType ==
  ASSUME Init PROVE TypeOK
<1>1. StoresOK
  BY TtlAssumption, SeededAssumption
     DEF Init, StoresOK, NoReceipt, NoPending, NoPayload, Payload
<1>2. RequestsOK
  BY NoRequestType DEF Init, RequestsOK, NoRequest, Busy, Mid, AfterMark
<1> QED BY <1>1, <1>2 DEF Init, TypeOK, CountersOK, HistoryOK

LEMMA StepType ==
  ASSUME TypeOK, [Next]_vars PROVE TypeOK'
<1>1. ASSUME NEW w \in Workers, Handler(w) PROVE TypeOK'
  BY <1>1, SendType, ReadStepType, ComputeStepType, PendingStepType, CommitStepType, ReplyType
     DEF Handler
<1>2. CASE UNCHANGED vars
  BY <1>2 DEF vars, stores, history, TypeOK, StoresOK, RequestsOK, CountersOK, HistoryOK,
              Busy, Mid
<1> QED BY <1>1, <1>2, TickType, EnvironmentType DEF Next

\* Every behaviour of the pipeline keeps its types; in particular a handler
\* that is about to clear, mark or bill carries a tenant id clients may name.
THEOREM TypeCorrect == Spec => []TypeOK
<1>1. Init => TypeOK
  BY InitType
<1>2. TypeOK /\ [Next]_vars => TypeOK'
  BY StepType
<1> QED BY <1>1, <1>2, PTL DEF Spec

-----------------------------------------------------------------------------
(* What one step of a handler may touch.                                   *)

\* The request of w after a step: another worker's is untouched, w keeps its
\* message until it is idle, and w gets onto the way to the marker only by
\* finding the message unprocessed.
Follows(w) ==
  /\ \A v \in Workers \ {w} : req'[v] = req[v]
  /\ req'[w].pc # "idle" => \/ Busy(w) /\ req'[w].mid = req[w].mid
                            \/ MaySend(w, req'[w].mid)
  /\ req'[w].pc \in BeforeMark => /\ req'[w].mid = req[w].mid
                                  /\ req[w].pc \in BeforeMark \/ processed[Mid(w)] = 0

LEMMA ContinueFollows ==
  ASSUME RequestsOK, NEW w \in Workers, NEW step \in Steps, NEW r \in Request,
         Continue(w, step, r),
         (Busy(w) /\ r.mid = req[w].mid) \/ (MaySend(w, r.mid) /\ step \notin BeforeMark),
         step \in BeforeMark => req[w].pc \in BeforeMark \/ processed[Mid(w)] = 0
  PROVE  Follows(w) /\ req'[w].pc = step /\ req'[w].mid = r.mid
<1> DEFINE q == [r EXCEPT !.pc = step]
<1>1. q.pc = step /\ q.mid = r.mid
  BY DEF Request
<1>2. req' = [req EXCEPT ![w] = q]
  BY DEF Continue
<1> HIDE DEF q
<1>3. req'[w] = q /\ \A v \in Workers \ {w} : req'[v] = req[v]
  BY <1>2 DEF RequestsOK
<1> QED BY <1>1, <1>3 DEF Follows

LEMMA RespondFollows ==
  ASSUME RequestsOK, NEW w \in Workers, Busy(w), NEW status, NEW tenant, NEW intent,
         Respond(w, status, tenant, intent)
  PROVE  Follows(w) /\ req'[w].pc = "reply" /\ req'[w].mid = req[w].mid
  BY DEF Respond, Continue, NoRequest, RequestsOK, Follows, BeforeMark, Mid

\* The steps that change neither the marker nor the pending record.
LEMMA QuietStepFollows ==
  ASSUME TypeOK, NEW w \in Workers,
         \/ IngestRequest(w) \/ ResolveRequest(w) \/ ReprocessRequest(w)
         \/ RoutePrecheck(w) \/ RoutePrefetch(w) \/ CheckProcessed(w) \/ GetReceipt(w)
         \/ Triage(w) \/ ServicePeek(w) \/ FetchPending(w) \/ ValidateTenant(w)
         \/ SetReceipt(w) \/ LogIngested(w) \/ LogBillable(w) \/ Reply(w)
  PROVE  Follows(w) /\ UNCHANGED <<processed, pending, runs>>
<1> USE DEF Steps, BeforeMark
<1>0. RequestsOK
  BY DEF TypeOK
<1>1. SUFFICES Follows(w)
  BY <1>1 DEF IngestRequest, ResolveRequest, ReprocessRequest, Accept, RoutePrecheck, RoutePrefetch,
         CheckProcessed, GetReceipt, Triage, ServicePeek, FetchPending, ValidateTenant,
         SetReceipt, LogIngested, LogBillable, Reply, stores, history
<1>3. CASE IngestRequest(w) \/ ResolveRequest(w) \/ ReprocessRequest(w)
  <2>1. PICK r \in Request, step \in {"check", "precheck"} : Accept(w, step, r)
    BY <1>3, SentRequest
  <2> QED BY <1>0, <2>1, ContinueFollows DEF Accept
<1>6. ASSUME Busy(w), NEW step \in Steps, Continue(w, step, req[w]),
             step \in BeforeMark => req[w].pc \in BeforeMark \/ processed[Mid(w)] = 0
      PROVE  Follows(w)
  BY <1>0, <1>6, BusyRequest, ContinueFollows
<1>7. CASE RoutePrecheck(w)
  BY <1>0, <1>6, <1>7, RespondFollows DEF RoutePrecheck, At, Busy, Abort
<1>8. CASE RoutePrefetch(w)
  BY <1>0, <1>6, <1>8, RespondFollows DEF RoutePrefetch, At, Busy
<1>9. CASE CheckProcessed(w)
  <2>1. Busy(w)
    BY <1>9 DEF CheckProcessed, At, Busy
  <2>2. FirstStep(req[w].op) \in Steps /\ processed[Mid(w)] \in Nat
    BY <2>1, BusyRequest, StoredTypes, TtlAssumption DEF FirstStep, Ops
  <2> QED BY <1>0, <1>6, <1>9, <2>1, <2>2, RespondFollows DEF CheckProcessed, Abort
<1>10. CASE GetReceipt(w)
  BY <1>0, <1>10, RespondFollows DEF GetReceipt, At, Busy
<1>11. CASE Triage(w)
  <2> DEFINE inferred  == Infer(req[w].env.token)
             candidate == Candidate(req[w].env.header, req[w].env.body, inferred)
             tenant    == Validate(candidate)
             kept == IF tenant = None THEN candidate ELSE None
             seen == IF tenant = None THEN inferred ELSE None
             step == IF tenant = None THEN "park" ELSE "mark"
  <2>1. PICK i \in Intents :
          Continue(w, step, [req[w] EXCEPT !.env = NoEnvelope, !.tenant = tenant, !.intent = i,
                                           !.candidate = kept, !.inferred  = seen])
    BY <1>11 DEF Triage
  <2>2. Busy(w) /\ req[w].pc \in BeforeMark /\ step \in Steps
    BY <1>11 DEF Triage, At, Busy
  <2> HIDE DEF tenant, kept, seen, step
  <2> QED BY <1>0, <2>1, <2>2 DEF Continue, RequestsOK, Request, Follows
<1>12. CASE ServicePeek(w)
  BY <1>0, <1>6, <1>12, RespondFollows DEF ServicePeek, At, Busy
<1>13. CASE FetchPending(w)
  <2>1. Busy(w) /\ req[w].pc \in BeforeMark
    BY <1>13 DEF FetchPending, At, Busy
  <2> DEFINE r == [req[w] EXCEPT !.payload = pending[Mid(w)].payload]
  <2>2. r \in Request /\ r.mid = req[w].mid
    BY <2>1, BusyRequest, StoredTypes DEF Request
  <2>3. Continue(w, "validate", r) \/ Respond(w, "pending_tenant", None, None)
    BY <1>13 DEF FetchPending
  <2> HIDE DEF r
  <2> QED BY <1>0, <2>1, <2>2, <2>3, ContinueFollows, RespondFollows
<1>14. CASE ValidateTenant(w)
  BY <1>0, <1>14 DEF ValidateTenant, At, Busy, Continue, RequestsOK, Request, Follows, Mid
<1>15. CASE SetReceipt(w)
  BY <1>6, <1>15 DEF SetReceipt, At, Busy
<1>16. CASE LogIngested(w)
  BY <1>6, <1>16 DEF LogIngested, At, Busy
<1>17. CASE LogBillable(w)
  BY <1>0, <1>17, RespondFollows DEF LogBillable, At, Busy
<1>18. CASE Reply(w)
  BY <1>0, <1>18 DEF Reply, RequestsOK, NoRequest, Follows
<1> QED BY <1>3, <1>7, <1>8, <1>9, <1>10, <1>11, <1>12, <1>13, <1>14,
           <1>15, <1>16, <1>17, <1>18

\* The steps that write the pending record: only a worker on its way to the
\* marker stores one, every other lets it be or removes it.
LEMMA PendingStepFollows ==
  ASSUME TypeOK, NEW w \in Workers,
         ParkEmail(w) \/ BumpPendingAttempt(w) \/ ClearPending(w) \/ ClearAfterMark(w)
  PROVE  /\ Follows(w) /\ UNCHANGED <<processed, runs>>
         /\ \A m \in Mids : \/ pending'[m].ttl <= pending[m].ttl
                            \/ m = Mid(w) /\ req[w].pc \in BeforeMark
<1> USE DEF Steps, BeforeMark
<1>0. RequestsOK /\ Busy(w) /\ UNCHANGED <<processed, runs>>
  BY DEF TypeOK, ParkEmail, BumpPendingAttempt, ClearPending, ClearAfterMark, At, Busy, history
<1>1. \A m \in Mids : pending[m].ttl \in Nat /\ pending[m].ttl >= 0
  BY StoredTypes, TtlAssumption
<1>2. \A m \in Mids : ClearedPending(Mid(w))[m].ttl <= pending[m].ttl
  BY <1>1 DEF ClearedPending, NoPending, TypeOK, StoresOK
<1>3. CASE ParkEmail(w) \/ BumpPendingAttempt(w)
  <2>1. Follows(w)
    BY <1>0, <1>3, RespondFollows DEF ParkEmail, BumpPendingAttempt
  <2>2. \A m \in Mids \ {Mid(w)} : pending'[m] = pending[m]
    BY <1>3 DEF ParkEmail, BumpPendingAttempt, StoredPending, TypeOK, StoresOK
  <2>3. req[w].pc \in BeforeMark
    BY <1>3 DEF ParkEmail, BumpPendingAttempt, At
  <2> QED BY <1>0, <1>1, <2>1, <2>2, <2>3
<1>4. CASE ClearPending(w)
  <2> DEFINE r == [req[w] EXCEPT !.payload = NoPayload]
  <2>1. r \in Request /\ r.mid = req[w].mid
    BY <1>0, BusyRequest DEF Request, NoPayload, Payload
  <2>2. Continue(w, "mark", r) /\ req[w].pc = "clear"
    BY <1>4 DEF ClearPending, At
  <2> HIDE DEF r
  <2>3. Follows(w)
    BY <1>0, <2>1, <2>2, ContinueFollows
  <2>4. pending' = ClearedPending(Mid(w)) \/ pending' = pending
    BY <1>4 DEF ClearPending
  <2> QED BY <1>0, <1>1, <1>2, <2>3, <2>4
<1>5. CASE ClearAfterMark(w)
  <2>1. Follows(w)
    BY <1>0, <1>5, BusyRequest, ContinueFollows DEF ClearAfterMark
  <2>2. pending' = ClearedPending(Mid(w)) \/ pending' = pending
    BY <1>5 DEF ClearAfterMark
  <2> QED BY <1>0, <1>1, <1>2, <2>1, <2>2
<1> QED BY <1>3, <1>4, <1>5

\* The marking step: the worker leaves the way to the marker, and the marker
\* and its count change together or not at all.
LEMMA MarkStepFollows ==
  ASSUME TypeOK, NEW w \in Workers, MarkProcessed(w)
  PROVE  /\ Follows(w) /\ UNCHANGED pending
         /\ req[w].pc = "mark" /\ req'[w].pc \notin BeforeMark
         /\ \/ UNCHANGED <<processed, runs>>
            \/ /\ processed' = [processed EXCEPT ![Mid(w)] = Ttl]
               /\ runs' = [runs EXCEPT ![Mid(w)] = @ + 1]
<1> USE DEF Steps, BeforeMark
<1>0. RequestsOK /\ Busy(w) /\ req[w].pc = "mark" /\ UNCHANGED pending
  BY DEF TypeOK, MarkProcessed, At, Busy
<1>1. Continue(w, "receipt_set", req[w]) \/ Respond(w, "error", None, None)
  BY DEF MarkProcessed, Abort
<1>2. Follows(w) /\ req'[w].pc \notin BeforeMark
  BY <1>0, <1>1, BusyRequest, ContinueFollows, RespondFollows
<1> QED BY <1>0, <1>2 DEF MarkProcessed, Mark, history

\* One step of any handler, as seen from the markers and the pending records.
LEMMA HandlerFootprint ==
  ASSUME TypeOK, NEW w \in Workers, Handler(w)
  PROVE  /\ Follows(w)
         /\ \/ /\ UNCHANGED <<processed, runs>>
               /\ \A m \in Mids : \/ pending'[m].ttl <= pending[m].ttl
                                  \/ m = Mid(w) /\ req[w].pc \in BeforeMark
            \/ /\ req[w].pc = "mark" /\ req'[w].pc \notin BeforeMark
               /\ processed' = [processed EXCEPT ![Mid(w)] = Ttl]
               /\ runs' = [runs EXCEPT ![Mid(w)] = @ + 1]
               /\ UNCHANGED pending
<1>1. \A m \in Mids : pending[m].ttl <= pending[m].ttl
  BY StoredTypes, TtlAssumption
<1> QED BY <1>1, QuietStepFollows, PendingStepFollows, MarkStepFollows DEF Handler

-----------------------------------------------------------------------------
(* One processing per window, when clients do not overlap requests.        *)

LEMMA SerialHandler ==
  ASSUME ~Overlap, SerialInv, TypeOK', NEW w \in Workers, Handler(w)
  PROVE  SerialInv'
<1> USE DEF SerialInv
<1>0. /\ Follows(w)
      /\ \/ /\ UNCHANGED <<processed, runs>>
            /\ \A m \in Mids : \/ pending'[m].ttl <= pending[m].ttl
                               \/ m = Mid(w) /\ req[w].pc \in BeforeMark
         \/ /\ req[w].pc = "mark" /\ req'[w].pc \notin BeforeMark
            /\ processed' = [processed EXCEPT ![Mid(w)] = Ttl]
            /\ runs' = [runs EXCEPT ![Mid(w)] = @ + 1]
            /\ UNCHANGED pending
  BY HandlerFootprint
<1>1. \A v \in Workers : req[v].pc \in BeforeMark => Busy(v) /\ Mid(v) \in Mids
  BY DEF TypeOK, RequestsOK, BeforeMark, Busy
<1>2. \A m \in Mids : /\ processed[m] \in Nat /\ pending[m].ttl \in Nat /\ runs[m] \in Nat
                      /\ pending[m].ttl <= Ttl /\ processed'[m] \in Nat
                      /\ pending'[m].ttl \in Nat
  BY StoredTypes, TtlAssumption DEF TypeOK, StoresOK, HistoryOK
<1>3. Exclusive'
  <2> SUFFICES ASSUME NEW u \in Workers, NEW v \in Workers, u # v,
                      req'[u].pc # "idle", req'[v].pc # "idle", req'[u].mid = req'[v].mid
               PROVE  FALSE
    BY DEF Exclusive, Busy, Mid
  <2>1. ASSUME NEW a \in Workers, a # w, req'[a].pc # "idle", req'[w].pc # "idle",
               req'[a].mid = req'[w].mid
        PROVE  FALSE
    BY <1>0, <2>1 DEF Follows, MaySend, Exclusive, Busy, Mid
  <2> QED BY <1>0, <2>1 DEF Follows, Exclusive, Busy, Mid
<1>4. Uncommitted'
  <2> SUFFICES ASSUME NEW v \in Workers, req'[v].pc \in BeforeMark
               PROVE  processed'[req'[v].mid] = 0
    BY DEF Uncommitted, Mid
  <2>1. CASE v = w
    BY <1>0, <2>1 DEF Follows, Uncommitted, Mid
  <2>2. CASE v # w
    <3>1. req'[v] = req[v]
      BY <1>0, <2>2 DEF Follows
    <3>2. processed[Mid(v)] = 0 /\ Busy(v) /\ Mid(v) \in Mids
      BY <1>1, <3>1 DEF Uncommitted
    <3>3. req[w].pc = "mark" => Mid(w) # Mid(v)
      BY <2>2, <3>2 DEF Exclusive, Busy
    <3> QED BY <1>0, <3>1, <3>2, <3>3 DEF TypeOK, StoresOK, Mid
  <2> QED BY <2>1, <2>2
<1>5. CountedWhileMarked' /\ ProcessedOncePerWindow'
  <2>1. CASE UNCHANGED <<processed, runs>>
    BY <2>1 DEF CountedWhileMarked, ProcessedOncePerWindow
  <2>2. CASE ~UNCHANGED <<processed, runs>>
    <3>1. processed[Mid(w)] = 0 /\ Mid(w) \in Mids
      BY <1>0, <1>1, <2>2 DEF Uncommitted, BeforeMark
    <3>2. runs[Mid(w)] = 0
      BY <3>1 DEF CountedWhileMarked
    <3>3. processed'[Mid(w)] = Ttl /\ runs'[Mid(w)] = 1
      BY <1>0, <2>2, <3>1, <3>2 DEF TypeOK, StoresOK, HistoryOK
    <3>4. \A m \in Mids : m # Mid(w) => processed'[m] = processed[m] /\ runs'[m] = runs[m]
      BY <1>0, <2>2 DEF TypeOK, StoresOK, HistoryOK
    <3> QED BY <3>3, <3>4, TtlAssumption DEF CountedWhileMarked, ProcessedOncePerWindow
  <2> QED BY <2>1, <2>2
<1>6. LeftoverPendingDiesFirst'
  <2>1. req[w].pc \in BeforeMark => processed[Mid(w)] = 0
    BY DEF Uncommitted
  <2> SUFFICES ASSUME NEW m \in Mids, processed'[m] > 0
               PROVE  pending'[m].ttl <= processed'[m]
    BY DEF LeftoverPendingDiesFirst
  <2>2. CASE UNCHANGED processed
    <3>1. pending'[m].ttl <= pending[m].ttl
      BY <1>0, <1>2, <2>1, <2>2, TtlAssumption DEF TypeOK, StoresOK
    <3> QED BY <1>2, <2>2, <3>1, TtlAssumption DEF LeftoverPendingDiesFirst
  <2>3. CASE ~UNCHANGED processed
    <3>1. UNCHANGED pending /\ (processed'[m] = Ttl \/ processed'[m] = processed[m])
      BY <1>0, <2>3 DEF TypeOK, StoresOK
    <3> QED BY <1>2, <3>1, TtlAssumption DEF LeftoverPendingDiesFirst
  <2> QED BY <2>2, <2>3
<1> QED BY <1>3, <1>4, <1>5, <1>6

\* What a tick does to one message and to the requests.
LEMMA TickFootprint ==
  ASSUME TypeOK, Tick
  PROVE  /\ \A w \in Workers : req'[w].pc = req[w].pc /\ req'[w].mid = req[w].mid
         /\ \A m \in Mids :
              /\ processed'[m] = IF processed[m] = 0 THEN 0 ELSE processed[m] - 1
              /\ runs'[m] = IF processed[m] <= 1 THEN 0 ELSE runs[m]
              /\ pending'[m].ttl = IF pending[m].ttl <= 1 THEN 0 ELSE pending[m].ttl - 1
<1>1. \A w \in Workers : req'[w].pc = req[w].pc /\ req'[w].mid = req[w].mid
  BY DEF Tick, TypeOK, RequestsOK, Request
<1>2. ASSUME NEW m \in Mids
      PROVE  pending'[m].ttl = IF pending[m].ttl <= 1 THEN 0 ELSE pending[m].ttl - 1
  BY DEF Tick, Aged, NoPending, TypeOK, StoresOK
<1> QED BY <1>1, <1>2 DEF Tick, Left

LEMMA SerialTick ==
  ASSUME SerialInv, TypeOK', Tick PROVE SerialInv'
<1> USE DEF SerialInv
<1>1. \A w \in Workers : req[w].pc \in BeforeMark => Mid(w) \in Mids
  BY DEF TypeOK, RequestsOK, BeforeMark, Busy
<1>2. \A m \in Mids : processed[m] \in Nat /\ pending[m].ttl \in Nat /\ runs[m] \in Nat
  BY StoredTypes, TtlAssumption DEF TypeOK, HistoryOK
<1>3. Exclusive' /\ Uncommitted'
  BY <1>1, TickFootprint DEF Exclusive, Uncommitted, Busy, Mid
<1>4. CountedWhileMarked' /\ ProcessedOncePerWindow'
  BY <1>2, TickFootprint DEF CountedWhileMarked, ProcessedOncePerWindow
<1>5. LeftoverPendingDiesFirst'
  BY <1>2, TickFootprint DEF LeftoverPendingDiesFirst
<1> QED BY <1>3, <1>4, <1>5

LEMMA SerialStep ==
  ASSUME ~Overlap, SerialInv, [Next]_vars PROVE SerialInv'
<1>1. TypeOK'
  BY StepType DEF SerialInv
<1>2. CASE RegisterTenant
  BY <1>1, <1>2 DEF RegisterTenant, SerialInv, Exclusive, Uncommitted, CountedWhileMarked,
     ProcessedOncePerWindow, LeftoverPendingDiesFirst, history, Busy, Mid
<1>3. CASE Crash
  <2>1. \A w \in Workers : req'[w].pc = "idle"
    BY <1>3 DEF Crash, NoRequest
  <2> QED BY <1>1, <1>3, <2>1 DEF Crash, SerialInv, Exclusive, Uncommitted, BeforeMark,
     CountedWhileMarked, ProcessedOncePerWindow, LeftoverPendingDiesFirst, history, stores, Busy
<1>4. CASE UNCHANGED vars
  BY <1>1, <1>4 DEF vars, stores, history, SerialInv, Exclusive, Uncommitted,
     CountedWhileMarked, ProcessedOncePerWindow, LeftoverPendingDiesFirst, Busy, Mid
<1> QED BY <1>1, <1>2, <1>3, <1>4, SerialHandler, SerialTick DEF Next

LEMMA SerialInit ==
  ASSUME Init PROVE SerialInv
<1>1. \A m \in Mids : processed[m] = 0 /\ runs[m] = 0
  BY DEF Init
<1>2. \A w \in Workers : req[w].pc = "idle"
  BY DEF Init, NoRequest
<1> QED BY <1>1, <1>2, InitType DEF SerialInv, Exclusive, Uncommitted, BeforeMark, Busy,
        CountedWhileMarked, ProcessedOncePerWindow, LeftoverPendingDiesFirst

\* When clients do not overlap requests for one message, every email is
\* processed at most once in the life of its marker, through any store
\* failures and restarts.
THEOREM SerialProcessedOnce ==
  ASSUME ~Overlap PROVE Spec => []ProcessedOncePerWindow
<1>1. SerialInv => ProcessedOncePerWindow
  BY DEF SerialInv
<1>2. SerialInv /\ [Next]_vars => SerialInv'
  BY SerialStep
<1> QED BY <1>1, <1>2, SerialInit, PTL DEF Spec

\* Under the same condition, a pending record left behind by a swallowed clear
\* never outlives the marker of its email.
THEOREM SerialLeftoverDies ==
  ASSUME ~Overlap PROVE Spec => []LeftoverPendingDiesFirst
<1>1. SerialInv => LeftoverPendingDiesFirst
  BY DEF SerialInv
<1>2. SerialInv /\ [Next]_vars => SerialInv'
  BY SerialStep
<1> QED BY <1>1, <1>2, SerialInit, PTL DEF Spec

-----------------------------------------------------------------------------
(* One processing per worker and window, whatever clients do.              *)

\* A set of workers is no larger than the pool, and losing one counts.
LEMMA CrowdSize ==
  ASSUME NEW S \in SUBSET Workers
  PROVE  /\ IsFiniteSet(S) /\ Cardinality(S) \in Nat /\ Cardinality(Workers) \in Nat
         /\ Cardinality(S) <= Cardinality(Workers)
         /\ \A w \in S : Cardinality(S \ {w}) = Cardinality(S) - 1
         /\ \A T \in SUBSET S : Cardinality(T) \in Nat /\ Cardinality(T) <= Cardinality(S)
  BY WorkersAssumption, FS_Subset, FS_CardinalityType, FS_RemoveElement

LEMMA CrowdHandler ==
  ASSUME OverlapInv, NEW w \in Workers, Handler(w) PROVE Crowd'
<1> USE DEF OverlapInv
<1>0. /\ Follows(w)
      /\ \/ UNCHANGED <<processed, runs>>
         \/ /\ req[w].pc = "mark" /\ req'[w].pc \notin BeforeMark
            /\ processed' = [processed EXCEPT ![Mid(w)] = Ttl]
            /\ runs' = [runs EXCEPT ![Mid(w)] = @ + 1]
  BY HandlerFootprint
<1> SUFFICES ASSUME NEW m \in Mids
             PROVE \/ runs'[m] = 0
                   \/ /\ processed'[m] > 0
                      /\ runs'[m] + Cardinality(Committing(m)') <= Cardinality(Workers)
  BY DEF Crowd
<1>1. /\ \/ runs[m] = 0
         \/ /\ processed[m] > 0
            /\ runs[m] + Cardinality(Committing(m)) <= Cardinality(Workers)
      /\ runs[m] \in Nat /\ processed[m] \in Nat
  BY StoredTypes, TtlAssumption DEF Crowd, TypeOK, HistoryOK
<1>2. Committing(m) \in SUBSET Workers /\ Committing(m)' \in SUBSET Workers
  BY DEF Committing
<1>3. processed[m] > 0 => Committing(m)' \in SUBSET Committing(m)
  BY <1>0 DEF Committing, Follows, Mid
<1>4. CASE runs'[m] = runs[m] /\ processed'[m] = processed[m]
  <2>1. Cardinality(Committing(m)) \in Nat /\ Cardinality(Workers) \in Nat
    BY <1>2, CrowdSize
  <2>2. processed[m] > 0 => /\ Cardinality(Committing(m)') \in Nat
                            /\ Cardinality(Committing(m)') <= Cardinality(Committing(m))
    BY <1>2, <1>3, CrowdSize
  <2> QED BY <1>1, <1>4, <2>1, <2>2
<1>5. CASE ~(runs'[m] = runs[m] /\ processed'[m] = processed[m])
  <2>1. /\ req[w].pc = "mark" /\ req'[w].pc \notin BeforeMark /\ Mid(w) = m
        /\ processed'[m] = Ttl /\ runs'[m] = runs[m] + 1
    BY <1>0, <1>5 DEF TypeOK, StoresOK, HistoryOK
  <2>2. w \in Committing(m)
    BY <2>1 DEF Committing, BeforeMark
  <2>3. Committing(m)' \in SUBSET (Committing(m) \ {w})
    BY <1>0, <2>1 DEF Committing, Follows, Mid
  <2>4. /\ Cardinality(Committing(m)) <= Cardinality(Workers)
        /\ Cardinality(Committing(m)) \in Nat /\ Cardinality(Workers) \in Nat
        /\ Cardinality(Committing(m) \ {w}) = Cardinality(Committing(m)) - 1
    BY <1>2, <2>2, CrowdSize
  <2>5. Committing(m) \ {w} \in SUBSET Workers
    BY <1>2
  <2>6. /\ Cardinality(Committing(m)') \in Nat
        /\ Cardinality(Committing(m)') <= Cardinality(Committing(m) \ {w})
    BY <2>3, <2>5, CrowdSize
  <2> QED BY <1>1, <2>1, <2>4, <2>6, TtlAssumption
<1> QED BY <1>4, <1>5

LEMMA CrowdTick ==
  ASSUME OverlapInv, Tick PROVE Crowd'
<1>1. TypeOK
  BY DEF OverlapInv
<1>2. \A m \in Mids : Committing(m)' = Committing(m)
  BY <1>1, TickFootprint DEF Committing, Mid
<1>3. \A m \in Mids : processed[m] \in Nat /\ runs[m] \in Nat
  BY <1>1, StoredTypes, TtlAssumption DEF TypeOK, HistoryOK
<1> QED BY <1>1, <1>2, <1>3, TickFootprint DEF OverlapInv, Crowd

LEMMA CrowdStep ==
  ASSUME OverlapInv, [Next]_vars PROVE OverlapInv'
<1>1. TypeOK'
  BY StepType DEF OverlapInv
<1>2. CASE RegisterTenant
  BY <1>1, <1>2 DEF RegisterTenant, OverlapInv, Crowd, Committing, history, Mid
<1>3. CASE Crash
  <2>1. \A m \in Mids : Committing(m)' = {}
    BY <1>3 DEF Crash, NoRequest, Committing, BeforeMark
  <2>2. \A m \in Mids : /\ Cardinality(Committing(m)) \in Nat /\ runs[m] \in Nat
                        /\ Cardinality(Workers) \in Nat /\ Cardinality({}) = 0
    BY CrowdSize, FS_EmptySet DEF Committing, OverlapInv, TypeOK, HistoryOK
  <2> QED BY <1>1, <1>3, <2>1, <2>2 DEF Crash, OverlapInv, Crowd, history, stores
<1>4. CASE UNCHANGED vars
  BY <1>1, <1>4 DEF vars, stores, history, OverlapInv, Crowd, Committing, Mid
<1> QED BY <1>1, <1>2, <1>3, <1>4, CrowdHandler, CrowdTick DEF Next, OverlapInv

\* However clients overlap their requests, and whatever fails, one window sees
\* at most one processing of an email per worker of the pool.
THEOREM DuplicationBounded == Spec => []BoundedDuplication
<1>1. Init => OverlapInv
  <2>1. Init => \A m \in Mids : runs[m] = 0
    BY DEF Init
  <2> QED BY <2>1, InitType DEF OverlapInv, Crowd
<1>2. OverlapInv /\ [Next]_vars => OverlapInv'
  BY CrowdStep
<1>3. OverlapInv => BoundedDuplication
  <2> SUFFICES ASSUME OverlapInv, NEW m \in Mids
               PROVE  runs[m] <= Cardinality(Workers)
    BY DEF BoundedDuplication
  <2>1. /\ Cardinality(Committing(m)) \in Nat /\ Cardinality(Workers) \in Nat
        /\ runs[m] \in Nat
    BY CrowdSize DEF Committing, OverlapInv, TypeOK, HistoryOK
  <2> QED BY <2>1 DEF OverlapInv, Crowd
<1> QED BY <1>1, <1>2, <1>3, PTL DEF Spec

-----------------------------------------------------------------------------
(* The pipeline implements the lifecycle.                                  *)

\* The message a handler's step is about is the only one whose record changes,
\* and a marker comes with exactly one more processing.
LEMMA StageFootprint ==
  ASSUME TypeOK, NEW w \in Workers, Handler(w)
  PROVE  /\ \A m \in Mids \ {Mid(w)} : pending'[m] = pending[m]
         /\ \/ UNCHANGED <<processed, done>>
            \/ /\ req[w].pc = "mark" /\ Mid(w) \in Mids
               /\ processed' = [processed EXCEPT ![Mid(w)] = Ttl]
               /\ Len(done') = Len(done) + 1
<1>1. CASE ParkEmail(w) \/ BumpPendingAttempt(w) \/ ClearPending(w) \/ ClearAfterMark(w)
  BY <1>1 DEF ParkEmail, BumpPendingAttempt, ClearPending, ClearAfterMark, StoredPending,
              ClearedPending, history, TypeOK, StoresOK
<1>2. CASE MarkProcessed(w)
  <2>1. At(w, "mark") /\ UNCHANGED pending /\ (Mark(w) \/ UNCHANGED <<processed, done>>)
    BY <1>2 DEF MarkProcessed, history
  <2>2. Mid(w) \in Mids
    BY <2>1, BusyRequest DEF At, Busy
  <2>3. Mark(w) => Len(done') = Len(done) + 1
    <3> SUFFICES ASSUME Mark(w) PROVE Len(done') = Len(done) + 1
      OBVIOUS
    <3> DEFINE c == [mid |-> Mid(w), tenant |-> req[w].tenant, intent |-> req[w].intent,
                     source |-> req[w].op]
    <3>1. done \in Seq(Commit) /\ done' = Append(done, c)
      BY DEF TypeOK, HistoryOK, Mark
    <3> HIDE DEF c
    <3> QED BY <3>1
  <2> QED BY <2>1, <2>2, <2>3 DEF At, Mark
<1>3. CASE ~(ParkEmail(w) \/ BumpPendingAttempt(w) \/ ClearPending(w) \/ ClearAfterMark(w)
             \/ MarkProcessed(w))
  BY <1>3 DEF Handler, IngestRequest, ResolveRequest, ReprocessRequest, Accept, RoutePrecheck,
     RoutePrefetch, CheckProcessed, GetReceipt, Triage, ServicePeek, FetchPending,
     ValidateTenant, SetReceipt, LogIngested, LogBillable, Reply, stores, history
<1> QED BY <1>1, <1>2, <1>3

\* A step that leaves the markers alone and moves at most one message between
\* unknown and pending is a step of the lifecycle.
LEMMA UnmarkedStage ==
  ASSUME UNCHANGED Len(done), NEW k,
         \A m \in Mids \ {k} : StageOf(m)' = StageOf(m),
         k \in Mids => \/ StageOf(k)' = StageOf(k)
                       \/ {StageOf(k), StageOf(k)'} \subseteq {"unknown", "pending"}
  PROVE  [Lifecycle!Next]_(Lifecycle!vars)
<1> DEFINE stg == [m \in Mids |-> StageOf(m)]
           nxt == [m \in Mids |-> StageOf(m)']
<1>1. CASE nxt = stg
  BY <1>1 DEF Lifecycle!vars
<1>2. CASE nxt # stg
  <2>1. k \in Mids /\ StageOf(k)' # StageOf(k)
    BY <1>2
  <2>2. CASE StageOf(k)' = "pending"
    <3>1. stg[k] = "unknown" /\ nxt = [stg EXCEPT ![k] = "pending"]
      BY <2>1, <2>2
    <3> QED BY <2>1, <3>1 DEF Lifecycle!Next, Lifecycle!Park
  <2>3. CASE StageOf(k)' = "unknown"
    <3>1. nxt = [m \in Mids |-> IF m \in {k} THEN "unknown" ELSE stg[m]]
      BY <2>1, <2>3
    <3>2. {k} \in SUBSET Mids
      BY <2>1
    <3> QED BY <3>1, <3>2 DEF Lifecycle!Next, Lifecycle!Forget
  <2> QED BY <2>1, <2>2, <2>3
<1> QED BY <1>1, <1>2

\* A step that only forgets is a step of the lifecycle.
LEMMA ForgetfulStage ==
  ASSUME UNCHANGED Len(done),
         \A m \in Mids : StageOf(m)' = StageOf(m) \/ StageOf(m)' = "unknown"
  PROVE  [Lifecycle!Next]_(Lifecycle!vars)
<1> DEFINE stg == [m \in Mids |-> StageOf(m)]
           S == {m \in Mids : StageOf(m)' = "unknown"}
<1>1. [m \in Mids |-> StageOf(m)'] = [m \in Mids |-> IF m \in S THEN "unknown" ELSE stg[m]]
  OBVIOUS
<1> QED BY <1>1 DEF Lifecycle!Next, Lifecycle!Forget

LEMMA HandlerStage ==
  ASSUME ~Overlap, SerialInv, NEW w \in Workers, Handler(w)
  PROVE  [Lifecycle!Next]_(Lifecycle!vars)
<1>0. TypeOK /\ TypeOK' /\ RequestsOK /\ RequestsOK'
  BY StepType DEF SerialInv, Next, TypeOK
<1>1. /\ \A m \in Mids \ {Mid(w)} : pending'[m] = pending[m]
      /\ \/ UNCHANGED <<processed, done>>
         \/ /\ req[w].pc = "mark" /\ Mid(w) \in Mids
            /\ processed' = [processed EXCEPT ![Mid(w)] = Ttl]
            /\ Len(done') = Len(done) + 1
  BY <1>0, StageFootprint
<1>2. Follows(w)
  BY <1>0, HandlerFootprint
<1>3. \A m \in Mids \ {Mid(w)} : InHand(m)' <=> InHand(m)
  BY <1>2 DEF InHand, Follows, At, Mid, BeforeMark
<1>4. \A m \in Mids \ {Mid(w)} : StageOf(m)' = StageOf(m)
  BY <1>0, <1>1, <1>3 DEF StageOf, Live, TypeOK, StoresOK
<1>5. CASE UNCHANGED <<processed, done>>
  BY <1>4, <1>5, UnmarkedStage DEF StageOf
<1>6. CASE ~UNCHANGED <<processed, done>>
  <2>0. PICK k \in Mids : k = Mid(w)
    BY <1>1, <1>6
  <2> DEFINE stg == [m \in Mids |-> StageOf(m)]
  <2>1. processed[k] = 0 /\ processed'[k] = Ttl
    BY <1>0, <1>1, <1>6, <2>0 DEF SerialInv, Uncommitted, BeforeMark, TypeOK, StoresOK
  <2>2. StageOf(k) # "processed" /\ StageOf(k)' = "processed"
    BY <2>1, TtlAssumption DEF StageOf
  <2>3. [m \in Mids |-> StageOf(m)'] = [stg EXCEPT ![k] = "processed"]
    BY <1>4, <2>0, <2>2
  <2>4. Lifecycle!Process(k)
    BY <1>1, <1>6, <2>2, <2>3 DEF Lifecycle!Process
  <2> QED BY <2>4 DEF Lifecycle!Next
<1> QED BY <1>5, <1>6

LEMMA TickStage ==
  ASSUME SerialInv, Tick PROVE [Lifecycle!Next]_(Lifecycle!vars)
<1>1. TypeOK /\ UNCHANGED Len(done)
  BY DEF SerialInv, Tick
<1>2. \A m \in Mids : InHand(m)' <=> InHand(m)
  BY <1>1, TickFootprint DEF InHand, At, Mid
<1>3. \A m \in Mids : InHand(m) => processed[m] = 0
  BY DEF InHand, At, SerialInv, Uncommitted, BeforeMark
<1>4. \A m \in Mids : /\ processed[m] \in Nat /\ pending[m].ttl \in Nat
                      /\ processed[m] > 0 => pending[m].ttl <= processed[m]
  BY <1>1, StoredTypes, TtlAssumption DEF SerialInv, LeftoverPendingDiesFirst
<1>5. ASSUME NEW m \in Mids
      PROVE  StageOf(m)' = StageOf(m) \/ StageOf(m)' = "unknown"
  <2>1. /\ processed'[m] = IF processed[m] = 0 THEN 0 ELSE processed[m] - 1
        /\ pending'[m].ttl = IF pending[m].ttl <= 1 THEN 0 ELSE pending[m].ttl - 1
    BY <1>1, TickFootprint
  <2> QED BY <1>2, <1>3, <1>4, <2>1 DEF StageOf, Live
<1> QED BY <1>1, <1>5, ForgetfulStage

LEMMA EnvironmentStage ==
  ASSUME SerialInv, RegisterTenant \/ Crash PROVE [Lifecycle!Next]_(Lifecycle!vars)
<1>1. UNCHANGED <<processed, pending>> /\ UNCHANGED Len(done)
  BY DEF RegisterTenant, Crash, stores, history
<1>2. \A m \in Mids : InHand(m)' => InHand(m)
  BY DEF RegisterTenant, Crash, InHand, At, Mid, NoRequest
<1> QED BY <1>1, <1>2, ForgetfulStage DEF StageOf, Live

\* When clients do not overlap requests for one message, the pipeline with its
\* stores, failures, restarts and clock is an implementation of EmailLifecycle.
THEOREM SerialImplementsLifecycle ==
  ASSUME ~Overlap PROVE Spec => ImplementsLifecycle
<1>1. Init => Lifecycle!Init
  <2> SUFFICES ASSUME Init PROVE Lifecycle!Init
    OBVIOUS
  <2>1. \A m \in Mids : StageOf(m) = "unknown"
    BY DEF Init, StageOf, Live, NoPending, InHand, At, NoRequest
  <2>2. Len(done) = 0
    BY DEF Init
  <2> QED BY <2>1, <2>2 DEF Lifecycle!Init
<1>2. SerialInv /\ [Next]_vars => SerialInv'
  BY SerialStep
<1>3. SerialInv /\ [Next]_vars => [Lifecycle!Next]_(Lifecycle!vars)
  <2> SUFFICES ASSUME SerialInv, [Next]_vars PROVE [Lifecycle!Next]_(Lifecycle!vars)
    OBVIOUS
  <2>1. CASE UNCHANGED vars
    <3>1. UNCHANGED Len(done) /\ \A m \in Mids : StageOf(m)' = StageOf(m)
      BY <2>1 DEF vars, stores, history, StageOf, Live, InHand, At, Mid
    <3> QED BY <3>1, ForgetfulStage
  <2> QED BY <2>1, HandlerStage, TickStage, EnvironmentStage DEF Next
<1> QED BY <1>1, <1>2, <1>3, SerialInit, PTL DEF Spec, ImplementsLifecycle, Lifecycle!Spec

-----------------------------------------------------------------------------
(* What is billed is what was processed.                                   *)

\* Where a handler goes on, its record is the one it goes on with.
LEMMA Continued ==
  ASSUME RequestsOK, NEW w \in Workers, NEW step, NEW r \in Request, Continue(w, step, r)
  PROVE  /\ req'[w].pc = step /\ req'[w].op = r.op /\ req'[w].mid = r.mid
         /\ req'[w].tenant = r.tenant /\ req'[w].intent = r.intent
         /\ req'[w].late = r.late /\ req'[w].status = r.status
         /\ \A v \in Workers \ {w} : req'[v] = req[v]
<1> DEFINE q == [r EXCEPT !.pc = step]
<1>1. /\ q.pc = step /\ q.op = r.op /\ q.mid = r.mid /\ q.tenant = r.tenant
      /\ q.intent = r.intent /\ q.late = r.late /\ q.status = r.status
  BY DEF Request
<1>2. req' = [req EXCEPT ![w] = q]
  BY DEF Continue
<1> HIDE DEF q
<1> QED BY <1>1, <1>2 DEF RequestsOK

LEMMA Responded ==
  ASSUME RequestsOK, NEW w \in Workers, NEW status, NEW tenant, NEW intent,
         Respond(w, status, tenant, intent)
  PROVE  /\ req'[w].pc = "reply" /\ req'[w].op = req[w].op /\ req'[w].mid = req[w].mid
         /\ req'[w].tenant = tenant /\ req'[w].intent = intent
         /\ req'[w].late = req[w].late /\ req'[w].status = status
         /\ \A v \in Workers \ {w} : req'[v] = req[v]
  BY DEF Respond, Continue, RequestsOK, NoRequest, Mid

\* The steps before the marker and the reply touch neither marker, receipt nor
\* log, and lead to no step after the marker.
LEMMA EarlyStep ==
  ASSUME TypeOK, NEW w \in Workers, Handler(w),
         ~(MarkProcessed(w) \/ SetReceipt(w) \/ ClearAfterMark(w) \/ LogIngested(w) \/ LogBillable(w))
  PROVE  /\ UNCHANGED <<processed, receipt, usage, done>>
         /\ req[w].pc \notin AfterMark \cup {"mark"} /\ req'[w].pc \notin AfterMark
         /\ \A v \in Workers \ {w} : req'[v] = req[v]
<1> USE DEF AfterMark
<1>1. RequestsOK
  BY DEF TypeOK
<1>2. Follows(w)
  BY HandlerFootprint
<1>3. \A v \in Workers \ {w} : req'[v] = req[v]
  BY <1>2 DEF Follows
<1>4. ASSUME NEW step \in Steps \ AfterMark, NEW r \in Request, Continue(w, step, r)
      PROVE  req'[w].pc \notin AfterMark
  BY <1>1, <1>4, Continued
<1>5. ASSUME NEW status, NEW tenant, NEW intent, Respond(w, status, tenant, intent)
      PROVE  req'[w].pc \notin AfterMark
  BY <1>1, <1>5, Responded
<1>6. CASE IngestRequest(w) \/ ResolveRequest(w) \/ ReprocessRequest(w)
  <2>1. PICK r \in Request, step \in {"check", "precheck"} : Accept(w, step, r)
    BY <1>6, SentRequest
  <2>2. req[w].pc = "idle" /\ step \in Steps \ AfterMark
    BY <2>1 DEF Accept, MaySend, Busy, Steps
  <2> QED BY <1>3, <1>4, <2>1, <2>2 DEF Accept, stores, history
<1>7. CASE RoutePrecheck(w) \/ RoutePrefetch(w) \/ CheckProcessed(w) \/ GetReceipt(w)
           \/ ServicePeek(w)
  <2>1. Busy(w) /\ req[w].pc \in {"precheck", "prefetch", "check", "receipt", "peek"}
    BY <1>7 DEF RoutePrecheck, RoutePrefetch, CheckProcessed, GetReceipt, ServicePeek, At, Busy
  <2>2. req[w] \in Request /\ FirstStep(req[w].op) \in Steps \ AfterMark
    BY <2>1, BusyRequest DEF FirstStep, Ops, Steps
  <2>3. \/ \E step \in Steps \ AfterMark : Continue(w, step, req[w])
        \/ \E status, tenant, intent : Respond(w, status, tenant, intent)
    BY <1>7, <2>2 DEF RoutePrecheck, RoutePrefetch, CheckProcessed, GetReceipt, ServicePeek,
                      Abort, Steps
  <2>4. req'[w].pc \notin AfterMark
    BY <1>4, <1>5, <2>2, <2>3
  <2> QED BY <1>3, <1>7, <2>1, <2>4
          DEF RoutePrecheck, RoutePrefetch, CheckProcessed, GetReceipt, ServicePeek, stores, history
<1>8. CASE Triage(w) \/ FetchPending(w) \/ ValidateTenant(w) \/ ClearPending(w)
           \/ ParkEmail(w) \/ BumpPendingAttempt(w) \/ Reply(w)
  <2>1. /\ req[w] \in Request
        /\ req[w].pc \in {"triage", "fetch", "validate", "clear", "park", "bump", "reply"}
    BY <1>8, <1>1 DEF RequestsOK, Triage, FetchPending, ValidateTenant, ClearPending, ParkEmail,
                 BumpPendingAttempt, Reply, At
  <2>2. UNCHANGED <<processed, receipt, usage, done>>
    BY <1>8 DEF Triage, FetchPending, ValidateTenant, ClearPending, ParkEmail,
                BumpPendingAttempt, Reply, stores, history
  <2>3. req'[w].pc \notin AfterMark
    <3>1. CASE Triage(w)
      BY <1>1, <3>1 DEF Triage, Continue, RequestsOK, Request
    <3>2. CASE ValidateTenant(w)
      BY <1>1, <3>2 DEF ValidateTenant, Continue, RequestsOK, Request
    <3>3. CASE FetchPending(w)
      BY <1>1, <1>5, <3>3 DEF FetchPending, Continue, RequestsOK, Request
    <3>4. CASE ClearPending(w)
      BY <1>1, <3>4 DEF ClearPending, Continue, RequestsOK, Request
    <3>5. CASE ParkEmail(w) \/ BumpPendingAttempt(w)
      BY <1>5, <3>5 DEF ParkEmail, BumpPendingAttempt
    <3>6. CASE Reply(w)
      BY <1>1, <3>6 DEF Reply, RequestsOK, NoRequest
    <3> QED BY <1>8, <3>1, <3>2, <3>3, <3>4, <3>5, <3>6
  <2> QED BY <1>3, <2>1, <2>2, <2>3
<1> QED BY <1>6, <1>7, <1>8 DEF Handler

\* A handler's step is at most one call, and restarts nothing.
LEMMA HandlerFaults ==
  ASSUME NEW w \in Workers, Handler(w)
  PROVE  UNCHANGED crashes /\ (UNCHANGED faults \/ \E ok \in BOOLEAN : Calls(w, ok))
  BY DEF Handler, IngestRequest, ResolveRequest, ReprocessRequest, Accept, RoutePrecheck,
     RoutePrefetch, CheckProcessed, GetReceipt, Triage, ServicePeek, FetchPending,
     ValidateTenant, ParkEmail, BumpPendingAttempt, ClearPending, MarkProcessed, SetReceipt,
     ClearAfterMark, LogIngested, LogBillable, LogUsage, Reply

\* How often a sequence hits a set.
Hits(s, X) == Cardinality({i \in DOMAIN s : s[i] \in X})

LEMMA HitsType ==
  ASSUME NEW S, NEW s \in Seq(S), NEW X
  PROVE  Hits(s, X) \in Nat
<1> DEFINE H == {i \in DOMAIN s : s[i] \in X}
<1>1. IsFiniteSet(1..Len(s)) /\ H \in SUBSET (1..Len(s))
  BY FS_Interval
<1>2. IsFiniteSet(H)
  BY <1>1, FS_Subset
<1> QED BY <1>2, FS_CardinalityType DEF Hits

LEMMA HitsAppend ==
  ASSUME NEW S, NEW s \in Seq(S), NEW x \in S, NEW X
  PROVE  /\ Hits(s, X) \in Nat
         /\ Hits(Append(s, x), X) = IF x \in X THEN Hits(s, X) + 1 ELSE Hits(s, X)
<1> DEFINE old == {i \in DOMAIN s : s[i] \in X}
           new == {i \in DOMAIN Append(s, x) : Append(s, x)[i] \in X}
           k   == Len(s) + 1
<1>1. /\ DOMAIN s = 1..Len(s) /\ DOMAIN Append(s, x) = 1..k /\ Len(s) \in Nat
      /\ Append(s, x)[k] = x /\ \A i \in 1..Len(s) : Append(s, x)[i] = s[i]
  OBVIOUS
<1>2. IsFiniteSet(old) /\ Cardinality(old) \in Nat
  <2>1. IsFiniteSet(1..Len(s)) /\ old \in SUBSET (1..Len(s))
    BY <1>1, FS_Interval
  <2> QED BY <2>1, FS_Subset, FS_CardinalityType
<1>3. k \notin old
  BY <1>1
<1>4. new = IF x \in X THEN old \cup {k} ELSE old
  <2>1. 1..k = (1..Len(s)) \cup {k}
    BY <1>1
  <2> HIDE DEF k
  <2> QED BY <1>1, <2>1
<1>5. Cardinality(old \cup {k}) = Cardinality(old) + 1
  BY <1>2, <1>3, FS_AddElement
<1> QED BY <1>2, <1>4, <1>5 DEF Hits

\* The rows a worker that has marked its email is still going to write.
DueTypes(w) ==
  IF req[w].pc \notin AfterMark \/ ~Storable(Mid(w)) THEN {}
  ELSE IF req[w].op = "email_ingest" /\ req[w].pc # "log_jira" THEN EventTypes
  ELSE {"jira_preview_generated"}
DueRows(w) == {Row(w, t) : t \in DueTypes(w)}
Dues(e)    == {w \in Workers : e \in DueRows(w)}

\* What is logged and what is still due was earned; without a disturbance it is
\* all that was earned.
Balanced(e) ==
  /\ Logged(e) + Cardinality(Dues(e)) <= Earned(e)
  /\ Undisturbed => Logged(e) + Cardinality(Dues(e)) = Earned(e)

\* email_ingested is logged by an ingest alone.
IngestLogs == \A w \in Workers : At(w, "log_ingested") => req[w].op = "email_ingest"

LedgerInv == TypeOK /\ IngestLogs /\ \A e \in Event : Balanced(e)

\* The commits that earn a row.
Earning(e) == {c \in Commit : e \in Charges(c)}

LEMMA LedgerCounts ==
  ASSUME TypeOK, NEW e
  PROVE  /\ Logged(e) = Hits(usage, {e}) /\ Earned(e) = Hits(done, Earning(e))
         /\ Logged(e) \in Nat /\ Earned(e) \in Nat
         /\ Dues(e) \in SUBSET Workers
<1>1. \A i \in DOMAIN done : done[i] \in Commit
  BY DEF TypeOK, HistoryOK
<1>2. {i \in DOMAIN done : e \in Charges(done[i])} = {i \in DOMAIN done : done[i] \in Earning(e)}
  BY <1>1 DEF Earning
<1>3. {i \in DOMAIN usage : usage[i] = e} = {i \in DOMAIN usage : usage[i] \in {e}}
  OBVIOUS
<1>4. Logged(e) = Hits(usage, {e}) /\ Earned(e) = Hits(done, Earning(e))
  BY <1>2, <1>3 DEF Logged, Earned, Hits
<1>5. usage \in Seq(Event) /\ done \in Seq(Commit)
  BY DEF TypeOK, StoresOK, HistoryOK
<1> QED BY <1>4, <1>5, HitsType DEF Dues

\* A step of one worker as the ledger sees it: nothing happens to it; the
\* worker marks an email, and is then to write what that earns, unless it got
\* an exception; or it writes, or fails to write, a row that is due.
LEMMA LedgerStep ==
  ASSUME TypeOK, IngestLogs, NEW w \in Workers, Handler(w)
  PROVE  /\ \A v \in Workers \ {w} : req'[v] = req[v]
         /\ At(w, "log_ingested")' => req'[w].op = "email_ingest"
         /\ faults' >= faults /\ faults' \in Nat /\ crashes' = crashes
         /\ \/ UNCHANGED <<usage, done>> /\ DueRows(w)' = DueRows(w)
            \/ \E c \in Commit :
                 /\ UNCHANGED usage /\ done' = Append(done, c) /\ DueRows(w) = {}
                 /\ DueRows(w)' = Charges(c) \/ (DueRows(w)' = {} /\ faults' > faults)
            \/ \E e \in DueRows(w) :
                 /\ UNCHANGED done /\ DueRows(w)' = DueRows(w) \ {e} /\ e \in Event
                 /\ usage' = Append(usage, e) \/ (UNCHANGED usage /\ faults' > faults)
<1> USE DEF AfterMark
<1>1. RequestsOK /\ faults \in Nat
  BY DEF TypeOK, CountersOK
<1>2. \A v \in Workers \ {w} : req'[v] = req[v]
  BY HandlerFootprint DEF Follows
<1>3. faults' >= faults /\ faults' \in Nat /\ crashes' = crashes
  <2>1. /\ crashes' = crashes
        /\ faults' = faults \/ \E ok \in BOOLEAN : Calls(w, ok)
    BY HandlerFaults
  <2>2. faults' = faults \/ faults' = faults + 1
    BY <2>1 DEF Calls
  <2> QED BY <1>1, <2>1, <2>2
<1>4. CASE ~(MarkProcessed(w) \/ SetReceipt(w) \/ ClearAfterMark(w) \/ LogIngested(w)
             \/ LogBillable(w))
  <2>1. /\ UNCHANGED <<usage, done>> /\ req[w].pc \notin AfterMark /\ req'[w].pc \notin AfterMark
    BY <1>4, EarlyStep
  <2> QED BY <1>2, <1>3, <2>1 DEF DueRows, DueTypes, At
<1>5. CASE SetReceipt(w) \/ ClearAfterMark(w)
  <2>1. /\ req[w].pc \in {"receipt_set", "clear_after"} /\ UNCHANGED <<usage, done>>
        /\ \E step : /\ Continue(w, step, req[w])
                     /\ \/ step = "clear_after"
                        \/ step = IF req[w].op = "email_ingest" THEN "log_ingested" ELSE "log_jira"
    BY <1>5 DEF SetReceipt, ClearAfterMark, At, history
  <2>2. req[w] \in Request
    BY <1>1 DEF RequestsOK
  <2>3. /\ req'[w].pc \in {"clear_after", IF req[w].op = "email_ingest" THEN "log_ingested" ELSE "log_jira"}
        /\ req'[w].op = req[w].op /\ req'[w].mid = req[w].mid
        /\ req'[w].tenant = req[w].tenant /\ req'[w].intent = req[w].intent
    BY <1>1, <2>1, <2>2, Continued
  <2>4. DueTypes(w)' = DueTypes(w)
    BY <2>1, <2>3 DEF DueTypes, Mid, Storable
  <2>5. DueRows(w)' = DueRows(w)
    BY <2>3, <2>4 DEF DueRows, Row, Mid
  <2>6. At(w, "log_ingested")' => req'[w].op = "email_ingest"
    BY <2>3 DEF At
  <2> QED BY <1>2, <1>3, <2>1, <2>5, <2>6
<1>6. CASE MarkProcessed(w)
  <2>1. PICK ok \in BOOLEAN, wrote \in BOOLEAN :
          /\ Calls(w, ok) /\ (ok => wrote)
          /\ IF Lands(w, wrote) THEN Mark(w) ELSE UNCHANGED <<processed, history>>
          /\ IF ok THEN Continue(w, "receipt_set", req[w]) ELSE Abort(w)
    BY <1>6 DEF MarkProcessed
  <2>2. req[w].pc = "mark" /\ Busy(w) /\ UNCHANGED usage
    BY <1>6 DEF MarkProcessed, At, Busy
  <2>3. DueRows(w) = {}
    BY <2>2 DEF DueRows, DueTypes
  <2>4. /\ req[w] \in Request /\ Mid(w) \in Mids /\ req[w].op \in Ops
        /\ req[w].intent \in Intents \cup {None} /\ req[w].tenant \in TenantIds
    BY <1>1, <2>2, BusyRequest DEF RequestsOK
  <2> DEFINE c == [mid |-> Mid(w), tenant |-> req[w].tenant, intent |-> req[w].intent,
                   source |-> req[w].op]
  <2>5. c \in Commit
    BY <2>4 DEF Commit
  <2>6. CASE ok
    <3>1. /\ req'[w].pc = "receipt_set" /\ req'[w].op = req[w].op /\ req'[w].mid = req[w].mid
          /\ req'[w].tenant = req[w].tenant /\ req'[w].intent = req[w].intent
      BY <1>1, <2>1, <2>4, <2>6, Continued
    <3>2. ~At(w, "log_ingested")'
      BY <3>1 DEF At
    <3>3. CASE Storable(Mid(w))
      <4>1. done' = Append(done, c)
        BY <2>1, <2>6, <3>3 DEF Lands, Mark
      <4>2. DueTypes(w)' = IF req[w].op = "email_ingest" THEN EventTypes ELSE {"jira_preview_generated"}
        BY <3>1, <3>3 DEF DueTypes, Mid, Storable
      <4>3. DueRows(w)' = Charges(c)
        BY <3>1, <4>2 DEF DueRows, Row, Charges, Mid
      <4> HIDE DEF c
      <4> QED BY <1>2, <1>3, <2>2, <2>3, <2>5, <3>2, <4>1, <4>3
    <3>4. CASE ~Storable(Mid(w))
      <4>1. UNCHANGED done /\ DueRows(w)' = {}
        BY <2>1, <3>1, <3>4 DEF Lands, history, DueRows, DueTypes, Mid, Storable
      <4> QED BY <1>2, <1>3, <2>2, <2>3, <3>2, <4>1
    <3> QED BY <3>3, <3>4
  <2>7. CASE ~ok
    <3>1. req'[w].pc = "reply"
      BY <1>1, <2>1, <2>7, Responded DEF Abort
    <3>2. ~At(w, "log_ingested")' /\ DueRows(w)' = {} /\ faults' > faults
      BY <1>1, <2>1, <2>7, <3>1 DEF At, DueRows, DueTypes, Calls
    <3>3. done' = Append(done, c) \/ UNCHANGED done
      BY <2>1 DEF Mark, history
    <3> HIDE DEF c
    <3> QED BY <1>2, <1>3, <2>2, <2>3, <2>5, <3>2, <3>3
  <2> QED BY <2>6, <2>7
<1>7. CASE LogIngested(w) \/ LogBillable(w)
  <2> DEFINE type == IF req[w].pc = "log_ingested" THEN "email_ingested" ELSE "jira_preview_generated"
             e == Row(w, type)
  <2>1. /\ req[w].pc \in {"log_ingested", "log_jira"} /\ Busy(w) /\ UNCHANGED done
        /\ \E ok \in BOOLEAN : LogUsage(w, type, ok)
        /\ \/ req[w].pc = "log_ingested" /\ Continue(w, "log_jira", req[w])
           \/ req[w].pc = "log_jira" /\ Respond(w, "processed", req[w].tenant, req[w].intent)
    BY <1>7 DEF LogIngested, LogBillable, At, Busy, history
  <2>2. /\ req[w] \in Request /\ Mid(w) \in Mids /\ req[w].op \in Ops
        /\ req[w].intent \in Intents \cup {None} /\ req[w].tenant \in TenantIds
    BY <1>1, <2>1, BusyRequest DEF RequestsOK
  <2>3. /\ req'[w].pc = IF req[w].pc = "log_ingested" THEN "log_jira" ELSE "reply"
        /\ req'[w].op = req[w].op /\ req'[w].mid = req[w].mid
        /\ req'[w].tenant = req[w].tenant /\ req'[w].intent = req[w].intent
    BY <1>1, <2>1, <2>2, Continued, Responded
  <2>4. ~At(w, "log_ingested")'
    BY <2>1, <2>3 DEF At
  <2>5. req[w].pc = "log_ingested" => req[w].op = "email_ingest"
    BY DEF IngestLogs, At
  <2>6. CASE Storable(Mid(w))
    <3>1. DueTypes(w) = IF req[w].pc = "log_ingested" THEN EventTypes ELSE {"jira_preview_generated"}
      BY <2>1, <2>5, <2>6 DEF DueTypes
    <3>2. DueTypes(w)' = IF req[w].pc = "log_ingested" THEN {"jira_preview_generated"} ELSE {}
      BY <2>1, <2>3, <2>6 DEF DueTypes, Mid, Storable
    <3>3. \A t : Row(w, t)' = Row(w, t)
      BY <2>3 DEF Row, Mid
    <3>4. \A t, u : Row(w, t) = Row(w, u) => t = u
      BY DEF Row
    <3>5. e \in DueRows(w) /\ DueRows(w)' = DueRows(w) \ {e}
      BY <2>1, <3>1, <3>2, <3>3, <3>4 DEF DueRows, EventTypes
    <3>6. e \in Event
      BY <2>2 DEF Row, Event, EventTypes
    <3>7. usage' = Append(usage, e) \/ (UNCHANGED usage /\ faults' > faults)
      BY <1>1, <2>1, <2>6 DEF LogUsage, Lands, Calls
    <3> HIDE DEF e
    <3> QED BY <1>2, <1>3, <2>1, <2>4, <3>5, <3>6, <3>7
  <2>7. CASE ~Storable(Mid(w))
    <3>1. UNCHANGED usage
      BY <2>1, <2>7 DEF LogUsage, Lands
    <3>2. DueRows(w) = {} /\ DueRows(w)' = {}
      BY <2>3, <2>7 DEF DueRows, DueTypes, Mid, Storable
    <3> QED BY <1>2, <1>3, <2>1, <2>4, <3>1, <3>2
  <2> QED BY <2>6, <2>7
<1> QED BY <1>4, <1>5, <1>6, <1>7

LEMMA LedgerHandler ==
  ASSUME LedgerInv, TypeOK', NEW w \in Workers, Handler(w) PROVE LedgerInv'
<1>1. TypeOK /\ IngestLogs /\ \A e \in Event : Balanced(e)
  BY DEF LedgerInv
<1>2. /\ \A v \in Workers \ {w} : req'[v] = req[v]
      /\ At(w, "log_ingested")' => req'[w].op = "email_ingest"
      /\ faults' >= faults /\ faults' \in Nat /\ crashes' = crashes
      /\ \/ UNCHANGED <<usage, done>> /\ DueRows(w)' = DueRows(w)
         \/ \E c \in Commit :
              /\ UNCHANGED usage /\ done' = Append(done, c) /\ DueRows(w) = {}
              /\ DueRows(w)' = Charges(c) \/ (DueRows(w)' = {} /\ faults' > faults)
         \/ \E e \in DueRows(w) :
              /\ UNCHANGED done /\ DueRows(w)' = DueRows(w) \ {e} /\ e \in Event
              /\ usage' = Append(usage, e) \/ (UNCHANGED usage /\ faults' > faults)
  BY <1>1, LedgerStep
<1>3. IngestLogs'
  BY <1>1, <1>2 DEF IngestLogs, At
<1>4. \A v \in Workers \ {w} : DueRows(v)' = DueRows(v)
  BY <1>2 DEF DueRows, DueTypes, Row, Mid, Storable
<1>5. faults \in Nat /\ (Undisturbed' => Undisturbed /\ ~(faults' > faults))
  BY <1>1, <1>2 DEF TypeOK, CountersOK, Undisturbed
<1>6. ASSUME NEW e \in Event PROVE Balanced(e)'
  <2>1. /\ Logged(e) = Hits(usage, {e}) /\ Logged(e)' = Hits(usage', {e})
        /\ Earned(e) = Hits(done, Earning(e)) /\ Earned(e)' = Hits(done', Earning(e))
    <3>1. \A i \in DOMAIN done' : done'[i] \in Commit
      BY DEF TypeOK, HistoryOK
    <3>2. {i \in DOMAIN done' : e \in Charges(done'[i])} = {i \in DOMAIN done' : done'[i] \in Earning(e)}
      BY <3>1 DEF Earning
    <3>3. {i \in DOMAIN usage' : usage'[i] = e} = {i \in DOMAIN usage' : usage'[i] \in {e}}
      OBVIOUS
    <3> QED BY <1>1, <3>2, <3>3, LedgerCounts DEF Logged, Earned, Hits
  <2>2. usage \in Seq(Event) /\ done \in Seq(Commit) /\ Dues(e) \in SUBSET Workers
    BY <1>1, LedgerCounts DEF TypeOK, StoresOK, HistoryOK
  <2>3. Logged(e) \in Nat /\ Earned(e) \in Nat
    BY <1>1, LedgerCounts
  <2>4. /\ IsFiniteSet(Dues(e)) /\ Cardinality(Dues(e)) \in Nat
        /\ w \in Dues(e) => Cardinality(Dues(e) \ {w}) = Cardinality(Dues(e)) - 1
        /\ w \notin Dues(e) => Cardinality(Dues(e) \cup {w}) = Cardinality(Dues(e)) + 1
    BY <2>2, CrowdSize, FS_AddElement
  <2>5. /\ Logged(e) + Cardinality(Dues(e)) <= Earned(e)
        /\ Undisturbed => Logged(e) + Cardinality(Dues(e)) = Earned(e)
    BY <1>1 DEF Balanced
  <2>6. Dues(e)' = IF e \in DueRows(w)' THEN Dues(e) \cup {w} ELSE Dues(e) \ {w}
    BY <1>4 DEF Dues
  <2>7. w \in Dues(e) <=> e \in DueRows(w)
    BY DEF Dues
  <2>8. CASE UNCHANGED <<usage, done>> /\ DueRows(w)' = DueRows(w)
    <3>1. Dues(e)' = Dues(e)
      BY <2>6, <2>7, <2>8
    <3>2. Logged(e)' = Logged(e) /\ Earned(e)' = Earned(e)
      BY <2>1, <2>8
    <3> QED BY <1>5, <2>5, <3>1, <3>2 DEF Balanced
  <2>9. ASSUME NEW c \in Commit, UNCHANGED usage, done' = Append(done, c), DueRows(w) = {},
               DueRows(w)' = Charges(c) \/ (DueRows(w)' = {} /\ faults' > faults)
        PROVE  Balanced(e)'
    <3>1. Logged(e)' = Logged(e)
      BY <2>1, <2>9
    <3>2. Earned(e)' = IF e \in Charges(c) THEN Earned(e) + 1 ELSE Earned(e)
      BY <2>1, <2>2, <2>9, HitsAppend DEF Earning
    <3>3. w \notin Dues(e)
      BY <2>7, <2>9
    <3>4. CASE e \in DueRows(w)'
      <4>1. e \in Charges(c) /\ Cardinality(Dues(e)') = Cardinality(Dues(e)) + 1
        BY <2>4, <2>6, <2>9, <3>3, <3>4
      <4> QED BY <1>5, <2>3, <2>4, <2>5, <3>1, <3>2, <4>1 DEF Balanced
    <3>5. CASE e \notin DueRows(w)'
      <4>1. Dues(e)' = Dues(e)
        BY <2>6, <3>3, <3>5
      <4>2. e \in Charges(c) => faults' > faults
        BY <2>9, <3>5
      <4> QED BY <1>5, <2>3, <2>4, <2>5, <3>1, <3>2, <4>1, <4>2 DEF Balanced
    <3> QED BY <3>4, <3>5
  <2>10. ASSUME NEW d \in DueRows(w), UNCHANGED done, DueRows(w)' = DueRows(w) \ {d}, d \in Event,
                usage' = Append(usage, d) \/ (UNCHANGED usage /\ faults' > faults)
         PROVE  Balanced(e)'
    <3>1. Earned(e)' = Earned(e)
      BY <2>1, <2>10
    <3>2. \/ Logged(e)' = IF d = e THEN Logged(e) + 1 ELSE Logged(e)
          \/ Logged(e)' = Logged(e) /\ faults' > faults
      <4>1. Hits(Append(usage, d), {e}) = IF d \in {e} THEN Hits(usage, {e}) + 1 ELSE Hits(usage, {e})
        BY <2>2, <2>10, HitsAppend
      <4> QED BY <2>1, <2>10, <4>1
    <3>3. CASE d = e
      <4>1. Cardinality(Dues(e)') = Cardinality(Dues(e)) - 1
        BY <2>4, <2>6, <2>7, <2>10, <3>3
      <4> QED BY <1>5, <2>3, <2>4, <2>5, <3>1, <3>2, <3>3, <4>1 DEF Balanced
    <3>4. CASE d # e
      <4>1. Dues(e)' = Dues(e)
        BY <2>6, <2>7, <2>10, <3>4
      <4> QED BY <1>5, <2>3, <2>4, <2>5, <3>1, <3>2, <3>4, <4>1 DEF Balanced
    <3> QED BY <3>3, <3>4
  <2> QED BY <1>2, <2>8, <2>9, <2>10
<1> QED BY <1>3, <1>6 DEF LedgerInv

\* A restart drops the rows that are due, and nothing else touches the ledger.
LEMMA LedgerOther ==
  ASSUME LedgerInv, TypeOK', Tick \/ RegisterTenant \/ Crash \/ UNCHANGED vars PROVE LedgerInv'
<1>1. TypeOK /\ IngestLogs /\ \A e \in Event : Balanced(e)
  BY DEF LedgerInv
<1>2. UNCHANGED <<usage, done, faults>>
  BY DEF Tick, RegisterTenant, Crash, vars, stores, history
<1>3. CASE Crash
  <2>1. \A w \in Workers : req'[w].pc = "idle"
    BY <1>3 DEF Crash, NoRequest
  <2>2. IngestLogs' /\ \A w \in Workers : DueRows(w)' = {}
    BY <2>1 DEF IngestLogs, At, DueRows, DueTypes, AfterMark
  <2>3. crashes \in Nat /\ ~Undisturbed'
    BY <1>1, <1>3 DEF Crash, TypeOK, CountersOK, Undisturbed
  <2>4. ASSUME NEW e \in Event PROVE Balanced(e)'
    <3>1. Dues(e)' = {}
      BY <2>2 DEF Dues
    <3>2. Cardinality(Dues(e)') = 0
      BY <3>1, FS_EmptySet
    <3>3. Cardinality(Dues(e)) \in Nat /\ Logged(e)' = Logged(e) /\ Earned(e)' = Earned(e)
      BY <1>1, <1>2, CrowdSize, LedgerCounts DEF Logged, Earned
    <3>4. Logged(e) \in Nat /\ Earned(e) \in Nat
      BY <1>1, LedgerCounts
    <3> QED BY <1>1, <2>3, <3>2, <3>3, <3>4 DEF Balanced
  <2> QED BY <2>2, <2>4 DEF LedgerInv
<1>4. CASE ~Crash
  <2>1. UNCHANGED crashes
    BY <1>4 DEF Tick, RegisterTenant, vars
  <2>2. \A w \in Workers : /\ req'[w].pc = req[w].pc /\ req'[w].op = req[w].op
                           /\ req'[w].mid = req[w].mid /\ req'[w].tenant = req[w].tenant
                           /\ req'[w].intent = req[w].intent
    BY <1>1, <1>4 DEF Tick, RegisterTenant, vars, TypeOK, RequestsOK, Request
  <2>3. IngestLogs' /\ \A w \in Workers : DueRows(w)' = DueRows(w)
    BY <1>1, <2>2 DEF IngestLogs, At, DueRows, DueTypes, Row, Mid, Storable
  <2>4. \A e \in Event : Dues(e)' = Dues(e) /\ Logged(e)' = Logged(e) /\ Earned(e)' = Earned(e)
    BY <1>2, <2>3 DEF Dues, Logged, Earned
  <2> QED BY <1>1, <1>2, <2>1, <2>3, <2>4 DEF LedgerInv, Balanced, Undisturbed
<1> QED BY <1>3, <1>4

LEMMA LedgerInit == ASSUME Init PROVE LedgerInv
<1>1. TypeOK
  BY InitType
<1>2. \A w \in Workers : req[w].pc = "idle"
  BY DEF Init, NoRequest
<1>3. IngestLogs /\ \A e \in Event : Dues(e) = {}
  BY <1>2 DEF IngestLogs, At, Dues, DueRows, DueTypes, AfterMark
<1>4. \A e \in Event : Logged(e) = 0 /\ Earned(e) = 0 /\ Cardinality(Dues(e)) = 0
  <2> TAKE e \in Event
  <2>1. /\ {i \in DOMAIN usage : usage[i] = e} = {}
        /\ {i \in DOMAIN done : e \in Charges(done[i])} = {}
    BY DEF Init
  <2> QED BY <1>3, <2>1, FS_EmptySet DEF Logged, Earned
<1> QED BY <1>1, <1>3, <1>4 DEF LedgerInv, Balanced

LEMMA LedgerNext == ASSUME LedgerInv, [Next]_vars PROVE LedgerInv'
<1>1. TypeOK'
  BY StepType DEF LedgerInv
<1> QED BY <1>1, LedgerHandler, LedgerOther DEF Next

\* No row of the usage log without a processing that earned it, however clients
\* overlap their requests and whatever fails.
THEOREM LedgerIsBacked == Spec => []LedgerBacked
<1>1. LedgerInv => LedgerBacked
  <2> SUFFICES ASSUME LedgerInv, NEW i \in DOMAIN usage
               PROVE  Logged(usage[i]) <= Earned(usage[i])
    BY DEF LedgerBacked
  <2>1. TypeOK /\ usage[i] \in Event
    BY DEF LedgerInv, TypeOK, StoresOK
  <2>2. PICK e \in Event : e = usage[i]
    BY <2>1
  <2>3. Cardinality(Dues(e)) \in Nat /\ Logged(e) \in Nat /\ Earned(e) \in Nat
    BY <2>1, LedgerCounts, CrowdSize
  <2> QED BY <2>2, <2>3 DEF LedgerInv, Balanced
<1> QED BY <1>1, LedgerInit, LedgerNext, PTL DEF Spec

\* When nothing failed and nobody is still writing, every processing has all
\* its rows, once each, also when clients overlap their requests.
THEOREM LedgerIsComplete == Spec => []LedgerComplete
<1>1. LedgerInv => LedgerComplete
  <2> SUFFICES ASSUME LedgerInv, Undisturbed, \A w \in Workers : req[w].pc \notin AfterMark,
                      NEW i \in DOMAIN done, NEW e \in Charges(done[i])
               PROVE  Logged(e) = Earned(e)
    BY DEF LedgerComplete
  <2>1. TypeOK /\ done[i] \in Commit
    BY DEF LedgerInv, TypeOK, HistoryOK
  <2>2. e \in Event
    BY <2>1 DEF Charges, Event, EventTypes, Commit
  <2>3. Dues(e) = {}
    BY DEF Dues, DueRows, DueTypes
  <2>4. Cardinality(Dues(e)) = 0
    BY <2>3, FS_EmptySet
  <2>5. Logged(e) \in Nat
    BY <2>1, LedgerCounts
  <2> QED BY <2>2, <2>4, <2>5 DEF LedgerInv, Balanced
<1> QED BY <1>1, LedgerInit, LedgerNext, PTL DEF Spec

-----------------------------------------------------------------------------
(* No accepted email is lost, as long as nothing fails.                    *)

\* A worker past the marker still sees it, in full before the next tick.
Marked(w) ==
  req[w].pc \in AfterMark /\ Storable(Mid(w)) =>
    processed[Mid(w)] > 0 /\ (~req[w].late => processed[Mid(w)] = Ttl)

\* A worker that found its email unprocessed, and has seen no tick since, can
\* see no marker but a fresh one.
Waiting(w) == At(w, "reply") /\ req[w].status = "pending_tenant"
FreshMark(w) ==
  (req[w].pc \in BeforeMark \/ Waiting(w)) /\ ~req[w].late => processed[Mid(w)] \in {0, Ttl}

\* Message n is stored, or about to be marked, or marked; unless a tick has
\* passed (late), the key that says so will survive the next one.
Safe(n, late) ==
  \/ Live(n) /\ (~late => pending[n].ttl = Ttl)
  \/ InHand(n)
  \/ processed[n] > 0 /\ (~late => processed[n] = Ttl)

\* An ingest about to answer pending_tenant has its email safe.
Promised(w) ==
  Waiting(w) /\ req[w].op = "email_ingest" /\ Storable(Mid(w)) => Safe(Mid(w), req[w].late)

\* The steps of resolve and reprocess that may answer pending_tenant.
PendingSteps == {"precheck", "prefetch", "peek", "fetch", "validate", "bump"}
RoleInv == \A w \in Workers : req[w].pc \in PendingSteps => req[w].op # "email_ingest"

KeptInv ==
  /\ TypeOK /\ RoleInv
  /\ \A w \in Workers : Marked(w) /\ FreshMark(w)
  /\ \A m \in owed : processed[m] = 0
  /\ Undisturbed => NoAcceptedEmailLost /\ \A w \in Workers : Promised(w)

\* A worker that is not on its way out of the marker: what its step makes of
\* its own record.
LEMMA KeptRecord ==
  ASSUME TypeOK, RoleInv, NEW w \in Workers, Handler(w)
  PROVE  /\ \A v \in Workers \ {w} : req'[v] = req[v]
         /\ req'[w].pc \in BeforeMark \/ Waiting(w)' =>
              /\ Busy(w) /\ req'[w].mid = req[w].mid /\ req'[w].late = req[w].late
              /\ req[w].pc \in BeforeMark \/ processed[Mid(w)] = 0
         /\ req'[w].pc \in AfterMark =>
              /\ Busy(w) /\ req'[w].mid = req[w].mid /\ req'[w].late = req[w].late
              /\ req[w].pc \in AfterMark \cup {"mark"}
         /\ req'[w].pc \in PendingSteps => req'[w].op # "email_ingest"
         /\ Waiting(w)' /\ req'[w].op = "email_ingest" => ParkEmail(w)
<1> USE DEF BeforeMark, AfterMark, PendingSteps
<1>1. RequestsOK
  BY DEF TypeOK
<1>2. \A v \in Workers \ {w} : req'[v] = req[v]
  BY HandlerFootprint DEF Follows
<1>3. CASE IngestRequest(w) \/ ResolveRequest(w) \/ ReprocessRequest(w)
  <2>1. CASE IngestRequest(w)
    <3>1. PICK m \in Mids, e \in Envelopes :
            Accept(w, "check", [NoRequest EXCEPT !.op = "email_ingest", !.mid = m, !.env = e])
      BY <2>1 DEF IngestRequest
    <3>2. req'[w].pc = "check"
      BY <1>1, <3>1 DEF Accept, Continue, NoRequest, RequestsOK
    <3> QED BY <1>2, <3>2 DEF Waiting, At
  <2>2. CASE ResolveRequest(w)
    <3>1. \E m \in Mids : \E c : Accept(w, "check",
            [NoRequest EXCEPT !.op = "email_resolve", !.mid = m, !.candidate = c])
      BY <2>2 DEF ResolveRequest
    <3>2. req'[w].pc = "check"
      BY <1>1, <3>1 DEF Accept, Continue, NoRequest, RequestsOK
    <3> QED BY <1>2, <3>2 DEF Waiting, At
  <2>3. CASE ReprocessRequest(w)
    <3>1. PICK m \in Mids : Accept(w, "precheck", [NoRequest EXCEPT !.op = "email_reprocess", !.mid = m])
      BY <2>3 DEF ReprocessRequest
    <3>2. req'[w].pc = "precheck" /\ req'[w].op = "email_reprocess"
      BY <1>1, <3>1 DEF Accept, Continue, NoRequest, RequestsOK
    <3> QED BY <1>2, <3>2 DEF Waiting, At
  <2> QED BY <1>3, <2>1, <2>2, <2>3
<1>4. CASE Reply(w)
  BY <1>1, <1>2, <1>4 DEF Reply, RequestsOK, NoRequest, Waiting, At
<1>5. CASE RoutePrecheck(w) \/ RoutePrefetch(w) \/ CheckProcessed(w) \/ GetReceipt(w)
           \/ ServicePeek(w)
  <2>1. Busy(w) /\ req[w] \in Request /\ req[w].op \in Ops
    BY <1>5, BusyRequest DEF RoutePrecheck, RoutePrefetch, CheckProcessed, GetReceipt, ServicePeek,
                             At, Busy
  <2>2. \/ \E step : /\ Continue(w, step, req[w])
                     /\ step \in {"check", "prefetch", "receipt", "triage", "peek", "fetch"}
                     /\ step \in {"prefetch", "peek", "fetch"} => req[w].op # "email_ingest"
                     /\ step \in BeforeMark => req[w].pc \in BeforeMark \/ processed[Mid(w)] = 0
        \/ \E status, tenant, intent :
             /\ Respond(w, status, tenant, intent)
             /\ status = "pending_tenant" => req[w].pc = "peek"
    <3>1. CASE RoutePrecheck(w)
      BY <2>1, <3>1 DEF RoutePrecheck, Abort, RoleInv, At
    <3>2. CASE RoutePrefetch(w)
      BY <2>1, <3>2 DEF RoutePrefetch, At
    <3>3. CASE CheckProcessed(w)
      <4>1. processed[Mid(w)] \in Nat
        BY <2>1, BusyRequest, StoredTypes, TtlAssumption
      <4> QED BY <2>1, <3>3, <4>1 DEF CheckProcessed, Abort, FirstStep, Ops
    <3>4. CASE GetReceipt(w)
      BY <2>1, <3>4 DEF GetReceipt
    <3>5. CASE ServicePeek(w)
      BY <2>1, <3>5 DEF ServicePeek, At, RoleInv
    <3> QED BY <1>5, <3>1, <3>2, <3>3, <3>4, <3>5
  <2>3. CASE \E step : /\ Continue(w, step, req[w])
                       /\ step \in {"check", "prefetch", "receipt", "triage", "peek", "fetch"}
                       /\ step \in {"prefetch", "peek", "fetch"} => req[w].op # "email_ingest"
                       /\ step \in BeforeMark => req[w].pc \in BeforeMark \/ processed[Mid(w)] = 0
    BY <1>1, <1>2, <2>1, <2>3, Continued DEF Waiting, At
  <2>4. CASE \E status, tenant, intent :
               /\ Respond(w, status, tenant, intent)
               /\ status = "pending_tenant" => req[w].pc = "peek"
    BY <1>1, <1>2, <2>1, <2>4, Responded DEF Waiting, At, RoleInv
  <2> QED BY <2>2, <2>3, <2>4
<1>6. CASE Triage(w) \/ FetchPending(w) \/ ValidateTenant(w) \/ ClearPending(w)
  <2>1. Busy(w) /\ req[w] \in Request /\ req[w].pc \in {"triage", "fetch", "validate", "clear"}
    BY <1>6, BusyRequest DEF Triage, FetchPending, ValidateTenant, ClearPending, At, Busy
  <2>2. /\ req'[w].mid = req[w].mid /\ req'[w].op = req[w].op /\ req'[w].late = req[w].late
        /\ \/ req'[w].pc \in {"park", "mark", "clear"}
           \/ req'[w].pc \in {"validate", "bump"} /\ req[w].pc \in {"fetch", "validate"}
           \/ req'[w].pc = "reply" /\ req[w].pc = "fetch"
    <3>1. CASE Triage(w)
      BY <1>1, <2>1, <3>1 DEF Triage, Continue, RequestsOK, Request
    <3>2. CASE FetchPending(w)
      <4>1. CASE Respond(w, "pending_tenant", None, None)
        BY <1>1, <3>2, <4>1, Responded DEF FetchPending, At
      <4>2. CASE ~Respond(w, "pending_tenant", None, None)
        <5> DEFINE r == [req[w] EXCEPT !.payload = pending[Mid(w)].payload]
        <5>1. Continue(w, "validate", r) /\ req[w].pc = "fetch"
          BY <3>2, <4>2 DEF FetchPending, At
        <5>2. pending[Mid(w)].payload \in Payload
          BY <2>1, BusyRequest, StoredTypes
        <5>3. /\ r \in Request /\ r.mid = req[w].mid /\ r.op = req[w].op
              /\ r.late = req[w].late
          BY <2>1, <5>2 DEF Request
        <5> HIDE DEF r
        <5> QED BY <1>1, <5>1, <5>3, Continued
      <4> QED BY <4>1, <4>2
    <3>3. CASE ValidateTenant(w)
      BY <1>1, <2>1, <3>3 DEF ValidateTenant, Continue, RequestsOK, Request, At
    <3>4. CASE ClearPending(w)
      BY <1>1, <2>1, <3>4 DEF ClearPending, Continue, RequestsOK, Request
    <3> QED BY <1>6, <3>1, <3>2, <3>3, <3>4
  <2> QED BY <1>2, <2>1, <2>2 DEF Waiting, At, RoleInv
<1>7. CASE ParkEmail(w) \/ BumpPendingAttempt(w)
  <2>1. Busy(w) /\ req[w].pc \in {"park", "bump"} /\ Respond(w, "pending_tenant", None, req[w].intent)
    BY <1>7 DEF ParkEmail, BumpPendingAttempt, At, Busy
  <2>2. /\ req'[w].mid = req[w].mid /\ req'[w].op = req[w].op /\ req'[w].late = req[w].late
        /\ req'[w].pc = "reply"
    BY <1>1, <2>1, Responded
  <2>3. BumpPendingAttempt(w) => req[w].op # "email_ingest"
    BY DEF BumpPendingAttempt, At, RoleInv
  <2> QED BY <1>2, <1>7, <2>1, <2>2, <2>3 DEF Waiting, At
<1>8. CASE MarkProcessed(w) \/ SetReceipt(w) \/ ClearAfterMark(w) \/ LogIngested(w) \/ LogBillable(w)
  <2>1. /\ Busy(w) /\ req[w] \in Request /\ req[w].pc \in AfterMark \cup {"mark"}
        /\ \/ \E step \in AfterMark : Continue(w, step, req[w])
           \/ \E status \in {"error", "processed"} : \E tenant, intent : Respond(w, status, tenant, intent)
    <3>1. Busy(w) /\ req[w].pc \in AfterMark \cup {"mark"}
      BY <1>8 DEF MarkProcessed, SetReceipt, ClearAfterMark, LogIngested, LogBillable, At, Busy
    <3>2. \/ \E step \in AfterMark : Continue(w, step, req[w])
          \/ \E status \in {"error", "processed"} : \E tenant, intent : Respond(w, status, tenant, intent)
      BY <1>8 DEF MarkProcessed, SetReceipt, ClearAfterMark, LogIngested, LogBillable, Abort
    <3> QED BY <3>1, <3>2, BusyRequest
  <2>2. /\ req'[w].mid = req[w].mid /\ req'[w].late = req[w].late
        /\ req'[w].pc \in AfterMark \/ (req'[w].pc = "reply" /\ req'[w].status # "pending_tenant")
    BY <1>1, <2>1, Continued, Responded
  <2> QED BY <1>2, <2>1, <2>2 DEF Waiting, At
<1> QED BY <1>3, <1>4, <1>5, <1>6, <1>7, <1>8 DEF Handler

\* The same step as the stores see it.  A record is cleared by a worker that is
\* about to mark the email or has marked it; a marker ends the promise.
LEMMA KeptStores ==
  ASSUME TypeOK, NEW w \in Workers, Handler(w)
  PROVE  LET m == Mid(w) IN
         /\ Undisturbed' => Undisturbed
         /\ \/ UNCHANGED <<processed, pending, owed>> /\ ~At(w, "mark") /\ ~ParkEmail(w)
            \/ /\ UNCHANGED <<processed, owed>> /\ ~At(w, "mark")
               /\ \/ \E x : x.ttl = Ttl /\ pending' = [pending EXCEPT ![m] = x]
                  \/ UNCHANGED pending /\ (Undisturbed' => ~Storable(m))
            \/ /\ UNCHANGED <<processed, owed>> /\ pending' = ClearedPending(m) /\ Storable(m)
               /\ ~At(w, "mark")
               /\ \/ At(w, "mark")' /\ req'[w].mid = m
                  \/ At(w, "clear_after")
            \/ /\ At(w, "mark") /\ Storable(m) /\ UNCHANGED pending
               /\ processed' = [processed EXCEPT ![m] = Ttl] /\ owed' = owed \ {m}
            \/ /\ At(w, "mark") /\ UNCHANGED <<processed, pending, owed>>
               /\ Undisturbed' => ~Storable(m)
               /\ Storable(m) => req'[w].pc = "reply"
            \/ /\ UNCHANGED <<processed, pending>> /\ owed' = owed \cup {m}
               /\ Waiting(w) /\ req[w].op = "email_ingest" /\ processed[m] = 0
<1> DEFINE m == Mid(w)
<1>0. RequestsOK /\ faults \in Nat
  BY DEF TypeOK, CountersOK
<1>1. Undisturbed' => Undisturbed /\ faults' = faults
  <2>1. TypeOK' /\ crashes' = crashes /\ faults' >= faults
    <3>1. /\ crashes' = crashes
          /\ faults' = faults \/ \E ok \in BOOLEAN : Calls(w, ok)
      BY HandlerFaults
    <3>2. faults' = faults \/ faults' = faults + 1
      BY <3>1 DEF Calls
    <3> QED BY <1>0, <3>1, <3>2, StepType DEF Next
  <2> QED BY <1>0, <2>1 DEF Undisturbed, TypeOK, CountersOK
<1>2. \A ok \in BOOLEAN : Calls(w, ok) /\ ~ok => ~Undisturbed'
  BY <1>0, <1>1 DEF Calls
<1>3. CASE ParkEmail(w) \/ BumpPendingAttempt(w)
  <2>1. PICK ok \in BOOLEAN :
          /\ Calls(w, ok)
          /\ \/ \E p : pending' = StoredPending(m, p)
             \/ UNCHANGED pending /\ ~Lands(w, ok)
    BY <1>3 DEF ParkEmail, BumpPendingAttempt
  <2>2. ~At(w, "mark") /\ UNCHANGED <<processed, owed>>
    BY <1>3 DEF ParkEmail, BumpPendingAttempt, At, history
  <2>3. \A p : [ttl |-> Ttl, payload |-> p].ttl = Ttl
    OBVIOUS
  <2>4. CASE \E p : pending' = StoredPending(m, p)
    <3>1. \E x : x.ttl = Ttl /\ pending' = [pending EXCEPT ![m] = x]
      BY <2>3, <2>4 DEF StoredPending
    <3> QED BY <1>1, <2>2, <3>1
  <2>5. CASE UNCHANGED pending /\ ~Lands(w, ok)
    BY <1>1, <1>2, <2>1, <2>2, <2>5 DEF Lands
  <2> QED BY <2>1, <2>4, <2>5
<1>4. CASE ClearPending(w)
  <2>1. PICK ok \in BOOLEAN : pending' = IF Lands(w, ok) THEN ClearedPending(m) ELSE pending
    BY <1>4 DEF ClearPending
  <2>2. At(w, "clear") /\ UNCHANGED <<processed, owed>>
    BY <1>4 DEF ClearPending, history
  <2>3. At(w, "mark")' /\ req'[w].mid = m
    BY <1>0, <1>4 DEF ClearPending, Continue, RequestsOK, Request, At, Mid
  <2>4. ~At(w, "mark") /\ ~ParkEmail(w)
    BY <2>2 DEF At, ParkEmail
  <2> QED BY <1>1, <2>1, <2>2, <2>3, <2>4 DEF Lands
<1>5. CASE ClearAfterMark(w)
  <2>1. PICK ok \in BOOLEAN : pending' = IF Lands(w, ok) THEN ClearedPending(m) ELSE pending
    BY <1>5 DEF ClearAfterMark
  <2>2. At(w, "clear_after") /\ UNCHANGED <<processed, owed>>
    BY <1>5 DEF ClearAfterMark, history
  <2>3. ~At(w, "mark") /\ ~ParkEmail(w)
    BY <2>2 DEF At, ParkEmail
  <2> QED BY <1>1, <2>1, <2>2, <2>3 DEF Lands
<1>6. CASE MarkProcessed(w)
  <2>1. PICK ok \in BOOLEAN, wrote \in BOOLEAN :
          /\ Calls(w, ok) /\ (ok => wrote)
          /\ IF Lands(w, wrote) THEN Mark(w) ELSE UNCHANGED <<processed, history>>
          /\ IF ok THEN Continue(w, "receipt_set", req[w]) ELSE Abort(w)
    BY <1>6 DEF MarkProcessed
  <2>2. At(w, "mark") /\ UNCHANGED pending
    BY <1>6 DEF MarkProcessed
  <2>3. CASE Lands(w, wrote)
    BY <1>1, <2>1, <2>2, <2>3 DEF Lands, Mark
  <2>4. CASE ~Lands(w, wrote)
    <3>1. ~ok => req'[w].pc = "reply"
      BY <1>0, <2>1, Responded DEF Abort
    <3> QED BY <1>1, <1>2, <2>1, <2>2, <2>4, <3>1 DEF Lands, history
  <2> QED BY <2>3, <2>4
<1>7. CASE Reply(w)
  <2>1. /\ UNCHANGED <<processed, pending>> /\ At(w, "reply")
        /\ \/ UNCHANGED owed
           \/ /\ owed' = owed \cup {m} /\ req[w].op = "email_ingest"
              /\ req[w].status = "pending_tenant" /\ processed[m] = 0
    BY <1>7 DEF Reply, stores
  <2>2. ~At(w, "mark") /\ ~ParkEmail(w)
    BY <2>1 DEF At, ParkEmail
  <2> QED BY <1>1, <2>1, <2>2 DEF Waiting
<1>8. CASE IngestRequest(w) \/ ResolveRequest(w) \/ ReprocessRequest(w)
  <2>1. /\ ~Busy(w) /\ UNCHANGED <<processed, pending, owed>>
    BY <1>8 DEF IngestRequest, ResolveRequest, ReprocessRequest, Accept, MaySend, stores, history
  <2> QED BY <1>1, <2>1 DEF Busy, At, ParkEmail
<1>9. CASE RoutePrecheck(w) \/ RoutePrefetch(w) \/ CheckProcessed(w) \/ GetReceipt(w)
           \/ Triage(w) \/ ServicePeek(w) \/ FetchPending(w) \/ ValidateTenant(w)
           \/ SetReceipt(w) \/ LogIngested(w) \/ LogBillable(w)
  <2>1. UNCHANGED <<processed, pending, owed>>
    BY <1>9 DEF RoutePrecheck, RoutePrefetch, CheckProcessed, GetReceipt, Triage, ServicePeek,
                FetchPending, ValidateTenant, SetReceipt, LogIngested, LogBillable, stores, history
  <2>2. ~At(w, "mark") /\ ~ParkEmail(w)
    BY <1>9 DEF RoutePrecheck, RoutePrefetch, CheckProcessed, GetReceipt, Triage, ServicePeek,
                FetchPending, ValidateTenant, SetReceipt, LogIngested, LogBillable, ParkEmail, At
  <2> QED BY <1>1, <2>1, <2>2
<1> QED BY <1>3, <1>4, <1>5, <1>6, <1>7, <1>8, <1>9 DEF Handler

\* What is safe stays safe over a handler's step that disturbs nothing: a
\* record that goes leaves a worker at the marker, or a marker.
LEMMA KeptSafe ==
  ASSUME TypeOK, RoleInv, NEW w \in Workers, Handler(w), Marked(w), Undisturbed',
         NEW n \in Mids, Storable(n), NEW late \in BOOLEAN,
         ~late => processed[n] \in {0, Ttl}, Safe(n, late)
  PROVE  Safe(n, late)'
<1> DEFINE m == Mid(w)
<1>1. /\ \A v \in Workers \ {w} : req'[v] = req[v]
      /\ req[w].pc \in AfterMark => processed[m] \in Nat
  <2>1. req[w].pc \in AfterMark => Mid(w) \in Mids
    BY DEF TypeOK, RequestsOK, Busy, AfterMark
  <2> QED BY <2>1, KeptRecord, StoredTypes, TtlAssumption
<1>2. InHand(n) => InHand(n)' \/ (At(w, "mark") /\ m = n)
  BY <1>1 DEF InHand, At, Mid
<1>3. Ttl \in Nat /\ Ttl > 0
  BY TtlAssumption
<1>4. ASSUME UNCHANGED <<processed, pending>>, ~At(w, "mark") \/ m # n PROVE Safe(n, late)'
  BY <1>2, <1>4 DEF Safe, Live
<1>5. CASE \E x : x.ttl = Ttl /\ pending' = [pending EXCEPT ![m] = x]
           /\ UNCHANGED processed /\ ~At(w, "mark")
  <2>1. pending'[n].ttl = IF n = m THEN Ttl ELSE pending[n].ttl
    BY <1>5 DEF TypeOK, StoresOK
  <2> QED BY <1>2, <1>3, <1>5, <2>1 DEF Safe, Live
<1>6. CASE /\ UNCHANGED processed /\ pending' = ClearedPending(m) /\ Storable(m)
           /\ \/ At(w, "mark")' /\ req'[w].mid = m
              \/ At(w, "clear_after")
  <2>1. CASE n # m
    <3>1. pending'[n] = pending[n]
      BY <1>6, <2>1 DEF ClearedPending, TypeOK, StoresOK
    <3> QED BY <1>2, <1>6, <2>1, <3>1 DEF Safe, Live
  <2>2. CASE n = m /\ At(w, "mark")' /\ req'[w].mid = m
    <3>1. InHand(n)'
      BY <2>2 DEF InHand, Mid
    <3> QED BY <3>1 DEF Safe
  <2>3. CASE n = m /\ At(w, "clear_after")
    <3>1. processed[n] > 0
      BY <2>3 DEF Marked, AfterMark, At
    <3>2. ~late => processed[n] = Ttl
      BY <1>3, <3>1
    <3> QED BY <1>6, <3>1, <3>2 DEF Safe
  <2> QED BY <1>6, <2>1, <2>2, <2>3
<1>7. CASE /\ At(w, "mark") /\ UNCHANGED pending /\ processed' = [processed EXCEPT ![m] = Ttl]
  <2>1. processed'[n] = IF n = m THEN Ttl ELSE processed[n]
    BY <1>7 DEF TypeOK, StoresOK
  <2> QED BY <1>2, <1>3, <1>7, <2>1 DEF Safe, Live
<1>8. Waiting(w) => ~At(w, "mark")
  BY DEF Waiting, At
<1> QED BY <1>4, <1>5, <1>6, <1>7, <1>8, KeptStores

LEMMA KeptHandler ==
  ASSUME KeptInv, TypeOK', NEW w \in Workers, Handler(w) PROVE KeptInv'
<1> DEFINE m == Mid(w)
<1>1. /\ TypeOK /\ RoleInv
      /\ \A v \in Workers : Marked(v) /\ FreshMark(v)
      /\ \A n \in owed : processed[n] = 0
      /\ Undisturbed => NoAcceptedEmailLost /\ \A v \in Workers : Promised(v)
  BY DEF KeptInv
<1>2. /\ \A v \in Workers \ {w} : req'[v] = req[v]
      /\ req'[w].pc \in BeforeMark \/ Waiting(w)' =>
           /\ Busy(w) /\ req'[w].mid = req[w].mid /\ req'[w].late = req[w].late
           /\ req[w].pc \in BeforeMark \/ processed[m] = 0
      /\ req'[w].pc \in AfterMark =>
           /\ Busy(w) /\ req'[w].mid = req[w].mid /\ req'[w].late = req[w].late
           /\ req[w].pc \in AfterMark \cup {"mark"}
      /\ req'[w].pc \in PendingSteps => req'[w].op # "email_ingest"
      /\ Waiting(w)' /\ req'[w].op = "email_ingest" => ParkEmail(w)
  BY <1>1, KeptRecord
<1>3. \A v \in Workers : Busy(v) => Mid(v) \in Mids
  BY <1>1 DEF TypeOK, RequestsOK
<1>4. \/ UNCHANGED processed /\ (At(w, "mark") /\ Storable(m) => req'[w].pc = "reply")
      \/ At(w, "mark") /\ m \in Mids /\ processed' = [processed EXCEPT ![m] = Ttl]
  <2>1. /\ Waiting(w) => ~At(w, "mark")
        /\ At(w, "mark") => m \in Mids
    BY <1>3 DEF Waiting, At, Busy
  <2> QED BY <1>1, <2>1, KeptStores
<1>5. \A n \in Mids : processed'[n] = processed[n] \/ (n = m /\ At(w, "mark") /\ processed'[n] = Ttl)
  BY <1>1, <1>4 DEF TypeOK, StoresOK
<1>6. Ttl \in Nat /\ Ttl > 0
  BY TtlAssumption
<1>7. RoleInv'
  BY <1>1, <1>2 DEF RoleInv
<1>8. ASSUME NEW v \in Workers PROVE Marked(v)'
  <2> SUFFICES ASSUME req'[v].pc \in AfterMark, Storable(req'[v].mid)
               PROVE  /\ processed'[req'[v].mid] > 0
                      /\ ~req'[v].late => processed'[req'[v].mid] = Ttl
    BY DEF Marked, Mid, Storable
  <2>1. CASE v # w
    <3>1. req'[v] = req[v] /\ Mid(v) \in Mids
      BY <1>2, <1>3, <2>1 DEF AfterMark, Busy
    <3> QED BY <1>1, <1>5, <1>6, <3>1 DEF Marked, Mid
  <2>2. CASE v = w
    <3>1. /\ req'[w].mid = m /\ req'[w].late = req[w].late /\ m \in Mids
          /\ req[w].pc \in AfterMark \/ At(w, "mark")
      BY <1>2, <1>3, <2>2 DEF At, Mid
    <3>2. CASE req[w].pc \in AfterMark
      BY <1>1, <1>5, <1>6, <2>2, <3>1, <3>2 DEF Marked
    <3>3. CASE At(w, "mark")
      <4>1. processed' = [processed EXCEPT ![m] = Ttl]
        BY <1>4, <2>2, <3>1, <3>3 DEF AfterMark
      <4>2. processed'[m] = Ttl
        BY <1>1, <3>1, <4>1 DEF TypeOK, StoresOK
      <4> QED BY <1>6, <2>2, <3>1, <4>2
    <3> QED BY <3>1, <3>2, <3>3
  <2> QED BY <2>1, <2>2
<1>9. ASSUME NEW v \in Workers PROVE FreshMark(v)'
  <2> SUFFICES ASSUME req'[v].pc \in BeforeMark \/ Waiting(v)', ~req'[v].late
               PROVE  processed'[req'[v].mid] \in {0, Ttl}
    BY DEF FreshMark, Mid
  <2>1. CASE v # w
    <3>1. req'[v] = req[v] /\ (req[v].pc \in BeforeMark \/ Waiting(v)) /\ Mid(v) \in Mids
      BY <1>2, <1>3, <2>1 DEF Waiting, At, BeforeMark, Busy
    <3> QED BY <1>1, <1>5, <3>1 DEF FreshMark, Mid
  <2>2. CASE v = w
    <3>1. processed[m] \in {0, Ttl} /\ req'[w].mid = m /\ m \in Mids
      BY <1>1, <1>2, <1>3, <2>2 DEF FreshMark, Mid
    <3> QED BY <1>5, <2>2, <3>1
  <2> QED BY <2>1, <2>2
<1>10. ASSUME NEW n \in owed' PROVE processed'[n] = 0
  <2>1. \/ UNCHANGED <<processed, owed>>
        \/ processed' = [processed EXCEPT ![m] = Ttl] /\ owed' = owed \ {m}
        \/ UNCHANGED processed /\ owed' = owed \cup {m} /\ processed[m] = 0
    BY <1>1, KeptStores
  <2>2. n \in owed /\ n # m => processed'[n] = processed[n]
    BY <1>1, <2>1 DEF TypeOK, HistoryOK, StoresOK
  <2> QED BY <1>1, <2>1, <2>2
<1>11. ASSUME Undisturbed' PROVE NoAcceptedEmailLost' /\ \A v \in Workers : Promised(v)'
  <2>1. Undisturbed /\ NoAcceptedEmailLost /\ \A v \in Workers : Promised(v)
    BY <1>1, <1>11, KeptStores
  <2>2. ASSUME NEW n \in Mids, Storable(n), NEW late \in BOOLEAN,
               ~late => processed[n] \in {0, Ttl}, Safe(n, late)
        PROVE  Safe(n, late)'
    BY <1>1, <1>11, <2>2, KeptSafe
  <2>3. ASSUME NEW n \in owed', Storable(n) PROVE Live(n)' \/ InHand(n)'
    <3>1. n \in Mids /\ processed'[n] = 0
      BY <1>10, <2>3 DEF TypeOK, HistoryOK
    <3>2. Safe(n, TRUE)
      <4>1. CASE n \in owed
        BY <2>1, <2>3, <4>1 DEF NoAcceptedEmailLost, Safe
      <4>2. CASE n \notin owed
        <5>1. n = m /\ Waiting(w) /\ req[w].op = "email_ingest"
          BY <1>1, <2>3, <4>2, KeptStores
        <5> QED BY <2>1, <2>3, <5>1 DEF Promised, Safe
      <4> QED BY <4>1, <4>2
    <3>3. Safe(n, TRUE)'
      BY <2>2, <2>3, <3>1, <3>2
    <3> QED BY <3>1, <3>3 DEF Safe
  <2>4. ASSUME NEW v \in Workers PROVE Promised(v)'
    <3> SUFFICES ASSUME Waiting(v)', req'[v].op = "email_ingest", Storable(req'[v].mid)
                 PROVE  Safe(Mid(v), req[v].late)'
      BY DEF Promised, Mid, Storable
    <3>1. CASE v # w
      <4>1. req'[v] = req[v] /\ Waiting(v) /\ Mid(v) \in Mids
        BY <1>2, <1>3, <3>1 DEF Waiting, At, Busy
      <4>2. PICK n \in Mids, late \in BOOLEAN : n = Mid(v) /\ late = req[v].late
        BY <1>1, <4>1 DEF TypeOK, RequestsOK, Request
      <4>3. Safe(n, late) /\ Storable(n) /\ (~late => processed[n] \in {0, Ttl})
        BY <1>1, <2>1, <4>1, <4>2 DEF Promised, FreshMark, Mid
      <4>4. Safe(n, late)'
        BY <2>2, <4>3
      <4>5. n = Mid(v)' /\ late = req'[v].late
        BY <4>1, <4>2 DEF Mid
      <4> QED BY <4>4, <4>5 DEF Safe, Live, InHand
    <3>2. CASE v = w
      <4>1. ParkEmail(w) /\ req'[w].mid = m /\ Storable(m) /\ m \in Mids
        BY <1>2, <1>3, <3>2 DEF Mid
      <4>2. At(w, "park") /\ req'[w].pc = "reply"
        BY <3>2, <4>1 DEF ParkEmail, Waiting, At
      <4>3. \E x : x.ttl = Ttl /\ pending' = [pending EXCEPT ![m] = x]
        BY <1>1, <1>11, <4>1, <4>2, KeptStores DEF At, Waiting
      <4>4. pending'[m].ttl = Ttl
        BY <1>1, <4>1, <4>3 DEF TypeOK, StoresOK
      <4> QED BY <1>6, <3>2, <4>1, <4>4 DEF Safe, Live, Mid
    <3> QED BY <3>1, <3>2
  <2> QED BY <2>3, <2>4 DEF NoAcceptedEmailLost, Storable
<1> QED BY <1>7, <1>8, <1>9, <1>10, <1>11 DEF KeptInv

\* A tick ends the promises about the records it expires, and leaves every
\* other one a tick to live: a request sees at most one.
LEMMA KeptTick ==
  ASSUME KeptInv, TypeOK', Tick PROVE KeptInv'
<1>1. /\ TypeOK /\ RoleInv
      /\ \A v \in Workers : Marked(v) /\ FreshMark(v)
      /\ \A n \in owed : processed[n] = 0
      /\ Undisturbed => NoAcceptedEmailLost /\ \A v \in Workers : Promised(v)
  BY DEF KeptInv
<1>2. /\ \A w \in Workers : /\ req'[w].pc = req[w].pc /\ req'[w].mid = req[w].mid
                            /\ req'[w].op = req[w].op /\ req'[w].status = req[w].status
                            /\ ~req[w].late /\ (Busy(w) => req'[w].late)
      /\ \A m \in Mids :
           /\ processed'[m] = IF processed[m] = 0 THEN 0 ELSE processed[m] - 1
           /\ pending'[m].ttl = IF pending[m].ttl <= 1 THEN 0 ELSE pending[m].ttl - 1
      /\ owed' = {m \in owed : pending[m].ttl # 1}
      /\ Undisturbed' = Undisturbed
  <2>1. \A w \in Workers : /\ req'[w].op = req[w].op /\ req'[w].status = req[w].status
                           /\ ~req[w].late /\ (Busy(w) => req'[w].late)
    BY <1>1 DEF Tick, TypeOK, RequestsOK, Request
  <2> QED BY <1>1, <2>1, TickFootprint DEF Tick, Undisturbed
<1>3. \A m \in Mids : processed[m] \in Nat /\ pending[m].ttl \in Nat
  BY <1>1, StoredTypes, TtlAssumption
<1>4. \A w \in Workers : Busy(w) => Mid(w) \in Mids
  BY <1>1 DEF TypeOK, RequestsOK
<1>5. Ttl \in Nat /\ Ttl >= 2
  BY TtlAssumption
<1>6. RoleInv'
  BY <1>1, <1>2 DEF RoleInv
<1>7. ASSUME NEW w \in Workers PROVE Marked(w)' /\ FreshMark(w)'
  <2>1. Waiting(w)' = Waiting(w)
    BY <1>2 DEF Waiting, At
  <2>2. req[w].pc \in AfterMark \cup BeforeMark \/ Waiting(w) => Busy(w)
    BY DEF AfterMark, BeforeMark, Waiting, At, Busy
  <2>3. FreshMark(w)'
    BY <1>2, <2>1, <2>2 DEF FreshMark
  <2>4. Marked(w)'
    BY <1>1, <1>2, <1>3, <1>4, <1>5, <2>2 DEF Marked, Mid, Storable
  <2> QED BY <2>3, <2>4
<1>8. \A n \in owed' : processed'[n] = 0
  BY <1>1, <1>2 DEF TypeOK, HistoryOK
<1>9. \A n \in Mids : InHand(n)' = InHand(n)
  BY <1>2 DEF InHand, At, Mid
<1>10. ASSUME Undisturbed PROVE NoAcceptedEmailLost' /\ \A v \in Workers : Promised(v)'
  <2>1. ASSUME NEW n \in owed', Storable(n) PROVE Live(n)' \/ InHand(n)'
    <3>1. n \in owed /\ n \in Mids /\ pending[n].ttl # 1 /\ (Live(n) \/ InHand(n))
      BY <1>1, <1>2, <1>10, <2>1 DEF TypeOK, HistoryOK, NoAcceptedEmailLost
    <3> QED BY <1>2, <1>3, <1>9, <3>1 DEF Live
  <2>2. ASSUME NEW w \in Workers PROVE Promised(w)'
    <3> SUFFICES ASSUME Waiting(w)', req'[w].op = "email_ingest", Storable(req'[w].mid)
                 PROVE  Safe(Mid(w), req[w].late)'
      BY DEF Promised, Mid, Storable
    <3>1. Waiting(w) /\ Busy(w) /\ req[w].op = "email_ingest" /\ Storable(Mid(w))
      BY <1>2 DEF Waiting, At, Busy, Mid
    <3>2. req'[w].mid = Mid(w) /\ req'[w].late /\ ~req[w].late /\ Mid(w) \in Mids
      BY <1>2, <1>4, <3>1 DEF Mid
    <3>3. Safe(Mid(w), FALSE)
      BY <1>1, <1>10, <3>1, <3>2 DEF Promised, Safe
    <3>4. PICK n \in Mids : n = Mid(w)
      BY <3>2
    <3>5. Live(n)' \/ InHand(n)' \/ processed'[n] > 0
      BY <1>2, <1>3, <1>5, <1>9, <3>3, <3>4 DEF Safe, Live
    <3>6. Mid(w)' = n
      BY <3>2, <3>4 DEF Mid
    <3> QED BY <3>2, <3>5, <3>6 DEF Safe, Live, InHand
  <2> QED BY <2>1, <2>2 DEF NoAcceptedEmailLost, Storable
<1> QED BY <1>2, <1>6, <1>7, <1>8, <1>10 DEF KeptInv

LEMMA KeptNext == ASSUME KeptInv, [Next]_vars PROVE KeptInv'
<1>1. TypeOK'
  BY StepType DEF KeptInv
<1>2. CASE Crash
  <2>1. \A w \in Workers : req'[w].pc = "idle"
    BY <1>2 DEF Crash, NoRequest
  <2>2. ~Undisturbed' /\ UNCHANGED <<processed, owed>>
    BY <1>2 DEF Crash, KeptInv, TypeOK, CountersOK, Undisturbed, stores, history
  <2>3. RoleInv' /\ \A w \in Workers : Marked(w)' /\ FreshMark(w)'
    BY <2>1 DEF RoleInv, Marked, FreshMark, Waiting, At, PendingSteps, AfterMark, BeforeMark
  <2> QED BY <1>1, <2>2, <2>3 DEF KeptInv
<1>3. CASE RegisterTenant \/ UNCHANGED vars
  <2>1. UNCHANGED <<processed, pending, req, faults, crashes, owed>>
    BY <1>3 DEF RegisterTenant, vars, stores, history
  <2> QED BY <1>1, <2>1 DEF KeptInv, RoleInv, Marked, FreshMark, Waiting, Promised, Safe, Undisturbed,
          NoAcceptedEmailLost, InHand, Live, At, Mid
<1> QED BY <1>1, <1>2, <1>3, KeptHandler, KeptTick DEF Next

LEMMA KeptInit == ASSUME Init PROVE KeptInv
<1>1. \A w \in Workers : req[w].pc = "idle"
  BY DEF Init, NoRequest
<1>2. owed = {}
  BY DEF Init
<1> QED BY <1>1, <1>2, InitType DEF KeptInv, RoleInv, Marked, FreshMark, Waiting, Promised,
        NoAcceptedEmailLost, At, PendingSteps, AfterMark, BeforeMark

\* Until a store call first fails or the backend first restarts, an ingest
\* answered pending_tenant keeps its record until its TTL passes or it is
\* processed, also when clients overlap their requests.
THEOREM KeptUntilFailure == Spec => [](Undisturbed => NoAcceptedEmailLost)
<1>1. KeptInv => (Undisturbed => NoAcceptedEmailLost)
  BY DEF KeptInv
<1>2. KeptInv /\ [Next]_vars => KeptInv'
  BY KeptNext
<1> QED BY <1>1, <1>2, KeptInit, PTL DEF Spec

\* So where no call ever fails and the backend never restarts, no email that
\* was accepted is lost.
THEOREM NoEmailLost ==
  ASSUME MaxFaults = 0, MaxCrashes = 0 PROVE Spec => []NoAcceptedEmailLost
<1>1. Init => Undisturbed
  BY DEF Init, Undisturbed
<1>2. KeptInv /\ Undisturbed /\ [Next]_vars => Undisturbed'
  <2> SUFFICES ASSUME KeptInv, Undisturbed, [Next]_vars PROVE Undisturbed'
    OBVIOUS
  <2>1. ~Crash
    BY DEF Crash, Undisturbed
  <2>2. \A w \in Workers, ok \in BOOLEAN : Calls(w, ok) => UNCHANGED faults
    BY DEF Calls, Undisturbed
  <2>3. ASSUME NEW w \in Workers, Handler(w) PROVE UNCHANGED <<faults, crashes>>
    <3>1. UNCHANGED crashes /\ (UNCHANGED faults \/ \E ok \in BOOLEAN : Calls(w, ok))
      BY <2>3, HandlerFaults
    <3> QED BY <2>2, <3>1
  <2> QED BY <2>1, <2>3 DEF Next, Tick, RegisterTenant, vars, Undisturbed
<1>3. KeptInv /\ Undisturbed => NoAcceptedEmailLost
  BY DEF KeptInv
<1>4. KeptInv /\ [Next]_vars => KeptInv'
  BY KeptNext
<1> QED BY <1>1, <1>2, <1>3, <1>4, KeptInit, PTL DEF Spec

-----------------------------------------------------------------------------
(* A duplicate is told the outcome it duplicates, when clients do not      *)
(* overlap requests and nothing has failed.                                *)

\* The last processing of m gave (tenant, intent).
Outcome(m, tenant, intent) == \E i \in DOMAIN done :
  /\ done[i].mid = m
  /\ done[i].tenant = tenant /\ done[i].intent = intent
  /\ \A j \in DOMAIN done : j > i => done[j].mid # m

\* Nobody is between the marker of m and its receipt.
Settled(m) == \A w \in Workers : At(w, "receipt_set") => Mid(w) # m

\* A receipt outlives its marker and tells the last outcome.
Covered(m) ==
  /\ processed[m] <= receipt[m].ttl
  /\ receipt[m].ttl > 0 => Outcome(m, receipt[m].tenant, receipt[m].intent)
ReceiptInv == \A m \in Mids : Settled(m) => Covered(m)

Skipped(w) == At(w, "reply") /\ req[w].status = "duplicate_skipped"
Faithful(w) ==
  /\ At(w, "receipt_set") /\ Storable(Mid(w)) => Outcome(Mid(w), req[w].tenant, req[w].intent)
  /\ At(w, "receipt") /\ ~req[w].late => processed[Mid(w)] > 0
  /\ Skipped(w) => \/ req[w].late /\ req[w].tenant = None
                   \/ Outcome(Mid(w), req[w].tenant, req[w].intent)

BlankInv == BlankMid \in Mids => processed[BlankMid] = 0 /\ receipt[BlankMid].ttl = 0

DuplicateInv ==
  /\ SerialInv /\ BlankInv
  /\ Undisturbed => ReceiptInv /\ \A w \in Workers : Faithful(w)

LEMMA OutcomeAppend ==
  ASSUME done \in Seq(Commit), NEW c \in Commit, done' = Append(done, c)
  PROVE  /\ Outcome(c.mid, c.tenant, c.intent)'
         /\ \A m, t, i : m # c.mid /\ Outcome(m, t, i) => Outcome(m, t, i)'
<1>1. /\ DOMAIN done = 1..Len(done) /\ DOMAIN done' = 1..(Len(done) + 1) /\ Len(done) \in Nat
      /\ done'[Len(done) + 1] = c /\ \A k \in 1..Len(done) : done'[k] = done[k]
  OBVIOUS
<1>2. Outcome(c.mid, c.tenant, c.intent)'
  BY <1>1 DEF Outcome
<1>3. ASSUME NEW m, NEW t, NEW i, m # c.mid, Outcome(m, t, i) PROVE Outcome(m, t, i)'
  <2>1. PICK k \in DOMAIN done : /\ done[k].mid = m /\ done[k].tenant = t /\ done[k].intent = i
                                 /\ \A j \in DOMAIN done : j > k => done[j].mid # m
    BY <1>3 DEF Outcome
  <2>2. k \in DOMAIN done' /\ done'[k] = done[k]
    BY <1>1
  <2>3. \A j \in DOMAIN done' : j > k => done'[j].mid # m
    BY <1>1, <1>3, <2>1
  <2> QED BY <2>1, <2>2, <2>3 DEF Outcome
<1> QED BY <1>2, <1>3

\* Only the idempotency test leads to the receipt, and only a look at the
\* receipt to the answer duplicate_skipped.
LEMMA SkipRecord ==
  ASSUME TypeOK, NEW w \in Workers, Handler(w)
  PROVE  (At(w, "receipt")' => CheckProcessed(w)) /\ (Skipped(w)' => GetReceipt(w))
<1>1. RequestsOK
  BY DEF TypeOK
<1> SUFFICES ASSUME ~CheckProcessed(w), ~GetReceipt(w)
             PROVE  req'[w].pc # "receipt" /\ (req'[w].pc = "reply" => req'[w].status # "duplicate_skipped")
  <2>1. CASE CheckProcessed(w)
    <3>1. At(w, "check") /\ req[w] \in Request
      BY <1>1, <2>1 DEF CheckProcessed, RequestsOK
    <3>2. CASE Abort(w)
      BY <1>1, <2>1, <3>2, Responded DEF Abort, Skipped, At
    <3>3. CASE ~Abort(w)
      <4>1. Continue(w, "receipt", req[w]) \/ Continue(w, FirstStep(req[w].op), req[w])
        BY <2>1, <3>3 DEF CheckProcessed
      <4>2. req[w].op \in Ops
        BY <2>1, BusyRequest DEF CheckProcessed, At, Busy
      <4>3. req'[w].pc # "reply"
        BY <1>1, <3>1, <4>1, <4>2, Continued DEF FirstStep, Ops
      <4> QED BY <2>1, <4>3 DEF Skipped, At
    <3> QED BY <3>2, <3>3
  <2>2. CASE GetReceipt(w)
    BY <1>1, <2>2, Responded DEF GetReceipt, At
  <2> QED BY <2>1, <2>2 DEF At, Skipped
<1>2. CASE IngestRequest(w) \/ ResolveRequest(w) \/ ReprocessRequest(w)
  <2>1. PICK r \in Request, step \in {"check", "precheck"} : Accept(w, step, r)
    BY <1>2, SentRequest
  <2> QED BY <1>1, <2>1, Continued DEF Accept
<1>3. CASE RoutePrecheck(w) \/ RoutePrefetch(w) \/ ServicePeek(w) \/ MarkProcessed(w)
           \/ SetReceipt(w) \/ ClearAfterMark(w) \/ LogIngested(w) \/ LogBillable(w)
  <2>1. \/ \E step \in Steps \ {"receipt", "reply"} : Continue(w, step, req[w])
        \/ \E status \in Statuses \ {"duplicate_skipped"} : \E tenant, intent :
             Respond(w, status, tenant, intent)
    BY <1>3 DEF RoutePrecheck, RoutePrefetch, ServicePeek, MarkProcessed, SetReceipt, ClearAfterMark,
                LogIngested, LogBillable, Abort, Steps, Statuses
  <2>2. req[w] \in Request
    BY <1>1 DEF RequestsOK
  <2> QED BY <1>1, <2>1, <2>2, Continued, Responded
<1>4. CASE Triage(w) \/ FetchPending(w) \/ ValidateTenant(w) \/ ClearPending(w)
           \/ ParkEmail(w) \/ BumpPendingAttempt(w) \/ Reply(w)
  <2>1. req[w] \in Request
    BY <1>1 DEF RequestsOK
  <2>2. CASE Triage(w)
    BY <1>1, <2>2 DEF Triage, Continue, RequestsOK, Request
  <2>3. CASE ValidateTenant(w)
    BY <1>1, <2>3 DEF ValidateTenant, Continue, RequestsOK, Request
  <2>4. CASE FetchPending(w)
    <3>1. CASE Respond(w, "pending_tenant", None, None)
      BY <1>1, <3>1, Responded
    <3>2. CASE ~Respond(w, "pending_tenant", None, None)
      <4> DEFINE r == [req[w] EXCEPT !.payload = pending[Mid(w)].payload]
      <4>1. Continue(w, "validate", r) /\ Busy(w)
        BY <2>4, <3>2 DEF FetchPending, At, Busy
      <4>2. r \in Request
        BY <2>1, <4>1, BusyRequest, StoredTypes DEF Request
      <4> HIDE DEF r
      <4> QED BY <1>1, <4>1, <4>2, Continued
    <3> QED BY <3>1, <3>2
  <2>5. CASE ClearPending(w)
    BY <1>1, <2>5 DEF ClearPending, Continue, RequestsOK, Request
  <2>6. CASE ParkEmail(w) \/ BumpPendingAttempt(w)
    BY <1>1, <2>6, Responded DEF ParkEmail, BumpPendingAttempt
  <2>7. CASE Reply(w)
    BY <1>1, <2>7 DEF Reply, RequestsOK, NoRequest
  <2> QED BY <1>4, <2>2, <2>3, <2>4, <2>5, <2>6, <2>7
<1> QED BY <1>2, <1>3, <1>4 DEF Handler

\* The marker and the receipt, as a handler's step leaves them.
LEMMA ReceiptStep ==
  ASSUME TypeOK, NEW w \in Workers, Handler(w)
  PROVE  LET m == Mid(w) IN
         \/ UNCHANGED <<processed, receipt, done>> /\ ~At(w, "receipt_set") /\ ~At(w, "receipt_set")'
         \/ /\ At(w, "mark") /\ UNCHANGED receipt /\ Storable(m)
            /\ processed' = [processed EXCEPT ![m] = Ttl]
            /\ done' = Append(done, [mid |-> m, tenant |-> req[w].tenant,
                                     intent |-> req[w].intent, source |-> req[w].op])
            /\ At(w, "receipt_set")' => /\ req'[w].mid = m /\ req'[w].tenant = req[w].tenant
                                        /\ req'[w].intent = req[w].intent
            /\ Undisturbed' => At(w, "receipt_set")'
         \/ /\ At(w, "mark") /\ UNCHANGED <<processed, receipt, done>>
            /\ Undisturbed' => ~Storable(m) /\ req'[w].mid = m
         \/ /\ At(w, "receipt_set") /\ ~At(w, "receipt_set")' /\ UNCHANGED <<processed, done>>
            /\ \/ /\ Storable(m)
                  /\ receipt' = [receipt EXCEPT ![m] = [ttl |-> Ttl, tenant |-> req[w].tenant,
                                                        intent |-> req[w].intent]]
               \/ UNCHANGED receipt /\ (Undisturbed' => ~Storable(m))
<1> DEFINE m == Mid(w)
<1>0. RequestsOK /\ req[w] \in Request
  BY DEF TypeOK, RequestsOK
<1>1. \A ok \in BOOLEAN : Calls(w, ok) /\ ~ok => ~Undisturbed'
  BY DEF Calls, Undisturbed, TypeOK, CountersOK
<1>2. CASE ~(MarkProcessed(w) \/ SetReceipt(w) \/ ClearAfterMark(w) \/ LogIngested(w) \/ LogBillable(w))
  BY <1>2, EarlyStep DEF At, AfterMark
<1>3. CASE ClearAfterMark(w) \/ LogIngested(w) \/ LogBillable(w)
  <2>1. /\ UNCHANGED <<processed, receipt, done>> /\ ~At(w, "receipt_set")
        /\ \/ \E step \in {"log_ingested", "log_jira"} : Continue(w, step, req[w])
           \/ Respond(w, "processed", req[w].tenant, req[w].intent)
    BY <1>3 DEF ClearAfterMark, LogIngested, LogBillable, At, history
  <2> QED BY <1>0, <2>1, Continued, Responded DEF At
<1>4. CASE SetReceipt(w)
  <2>1. PICK ok \in BOOLEAN :
          /\ Calls(w, ok)
          /\ receipt' = IF Lands(w, ok)
                        THEN [receipt EXCEPT ![m] = [ttl |-> Ttl, tenant |-> req[w].tenant,
                                                     intent |-> req[w].intent]]
                        ELSE receipt
    BY <1>4 DEF SetReceipt
  <2>2. At(w, "receipt_set") /\ UNCHANGED <<processed, done>> /\ Continue(w, "clear_after", req[w])
    BY <1>4 DEF SetReceipt, history
  <2>3. ~At(w, "receipt_set")'
    BY <1>0, <2>2, Continued DEF At
  <2> QED BY <1>1, <2>1, <2>2, <2>3 DEF Lands
<1>5. CASE MarkProcessed(w)
  <2>1. PICK ok \in BOOLEAN, wrote \in BOOLEAN :
          /\ Calls(w, ok) /\ (ok => wrote)
          /\ IF Lands(w, wrote) THEN Mark(w) ELSE UNCHANGED <<processed, history>>
          /\ IF ok THEN Continue(w, "receipt_set", req[w]) ELSE Abort(w)
    BY <1>5 DEF MarkProcessed
  <2>2. At(w, "mark") /\ UNCHANGED receipt
    BY <1>5 DEF MarkProcessed
  <2>3. ok => /\ At(w, "receipt_set")' /\ req'[w].mid = m /\ req'[w].tenant = req[w].tenant
              /\ req'[w].intent = req[w].intent
    BY <1>0, <2>1, Continued DEF At, Mid
  <2>4. ~ok => ~At(w, "receipt_set")' /\ ~Undisturbed'
    BY <1>0, <1>1, <2>1, Responded DEF Abort, At
  <2>5. CASE Lands(w, wrote)
    BY <2>1, <2>2, <2>3, <2>4, <2>5 DEF Lands, Mark
  <2>6. CASE ~Lands(w, wrote)
    BY <2>1, <2>2, <2>3, <2>4, <2>6 DEF Lands, history
  <2> QED BY <2>5, <2>6
<1> QED BY <1>2, <1>3, <1>4, <1>5

\* What a worker with no part in the step was going to tell, it still tells.
LEMMA FaithfulKept ==
  ASSUME DuplicateInv, Undisturbed, Undisturbed', NEW v \in Workers, req'[v] = req[v],
         NEW n, n = Mid(v),
         Busy(v) => /\ processed'[n] = processed[n]
                    /\ \A t, i : Outcome(n, t, i) => Outcome(n, t, i)'
  PROVE  Faithful(v)'
<1>1. Faithful(v)
  BY DEF DuplicateInv
<1>2. At(v, "receipt_set") \/ At(v, "receipt") \/ Skipped(v) => Busy(v)
  BY DEF At, Skipped, Busy
<1>3. PICK t, i : t = req[v].tenant /\ i = req[v].intent
  OBVIOUS
<1>4. Mid(v)' = n /\ req'[v].tenant = t /\ req'[v].intent = i
  BY <1>3 DEF Mid
<1>5. Outcome(Mid(v), req[v].tenant, req[v].intent)' = Outcome(n, t, i)'
  BY <1>4 DEF Outcome
<1>6. Outcome(Mid(v), req[v].tenant, req[v].intent) = Outcome(n, t, i)
  BY <1>3
<1> QED BY <1>1, <1>2, <1>3, <1>4, <1>5, <1>6 DEF Faithful, At, Skipped, Storable

LEMMA DuplicateHandler ==
  ASSUME ~Overlap, DuplicateInv, SerialInv', NEW w \in Workers, Handler(w) PROVE DuplicateInv'
<1>1. TypeOK /\ TypeOK' /\ Exclusive /\ BlankInv
  BY DEF DuplicateInv, SerialInv
<1>2. \A v \in Workers \ {w} : req'[v] = req[v]
  BY <1>1, HandlerFootprint DEF Follows
<1>3. PICK m : m = Mid(w)
  OBVIOUS
<1>4. \/ UNCHANGED <<processed, receipt, done>> /\ ~At(w, "receipt_set") /\ ~At(w, "receipt_set")'
      \/ /\ At(w, "mark") /\ UNCHANGED receipt /\ Storable(m)
         /\ processed' = [processed EXCEPT ![m] = Ttl]
         /\ done' = Append(done, [mid |-> m, tenant |-> req[w].tenant,
                                  intent |-> req[w].intent, source |-> req[w].op])
         /\ At(w, "receipt_set")' => /\ req'[w].mid = m /\ req'[w].tenant = req[w].tenant
                                     /\ req'[w].intent = req[w].intent
         /\ Undisturbed' => At(w, "receipt_set")'
      \/ /\ At(w, "mark") /\ UNCHANGED <<processed, receipt, done>>
         /\ Undisturbed' => ~Storable(m) /\ req'[w].mid = m
      \/ /\ At(w, "receipt_set") /\ ~At(w, "receipt_set")' /\ UNCHANGED <<processed, done>>
         /\ \/ /\ Storable(m)
               /\ receipt' = [receipt EXCEPT ![m] = [ttl |-> Ttl, tenant |-> req[w].tenant,
                                                     intent |-> req[w].intent]]
            \/ UNCHANGED receipt /\ (Undisturbed' => ~Storable(m))
  BY <1>1, <1>3, ReceiptStep
<1>5. At(w, "mark") \/ At(w, "receipt_set") => m \in Mids /\ Busy(w)
  BY <1>1, <1>3, BusyRequest DEF At, Busy
<1>6. BlankInv'
  <2> SUFFICES ASSUME BlankMid \in Mids PROVE processed'[BlankMid] = 0 /\ receipt'[BlankMid].ttl = 0
    BY DEF BlankInv
  <2>1. processed'[BlankMid] = processed[BlankMid] /\ receipt'[BlankMid] = receipt[BlankMid]
    BY <1>1, <1>4, <1>5 DEF Storable, TypeOK, StoresOK
  <2> QED BY <1>1, <2>1 DEF BlankInv
<1>7. ASSUME Undisturbed' PROVE ReceiptInv' /\ \A v \in Workers : Faithful(v)'
  <2>1. Undisturbed /\ ReceiptInv /\ \A v \in Workers : Faithful(v)
    BY <1>1, <1>7, KeptStores DEF DuplicateInv
  <2>2. \A v \in Workers \ {w} : Busy(v) /\ Busy(w) => Mid(v) # m
    BY <1>1, <1>3 DEF Exclusive
  <2>3. \A n \in Mids : /\ processed'[n] = processed[n]
                           \/ (At(w, "mark") /\ Storable(m) /\ At(w, "receipt_set")' /\ n = m /\ req'[w].mid = m)
                        /\ receipt'[n] = receipt[n] \/ (At(w, "receipt_set") /\ n = m)
    BY <1>1, <1>4, <1>5, <1>7 DEF TypeOK, StoresOK
  <2>4. \A n, t, i : Outcome(n, t, i) => Outcome(n, t, i)' \/ (At(w, "mark") /\ n = m)
    <3>1. CASE UNCHANGED done
      BY <3>1 DEF Outcome
    <3>2. CASE ~UNCHANGED done
      <4>1. PICK c : /\ c = [mid |-> m, tenant |-> req[w].tenant, intent |-> req[w].intent,
                             source |-> req[w].op]
                     /\ done' = Append(done, c) /\ At(w, "mark")
        BY <1>4, <3>2
      <4>2. c \in Commit /\ c.mid = m /\ done \in Seq(Commit)
        <5>1. req[w].tenant \in TenantIds /\ req[w].op \in Ops /\ req[w].intent \in Intents \cup {None}
          BY <1>1, <1>5, <4>1 DEF At, TypeOK, RequestsOK, Request
        <5> QED BY <1>1, <1>5, <4>1, <5>1 DEF Commit, TypeOK, HistoryOK
      <4> QED BY <4>1, <4>2, OutcomeAppend
    <3> QED BY <3>1, <3>2
  <2>5. ASSUME NEW v \in Workers PROVE Faithful(v)'
    <3>1. CASE v # w
      <4>1. req'[v] = req[v]
        BY <1>2, <3>1
      <4>2. PICK n : n = Mid(v)
        OBVIOUS
      <4>3. Busy(v) => n \in Mids /\ (At(w, "mark") => n # m)
        BY <1>1, <1>5, <2>2, <3>1, <4>2 DEF TypeOK, RequestsOK
      <4>4. Busy(v) => /\ processed'[n] = processed[n]
                       /\ \A t, i : Outcome(n, t, i) => Outcome(n, t, i)'
        BY <2>3, <2>4, <4>3
      <4> QED BY <1>7, <2>1, <4>1, <4>2, <4>4, FaithfulKept
    <3>2. CASE v = w
      <4>1. At(w, "receipt_set")' /\ Storable(req'[w].mid) =>
              Outcome(Mid(w), req[w].tenant, req[w].intent)'
        <5> SUFFICES ASSUME At(w, "receipt_set")', Storable(req'[w].mid)
                     PROVE  Outcome(Mid(w), req[w].tenant, req[w].intent)'
          OBVIOUS
        <5>1. PICK c : c = [mid |-> m, tenant |-> req[w].tenant, intent |-> req[w].intent,
                            source |-> req[w].op]
          OBVIOUS
        <5>2. /\ At(w, "mark") /\ done' = Append(done, c)
              /\ req'[w].mid = m /\ req'[w].tenant = req[w].tenant /\ req'[w].intent = req[w].intent
          BY <1>4, <1>7, <5>1
        <5>3. req[w].tenant \in TenantIds /\ req[w].op \in Ops /\ req[w].intent \in Intents \cup {None}
          BY <1>1, <1>5, <5>2 DEF At, TypeOK, RequestsOK, Request
        <5>4. c \in Commit /\ done \in Seq(Commit)
          BY <1>1, <1>5, <5>1, <5>2, <5>3 DEF Commit, TypeOK, HistoryOK
        <5>5. Outcome(c.mid, c.tenant, c.intent)'
          BY <5>2, <5>4, OutcomeAppend
        <5>6. Mid(w)' = c.mid /\ req'[w].tenant = c.tenant /\ req'[w].intent = c.intent
          BY <5>1, <5>2 DEF Mid
        <5> QED BY <5>5, <5>6 DEF Outcome
      <4>2. At(w, "receipt")' => processed'[req'[w].mid] > 0
        <5> SUFFICES ASSUME At(w, "receipt")' PROVE processed'[req'[w].mid] > 0
          OBVIOUS
        <5>1. CheckProcessed(w) /\ Busy(w) /\ At(w, "check")
          BY <1>1, SkipRecord DEF CheckProcessed, At, Busy
        <5>2. req[w] \in Request /\ req[w].op \in Ops
          BY <1>1, <5>1, BusyRequest
        <5>3. /\ UNCHANGED processed
              /\ \/ processed[Mid(w)] > 0 /\ Continue(w, "receipt", req[w])
                 \/ Continue(w, FirstStep(req[w].op), req[w])
                 \/ Abort(w)
          BY <5>1 DEF CheckProcessed, stores
        <5>4. processed[Mid(w)] > 0 /\ Continue(w, "receipt", req[w])
          <6>1. ~Abort(w)
            BY <1>1, Responded DEF Abort, TypeOK, At
          <6>2. ~Continue(w, FirstStep(req[w].op), req[w])
            BY <1>1, <5>2, Continued DEF FirstStep, Ops, TypeOK, At
          <6> QED BY <5>3, <6>1, <6>2
        <5> QED BY <1>1, <5>2, <5>3, <5>4, Continued DEF TypeOK, Mid
      <4>3. Skipped(w)' => \/ req'[w].late /\ req'[w].tenant = None
                           \/ Outcome(Mid(w), req[w].tenant, req[w].intent)'
        <5> SUFFICES ASSUME Skipped(w)'
                     PROVE  \/ req'[w].late /\ req'[w].tenant = None
                            \/ Outcome(Mid(w), req[w].tenant, req[w].intent)'
          OBVIOUS
        <5>1. GetReceipt(w) /\ At(w, "receipt") /\ Busy(w)
          BY <1>1, SkipRecord DEF GetReceipt, At, Busy
        <5>2. m \in Mids /\ Settled(m)
          <6>1. m \in Mids
            BY <1>1, <1>3, <5>1, BusyRequest
          <6>2. \A u \in Workers : At(u, "receipt_set") => Busy(u) /\ u # w
            BY <5>1 DEF At, Busy
          <6> QED BY <1>3, <2>2, <5>1, <6>1, <6>2 DEF Settled
        <5>3. Covered(m)
          BY <2>1, <5>2 DEF ReceiptInv
        <5>4. UNCHANGED done
          BY <5>1 DEF GetReceipt, history
        <5>5. PICK t, i : t = receipt[m].tenant /\ i = receipt[m].intent
          OBVIOUS
        <5>6. \/ receipt[m].ttl > 0 /\ Respond(w, "duplicate_skipped", t, i)
              \/ ~(receipt[m].ttl > 0) /\ Respond(w, "duplicate_skipped", None, None)
          <6>1. PICK ok \in BOOLEAN :
                  /\ Calls(w, ok)
                  /\ IF ok /\ receipt[m].ttl > 0
                     THEN Respond(w, "duplicate_skipped", t, i)
                     ELSE Respond(w, "duplicate_skipped", None, None)
            BY <1>3, <5>1, <5>5 DEF GetReceipt
          <6>2. ok
            BY <1>1, <1>7, <6>1 DEF Calls, Undisturbed, TypeOK, CountersOK
          <6> QED BY <6>1, <6>2
        <5>7. CASE receipt[m].ttl > 0 /\ Respond(w, "duplicate_skipped", t, i)
          <6>1. Outcome(m, t, i)'
            BY <5>3, <5>4, <5>5, <5>7 DEF Covered, Outcome
          <6>2. Mid(w)' = m /\ req'[w].tenant = t /\ req'[w].intent = i
            BY <1>1, <1>3, <5>7, Responded DEF TypeOK, Mid
          <6> QED BY <6>1, <6>2 DEF Outcome
        <5>8. CASE ~(receipt[m].ttl > 0) /\ Respond(w, "duplicate_skipped", None, None)
          <6>1. req'[w].tenant = None /\ req'[w].late = req[w].late
            BY <1>1, <5>8, Responded DEF TypeOK
          <6>2. req[w].late
            <7>1. ~req[w].late => processed[m] > 0
              BY <1>3, <2>1, <5>1 DEF Faithful
            <7>2. processed[m] \in Nat /\ receipt[m].ttl \in Nat
              BY <1>1, <5>2, StoredTypes, TtlAssumption
            <7> QED BY <5>3, <5>8, <7>1, <7>2 DEF Covered
          <6> QED BY <6>1, <6>2
        <5> QED BY <5>6, <5>7, <5>8
      <4> QED BY <3>2, <4>1, <4>2, <4>3 DEF Faithful, At, Mid, Storable
    <3> QED BY <3>1, <3>2
  <2>6. ASSUME NEW n \in Mids, Settled(n)' PROVE Covered(n)'
    <3>1. ~(At(w, "receipt_set")' /\ req'[w].mid = n)
      BY <2>6 DEF Settled, Mid
    <3>2. CASE At(w, "receipt_set") /\ n = m
      <4>1. UNCHANGED <<processed, done>>
        BY <1>4, <3>2 DEF At
      <4>2. CASE Storable(m)
        <5>1. PICK t, i : t = req[w].tenant /\ i = req[w].intent
          OBVIOUS
        <5>2. receipt' = [receipt EXCEPT ![m] = [ttl |-> Ttl, tenant |-> t, intent |-> i]]
          BY <1>4, <1>7, <3>2, <4>2, <5>1 DEF At
        <5>3. receipt'[m].ttl = Ttl /\ receipt'[m].tenant = t /\ receipt'[m].intent = i
          BY <1>1, <3>2, <5>2 DEF TypeOK, StoresOK
        <5>4. Outcome(m, t, i)
          BY <1>3, <2>1, <3>2, <4>2, <5>1 DEF Faithful
        <5>5. Outcome(m, receipt[m].tenant, receipt[m].intent)'
          BY <4>1, <5>3, <5>4 DEF Outcome
        <5>6. processed'[m] <= Ttl
          BY <1>1, <3>2, <4>1, StoredTypes, TtlAssumption
        <5> QED BY <3>2, <5>3, <5>5, <5>6 DEF Covered
      <4>3. CASE ~Storable(m)
        <5>1. processed'[n] = 0 /\ receipt'[n].ttl = 0
          BY <1>6, <3>2, <4>3 DEF BlankInv, Storable
        <5> QED BY <5>1 DEF Covered
      <4> QED BY <4>2, <4>3
    <3>3. CASE ~(At(w, "receipt_set") /\ n = m)
      <4>1. Settled(n)
        BY <1>2, <1>3, <2>6, <3>3 DEF Settled, At, Mid
      <4>2. Covered(n)
        BY <2>1, <4>1 DEF ReceiptInv
      <4>3. processed'[n] = processed[n] /\ receipt'[n] = receipt[n]
        BY <2>3, <3>1, <3>3
      <4>4. PICK t, i : t = receipt[n].tenant /\ i = receipt[n].intent
        OBVIOUS
      <4>5. CASE At(w, "mark") /\ n = m
        <5>1. UNCHANGED done
          BY <1>4, <1>7, <3>1, <4>5 DEF At
        <5> QED BY <4>2, <4>3, <5>1 DEF Covered, Outcome
      <4>6. CASE ~(At(w, "mark") /\ n = m)
        <5>1. Outcome(n, t, i) => Outcome(n, t, i)'
          BY <2>4, <4>6
        <5>2. Outcome(n, receipt[n].tenant, receipt[n].intent)' = Outcome(n, t, i)'
          BY <4>3, <4>4 DEF Outcome
        <5>3. Outcome(n, receipt[n].tenant, receipt[n].intent) = Outcome(n, t, i)
          BY <4>4
        <5> QED BY <4>2, <4>3, <5>1, <5>2, <5>3 DEF Covered
      <4> QED BY <4>5, <4>6
    <3> QED BY <3>2, <3>3
  <2> QED BY <2>5, <2>6 DEF ReceiptInv
<1> QED BY <1>6, <1>7 DEF DuplicateInv

LEMMA DuplicateTick ==
  ASSUME DuplicateInv, SerialInv', Tick PROVE DuplicateInv'
<1>1. TypeOK /\ BlankInv
  BY DEF DuplicateInv, SerialInv
<1>2. /\ \A w \in Workers : /\ req'[w].pc = req[w].pc /\ req'[w].mid = req[w].mid
                            /\ req'[w].tenant = req[w].tenant /\ req'[w].intent = req[w].intent
                            /\ req'[w].status = req[w].status
                            /\ ~req[w].late /\ (Busy(w) => req'[w].late)
      /\ UNCHANGED done /\ Undisturbed' = Undisturbed
  BY <1>1 DEF Tick, TypeOK, RequestsOK, Request, Undisturbed
<1>3. ASSUME NEW m \in Mids
      PROVE  /\ processed'[m] = IF processed[m] = 0 THEN 0 ELSE processed[m] - 1
             /\ receipt'[m].ttl = IF receipt[m].ttl <= 1 THEN 0 ELSE receipt[m].ttl - 1
             /\ receipt'[m].ttl > 0 => /\ receipt'[m].tenant = receipt[m].tenant
                                       /\ receipt'[m].intent = receipt[m].intent
             /\ processed[m] \in Nat /\ receipt[m].ttl \in Nat
  <2>1. receipt[m].ttl \in Nat /\ processed[m] \in Nat
    BY <1>1, StoredTypes, TtlAssumption
  <2>2. receipt'[m] = AgedReceipt(receipt[m]) /\ processed'[m] = Left(processed[m])
    BY DEF Tick
  <2>3. receipt[m] \in [ttl : 0..Ttl, tenant : TenantIds \cup {None}, intent : Intents \cup {None}]
    BY <1>1 DEF TypeOK, StoresOK
  <2> QED BY <2>1, <2>2, <2>3 DEF AgedReceipt, Left, NoReceipt
<1>4. BlankInv'
  BY <1>1, <1>3 DEF BlankInv
<1>5. ASSUME Undisturbed PROVE ReceiptInv' /\ \A w \in Workers : Faithful(w)'
  <2>1. ReceiptInv /\ \A w \in Workers : Faithful(w)
    BY <1>5 DEF DuplicateInv
  <2>2. ASSUME NEW n \in Mids, Settled(n)' PROVE Covered(n)'
    <3>1. Covered(n)
      BY <1>2, <2>1, <2>2 DEF ReceiptInv, Settled, At, Mid
    <3> QED BY <1>2, <1>3, <3>1 DEF Covered, Outcome
  <2>3. ASSUME NEW w \in Workers PROVE Faithful(w)'
    <3>1. Outcome(Mid(w), req[w].tenant, req[w].intent)' = Outcome(Mid(w), req[w].tenant, req[w].intent)
      BY <1>2 DEF Outcome, Mid
    <3>2. Skipped(w)' = Skipped(w) /\ Mid(w)' = Mid(w) /\ (At(w, "receipt")' => req'[w].late)
      BY <1>2 DEF Skipped, At, Mid, Busy
    <3>3. At(w, "receipt_set")' = At(w, "receipt_set")
      BY <1>2 DEF At
    <3>4. Skipped(w) => req'[w].tenant = req[w].tenant /\ ~req[w].late
      BY <1>2
    <3> QED BY <2>1, <3>1, <3>2, <3>3, <3>4 DEF Faithful, Storable
  <2> QED BY <2>2, <2>3 DEF ReceiptInv
<1> QED BY <1>2, <1>4, <1>5 DEF DuplicateInv

LEMMA DuplicateNext ==
  ASSUME ~Overlap, DuplicateInv, [Next]_vars PROVE DuplicateInv'
<1>1. SerialInv'
  BY SerialStep DEF DuplicateInv
<1>2. CASE Crash
  <2>1. ~Undisturbed' /\ UNCHANGED <<processed, receipt>>
    BY <1>2 DEF Crash, DuplicateInv, SerialInv, TypeOK, CountersOK, Undisturbed, stores
  <2> QED BY <1>1, <2>1 DEF DuplicateInv, BlankInv
<1>3. CASE RegisterTenant \/ UNCHANGED vars
  <2>1. UNCHANGED <<processed, receipt, req, faults, crashes, done>>
    BY <1>3 DEF RegisterTenant, vars, stores, history
  <2> QED BY <1>1, <2>1 DEF DuplicateInv, BlankInv, ReceiptInv, Settled, Covered, Faithful, Skipped,
          Outcome, Undisturbed, At, Mid
<1> QED BY <1>1, <1>2, <1>3, DuplicateHandler, DuplicateTick DEF Next

LEMMA DuplicateInit == ASSUME Init PROVE DuplicateInv
<1>1. \A w \in Workers : req[w].pc = "idle"
  BY DEF Init, NoRequest
<1>2. \A m \in Mids : processed[m] = 0 /\ receipt[m].ttl = 0
  BY DEF Init, NoReceipt
<1> QED BY <1>1, <1>2, SerialInit DEF DuplicateInv, BlankInv, ReceiptInv, Covered, Faithful,
        Skipped, At

\* When clients do not overlap requests for one message, and until a call has
\* failed, a duplicate is told the outcome of the last processing, or nothing
\* if the keys expired while it was served.
THEOREM SerialDuplicateMatches ==
  ASSUME ~Overlap PROVE Spec => []DuplicateMatchesCommit
<1>1. DuplicateInv => DuplicateMatchesCommit
  BY DEF DuplicateInv, DuplicateMatchesCommit, Faithful, Skipped, Outcome
<1>2. DuplicateInv /\ [Next]_vars => DuplicateInv'
  BY DuplicateNext
<1> QED BY <1>1, <1>2, DuplicateInit, PTL DEF Spec
=============================================================================
