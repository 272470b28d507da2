--------------------------- MODULE EmailPipeline ---------------------------
(***************************************************************************)
(* The email half of the backend: POST /email/ingest, /email/resolve and   *)
(* /email/reprocess over the Redis store and the usage log.                *)
(*                                                                         *)
(* The handlers are plain functions that FastAPI runs in a thread pool, so *)
(* two of them interleave at every call to Redis or SQLite.  A worker is a *)
(* thread; req[w].pc names the call its handler makes next.  One action is *)
(* one such call with the local computation around it.                     *)
(*                                                                         *)
(* Time is a count of ticks.  The three email keys carry the same TTL and  *)
(* live in the model as the number of ticks they have left (0 = absent).   *)
(***************************************************************************)
EXTENDS Naturals, Sequences, FiniteSets

CONSTANTS
  Workers,      \* threads of the handler pool
  Mids,         \* message ids clients send
  BlankMid,     \* an id of three or more blanks: it strips to ""
  TenantIds,    \* company ids clients may name, registered or not
  Seeded,       \* the tenants registered at start
  Alias,        \* TENANT_ALIASES: plus-address token -> tenant id
  Intents,      \* what the classifier may answer
  None,         \* an absent or empty string
  Blank,        \* a company id of blanks only: truthy, strips to ""
  Envelopes,    \* [header, body, token]: where an email may name its tenant
  Ttl,          \* SESSION_TTL_SECONDS, in ticks
  Overlap,      \* may clients have two requests for one message in flight?
  MaxRequests,  \* bound: requests sent in a behaviour
  MaxFaults,    \* bound: store calls that raise
  MaxCrashes    \* bound: backend restarts

Companies == TenantIds \cup {None, Blank}
Tokens    == TenantIds \cup DOMAIN Alias \cup {None}

ASSUME SeededAssumption   == Seeded \subseteq TenantIds
ASSUME AliasAssumption    == \A t \in DOMAIN Alias : Alias[t] \in TenantIds
ASSUME NoneAssumption     == None \notin TenantIds \cup Intents /\ Blank \notin TenantIds
                             /\ None \notin DOMAIN Alias
ASSUME EnvelopeAssumption ==
  Envelopes \subseteq [header : Companies, body : Companies, token : Tokens]
ASSUME WorkersAssumption  == IsFiniteSet(Workers)
\* A handler may straddle one tick (see Tick), so a key it has just written
\* must outlive it.  The code's default TTL is 7200 s, a request takes seconds.
ASSUME TtlAssumption      == Ttl \in Nat /\ Ttl >= 2
ASSUME OverlapAssumption  == Overlap \in BOOLEAN
ASSUME BoundsAssumption   == MaxRequests \in Nat /\ MaxFaults \in Nat /\ MaxCrashes \in Nat

VARIABLES
  processed,  \* email:{mid}:processed, ticks left
  receipt,    \* email:{mid}:receipt, ticks left and what the response named
  pending,    \* email:{mid}:pending, ticks left and the stored payload
  tenants,    \* keys of the in-memory TENANTS
  usage,      \* rows of usage_events, oldest first
  req,        \* the request each worker is serving
  requests,   \* requests accepted so far
  faults,     \* store calls that have raised so far
  crashes,    \* restarts so far
  owed,       \* history: emails answered pending_tenant and not done since
  done,       \* history: every processing that reached its marker
  runs        \* history: processings within the life of the current marker

stores  == <<processed, receipt, pending, tenants, usage>>
history == <<owed, done, runs>>
vars    == <<stores, req, requests, faults, crashes, history>>

-----------------------------------------------------------------------------
(* Data.                                                                   *)

Payload  == [candidate : TenantIds \cup {None}, inferred : TenantIds \cup {None},
             intent : Intents \cup {None}, attempts : Nat]
NoPayload == [candidate |-> None, inferred |-> None, intent |-> None, attempts |-> 0]
NoPending == [ttl |-> 0, payload |-> NoPayload]
NoReceipt == [ttl |-> 0, tenant |-> None, intent |-> None]

Ops      == {"email_ingest", "email_resolve", "email_reprocess"}
EventTypes == {"email_ingested", "jira_preview_generated"}
Event    == [type : EventTypes, mid : Mids, tenant : TenantIds, intent : Intents \cup {None},
             source : Ops]
Commit   == [mid : Mids, tenant : TenantIds, intent : Intents \cup {None}, source : Ops]

\* The calls of a handler, in the order of the code; "reply" is the answer.
Steps == {"idle", "precheck", "prefetch", "check", "receipt", "triage", "park",
          "peek", "fetch", "validate", "bump", "clear", "mark", "receipt_set",
          "clear_after", "log_ingested", "log_jira", "reply"}
\* Found unprocessed, not yet marked.
BeforeMark == {"triage", "park", "peek", "fetch", "validate", "bump", "clear", "mark"}
\* Marked, not yet answered.
AfterMark  == {"receipt_set", "clear_after", "log_ingested", "log_jira"}

Statuses == {"none", "processed", "duplicate_skipped", "pending_tenant", "not_found", "error"}

NoEnvelope == [header |-> None, body |-> None, token |-> None]
NoRequest  == [pc |-> "idle", op |-> "none", mid |-> BlankMid, env |-> NoEnvelope,
               candidate |-> None, inferred |-> None, payload |-> NoPayload,
               tenant |-> None, intent |-> None, status |-> "none", late |-> FALSE]

Busy(w)      == req[w].pc # "idle"
At(w, step)  == req[w].pc = step
Mid(w)       == req[w].mid
Live(m)      == pending[m].ttl > 0
Registered(c) == c \in tenants
\* _norm_mid: a blank id makes every store and log operation a no-op.
Storable(m)  == m # BlankMid

\* infer_tenant_id_from_to_email
Infer(token) ==
  IF Registered(token) THEN token
  ELSE IF token \in DOMAIN Alias /\ Registered(Alias[token]) THEN Alias[token]
  ELSE None

\* (a or b or c or "").strip(): a blank string wins, then strips to nothing.
Candidate(a, b, c) ==
  LET first == IF a # None THEN a ELSE IF b # None THEN b ELSE c
  IN  IF first = Blank THEN None ELSE first

\* validate_and_get_tenant
Validate(c) == IF Registered(c) THEN c ELSE None

-----------------------------------------------------------------------------
(* Control.                                                                *)

\* One call of w to Redis or SQLite: it answers, or it raises (within the
\* bound).  A blank id never gets as far as a call.
Calls(w, ok) ==
  /\ ok \/ (Storable(Mid(w)) /\ faults < MaxFaults)
  /\ faults' = IF ok THEN faults ELSE faults + 1

\* A write of w that answered has changed the store, unless the id is blank.
Lands(w, ok) == ok /\ Storable(Mid(w))

\* Continue the handler of w at step, with the request record r.
Continue(w, step, r) == req' = [req EXCEPT ![w] = [r EXCEPT !.pc = step]]

\* The handler returns; only what the client reads is kept.
Respond(w, status, tenant, intent) ==
  Continue(w, "reply",
    [NoRequest EXCEPT !.op = req[w].op, !.mid = Mid(w), !.status = status,
                      !.tenant = tenant, !.intent = intent, !.late = req[w].late])

\* An exception no handler catches: HTTP 500.
Abort(w) == Respond(w, "error", None, None)

\* A client may send a request about m to the idle worker w.
MaySend(w, m) ==
  /\ ~Busy(w)
  /\ requests < MaxRequests
  /\ Overlap \/ \A v \in Workers : Busy(v) => Mid(v) # m

Accept(w, step, r) ==
  /\ MaySend(w, r.mid)
  /\ requests' = requests + 1
  /\ Continue(w, step, r)
  /\ UNCHANGED <<stores, faults, crashes, history>>

IngestRequest(w) == \E m \in Mids, e \in Envelopes :
  Accept(w, "check", [NoRequest EXCEPT !.op = "email_ingest", !.mid = m, !.env = e])

\* The routes of resolve and reprocess strip the id and refuse a blank one;
\* resolve also needs a company that is not blank.
ResolveRequest(w) == \E m \in Mids, e \in Envelopes :
  LET company == Candidate(e.header, e.body, None) IN
  /\ Storable(m) /\ company # None
  /\ Accept(w, "check", [NoRequest EXCEPT !.op = "email_resolve", !.mid = m,
                                          !.candidate = company])

ReprocessRequest(w) == \E m \in Mids :
  /\ Storable(m)
  /\ Accept(w, "precheck", [NoRequest EXCEPT !.op = "email_reprocess", !.mid = m])

-----------------------------------------------------------------------------
(* Reads.  is_email_processed is the one read nothing wraps.               *)

\* reprocess_pending_email, the route's own test before the service's.
RoutePrecheck(w) ==
  /\ At(w, "precheck")
  /\ \E ok \in BOOLEAN :
       /\ Calls(w, ok)
       /\ IF ~ok THEN Abort(w)
          ELSE Continue(w, IF processed[Mid(w)] > 0 THEN "check" ELSE "prefetch", req[w])
  /\ UNCHANGED <<stores, requests, crashes, history>>

\* The route reads the pending record only to answer 404 without one.
RoutePrefetch(w) ==
  /\ At(w, "prefetch")
  /\ \E ok \in BOOLEAN :
       /\ Calls(w, ok)
       /\ IF ok /\ Live(Mid(w)) THEN Continue(w, "check", req[w])
          ELSE Respond(w, "not_found", None, None)
  /\ UNCHANGED <<stores, requests, crashes, history>>

FirstStep(op) == CASE op = "email_ingest"    -> "triage"
                   [] op = "email_resolve"   -> "fetch"
                   [] op = "email_reprocess" -> "peek"

\* Mutant: the receipt is taken for the marker.
MutantCheckReceipt(w) ==
  /\ At(w, "check")
  /\ \E ok \in BOOLEAN :
       /\ Calls(w, ok)
       /\ IF ~ok THEN Abort(w)
          ELSE Continue(w, IF receipt[Mid(w)].ttl > 0 THEN "receipt"
                           ELSE FirstStep(req[w].op), req[w])
  /\ UNCHANGED <<stores, requests, crashes, history>>

\* Mutant: only an ingest tests the marker.
MutantCheckIngestOnly(w) ==
  /\ At(w, "check")
  /\ \E ok \in BOOLEAN :
       /\ Calls(w, ok)
       /\ IF ~ok THEN Abort(w)
          ELSE Continue(w, IF processed[Mid(w)] > 0 /\ req[w].op = "email_ingest"
                           THEN "receipt" ELSE FirstStep(req[w].op), req[w])
  /\ UNCHANGED <<stores, requests, crashes, history>>

\* Mutant: no idempotency test.
MutantNoCheck(w) ==
  /\ At(w, "check")
  /\ Continue(w, FirstStep(req[w].op), req[w])
  /\ UNCHANGED <<stores, requests, faults, crashes, history>>

\* The idempotency test every service starts with.
CheckProcessed(w) ==
  /\ At(w, "check")
  /\ \E ok \in BOOLEAN :
       /\ Calls(w, ok)
       /\ IF ~ok THEN Abort(w)
          ELSE Continue(w, IF processed[Mid(w)] > 0 THEN "receipt"
                           ELSE FirstStep(req[w].op), req[w])
  /\ UNCHANGED <<stores, requests, crashes, history>>

\* duplicate_skipped: what the receipt says, or an empty answer without one.
GetReceipt(w) ==
  /\ At(w, "receipt")
  /\ \E ok \in BOOLEAN :
       /\ Calls(w, ok)
       /\ IF ok /\ receipt[Mid(w)].ttl > 0
          THEN Respond(w, "duplicate_skipped", receipt[Mid(w)].tenant, receipt[Mid(w)].intent)
          ELSE Respond(w, "duplicate_skipped", None, None)
  /\ UNCHANGED <<stores, requests, crashes, history>>

\* process_email_to_jira_preview up to the pending branch: the tenant is looked
\* up, then the text is classified (up to 20 s when a model is asked).
Triage(w) ==
  /\ At(w, "triage")
  /\ \E i \in Intents :
       LET inferred  == Infer(req[w].env.token)
           candidate == Candidate(req[w].env.header, req[w].env.body, inferred)
           tenant    == Validate(candidate)
       IN  Continue(w, IF tenant = None THEN "park" ELSE "mark",
             [req[w] EXCEPT !.env = NoEnvelope, !.tenant = tenant, !.intent = i,
                !.candidate = IF tenant = None THEN candidate ELSE None,
                !.inferred  = IF tenant = None THEN inferred ELSE None])
  /\ UNCHANGED <<stores, requests, faults, crashes, history>>

\* reprocess_pending_email_service reads the record and throws it away.
ServicePeek(w) ==
  /\ At(w, "peek")
  /\ \E ok \in BOOLEAN :
       /\ Calls(w, ok)
       /\ IF ok /\ Live(Mid(w)) THEN Continue(w, "fetch", req[w])
          ELSE Respond(w, "pending_tenant", None, None)
  /\ UNCHANGED <<stores, requests, crashes, history>>

\* Mutant: the record is taken out of the store when it is read.
MutantFetchPops(w) ==
  /\ At(w, "fetch")
  /\ Live(Mid(w))
  /\ Continue(w, "validate", [req[w] EXCEPT !.payload = pending[Mid(w)].payload])
  /\ pending' = [pending EXCEPT ![Mid(w)] = NoPending]
  /\ UNCHANGED <<processed, receipt, tenants, usage, requests, faults, crashes, history>>

\* The processor's own read: the snapshot everything after it works on.
FetchPending(w) ==
  /\ At(w, "fetch")
  /\ \E ok \in BOOLEAN :
       /\ Calls(w, ok)
       /\ IF ok /\ Live(Mid(w))
          THEN Continue(w, "validate", [req[w] EXCEPT !.payload = pending[Mid(w)].payload])
          ELSE Respond(w, "pending_tenant", None, None)
  /\ UNCHANGED <<stores, requests, crashes, history>>

\* Mutant: an empty candidate is not refused.
MutantValidateSkipsEmpty(w) ==
  /\ At(w, "validate")
  /\ LET p      == req[w].payload
         cid    == IF req[w].op = "email_resolve" THEN req[w].candidate
                   ELSE Candidate(p.candidate, p.inferred, None)
         tenant == Validate(cid)
     IN  Continue(w, IF cid # None /\ tenant = None THEN "bump" ELSE "clear",
           [req[w] EXCEPT !.candidate = None, !.tenant = tenant, !.intent = p.intent])
  /\ UNCHANGED <<stores, requests, faults, crashes, history>>

\* resolve validates the client's company, reprocess the stored candidate.
ValidateTenant(w) ==
  /\ At(w, "validate")
  /\ LET p      == req[w].payload
         cid    == IF req[w].op = "email_resolve" THEN req[w].candidate
                   ELSE Candidate(p.candidate, p.inferred, None)
         tenant == Validate(cid)
     IN  Continue(w, IF tenant = None THEN "bump" ELSE "clear",
           [req[w] EXCEPT !.candidate = None, !.tenant = tenant, !.intent = p.intent])
  /\ UNCHANGED <<stores, requests, faults, crashes, history>>

-----------------------------------------------------------------------------
(* Writes.  mark_email_processed is the one write nothing wraps; a failure *)
(* of any other is swallowed and the handler goes on.                      *)

StoredPending(m, p) == [pending EXCEPT ![m] = [ttl |-> Ttl, payload |-> p]]
ClearedPending(m)   == [pending EXCEPT ![m] = NoPending]

\* store_pending_email at the end of an ingest without a tenant.
ParkEmail(w) ==
  /\ At(w, "park")
  /\ \E ok \in BOOLEAN :
       /\ Calls(w, ok)
       /\ pending' = IF Lands(w, ok)
                     THEN StoredPending(Mid(w), [candidate |-> req[w].candidate,
                            inferred |-> req[w].inferred, intent |-> req[w].intent,
                            attempts |-> 0])
                     ELSE pending
  /\ Respond(w, "pending_tenant", None, req[w].intent)
  /\ UNCHANGED <<processed, receipt, tenants, usage, requests, crashes, history>>

\* _bump_pending_attempt stores the snapshot again, with a fresh TTL.
BumpPendingAttempt(w) ==
  /\ At(w, "bump")
  /\ \E ok \in BOOLEAN :
       /\ Calls(w, ok)
       /\ pending' = IF Lands(w, ok)
                     THEN StoredPending(Mid(w), [req[w].payload EXCEPT !.attempts = @ + 1])
                     ELSE pending
  /\ Respond(w, "pending_tenant", None, req[w].intent)
  /\ UNCHANGED <<processed, receipt, tenants, usage, requests, crashes, history>>

\* The processor clears the record before the service marks the email.
ClearPending(w) ==
  /\ At(w, "clear")
  /\ \E ok \in BOOLEAN :
       /\ Calls(w, ok)
       /\ pending' = IF Lands(w, ok) THEN ClearedPending(Mid(w)) ELSE pending
  /\ Continue(w, "mark", [req[w] EXCEPT !.payload = NoPayload])
  /\ UNCHANGED <<processed, receipt, tenants, usage, requests, crashes, history>>

\* Mutant: the marker is given less than the full TTL.
MutantMarkShort(w) ==
  /\ processed' = [processed EXCEPT ![Mid(w)] = Ttl - 1]
  /\ runs' = [runs EXCEPT ![Mid(w)] = @ + 1]
  /\ owed' = owed \ {Mid(w)}
  /\ done' = Append(done, [mid |-> Mid(w), tenant |-> req[w].tenant,
                           intent |-> req[w].intent, source |-> req[w].op])

\* The marker is written: from here on m is done.
Mark(w) == LET m == Mid(w) IN
  /\ processed' = [processed EXCEPT ![m] = Ttl]
  /\ runs' = [runs EXCEPT ![m] = @ + 1]
  /\ owed' = owed \ {m}
  /\ done' = Append(done, [mid |-> m, tenant |-> req[w].tenant,
                           intent |-> req[w].intent, source |-> req[w].op])

\* Mutant: a failing marker is swallowed like every other write.
MutantMarkSwallowed(w) ==
  /\ At(w, "mark")
  /\ \E ok, wrote \in BOOLEAN :
       /\ Calls(w, ok)
       /\ ok => wrote
       /\ IF Lands(w, wrote) THEN Mark(w) ELSE UNCHANGED <<processed, history>>
       /\ Continue(w, "receipt_set", req[w])
  /\ UNCHANGED <<receipt, pending, tenants, usage, requests, crashes>>

\* mark_email_processed: a raise may come before or after Redis did the write.
MarkProcessed(w) ==
  /\ At(w, "mark")
  /\ \E ok, wrote \in BOOLEAN :
       /\ Calls(w, ok)
       /\ ok => wrote
       /\ IF Lands(w, wrote) THEN Mark(w) ELSE UNCHANGED <<processed, history>>
       /\ IF ok THEN Continue(w, "receipt_set", req[w]) ELSE Abort(w)
  /\ UNCHANGED <<receipt, pending, tenants, usage, requests, crashes>>

\* Mutant: only an ingest stores a receipt.
MutantReceiptIngestOnly(w) ==
  /\ At(w, "receipt_set")
  /\ \E ok \in BOOLEAN :
       /\ Calls(w, ok)
       /\ receipt' = IF Lands(w, ok) /\ req[w].op = "email_ingest"
                     THEN [receipt EXCEPT ![Mid(w)] = [ttl |-> Ttl, tenant |-> req[w].tenant,
                                                       intent |-> req[w].intent]]
                     ELSE receipt
  /\ Continue(w, "clear_after", req[w])
  /\ UNCHANGED <<processed, pending, tenants, usage, requests, crashes, history>>

SetReceipt(w) ==
  /\ At(w, "receipt_set")
  /\ \E ok \in BOOLEAN :
       /\ Calls(w, ok)
       /\ receipt' = IF Lands(w, ok)
                     THEN [receipt EXCEPT ![Mid(w)] = [ttl |-> Ttl, tenant |-> req[w].tenant,
                                                       intent |-> req[w].intent]]
                     ELSE receipt
  /\ Continue(w, "clear_after", req[w])
  /\ UNCHANGED <<processed, pending, tenants, usage, requests, crashes, history>>

\* Mutant: no handler logs email_ingested.
MutantNeverIngested(w) ==
  /\ At(w, "clear_after")
  /\ pending' = IF Lands(w, TRUE) THEN ClearedPending(Mid(w)) ELSE pending
  /\ Continue(w, "log_jira", req[w])
  /\ UNCHANGED <<processed, receipt, tenants, usage, requests, faults, crashes, history>>

\* try_clear_pending of the service; only an ingest then logs email_ingested.
ClearAfterMark(w) ==
  /\ At(w, "clear_after")
  /\ \E ok \in BOOLEAN :
       /\ Calls(w, ok)
       /\ pending' = IF Lands(w, ok) THEN ClearedPending(Mid(w)) ELSE pending
  /\ Continue(w, IF req[w].op = "email_ingest" THEN "log_ingested" ELSE "log_jira", req[w])
  /\ UNCHANGED <<processed, receipt, tenants, usage, requests, crashes, history>>

Row(w, type) == [type |-> type, mid |-> Mid(w), tenant |-> req[w].tenant,
                 intent |-> req[w].intent, source |-> req[w].op]

LogUsage(w, type, ok) ==
  /\ Calls(w, ok)
  /\ usage' = IF Lands(w, ok) THEN Append(usage, Row(w, type)) ELSE usage

LogIngested(w) ==
  /\ At(w, "log_ingested")
  /\ \E ok \in BOOLEAN : LogUsage(w, "email_ingested", ok)
  /\ Continue(w, "log_jira", req[w])
  /\ UNCHANGED <<processed, receipt, pending, tenants, requests, crashes, history>>

LogBillable(w) ==
  /\ At(w, "log_jira")
  /\ \E ok \in BOOLEAN : LogUsage(w, "jira_preview_generated", ok)
  /\ Respond(w, "processed", req[w].tenant, req[w].intent)
  /\ UNCHANGED <<processed, receipt, pending, tenants, requests, crashes, history>>

\* The answer leaves.  An ingest answered pending_tenant is a promise, unless
\* another request has processed the email meanwhile.
Reply(w) ==
  /\ At(w, "reply")
  /\ owed' = IF req[w].op = "email_ingest" /\ req[w].status = "pending_tenant"
                /\ processed[Mid(w)] = 0
             THEN owed \cup {Mid(w)} ELSE owed
  /\ req' = [req EXCEPT ![w] = NoRequest]
  /\ UNCHANGED <<stores, requests, faults, crashes, done, runs>>

-----------------------------------------------------------------------------
(* The environment.                                                        *)

Left(ttl) == IF ttl = 0 THEN 0 ELSE ttl - 1
Aged(pd)  == IF pd.ttl <= 1 THEN NoPending ELSE [pd EXCEPT !.ttl = @ - 1]
AgedReceipt(rc) == IF rc.ttl <= 1 THEN NoReceipt ELSE [rc EXCEPT !.ttl = @ - 1]

\* Time passes and keys expire.  A request straddles at most one tick: it is
\* short next to the TTL.  The promise about a pending email ends with its TTL.
Tick ==
  /\ \A w \in Workers : ~req[w].late
  /\ processed' = [m \in Mids |-> Left(processed[m])]
  /\ receipt'   = [m \in Mids |-> AgedReceipt(receipt[m])]
  /\ pending'   = [m \in Mids |-> Aged(pending[m])]
  /\ req'       = [w \in Workers |-> [req[w] EXCEPT !.late = Busy(w)]]
  /\ owed'      = {m \in owed : pending[m].ttl # 1}
  /\ runs'      = [m \in Mids |-> IF processed[m] <= 1 THEN 0 ELSE runs[m]]
  /\ UNCHANGED <<tenants, usage, requests, faults, crashes, done>>

\* upsert_tenant: POST /tenants while emails are in flight.
RegisterTenant == \E t \in TenantIds \ tenants :
  /\ tenants' = tenants \cup {t}
  /\ UNCHANGED <<processed, receipt, pending, usage, req, requests, faults, crashes, history>>

\* The backend restarts: requests in flight end where they are, Redis and
\* SQLite keep what they hold, and start-up loads the tenants again.
Crash ==
  /\ crashes < MaxCrashes
  /\ \E w \in Workers : Busy(w)
  /\ crashes' = crashes + 1
  /\ req' = [w \in Workers |-> NoRequest]
  /\ UNCHANGED <<stores, requests, faults, history>>

-----------------------------------------------------------------------------
Init ==
  /\ processed = [m \in Mids |-> 0]
  /\ receipt   = [m \in Mids |-> NoReceipt]
  /\ pending   = [m \in Mids |-> NoPending]
  /\ tenants   = Seeded
  /\ usage     = << >>
  /\ req       = [w \in Workers |-> NoRequest]
  /\ requests = 0 /\ faults = 0 /\ crashes = 0
  /\ owed      = {}
  /\ done      = << >>
  /\ runs      = [m \in Mids |-> 0]

Handler(w) ==
  \/ IngestRequest(w) \/ ResolveRequest(w) \/ ReprocessRequest(w)
  \/ RoutePrecheck(w) \/ RoutePrefetch(w) \/ CheckProcessed(w) \/ GetReceipt(w)
  \/ Triage(w) \/ ParkEmail(w)
  \/ ServicePeek(w) \/ FetchPending(w) \/ ValidateTenant(w) \/ BumpPendingAttempt(w)
  \/ ClearPending(w) \/ MarkProcessed(w) \/ SetReceipt(w) \/ ClearAfterMark(w)
  \/ LogIngested(w) \/ LogBillable(w) \/ Reply(w)

Next == (\E w \in Workers : Handler(w)) \/ Tick \/ RegisterTenant \/ Crash

Spec == Init /\ [][Next]_vars

-----------------------------------------------------------------------------
(* Properties.                                                             *)

Request == [pc : Steps, op : Ops \cup {"none"}, mid : Mids \cup {BlankMid},
            env : [header : Companies, body : Companies, token : Tokens],
            candidate : TenantIds \cup {None}, inferred : TenantIds \cup {None},
            payload : Payload, tenant : TenantIds \cup {None},
            intent : Intents \cup {None}, status : Statuses, late : BOOLEAN]

StoresOK ==
  /\ processed \in [Mids -> 0..Ttl]
  /\ receipt \in [Mids -> [ttl : 0..Ttl, tenant : TenantIds \cup {None},
                           intent : Intents \cup {None}]]
  /\ pending \in [Mids -> [ttl : 0..Ttl, payload : Payload]]
  /\ tenants \subseteq TenantIds
  /\ usage \in Seq(Event)
RequestsOK ==
  /\ req \in [Workers -> Request]
  /\ \A w \in Workers :
       /\ Busy(w) => Mid(w) \in Mids /\ req[w].op \in Ops
       /\ req[w].pc \in {"clear", "mark"} \cup AfterMark => req[w].tenant \in TenantIds
CountersOK == requests \in Nat /\ faults \in Nat /\ crashes \in Nat
HistoryOK  == owed \subseteq Mids /\ done \in Seq(Commit) /\ runs \in [Mids -> Nat]

\* Every variable has its type, and a handler at a named step has what that
\* step needs: a message clients may send and, once the tenant is looked up and
\* the email is not parked, a registered tenant.
TypeOK == StoresOK /\ RequestsOK /\ CountersOK /\ HistoryOK

\* An email is processed once in the life of its marker (readme: "The system
\* avoids processing the same email twice"), whatever store calls fail and
\* whenever the backend restarts.  Holds when clients do not overlap requests
\* for one message.
ProcessedOncePerWindow == \A m \in Mids : runs[m] <= 1

\* When requests do overlap, one window still sees at most one processing per
\* worker: every one of them passed the check before the first marker.
BoundedDuplication ==
  \A m \in Mids : runs[m] <= Cardinality(Workers)

\* A pending record that outlives the processing of its email (the swallowed
\* clear failed) is gone by the time the marker is: it cannot be resolved into
\* a second processing once the marker has expired.
LeftoverPendingDiesFirst ==
  \A m \in Mids : processed[m] > 0 => pending[m].ttl <= processed[m]

\* An ingest answered pending_tenant is never dropped (readme: "creates a
\* pending record instead of dropping the email"): until its TTL passes, the
\* record is there or a handler that took it is about to mark the email.  The
\* exception is the blank id: it is accepted, and nothing is stored under it.
InHand(m) == \E w \in Workers : At(w, "mark") /\ Mid(w) = m
NoAcceptedEmailLost == \A m \in owed : Storable(m) => Live(m) \/ InHand(m)

\* A duplicate is answered with the outcome of the processing that made it a
\* duplicate (readme: "duplicate requests return deterministic results").  The
\* exception is a request during which the keys expired, or one after a call
\* has failed or the backend has restarted: the receipt is written after the
\* marker, and its loss is swallowed.
Undisturbed == faults = 0 /\ crashes = 0
DuplicateMatchesCommit ==
  Undisturbed => \A w \in Workers :
    At(w, "reply") /\ req[w].status = "duplicate_skipped" =>
      \/ req[w].late /\ req[w].tenant = None
      \/ \E i \in DOMAIN done :
           /\ done[i].mid = Mid(w)
           /\ done[i].tenant = req[w].tenant /\ done[i].intent = req[w].intent
           /\ \A j \in DOMAIN done : j > i => done[j].mid # Mid(w)

\* The rows a processing owes the usage log: resolve and reprocess write no
\* email_ingested.
Charges(c) ==
  {[type |-> t, mid |-> c.mid, tenant |-> c.tenant, intent |-> c.intent, source |-> c.source] :
     t \in IF c.source = "email_ingest" THEN EventTypes ELSE {"jira_preview_generated"}}
Logged(e) == Cardinality({i \in DOMAIN usage : usage[i] = e})
Earned(e) == Cardinality({i \in DOMAIN done : e \in Charges(done[i])})

\* No row of the usage log without a processing that earned it, whatever fails
\* in between: the marker is written before anything is billed.
LedgerBacked == \A i \in DOMAIN usage : Logged(usage[i]) <= Earned(usage[i])

\* When no handler is between its marker and its last row and nothing failed,
\* every processing has all its rows, once each.
LedgerComplete ==
  Undisturbed /\ (\A w \in Workers : req[w].pc \notin AfterMark) =>
    \A i \in DOMAIN done : \A e \in Charges(done[i]) : Logged(e) = Earned(e)

\* The stage of a message, seen from outside: an email that a handler is about
\* to mark is pending, whether or not its record is still stored.
StageOf(m) == IF processed[m] > 0 THEN "processed"
              ELSE IF Live(m) \/ InHand(m) THEN "pending" ELSE "unknown"
Lifecycle  == INSTANCE EmailLifecycle
                WITH stage <- [m \in Mids |-> StageOf(m)], total <- Len(done)

\* The pipeline implements the lifecycle of EmailLifecycle through store
\* failures and restarts, when clients do not overlap requests for one id: a
\* processed message is not processed again and does not become pending again
\* before the system has forgotten it.
ImplementsLifecycle == Lifecycle!Spec

\* The inductive strengthening behind ProcessedOncePerWindow and
\* LeftoverPendingDiesFirst: one worker at a time per message, a worker that
\* found its message unprocessed still finds it so when it marks it, and a
\* message counted as processed has its marker.
Exclusive ==
  \A v, w \in Workers : Busy(v) /\ Busy(w) /\ Mid(v) = Mid(w) => v = w
Uncommitted ==
  \A w \in Workers : req[w].pc \in BeforeMark => processed[Mid(w)] = 0
CountedWhileMarked == \A m \in Mids : processed[m] = 0 => runs[m] = 0
SerialInv == TypeOK /\ Exclusive /\ Uncommitted /\ CountedWhileMarked
             /\ ProcessedOncePerWindow /\ LeftoverPendingDiesFirst

\* The one behind BoundedDuplication: the processings of this window and the
\* workers still on their way to another one are at most one per worker.
Committing(m) == {w \in Workers : req[w].pc \in BeforeMark /\ Mid(w) = m}
Crowd == \A m \in Mids :
  runs[m] = 0 \/ (processed[m] > 0 /\ runs[m] + Cardinality(Committing(m)) <= Cardinality(Workers))
OverlapInv == TypeOK /\ Crowd
=============================================================================
