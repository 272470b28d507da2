---------------------------- MODULE ChatSession ----------------------------
(***************************************************************************)
(* The chat half of the backend: POST /chat and DELETE /sessions/{id} for  *)
(* one session id, over the five Redis keys of the session.                *)
(*                                                                         *)
(* handle_chat reads and writes those keys one by one and keeps no lock,   *)
(* so two requests for the session interleave at every call.  A worker is  *)
(* a thread of the pool; req[w].pc names the call its handler makes next.  *)
(* The VPN flow between two calls is HandleVpnMessage of VpnFlow.          *)
(***************************************************************************)
EXTENDS VpnFlow, Sequences

CONSTANTS
  Workers,      \* threads of the handler pool
  Tenants,      \* the registered tenants
  Unknown,      \* a company id no tenant has, or a text that is not one
  Requests,     \* what a client may post: [header, body, message]
  Overlap,      \* may the client have two requests in flight?
  MaxRenewals,  \* bound: deletions and expiries of the session
  MaxRows,      \* bound: the client stops when the usage log has that many rows
  MaxFaults,    \* bound: store calls that raise
  MaxCrashes    \* bound: backend restarts

Intents == {"VPN_ISSUE", "PASSWORD_RESET", "EMAIL_ISSUE", "GENERAL", "UNKNOWN"}

Companies == Tenants \cup {Unknown, None}
\* What the flow reads, the intent the text shows by itself, whether it is a
\* vague follow-up, and the company the whole text names.
Message == [vpn : VpnMessage, topic : Intents, vague : BOOLEAN, names : Tenants \cup {Unknown}]
Request == [header : Companies, body : Companies, message : Message]

ASSUME RequestsAssumption == Requests \subseteq Request
ASSUME TenantsAssumption  == Unknown \notin Tenants /\ None \notin Tenants \cup Intents
                             /\ Unknown # None
ASSUME ChatBounds         == Overlap \in BOOLEAN /\ MaxRenewals \in Nat /\ MaxRows \in Nat
                             /\ MaxFaults \in Nat /\ MaxCrashes \in Nat

VARIABLES
  messages,         \* session:{id}:messages exists
  last_intent,      \* session:{id}:last_intent
  vpn_context,      \* session:{id}:vpn_context, NewContext when absent
  company_id,       \* session:{id}:company_id
  pending_handoff,  \* session:{id}:pending_handoff, the summary or NoSummary
  usage,            \* rows of usage_events
  req,              \* the request each worker is serving
  renewals,         \* deletions and expiries so far
  faults,           \* store calls that have raised so far
  crashes,          \* restarts so far
  earlier,          \* history: rows written before this session began
  told,             \* history: the client was told that the session is closed
  fresh             \* history: no message was posted since the session was deleted

session == <<messages, last_intent, vpn_context, company_id, pending_handoff>>
bounds  == <<renewals, crashes>>
history == <<earlier, told, fresh>>
vars    == <<session, usage, req, faults, bounds, history>>

-----------------------------------------------------------------------------
(* Data.                                                                   *)

NoSummary == NewContext
Pending   == pending_handoff # NoSummary
Locked    == vpn_context.state = "VPN_HANDOFF"

Row == [tenant : Tenants, intent : Intents]

\* The calls of a handler, in the order of the code; "reply" is the answer.
Steps == {"idle", "open", "gate", "ask_again", "adopt_pending", "read_context", "lock",
          "clear_pending", "say_closed", "bill_pending", "close", "check_lock", "company",
          "adopt", "previous", "route", "set_intent", "flow", "stash", "roll_back", "save",
          "bill", "say", "reply"}
Replies == {"none", "answer", "ask_company", "handoff", "closed", "error"}

Silence   == [os |-> None, client |-> None, symptom |-> None, code |-> None,
              success |-> FALSE, failure |-> FALSE]
NoMessage == [vpn |-> Silence, topic |-> "UNKNOWN", vague |-> FALSE, names |-> Unknown]
NoRequest == [pc |-> "idle", post |-> [header |-> None, body |-> None, message |-> NoMessage],
              tenant |-> None, intent |-> None, ctx |-> NewContext, summary |-> NoSummary,
              reply |-> "none"]

Busy(w)     == req[w].pc # "idle"
At(w, step) == req[w].pc = step
Said(w)     == req[w].post.message
Idle        == \A w \in Workers : ~Busy(w)

FirstGiven(a, b, c) == IF a # None THEN a ELSE IF b # None THEN b ELSE c

\* validate_and_get_tenant
Validate(c) == IF c \in Tenants THEN c ELSE None

\* classify: a vague follow-up takes the intent of the message before it.
Classify(m, previous) == IF m.vague /\ previous # None THEN previous ELSE m.topic

-----------------------------------------------------------------------------
(* Control.                                                                *)

\* One call to Redis or SQLite: it answers, or it raises (within the bound).
Calls(ok) ==
  /\ ok \/ faults < MaxFaults
  /\ faults' = IF ok THEN faults ELSE faults + 1

\* A write nothing wraps.  A raise may come before or after Redis did the write:
\* _touch follows it with five EXPIREs.
Writes(ok, wrote) == Calls(ok) /\ (ok => wrote)

Continue(w, step, r) == req' = [req EXCEPT ![w] = [r EXCEPT !.pc = step]]
Goto(w, step) == Continue(w, step, req[w])

\* The handler returns; a hand-off is answered with its summary.
Respond(w, reply) ==
  Continue(w, "reply", [NoRequest EXCEPT !.reply = reply,
    !.summary = IF reply = "handoff" THEN req[w].summary ELSE NoSummary])

\* The next step after an unwrapped call; without an answer it is HTTP 500.
GotoIf(w, ok, step) == IF ok THEN Goto(w, step) ELSE Respond(w, "error")

\* POST /chat; get_or_create_session only picks the id.
PostChat(w) ==
  /\ ~Busy(w) /\ (Overlap \/ Idle)
  /\ Len(usage) < MaxRows
  /\ \E p \in Requests : Continue(w, "open", [NoRequest EXCEPT !.post = p])
  /\ fresh' = FALSE
  /\ UNCHANGED <<session, usage, faults, bounds, earlier, told>>

\* The user's message is stored before anything else.
AddUserMessage(w) ==
  /\ At(w, "open")
  /\ \E ok, wrote \in BOOLEAN :
       /\ Writes(ok, wrote)
       /\ messages' = (messages \/ wrote)
       /\ GotoIf(w, ok, "gate")
  /\ UNCHANGED <<last_intent, vpn_context, company_id, pending_handoff, usage, bounds, history>>

-----------------------------------------------------------------------------
(* try_handle_pending_handoff: a hand-off that waits for its company.      *)

\* Mutant: only the header and the body may name the company.
MutantPendingGate(w) ==
  /\ At(w, "gate")
  /\ \E ok \in BOOLEAN :
       LET p      == req[w].post
           tenant == Validate(FirstGiven(p.header, p.body, None))
       IN  /\ Calls(ok)
           /\ IF ~ok \/ ~Pending THEN Goto(w, "check_lock")
              ELSE IF tenant = None THEN Goto(w, "ask_again")
              ELSE Continue(w, "adopt_pending",
                     [req[w] EXCEPT !.post = NoRequest.post, !.tenant = tenant,
                                    !.summary = pending_handoff])
  /\ UNCHANGED <<session, usage, bounds, history>>

\* The candidate is the header, the body or the message itself.  A failing read
\* counts as nothing pending.
PendingGate(w) ==
  /\ At(w, "gate")
  /\ \E ok \in BOOLEAN :
       LET p      == req[w].post
           tenant == Validate(FirstGiven(p.header, p.body, p.message.names))
       IN  /\ Calls(ok)
           /\ IF ~ok \/ ~Pending THEN Goto(w, "check_lock")
              ELSE IF tenant = None THEN Goto(w, "ask_again")
              ELSE Continue(w, "adopt_pending",
                     [req[w] EXCEPT !.post = NoRequest.post, !.tenant = tenant,
                                    !.summary = pending_handoff])
  /\ UNCHANGED <<session, usage, bounds, history>>

\* Not a company: the question is stored in the history and asked again.
AskAgain(w) ==
  /\ At(w, "ask_again")
  /\ \E ok, wrote \in BOOLEAN :
       /\ Writes(ok, wrote)
       /\ messages' = (messages \/ wrote)
       /\ Respond(w, IF ok THEN "ask_company" ELSE "error")
  /\ UNCHANGED <<last_intent, vpn_context, company_id, pending_handoff, usage, bounds, history>>

\* set_company_id, on both paths; a failure is swallowed.
AdoptTenant(w) ==
  /\ At(w, "adopt_pending") \/ At(w, "adopt")
  /\ \E ok \in BOOLEAN :
       /\ Calls(ok)
       /\ company_id' = IF ok THEN req[w].tenant ELSE company_id
  /\ Goto(w, IF At(w, "adopt") THEN "previous" ELSE "read_context")
  /\ UNCHANGED <<messages, last_intent, vpn_context, pending_handoff, usage, bounds, history>>

\* The context is read once more; when that fails the session is not locked.
ReadContext(w) ==
  /\ At(w, "read_context")
  /\ \E ok \in BOOLEAN :
       /\ Calls(ok)
       /\ IF ok THEN Continue(w, "lock", [req[w] EXCEPT !.ctx = vpn_context])
          ELSE Goto(w, "clear_pending")
  /\ UNCHANGED <<session, usage, bounds, history>>

\* Mutant: the context is stored as it was read.
MutantLockSession(w) ==
  /\ At(w, "lock")
  /\ \E ok \in BOOLEAN :
       /\ Calls(ok)
       /\ vpn_context' = IF ok THEN req[w].ctx ELSE vpn_context
  /\ Continue(w, "clear_pending", [req[w] EXCEPT !.ctx = NewContext])
  /\ UNCHANGED <<messages, last_intent, company_id, pending_handoff, usage, bounds, history>>

\* The terminal state; a failure is swallowed.
LockSession(w) ==
  /\ At(w, "lock")
  /\ \E ok \in BOOLEAN :
       /\ Calls(ok)
       /\ vpn_context' = IF ok THEN [req[w].ctx EXCEPT !.state = "VPN_HANDOFF"] ELSE vpn_context
  /\ Continue(w, "clear_pending", [req[w] EXCEPT !.ctx = NewContext])
  /\ UNCHANGED <<messages, last_intent, company_id, pending_handoff, usage, bounds, history>>

\* Mutant: the summary stays.
MutantClearPendingHandoff(w) ==
  /\ At(w, "clear_pending")
  /\ Goto(w, "say_closed")
  /\ UNCHANGED <<session, usage, faults, bounds, history>>

ClearPendingHandoff(w) ==
  /\ At(w, "clear_pending")
  /\ \E ok \in BOOLEAN :
       /\ Calls(ok)
       /\ pending_handoff' = IF ok THEN NoSummary ELSE pending_handoff
  /\ Goto(w, "say_closed")
  /\ UNCHANGED <<messages, last_intent, vpn_context, company_id, usage, bounds, history>>

\* The answer is stored, and so is the one of the normal path.
AddReply(w) ==
  /\ At(w, "say_closed") \/ At(w, "say")
  /\ \E ok, wrote \in BOOLEAN :
       /\ Writes(ok, wrote)
       /\ messages' = (messages \/ wrote)
       /\ IF At(w, "say_closed") THEN GotoIf(w, ok, "bill_pending")
          ELSE Respond(w, IF ok THEN req[w].reply ELSE "error")
  /\ UNCHANGED <<last_intent, vpn_context, company_id, pending_handoff, usage, bounds, history>>

\* get_last_intent and the usage row, in one try.
BillPending(w) ==
  /\ At(w, "bill_pending")
  /\ \E ok \in BOOLEAN :
       /\ Calls(ok)
       /\ usage' = IF ok THEN Append(usage, [tenant |-> req[w].tenant,
                                intent |-> FirstGiven(last_intent, "VPN_ISSUE", None)])
                   ELSE usage
  /\ Goto(w, "close")
  /\ UNCHANGED <<session, bounds, history>>

\* get_last_intent again, for the response; nothing wraps it.
CloseSession(w) ==
  /\ At(w, "close")
  /\ \E ok \in BOOLEAN :
       /\ Calls(ok)
       /\ Respond(w, IF ok THEN "handoff" ELSE "error")
  /\ UNCHANGED <<session, usage, bounds, history>>

-----------------------------------------------------------------------------
(* handle_chat without a pending hand-off.                                 *)

\* The terminal lock: HTTP 409.  A failing read counts as not locked.
CheckLock(w) ==
  /\ At(w, "check_lock")
  /\ \E ok \in BOOLEAN :
       /\ Calls(ok)
       /\ IF ok /\ Locked THEN Respond(w, "closed") ELSE Goto(w, "company")
  /\ UNCHANGED <<session, usage, bounds, history>>

\* Mutant: whatever was named is adopted.
MutantResolveTenant(w) ==
  /\ At(w, "company")
  /\ \E ok \in BOOLEAN :
       LET p     == req[w].post
           named == FirstGiven(p.header, p.body, IF ok THEN company_id ELSE None)
       IN  /\ Calls(ok)
           /\ Continue(w, IF named # None THEN "adopt" ELSE "previous",
                       [req[w] EXCEPT !.tenant = Validate(named)])
  /\ UNCHANGED <<session, usage, bounds, history>>

\* Header, then body, then what the session remembers: a header that names no
\* tenant hides the session's.
ResolveTenant(w) ==
  /\ At(w, "company")
  /\ \E ok \in BOOLEAN :
       LET p      == req[w].post
           tenant == Validate(FirstGiven(p.header, p.body, IF ok THEN company_id ELSE None))
       IN  /\ Calls(ok)
           /\ Continue(w, IF tenant # None THEN "adopt" ELSE "previous",
                       [req[w] EXCEPT !.tenant = tenant])
  /\ UNCHANGED <<session, usage, bounds, history>>

\* route_intent: the intent of the message before.
GetLastIntent(w) ==
  /\ At(w, "previous")
  /\ \E ok \in BOOLEAN :
       /\ Calls(ok)
       /\ IF ok THEN Continue(w, "route", [req[w] EXCEPT !.intent = last_intent])
          ELSE Respond(w, "error")
  /\ UNCHANGED <<session, usage, bounds, history>>

\* Mutant: every message is classified.
MutantRouteIntent(w) ==
  /\ At(w, "route")
  /\ Continue(w, "set_intent", [req[w] EXCEPT !.intent = Classify(Said(w), req[w].intent)])
  /\ UNCHANGED <<session, usage, faults, bounds, history>>

\* route_intent: a flow that has begun keeps the message; without an answer the
\* message is classified.
RouteIntent(w) ==
  /\ At(w, "route")
  /\ \E ok \in BOOLEAN :
       /\ Calls(ok)
       /\ Continue(w, "set_intent", [req[w] EXCEPT !.intent =
            IF ok /\ vpn_context.state # "VPN_START" THEN "VPN_ISSUE"
            ELSE Classify(Said(w), @)])
  /\ UNCHANGED <<session, usage, bounds, history>>

\* Anything but VPN_ISSUE is answered with a fixed text.
SetLastIntent(w) ==
  /\ At(w, "set_intent")
  /\ \E ok, wrote \in BOOLEAN :
       /\ Writes(ok, wrote)
       /\ last_intent' = IF wrote THEN req[w].intent ELSE last_intent
       /\ IF ~ok THEN Respond(w, "error")
          ELSE IF req[w].intent = "VPN_ISSUE" THEN Goto(w, "flow")
          ELSE Continue(w, "say", [req[w] EXCEPT !.reply = "answer"])
  /\ UNCHANGED <<messages, vpn_context, company_id, pending_handoff, usage, bounds, history>>

\* Mutant: the summary is taken before the flow has moved on.
MutantRunVpnFlow(w) ==
  /\ At(w, "flow")
  /\ \E ok \in BOOLEAN :
       LET next    == HandleVpnMessage(vpn_context, Said(w).vpn)
           handoff == WantsHandoff(vpn_context, Said(w).vpn)
       IN  /\ Calls(ok)
           /\ IF ~ok THEN Respond(w, "error")
              ELSE Continue(w, IF handoff /\ req[w].tenant = None THEN "stash" ELSE "save",
                     [req[w] EXCEPT !.post = NoRequest.post, !.ctx = next,
                        !.summary = IF handoff THEN vpn_context ELSE NoSummary,
                        !.reply   = IF handoff THEN "handoff" ELSE "answer"])
  /\ UNCHANGED <<session, usage, bounds, history>>

\* handle_vpn: the context is read again and the flow runs on it.  A hand-off
\* without a tenant takes the pending branch.
RunVpnFlow(w) ==
  /\ At(w, "flow")
  /\ \E ok \in BOOLEAN :
       LET next    == HandleVpnMessage(vpn_context, Said(w).vpn)
           handoff == WantsHandoff(vpn_context, Said(w).vpn)
       IN  /\ Calls(ok)
           /\ IF ~ok THEN Respond(w, "error")
              ELSE Continue(w, IF handoff /\ req[w].tenant = None THEN "stash" ELSE "save",
                     [req[w] EXCEPT !.post = NoRequest.post, !.ctx = next,
                        !.summary = IF handoff THEN next ELSE NoSummary,
                        !.reply   = IF handoff THEN "handoff" ELSE "answer"])
  /\ UNCHANGED <<session, usage, bounds, history>>

\* set_pending_handoff_summary; a failure is swallowed.
StashSummary(w) ==
  /\ At(w, "stash")
  /\ \E ok \in BOOLEAN :
       /\ Calls(ok)
       /\ pending_handoff' = IF ok THEN req[w].summary ELSE pending_handoff
  /\ Continue(w, "roll_back", [req[w] EXCEPT !.summary = NoSummary, !.reply = "ask_company"])
  /\ UNCHANGED <<messages, last_intent, vpn_context, company_id, usage, bounds, history>>

\* The context goes back to VPN_CHECK_RESULT while the company is asked for.
RollBack(w) ==
  /\ At(w, "roll_back")
  /\ \E ok, wrote \in BOOLEAN :
       /\ Writes(ok, wrote)
       /\ vpn_context' = IF wrote THEN [req[w].ctx EXCEPT !.state = "VPN_CHECK_RESULT"]
                         ELSE vpn_context
       /\ IF ok THEN Continue(w, "say", [req[w] EXCEPT !.ctx = NewContext])
          ELSE Respond(w, "error")
  /\ UNCHANGED <<messages, last_intent, company_id, pending_handoff, usage, bounds, history>>

\* Normal persistence; a hand-off with its tenant is then billed.
SaveContext(w) ==
  /\ At(w, "save")
  /\ \E ok, wrote \in BOOLEAN :
       /\ Writes(ok, wrote)
       /\ vpn_context' = IF wrote THEN req[w].ctx ELSE vpn_context
       /\ IF ok THEN Continue(w, IF req[w].reply = "handoff" THEN "bill" ELSE "say",
                              [req[w] EXCEPT !.ctx = NewContext])
          ELSE Respond(w, "error")
  /\ UNCHANGED <<messages, last_intent, company_id, pending_handoff, usage, bounds, history>>

\* log_usage_event; a failure is swallowed.
Bill(w) ==
  /\ At(w, "bill")
  /\ \E ok \in BOOLEAN :
       /\ Calls(ok)
       /\ usage' = IF ok THEN Append(usage, [tenant |-> req[w].tenant, intent |-> req[w].intent])
                   ELSE usage
  /\ Goto(w, "say")
  /\ UNCHANGED <<session, bounds, history>>

\* The answer leaves.
Reply(w) ==
  /\ At(w, "reply")
  /\ told' = (told \/ req[w].reply \in {"handoff", "closed"})
  /\ req' = [req EXCEPT ![w] = NoRequest]
  /\ UNCHANGED <<session, usage, faults, bounds, earlier, fresh>>

-----------------------------------------------------------------------------
(* The rest of the system.                                                 *)

\* Mutant: the company stays.
MutantRenew ==
  /\ renewals < MaxRenewals
  /\ renewals' = renewals + 1
  /\ messages' = FALSE /\ last_intent' = None /\ vpn_context' = NewContext
  /\ pending_handoff' = NoSummary
  /\ earlier' = Len(usage) /\ told' = FALSE /\ fresh' = TRUE
  /\ UNCHANGED <<company_id, usage, req, faults, crashes>>

\* The five keys go at once: one DEL, or their common TTL.
Renew ==
  /\ renewals < MaxRenewals
  /\ renewals' = renewals + 1
  /\ messages' = FALSE /\ last_intent' = None /\ vpn_context' = NewContext
  /\ company_id' = None /\ pending_handoff' = NoSummary
  /\ earlier' = Len(usage) /\ told' = FALSE /\ fresh' = TRUE
  /\ UNCHANGED <<usage, req, faults, crashes>>

\* DELETE /sessions/{id}.
DeleteSession == (Overlap \/ Idle) /\ Renew

\* Every call renews the TTL, which is long next to a request.
ExpireSession == Idle /\ Renew

\* The backend restarts: requests in flight end where they are.
Crash ==
  /\ crashes < MaxCrashes /\ ~Idle
  /\ crashes' = crashes + 1
  /\ req' = [w \in Workers |-> NoRequest]
  /\ UNCHANGED <<session, usage, faults, renewals, history>>

Init ==
  /\ messages = FALSE /\ last_intent = None /\ vpn_context = NewContext
  /\ company_id = None /\ pending_handoff = NoSummary
  /\ usage = << >>
  /\ req = [w \in Workers |-> NoRequest]
  /\ renewals = 0 /\ faults = 0 /\ crashes = 0
  /\ earlier = 0 /\ told = FALSE /\ fresh = TRUE

PendingPath(w) ==
  \/ PendingGate(w) \/ AskAgain(w) \/ ReadContext(w) \/ LockSession(w)
  \/ ClearPendingHandoff(w) \/ BillPending(w) \/ CloseSession(w)
NormalPath(w) ==
  \/ CheckLock(w) \/ ResolveTenant(w) \/ GetLastIntent(w) \/ RouteIntent(w)
  \/ SetLastIntent(w) \/ RunVpnFlow(w) \/ StashSummary(w) \/ RollBack(w)
  \/ SaveContext(w) \/ Bill(w)
Handler(w) == AddUserMessage(w) \/ PendingPath(w) \/ NormalPath(w)
              \/ AdoptTenant(w) \/ AddReply(w) \/ Reply(w)

Next == (\E w \in Workers : PostChat(w) \/ Handler(w))
        \/ DeleteSession \/ ExpireSession \/ Crash

Spec == Init /\ [][Next]_vars

\* A post that names a registered company where PendingGate looks for it.
NamesCompany(p) == Validate(FirstGiven(p.header, p.body, p.message.names)) # None
PostCompany(w)  == PostChat(w) /\ NamesCompany(req'[w].post)

\* Threads run on, and a user asked for the company again and again gives it.
FairSpec == Spec /\ \A w \in Workers : WF_vars(Handler(w)) /\ SF_vars(PostCompany(w))

-----------------------------------------------------------------------------
(* Properties.                                                             *)

HandlerRecord ==
  [pc : Steps, post : [header : Companies, body : Companies, message : Message],
   tenant : Tenants \cup {None}, intent : Intents \cup {None}, ctx : VpnContext,
   summary : VpnContext, reply : Replies]

SessionOK ==
  /\ messages \in BOOLEAN /\ last_intent \in Intents \cup {None}
  /\ vpn_context \in VpnContext /\ company_id \in Tenants \cup {None}
  /\ pending_handoff \in VpnContext
HandlersOK ==
  /\ req \in [Workers -> HandlerRecord]
  /\ \A w \in Workers :
       req[w].pc \in {"adopt_pending", "adopt", "bill_pending", "bill"} => req[w].tenant # None
CountersOK == /\ usage \in Seq(Row)
              /\ renewals \in Nat /\ faults \in Nat /\ crashes \in Nat
              /\ earlier \in 0..Len(usage) /\ told \in BOOLEAN /\ fresh \in BOOLEAN

\* Every variable has its type, and whoever adopts or bills a tenant has one.
TypeOK == SessionOK /\ HandlersOK /\ CountersOK

\* A summary that waits for its company is the report of the stored context,
\* wherever the backend restarts: what is handed to IT later is what the user
\* was troubleshooting.  Not so once the roll-back behind the summary has failed.
PendingMatchesContext ==
  faults = 0 /\ Pending => pending_handoff = [vpn_context EXCEPT !.state = "VPN_HANDOFF"]

\* Every report, waiting for its company or answered to the client, is that of
\* two failed rounds, whichever one call fails.
Report(summary) == Complete(summary) /\ summary.state = "VPN_HANDOFF"
ReportsComplete ==
  /\ Pending => Report(pending_handoff)
  /\ \A w \in Workers :
       At(w, "reply") /\ req[w].reply = "handoff" => Report(req[w].summary)

\* Once the client was told that the session is closed ("This session is now
\* closed"), it is, until it is deleted or expires.  A failing write of the
\* terminal state is swallowed and breaks the promise, so this holds until then.
ToldMeansClosed == faults = 0 /\ told => Locked

\* A row of the usage log written for the chat is a VPN case, also when the
\* company arrives messages later and whichever one call fails.
BilledAsVpn == \A i \in DOMAIN usage : usage[i].intent = "VPN_ISSUE"

\* A deleted session is gone: until someone posts to it again, nothing of it is
\* stored ("If you want to start a new troubleshooting attempt, create a new
\* session (or delete this session)").
DeletedStaysDeleted ==
  fresh /\ Idle => /\ ~messages /\ ~Pending /\ vpn_context = NewContext
                   /\ last_intent = None /\ company_id = None

\* A session in VPN_HANDOFF stays there until it is deleted or expires (readme:
\* "Once a session reaches VPN_HANDOFF, further troubleshooting is restricted").
HandoffIsFinal == [][Locked => vpn_context'.state = "VPN_HANDOFF" \/ renewals' # renewals]_vars

\* Until a store call fails, the chat takes the steps of SupportLadder: rung by
\* rung, closed for good, billed at most once in the life of the session.
Rung == IF Locked THEN "closed"
        ELSE CASE vpn_context.attempt_count = 0 -> "describing"
               [] vpn_context.attempt_count = 1 -> "first_try"
               [] OTHER                         -> "second_try"
Ladder == INSTANCE SupportLadder WITH rung <- Rung, billed <- Len(usage) - earlier
ImplementsLadder == Ladder!Init /\ [][faults' = 0 => [Ladder!Next]_(Ladder!vars)]_vars

\* A hand-off that waits for its company does not wait forever, whichever one
\* call fails, when the user who is asked again and again gives the company.
PendingConcludes == Pending ~> ~Pending
=============================================================================
