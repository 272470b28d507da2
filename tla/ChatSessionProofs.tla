-------------------------- MODULE ChatSessionProofs --------------------------
(***************************************************************************)
(* The safety of the chat half for every set of workers, tenants and       *)
(* requests: type correctness with overlapping requests, and, one request  *)
(* at a time, what becomes of a hand-off when calls fail and the backend   *)
(* restarts.                                                               *)
(***************************************************************************)
EXTENDS ChatSession, VpnFlowProofs

-----------------------------------------------------------------------------
(* The inductive invariants.                                               *)

\* Past the router every request has an intent.
Routed == {"set_intent", "flow", "stash", "roll_back", "save", "bill"}
IntentKnown == \A w \in Workers : req[w].pc \in Routed => req[w].intent \in Intents

\* A request that answers a waiting summary, or hands off at once, keeps the
\* tenant it will bill from the check on.
Answering == {"adopt_pending", "read_context", "lock", "clear_pending", "say_closed",
              "bill_pending"}
TenantKnown ==
  \A w \in Workers :
    req[w].pc \in Answering \/ (req[w].pc = "save" /\ req[w].reply = "handoff") =>
      req[w].tenant # None
TypeInv == TypeOK /\ IntentKnown /\ TenantKnown

\* A deleted session is empty and nobody works for it.
Untouched == /\ Idle /\ ~messages /\ ~Pending /\ vpn_context = NewContext
             /\ last_intent = None /\ company_id = None
FreshInv == fresh => Untouched

\* The calls before the flow has run, and after it on the way to a row.
Deciding  == {"company", "adopt", "previous", "route", "set_intent", "flow"}
AfterFlow == {"stash", "roll_back", "save", "bill"}

Reported(c) == Sound(c) /\ c.state = "VPN_HANDOFF"

\* After at most one failing call.  What waits is a report and what is stored is
\* a context of the flow; only a lock that was reached past a summary nobody read
\* may close the session with another context.
WaitingReported == Pending => Reported(pending_handoff) /\ last_intent = "VPN_ISSUE"
StoredSound     == Sound(vpn_context) \/ (Locked /\ faults = 1)

\* ... and the request r in flight: it handles a sound context, it answers with a
\* report and under the intent VPN_ISSUE, and no message gets past a summary
\* unless its read has failed, which leaves a flow that has begun.
RequestReported(r) ==
  /\ r.pc \in Deciding => Sound(vpn_context)
  /\ r.pc \in Answering \cup {"close"} => Reported(r.summary) /\ last_intent = "VPN_ISSUE"
  /\ r.pc # "idle" /\ r.reply = "handoff" => Reported(r.summary)
  /\ r.pc \in {"flow"} \cup AfterFlow => r.intent = "VPN_ISSUE"
  /\ r.pc \in {"flow", "stash"} => last_intent = "VPN_ISSUE"
  /\ r.pc \in {"stash", "roll_back"} => Reported(r.ctx)
  /\ r.pc = "stash" => r.summary = r.ctx
  /\ r.pc = "save" => Sound(r.ctx)
  /\ Pending /\ r.pc \in {"check_lock", "company", "adopt", "previous", "route"} =>
       faults = 1 /\ vpn_context.state # "VPN_START"
  /\ Pending /\ r.pc = "set_intent" => r.intent = "VPN_ISSUE"

OneFault == /\ WaitingReported /\ StoredSound /\ BilledAsVpn
            /\ \A w \in Workers : RequestReported(req[w])

\* Until a call fails.  What waits is the report of the stored context, a
\* session said to be closed is closed, and its one row follows the lock.
WaitingStored ==
  Pending => /\ pending_handoff = [vpn_context EXCEPT !.state = "VPN_HANDOFF"]
             /\ vpn_context.state \in {"VPN_CHECK_RESULT", "VPN_HANDOFF"}
BilledOnce == \/ Len(usage) = earlier
              \/ Len(usage) = earlier + 1 /\ Locked /\ ~Pending

\* ... and the request r in flight: it decides on an open session where nothing
\* waits, or answers the summary that does.
RequestCalm(r) ==
  /\ r.pc \in Deciding \cup {"stash", "roll_back", "save"} => ~Locked
  /\ r.pc \in Deciding \cup {"check_lock", "stash", "save", "bill"} => ~Pending
  /\ r.pc \in {"adopt_pending", "read_context", "lock", "clear_pending"} => Pending
  /\ r.pc = "lock" => r.ctx = vpn_context
  /\ r.pc \in {"clear_pending", "say_closed", "bill_pending", "close", "bill"} => Locked
  /\ r.pc \in {"say_closed", "bill_pending", "close"} => ~Pending
  /\ r.pc \in {"say_closed", "bill_pending", "bill"} => Len(usage) = earlier
  /\ r.pc \in {"stash", "roll_back"} =>
       /\ vpn_context.state = "VPN_CHECK_RESULT"
       /\ r.ctx = [vpn_context EXCEPT !.state = "VPN_HANDOFF"]
  /\ r.pc = "roll_back" => r.reply = "ask_company"
  /\ r.pc = "save" =>
       /\ \E m \in VpnMessage : r.ctx = HandleVpnMessage(vpn_context, m)
       /\ r.reply \in {"answer", "handoff"}
       /\ r.reply = "handoff" => r.ctx.state = "VPN_HANDOFF"
  /\ r.pc \in {"say", "reply"} /\ r.reply \in {"handoff", "closed"} => Locked

Calm == /\ WaitingStored /\ ToldMeansClosed /\ BilledOnce
        /\ \A w \in Workers : RequestCalm(req[w])

\* The same seen from one worker.
OneFaultAt(w) == WaitingReported /\ StoredSound /\ BilledAsVpn /\ RequestReported(req[w])
CalmAt(w)     == WaitingStored /\ ToldMeansClosed /\ BilledOnce /\ RequestCalm(req[w])
SerialAt(w)   == (faults <= 1 => OneFaultAt(w)) /\ (faults = 0 => CalmAt(w))

\* One request at a time.
Exclusive == \A v, w \in Workers : Busy(v) /\ Busy(w) => v = w
SerialInv == /\ Exclusive /\ faults <= MaxFaults
             /\ faults <= 1 => OneFault
             /\ faults = 0 => Calm

-----------------------------------------------------------------------------
(* Data.                                                                   *)

LEMMA FirstGivenType ==
  ASSUME NEW S, NEW a \in S, NEW b \in S, NEW c \in S
  PROVE  FirstGiven(a, b, c) \in S
  BY DEF FirstGiven

LEMMA ValidateType == \A c : Validate(c) \in Tenants \cup {None}
  BY DEF Validate

LEMMA ClassifyType ==
  ASSUME NEW m \in Message, NEW i \in Intents \cup {None}
  PROVE  Classify(m, i) \in Intents
  BY DEF Classify, Message

LEMMA NewContextType == NewContext \in VpnContext /\ NoSummary = NewContext
  BY NewContextFacts DEF NoSummary

LEMMA NoMessageType == NoMessage \in Message
  BY DEF NoMessage, Message, Silence, VpnMessage, Intents

LEMMA NoRequestType ==
  /\ NoRequest \in HandlerRecord
  /\ NoRequest.pc = "idle" /\ NoRequest.reply = "none" /\ NoRequest.summary = NoSummary
  BY NoMessageType, NewContextType DEF NoRequest, HandlerRecord, Steps, Replies, Companies

\* The request of w after a call: its next step, and nobody else's.
LEMMA Continued ==
  ASSUME HandlersOK, NEW w \in Workers, NEW step \in Steps, NEW r \in HandlerRecord,
         Continue(w, step, r)
  PROVE  /\ req' \in [Workers -> HandlerRecord]
         /\ \A v \in Workers \ {w} : req'[v] = req[v]
         /\ req'[w].pc = step
         /\ req'[w].post = r.post /\ req'[w].tenant = r.tenant /\ req'[w].intent = r.intent
         /\ req'[w].ctx = r.ctx /\ req'[w].summary = r.summary /\ req'[w].reply = r.reply
<1> DEFINE q == [r EXCEPT !.pc = step]
<1>1. q \in HandlerRecord
  BY DEF HandlerRecord
<1>2. /\ q.pc = step
      /\ q.post = r.post /\ q.tenant = r.tenant /\ q.intent = r.intent
      /\ q.ctx = r.ctx /\ q.summary = r.summary /\ q.reply = r.reply
  BY DEF HandlerRecord
<1>3. req' = [req EXCEPT ![w] = q]
  BY DEF Continue
<1> HIDE DEF q
<1>4. req'[w] = q
  BY <1>3 DEF HandlersOK
<1> QED BY <1>1, <1>2, <1>3, <1>4 DEF HandlersOK

LEMMA Responded ==
  ASSUME HandlersOK, NEW w \in Workers, NEW reply \in Replies, Respond(w, reply)
  PROVE  /\ req' \in [Workers -> HandlerRecord]
         /\ \A v \in Workers \ {w} : req'[v] = req[v]
         /\ req'[w].pc = "reply" /\ req'[w].reply = reply
         /\ reply = "handoff" => req'[w].summary = req[w].summary
<1> DEFINE s == IF reply = "handoff" THEN req[w].summary ELSE NoSummary
           r == [NoRequest EXCEPT !.reply = reply, !.summary = s]
<1>1. s \in VpnContext
  BY NewContextType DEF HandlersOK, HandlerRecord
<1>2. Continue(w, "reply", r)
  BY DEF Respond
<1> HIDE DEF s
<1>3. r \in HandlerRecord /\ r.reply = reply /\ r.summary = s
  BY <1>1, NoRequestType DEF HandlerRecord
<1> HIDE DEF r
<1>4. "reply" \in Steps
  BY DEF Steps
<1> QED BY <1>2, <1>3, <1>4, Continued DEF s

-----------------------------------------------------------------------------
(* Types.                                                                  *)

\* The steps that use a tenant have one, and the routed ones an intent.
Ready(step, r) ==
  /\ step \in {"adopt", "bill"} \cup Answering \/ (step = "save" /\ r.reply = "handoff") =>
       r.tenant # None
  /\ step \in Routed => r.intent \in Intents
HandlersInv == HandlersOK /\ IntentKnown /\ TenantKnown

LEMMA ContinueType ==
  ASSUME HandlersInv, NEW w \in Workers, NEW step \in Steps, NEW r \in HandlerRecord,
         Ready(step, r), Continue(w, step, r)
  PROVE  HandlersInv'
<1>1. HandlersOK
  BY DEF HandlersInv
<1>2. /\ req' \in [Workers -> HandlerRecord]
      /\ \A v \in Workers \ {w} : req'[v] = req[v]
      /\ req'[w].pc = step /\ req'[w].tenant = r.tenant /\ req'[w].intent = r.intent
      /\ req'[w].reply = r.reply
  BY <1>1, Continued
<1> QED BY <1>2 DEF HandlersInv, HandlersOK, IntentKnown, TenantKnown, Answering, Ready

LEMMA RespondType ==
  ASSUME HandlersInv, NEW w \in Workers, NEW reply \in Replies, Respond(w, reply)
  PROVE  HandlersInv'
<1>1. /\ req' \in [Workers -> HandlerRecord]
      /\ \A v \in Workers \ {w} : req'[v] = req[v]
      /\ req'[w].pc = "reply"
  BY Responded DEF HandlersInv
<1> QED BY <1>1 DEF HandlersInv, HandlersOK, IntentKnown, TenantKnown, Answering, Routed

LEMMA GotoType ==
  ASSUME HandlersInv, NEW w \in Workers, NEW step \in Steps, Ready(step, req[w]), Goto(w, step)
  PROVE  HandlersInv'
  BY ContinueType DEF HandlersInv, HandlersOK, Goto

LEMMA IdleType ==
  ASSUME HandlersInv, NEW W \in SUBSET Workers,
         req' = [w \in Workers |-> IF w \in W THEN NoRequest ELSE req[w]]
  PROVE  HandlersInv'
<1>1. /\ req' \in [Workers -> HandlerRecord]
      /\ \A w \in Workers : req'[w] = NoRequest \/ req'[w] = req[w]
  BY NoRequestType DEF HandlersInv, HandlersOK
<1> QED BY <1>1, NoRequestType DEF HandlersInv, HandlersOK, IntentKnown, TenantKnown, Answering, Routed

LEMMA CallsType == ASSUME faults \in Nat, NEW ok, Calls(ok) PROVE faults' \in Nat
  BY DEF Calls

\* What the record of a worker holds.
LEMMA RecordType ==
  ASSUME TypeInv, NEW w \in Workers
  PROVE  /\ HandlersInv /\ faults \in Nat /\ req[w] \in HandlerRecord
         /\ req[w].post \in [header : Companies, body : Companies, message : Message]
         /\ Said(w) \in Message /\ Said(w).vpn \in VpnMessage
         /\ req[w].tenant \in Tenants \cup {None} /\ req[w].intent \in Intents \cup {None}
         /\ req[w].ctx \in VpnContext /\ req[w].summary \in VpnContext
         /\ req[w].reply \in Replies
  BY DEF TypeInv, TypeOK, HandlersOK, HandlersInv, CountersOK, HandlerRecord, Said, Message

\* Four groups of calls: those that move only the request, those that write the
\* history, those that write the session, and those that write a row.
LEMMA OnlyRequest ==
  ASSUME TypeInv, HandlersInv', faults' \in Nat, UNCHANGED <<session, usage, bounds, history>>
  PROVE  TypeInv'
  BY DEF TypeInv, TypeOK, SessionOK, CountersOK, HandlersInv, session, bounds, history

LEMMA OnlyMessages ==
  ASSUME TypeInv, HandlersInv', faults' \in Nat, messages' \in BOOLEAN,
         UNCHANGED <<last_intent, vpn_context, company_id, pending_handoff, usage, bounds, history>>
  PROVE  TypeInv'
  BY DEF TypeInv, TypeOK, SessionOK, CountersOK, HandlersInv, bounds, history

LEMMA OnlySession ==
  ASSUME TypeInv, HandlersInv', faults' \in Nat, SessionOK', UNCHANGED <<usage, bounds, history>>
  PROVE  TypeInv'
  BY DEF TypeInv, TypeOK, CountersOK, HandlersInv, bounds, history

LEMMA OnlyUsage ==
  ASSUME TypeInv, HandlersInv', faults' \in Nat, NEW row \in Row,
         usage' = usage \/ usage' = Append(usage, row), UNCHANGED <<session, bounds, history>>
  PROVE  TypeInv'
<1>1. usage \in Seq(Row) /\ earlier \in 0..Len(usage)
  BY DEF TypeInv, TypeOK, CountersOK
<1>2. usage' \in Seq(Row) /\ earlier' \in 0..Len(usage')
  BY <1>1 DEF history
<1> QED BY <1>2 DEF TypeInv, TypeOK, SessionOK, CountersOK, HandlersInv, session, bounds, history

LEMMA PostType ==
  ASSUME TypeInv, NEW w \in Workers, PostChat(w) PROVE TypeInv'
<1>1. PICK p \in Requests : Continue(w, "open", [NoRequest EXCEPT !.post = p])
  BY DEF PostChat
<1> DEFINE r == [NoRequest EXCEPT !.post = p]
<1>2. r \in HandlerRecord
  <2>1. p \in [header : Companies, body : Companies, message : Message]
    BY RequestsAssumption DEF Request
  <2> QED BY <2>1, NoRequestType DEF HandlerRecord
<1> HIDE DEF r
<1>3. "open" \in Steps /\ Ready("open", r)
  BY DEF Steps, Ready, Routed, Answering
<1>4. HandlersInv'
  BY <1>1, <1>2, <1>3, RecordType, ContinueType DEF r
<1> QED BY <1>4 DEF PostChat, TypeInv, TypeOK, SessionOK, CountersOK, HandlersInv, session, bounds

LEMMA HistoryStepType ==
  ASSUME TypeInv, NEW w \in Workers, AddUserMessage(w) \/ AskAgain(w) \/ AddReply(w)
  PROVE  TypeInv'
<1> USE RecordType DEF Steps, Replies, Ready, Routed, Answering, HandlersInv, TenantKnown, At
<1>1. messages \in BOOLEAN
  BY DEF TypeInv, TypeOK, SessionOK
<1>2. CASE AddUserMessage(w)
  <2>1. PICK ok \in BOOLEAN, wrote \in BOOLEAN :
          Calls(ok) /\ messages' = (messages \/ wrote) /\ GotoIf(w, ok, "gate")
    BY <1>2 DEF AddUserMessage, Writes
  <2>2. HandlersInv'
    BY <2>1, GotoType, RespondType DEF GotoIf
  <2> QED BY <1>1, <1>2, <2>1, <2>2, CallsType, OnlyMessages DEF AddUserMessage
<1>3. CASE AskAgain(w)
  <2>1. PICK ok \in BOOLEAN, wrote \in BOOLEAN :
          Calls(ok) /\ messages' = (messages \/ wrote)
          /\ Respond(w, IF ok THEN "ask_company" ELSE "error")
    BY <1>3 DEF AskAgain, Writes
  <2>2. HandlersInv'
    BY <2>1, RespondType
  <2> QED BY <1>1, <1>3, <2>1, <2>2, CallsType, OnlyMessages DEF AskAgain
<1>4. CASE AddReply(w)
  <2>1. PICK ok \in BOOLEAN, wrote \in BOOLEAN :
          Calls(ok) /\ messages' = (messages \/ wrote)
          /\ IF At(w, "say_closed") THEN GotoIf(w, ok, "bill_pending")
             ELSE Respond(w, IF ok THEN req[w].reply ELSE "error")
    BY <1>4 DEF AddReply, Writes
  <2>2. HandlersInv'
    BY <2>1, GotoType, RespondType DEF GotoIf
  <2> QED BY <1>1, <1>4, <2>1, <2>2, CallsType, OnlyMessages DEF AddReply
<1> QED BY <1>2, <1>3, <1>4

\* The calls that only read.
LEMMA ReadStepType ==
  ASSUME TypeInv, NEW w \in Workers,
         \/ PendingGate(w) \/ ReadContext(w) \/ CloseSession(w) \/ CheckLock(w)
         \/ ResolveTenant(w) \/ GetLastIntent(w) \/ RouteIntent(w) \/ RunVpnFlow(w)
  PROVE  TypeInv'
<1> USE RecordType DEF Steps, Replies, Ready, Routed, Answering, HandlersInv, TenantKnown, At
<1> DEFINE r0 == req[w]
           p  == r0.post
<1>1. /\ r0 \in HandlerRecord /\ p.header \in Companies /\ p.body \in Companies
      /\ p.message \in Message /\ p.message.names \in Companies
  BY DEF Said, Message, Companies
<1>2. /\ vpn_context \in VpnContext /\ company_id \in Companies /\ None \in Companies
      /\ last_intent \in Intents \cup {None} /\ pending_handoff \in VpnContext
  BY DEF TypeInv, TypeOK, SessionOK, Companies
<1>3. CASE PendingGate(w)
  <2> DEFINE tenant == Validate(FirstGiven(p.header, p.body, p.message.names))
             r      == [r0 EXCEPT !.post = NoRequest.post, !.tenant = tenant,
                                  !.summary = pending_handoff]
  <2>1. PICK ok \in BOOLEAN :
          /\ Calls(ok)
          /\ IF ~ok \/ ~Pending THEN Goto(w, "check_lock")
             ELSE IF tenant = None THEN Goto(w, "ask_again")
             ELSE Continue(w, "adopt_pending", r)
    BY <1>3 DEF PendingGate
  <2>2. tenant \in Tenants \cup {None}
    BY ValidateType
  <2> HIDE DEF tenant
  <2>3. r \in HandlerRecord /\ r.tenant = tenant
    BY <1>1, <1>2, <2>2, NoRequestType DEF HandlerRecord
  <2> HIDE DEF r, r0, p
  <2>4. HandlersInv'
    <3>1. CASE Goto(w, "check_lock")
      BY <3>1, GotoType
    <3>2. CASE Goto(w, "ask_again")
      BY <3>2, GotoType
    <3>3. CASE tenant # None /\ Continue(w, "adopt_pending", r)
      <4>1. "adopt_pending" \in Steps /\ Ready("adopt_pending", r)
        BY <2>3, <3>3
      <4> QED BY <2>3, <3>3, <4>1, ContinueType
    <3> QED BY <2>1, <3>1, <3>2, <3>3
  <2> QED BY <1>3, <2>1, <2>4, CallsType, OnlyRequest DEF PendingGate
<1>4. CASE ReadContext(w)
  <2> DEFINE r == [r0 EXCEPT !.ctx = vpn_context]
  <2>1. PICK ok \in BOOLEAN :
          Calls(ok) /\ IF ok THEN Continue(w, "lock", r) ELSE Goto(w, "clear_pending")
    BY <1>4 DEF ReadContext
  <2>2. r \in HandlerRecord /\ r.tenant = r0.tenant /\ r.reply = r0.reply
    BY <1>1, <1>2 DEF HandlerRecord
  <2>3. r0.tenant # None
    BY <1>4 DEF ReadContext
  <2> HIDE DEF r
  <2>4. HandlersInv'
    <3>1. Ready("lock", r) /\ Ready("clear_pending", r0)
      BY <2>2, <2>3
    <3> QED BY <2>1, <2>2, <3>1, ContinueType, GotoType
  <2> QED BY <1>4, <2>1, <2>4, CallsType, OnlyRequest DEF ReadContext
<1>5. CASE CloseSession(w)
  <2>1. PICK ok \in BOOLEAN : Calls(ok) /\ Respond(w, IF ok THEN "handoff" ELSE "error")
    BY <1>5 DEF CloseSession
  <2>2. HandlersInv'
    BY <2>1, RespondType
  <2> QED BY <1>5, <2>1, <2>2, CallsType, OnlyRequest DEF CloseSession
<1>6. CASE CheckLock(w)
  <2>1. PICK ok \in BOOLEAN :
          Calls(ok) /\ IF ok /\ Locked THEN Respond(w, "closed") ELSE Goto(w, "company")
    BY <1>6 DEF CheckLock
  <2>2. HandlersInv'
    BY <2>1, RespondType, GotoType
  <2> QED BY <1>6, <2>1, <2>2, CallsType, OnlyRequest DEF CheckLock
<1>7. CASE ResolveTenant(w)
  <2>1. PICK ok \in BOOLEAN :
          LET tenant == Validate(FirstGiven(p.header, p.body, IF ok THEN company_id ELSE None))
          IN  /\ Calls(ok)
              /\ Continue(w, IF tenant # None THEN "adopt" ELSE "previous",
                          [r0 EXCEPT !.tenant = tenant])
    BY <1>7 DEF ResolveTenant
  <2> DEFINE tenant == Validate(FirstGiven(p.header, p.body, IF ok THEN company_id ELSE None))
             r      == [r0 EXCEPT !.tenant = tenant]
             step   == IF tenant # None THEN "adopt" ELSE "previous"
  <2>2. tenant \in Tenants \cup {None} /\ Calls(ok) /\ Continue(w, step, r)
    BY <2>1, ValidateType
  <2> HIDE DEF tenant
  <2>3. r \in HandlerRecord /\ r.tenant = tenant
    BY <1>1, <2>2 DEF HandlerRecord
  <2> HIDE DEF r
  <2>4. step \in Steps /\ Ready(step, r)
    BY <2>3
  <2> HIDE DEF step
  <2>5. HandlersInv'
    BY <2>2, <2>3, <2>4, ContinueType
  <2> QED BY <1>7, <2>2, <2>5, CallsType, OnlyRequest DEF ResolveTenant
<1>8. CASE GetLastIntent(w)
  <2> DEFINE r == [r0 EXCEPT !.intent = last_intent]
  <2>1. PICK ok \in BOOLEAN :
          Calls(ok) /\ IF ok THEN Continue(w, "route", r) ELSE Respond(w, "error")
    BY <1>8 DEF GetLastIntent
  <2>2. r \in HandlerRecord
    BY <1>1, <1>2 DEF HandlerRecord
  <2> HIDE DEF r
  <2>3. HandlersInv'
    BY <2>1, <2>2, ContinueType, RespondType
  <2> QED BY <1>8, <2>1, <2>3, CallsType, OnlyRequest DEF GetLastIntent
<1>9. CASE RouteIntent(w)
  <2>1. PICK ok \in BOOLEAN :
          /\ Calls(ok)
          /\ Continue(w, "set_intent", [r0 EXCEPT !.intent =
               IF ok /\ vpn_context.state # "VPN_START" THEN "VPN_ISSUE"
               ELSE Classify(Said(w), @)])
    BY <1>9 DEF RouteIntent
  <2> DEFINE i == IF ok /\ vpn_context.state # "VPN_START" THEN "VPN_ISSUE"
                  ELSE Classify(Said(w), r0.intent)
             r == [r0 EXCEPT !.intent = i]
  <2>2. i \in Intents
    <3>1. Classify(Said(w), r0.intent) \in Intents
      BY ClassifyType
    <3> QED BY <3>1 DEF Intents
  <2>3. Continue(w, "set_intent", r)
    BY <2>1
  <2> HIDE DEF i
  <2>4. r \in HandlerRecord /\ r.intent = i
    BY <1>1, <2>2 DEF HandlerRecord
  <2> HIDE DEF r
  <2>5. HandlersInv'
    BY <2>2, <2>3, <2>4, ContinueType
  <2> QED BY <1>9, <2>1, <2>5, CallsType, OnlyRequest DEF RouteIntent
<1>10. CASE RunVpnFlow(w)
  <2> DEFINE next    == HandleVpnMessage(vpn_context, Said(w).vpn)
             handoff == WantsHandoff(vpn_context, Said(w).vpn)
             summary == IF handoff THEN next ELSE NoSummary
             reply   == IF handoff THEN "handoff" ELSE "answer"
             step    == IF handoff /\ r0.tenant = None THEN "stash" ELSE "save"
             r == [r0 EXCEPT !.post = NoRequest.post, !.ctx = next,
                             !.summary = summary, !.reply = reply]
  <2>1. PICK ok \in BOOLEAN :
          Calls(ok) /\ IF ~ok THEN Respond(w, "error") ELSE Continue(w, step, r)
    BY <1>10 DEF RunVpnFlow
  <2>2. next \in VpnContext
    BY <1>2, FlowType
  <2> HIDE DEF next, handoff
  <2>3. summary \in VpnContext /\ reply \in Replies
    BY <2>2, NewContextType
  <2>4. step \in Steps /\ step \in Routed
        /\ (step = "save" /\ reply = "handoff" => r0.tenant # None)
        /\ step \notin {"adopt", "bill"} \cup Answering
    OBVIOUS
  <2> HIDE DEF summary, reply, step
  <2>5. r \in HandlerRecord /\ r.intent = r0.intent /\ r.tenant = r0.tenant /\ r.reply = reply
    BY <1>1, <2>2, <2>3, NoRequestType DEF HandlerRecord
  <2> HIDE DEF r
  <2>6. r0.intent \in Intents
    BY <1>10 DEF RunVpnFlow, TypeInv, IntentKnown
  <2>7. Ready(step, r)
    BY <2>4, <2>5, <2>6
  <2>8. HandlersInv'
    BY <2>1, <2>4, <2>5, <2>7, ContinueType, RespondType
  <2> QED BY <1>10, <2>1, <2>8, CallsType, OnlyRequest DEF RunVpnFlow
<1> QED BY <1>3, <1>4, <1>5, <1>6, <1>7, <1>8, <1>9, <1>10

\* The calls that write a key of the session.
LEMMA WriteStepType ==
  ASSUME TypeInv, NEW w \in Workers,
         \/ AdoptTenant(w) \/ LockSession(w) \/ ClearPendingHandoff(w) \/ SetLastIntent(w)
         \/ StashSummary(w) \/ RollBack(w) \/ SaveContext(w)
  PROVE  TypeInv'
<1> USE RecordType DEF Steps, Replies, Ready, Routed, Answering, HandlersInv, TenantKnown,
                       IntentKnown, TypeInv, At
<1> DEFINE r0 == req[w]
<1>1. /\ messages \in BOOLEAN /\ last_intent \in Intents \cup {None}
      /\ vpn_context \in VpnContext /\ company_id \in Tenants \cup {None}
      /\ pending_handoff \in VpnContext
  BY DEF TypeOK, SessionOK
<1>2. r0 \in HandlerRecord /\ NewContext \in VpnContext /\ NoSummary \in VpnContext
  BY NewContextType
<1>3. ASSUME NEW c \in VpnContext, NEW st \in States
      PROVE  [c EXCEPT !.state = st] \in VpnContext
  BY DEF VpnContext
<1>4. CASE AdoptTenant(w)
  <2>1. PICK ok \in BOOLEAN :
          Calls(ok) /\ company_id' = IF ok THEN r0.tenant ELSE company_id
    BY <1>4 DEF AdoptTenant
  <2>2. r0.tenant # None /\ Goto(w, IF At(w, "adopt") THEN "previous" ELSE "read_context")
    BY <1>4 DEF AdoptTenant, TypeOK, HandlersOK
  <2>3. HandlersInv'
    BY <2>2, GotoType
  <2>4. SessionOK'
    BY <1>1, <1>4, <2>1 DEF AdoptTenant, SessionOK
  <2> QED BY <1>4, <2>1, <2>3, <2>4, CallsType, OnlySession DEF AdoptTenant
<1>5. CASE LockSession(w)
  <2> DEFINE r == [r0 EXCEPT !.ctx = NewContext]
  <2>1. PICK ok \in BOOLEAN :
          Calls(ok) /\ vpn_context' = IF ok THEN [r0.ctx EXCEPT !.state = "VPN_HANDOFF"]
                                      ELSE vpn_context
    BY <1>5 DEF LockSession
  <2>2. r0.tenant # None /\ Continue(w, "clear_pending", r)
    BY <1>5 DEF LockSession
  <2>3. r \in HandlerRecord /\ r.tenant = r0.tenant
    BY <1>2 DEF HandlerRecord
  <2> HIDE DEF r
  <2>4. HandlersInv'
    BY <2>2, <2>3, ContinueType
  <2>5. [r0.ctx EXCEPT !.state = "VPN_HANDOFF"] \in VpnContext
    BY <1>3 DEF States
  <2>6. SessionOK'
    BY <1>1, <1>5, <2>1, <2>5 DEF LockSession, SessionOK
  <2> QED BY <1>5, <2>1, <2>4, <2>6, CallsType, OnlySession DEF LockSession
<1>6. CASE ClearPendingHandoff(w)
  <2>1. PICK ok \in BOOLEAN :
          Calls(ok) /\ pending_handoff' = IF ok THEN NoSummary ELSE pending_handoff
    BY <1>6 DEF ClearPendingHandoff
  <2>2. r0.tenant # None /\ Goto(w, "say_closed")
    BY <1>6 DEF ClearPendingHandoff
  <2>3. HandlersInv'
    BY <2>2, GotoType
  <2>4. SessionOK'
    BY <1>1, <1>2, <1>6, <2>1 DEF ClearPendingHandoff, SessionOK
  <2> QED BY <1>6, <2>1, <2>3, <2>4, CallsType, OnlySession DEF ClearPendingHandoff
<1>7. CASE SetLastIntent(w)
  <2> DEFINE r == [r0 EXCEPT !.reply = "answer"]
  <2>1. PICK ok \in BOOLEAN, wrote \in BOOLEAN :
          /\ Calls(ok) /\ last_intent' = IF wrote THEN r0.intent ELSE last_intent
          /\ IF ~ok THEN Respond(w, "error")
             ELSE IF r0.intent = "VPN_ISSUE" THEN Goto(w, "flow")
             ELSE Continue(w, "say", r)
    BY <1>7 DEF SetLastIntent, Writes
  <2>2. r \in HandlerRecord /\ r0.intent \in Intents
    BY <1>2, <1>7 DEF HandlerRecord, SetLastIntent
  <2> HIDE DEF r
  <2>3. HandlersInv'
    BY <2>1, <2>2, GotoType, ContinueType, RespondType
  <2>4. SessionOK'
    BY <1>1, <1>7, <2>1 DEF SetLastIntent, SessionOK
  <2> QED BY <1>7, <2>1, <2>3, <2>4, CallsType, OnlySession DEF SetLastIntent
<1>8. CASE StashSummary(w)
  <2> DEFINE r == [r0 EXCEPT !.summary = NoSummary, !.reply = "ask_company"]
  <2>1. PICK ok \in BOOLEAN :
          Calls(ok) /\ pending_handoff' = IF ok THEN r0.summary ELSE pending_handoff
    BY <1>8 DEF StashSummary
  <2>2. r0.intent \in Intents /\ Continue(w, "roll_back", r)
    BY <1>8 DEF StashSummary
  <2>3. r \in HandlerRecord /\ r.intent = r0.intent
    BY <1>2 DEF HandlerRecord
  <2> HIDE DEF r
  <2>4. HandlersInv'
    BY <2>2, <2>3, ContinueType
  <2>5. SessionOK'
    BY <1>1, <1>8, <2>1 DEF StashSummary, SessionOK
  <2> QED BY <1>8, <2>1, <2>4, <2>5, CallsType, OnlySession DEF StashSummary
<1>9. CASE RollBack(w)
  <2> DEFINE r == [r0 EXCEPT !.ctx = NewContext]
  <2>1. PICK ok \in BOOLEAN, wrote \in BOOLEAN :
          /\ Calls(ok)
          /\ vpn_context' = IF wrote THEN [r0.ctx EXCEPT !.state = "VPN_CHECK_RESULT"]
                            ELSE vpn_context
          /\ IF ok THEN Continue(w, "say", r) ELSE Respond(w, "error")
    BY <1>9 DEF RollBack, Writes
  <2>2. r \in HandlerRecord
    BY <1>2 DEF HandlerRecord
  <2> HIDE DEF r
  <2>3. HandlersInv'
    BY <2>1, <2>2, ContinueType, RespondType
  <2>4. [r0.ctx EXCEPT !.state = "VPN_CHECK_RESULT"] \in VpnContext
    BY <1>3 DEF States
  <2>5. SessionOK'
    BY <1>1, <1>9, <2>1, <2>4 DEF RollBack, SessionOK
  <2> QED BY <1>9, <2>1, <2>3, <2>5, CallsType, OnlySession DEF RollBack
<1>10. CASE SaveContext(w)
  <2> DEFINE r    == [r0 EXCEPT !.ctx = NewContext]
             step == IF r0.reply = "handoff" THEN "bill" ELSE "say"
  <2>1. PICK ok \in BOOLEAN, wrote \in BOOLEAN :
          /\ Calls(ok) /\ vpn_context' = IF wrote THEN r0.ctx ELSE vpn_context
          /\ IF ok THEN Continue(w, step, r) ELSE Respond(w, "error")
    BY <1>10 DEF SaveContext, Writes
  <2>2. r \in HandlerRecord /\ r.tenant = r0.tenant /\ r.intent = r0.intent
    BY <1>2 DEF HandlerRecord
  <2> HIDE DEF r
  <2>3. step \in Steps /\ Ready(step, r)
    BY <1>10, <2>2 DEF SaveContext
  <2> HIDE DEF step
  <2>4. HandlersInv'
    BY <2>1, <2>2, <2>3, ContinueType, RespondType
  <2>5. SessionOK'
    BY <1>1, <1>10, <2>1 DEF SaveContext, SessionOK
  <2> QED BY <1>10, <2>1, <2>4, <2>5, CallsType, OnlySession DEF SaveContext
<1> QED BY <1>4, <1>5, <1>6, <1>7, <1>8, <1>9, <1>10

\* The rows of the log name a tenant and an intent.
LEMMA BillStepType ==
  ASSUME TypeInv, NEW w \in Workers, BillPending(w) \/ Bill(w) PROVE TypeInv'
<1> USE RecordType DEF Steps, Ready, Routed, Answering, HandlersInv, TenantKnown,
                       IntentKnown, TypeInv, At
<1>1. req[w].tenant \in Tenants
  BY DEF BillPending, Bill, TypeOK, HandlersOK
<1>2. CASE BillPending(w)
  <2> DEFINE row == [tenant |-> req[w].tenant, intent |-> FirstGiven(last_intent, "VPN_ISSUE", None)]
  <2>1. PICK ok \in BOOLEAN : Calls(ok) /\ usage' = IF ok THEN Append(usage, row) ELSE usage
    BY <1>2 DEF BillPending
  <2>2. FirstGiven(last_intent, "VPN_ISSUE", None) \in Intents
    BY TenantsAssumption DEF FirstGiven, TypeOK, SessionOK, Intents
  <2>3. row \in Row
    BY <1>1, <2>2 DEF Row
  <2> HIDE DEF row
  <2>4. HandlersInv'
    BY <1>2, GotoType DEF BillPending
  <2>5. usage' = usage \/ usage' = Append(usage, row)
    BY <2>1
  <2>6. faults' \in Nat /\ UNCHANGED <<session, bounds, history>>
    BY <1>2, <2>1, CallsType DEF BillPending
  <2> QED BY <2>3, <2>4, <2>5, <2>6, OnlyUsage
<1>3. CASE Bill(w)
  <2> DEFINE row == [tenant |-> req[w].tenant, intent |-> req[w].intent]
  <2>1. PICK ok \in BOOLEAN : Calls(ok) /\ usage' = IF ok THEN Append(usage, row) ELSE usage
    BY <1>3 DEF Bill
  <2>2. row \in Row
    BY <1>1, <1>3 DEF Row, Bill
  <2> HIDE DEF row
  <2>3. HandlersInv'
    BY <1>3, GotoType DEF Bill
  <2>4. usage' = usage \/ usage' = Append(usage, row)
    BY <2>1
  <2>5. faults' \in Nat /\ UNCHANGED <<session, bounds, history>>
    BY <1>3, <2>1, CallsType DEF Bill
  <2> QED BY <2>2, <2>3, <2>4, <2>5, OnlyUsage
<1> QED BY <1>2, <1>3

LEMMA ReplyType == ASSUME TypeInv, NEW w \in Workers, Reply(w) PROVE TypeInv'
<1>1. req' = [v \in Workers |-> IF v \in {w} THEN NoRequest ELSE req[v]]
  BY DEF Reply, TypeInv, TypeOK, HandlersOK
<1>2. HandlersInv /\ {w} \in SUBSET Workers
  BY RecordType
<1>4. HandlersInv'
  BY <1>1, <1>2, IdleType
<1>3. told' \in BOOLEAN
  BY DEF Reply, TypeInv, TypeOK, CountersOK
<1> QED BY <1>3, <1>4 DEF Reply, TypeInv, TypeOK, SessionOK, CountersOK, HandlersInv, session,
                          bounds

\* The session goes: its keys at once, and with a restart the requests.
LEMMA RenewType == ASSUME TypeInv, Renew PROVE TypeInv'
<1>1. SessionOK'
  BY NewContextType DEF Renew, SessionOK
<1>2. CountersOK'
  <2>1. usage \in Seq(Row) /\ Len(usage) \in 0..Len(usage)
    BY DEF TypeInv, TypeOK, CountersOK
  <2>2. earlier' \in 0..Len(usage') /\ usage' \in Seq(Row)
        /\ renewals' \in Nat /\ faults' \in Nat /\ crashes' \in Nat
    BY <2>1 DEF Renew, TypeInv, TypeOK, CountersOK
  <2>3. told' \in BOOLEAN /\ fresh' \in BOOLEAN
    BY DEF Renew
  <2> QED BY <2>2, <2>3 DEF CountersOK
<1>3. HandlersOK' /\ IntentKnown' /\ TenantKnown'
  BY DEF Renew, TypeInv, TypeOK, HandlersOK, IntentKnown, TenantKnown
<1> QED BY <1>1, <1>2, <1>3 DEF TypeInv, TypeOK

LEMMA CrashType == ASSUME TypeInv, Crash PROVE TypeInv'
<1>1. req' = [w \in Workers |-> IF w \in Workers THEN NoRequest ELSE req[w]]
  BY DEF Crash
<1>2. HandlersInv
  BY DEF TypeInv, TypeOK, HandlersInv
<1>3. HandlersInv'
  BY <1>1, <1>2, IdleType
<1> QED BY <1>3 DEF Crash, TypeInv, TypeOK, SessionOK, CountersOK, HandlersInv, session, history

LEMMA InitType == ASSUME Init PROVE TypeInv
<1>1. SessionOK
  BY NewContextType DEF Init, SessionOK
<1>2. CountersOK
  <2>1. << >> \in Seq(Row) /\ Len(<< >>) = 0
    OBVIOUS
  <2>2. earlier \in 0..Len(usage) /\ usage \in Seq(Row)
        /\ renewals \in Nat /\ faults \in Nat /\ crashes \in Nat
    BY <2>1 DEF Init
  <2>3. told \in BOOLEAN /\ fresh \in BOOLEAN
    BY DEF Init
  <2> QED BY <2>2, <2>3 DEF CountersOK
<1>3. HandlersOK /\ IntentKnown /\ TenantKnown
  BY NoRequestType DEF Init, HandlersOK, IntentKnown, TenantKnown, Routed, Answering
<1> QED BY <1>1, <1>2, <1>3 DEF TypeInv, TypeOK

LEMMA StepType == ASSUME TypeInv, [Next]_vars PROVE TypeInv'
<1>1. ASSUME NEW w \in Workers, PostChat(w) \/ Handler(w) PROVE TypeInv'
  BY <1>1, PostType, HistoryStepType, ReadStepType, WriteStepType, BillStepType, ReplyType
     DEF Handler, PendingPath, NormalPath
<1>2. CASE UNCHANGED vars
  BY <1>2 DEF vars, session, bounds, history, TypeInv, TypeOK, SessionOK, HandlersOK, CountersOK,
              IntentKnown, TenantKnown
<1> QED BY <1>1, <1>2, RenewType, CrashType DEF Next, DeleteSession, ExpireSession

LEMMA TypeInvHolds == Spec => []TypeInv
  BY InitType, StepType, PTL DEF Spec

\* However the requests interleave, the keys hold what their readers expect, and
\* no tenant is adopted or billed that is not a registered one.
THEOREM ChatTypeCorrect == Spec => []TypeOK
<1>1. TypeInv => TypeOK
  BY DEF TypeInv
<1> QED BY <1>1, TypeInvHolds, PTL

-----------------------------------------------------------------------------
(* A deleted session.                                                      *)

LEMMA FreshStep == ASSUME ~Overlap, TypeInv, FreshInv, [Next]_vars PROVE FreshInv'
<1> USE DEF FreshInv
<1>1. ASSUME NEW w \in Workers, PostChat(w) PROVE FreshInv'
  BY <1>1 DEF PostChat
<1>2. ASSUME NEW w \in Workers, Handler(w) PROVE FreshInv'
  <2>1. Busy(w)
    BY <1>2 DEF Handler, PendingPath, NormalPath, AddUserMessage, PendingGate, AskAgain,
           ReadContext, LockSession, ClearPendingHandoff, BillPending, CloseSession, CheckLock,
           ResolveTenant, GetLastIntent, RouteIntent, SetLastIntent, RunVpnFlow, StashSummary,
           RollBack, SaveContext, Bill, AdoptTenant, AddReply, Reply, At, Busy
  <2>2. ~fresh
    BY <2>1 DEF Untouched, Idle
  <2>3. fresh' = fresh
    BY <1>2 DEF Handler, PendingPath, NormalPath, AddUserMessage, PendingGate, AskAgain,
           ReadContext, LockSession, ClearPendingHandoff, BillPending, CloseSession, CheckLock,
           ResolveTenant, GetLastIntent, RouteIntent, SetLastIntent, RunVpnFlow, StashSummary,
           RollBack, SaveContext, Bill, AdoptTenant, AddReply, Reply, history
  <2> QED BY <2>2, <2>3
<1>3. CASE DeleteSession \/ ExpireSession
  <2>1. Idle /\ Renew
    BY <1>3 DEF DeleteSession, ExpireSession
  <2> QED BY <2>1 DEF Renew, Untouched, Idle, Busy, Pending
<1>4. CASE Crash
  BY <1>4 DEF Crash, Untouched, history
<1>5. CASE UNCHANGED vars
  BY <1>5 DEF vars, session, history, Untouched, Idle, Busy, Pending
<1> QED BY <1>1, <1>2, <1>3, <1>4, <1>5 DEF Next

\* When the client waits for its answers, what it deletes stays deleted.
THEOREM ChatDeletedStaysDeleted == ASSUME ~Overlap PROVE Spec => []DeletedStaysDeleted
<1>1. Init => FreshInv
  BY NoRequestType DEF Init, FreshInv, Untouched, Idle, Busy, Pending, NoSummary
<1>2. TypeInv /\ FreshInv /\ [Next]_vars => FreshInv'
  BY FreshStep
<1>3. FreshInv => DeletedStaysDeleted
  BY DEF FreshInv, Untouched, DeletedStaysDeleted
<1> QED BY <1>1, <1>2, <1>3, TypeInvHolds, PTL DEF Spec

-----------------------------------------------------------------------------
(* One request at a time.                                                  *)

\* A call fails or not, and what it may then rely on.
LEMMA CallsFacts ==
  ASSUME faults \in Nat, NEW ok \in BOOLEAN, Calls(ok)
  PROVE  /\ faults' = IF ok THEN faults ELSE faults + 1
         /\ faults' <= 1 => faults <= 1 /\ (~ok => faults = 0 /\ faults' = 1)
         /\ faults' = 0 => ok /\ faults = 0
         /\ faults <= MaxFaults => faults' <= MaxFaults
<1>1. MaxFaults \in Nat
  BY ChatBounds
<1> QED BY <1>1 DEF Calls

\* Nobody but w has a request, so what w does is all that can go wrong.
LEMMA OnlyOneActs ==
  ASSUME SerialInv, NEW w \in Workers,
         \A v \in Workers \ {w} : ~Busy(v) /\ req'[v] = req[v],
         faults' <= MaxFaults, SerialAt(w)'
  PROVE  SerialInv'
<1>1. \A v \in Workers \ {w} : req'[v].pc = "idle"
  BY DEF Busy
<1>2. Exclusive'
  BY <1>1 DEF Exclusive, Busy
<1>3. \A v \in Workers \ {w} : RequestReported(req[v])' /\ RequestCalm(req[v])'
  BY <1>1 DEF RequestReported, RequestCalm, Deciding, Answering, AfterFlow
<1>4. (faults <= 1 => OneFault)'
  BY <1>3 DEF SerialAt, OneFaultAt, OneFault
<1>5. (faults = 0 => Calm)'
  BY <1>3 DEF SerialAt, CalmAt, Calm
<1> QED BY <1>2, <1>4, <1>5 DEF SerialInv

\* What a worker knows under the invariant.
LEMMA WorkerKnows ==
  ASSUME TypeInv, SerialInv, NEW w \in Workers
  PROVE  /\ SerialAt(w) /\ HandlersOK /\ faults \in Nat /\ faults <= MaxFaults
         /\ Busy(w) => \A v \in Workers \ {w} : ~Busy(v)
<1>1. HandlersOK /\ faults \in Nat
  BY DEF TypeInv, TypeOK, CountersOK
<1>2. Busy(w) => \A v \in Workers \ {w} : ~Busy(v)
  BY DEF SerialInv, Exclusive
<1> QED BY <1>1, <1>2 DEF SerialInv, SerialAt, OneFault, OneFaultAt, Calm, CalmAt

\* A call that leaves the session alone keeps what is said of it.
LEMMA SessionStays ==
  ASSUME faults \in Nat, NEW w, SerialAt(w), NEW ok \in BOOLEAN, Calls(ok),
         UNCHANGED <<last_intent, vpn_context, pending_handoff, usage, earlier, told>>
  PROVE  /\ faults' <= 1 => (WaitingReported /\ StoredSound /\ BilledAsVpn)'
         /\ faults' = 0 => (WaitingStored /\ ToldMeansClosed /\ BilledOnce)'
<1>1. UNCHANGED <<earlier, told, Pending, Locked>>
  BY DEF Pending, Locked
<1>2. ASSUME faults' <= 1 PROVE (WaitingReported /\ StoredSound /\ BilledAsVpn)'
  <2>1. WaitingReported /\ StoredSound /\ BilledAsVpn /\ (faults = 1 => faults' = 1)
    BY <1>2, CallsFacts DEF SerialAt, OneFaultAt
  <2> QED BY <1>1, <2>1 DEF WaitingReported, StoredSound, BilledAsVpn
<1>3. ASSUME faults' = 0 PROVE (WaitingStored /\ ToldMeansClosed /\ BilledOnce)'
  <2>1. WaitingStored /\ ToldMeansClosed /\ BilledOnce /\ faults = 0
    BY <1>3, CallsFacts DEF SerialAt, CalmAt
  <2> QED BY <1>1, <2>1 DEF WaitingStored, ToldMeansClosed, BilledOnce
<1> QED BY <1>2, <1>3

\* An answer that is none promises nothing.
LEMMA PlainAnswer ==
  ASSUME HandlersOK, NEW w \in Workers, NEW reply \in Replies \ {"handoff", "closed"},
         Respond(w, reply)
  PROVE  /\ \A v \in Workers \ {w} : req'[v] = req[v]
         /\ RequestReported(req[w])' /\ RequestCalm(req[w])'
<1>1. /\ \A v \in Workers \ {w} : req'[v] = req[v]
      /\ req'[w].pc = "reply" /\ req'[w].reply = reply
  BY Responded
<1> QED BY <1>1 DEF RequestReported, RequestCalm, Deciding, Answering, AfterFlow

\* The request goes on as it is.
LEMMA WentOn ==
  ASSUME HandlersOK, NEW w \in Workers, NEW step \in Steps, Goto(w, step)
  PROVE  /\ \A v \in Workers \ {w} : req'[v] = req[v]
         /\ req'[w].pc = step
         /\ req'[w].tenant = req[w].tenant /\ req'[w].intent = req[w].intent
         /\ req'[w].ctx = req[w].ctx /\ req'[w].summary = req[w].summary
         /\ req'[w].reply = req[w].reply
<1>1. req[w] \in HandlerRecord
  BY DEF HandlersOK
<1> QED BY <1>1, Continued DEF Goto

\* A step of w that reads, or writes the history only.
Unmoved(w, ok) ==
  /\ ok \in BOOLEAN /\ Calls(ok)
  /\ UNCHANGED <<last_intent, vpn_context, pending_handoff, usage, earlier, told>>
  /\ \A v \in Workers \ {w} : req'[v] = req[v]
  /\ faults' <= 1 => RequestReported(req[w])'
  /\ faults' = 0 => RequestCalm(req[w])'
LEMMA UnmovedKeeps ==
  ASSUME TypeInv, SerialInv, NEW w \in Workers, Busy(w), NEW ok, Unmoved(w, ok)
  PROVE  SerialInv'
<1>1. SerialAt(w)'
  BY WorkerKnows, SessionStays DEF Unmoved, SerialAt, OneFaultAt, CalmAt
<1>2. faults' <= MaxFaults
  BY WorkerKnows, CallsFacts DEF Unmoved
<1> QED BY <1>1, <1>2, WorkerKnows, OnlyOneActs DEF Unmoved

\* The call fails, or its answer is a question.
LEMMA PlainAnswerKeeps ==
  ASSUME TypeInv, SerialInv, NEW w \in Workers, Busy(w), NEW ok \in BOOLEAN, Calls(ok),
         UNCHANGED <<last_intent, vpn_context, pending_handoff, usage, earlier, told>>,
         NEW reply \in Replies \ {"handoff", "closed"}, Respond(w, reply)
  PROVE  SerialInv'
  BY WorkerKnows, PlainAnswer, UnmovedKeeps DEF Unmoved

\* The calls that store a message or the company.
LEMMA MessageStepSerial ==
  ASSUME TypeInv, SerialInv, NEW w \in Workers,
         AddUserMessage(w) \/ AskAgain(w) \/ AddReply(w) \/ AdoptTenant(w)
  PROVE  SerialInv'
<1> USE DEF Steps, Replies
<1>1. /\ SerialAt(w) /\ HandlersOK /\ faults \in Nat /\ req[w].reply \in Replies
      /\ faults <= 1 => faults \in {0, 1}
  BY WorkerKnows, RecordType
<1>2. /\ Busy(w)
      /\ UNCHANGED <<last_intent, vpn_context, pending_handoff, usage, earlier, told>>
  BY DEF AddUserMessage, AskAgain, AddReply, AdoptTenant, history, At, Busy
<1>3. UNCHANGED <<Pending, Locked>>
  BY <1>2 DEF Pending, Locked
<1>4. ASSUME NEW ok \in BOOLEAN, Calls(ok), NEW step \in Steps, Goto(w, step),
             <<req[w].pc, step>> \in {<<"open", "gate">>, <<"say_closed", "bill_pending">>,
                                      <<"adopt_pending", "read_context">>, <<"adopt", "previous">>}
      PROVE  SerialInv'
  <2>1. /\ \A v \in Workers \ {w} : req'[v] = req[v]
        /\ req'[w].pc = step /\ req'[w].intent = req[w].intent
        /\ req'[w].ctx = req[w].ctx /\ req'[w].summary = req[w].summary
        /\ req'[w].reply = req[w].reply
    BY <1>1, <1>4, WentOn
  <2>2. ASSUME faults' <= 1 PROVE RequestReported(req[w])'
    <3>1. RequestReported(req[w]) /\ (faults = 1 => faults' = 1)
      BY <1>1, <1>4, <2>2, CallsFacts DEF SerialAt, OneFaultAt
    <3> QED BY <1>2, <1>3, <1>4, <2>1, <3>1
            DEF RequestReported, Deciding, Answering, AfterFlow
  <2>3. ASSUME faults' = 0 PROVE RequestCalm(req[w])'
    <3>1. RequestCalm(req[w])
      BY <1>1, <1>4, <2>3, CallsFacts DEF SerialAt, CalmAt
    <3> QED BY <1>2, <1>3, <1>4, <2>1, <3>1 DEF RequestCalm, Deciding
  <2> QED BY <1>2, <1>4, <2>1, <2>2, <2>3, UnmovedKeeps DEF Unmoved
<1>5. CASE AddUserMessage(w)
  <2>1. PICK ok \in BOOLEAN : Calls(ok) /\ GotoIf(w, ok, "gate")
    BY <1>5 DEF AddUserMessage, Writes
  <2> QED BY <1>2, <1>4, <1>5, <2>1, PlainAnswerKeeps DEF GotoIf, AddUserMessage, At
<1>6. CASE AskAgain(w)
  <2>1. PICK ok \in BOOLEAN : Calls(ok) /\ Respond(w, IF ok THEN "ask_company" ELSE "error")
    BY <1>6 DEF AskAgain, Writes
  <2> QED BY <1>2, <2>1, PlainAnswerKeeps
<1>7. CASE AddReply(w) /\ At(w, "say_closed")
  <2>1. PICK ok \in BOOLEAN : Calls(ok) /\ GotoIf(w, ok, "bill_pending")
    BY <1>7 DEF AddReply, Writes
  <2> QED BY <1>2, <1>4, <1>7, <2>1, PlainAnswerKeeps DEF GotoIf, At
<1>8. CASE AddReply(w) /\ At(w, "say")
  <2>1. PICK ok \in BOOLEAN : Calls(ok) /\ Respond(w, IF ok THEN req[w].reply ELSE "error")
    BY <1>8 DEF AddReply, Writes, At
  <2>2. CASE ok
    <3>1. /\ \A v \in Workers \ {w} : req'[v] = req[v]
          /\ req'[w].pc = "reply" /\ req'[w].reply = req[w].reply
          /\ req[w].reply = "handoff" => req'[w].summary = req[w].summary
      BY <1>1, <2>1, <2>2, Responded
    <3>2. ASSUME faults' <= 1 PROVE RequestReported(req[w])'
      <4>1. RequestReported(req[w])
        BY <1>1, <2>1, <3>2, CallsFacts DEF SerialAt, OneFaultAt
      <4> QED BY <1>2, <1>8, <3>1, <4>1
              DEF RequestReported, Deciding, Answering, AfterFlow, At, Busy
    <3>3. ASSUME faults' = 0 PROVE RequestCalm(req[w])'
      <4>1. RequestCalm(req[w])
        BY <1>1, <2>1, <3>3, CallsFacts DEF SerialAt, CalmAt
      <4> QED BY <1>3, <1>8, <3>1, <4>1 DEF RequestCalm, Deciding, At
    <3> QED BY <1>2, <2>1, <3>1, <3>2, <3>3, UnmovedKeeps DEF Unmoved
  <2>3. CASE ~ok
    BY <1>2, <2>1, <2>3, PlainAnswerKeeps
  <2> QED BY <2>2, <2>3
<1>9. CASE AdoptTenant(w)
  <2>1. PICK ok \in BOOLEAN : Calls(ok)
    BY <1>9 DEF AdoptTenant
  <2>2. Goto(w, IF At(w, "adopt") THEN "previous" ELSE "read_context")
    BY <1>9 DEF AdoptTenant
  <2> QED BY <1>4, <1>9, <2>1, <2>2 DEF AdoptTenant, At
<1> QED BY <1>5, <1>6, <1>7, <1>8, <1>9 DEF AddReply

\* The check for a summary: who gets past one that waits has failed to read it,
\* and the flow has begun; who answers it answers with a report.
LEMMA GateStepSerial ==
  ASSUME TypeInv, SerialInv, NEW w \in Workers, PendingGate(w) PROVE SerialInv'
<1> USE DEF Steps, Replies
<1> DEFINE p      == req[w].post
           tenant == Validate(FirstGiven(p.header, p.body, p.message.names))
           r      == [req[w] EXCEPT !.post = NoRequest.post, !.tenant = tenant,
                                    !.summary = pending_handoff]
<1>1. /\ SerialAt(w) /\ HandlersOK /\ faults \in Nat /\ req[w] \in HandlerRecord
      /\ pending_handoff \in VpnContext
  BY WorkerKnows, RecordType DEF TypeInv, TypeOK, SessionOK
<1>2. /\ Busy(w) /\ req[w].pc = "gate"
      /\ UNCHANGED <<last_intent, vpn_context, pending_handoff, usage, earlier, told>>
  BY DEF PendingGate, session, history, At, Busy
<1>3. UNCHANGED <<Pending, Locked>>
  BY <1>2 DEF Pending, Locked
<1>4. PICK ok \in BOOLEAN :
        /\ Calls(ok)
        /\ IF ~ok \/ ~Pending THEN Goto(w, "check_lock")
           ELSE IF tenant = None THEN Goto(w, "ask_again")
           ELSE Continue(w, "adopt_pending", r)
  BY DEF PendingGate
<1>5. tenant \in Tenants \cup {None}
  BY ValidateType
<1> HIDE DEF tenant
<1>6. r \in HandlerRecord /\ r.summary = pending_handoff /\ r.reply = req[w].reply
  BY <1>1, <1>5, NoRequestType DEF HandlerRecord
<1> HIDE DEF r
<1>7. CASE ~ok \/ ~Pending
  <2>1. /\ \A v \in Workers \ {w} : req'[v] = req[v]
        /\ req'[w].pc = "check_lock"
        /\ req'[w].summary = req[w].summary /\ req'[w].reply = req[w].reply
    BY <1>1, <1>4, <1>7, WentOn
  <2>2. ASSUME faults' <= 1 PROVE RequestReported(req[w])'
    <3>1. RequestReported(req[w])
      BY <1>1, <1>4, <2>2, CallsFacts DEF SerialAt, OneFaultAt
    <3>2. Pending => faults' = 1 /\ vpn_context.state # "VPN_START"
      BY <1>1, <1>4, <1>7, <2>2, CallsFacts DEF SerialAt, CalmAt, WaitingStored
    <3> QED BY <1>2, <1>3, <2>1, <3>1, <3>2 DEF RequestReported, Deciding, Answering, AfterFlow
  <2>3. ASSUME faults' = 0 PROVE RequestCalm(req[w])'
    <3>1. ~Pending
      BY <1>1, <1>4, <1>7, <2>3, CallsFacts
    <3> QED BY <1>2, <1>3, <2>1, <3>1 DEF RequestCalm, Deciding
  <2> QED BY <1>2, <1>4, <2>1, <2>2, <2>3, UnmovedKeeps DEF Unmoved
<1>8. CASE ok /\ Pending /\ tenant = None
  <2>1. /\ \A v \in Workers \ {w} : req'[v] = req[v]
        /\ req'[w].pc = "ask_again"
        /\ req'[w].summary = req[w].summary /\ req'[w].reply = req[w].reply
    BY <1>1, <1>4, <1>8, WentOn
  <2>2. ASSUME faults' <= 1 PROVE RequestReported(req[w])'
    <3>1. RequestReported(req[w])
      BY <1>1, <1>4, <2>2, CallsFacts DEF SerialAt, OneFaultAt
    <3> QED BY <1>2, <2>1, <3>1 DEF RequestReported, Deciding, Answering, AfterFlow
  <2>3. RequestCalm(req[w])'
    BY <2>1 DEF RequestCalm, Deciding
  <2> QED BY <1>2, <1>4, <2>1, <2>2, <2>3, UnmovedKeeps DEF Unmoved
<1>9. CASE ok /\ Pending /\ tenant # None
  <2>1. /\ \A v \in Workers \ {w} : req'[v] = req[v]
        /\ req'[w].pc = "adopt_pending"
        /\ req'[w].summary = pending_handoff /\ req'[w].reply = req[w].reply
    BY <1>1, <1>4, <1>6, <1>9, Continued
  <2>2. ASSUME faults' <= 1 PROVE RequestReported(req[w])'
    <3>1. Reported(pending_handoff) /\ last_intent = "VPN_ISSUE"
      BY <1>1, <1>4, <1>9, <2>2, CallsFacts DEF SerialAt, OneFaultAt, WaitingReported
    <3> QED BY <1>2, <2>1, <3>1 DEF RequestReported, Deciding, Answering, AfterFlow
  <2>3. RequestCalm(req[w])'
    BY <1>3, <1>9, <2>1 DEF RequestCalm, Deciding
  <2> QED BY <1>2, <1>4, <2>1, <2>2, <2>3, UnmovedKeeps DEF Unmoved
<1> QED BY <1>4, <1>7, <1>8, <1>9

\* The other reads that answer a summary.
LEMMA AnswerStepSerial ==
  ASSUME TypeInv, SerialInv, NEW w \in Workers, ReadContext(w) \/ CloseSession(w)
  PROVE  SerialInv'
<1> USE DEF Steps, Replies
<1>1. /\ SerialAt(w) /\ HandlersOK /\ faults \in Nat /\ req[w] \in HandlerRecord
      /\ vpn_context \in VpnContext
  BY WorkerKnows, RecordType DEF TypeInv, TypeOK, SessionOK
<1>2. /\ Busy(w)
      /\ UNCHANGED <<last_intent, vpn_context, pending_handoff, usage, earlier, told>>
  BY DEF ReadContext, CloseSession, session, history, At, Busy
<1>3. UNCHANGED <<Pending, Locked>>
  BY <1>2 DEF Pending, Locked
<1>4. CASE ReadContext(w)
  <2> DEFINE r == [req[w] EXCEPT !.ctx = vpn_context]
  <2>1. PICK ok \in BOOLEAN :
          Calls(ok) /\ IF ok THEN Continue(w, "lock", r) ELSE Goto(w, "clear_pending")
    BY <1>4 DEF ReadContext
  <2>2. r \in HandlerRecord /\ r.ctx = vpn_context /\ r.summary = req[w].summary
        /\ r.reply = req[w].reply
    BY <1>1 DEF HandlerRecord
  <2> HIDE DEF r
  <2>3. /\ \A v \in Workers \ {w} : req'[v] = req[v]
        /\ req'[w].pc = IF ok THEN "lock" ELSE "clear_pending"
        /\ ok => req'[w].ctx = vpn_context
        /\ req'[w].summary = req[w].summary /\ req'[w].reply = req[w].reply
    <3>1. CASE ok
      BY <1>1, <2>1, <2>2, <3>1, Continued
    <3>2. CASE ~ok
      BY <1>1, <2>1, <3>2, WentOn
    <3> QED BY <3>1, <3>2
  <2>4. ASSUME faults' <= 1 PROVE RequestReported(req[w])'
    <3>1. RequestReported(req[w])
      BY <1>1, <2>1, <2>4, CallsFacts DEF SerialAt, OneFaultAt
    <3> QED BY <1>2, <1>4, <2>3, <3>1
            DEF RequestReported, Deciding, Answering, AfterFlow, ReadContext, At
  <2>5. ASSUME faults' = 0 PROVE RequestCalm(req[w])'
    <3>1. RequestCalm(req[w]) /\ ok
      BY <1>1, <2>1, <2>5, CallsFacts DEF SerialAt, CalmAt
    <3> QED BY <1>2, <1>3, <1>4, <2>3, <3>1 DEF RequestCalm, Deciding, ReadContext, At
  <2> QED BY <1>2, <2>1, <2>3, <2>4, <2>5, UnmovedKeeps DEF Unmoved
<1>5. CASE CloseSession(w)
  <2>1. PICK ok \in BOOLEAN : Calls(ok) /\ Respond(w, IF ok THEN "handoff" ELSE "error")
    BY <1>5 DEF CloseSession
  <2>2. CASE ok
    <3>1. /\ \A v \in Workers \ {w} : req'[v] = req[v]
          /\ req'[w].pc = "reply" /\ req'[w].summary = req[w].summary
      BY <1>1, <2>1, <2>2, Responded
    <3>2. ASSUME faults' <= 1 PROVE RequestReported(req[w])'
      <4>1. RequestReported(req[w])
        BY <1>1, <2>1, <3>2, CallsFacts DEF SerialAt, OneFaultAt
      <4> QED BY <1>5, <3>1, <4>1
              DEF RequestReported, Deciding, Answering, AfterFlow, CloseSession, At
    <3>3. ASSUME faults' = 0 PROVE RequestCalm(req[w])'
      <4>1. RequestCalm(req[w])
        BY <1>1, <2>1, <3>3, CallsFacts DEF SerialAt, CalmAt
      <4> QED BY <1>3, <1>5, <3>1, <4>1 DEF RequestCalm, Deciding, CloseSession, At
    <3> QED BY <1>2, <2>1, <3>1, <3>2, <3>3, UnmovedKeeps DEF Unmoved
  <2>3. CASE ~ok
    BY <1>2, <2>1, <2>3, PlainAnswerKeeps
  <2> QED BY <2>2, <2>3
<1> QED BY <1>4, <1>5

\* The check of the lock: past it the stored context is one of the flow.
LEMMA LockCheckSerial ==
  ASSUME TypeInv, SerialInv, NEW w \in Workers, CheckLock(w) PROVE SerialInv'
<1> USE DEF Steps, Replies
<1>1. SerialAt(w) /\ HandlersOK /\ faults \in Nat
  BY WorkerKnows
<1>2. /\ Busy(w) /\ req[w].pc = "check_lock"
      /\ UNCHANGED <<last_intent, vpn_context, pending_handoff, usage, earlier, told>>
  BY DEF CheckLock, session, history, At, Busy
<1>3. UNCHANGED <<Pending, Locked>>
  BY <1>2 DEF Pending, Locked
<1>4. PICK ok \in BOOLEAN :
        Calls(ok) /\ IF ok /\ Locked THEN Respond(w, "closed") ELSE Goto(w, "company")
  BY DEF CheckLock
<1>5. CASE ok /\ Locked
  <2>1. /\ \A v \in Workers \ {w} : req'[v] = req[v]
        /\ req'[w].pc = "reply" /\ req'[w].reply = "closed"
    BY <1>1, <1>4, <1>5, Responded
  <2>2. RequestReported(req[w])' /\ RequestCalm(req[w])'
    BY <1>3, <1>5, <2>1 DEF RequestReported, RequestCalm, Deciding, Answering, AfterFlow
  <2> QED BY <1>2, <1>4, <2>1, <2>2, UnmovedKeeps DEF Unmoved
<1>6. CASE ~(ok /\ Locked)
  <2>1. /\ \A v \in Workers \ {w} : req'[v] = req[v]
        /\ req'[w].pc = "company"
        /\ req'[w].summary = req[w].summary /\ req'[w].reply = req[w].reply
    BY <1>1, <1>4, <1>6, WentOn
  <2>2. ASSUME faults' <= 1 PROVE RequestReported(req[w])'
    <3>1. RequestReported(req[w]) /\ StoredSound /\ (~ok => faults = 0)
          /\ (faults = 1 => faults' = 1)
      BY <1>1, <1>4, <2>2, CallsFacts DEF SerialAt, OneFaultAt
    <3>2. Sound(vpn_context)
      BY <1>6, <3>1 DEF StoredSound
    <3> QED BY <1>2, <1>3, <2>1, <3>1, <3>2 DEF RequestReported, Deciding, Answering, AfterFlow
  <2>3. ASSUME faults' = 0 PROVE RequestCalm(req[w])'
    <3>1. RequestCalm(req[w]) /\ ok
      BY <1>1, <1>4, <2>3, CallsFacts DEF SerialAt, CalmAt
    <3> QED BY <1>2, <1>3, <1>6, <2>1, <3>1 DEF RequestCalm, Deciding
  <2> QED BY <1>2, <1>4, <2>1, <2>2, <2>3, UnmovedKeeps DEF Unmoved
<1> QED BY <1>5, <1>6

\* The tenant and the intent of the message.
LEMMA RouteStepSerial ==
  ASSUME TypeInv, SerialInv, NEW w \in Workers,
         ResolveTenant(w) \/ GetLastIntent(w) \/ RouteIntent(w)
  PROVE  SerialInv'
<1> USE DEF Steps, Replies
<1>1. /\ SerialAt(w) /\ HandlersOK /\ faults \in Nat /\ req[w] \in HandlerRecord
      /\ company_id \in Tenants \cup {None} /\ last_intent \in Intents \cup {None}
  BY WorkerKnows, RecordType DEF TypeInv, TypeOK, SessionOK
<1>2. /\ Busy(w)
      /\ UNCHANGED <<last_intent, vpn_context, pending_handoff, usage, earlier, told>>
  BY DEF ResolveTenant, GetLastIntent, RouteIntent, session, history, At, Busy
<1>3. UNCHANGED <<Pending, Locked>>
  BY <1>2 DEF Pending, Locked
<1>4. ASSUME NEW ok \in BOOLEAN, Calls(ok), NEW step \in Steps, NEW r \in HandlerRecord,
             r.summary = req[w].summary, r.reply = req[w].reply, Continue(w, step, r),
             \/ req[w].pc = "company" /\ step \in {"adopt", "previous"}
             \/ req[w].pc = "previous" /\ step = "route"
             \/ /\ req[w].pc = "route" /\ step = "set_intent"
                /\ ok /\ vpn_context.state # "VPN_START" => r.intent = "VPN_ISSUE"
      PROVE  SerialInv'
  <2>1. /\ \A v \in Workers \ {w} : req'[v] = req[v]
        /\ req'[w].pc = step /\ req'[w].intent = r.intent
        /\ req'[w].summary = req[w].summary /\ req'[w].reply = req[w].reply
    BY <1>1, <1>4, Continued
  <2>2. ASSUME faults' <= 1 PROVE RequestReported(req[w])'
    <3>1. RequestReported(req[w]) /\ (faults = 1 => faults' = 1) /\ (~ok => faults = 0)
      BY <1>1, <1>4, <2>2, CallsFacts DEF SerialAt, OneFaultAt
    <3>2. step = "set_intent" /\ Pending => r.intent = "VPN_ISSUE"
      BY <1>4, <3>1 DEF RequestReported
    <3> QED BY <1>2, <1>3, <1>4, <2>1, <3>1, <3>2
            DEF RequestReported, Deciding, Answering, AfterFlow
  <2>3. ASSUME faults' = 0 PROVE RequestCalm(req[w])'
    <3>1. RequestCalm(req[w])
      BY <1>1, <1>4, <2>3, CallsFacts DEF SerialAt, CalmAt
    <3> QED BY <1>2, <1>3, <1>4, <2>1, <3>1 DEF RequestCalm, Deciding
  <2> QED BY <1>2, <1>4, <2>1, <2>2, <2>3, UnmovedKeeps DEF Unmoved
<1>5. CASE ResolveTenant(w)
  <2> DEFINE p == req[w].post
  <2>1. PICK ok \in BOOLEAN :
          LET tenant == Validate(FirstGiven(p.header, p.body, IF ok THEN company_id ELSE None))
          IN  /\ Calls(ok)
              /\ Continue(w, IF tenant # None THEN "adopt" ELSE "previous",
                          [req[w] EXCEPT !.tenant = tenant])
    BY <1>5 DEF ResolveTenant
  <2> DEFINE tenant == Validate(FirstGiven(p.header, p.body, IF ok THEN company_id ELSE None))
             r      == [req[w] EXCEPT !.tenant = tenant]
  <2>2. tenant \in Tenants \cup {None} /\ Calls(ok)
        /\ Continue(w, IF tenant # None THEN "adopt" ELSE "previous", r)
    BY <2>1, ValidateType
  <2> HIDE DEF tenant
  <2>3. r \in HandlerRecord /\ r.summary = req[w].summary /\ r.reply = req[w].reply
    BY <1>1, <2>2 DEF HandlerRecord
  <2>4. req[w].pc = "company"
    BY <1>5 DEF ResolveTenant, At
  <2> HIDE DEF r
  <2> QED BY <1>4, <2>2, <2>3, <2>4
<1>6. CASE GetLastIntent(w)
  <2> DEFINE r == [req[w] EXCEPT !.intent = last_intent]
  <2>1. PICK ok \in BOOLEAN :
          Calls(ok) /\ IF ok THEN Continue(w, "route", r) ELSE Respond(w, "error")
    BY <1>6 DEF GetLastIntent
  <2>2. r \in HandlerRecord /\ r.summary = req[w].summary /\ r.reply = req[w].reply
    BY <1>1 DEF HandlerRecord
  <2>3. req[w].pc = "previous"
    BY <1>6 DEF GetLastIntent, At
  <2> HIDE DEF r
  <2>4. CASE ok
    BY <1>4, <2>1, <2>2, <2>3, <2>4
  <2>5. CASE ~ok
    BY <1>2, <2>1, <2>5, PlainAnswerKeeps
  <2> QED BY <2>4, <2>5
<1>7. CASE RouteIntent(w)
  <2>1. PICK ok \in BOOLEAN :
          /\ Calls(ok)
          /\ Continue(w, "set_intent", [req[w] EXCEPT !.intent =
               IF ok /\ vpn_context.state # "VPN_START" THEN "VPN_ISSUE"
               ELSE Classify(Said(w), @)])
    BY <1>7 DEF RouteIntent
  <2> DEFINE i == IF ok /\ vpn_context.state # "VPN_START" THEN "VPN_ISSUE"
                  ELSE Classify(Said(w), req[w].intent)
             r == [req[w] EXCEPT !.intent = i]
  <2>2. i \in Intents
    <3>1. Classify(Said(w), req[w].intent) \in Intents
      BY RecordType, ClassifyType
    <3> QED BY <3>1 DEF Intents
  <2>3. ok /\ vpn_context.state # "VPN_START" => i = "VPN_ISSUE"
    OBVIOUS
  <2>4. Continue(w, "set_intent", r)
    BY <2>1
  <2> HIDE DEF i
  <2>5. r \in HandlerRecord /\ r.summary = req[w].summary /\ r.reply = req[w].reply
        /\ r.intent = i
    BY <1>1, <2>2 DEF HandlerRecord
  <2>6. req[w].pc = "route"
    BY <1>7 DEF RouteIntent, At
  <2> HIDE DEF r
  <2> QED BY <1>4, <2>1, <2>3, <2>4, <2>5, <2>6
<1> QED BY <1>5, <1>6, <1>7

\* The flow: what it hands off is a report, and of the context that is stored.
LEMMA FlowStepSerial ==
  ASSUME TypeInv, SerialInv, NEW w \in Workers, RunVpnFlow(w) PROVE SerialInv'
<1> USE DEF Steps, Replies
<1> DEFINE m       == Said(w).vpn
           next    == HandleVpnMessage(vpn_context, m)
           handoff == WantsHandoff(vpn_context, m)
           summary == IF handoff THEN next ELSE NoSummary
           reply   == IF handoff THEN "handoff" ELSE "answer"
           step    == IF handoff /\ req[w].tenant = None THEN "stash" ELSE "save"
           r == [req[w] EXCEPT !.post = NoRequest.post, !.ctx = next,
                               !.summary = summary, !.reply = reply]
<1>1. /\ SerialAt(w) /\ HandlersOK /\ faults \in Nat /\ req[w] \in HandlerRecord
      /\ vpn_context \in VpnContext /\ m \in VpnMessage
  BY WorkerKnows, RecordType DEF TypeInv, TypeOK, SessionOK
<1>2. /\ Busy(w) /\ req[w].pc = "flow"
      /\ UNCHANGED <<last_intent, vpn_context, pending_handoff, usage, earlier, told>>
  BY DEF RunVpnFlow, session, history, At, Busy
<1>3. UNCHANGED <<Pending, Locked>>
  BY <1>2 DEF Pending, Locked
<1>4. PICK ok \in BOOLEAN :
        Calls(ok) /\ IF ~ok THEN Respond(w, "error") ELSE Continue(w, step, r)
  BY DEF RunVpnFlow
<1>5. next \in VpnContext /\ (handoff <=> next.state = "VPN_HANDOFF")
  BY <1>1, FlowType DEF WantsHandoff
<1>6. Sound(vpn_context) => Sound(next)
  BY <1>1, FlowKeepsSound
<1>7. Sound(vpn_context) /\ ~Locked /\ handoff =>
        /\ vpn_context.state = "VPN_CHECK_RESULT"
        /\ next = [vpn_context EXCEPT !.state = "VPN_HANDOFF"]
  BY <1>1, <1>5, HandsOffChecked DEF Locked
<1>8. \E x \in VpnMessage : next = HandleVpnMessage(vpn_context, x)
  BY <1>1
<1> HIDE DEF m, next, handoff
<1>9. CASE ~ok
  BY <1>2, <1>4, <1>9, PlainAnswerKeeps
<1>10. CASE ok
  <2>1. summary \in VpnContext /\ reply \in Replies /\ step \in Steps
    BY <1>5, NewContextType
  <2> HIDE DEF summary, reply, step
  <2>2. r \in HandlerRecord /\ r.ctx = next /\ r.summary = summary /\ r.reply = reply
        /\ r.intent = req[w].intent
    BY <1>1, <1>5, <2>1, NoRequestType DEF HandlerRecord
  <2> HIDE DEF r
  <2>3. /\ \A v \in Workers \ {w} : req'[v] = req[v]
        /\ req'[w].pc = step /\ req'[w].ctx = next /\ req'[w].summary = summary
        /\ req'[w].reply = reply /\ req'[w].intent = req[w].intent
    BY <1>1, <1>4, <1>10, <2>1, <2>2, Continued
  <2>4. ASSUME faults' <= 1 PROVE RequestReported(req[w])'
    <3>1. Sound(vpn_context) /\ last_intent = "VPN_ISSUE" /\ req[w].intent = "VPN_ISSUE"
      BY <1>1, <1>2, <1>4, <2>4, CallsFacts DEF SerialAt, OneFaultAt, RequestReported, Deciding
    <3>2. Sound(next) /\ (handoff => Reported(next))
      BY <1>5, <1>6, <3>1 DEF Reported
    <3> QED BY <1>2, <2>3, <3>1, <3>2
            DEF RequestReported, Deciding, Answering, AfterFlow, summary, reply, step
  <2>5. ASSUME faults' = 0 PROVE RequestCalm(req[w])'
    <3>1. Sound(vpn_context) /\ ~Locked /\ ~Pending
      BY <1>1, <1>2, <1>4, <2>5, CallsFacts
         DEF SerialAt, OneFaultAt, RequestReported, CalmAt, RequestCalm, Deciding
    <3> QED BY <1>2, <1>3, <1>5, <1>7, <1>8, <2>3, <3>1
            DEF RequestCalm, Deciding, reply, step
  <2> QED BY <1>2, <1>4, <2>3, <2>4, <2>5, UnmovedKeeps DEF Unmoved
<1> QED BY <1>9, <1>10

-----------------------------------------------------------------------------
(* The calls that write the session or the log.                            *)

\* A writing step of w.
Moved(w, ok) ==
  /\ ok \in BOOLEAN /\ Calls(ok)
  /\ \A v \in Workers \ {w} : req'[v] = req[v]
  /\ SerialAt(w)'
LEMMA MovedKeeps ==
  ASSUME TypeInv, SerialInv, NEW w \in Workers, Busy(w), NEW ok, Moved(w, ok)
  PROVE  SerialInv'
<1>1. faults' <= MaxFaults
  BY WorkerKnows, CallsFacts DEF Moved
<1> QED BY <1>1, WorkerKnows, OnlyOneActs DEF Moved

\* The lock: without a failure it is that of the context the summary reports.
LEMMA LockStepSerial ==
  ASSUME TypeInv, SerialInv, NEW w \in Workers, LockSession(w) PROVE SerialInv'
<1> USE DEF Steps, Replies
<1> DEFINE h == [req[w].ctx EXCEPT !.state = "VPN_HANDOFF"]
           r == [req[w] EXCEPT !.ctx = NewContext]
<1>1. /\ SerialAt(w) /\ HandlersOK /\ faults \in Nat /\ req[w] \in HandlerRecord
      /\ vpn_context \in VpnContext /\ req[w].ctx \in VpnContext
      /\ pending_handoff \in VpnContext
  BY WorkerKnows, RecordType DEF TypeInv, TypeOK, SessionOK
<1>2. /\ Busy(w) /\ req[w].pc = "lock" /\ Continue(w, "clear_pending", r)
      /\ UNCHANGED <<last_intent, pending_handoff, usage, earlier, told, Pending>>
  BY DEF LockSession, history, At, Busy, Pending
<1>3. PICK ok \in BOOLEAN : Calls(ok) /\ vpn_context' = IF ok THEN h ELSE vpn_context
  BY DEF LockSession
<1>4. h.state = "VPN_HANDOFF" /\ [h EXCEPT !.state = "VPN_HANDOFF"] = h
  BY <1>1 DEF VpnContext
<1>5. r \in HandlerRecord /\ r.summary = req[w].summary /\ r.reply = req[w].reply
  BY <1>1, NewContextType DEF HandlerRecord
<1> HIDE DEF r
<1>6. /\ \A v \in Workers \ {w} : req'[v] = req[v]
      /\ req'[w].pc = "clear_pending"
      /\ req'[w].summary = req[w].summary /\ req'[w].reply = req[w].reply
  BY <1>1, <1>2, <1>5, Continued
<1>7. faults = 0 => Pending /\ req[w].ctx = vpn_context
                    /\ pending_handoff = h /\ Sound(h) /\ Sound(vpn_context)
  <2> SUFFICES ASSUME faults = 0 PROVE Pending /\ req[w].ctx = vpn_context
                    /\ pending_handoff = h /\ Sound(h) /\ Sound(vpn_context)
    OBVIOUS
  <2>1. CalmAt(w) /\ OneFaultAt(w)
    BY <1>1 DEF SerialAt
  <2>2. Pending /\ req[w].ctx = vpn_context
    BY <1>2, <2>1 DEF CalmAt, RequestCalm
  <2>3. pending_handoff = h /\ Sound(h)
    BY <2>1, <2>2 DEF CalmAt, OneFaultAt, WaitingStored, WaitingReported, Reported
  <2> QED BY <2>1, <2>2, <2>3 DEF OneFaultAt, StoredSound
<1> HIDE DEF h
<1>8. ASSUME faults' <= 1 PROVE OneFaultAt(w)'
  <2>1. OneFaultAt(w) /\ (~ok => faults = 0 /\ faults' = 1) /\ (ok => faults' = faults)
        /\ faults \in {0, 1}
    BY <1>1, <1>3, <1>8, CallsFacts DEF SerialAt
  <2>2. WaitingReported' /\ BilledAsVpn'
    BY <1>2, <2>1 DEF OneFaultAt, WaitingReported, BilledAsVpn
  <2>3. StoredSound'
    BY <1>3, <1>4, <1>7, <2>1 DEF StoredSound, Locked
  <2>4. RequestReported(req[w])'
    BY <1>2, <1>6, <2>1 DEF OneFaultAt, RequestReported, Deciding, Answering, AfterFlow
  <2> QED BY <2>2, <2>3, <2>4 DEF OneFaultAt
<1>9. ASSUME faults' = 0 PROVE CalmAt(w)'
  <2>1. CalmAt(w) /\ ok /\ faults = 0
    BY <1>1, <1>3, <1>9, CallsFacts DEF SerialAt
  <2>2. vpn_context' = h /\ pending_handoff' = h /\ Pending' /\ Pending
    BY <1>2, <1>3, <1>7, <2>1
  <2>3. WaitingStored' /\ ToldMeansClosed' /\ Locked'
    BY <1>4, <2>2 DEF WaitingStored, ToldMeansClosed, Locked
  <2>4. BilledOnce'
    BY <1>2, <2>1, <2>2 DEF CalmAt, BilledOnce
  <2>5. RequestCalm(req[w])'
    BY <1>6, <2>2, <2>3 DEF RequestCalm, Deciding
  <2> QED BY <2>3, <2>4, <2>5 DEF CalmAt
<1> QED BY <1>2, <1>3, <1>6, <1>8, <1>9, MovedKeeps DEF Moved, SerialAt

\* The summary goes; the session is locked and its row unwritten.
LEMMA ClearStepSerial ==
  ASSUME TypeInv, SerialInv, NEW w \in Workers, ClearPendingHandoff(w) PROVE SerialInv'
<1> USE DEF Steps
<1>1. SerialAt(w) /\ HandlersOK /\ faults \in Nat
  BY WorkerKnows
<1>2. /\ Busy(w) /\ req[w].pc = "clear_pending" /\ Goto(w, "say_closed")
      /\ UNCHANGED <<last_intent, vpn_context, usage, earlier, told, Locked>>
  BY DEF ClearPendingHandoff, history, At, Busy, Locked
<1>3. PICK ok \in BOOLEAN :
        Calls(ok) /\ pending_handoff' = IF ok THEN NoSummary ELSE pending_handoff
  BY DEF ClearPendingHandoff
<1>4. /\ \A v \in Workers \ {w} : req'[v] = req[v]
      /\ req'[w].pc = "say_closed"
      /\ req'[w].summary = req[w].summary /\ req'[w].reply = req[w].reply
  BY <1>1, <1>2, WentOn
<1>5. ASSUME faults' <= 1 PROVE OneFaultAt(w)'
  <2>1. OneFaultAt(w) /\ (faults = 1 => faults' = 1)
    BY <1>1, <1>3, <1>5, CallsFacts DEF SerialAt
  <2>2. WaitingReported' /\ StoredSound' /\ BilledAsVpn'
    BY <1>2, <1>3, <2>1
       DEF OneFaultAt, WaitingReported, StoredSound, BilledAsVpn, Pending
  <2>3. RequestReported(req[w])'
    BY <1>2, <1>4, <2>1 DEF OneFaultAt, RequestReported, Deciding, Answering, AfterFlow
  <2> QED BY <2>2, <2>3 DEF OneFaultAt
<1>6. ASSUME faults' = 0 PROVE CalmAt(w)'
  <2>1. CalmAt(w) /\ ok
    BY <1>1, <1>3, <1>6, CallsFacts DEF SerialAt
  <2>2. Pending /\ Locked /\ Locked' /\ ~Pending'
    BY <1>2, <1>3, <2>1 DEF CalmAt, RequestCalm, Pending
  <2>3. Len(usage) = earlier /\ Len(usage') = earlier'
    BY <1>2, <2>1, <2>2 DEF CalmAt, BilledOnce
  <2>4. WaitingStored' /\ ToldMeansClosed' /\ BilledOnce'
    BY <2>2, <2>3 DEF WaitingStored, ToldMeansClosed, BilledOnce
  <2>5. RequestCalm(req[w])'
    BY <1>4, <2>2, <2>3 DEF RequestCalm, Deciding
  <2> QED BY <2>4, <2>5 DEF CalmAt
<1> QED BY <1>2, <1>3, <1>4, <1>5, <1>6, MovedKeeps DEF Moved, SerialAt

\* The intent is stored: while a summary waits it is VPN_ISSUE.
LEMMA IntentStepSerial ==
  ASSUME TypeInv, SerialInv, NEW w \in Workers, SetLastIntent(w) PROVE SerialInv'
<1> USE DEF Steps, Replies
<1> DEFINE r == [req[w] EXCEPT !.reply = "answer"]
<1>1. SerialAt(w) /\ HandlersOK /\ faults \in Nat /\ req[w] \in HandlerRecord
  BY WorkerKnows, RecordType
<1>2. /\ Busy(w) /\ req[w].pc = "set_intent"
      /\ UNCHANGED <<vpn_context, pending_handoff, usage, earlier, told, Pending, Locked>>
  BY DEF SetLastIntent, history, At, Busy, Pending, Locked
<1>3. PICK ok \in BOOLEAN, wrote \in BOOLEAN :
        /\ Calls(ok) /\ (ok => wrote) /\ last_intent' = IF wrote THEN req[w].intent ELSE last_intent
        /\ IF ~ok THEN Respond(w, "error")
           ELSE IF req[w].intent = "VPN_ISSUE" THEN Goto(w, "flow")
           ELSE Continue(w, "say", r)
  BY DEF SetLastIntent, Writes
<1>4. r \in HandlerRecord /\ r.summary = req[w].summary /\ r.reply = "answer"
  BY <1>1 DEF HandlerRecord
<1> HIDE DEF r
<1>5. /\ \A v \in Workers \ {w} : req'[v] = req[v]
      /\ \/ req'[w].pc = "reply" /\ req'[w].reply = "error"
         \/ /\ req'[w].pc = "flow" /\ req'[w].intent = "VPN_ISSUE" /\ ok
            /\ req[w].intent = "VPN_ISSUE"
            /\ req'[w].summary = req[w].summary /\ req'[w].reply = req[w].reply
         \/ req'[w].pc = "say" /\ req'[w].reply = "answer"
  <2>1. CASE ~ok
    BY <1>1, <1>3, <2>1, Responded
  <2>2. CASE ok /\ req[w].intent = "VPN_ISSUE"
    BY <1>1, <1>3, <2>2, WentOn
  <2>3. CASE ok /\ req[w].intent # "VPN_ISSUE"
    BY <1>1, <1>3, <1>4, <2>3, Continued
  <2> QED BY <2>1, <2>2, <2>3
<1>6. ASSUME faults' <= 1 PROVE OneFaultAt(w)'
  <2>1. OneFaultAt(w) /\ (faults = 1 => faults' = 1)
    BY <1>1, <1>3, <1>6, CallsFacts DEF SerialAt
  <2>2. WaitingReported'
    BY <1>2, <1>3, <2>1 DEF OneFaultAt, RequestReported, WaitingReported
  <2>3. StoredSound' /\ BilledAsVpn'
    BY <1>2, <2>1 DEF OneFaultAt, StoredSound, BilledAsVpn
  <2>4. RequestReported(req[w])'
    BY <1>2, <1>3, <1>5, <2>1 DEF OneFaultAt, RequestReported, Deciding, Answering, AfterFlow
  <2> QED BY <2>2, <2>3, <2>4 DEF OneFaultAt
<1>7. ASSUME faults' = 0 PROVE CalmAt(w)'
  <2>1. CalmAt(w)
    BY <1>1, <1>3, <1>7, CallsFacts DEF SerialAt
  <2>2. WaitingStored' /\ ToldMeansClosed' /\ BilledOnce'
    BY <1>2, <2>1, <1>7, <1>1, <1>3, CallsFacts
       DEF CalmAt, WaitingStored, ToldMeansClosed, BilledOnce
  <2>3. RequestCalm(req[w])'
    BY <1>2, <1>5, <2>1 DEF CalmAt, RequestCalm, Deciding
  <2> QED BY <2>2, <2>3 DEF CalmAt
<1> QED BY <1>2, <1>3, <1>5, <1>6, <1>7, MovedKeeps DEF Moved, SerialAt

\* The summary is stored: a report, and of the context that is stored.
LEMMA StashStepSerial ==
  ASSUME TypeInv, SerialInv, NEW w \in Workers, StashSummary(w) PROVE SerialInv'
<1> USE DEF Steps, Replies
<1> DEFINE r == [req[w] EXCEPT !.summary = NoSummary, !.reply = "ask_company"]
<1>1. SerialAt(w) /\ HandlersOK /\ faults \in Nat /\ req[w] \in HandlerRecord
  BY WorkerKnows, RecordType
<1>2. /\ Busy(w) /\ req[w].pc = "stash" /\ Continue(w, "roll_back", r)
      /\ UNCHANGED <<last_intent, vpn_context, usage, earlier, told, Locked>>
  BY DEF StashSummary, history, At, Busy, Locked
<1>3. PICK ok \in BOOLEAN :
        Calls(ok) /\ pending_handoff' = IF ok THEN req[w].summary ELSE pending_handoff
  BY DEF StashSummary
<1>4. r \in HandlerRecord /\ r.ctx = req[w].ctx /\ r.reply = "ask_company"
      /\ r.intent = req[w].intent
  BY <1>1, NewContextType DEF HandlerRecord
<1> HIDE DEF r
<1>5. /\ \A v \in Workers \ {w} : req'[v] = req[v]
      /\ req'[w].pc = "roll_back" /\ req'[w].ctx = req[w].ctx
      /\ req'[w].reply = "ask_company" /\ req'[w].intent = req[w].intent
  BY <1>1, <1>2, <1>4, Continued
<1>6. ASSUME faults' <= 1 PROVE OneFaultAt(w)'
  <2>1. OneFaultAt(w) /\ (faults = 1 => faults' = 1)
    BY <1>1, <1>3, <1>6, CallsFacts DEF SerialAt
  <2>2. Reported(req[w].ctx) /\ req[w].summary = req[w].ctx /\ last_intent = "VPN_ISSUE"
        /\ req[w].intent = "VPN_ISSUE"
    BY <1>2, <2>1 DEF OneFaultAt, RequestReported, AfterFlow
  <2>3. WaitingReported'
    BY <1>2, <1>3, <2>1, <2>2 DEF OneFaultAt, WaitingReported, Pending
  <2>4. StoredSound' /\ BilledAsVpn'
    BY <1>2, <2>1 DEF OneFaultAt, StoredSound, BilledAsVpn
  <2>5. RequestReported(req[w])'
    BY <1>5, <2>2 DEF RequestReported, Deciding, Answering, AfterFlow
  <2> QED BY <2>3, <2>4, <2>5 DEF OneFaultAt
<1>7. ASSUME faults' = 0 PROVE CalmAt(w)'
  <2>1. CalmAt(w) /\ OneFaultAt(w) /\ ok /\ faults = 0
    BY <1>1, <1>3, <1>7, CallsFacts DEF SerialAt
  <2>2. /\ vpn_context.state = "VPN_CHECK_RESULT" /\ ~Locked
        /\ req[w].ctx = [vpn_context EXCEPT !.state = "VPN_HANDOFF"]
        /\ req[w].summary = req[w].ctx
    BY <1>2, <2>1 DEF CalmAt, OneFaultAt, RequestCalm, RequestReported
  <2>3. WaitingStored'
    BY <1>2, <1>3, <2>1, <2>2 DEF WaitingStored
  <2>4. ToldMeansClosed' /\ BilledOnce'
    BY <1>2, <2>1, <2>2 DEF CalmAt, ToldMeansClosed, BilledOnce
  <2>5. RequestCalm(req[w])'
    BY <1>2, <1>5, <2>2 DEF RequestCalm, Deciding
  <2> QED BY <2>3, <2>4, <2>5 DEF CalmAt
<1> QED BY <1>2, <1>3, <1>5, <1>6, <1>7, MovedKeeps DEF Moved, SerialAt

\* The roll-back stores the context that was stored, when no call has failed.
LEMMA RollBackSerial ==
  ASSUME TypeInv, SerialInv, NEW w \in Workers, RollBack(w) PROVE SerialInv'
<1> USE DEF Steps, Replies
<1> DEFINE b == [req[w].ctx EXCEPT !.state = "VPN_CHECK_RESULT"]
           r == [req[w] EXCEPT !.ctx = NewContext]
<1>1. /\ SerialAt(w) /\ HandlersOK /\ faults \in Nat /\ req[w] \in HandlerRecord
      /\ vpn_context \in VpnContext
  BY WorkerKnows, RecordType DEF TypeInv, TypeOK, SessionOK
<1>2. /\ Busy(w) /\ req[w].pc = "roll_back"
      /\ UNCHANGED <<last_intent, pending_handoff, usage, earlier, told, Pending>>
  BY DEF RollBack, history, At, Busy, Pending
<1>3. PICK ok \in BOOLEAN, wrote \in BOOLEAN :
        /\ Calls(ok) /\ vpn_context' = IF wrote THEN b ELSE vpn_context
        /\ IF ok THEN Continue(w, "say", r) ELSE Respond(w, "error")
  BY DEF RollBack, Writes
<1>4. r \in HandlerRecord /\ r.summary = req[w].summary /\ r.reply = req[w].reply
  BY <1>1, NewContextType DEF HandlerRecord
<1> HIDE DEF r
<1>5. /\ \A v \in Workers \ {w} : req'[v] = req[v]
      /\ \/ req'[w].pc = "reply" /\ req'[w].reply = "error"
         \/ req'[w].pc = "say" /\ req'[w].summary = req[w].summary
                               /\ req'[w].reply = req[w].reply
  BY <1>1, <1>3, <1>4, Continued, Responded
<1>6. ASSUME faults' <= 1 PROVE OneFaultAt(w)'
  <2>1. OneFaultAt(w) /\ (faults = 1 => faults' = 1)
    BY <1>1, <1>3, <1>6, CallsFacts DEF SerialAt
  <2>2. Sound(b)
    <3>1. Reported(req[w].ctx)
      BY <1>2, <2>1 DEF OneFaultAt, RequestReported
    <3>2. req[w].ctx.attempt_count = 2
      BY <3>1 DEF Reported, Sound, Rounds, Complete
    <3> QED BY <3>1, <3>2, HandedOff DEF Reported
  <2> HIDE DEF b
  <2>3. StoredSound'
    BY <1>3, <2>1, <2>2 DEF OneFaultAt, StoredSound, Locked
  <2>4. WaitingReported' /\ BilledAsVpn'
    BY <1>2, <2>1 DEF OneFaultAt, WaitingReported, BilledAsVpn
  <2>5. RequestReported(req[w])'
    BY <1>2, <1>5, <2>1 DEF OneFaultAt, RequestReported, Deciding, Answering, AfterFlow
  <2> QED BY <2>3, <2>4, <2>5 DEF OneFaultAt
<1>7. ASSUME faults' = 0 PROVE CalmAt(w)'
  <2>1. CalmAt(w) /\ ok /\ faults = 0
    BY <1>1, <1>3, <1>7, CallsFacts DEF SerialAt
  <2>2. b = vpn_context
    <3>1. /\ vpn_context.state = "VPN_CHECK_RESULT"
          /\ req[w].ctx = [vpn_context EXCEPT !.state = "VPN_HANDOFF"]
      BY <1>2, <2>1 DEF CalmAt, RequestCalm
    <3> QED BY <1>1, <3>1 DEF VpnContext
  <2> HIDE DEF b
  <2>3. UNCHANGED <<vpn_context, Locked>>
    BY <1>3, <2>2 DEF Locked
  <2>4. WaitingStored' /\ ToldMeansClosed' /\ BilledOnce'
    BY <1>2, <2>1, <2>3 DEF CalmAt, WaitingStored, ToldMeansClosed, BilledOnce
  <2>5. RequestCalm(req[w])'
    BY <1>2, <1>5, <2>1 DEF CalmAt, RequestCalm, Deciding
  <2> QED BY <2>4, <2>5 DEF CalmAt
<1> QED BY <1>2, <1>3, <1>5, <1>6, <1>7, MovedKeeps DEF Moved, SerialAt

\* The context of the flow is stored.
LEMMA SaveStepSerial ==
  ASSUME TypeInv, SerialInv, NEW w \in Workers, SaveContext(w) PROVE SerialInv'
<1> USE DEF Steps, Replies
<1> DEFINE r    == [req[w] EXCEPT !.ctx = NewContext]
           step == IF req[w].reply = "handoff" THEN "bill" ELSE "say"
<1>1. SerialAt(w) /\ HandlersOK /\ faults \in Nat /\ req[w] \in HandlerRecord
  BY WorkerKnows, RecordType
<1>2. /\ Busy(w) /\ req[w].pc = "save"
      /\ UNCHANGED <<last_intent, pending_handoff, usage, earlier, told, Pending>>
  BY DEF SaveContext, history, At, Busy, Pending
<1>3. PICK ok \in BOOLEAN, wrote \in BOOLEAN :
        /\ Calls(ok) /\ (ok => wrote) /\ vpn_context' = IF wrote THEN req[w].ctx ELSE vpn_context
        /\ IF ok THEN Continue(w, step, r) ELSE Respond(w, "error")
  BY DEF SaveContext, Writes
<1>4. r \in HandlerRecord /\ r.summary = req[w].summary /\ r.reply = req[w].reply
      /\ r.intent = req[w].intent
  BY <1>1, NewContextType DEF HandlerRecord
<1> HIDE DEF r
<1>5. /\ \A v \in Workers \ {w} : req'[v] = req[v]
      /\ \/ req'[w].pc = "reply" /\ req'[w].reply = "error"
         \/ /\ req'[w].pc = step /\ req'[w].intent = req[w].intent
            /\ req'[w].summary = req[w].summary /\ req'[w].reply = req[w].reply
  BY <1>1, <1>3, <1>4, Continued, Responded
<1>6. ASSUME faults' <= 1 PROVE OneFaultAt(w)'
  <2>1. OneFaultAt(w) /\ (faults = 1 => faults' = 1)
    BY <1>1, <1>3, <1>6, CallsFacts DEF SerialAt
  <2>2. StoredSound'
    BY <1>2, <1>3, <2>1 DEF OneFaultAt, RequestReported, StoredSound, Locked
  <2>3. WaitingReported' /\ BilledAsVpn'
    BY <1>2, <2>1 DEF OneFaultAt, WaitingReported, BilledAsVpn
  <2>4. RequestReported(req[w])'
    BY <1>2, <1>5, <2>1 DEF OneFaultAt, RequestReported, Deciding, Answering, AfterFlow
  <2> QED BY <2>2, <2>3, <2>4 DEF OneFaultAt
<1>7. ASSUME faults' = 0 PROVE CalmAt(w)'
  <2>1. CalmAt(w) /\ ok /\ wrote /\ faults = 0
    BY <1>1, <1>3, <1>7, CallsFacts DEF SerialAt
  <2>2. /\ ~Pending /\ ~Locked /\ req[w].reply \in {"answer", "handoff"}
        /\ req[w].reply = "handoff" => Locked'
    BY <1>2, <1>3, <2>1 DEF CalmAt, RequestCalm, Locked
  <2>3. ~Pending' /\ ~told' /\ Len(usage') = earlier'
    BY <1>2, <2>1, <2>2 DEF CalmAt, ToldMeansClosed, BilledOnce
  <2>4. WaitingStored' /\ ToldMeansClosed' /\ BilledOnce'
    BY <2>3 DEF WaitingStored, ToldMeansClosed, BilledOnce
  <2>5. RequestCalm(req[w])'
    BY <1>5, <2>2, <2>3 DEF RequestCalm, Deciding
  <2> QED BY <2>4, <2>5 DEF CalmAt
<1> QED BY <1>2, <1>3, <1>5, <1>6, <1>7, MovedKeeps DEF Moved, SerialAt

\* One more VPN row.
LEMMA AppendVpn ==
  ASSUME usage \in Seq(Row), BilledAsVpn, NEW row \in Row, row.intent = "VPN_ISSUE",
         usage' = Append(usage, row)
  PROVE  BilledAsVpn' /\ Len(usage') = Len(usage) + 1
<1>1. \A i \in DOMAIN usage' : usage'[i].intent = "VPN_ISSUE"
  BY DEF BilledAsVpn
<1> QED BY <1>1 DEF BilledAsVpn

\* The row of a session that is closed and has none.
LEMMA BillStepSerial ==
  ASSUME TypeInv, SerialInv, NEW w \in Workers, BillPending(w) \/ Bill(w) PROVE SerialInv'
<1> USE DEF Steps
<1> DEFINE i   == IF At(w, "bill") THEN req[w].intent
                  ELSE FirstGiven(last_intent, "VPN_ISSUE", None)
           row == [tenant |-> req[w].tenant, intent |-> i]
           step == IF At(w, "bill") THEN "say" ELSE "close"
<1>1. /\ SerialAt(w) /\ HandlersOK /\ faults \in Nat /\ req[w] \in HandlerRecord
      /\ usage \in Seq(Row) /\ last_intent \in Intents \cup {None} /\ earlier \in Nat
  BY WorkerKnows, RecordType DEF TypeInv, TypeOK, SessionOK, CountersOK
<1>2. /\ Busy(w) /\ req[w].pc \in {"bill_pending", "bill"} /\ Goto(w, step)
      /\ UNCHANGED <<last_intent, vpn_context, pending_handoff, earlier, told, Pending, Locked>>
  BY DEF BillPending, Bill, session, history, At, Busy, Pending, Locked
<1>3. PICK ok \in BOOLEAN : Calls(ok) /\ usage' = IF ok THEN Append(usage, row) ELSE usage
  BY DEF BillPending, Bill, At
<1>4. /\ \A v \in Workers \ {w} : req'[v] = req[v]
      /\ req'[w].pc = IF req[w].pc = "bill" THEN "say" ELSE "close"
      /\ req'[w].summary = req[w].summary /\ req'[w].reply = req[w].reply
  BY <1>1, <1>2, WentOn DEF At
<1>5. req[w].tenant \in Tenants
  BY <1>1, <1>2 DEF HandlersOK, HandlerRecord
<1>6. ASSUME faults <= 1 PROVE row \in Row /\ row.intent = "VPN_ISSUE"
  <2>1. i = "VPN_ISSUE"
    BY <1>1, <1>2, <1>6, TenantsAssumption
       DEF SerialAt, OneFaultAt, RequestReported, Answering, AfterFlow, FirstGiven, At, Intents
  <2> QED BY <1>5, <2>1 DEF Row, Intents
<1> HIDE DEF row
<1>7. ASSUME faults' <= 1 PROVE OneFaultAt(w)'
  <2>1. OneFaultAt(w) /\ (faults = 1 => faults' = 1) /\ faults <= 1
    BY <1>1, <1>3, <1>7, CallsFacts DEF SerialAt
  <2>2. BilledAsVpn'
    <3>1. CASE ok
      BY <1>1, <1>3, <1>6, <2>1, <3>1, AppendVpn DEF OneFaultAt
    <3>2. CASE ~ok
      BY <1>3, <2>1, <3>2 DEF OneFaultAt, BilledAsVpn
    <3> QED BY <3>1, <3>2
  <2>3. WaitingReported' /\ StoredSound'
    BY <1>2, <2>1 DEF OneFaultAt, WaitingReported, StoredSound
  <2>4. RequestReported(req[w])'
    BY <1>2, <1>4, <2>1 DEF OneFaultAt, RequestReported, Deciding, Answering, AfterFlow
  <2> QED BY <2>2, <2>3, <2>4 DEF OneFaultAt
<1>8. ASSUME faults' = 0 PROVE CalmAt(w)'
  <2>1. CalmAt(w) /\ OneFaultAt(w) /\ ok /\ faults = 0
    BY <1>1, <1>3, <1>8, CallsFacts DEF SerialAt
  <2>2. Locked /\ ~Pending /\ Len(usage) = earlier
    BY <1>2, <2>1 DEF CalmAt, RequestCalm
  <2>3. Len(usage') = Len(usage) + 1
    BY <1>1, <1>3, <1>6, <2>1, AppendVpn DEF OneFaultAt
  <2>4. WaitingStored' /\ ToldMeansClosed' /\ BilledOnce'
    BY <1>2, <2>2, <2>3 DEF WaitingStored, ToldMeansClosed, BilledOnce
  <2>5. RequestCalm(req[w])'
    BY <1>2, <1>4, <2>2 DEF RequestCalm, Deciding
  <2> QED BY <2>4, <2>5 DEF CalmAt
<1> QED BY <1>2, <1>3, <1>4, <1>7, <1>8, MovedKeeps DEF Moved, SerialAt

\* The answer leaves, and what it promises holds.
LEMMA ReplySerial ==
  ASSUME TypeInv, SerialInv, NEW w \in Workers, Reply(w) PROVE SerialInv'
<1>1. SerialAt(w) /\ HandlersOK /\ faults <= MaxFaults /\ \A v \in Workers \ {w} : ~Busy(v)
  BY WorkerKnows DEF Reply, At, Busy
<1>2. /\ \A v \in Workers \ {w} : req'[v] = req[v]
      /\ req'[w].pc = "idle" /\ req'[w].reply = "none"
      /\ req[w].pc = "reply" /\ told' = (told \/ req[w].reply \in {"handoff", "closed"})
  BY <1>1, NoRequestType DEF Reply, HandlersOK, At
<1>3. UNCHANGED <<last_intent, vpn_context, pending_handoff, usage, faults, earlier, Pending, Locked>>
  BY DEF Reply, session, Pending, Locked
<1>4. RequestReported(req[w])' /\ RequestCalm(req[w])'
  BY <1>2 DEF RequestReported, RequestCalm, Deciding, Answering, AfterFlow
<1>5. ASSUME OneFaultAt(w) PROVE OneFaultAt(w)'
  BY <1>3, <1>4, <1>5 DEF OneFaultAt, WaitingReported, StoredSound, BilledAsVpn
<1>6. ASSUME CalmAt(w) PROVE CalmAt(w)'
  <2>1. ToldMeansClosed'
    BY <1>2, <1>3, <1>6 DEF CalmAt, RequestCalm, ToldMeansClosed
  <2> QED BY <1>3, <1>4, <1>6, <2>1 DEF CalmAt, WaitingStored, BilledOnce
<1>7. SerialAt(w)'
  BY <1>1, <1>3, <1>5, <1>6 DEF SerialAt
<1> QED BY <1>1, <1>2, <1>3, <1>7, OnlyOneActs

-----------------------------------------------------------------------------
(* The environment.                                                        *)

\* A request begins when no other is served.
LEMMA PostSerial ==
  ASSUME ~Overlap, TypeInv, SerialInv, NEW w \in Workers, PostChat(w) PROVE SerialInv'
<1>1. SerialAt(w) /\ HandlersOK /\ faults <= MaxFaults /\ \A v \in Workers \ {w} : ~Busy(v)
  BY WorkerKnows DEF PostChat, Idle
<1>2. PICK p \in Requests : Continue(w, "open", [NoRequest EXCEPT !.post = p])
  BY DEF PostChat
<1> DEFINE r == [NoRequest EXCEPT !.post = p]
<1>3. r \in HandlerRecord /\ r.reply = "none"
  <2>1. p \in [header : Companies, body : Companies, message : Message]
    BY RequestsAssumption DEF Request
  <2> QED BY <2>1, NoRequestType DEF HandlerRecord
<1> HIDE DEF r
<1>4. /\ \A v \in Workers \ {w} : req'[v] = req[v]
      /\ req'[w].pc = "open" /\ req'[w].reply = "none"
  <2>1. "open" \in Steps
    BY DEF Steps
  <2> QED BY <1>1, <1>2, <1>3, <2>1, Continued DEF r
<1>5. /\ UNCHANGED <<last_intent, vpn_context, pending_handoff, usage, faults, earlier, told>>
      /\ UNCHANGED <<Pending, Locked>>
  BY DEF PostChat, session, Pending, Locked
<1>6. RequestReported(req[w])' /\ RequestCalm(req[w])'
  BY <1>4 DEF RequestReported, RequestCalm, Deciding, Answering, AfterFlow
<1>7. SerialAt(w)'
  BY <1>1, <1>5, <1>6 DEF SerialAt, OneFaultAt, CalmAt, WaitingReported, StoredSound, BilledAsVpn,
                          WaitingStored, ToldMeansClosed, BilledOnce
<1> QED BY <1>1, <1>4, <1>5, <1>7, OnlyOneActs

\* With nobody at work only the session and the log count.
LEMMA NobodyActs ==
  ASSUME Idle', faults' <= MaxFaults,
         faults' <= 1 => (WaitingReported /\ StoredSound /\ BilledAsVpn)',
         faults' = 0 => (WaitingStored /\ ToldMeansClosed /\ BilledOnce)'
  PROVE  SerialInv'
<1>1. \A w \in Workers : req'[w].pc = "idle"
  BY DEF Idle, Busy
<1>2. \A w \in Workers : RequestReported(req[w])' /\ RequestCalm(req[w])'
  BY <1>1 DEF RequestReported, RequestCalm, Deciding, Answering, AfterFlow
<1>3. Exclusive'
  BY <1>1 DEF Exclusive, Busy
<1> QED BY <1>2, <1>3 DEF SerialInv, OneFault, Calm

LEMMA RenewSerial ==
  ASSUME TypeInv, SerialInv, Idle, Renew PROVE SerialInv'
<1>1. Idle' /\ faults' = faults /\ faults <= MaxFaults
  BY DEF Renew, Idle, Busy, SerialInv
<1>2. /\ ~Pending' /\ ~told' /\ Sound(vpn_context)' /\ Len(usage') = earlier'
      /\ usage' = usage
  BY NewContextSound DEF Renew, Pending
<1>3. (WaitingReported /\ StoredSound /\ WaitingStored /\ ToldMeansClosed /\ BilledOnce)'
  BY <1>2 DEF WaitingReported, StoredSound, WaitingStored, ToldMeansClosed, BilledOnce
<1>4. faults' <= 1 => BilledAsVpn'
  BY <1>1, <1>2 DEF SerialInv, OneFault, BilledAsVpn
<1> QED BY <1>1, <1>3, <1>4, NobodyActs

LEMMA CrashSerial ==
  ASSUME SerialInv, Crash PROVE SerialInv'
<1>1. Idle' /\ faults' = faults /\ faults <= MaxFaults
  BY NoRequestType DEF Crash, Idle, Busy, SerialInv
<1>2. UNCHANGED <<last_intent, vpn_context, pending_handoff, usage, earlier, told, Pending, Locked>>
  BY DEF Crash, session, history, Pending, Locked
<1>3. faults' <= 1 => (WaitingReported /\ StoredSound /\ BilledAsVpn)'
  BY <1>1, <1>2 DEF SerialInv, OneFault, WaitingReported, StoredSound, BilledAsVpn
<1>4. faults' = 0 => (WaitingStored /\ ToldMeansClosed /\ BilledOnce)'
  BY <1>1, <1>2 DEF SerialInv, Calm, WaitingStored, ToldMeansClosed, BilledOnce
<1> QED BY <1>1, <1>3, <1>4, NobodyActs

LEMMA InitSerial == ASSUME Init PROVE SerialInv
<1>1. \A w \in Workers : req[w].pc = "idle"
  BY NoRequestType DEF Init
<1>2. Exclusive /\ \A w \in Workers : RequestReported(req[w]) /\ RequestCalm(req[w])
  BY <1>1 DEF Exclusive, Busy, RequestReported, RequestCalm, Deciding, Answering, AfterFlow
<1>3. ~Pending /\ ~told /\ Sound(vpn_context) /\ Len(usage) = earlier /\ usage = << >>
  BY NewContextSound DEF Init, Pending, NoSummary
<1>4. faults = 0 /\ faults <= MaxFaults
  BY ChatBounds DEF Init
<1> QED BY <1>2, <1>3, <1>4
        DEF SerialInv, OneFault, WaitingReported, StoredSound, BilledAsVpn,
            Calm, WaitingStored, ToldMeansClosed, BilledOnce

LEMMA HandlerSerial ==
  ASSUME TypeInv, SerialInv, NEW w \in Workers, Handler(w) PROVE SerialInv'
  BY MessageStepSerial, GateStepSerial, AnswerStepSerial, LockCheckSerial, RouteStepSerial,
     FlowStepSerial, LockStepSerial, ClearStepSerial, IntentStepSerial, StashStepSerial,
     RollBackSerial, SaveStepSerial, BillStepSerial, ReplySerial
     DEF Handler, PendingPath, NormalPath

LEMMA SerialStep == ASSUME ~Overlap, TypeInv, SerialInv, [Next]_vars PROVE SerialInv'
<1>1. ASSUME NEW w \in Workers, PostChat(w) \/ Handler(w) PROVE SerialInv'
  BY <1>1, PostSerial, HandlerSerial
<1>2. CASE DeleteSession \/ ExpireSession
  BY <1>2, RenewSerial DEF DeleteSession, ExpireSession
<1>3. CASE Crash
  BY <1>3, CrashSerial
<1>4. CASE UNCHANGED vars
  <2>1. UNCHANGED <<req, faults, last_intent, vpn_context, pending_handoff, usage, earlier, told,
                    Pending, Locked>>
    BY <1>4 DEF vars, session, history, Pending, Locked
  <2> QED BY <2>1
          DEF SerialInv, Exclusive, Busy, OneFault, WaitingReported, StoredSound, BilledAsVpn,
              RequestReported, Calm, WaitingStored, ToldMeansClosed, BilledOnce, RequestCalm
<1> QED BY <1>1, <1>2, <1>3, <1>4 DEF Next

LEMMA SerialInvHolds == ASSUME ~Overlap PROVE Spec => [](TypeInv /\ SerialInv)
<1>1. Init => SerialInv
  BY InitSerial
<1>2. TypeInv /\ SerialInv /\ [Next]_vars => SerialInv'
  BY SerialStep
<1> QED BY <1>1, <1>2, TypeInvHolds, PTL DEF Spec

-----------------------------------------------------------------------------
(* The theorems about a client that waits for its answers.                 *)

\* Until a call fails, what waits for its company is the report of the stored
\* context, wherever the backend restarts.
THEOREM ChatPendingMatchesContext == ASSUME ~Overlap PROVE Spec => []PendingMatchesContext
<1>1. TypeInv /\ SerialInv => PendingMatchesContext
  BY DEF SerialInv, Calm, WaitingStored, PendingMatchesContext
<1> QED BY <1>1, SerialInvHolds, PTL

\* ... and a session the client was told is closed is closed.
THEOREM ChatToldMeansClosed == ASSUME ~Overlap PROVE Spec => []ToldMeansClosed
<1>1. TypeInv /\ SerialInv => ToldMeansClosed
  BY DEF SerialInv, Calm, ToldMeansClosed
<1> QED BY <1>1, SerialInvHolds, PTL

\* Whichever one call fails, a report is that of two failed rounds.
THEOREM ChatReportsComplete ==
  ASSUME ~Overlap, MaxFaults <= 1 PROVE Spec => []ReportsComplete
<1>1. TypeInv /\ SerialInv => ReportsComplete
  <2> SUFFICES ASSUME TypeInv, SerialInv PROVE ReportsComplete
    OBVIOUS
  <2>1. OneFault
    BY ChatBounds DEF SerialInv, TypeInv, TypeOK, CountersOK
  <2>2. \A c : Reported(c) => Report(c)
    BY DEF Reported, Report, Sound, Rounds
  <2> QED BY <2>1, <2>2 DEF OneFault, WaitingReported, RequestReported, ReportsComplete, At
<1> QED BY <1>1, SerialInvHolds, PTL

\* ... and a row is that of a VPN case.
THEOREM ChatBilledAsVpn ==
  ASSUME ~Overlap, MaxFaults <= 1 PROVE Spec => []BilledAsVpn
<1>1. TypeInv /\ SerialInv => BilledAsVpn
  BY ChatBounds DEF SerialInv, OneFault, TypeInv, TypeOK, CountersOK
<1> QED BY <1>1, SerialInvHolds, PTL

-----------------------------------------------------------------------------
(* The ladder.                                                             *)

LEMMA RungIsRungOf == Rung = RungOf(vpn_context) /\ Rung' = RungOf(vpn_context')
  BY DEF Rung, RungOf, Locked

\* What a worker knows while no call has failed.
LEMMA CalmWorker ==
  ASSUME TypeInv, SerialInv, NEW w \in Workers, NEW ok \in BOOLEAN, Calls(ok), faults' = 0
  PROVE  /\ ok /\ WaitingReported /\ WaitingStored /\ RequestCalm(req[w]) /\ BilledOnce
         /\ Sound(vpn_context) /\ vpn_context \in VpnContext /\ usage \in Seq(Row)
         /\ earlier \in Nat
<1>1. ok /\ faults = 0
  BY WorkerKnows, CallsFacts
<1>2. OneFaultAt(w) /\ CalmAt(w)
  BY <1>1, WorkerKnows DEF SerialAt
<1>3. Sound(vpn_context)
  BY <1>1, <1>2 DEF OneFaultAt, StoredSound
<1> QED BY <1>1, <1>2, <1>3 DEF OneFaultAt, CalmAt, TypeInv, TypeOK, SessionOK, CountersOK

\* The lock climbs the last rung, or finds it climbed before a restart.
LEMMA LockClimbs ==
  ASSUME TypeInv, SerialInv, NEW w \in Workers, LockSession(w), faults' = 0
  PROVE  [Ladder!Next]_(Ladder!vars)
<1> DEFINE h == [vpn_context EXCEPT !.state = "VPN_HANDOFF"]
<1>1. PICK ok \in BOOLEAN :
        /\ Calls(ok)
        /\ vpn_context' = IF ok THEN [req[w].ctx EXCEPT !.state = "VPN_HANDOFF"] ELSE vpn_context
  BY DEF LockSession
<1>2. /\ Pending /\ req[w].ctx = vpn_context /\ ok
      /\ vpn_context \in VpnContext
  BY <1>1, CalmWorker DEF LockSession, At, RequestCalm
<1>3. pending_handoff = h /\ Reported(h)
  BY <1>1, <1>2, CalmWorker DEF WaitingStored, WaitingReported
<1>4. h.attempt_count = vpn_context.attempt_count /\ h.state = "VPN_HANDOFF"
  BY <1>2 DEF VpnContext
<1>5. vpn_context' = h
  BY <1>1, <1>2
<1> HIDE DEF h
<1>6. vpn_context.attempt_count = 2
  BY <1>3, <1>4 DEF Reported, Sound, Rounds, Complete
<1>7. Rung \in {"second_try", "closed"} /\ Rung' = "closed"
  BY <1>4, <1>5, <1>6, RungIsRungOf DEF RungOf
<1>8. UNCHANGED <<usage, earlier>>
  BY DEF LockSession, history
<1> QED BY <1>7, <1>8 DEF Ladder!Next, Ladder!Climb, Ladder!vars

LEMMA SaveClimbs ==
  ASSUME TypeInv, SerialInv, NEW w \in Workers, SaveContext(w), faults' = 0
  PROVE  [Ladder!Next]_(Ladder!vars)
<1>1. PICK ok \in BOOLEAN, wrote \in BOOLEAN :
        Calls(ok) /\ (ok => wrote) /\ vpn_context' = IF wrote THEN req[w].ctx ELSE vpn_context
  BY DEF SaveContext, Writes
<1>2. vpn_context' = req[w].ctx /\ RequestCalm(req[w]) /\ Sound(vpn_context)
  BY <1>1, CalmWorker
<1>3. PICK m \in VpnMessage : req[w].ctx = HandleVpnMessage(vpn_context, m)
  BY <1>2 DEF SaveContext, At, RequestCalm
<1>4. Climbs(vpn_context, vpn_context')
  BY <1>2, <1>3, FlowClimbs
<1>5. UNCHANGED <<usage, earlier>>
  BY DEF SaveContext, history
<1> QED BY <1>4, <1>5, RungIsRungOf
        DEF Climbs, Ladder!Next, Ladder!Climb, Ladder!Solve, Ladder!vars

LEMMA RollBackStays ==
  ASSUME TypeInv, SerialInv, NEW w \in Workers, RollBack(w), faults' = 0
  PROVE  UNCHANGED <<vpn_context, usage, earlier>>
<1>1. PICK ok \in BOOLEAN, wrote \in BOOLEAN :
        Calls(ok) /\ vpn_context' = IF wrote THEN [req[w].ctx EXCEPT !.state = "VPN_CHECK_RESULT"]
                                    ELSE vpn_context
  BY DEF RollBack, Writes
<1>2. /\ vpn_context.state = "VPN_CHECK_RESULT" /\ vpn_context \in VpnContext
      /\ req[w].ctx = [vpn_context EXCEPT !.state = "VPN_HANDOFF"]
  BY <1>1, CalmWorker DEF RollBack, At, RequestCalm
<1>3. [req[w].ctx EXCEPT !.state = "VPN_CHECK_RESULT"] = vpn_context
  BY <1>2 DEF VpnContext
<1> QED BY <1>1, <1>3 DEF RollBack, history

\* The row of a closed session is its first.
LEMMA BillBills ==
  ASSUME TypeInv, SerialInv, NEW w \in Workers, BillPending(w) \/ Bill(w), faults' = 0
  PROVE  [Ladder!Next]_(Ladder!vars)
<1>1. PICK ok \in BOOLEAN, row \in [tenant : {req[w].tenant}, intent : Intents] :
        Calls(ok) /\ usage' = IF ok THEN Append(usage, row) ELSE usage
  <2>1. CASE BillPending(w)
    <3>1. FirstGiven(last_intent, "VPN_ISSUE", None) \in Intents
      BY TenantsAssumption DEF FirstGiven, TypeInv, TypeOK, SessionOK, Intents
    <3> QED BY <2>1, <3>1 DEF BillPending
  <2>2. CASE Bill(w)
    <3>1. req[w].intent \in Intents
      BY <2>2 DEF Bill, At, TypeInv, IntentKnown, Routed
    <3> QED BY <2>2, <3>1 DEF Bill
  <2> QED BY <2>1, <2>2
<1>2. /\ ok /\ Locked /\ Len(usage) = earlier /\ usage \in Seq(Row) /\ earlier \in Nat
  BY <1>1, CalmWorker DEF BillPending, Bill, At, RequestCalm
<1>3. req[w].tenant \in Tenants
  BY DEF BillPending, Bill, At, TypeInv, TypeOK, HandlersOK, HandlerRecord
<1>4. Len(usage') = Len(usage) + 1
  BY <1>1, <1>2, <1>3 DEF Row
<1>5. UNCHANGED <<vpn_context, earlier>>
  BY DEF BillPending, Bill, session, history
<1>6. Rung = "closed" /\ Rung' = Rung
  BY <1>2, <1>5, RungIsRungOf DEF Rung
<1> QED BY <1>2, <1>4, <1>5, <1>6 DEF Ladder!Next, Ladder!Bill

LEMMA ChatLadderStep ==
  ASSUME ~Overlap, TypeInv, SerialInv, [Next]_vars, faults' = 0
  PROVE  [Ladder!Next]_(Ladder!vars)
<1>1. ASSUME UNCHANGED <<vpn_context, usage, earlier>> PROVE [Ladder!Next]_(Ladder!vars)
  BY <1>1, RungIsRungOf DEF Ladder!vars
<1>2. ASSUME NEW w \in Workers, PostChat(w) \/ Handler(w) PROVE [Ladder!Next]_(Ladder!vars)
  <2>1. CASE LockSession(w) \/ SaveContext(w) \/ RollBack(w) \/ BillPending(w) \/ Bill(w)
    BY <1>1, <2>1, LockClimbs, SaveClimbs, RollBackStays, BillBills
  <2>2. CASE ~(LockSession(w) \/ SaveContext(w) \/ RollBack(w) \/ BillPending(w) \/ Bill(w))
    <3>1. UNCHANGED <<vpn_context, usage, earlier>>
      BY <1>2, <2>2
         DEF PostChat, Handler, PendingPath, NormalPath, AddUserMessage, PendingGate, AskAgain,
             ReadContext, ClearPendingHandoff, CloseSession, CheckLock, ResolveTenant,
             GetLastIntent, RouteIntent, SetLastIntent, RunVpnFlow, StashSummary, AdoptTenant,
             AddReply, Reply, session, history
    <3> QED BY <1>1, <3>1
  <2> QED BY <2>1, <2>2
<1>3. CASE DeleteSession \/ ExpireSession
  <2>1. Renew
    BY <1>3 DEF DeleteSession, ExpireSession
  <2>2. Rung' = "describing"
    BY <2>1, NewContextFacts, RungIsRungOf DEF Renew, RungOf
  <2>3. Len(usage') - earlier' = 0
    BY <2>1 DEF Renew, TypeInv, TypeOK, CountersOK
  <2> QED BY <2>2, <2>3 DEF Ladder!Next, Ladder!Renew
<1>4. CASE Crash
  BY <1>1, <1>4 DEF Crash, session, history
<1>5. CASE UNCHANGED vars
  BY <1>1, <1>5 DEF vars, session, history
<1> QED BY <1>2, <1>3, <1>4, <1>5 DEF Next

\* Until a call fails the session climbs SupportLadder: no rung is skipped, the
\* last one is final, and it is billed once at most, restarts included.
THEOREM ChatImplementsLadder == ASSUME ~Overlap PROVE Spec => ImplementsLadder
<1>1. Init => Ladder!Init
  BY NewContextFacts, RungIsRungOf DEF Init, Ladder!Init, RungOf
<1>2. TypeInv /\ SerialInv /\ [Next]_vars => [faults' = 0 => [Ladder!Next]_(Ladder!vars)]_vars
  BY ChatLadderStep
<1> QED BY <1>1, <1>2, SerialInvHolds, PTL DEF Spec, ImplementsLadder

-----------------------------------------------------------------------------
(* The terminal state.                                                     *)

LEMMA HandoffStays ==
  ASSUME ~Overlap, TypeInv, SerialInv, [Next]_vars, faults' = 0, Locked
  PROVE  Locked' \/ renewals' # renewals
<1>1. ASSUME UNCHANGED vpn_context PROVE Locked'
  BY <1>1 DEF Locked
<1>2. ASSUME NEW w \in Workers, PostChat(w) \/ Handler(w) PROVE Locked'
  <2>1. CASE LockSession(w)
    <3>1. PICK ok \in BOOLEAN :
            /\ Calls(ok)
            /\ vpn_context' = IF ok THEN [req[w].ctx EXCEPT !.state = "VPN_HANDOFF"]
                              ELSE vpn_context
      BY <2>1 DEF LockSession
    <3>2. req[w].ctx = vpn_context /\ vpn_context \in VpnContext
      BY <2>1, <3>1, CalmWorker DEF LockSession, At, RequestCalm
    <3> QED BY <3>1, <3>2 DEF Locked, VpnContext
  <2>2. CASE SaveContext(w)
    <3>1. PICK ok \in BOOLEAN, wrote \in BOOLEAN :
            Calls(ok) /\ (ok => wrote)
            /\ vpn_context' = IF wrote THEN req[w].ctx ELSE vpn_context
      BY <2>2 DEF SaveContext, Writes
    <3>2. /\ vpn_context' = req[w].ctx /\ Sound(vpn_context)
          /\ RequestCalm(req[w])
      BY <3>1, CalmWorker
    <3>3. PICK m \in VpnMessage : req[w].ctx = HandleVpnMessage(vpn_context, m)
      BY <2>2, <3>2 DEF SaveContext, At, RequestCalm
    <3>4. Climbs(vpn_context, vpn_context')
      BY <3>2, <3>3, FlowClimbs
    <3> QED BY <3>4 DEF Climbs, RungOf, Locked
  <2>3. CASE RollBack(w)
    BY <1>1, <2>3, RollBackStays
  <2>4. CASE ~(LockSession(w) \/ SaveContext(w) \/ RollBack(w))
    <3>1. UNCHANGED vpn_context
      BY <1>2, <2>4
         DEF PostChat, Handler, PendingPath, NormalPath, AddUserMessage, PendingGate, AskAgain,
             ReadContext, ClearPendingHandoff, CloseSession, CheckLock, ResolveTenant,
             GetLastIntent, RouteIntent, SetLastIntent, RunVpnFlow, StashSummary, AdoptTenant,
             AddReply, Reply, BillPending, Bill, session
    <3> QED BY <1>1, <3>1
  <2> QED BY <2>1, <2>2, <2>3, <2>4
<1>3. ASSUME DeleteSession \/ ExpireSession PROVE renewals' # renewals
  BY <1>3 DEF DeleteSession, ExpireSession, Renew, TypeInv, TypeOK, CountersOK
<1>4. CASE Crash \/ UNCHANGED vars
  BY <1>1, <1>4 DEF Crash, vars, session
<1> QED BY <1>2, <1>3, <1>4 DEF Next

\* With one request at a time and a store that answers, a session in
\* VPN_HANDOFF leaves it only when it is deleted or expires: whatever is posted,
\* whenever the backend restarts.
THEOREM ChatHandoffIsFinal == ASSUME ~Overlap, MaxFaults = 0 PROVE Spec => HandoffIsFinal
<1>1. ASSUME TypeInv, SerialInv, [Next]_vars
      PROVE  [Locked => vpn_context'.state = "VPN_HANDOFF" \/ renewals' # renewals]_vars
  <2>1. TypeInv' /\ SerialInv'
    BY <1>1, StepType, SerialStep
  <2>2. faults' = 0
    BY <2>1 DEF SerialInv, TypeInv, TypeOK, CountersOK
  <2> QED BY <1>1, <2>2, HandoffStays DEF Locked
<1> QED BY <1>1, SerialInvHolds, PTL DEF Spec, HandoffIsFinal
=============================================================================
