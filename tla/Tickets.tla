------------------------------- MODULE Tickets -------------------------------
(***************************************************************************)
(* What a ticket says: the way from the text of an email, past the         *)
(* deterministic classifier or the LLM, to the handoff summary, its        *)
(* internal tags and the labels of the tenant, straight from the ingestion *)
(* or after a wait for the tenant in the pending store.                    *)
(*                                                                         *)
(* These are the processing functions that the services of EmailPipeline   *)
(* call; markers, receipts and usage rows are there, and here is what they *)
(* carry.  A tenant is looked up once per request and used after the LLM   *)
(* has answered, while administrators go on editing labels.                *)
(***************************************************************************)
EXTENDS Integers, FiniteSets, SequencesExt

CONSTANTS
  Workers,      \* threads of the handler pool
  Mids,         \* message ids
  Texts,        \* emails: what the extractors and the mock client find in them
  Numeric,      \* error codes of digits
  Settings,     \* LLM_PROVIDER, "off" when USE_LLM is not 1, and LLM_MIN_CONFIDENCE
                \* in percent: [provider, threshold]
  Garbled,      \* a threshold that is no number
  Responses,    \* JSON objects OpenAI may return
  Tenants,      \* tenant ids
  Nobody,       \* the company of a request that names none
  Configs,      \* configurations a tenant may have
  Unknown,      \* the configuration of an id that is no tenant
  Nothing,      \* None: no LLM result, no pending record, no ticket
  MaxRequests,  \* bound: requests that clients send
  MaxEdits      \* bound: edits of tenants

Null == "null"
Blank == ""
Intents == {"VPN_ISSUE", "PASSWORD_RESET", "EMAIL_ISSUE", "GENERAL", "UNKNOWN"}
Text  == [intent : Intents, confidence : 0..100, symptom : STRING, code : STRING,
          mock : [intent : Intents, symptom : STRING, code : STRING]]
Response == [intent : STRING, confidence : 0..100, symptom : STRING, code : STRING,
             tags : Seq(STRING)]

ASSUME TicketConstants ==
  /\ Texts \subseteq Text /\ Nobody \notin Tenants
  /\ Settings \subseteq [provider : {"off", "mock", "openai", "other"}, threshold : Int \cup {Garbled}]
  /\ Responses \subseteq Response /\ Unknown \notin Configs
  /\ \A c \in Configs : /\ c.defaults \in Seq(STRING)
                        /\ \A t \in DOMAIN c.map : c.map[t] \in Seq(STRING)
  /\ MaxRequests \in Nat /\ MaxEdits \in Nat

VARIABLES
  llm,       \* provider and threshold: the environment, constant while it runs
  config,    \* the configuration of each tenant, Unknown before it is created
  pending,   \* the pending store: what each parked email holds
  req,       \* the request each worker is serving
  requests,  \* requests sent so far
  edits      \* edits so far

vars == <<llm, config, pending, req, requests, edits>>

-----------------------------------------------------------------------------
(* Tags and labels.                                                        *)

AddNew(s, x) == IF Contains(s, x) THEN s ELSE Append(s, x)
Distinct(s)  == FoldLeft(AddNew, <<>>, s)

ErrorTag(code) == "error_" \o code
AllowedTags == {"vpn", "connectivity", "access", "stability", "certificate", "auth_failed",
                "timeout", "password", "email", "general", "unknown", "escalated"}
               \cup {ErrorTag(c) : c \in Numeric}

ProblemClass(symptom) ==
  CASE symptom = "cannot_connect"     -> "connectivity"
    [] symptom = "connects_no_access" -> "access"
    [] symptom = "disconnects"        -> "stability"
    [] OTHER                          -> "other"

\* _normalize_error_code; a code of no known kind stays itself.
Signal(code) ==
  CASE code = Null          -> <<>>
    [] code \in Numeric     -> <<ErrorTag(code)>>
    [] code = "CERTIFICATE" -> <<"certificate">>
    [] code = "AUTH_FAILED" -> <<"auth_failed">>
    [] code = "TIMEOUT"     -> <<"timeout">>
    [] OTHER                -> <<code>>

GenericTag(category) ==
  CASE category = "PASSWORD_RESET" -> "password"
    [] category = "EMAIL_ISSUE"    -> "email"
    [] category = "GENERAL"        -> "general"
    [] OTHER                       -> "unknown"

InternalTags(s) ==
  IF s.category = "VPN_ISSUE"
  THEN Distinct(<<"vpn", ProblemClass(s.symptom)>> \o Signal(s.code) \o <<"escalated">>)
  ELSE <<GenericTag(s.category), "escalated">>

\* Mutant: tags that are there are kept ("idempotent").
MutantAttachInternalTags(s) == IF s.tags # <<>> THEN s ELSE [s EXCEPT !.tags = InternalTags(s)]

AttachInternalTags(s) == [s EXCEPT !.tags = InternalTags(s)]

\* _add: neither a blank label nor one that is there.
AddLabel(out, l)   == IF l = Blank THEN out ELSE AddNew(out, l)
AddLabels(out, ls) == FoldLeft(AddLabel, out, ls)

\* map_internal_tags_to_jira_labels: the defaults, then what the tags map to.
AddMapped(c, out, t) == IF t \in DOMAIN c.map THEN AddLabels(out, c.map[t]) ELSE out
Labels(c, tags) ==
  FoldLeft(LAMBDA out, t : AddMapped(c, out, t), AddLabels(<<>>, c.defaults), tags)

\* The payloads, as far as they depend on the summary and the tenant.
VpnPayload(s, c, labels) == [project |-> c.project, category |-> s.category,
                             symptom |-> s.symptom, code |-> s.code, labels |-> labels]
GenericPayload(s, c, labels) ==
  [project |-> c.project, category |-> s.category, labels |-> labels]

Ticket(s, c) ==
  IF s.category = "VPN_ISSUE" THEN VpnPayload(s, c, Labels(c, s.tags))
  ELSE GenericPayload(s, c, Labels(c, s.tags))

-----------------------------------------------------------------------------
(* The LLM.                                                                *)

MockConfidence ==
  [VPN_ISSUE |-> 92, PASSWORD_RESET |-> 90, EMAIL_ISSUE |-> 88, UNKNOWN |-> 45, GENERAL |-> 70]

MockReply(text) ==
  LET m     == text.mock
      vpn   == m.intent = "VPN_ISSUE"
      class == IF m.symptom = Null THEN <<>> ELSE <<ProblemClass(m.symptom)>>
  IN  [intent     |-> m.intent,
       confidence |-> MockConfidence[m.intent],
       symptom    |-> IF vpn THEN m.symptom ELSE Null,
       code       |-> IF vpn THEN m.code ELSE Null,
       tags       |-> IF vpn THEN <<"vpn">> \o class \o Signal(m.code) \o <<"escalated">>
                      ELSE <<GenericTag(m.intent), "escalated">>]

\* _sanitize_internal_tags: any tag that begins with error_ passes.
SanitizeTags(tags) ==
  Distinct(SelectSeq(tags, LAMBDA t : t \in AllowedTags \cup {ErrorTag("unknown")}))

\* _sanitize_extracted_fields: blank is None, and only a VPN case has fields.
SanitizeField(intent, field) == IF intent = "VPN_ISSUE" /\ field # Blank THEN field ELSE Null

OpenAiReply(r) ==
  LET intent == IF r.intent \in Intents THEN r.intent ELSE "UNKNOWN"
  IN  [intent     |-> intent,
       confidence |-> r.confidence,
       symptom    |-> SanitizeField(intent, r.symptom),
       code       |-> SanitizeField(intent, r.code),
       tags       |-> AddNew(SanitizeTags(r.tags), "escalated")]

\* Nothing for no key, a failed call, and JSON that does not parse or validate.
OpenAiClassifyEmail == {OpenAiReply(r) : r \in Responses} \cup {Nothing}

\* What the provider returns.
Offers(text) ==
  CASE llm.provider = "mock"   -> {MockReply(text)}
    [] llm.provider = "openai" -> OpenAiClassifyEmail
    [] OTHER                   -> {Nothing}

MinConfidence ==
  CASE llm.threshold = Garbled -> 75
    [] llm.threshold < 0       -> 0
    [] llm.threshold > 100     -> 100
    [] OTHER                   -> llm.threshold

\* Mutant: the confidence is not looked at.
MutantAccepted(offer) == offer

\* classify_email_with_llm: the reply, or Nothing below the threshold.
Accepted(offer) ==
  IF offer = Nothing \/ offer.confidence < MinConfidence THEN Nothing ELSE offer

-----------------------------------------------------------------------------
(* Reading an email.                                                       *)

BuildSummary(text, intent) ==
  LET vpn == intent = "VPN_ISSUE"
  IN  [category |-> intent, symptom |-> IF vpn THEN text.symptom ELSE Null,
       code |-> IF vpn THEN text.code ELSE Null, tags |-> <<>>]

\* The fields the text left open, for a VPN case.
Enrich(s, reply) ==
  IF s.category # "VPN_ISSUE" THEN s
  ELSE [s EXCEPT !.symptom = IF @ = Null THEN reply.symptom ELSE @,
                 !.code    = IF @ = Null THEN reply.code ELSE @]

MergeTags(tags, reply) ==
  FoldLeft(AddNew, tags, SelectSeq(reply.tags, LAMBDA t : t \in AllowedTags))

\* classify alone, when there is no reply.
ReadText(text) ==
  LET s == AttachInternalTags(BuildSummary(text, text.intent))
  IN  [intent |-> text.intent, confidence |-> text.confidence, tags |-> s.tags, summary |-> s]

ReadReply(text, reply) ==
  LET s    == AttachInternalTags(Enrich(BuildSummary(text, reply.intent), reply))
      tags == MergeTags(s.tags, reply)
  IN  [intent |-> reply.intent, confidence |-> reply.confidence, tags |-> tags,
       summary |-> [s EXCEPT !.tags = tags]]

Read(text, reply) == IF reply = Nothing THEN ReadText(text) ELSE ReadReply(text, reply)

-----------------------------------------------------------------------------
(* The requests.                                                           *)

\* "offer" and "seen" are history: what the provider returned for this email,
\* and the configurations the company has had since the request was sent.
Idle == [pc |-> "idle"]
At(w, step) == req[w].pc = step

ConfigOf(t) == IF t \in Tenants THEN config[t] ELSE Unknown

Send(w, r) ==
  /\ At(w, "idle") /\ requests < MaxRequests
  /\ requests' = requests + 1
  /\ req' = [req EXCEPT ![w] = r]
  /\ UNCHANGED <<llm, config, pending, edits>>

\* POST /email/ingest: the company is looked up before the email is read.
Ingest(w) ==
  \E m \in Mids, x \in Texts, t \in Tenants \cup {Nobody} :
    Send(w, [pc |-> "classify", mid |-> m, text |-> x, tenant |-> t,
             config |-> ConfigOf(t), seen |-> {ConfigOf(t)}])

\* The provider is called and the reply, if accepted, read into the summary.
Classify(w) ==
  /\ At(w, "classify")
  /\ \E offer \in Offers(req[w].text) :
       LET r == req[w]
       IN  req' = [req EXCEPT ![w] =
             [pc |-> IF r.config = Unknown THEN "park" ELSE "preview", mid |-> r.mid,
              tenant |-> r.tenant, config |-> r.config, seen |-> r.seen,
              case |-> [text |-> r.text, offer |-> offer, candidate |-> r.tenant,
                        reading |-> Read(r.text, Accepted(offer))]]]
  /\ UNCHANGED <<llm, config, pending, requests, edits>>

\* What the client is told.
Answer(w, reading, ticket) ==
  req' = [req EXCEPT ![w] = [pc |-> "answered", tenant |-> req[w].tenant, case |-> req[w].case,
                             seen |-> req[w].seen, reading |-> reading, ticket |-> ticket]]

\* store_pending_email swallows what fails.
Store(m, case) == pending' \in {pending, [pending EXCEPT ![m] = case]}

\* No tenant: the email is parked.
Park(w) ==
  /\ At(w, "park")
  /\ Store(req[w].mid, req[w].case)
  /\ Answer(w, req[w].case.reading, Nothing)
  /\ UNCHANGED <<llm, config, requests, edits>>

\* A tenant: the preview replaces the tags of the summary, not those answered.
Preview(w) ==
  /\ At(w, "preview")
  /\ LET read == req[w].case.reading
         s    == AttachInternalTags(read.summary)
     IN  Answer(w, [read EXCEPT !.summary = s], Ticket(s, req[w].config))
  /\ UNCHANGED <<llm, config, pending, requests, edits>>

\* POST /email/resolve names a company; reprocess takes the stored one.  An
\* email that is not pending is answered without a change.
Resolve(w) ==
  \E m \in Mids, t \in Tenants \cup {Nobody} :
    /\ pending[m] # Nothing
    /\ t \in Tenants \/ t = pending[m].candidate
    /\ Send(w, [pc |-> "lookup", mid |-> m, tenant |-> t, case |-> pending[m],
                seen |-> {ConfigOf(t)}])

\* validate_and_get_tenant, after the record was fetched.
FindTenant(w) ==
  /\ At(w, "lookup") /\ ConfigOf(req[w].tenant) # Unknown
  /\ req' = [req EXCEPT ![w] = [pc |-> "rebuild", mid |-> req[w].mid, tenant |-> req[w].tenant,
                                case |-> req[w].case, seen |-> req[w].seen,
                                config |-> ConfigOf(req[w].tenant)]]
  /\ UNCHANGED <<llm, config, pending, requests, edits>>

\* Still no tenant: the record fetched is written back, with one more attempt.
BumpAttempt(w) ==
  /\ At(w, "lookup") /\ ConfigOf(req[w].tenant) = Unknown
  /\ Store(req[w].mid, req[w].case)
  /\ Answer(w, req[w].case.reading, Nothing)
  /\ UNCHANGED <<llm, config, requests, edits>>

\* _build_preview_from_pending tags the stored summary anew, answers with
\* those tags, and clears the record.
PreviewFromPending(w) ==
  /\ At(w, "rebuild")
  /\ LET s == AttachInternalTags(req[w].case.reading.summary)
     IN  Answer(w, [req[w].case.reading EXCEPT !.tags = s.tags, !.summary = s],
                Ticket(s, req[w].config))
  /\ Store(req[w].mid, Nothing)
  /\ UNCHANGED <<llm, config, requests, edits>>

\* The answer is out.
Finish(w) ==
  /\ At(w, "answered")
  /\ req' = [req EXCEPT ![w] = Idle]
  /\ UNCHANGED <<llm, config, pending, requests, edits>>

\* POST /tenants and PATCH labels put a new configuration into TENANTS.
EditTenant(t) ==
  /\ edits < MaxEdits
  /\ edits' = edits + 1
  /\ \E c \in Configs \ {config[t]} :
       /\ config' = [config EXCEPT ![t] = c]
       /\ req' = [w \in Workers |->
                    IF ~At(w, "idle") /\ ~At(w, "answered") /\ req[w].tenant = t
                    THEN [req[w] EXCEPT !.seen = @ \cup {c}] ELSE req[w]]
  /\ UNCHANGED <<llm, pending, requests>>

-----------------------------------------------------------------------------
Init ==
  /\ llm \in Settings
  /\ config \in [Tenants -> Configs \cup {Unknown}]
  /\ pending = [m \in Mids |-> Nothing]
  /\ req = [w \in Workers |-> Idle]
  /\ requests = 0 /\ edits = 0

Step(w) == \/ Ingest(w) \/ Classify(w) \/ Park(w) \/ Preview(w)
           \/ Resolve(w) \/ FindTenant(w) \/ BumpAttempt(w) \/ PreviewFromPending(w)
           \/ Finish(w)

Next == (\E w \in Workers : Step(w)) \/ (\E t \in Tenants : EditTenant(t))

Spec == Init /\ [][Next]_vars

-----------------------------------------------------------------------------
Answered == {w \in Workers : At(w, "answered")}

\* An LLM that is off, fails or is not sure enough leaves no trace: the answer
\* is the one of a server without an LLM, also when the email waited for its
\* tenant first (readme: "Otherwise, it falls back to deterministic
\* classification").
RejectedLeavesNoTrace ==
  \A w \in Answered :
    LET case == req[w].case
    IN  case.offer = Nothing \/ case.offer.confidence < MinConfidence
          => req[w].reading = ReadText(case.text)

\* What a ticket says of a case: the text first, the accepted reply where the
\* text is silent.
Said(case) ==
  LET reply == Accepted(case.offer)
  IN  IF reply = Nothing THEN BuildSummary(case.text, case.text.intent)
      ELSE Enrich(BuildSummary(case.text, reply.intent), reply)

Ticketed == {w \in Answered : req[w].ticket # Nothing}

\* The summary says what the case says and carries the tags of just that; the
\* ticket is made of it under a configuration of the company while the request
\* was served.
SaysItsCase ==
  \A w \in Ticketed :
    LET said == Said(req[w].case)
        s    == req[w].reading.summary
    IN  /\ s = [said EXCEPT !.tags = InternalTags(said)]
        /\ \E c \in req[w].seen \ {Unknown} : req[w].ticket = Ticket(s, c)

\* The labels are, without repetition, the defaults of one such configuration
\* and what it maps the tags of the summary to.
LabelsFollowTags ==
  \A w \in Ticketed :
    LET labels  == req[w].ticket.labels
        Maps(c) == UNION {ToSet(c.map[t]) : t \in ToSet(req[w].reading.summary.tags) \cap DOMAIN c.map}
    IN  /\ Len(labels) = Cardinality(ToSet(labels))
        /\ \E c \in req[w].seen \ {Unknown} :
             ToSet(labels) = (ToSet(c.defaults) \cup Maps(c)) \ {Blank}

\* A wait in the pending store changes nothing: what a ticket says depends on
\* the email and the reply alone, its labels are those of the tenant at the
\* time of the request, and tags that only the LLM gave label nothing.
TicketOfItsTime == SaysItsCase /\ LabelsFollowTags
=============================================================================
