# A TLA+ model of the chatbox support backend

This directory verifies `src/backend`, a FastAPI application that turns chat and
email support requests into Jira-style previews, and keeps the state of both in
Redis, two SQLite files and one in-process table of tenants, together with the tabs of
`src/frontend` that write to it. There are no tests in the repository; the reference
for every definition is the code.

Sections: 1 inventory, 2 hard behaviours and correctness, 3 modules and code,
4 runs, 5 what the runs refute, 6 bounds, 7 fairness and the serial mode, 8 proofs,
9 not modelled, 10 plan.

## 1. Inventory

| component | state | operations | reads and writes of others |
|---|---|---|---|
| Email routes and services (`api/email_routes.py`, `email/email_service.py`, `email/email_helpers.py`, `email/email_pending_query.py`) | none of their own | ingest, resolve, reprocess, list pending | markers, receipts and pending records in Redis; `TENANTS`; the usage log |
| Email router and pending processor (`email/email_router.py`, `email/pending_processor.py`, `email/pending_store.py`, `email/tenant_inference.py`) | the payload of a pending email | pick a tenant, classify, park, bump, clear | as above, and the LLM |
| Redis email keys (`storage/redis_memory.py`) | marker, receipt, pending record of a message, each with a TTL | one command or a few per method | - |
| Chat controller (`api/chat_routes.py`, `api/chat_controller.py`, `api/pending_handoff.py`, `api/vpn_handler.py`, `api/intent_router.py`) | none of its own | chat, history, delete | the five session keys in Redis; `TENANTS`; the usage log |
| VPN flow (`flows/vpn/*.py`) | the `VpnContext` of a session | one message of the user | none, a pure function |
| Classifier and responder (`services/*.py`) | none | classify, respond | none |
| Memory store (`storage/memory.py`) | dictionaries and timestamps | the same methods as Redis, in the process | - |
| Store factory (`storage/store_factory.py`) | the store | choose Redis or memory at import | - |
| Usage log (`storage/usage_event_log.py`, `api/usage_routes.py`) | table `usage_events` | append, list, summary | - |
| Tenants (`tenants/*.py`, `api/tenant_routes.py`) | `TENANTS` and table `tenants` | seed, load, list, upsert, patch labels | the usage log |
| Tags and labels (`tagging/*.py`, `jira/*.py`, `email/summary_builder.py`) | none | derive tags, map to labels, build previews | - |
| LLM (`llm/*.py`) | none | ask a provider, gate on confidence | HTTP |
| Start-up (`main.py`) | none | open the log, bootstrap tenants | tenants, usage log |
| Frontend (`frontend/src/App.tsx`) | React state | chat, email, tenants, labels, usage | the HTTP API |

The handlers are plain `def` functions. FastAPI runs each on a thread of its pool,
so two requests interleave at every call to Redis or SQLite; no handler takes a
lock over more than one SQLite call. Components share state only through the two
stores and `TENANTS`; there are no messages or callbacks between them. The page is one
thread whose fetches overlap and may be answered in any order.

## 2. Hard behaviours and correctness

| component | what is hard | what makes it correct |
|---|---|---|
| Email | marker tested and written in two calls; record cleared before the marker is written; every store call but two is wrapped and its failure swallowed; three keys expire independently | processed once while the marker lives; an accepted email is never dropped; a duplicate repeats the outcome; no row of the log unearned, none missing |
| Chat | the context is read, changed and written back whole; the waiting hand-off and the context are two keys; failing writes are swallowed while the answer says they worked | what waits is the report of the stored case; a closed session is closed, and billed once; a deleted one is gone |
| VPN flow | keywords match anywhere in a text, and several at once | no question skipped, no attempt miscounted, steps of the stored error, two rounds before a hand-off |
| Stores | a Redis write is SET and five EXPIREs, so a call can stop in between; the memory store's cleanup lists what is expired and pops it while other threads write | no key without a TTL; the fields of a session stay while it is used and go together; a marker lives its window |
| Usage log | a lock that is not reentrant, taken twice per call; a summary is three queries | each call takes effect at once; the lock is given back whatever raises |
| Frontend | late answers: labels of one tenant arrive when another is selected, an older list of tenants after a newer one | a map is saved to its own tenant; the selection exists; no spinner stays |
| Tags, labels, LLM | tags are merged with the LLM's into the summary, stored with a parked email, and recomputed for the ticket; the tenant is read before an LLM call of up to 20 s; an unsure reply is dropped half way | a rejected reply leaves no trace; a ticket says what its email and reply say, with labels of its own time |
| Tenants | the table is written under a lock and `TENANTS` after it; PATCH reads, merges and writes back without one; a start-up that fails serves anyway | what is served is what is stored; what was served survives a restart; a write keeps the fields it does not name |

`PROJECT.json` lists each hazard at its line, with the properties that would catch
it.

## 3. Modules and code

```
EmailLifecycle  <- implemented by -  EmailPipeline    (EmailPipelineProofs, MCEmailPipeline)
SupportLadder   <- implemented by -  VpnSession       (VpnSessionProofs, MCVpnSession)
                <- implemented by -  ChatSession      (ChatSessionProofs, MCChatSession)
VpnFlow         <- extended by    -  VpnSession, ChatSession
VpnFlowProofs   <- extended by    -  VpnSessionProofs, ChatSessionProofs
                                     TenantRegistry   (TenantRegistryProofs, MCTenantRegistry)
SessionLease    <- implemented by -  StoreFactory     (StoreFactoryProofs, MCStoreFactory)
RedisSession    <- composed by    -  StoreFactory
MemorySession   <- composed by    -  StoreFactory
SessionTtl      <- extended by    -  SessionLease, RedisSession, MemorySession, StoreFactory
UsageLedger     <- implemented by -  UsageLog         (AdminPageProofs)
UsageLog        <- extended by    -  AdminPage        (AdminPageProofs, MCAdminPage)
                                     Tickets          (TicketsProofs, MCTickets)
```

EmailPipeline, ChatSession and TenantRegistry see the stores and the usage log as
single steps; RedisSession, MemorySession and UsageLog open those steps up, and
SessionLease and UsageLedger say why the single steps are a fair picture. Tickets
carries what EmailPipeline abstracts from an email to tenant and intent.

Definitions named `Mutant...` are not part of a specification: each is a definition
as a plausible mistake would have left it, kept next to the right one so that it can
be put in its place to see which property notices.

**EmailPipeline.** One action is one call of a handler to Redis or SQLite, with the
computation around it. `req[w]` is the frame of the handler on thread `w`, `pc` the
call it makes next.

| state | code |
|---|---|
| `processed`, `receipt`, `pending` | the keys `email:{mid}:processed`, `:receipt`, `:pending`, with the ticks they have left |
| `tenants` | the ids in `TENANTS` |
| `usage` | table `usage_events` |
| `owed`, `done`, `runs` | history: accepted emails, processings, processings in this marker's life |

| actions | code |
|---|---|
| `IngestRequest`, `ResolveRequest`, `ReprocessRequest`, `RoutePrecheck`, `RoutePrefetch` | the three routes and what they test before the service does |
| `CheckProcessed`, `GetReceipt` | `is_email_processed` and the `duplicate_skipped` answer |
| `Triage`, `ParkEmail` | `process_email_to_jira_preview`: tenant, classification, pending record |
| `ServicePeek`, `FetchPending`, `ValidateTenant`, `BumpPendingAttempt`, `ClearPending` | `pending_processor.py` |
| `MarkProcessed`, `SetReceipt`, `ClearAfterMark`, `LogIngested`, `LogBillable`, `Reply` | the tail every service shares |
| `RegisterTenant`, `Tick`, `Crash` | `upsert_tenant`; TTLs; a restart |

`ok` in an action says whether the call answered. A call that raises ends the request
where nothing wraps it (`is_email_processed`, `mark_email_processed`), otherwise the
handler goes on as the `except` says. An unwrapped write may raise before or after
Redis did it (`wrote`). A blank id strips to the empty string and every store method
returns at once: `Storable`.

**EmailLifecycle** says what that adds up to for one message: unknown, pending,
processed, forgotten. `StageOf` is the refinement mapping; an email whose record is
cleared and whose marker is about to be written counts as pending.

**VpnFlow** is `handle_vpn_message`. A message is a record of what the extractors find
(os, client, symptom, code, success, failure), in any combination, because they search
the same text independently. **VpnSession** is one user and one context.
**SupportLadder** is the promise: describe, first round, second round, closed; billed at
most once.

**ChatSession** is `handle_chat` for one session id: `messages`, `last_intent`,
`vpn_context`, `company_id`, `pending_handoff` are the five keys. `PendingPath` is
`try_handle_pending_handoff`, `NormalPath` the rest, with the flow of VpnFlow called in
`RunVpnFlow` and `route_intent` in `GetLastIntent`/`RouteIntent`/`SetLastIntent`.
`Renew` is the one DEL of the five keys, or their common TTL. `earlier`, `told` and
`fresh` are history.

**TenantRegistry** has `table` (SQLite), `tenants` (`TENANTS`) and the `phase` of the
start-up; "degraded" is a start-up whose failure `lifespan` swallowed. A write is
`CreateOrUpdateTenant` or `UpdateTenantLabels` (what it reads), then `Save` (commit),
`Upsert` (after the lock) and `LogUsage`. `clashed` records the tenants that have had
two writes in flight since the start-up.

**StoreFactory** chooses RedisSession or MemorySession once (`USE_REDIS`) and asks the
same of both, SessionLease: the fields of a session stay while calls come and go
together afterwards.

| state | code |
|---|---|
| RedisSession `ttl` | what is left of each of the five session keys; `Forever` is a key SET without EXPIRE |
| RedisSession `call` | the EXPIRE of `_touch` a thread makes next |
| MemorySession `data`, `seen`, `emails` | the session's dictionaries that hold an entry, the age of `_last_seen`, the ages of the entries of one email |
| MemorySession `task` | where a thread is: in the cleanup (`sweep`, `dict`, `expire`), in its body, or before `_touch` |
| `torn`, `raced`, `quiet` | history: a call stopped half-way; what was written while another thread was popping it; the time since the last call |

| actions | code |
|---|---|
| `AddMessage`, `SetField`, `GetField`, `ClearField`, `Touch`, `DeleteSession` | `redis_memory.py`, one command each |
| `Tear` | a restart, or Redis failing, inside calls |
| MemorySession `Begin`, `PopSession`, `ListDict`, `PopEmail` | `cleanup_expired`, run first by every call |
| `Put`, `ClearField`, `Check`, `Touch`, `PutEmail`, `ClearEmail`, `Look` | the rest of the call, one dictionary operation each |
| `Restart`, `Tick` | the process ends and its dictionaries with it; time passes |

**UsageLog** is `UsageEventLog`: `Ask` is a call, `InitDb` and `Acquire` its two turns
with the lock, `Commit` an append, `QueryTotal`, `QueryBreakdown`, `QueryIntents` the
three queries of a summary, `QueryPage` the query of a list, `Return`, `Take` and
`Raise` its ends. **UsageLedger** is what a caller sees: one step per call.

**AdminPage** is the tenant, label and usage tabs of `App.tsx` over UsageLog. `page` is
the React state, `req[w]` the fetch the handler thread `w` serves, `config[t]` the tenant
whose map is stored for `t`. `OpenTab`, `SelectTenant`, `Refresh`, `SaveLabels`,
`CreateTenant` are the user; `GetLabels`, `GetTenants`, `PatchLabels`, `PostTenant`,
`GetSummary`, `UseLog`, `EndLog` the backend; `...Arrive` the code after each `await`;
`Lose` and `RaiseLog` a fetch and an SQLite call that fail. An edited map remains the
map of the tenant it was loaded for. `told`, `unlogged` and `strayed` are history.

**Tickets** follows one email from its text to the labels of its ticket.

| definitions | code |
|---|---|
| `MockReply`, `OpenAiReply`, `SanitizeTags`, `SanitizeField`, `Accepted`, `MinConfidence` | the providers, the sanitising and the confidence gate (`llm/*.py`) |
| `BuildSummary`, `Enrich`, `InternalTags`, `MergeTags`, `Labels`, `Ticket` | `summary_builder.py`, `internal_tags.py`, `jira_label_mapping.py`, `handoff_service.py`, `jira_payloads.py` |
| `Ingest`, `Classify`, `Park`, `Preview` | `process_email_to_jira_preview`: the tenant, the LLM, the pending record, the preview |
| `Resolve`, `FindTenant`, `BumpAttempt`, `PreviewFromPending`, `Finish` | `pending_processor.py` |
| `EditTenant` | another request saves a configuration |

`req[w].case` is what was read (text, the reply as offered, the result), `seen` the
configurations the company had while the request was served.

## 4. Runs

| run | question | answer |
|---|---|---|
| EmailFaults | two calls raise and the backend restarts, anywhere | `ProcessedOncePerWindow`, `LeftoverPendingDiesFirst`, `LedgerBacked` and the refinement of EmailLifecycle hold; as long as nothing has failed, a duplicate repeats the outcome (`DuplicateMatchesCommit`) and the log is complete (`LedgerComplete`) |
| EmailOverlap | requests overlap, for one message and for a blank id | no accepted email is lost; at most one processing per worker (`BoundedDuplication`) |
| VpnSession | every mixture of answers in any order | `AsksFirstOpen`, `StepsMatchError`, `AttemptsFollowReports`, `FactsStable` and the ladder hold; every state before the hand-off has an answer that moves it (`AnswerPossible`), each answer brings the end closer (`AnswersBringCloser`), so a user who keeps answering is not asked forever (`Concludes`) |
| ChatSerial | one request at a time; one call raises, two restarts, deletion and expiry | every report is that of two failed rounds (`ReportsComplete`), every row a VPN case (`BilledAsVpn`), `DeletedStaysDeleted` and `PendingConcludes` hold throughout; until the call raises, so do `PendingMatchesContext`, `ToldMeansClosed` and the ladder |
| Tenants | writes overlap, calls raise, a restart, a failing start-up | `ServedMatchesStored`, `ServedIsPersistent`, `KeepsOtherFields`, `CreatedBounded` hold |
| Stores | two calls overlap, stop half-way, the process restarts, time passes; either store | no key is left without a TTL (`NoImmortalKey`), both keep SessionLease (`KeepsLease`), no marker goes before its window is over (`FreshMarkerKept`) |
| AdminPage | fetches overlap, are answered in any order and fail; the pipeline logs meanwhile | a map stays with its tenant (`LabelsStayHome`), a save is in the next summary (`SavedIsCounted`), the selection is on the list (`SelectedListed`), nobody waits for what is not under way (`SpinnersAwaited`), the log implements UsageLedger (`TakesEffectAtOnce`), spinners stop (`PageSettles`) |
| Tickets | conflicting, missing and vague emails under every kind of LLM setting, parked or not, while the tenant is created or edited | `RejectedLeavesNoTrace` and `TicketOfItsTime` hold |
| EmailTwice, EmailLostOnCrash, VpnMixedReport, ChatReopened | does what the readme, or the code's own text, says hold there? | no, see 5 |

Each property holds under the conditions of its run and not beyond them. What each
needs, and what happens without:

- `ProcessedOncePerWindow`, `LeftoverPendingDiesFirst`, `ImplementsLifecycle`: no
  overlap. `BoundedDuplication` is what is left with it.
- `NoAcceptedEmailLost`: no failing call, no restart, and a message id that is not
  blank. Set `MaxFaults = 1` in `EmailOverlap.cfg`: the SETEX of the pending record
  fails silently. Drop `Storable(m)` from the property: an email with a blank id is
  answered `pending_tenant` and stored nowhere.
- `DuplicateMatchesCommit`: no overlap, and nothing has failed yet (`Undisturbed`). Add
  it to `EmailOverlap.cfg`: a request between the marker and the receipt of another gets
  an empty duplicate answer.
- `LedgerComplete`: no failure yet; `LedgerBacked` holds with failures.
- `ToldMeansClosed`, `ImplementsLadder`, `PendingMatchesContext`: no failing call yet, no
  overlap. `DeletedStaysDeleted`: no overlap; with it, a request in flight writes parts
  of the deleted session back.
- `NoImmortalKey` and `KeepsLease`: a call that stopped half-way (`torn`) leaves a key
  without a TTL, or fields that expire apart, until the next call for the session
  completes. `KeepsLease` and `FreshMarkerKept`, in memory: what one thread writes while
  another is popping the same session or entry (`raced`) may be popped with the old.
- `LabelsStayHome`: every answer came for the tenant selected by then. Without
  `strayed`, a late answer of `loadTenantLabels` (`App.tsx:488`) fills the editor with
  another tenant's map and enables Save; the code compares nothing.
- `ServedMatchesStored` and `KeepsOtherFields` speak of tenants whose writes did not
  overlap since the start-up, `KeepsOtherFields` also of a start-up that worked.
  `CreatedBounded` leaves out the empty id: `get_tenant_or_none` never finds it, so
  every POST of it counts as a creation.

The type invariants of the VPN flow, the tenants and the stores are theorems only
(`VpnTypeCorrect`, `TenantTypeCorrect`, `StoreTypeCorrect`).

## 5. What the runs refute

| run | behaviour |
|---|---|
| EmailTwice | Two ingests of one message both pass `is_email_processed` (`email_service.py:33`) before either writes the marker: both are processed and billed. `backend/readme.md:783` says the same email is not processed twice. |
| EmailLostOnCrash | `pending_processor.py:173` clears the record, the service writes the marker later; a restart in between leaves neither. `backend/readme.md:148` says a pending email is not dropped. |
| VpnMixedReport | "still failing, it disconnected" holds "connected", so `looks_like_success`, tested first (`vpn_flow.py:231`), resets the case. The flow itself asks the user to add the error message to "still failing" (`vpn_flow.py:261`). |
| ChatReopened | Two requests overlap; one closes the session, the other rolls the context it had read back to `VPN_CHECK_RESULT` (`vpn_handler.py:45`). `backend/readme.md:136` says the closed session stays restricted. |

Three more disagreements are kept as conditions of properties, not as runs:

- `set_vpn_context` fails at `pending_handoff.py:99`, the exception is swallowed, the
  client reads "This session is now closed." (line 110), and the next message is
  troubleshot as before: remove `faults = 0` from `ToldMeansClosed`.
- The comment at `email_router.py:132` says "Keep summary consistent", but the preview
  recomputes the tags of the summary: the tags in the answer may name more than the
  ticket. `backend/readme.md:351` lists internal tags among what the LLM enriches; tags that
  only the LLM gave label nothing (`LabelsFollowTags`).
- The label editor, as above.

## 6. Bounds

| bound | value | why it is enough |
|---|---|---|
| `Workers`, `Threads` | 2; 1 in ChatSerial | a race needs two; with one request at a time a second worker adds nothing. The theorems hold for any number |
| `MaxRequests` | 2 to 4 (email), 3 (tenants, page, tickets) | an ingest that parks, a resolve, its duplicate, and one after expiry; two overlapping writes and one after the restart; a selection, a save and a late answer; an ingest, a resolve that fails and one that does not |
| `MaxFaults`, `MaxCrashes` | 0 to 2 | one failure breaks a promise or none does; two cover a failing repair, a restart after a fault the mixed case |
| `Ttl` (email) | 2 ticks | the least `TtlAssumption` allows: a request may straddle one tick and must not outlive a key it wrote (7200 s against seconds) |
| `Ttl` (stores) | 3 ticks | a call may straddle one tick, and between "just used" and "expired" there is an age at which one key may be renewed and another not |
| `Dicts` | `pending` | the cleanup treats the three email dictionaries alike, and calls write and clear this one |
| `MaxOthers` | 1 | an append of the pipeline, or a list, beside each pair of fetches |
| `MaxEdits`, `Configs` | 1, two | one edit during a request decides which configuration its labels come from; the two differ in defaults and map, with a label in both and a blank one |
| `Texts`, `Settings`, `Responses` | 5, 5, 3 | a case per branch: extractor and mock client disagree, only the mock client knows, a certificate, another topic, nothing; no LLM, a threshold that is no number, below 0, above 100, the default; a reply that fills gaps, one out of range, one unsure |
| `Mids`, `TenantIds` | one or two | messages share only `TENANTS` and the log; one tenant is seeded, one comes later |
| `MaxRows` | 5 (ChatSerial) | without a failing call a session is billed once and there are at most `MaxRenewals + 1` = 3; it caps the rows a failing call can repeat |
| `MaxRenewals` | 0 to 2 | a session, a new one, and one more |
| `Codes`, `Symptoms`, ... | two or three each | codes with three different lists of steps in VpnSession, so that a stored code and a newer one disagree; the flow compares the other facts only with absence. The theorems hold for any sets |

Symmetry is over workers, only in runs without liveness. `CHECK_DEADLOCK FALSE` is in
`Tenants.cfg`, `AdminPage.cfg` and `Tickets.cfg`: there the client stops at
`MaxRequests` and nothing else remains to happen.

## 7. Fairness and the serial mode

`VpnSession!FairSpec` says that a user who keeps talking sooner or later answers the
open question or reports on the steps; nothing is said about what else they say.
`Concludes` then excludes endless questioning. It does not say that a case is solved. The
fairness is not empty: `AnswerPossible` says that an answer is possible until the hand-off.

`ChatSession!FairSpec` gives weak fairness to the steps of each handler, which a thread
of the pool takes on its own, and strong fairness to a post that names a registered
company: a user asked for it with every answer gives it in the end. It is strong because
such a post is possible only while no request is being served.

`AdminPage!FairAdminSpec` says that some handler runs or some answer is taken while there
is one; nothing is said about the user. It is one fairness condition for all of them,
so `PageSettles` says that the lock of the usage log never leaves every thread waiting,
not that each thread is served in turn.

`Overlap = FALSE` is how the repository's own frontend behaves: it disables sending, and
starting a new session, while an answer is outstanding (`App.tsx:645`, `App.tsx:685`).
Other clients are not held to it, and the backend does not enforce it, so
`Overlap = TRUE` is checked next to it.

## 8. Proofs

Every theorem holds for all values of the constants that satisfy the named
assumptions: a finite, where needed non-empty, set of workers where counting needs it, `Ttl >= 2`,
aliases that name tenants which may exist, a value for "nothing" that is no datum,
handler threads of which one is the first free. Where a theorem says more than that
about a constant, the table does, too: the conditions are those of section 4.

| module | theorems | argument |
|---|---|---|
| EmailPipelineProofs | `TypeCorrect` | `TypeOK` is inductive: one lemma per group of actions |
| | `SerialProcessedOnce`, `SerialLeftoverDies` (assume `~Overlap`) | `SerialInv`: one worker per message (`Exclusive`), what it found unprocessed still is (`Uncommitted`), a counted processing has its marker. Neither property is inductive without all three: the marker test and the marker write are several steps apart |
| | `DuplicationBounded` | `OverlapInv`: processings of this window plus workers still on their way to one are at most the workers (`Crowd`). A worker joins the way only while there is no marker, hence no processing to count |
| | `SerialImplementsLifecycle` (assumes `~Overlap`) | `SerialInv`, then every handler step is `Park`, `Process`, `Forget` or a stutter under `StageOf` |
| | `LedgerIsBacked`, `LedgerIsComplete` | `LedgerInv`: for each row, the copies logged plus the workers still to log one (`Dues`) are at most the processings that earned it, and exactly as many while nothing has failed (`Balanced`). The marker write earns and owes in the same step; a logging step moves one from owed to logged; a failure or a restart only drops what is owed |
| | `KeptUntilFailure`; `NoEmailLost` (assumes `MaxFaults = 0`, `MaxCrashes = 0`) | `KeptInv`: an accepted email without marker is stored or in hand, and an ingest about to say `pending_tenant` has stored it (`Promised`), for one tick more if a tick fell into the request (`Safe`). Nobody clears a record under an email another worker has accepted, because whoever passed the marker still sees it (`Marked`, `FreshMark`). The first theorem assumes nothing and speaks of the time before the first failure; the second is the property itself where there is none |
| | `SerialDuplicateMatches` (assumes `~Overlap`) | `DuplicateInv`: unless somebody is between the marker and the receipt (`Settled`), a receipt outlives its marker and tells the last outcome (`ReceiptInv`), and so does what a request has read of it (`Faithful`) |
| VpnFlowProofs | - | lemmas both halves of the chat rest on: `HandleVpnMessage` keeps contexts sound (`Sound`), climbs by one rung, never loses a fact |
| VpnSessionProofs | `VpnTypeCorrect`, `VpnAsksFirstOpen`, `VpnStepsMatchError`, `VpnEscalatesAfterTwo`, `VpnFactsStable`, `VpnClimbsLadder` | `VpnInv`, the conjunction: the attempts depend on the steps given, those on the questions answered, those on the open question being the first |
| | `VpnFailureIsNoSuccess` (assumes that no message holds words of success and of failure) | the complement of VpnMixedReport: the mixture is the only way to the finding |
| | `VpnAnswersBringCloser` | `Distance`: two rounds and the open questions before the steps, the rounds left after them. A message closes questions and opens none (`OpenShrinks`), an answer closes the one that is open |
| | `VpnConcludes` (assumes `[]AnswerPossible`), liveness | `Distance` is at most 6 whatever the constants, so one fact per value (`Near1` to `Near5`) is enough for the temporal prover: no step but a new start leads away from the end, an answer leads to the next, and weak fairness takes an answer while there is one. ENABLED is beyond the prover, hence the hypothesis, which the run checks |
| | `VpnAnswerExists` (assumes that some message answers each question and some reports) | the same hypothesis without ENABLED: `Spec` implies that before the hand-off some answer changes the stored context. The flow never begins with everything known, for a solved case forgets its error (`StartOpen`) |
| ChatSessionProofs | `ChatTypeCorrect` | `TypeInv`: past the router a request has an intent, and one that answers a waiting summary a tenant; overlapping requests included |
| | `ChatDeletedStaysDeleted` (assumes `~Overlap`) | `FreshInv`: nobody works for a deleted session |
| | `ChatPendingMatchesContext`, `ChatToldMeansClosed`, `ChatImplementsLadder` (assume `~Overlap`) | `SerialInv` with `Calm`, what holds until a call raises: for each step of a handler, which of lock, summary and row are there already (`RequestCalm`). Every step of the hand-off is a step of its own between which the backend may restart, so each combination that survives a restart is part of the invariant |
| | `ChatReportsComplete`, `ChatBilledAsVpn` (assume `~Overlap`, `MaxFaults <= 1`) | `SerialInv` with `OneFault`, what is left of it after one failing call. With two failing calls neither holds |
| | `ChatHandoffIsFinal` (assumes `~Overlap`, `MaxFaults = 0`) | `SerialInv` with `Calm`: three steps write the context. The lock writes `VPN_HANDOFF`; the save writes what the flow makes of the stored context, and the flow keeps a closed one (`FlowClimbs`); the roll-back writes over a context that is not closed (`RollBackStays`). This is what ChatReopened refutes for overlapping requests; a failing store breaks it without overlap, too |
| TenantRegistryProofs | `TenantTypeCorrect` | `TypeOK` is inductive |
| | `TenantServedMatchesStored`, `TenantServedIsPersistent`, `TenantKeepsOtherFields` | `RegistryInv`: no write before the start-up ended (`BootInv`), one write in flight without a clash (`AloneInv`), the row of a committed write is its own (`CommittedInv`), what a PATCH leaves out is what is served until its commit (`MergedInv`), a committed write has a row (`RowInv`) |
| | `TenantCreatedBounded` | `CountInv`: rows logged for a tenant plus workers that still take it for new are at most the workers, times one more than the failures (`Tally`); only a start-up that failed forgets a stored tenant |
| StoreFactoryProofs | `StoreTypeCorrect`, `StoreNoImmortalKey` | `IInv`: the types of both stores and, unless a Redis call was torn, each key without a TTL lies ahead of some call in flight (`Repaired`), and what lies behind a call begun since the tear and has none lies ahead of another (`Behind`): both are needed, for the tear is forgotten only when such a call completes. Assumes `Ttl >= 2` and at most three email dictionaries |
| | `StoreKeepsLease` | `LeaseInv` and a step simulation. Redis: a key a call has renewed is at most a tick short of `Ttl` (`Renewed`), hence lasts that long from the last call (`Lasting`) and, with no torn call, no longer than `Ttl` (`Expiring`). Memory: `_last_seen` is as old as the last call (`InStep`); unless a write raced with a pop, what a call popped stays popped (`Gone`) and a sweep meets only a session that is over (`Over`, `Owned`) |
| | `StoreFreshMarkerKept` | what the cleanup has listed as expired still is, is gone, or was written meanwhile (`Listed`) |
| AdminPageProofs | `UsageLockExcludes`, `UsageTakesEffectAtOnce` | `IInv`: who is past `Acquire` holds the lock (`Held`), so what it has read is still what the table says (`Fresh`); then each step is one of UsageLedger or a stutter |
| | `AdminTakesEffectAtOnce` | the same of the composition: no step of the page, a handler or the network is more than one step of one thread at the log |
| | `AdminLabelsStayHome`, `AdminSavedIsCounted`, `AdminSelectedListed` | `AdminInv`: what each fetch in flight may name and carry (`Requested`, `Homed`), one save at a time (`OneSave`), as many rows as saves reported, but for those whose logging raised (`Counted`), every tenant in use is one of the served (`Listed`) |
| | `AdminSpinnersAwaited` | per spinner, the fetch it was started for or the one that goes on for it is in flight (`Spinners`); the lock is taken by a call that begins and given back by its end, well or not (`LockTaken`). With it every wait ends at somebody who can move, which is the safety half of `PageSettles` |
| TicketsProofs | `TicketsRejectedLeavesNoTrace`, `TicketsSayTheirCase` | `IInv`: every case, in a request or parked, was read from its text and the accepted part of its offer (`WellRead`), the configuration a request holds is one it has seen (`ConfigSeen`), and tags depend only on the rest of a summary (a lemma), so rebuilding them from the pending store changes nothing |
| | `TicketsOfTheirTime` | `SeenInv`, and what the folds over tags and labels compute (below) |

`TicketsOfTheirTime` needs an induction over data. The library's induction theorems take
an operator, which no installed prover can instantiate; `Induction` states the same
of a set, from the least element of its complement. On it rest, in this order: a fold
is the last value of a run through its sequence (`Solves`, `Runs`, `RunOf`), each step of a
run of `AddNew` or `AddLabel` keeps what is there and adds at most one new element
(`AddNewFacts`, `AddLabelsFacts`), so `Distinct` and `Labels` hold exactly what they are
given, none twice and no label blank (`DistinctRun`, `LabelsFacts`, `NoRepeatCounts`).

Only model-checked: `PendingConcludes` and `PageSettles`. Both are liveness, and their
steps left are not bounded by a number but by constants (posts, failures and restarts;
threads and fetches): the temporal prover has no induction over a parameter. Of
`PageSettles` the safety half is `AdminSpinnersAwaited`. `AnswerPossible`, too, as it speaks
of ENABLED; `VpnAnswerExists` is what of it can be said without. What section 5 refutes is
proved where what refutes it is excluded: `SerialProcessedOnce`, `NoEmailLost`,
`VpnFailureIsNoSuccess`, `ChatHandoffIsFinal`.

## 9. Not modelled

| part | why |
|---|---|
| patterns of the classifier and the extractors, wording of replies, titles and descriptions | pure functions over text; the models keep what they may find, in any combination |
| GET routes other than those the page calls (history, pending list) | they change nothing but TTLs, which RedisSession and MemorySession renew on reads |
| the pending list | a SCAN with a limit over a changing keyspace: Redis promises of it only what is there throughout |
| HTTP to the LLM | late, broken and invalid replies are one outcome, no reply |
| opening the usage log at start-up | every call opens it again |
| normalising labels and label maps | pure; TenantRegistry keeps which of two maps is stored |
| the chat and email tabs, the health badge | the tabs send one request at a time, which `Overlap = FALSE` stands for; the badge only displays |
| a crash inside SQLite | a commit is atomic |

## 10. Plan

Done: the email pipeline, the VPN flow and chat session, the tenants, both stores, the
usage log, the administration page, and tickets with their tags, labels and LLM replies.

Every safety, action and refinement property of a passing run is a theorem, under the
conditions named in section 8, and of the three liveness properties one, `Concludes`. Left to
the runs alone are `PendingConcludes`, `PageSettles` and `AnswerPossible`, for the reasons
given there.
