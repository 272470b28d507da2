------------------------------ MODULE AdminPage ------------------------------
(***************************************************************************)
(* The tenant, label and usage tabs of App.tsx in front of the backend.    *)
(* The page is one thread, but its fetches overlap and are answered in any *)
(* order; each is served by a handler thread (tenant_routes, usage_routes) *)
(* that logs through UsageLog.  Label maps are abstracted to the tenant    *)
(* they belong to, so that a map can be seen to change hands; editing the  *)
(* text does not change whose it is.                                       *)
(***************************************************************************)
EXTENDS UsageLog

CONSTANTS
  Demo,         \* the tenants of the backend's defaults
  First,        \* the tenant selected when the page opens
  Empty,        \* the "{}" the editor opens with
  Posted,       \* the tenants the user creates, some of them twice
  Others,       \* calls of the email pipeline and of a client that lists rows
  MaxRequests,  \* fetches the user causes
  MaxOthers,    \* of the other calls
  MaxFaults     \* fetches and SQLite calls that fail

ASSUME AdminAssumption ==
  /\ First \in Demo /\ Demo \cup Posted \subseteq Tenants
  /\ Empty \notin Tenants /\ None \notin Tenants \cup {Empty}
  /\ {"label_mapping_updated", "tenant_created"} \subseteq EventTypes

\* Handler threads are numbered, so that there is a first free one.
ASSUME ThreadAssumption ==
  \A W \in SUBSET Threads : W # {} => \E w \in W : \A v \in W : w <= v

VARIABLES
  page,    \* the React state
  req,     \* the fetches, by the handler thread that serves them
  config,  \* the label map each known tenant has: whose it is
  counts,  \* requests, other appends and faults so far
  told,    \* history: saves of each tenant reported as "Label mapping saved."
  unlogged,\* history: usage rows given up
  strayed  \* history: an answer came for a tenant no longer selected, or none

adminVars == <<page, req, config, counts, told, unlogged, strayed>>
allVars   == <<vars, adminVars>>

NoReq == [kind |-> "none", tenant |-> None, body |-> None, at |-> "none", floor |-> 0]
Free  == {w \in Threads : req[w].kind = "none" /\ use[w].at = "idle"}
\* Handler threads are interchangeable: the first free one serves the next fetch.
Server == CHOOSE w \in Free : \A v \in Free : w <= v

Fetch(kind, tenant, body) ==
  [kind |-> kind, tenant |-> tenant, body |-> body, at |-> "sent",
   floor |-> IF tenant \in Tenants THEN told[tenant] ELSE 0]

Send(r) == req' = [req EXCEPT ![Server] = r]
Requesting ==
  /\ Free # {} /\ counts.requests < MaxRequests
  /\ counts' = [counts EXCEPT !.requests = @ + 1]

-----------------------------------------------------------------------------
(* What the user does *)

\* The effects of a tab and a selection: the tab's data is loaded again.
Loading(p) ==
  [p EXCEPT !.labelLoading = @ \/ p.tab = "labels", !.usageLoading = @ \/ p.tab = "usage"]
Reload(p) ==
  CASE p.tab = "labels" -> Fetch("labels", p.selected, None)
    [] p.tab = "usage"  -> Fetch("summary", p.selected, None)
    [] OTHER            -> NoReq

Show(p) ==
  /\ page' = Loading(p)
  /\ IF Reload(p) = NoReq THEN UNCHANGED <<req, counts>> ELSE Requesting /\ Send(Reload(p))
  /\ UNCHANGED <<vars, config, told, unlogged, strayed>>

OpenTab == \E tab \in {"labels", "usage", "tenants"} \ {page.tab} :
  Show([page EXCEPT !.tab = tab])

SelectTenant == \E t \in page.tenants \ {page.selected} :
  ~page.tenantsLoading /\ Show([page EXCEPT !.selected = t])

\* The Refresh button of either tab.
Refresh ==
  /\ \/ page.tab = "labels" /\ ~page.labelLoading
     \/ page.tab = "usage" /\ ~page.usageLoading
  /\ Show(page)

\* Mutant: Save Mapping stays enabled while the map is loaded.
MutantSaveLabels ==
  /\ page.tab = "labels" /\ ~page.labelSaving
  /\ Requesting /\ Send(Fetch("save", page.selected, page.form))
  /\ page' = [page EXCEPT !.labelSaving = TRUE]
  /\ UNCHANGED <<vars, config, told, unlogged, strayed>>

\* A text that does not parse sends nothing.
SaveLabels ==
  /\ page.tab = "labels" /\ ~page.labelSaving /\ ~page.labelLoading
  /\ Requesting /\ Send(Fetch("save", page.selected, page.form))
  /\ page' = [page EXCEPT !.labelSaving = TRUE]
  /\ UNCHANGED <<vars, config, told, unlogged, strayed>>

CreateTenant == \E t \in Posted :
  /\ page.tab = "tenants" /\ ~page.creating
  /\ Requesting /\ Send(Fetch("post", t, None))
  /\ page' = [page EXCEPT !.creating = TRUE]
  /\ UNCHANGED <<vars, config, told, unlogged, strayed>>

-----------------------------------------------------------------------------
(* What the handlers do *)

Sent(w, kind) == req[w].kind = kind /\ req[w].at = "sent"
Answer(w, body) == req' = [req EXCEPT ![w].at = "answered", ![w].body = body]
Logging(w, q) == Ask(w, q) /\ req' = [req EXCEPT ![w].at = "logging"]
RowOf(event, tenant) == [op |-> "append", row |-> [tenant |-> tenant, event |-> event, intent |-> None]]

GetLabels(w) ==
  /\ Sent(w, "labels")
  /\ Answer(w, config[req[w].tenant])
  /\ UNCHANGED <<vars, page, config, counts, told, unlogged, strayed>>

GetTenants(w) ==
  /\ Sent(w, "tenants")
  /\ Answer(w, {t \in Tenants : config[t] # None})
  /\ UNCHANGED <<vars, page, config, counts, told, unlogged, strayed>>

\* Mutant: the usage row is written after the response (a background task).
MutantPatchLabels(w) ==
  /\ Sent(w, "save")
  /\ config' = [config EXCEPT ![req[w].tenant] = req[w].body]
  /\ Ask(w, RowOf("label_mapping_updated", req[w].tenant))
  /\ Answer(w, req[w].body)
  /\ UNCHANGED <<page, counts, told, unlogged, strayed>>

PatchLabels(w) ==
  /\ Sent(w, "save")
  /\ config' = [config EXCEPT ![req[w].tenant] = req[w].body]
  /\ Logging(w, RowOf("label_mapping_updated", req[w].tenant))
  /\ UNCHANGED <<page, counts, told, unlogged, strayed>>

\* A tenant that is posted, new or not, gets an empty label map of its own.
PostTenant(w) ==
  /\ Sent(w, "post")
  /\ config' = [config EXCEPT ![req[w].tenant] = req[w].tenant]
  /\ IF config[req[w].tenant] = None
     THEN Logging(w, RowOf("tenant_created", req[w].tenant))
     ELSE Answer(w, None) /\ UNCHANGED vars
  /\ UNCHANGED <<page, counts, told, unlogged, strayed>>

GetSummary(w) ==
  /\ Sent(w, "summary")
  /\ Logging(w, [op |-> "summary", tenant |-> req[w].tenant, event |-> None])
  /\ UNCHANGED <<page, config, counts, told, unlogged, strayed>>

UseLog(w) == Work(w) /\ UNCHANGED adminVars

\* The usage log returns to the handler, which answers.
EndLog(w) ==
  /\ Return(w)
  /\ IF req[w].at = "logging" THEN Answer(w, req[w].body) ELSE UNCHANGED req
  /\ UNCHANGED <<page, config, counts, told, unlogged, strayed>>

Fault == counts.faults < MaxFaults /\ counts' = [counts EXCEPT !.faults = @ + 1]

\* It raises: a row that is not written is given up, a summary is a 500.
RaiseLog(w) ==
  /\ Raise(w) /\ Fault
  /\ req' = IF req[w].at # "logging" THEN req
            ELSE [req EXCEPT ![w].at = IF req[w].kind = "summary" THEN "failed" ELSE "answered"]
  /\ unlogged' = IF use[w].q.op = "append" THEN unlogged + 1 ELSE unlogged
  /\ UNCHANGED <<page, config, told, strayed>>

\* A fetch fails before the handler has run, or its answer is lost.
Lose(w) ==
  /\ req[w].at \in {"sent", "answered"} /\ Fault
  /\ req' = [req EXCEPT ![w].at = "failed"]
  /\ UNCHANGED <<vars, page, config, told, unlogged, strayed>>

\* The email pipeline appends its rows, and a client lists them; bounded to the
\* time the usage tab is open, where it can be seen.
OtherCall ==
  /\ page.tab = "usage"
  /\ Free # {} /\ counts.others < MaxOthers
  /\ \E q \in Others : Ask(Server, q)
  /\ counts' = [counts EXCEPT !.others = @ + 1]
  /\ UNCHANGED <<page, req, config, told, unlogged, strayed>>

-----------------------------------------------------------------------------
(* What the page does with an answer *)

Arrived(w, kind) == req[w].kind = kind /\ req[w].at \in {"answered", "failed"}
Ok(w)   == req[w].at = "answered"
Done(w) == req' = [req EXCEPT ![w] = NoReq]

\* loadTenantLabels: whatever is selected by now.
LabelsArrive(w) ==
  /\ Arrived(w, "labels") /\ Done(w)
  /\ page' = [page EXCEPT !.labelLoading = FALSE, !.form = IF Ok(w) THEN req[w].body ELSE @]
  /\ strayed' = (strayed \/ req[w].tenant # page.selected \/ (~Ok(w) /\ page.form # page.selected))
  /\ UNCHANGED <<vars, config, counts, told, unlogged>>

SaveArrives(w) ==
  /\ Arrived(w, "save") /\ Done(w)
  /\ page' = [page EXCEPT !.labelSaving = FALSE, !.form = IF Ok(w) THEN req[w].body ELSE @]
  /\ told' = IF Ok(w) THEN [told EXCEPT ![req[w].tenant] = @ + 1] ELSE told
  /\ strayed' = (strayed \/ (Ok(w) /\ req[w].tenant # page.selected))
  /\ UNCHANGED <<vars, config, counts, unlogged>>

\* What the page shows then, it shows as the summary of the tenant it is of.
SummaryArrives(w) ==
  /\ Arrived(w, "summary") /\ Done(w) /\ Take(w)
  /\ page' = [page EXCEPT !.usageLoading = FALSE]
  /\ UNCHANGED <<config, counts, told, unlogged, strayed>>

\* Mutant: the button is enabled again at the end of a creation that worked only.
MutantPostArrives(w) ==
  /\ Arrived(w, "post")
  /\ IF Ok(w)
     THEN /\ req' = [req EXCEPT ![w] = Fetch("tenants", req[w].tenant, None)]
          /\ page' = [page EXCEPT !.tenantsLoading = TRUE]
     ELSE Done(w) /\ UNCHANGED page
  /\ UNCHANGED <<vars, config, counts, told, unlogged, strayed>>

\* submitTenant goes on with loadTenants and then selects the tenant.
PostArrives(w) ==
  /\ Arrived(w, "post")
  /\ IF Ok(w)
     THEN /\ req' = [req EXCEPT ![w] = Fetch("tenants", req[w].tenant, None)]
          /\ page' = [page EXCEPT !.tenantsLoading = TRUE]
     ELSE Done(w) /\ page' = [page EXCEPT !.creating = FALSE]
  /\ UNCHANGED <<vars, config, counts, told, unlogged, strayed>>

\* Mutant: the list replaces the options and leaves the selection alone.
MutantPick(list, w) == IF req[w].tenant = None THEN page.selected ELSE req[w].tenant

\* The selection stays if it is still listed; a tenant just created is selected.
Pick(list, w) ==
  CASE req[w].tenant # None    -> req[w].tenant
    [] page.selected \in list  -> page.selected
    [] ~Ok(w)                  -> page.selected
    [] OTHER                   -> CHOOSE t \in list : TRUE

TenantsArrive(w) ==
  /\ Arrived(w, "tenants")
  /\ LET list == IF Ok(w) THEN req[w].body ELSE {}
         next == [page EXCEPT !.tenants = list, !.tenantsLoading = FALSE, !.selected = Pick(list, w),
                    !.creating = @ /\ req[w].tenant = None]
     IN  IF next.selected = page.selected
         THEN page' = next /\ Done(w)
         ELSE page' = Loading(next) /\ req' = [req EXCEPT ![w] = Reload(next)]
  /\ UNCHANGED <<vars, config, counts, told, unlogged, strayed>>

-----------------------------------------------------------------------------
AdminInit ==
  /\ Init
  /\ page = [tab |-> "chat", selected |-> First, tenants |-> {}, tenantsLoading |-> TRUE,
             form |-> Empty, labelLoading |-> FALSE, labelSaving |-> FALSE,
             usageLoading |-> FALSE, creating |-> FALSE]
  /\ told = [t \in Tenants |-> 0] /\ unlogged = 0 /\ strayed = FALSE
  /\ req = [w \in Threads |-> IF \A v \in Threads : w <= v
              THEN [NoReq EXCEPT !.kind = "tenants", !.at = "sent"] ELSE NoReq]
  /\ config = [t \in Tenants |-> IF t \in Demo THEN t ELSE None]
  /\ counts = [requests |-> 0, others |-> 0, faults |-> 0]

User == OpenTab \/ SelectTenant \/ Refresh \/ SaveLabels \/ CreateTenant

Handle(w) ==
  \/ GetLabels(w) \/ GetTenants(w) \/ PatchLabels(w) \/ PostTenant(w) \/ GetSummary(w)
  \/ UseLog(w) \/ EndLog(w)

Arrive(w) == LabelsArrive(w) \/ SaveArrives(w) \/ SummaryArrives(w) \/ PostArrives(w) \/ TenantsArrive(w)

AdminNext == User \/ OtherCall \/ \E w \in Threads : Handle(w) \/ RaiseLog(w) \/ Lose(w) \/ Arrive(w)

AdminSpec == AdminInit /\ [][AdminNext]_allVars

\* Some handler runs or some answer is taken while there is one to run or to take;
\* the user need not act.
FairAdminSpec == AdminSpec /\ WF_allVars(\E w \in Threads : Handle(w) \/ Arrive(w))

-----------------------------------------------------------------------------
\* A tenant's labels are saved to that tenant only: as long as every answer came
\* for the tenant selected when it arrived, no interleaving of tabs, selections,
\* loads and saves writes one tenant's map, or the initial text, to another.
LabelsStayHome == ~strayed => \A t \in Tenants : config[t] \in {t, None}

\* A save the page has reported before it asks for a summary is counted in it,
\* but for rows whose logging raised.
SavedIsCounted == \A w \in Threads : req[w].kind = "summary" /\ req[w].at = "answered" =>
  reply[w].by_event_type["label_mapping_updated"] + unlogged >= req[w].floor

\* The selection is one of the options on the page, whichever of two overlapping
\* loads of the tenants is answered last.
SelectedListed == page.tenants # {} => page.selected \in page.tenants

\* Nobody waits for nothing: what a spinner turns for is in flight, what the usage
\* log has taken over it is working on, and the lock is held by a thread inside a
\* call.  Loads share a spinner and overlap, a creation goes on with a load of its
\* own, and every call that raises on the way has to give the lock back.
Awaited(kind) == \E w \in Threads : req[w].kind = kind
Creation(r)   == r.kind = "post" \/ (r.kind = "tenants" /\ r.tenant # None)
SpinnersAwaited ==
  /\ page.labelLoading => Awaited("labels")
  /\ page.labelSaving => Awaited("save")
  /\ page.usageLoading => Awaited("summary")
  /\ page.creating => \E w \in Threads : Creation(req[w])
  /\ \A w \in Threads : req[w].at = "logging" => use[w].at # "idle"
  /\ lock # None => lock \in Threads /\ use[lock].at \in Holding

\* No spinner stays: every load and save ends, through the lock of the usage log
\* and whatever fails.
Spinning == page.labelLoading \/ page.labelSaving \/ page.usageLoading \/ page.creating
PageSettles == Spinning ~> ~Spinning
=============================================================================
