--------------------------- MODULE TenantRegistry ---------------------------
(***************************************************************************)
(* The tenants of the backend: the table `tenants` of SQLite, the          *)
(* dictionary TENANTS every handler reads, the start-up that fills the one *)
(* from the other, and the two routes that write both.                     *)
(*                                                                         *)
(* A write is a handler on a thread of its own: it reads TENANTS, commits  *)
(* the row under a lock, and updates TENANTS after the lock is released.   *)
(***************************************************************************)
EXTENDS Naturals, FiniteSets

CONSTANTS
  Workers,      \* threads of the handler pool
  TenantIds,    \* ids a tenant may be given, after strip()
  Blank,        \* the id of blanks: "" after strip()
  Demo,         \* the ids of DEMO_TENANTS
  DemoConfig,   \* their configurations
  Profiles,     \* names, Jira project, issue type and component
  Labels,       \* default labels, NoLabels included
  NoLabels,     \* the empty list
  ItSupport,    \* DEFAULT_TENANT_LABELS
  Maps,         \* label maps
  Unchanged,    \* a field a PATCH leaves out
  Posts,        \* what clients POST: [tenant, config]
  Patches,      \* what clients PATCH: [tenant, labels, map]
  NoTenant,     \* the configuration of an unknown tenant
  MaxRequests,  \* bound: writes that clients ask for
  MaxFaults,    \* bound: SQLite calls that raise
  MaxCrashes    \* bound: backend restarts

TenantConfig == [profile : Profiles, labels : Labels, map : Maps]
Post  == [tenant : TenantIds, config : TenantConfig]
Patch == [tenant : TenantIds \ {Blank}, labels : Labels \cup {Unchanged},
          map : Maps \cup {Unchanged}]

ASSUME TenantsFinite     == IsFiniteSet(Workers) /\ Workers # {}
ASSUME TenantsAssumption ==
  /\ Demo \subseteq TenantIds /\ Blank \notin Demo
  /\ DemoConfig \in [Demo -> TenantConfig] /\ NoTenant \notin TenantConfig
  /\ ItSupport \in Labels /\ Unchanged \notin Labels \cup Maps
  /\ Posts \subseteq Post /\ Patches \subseteq Patch
ASSUME TenantBounds == MaxRequests \in Nat /\ MaxFaults \in Nat /\ MaxCrashes \in Nat

VARIABLES
  table,     \* rows of the table, NoTenant where there is none
  tenants,   \* TENANTS, NoTenant where there is no entry
  usage,     \* rows of usage_events, counted by tenant and event
  phase,     \* where the start-up is; "degraded" after it failed
  req,       \* the write each worker is serving
  requests,  \* writes asked for so far
  faults,    \* SQLite calls that have raised so far
  crashes,   \* restarts so far
  clashed    \* history: tenants with two writes in flight since the start-up

vars == <<table, tenants, usage, phase, req, requests, faults, crashes, clashed>>

Events == {"tenant_created", "label_mapping_updated"}
Phases == {"seed", "load", "up", "degraded"}
Fields == {"profile", "labels", "map"}

\* "given" are the fields the request names; a POST names them all.
NoRequest == [pc |-> "idle", tenant |-> Blank, config |-> NoTenant,
              given |-> {}, event |-> "none"]

Up           == phase \in {"up", "degraded"}
Busy(w)      == req[w].pc # "idle"
At(w, step)  == req[w].pc = step
Saving(t)    == {w \in Workers : Busy(w) /\ req[w].tenant = t}

\* get_tenant_or_none: the empty id is never found, also when TENANTS has it.
Known(t) == t # Blank /\ tenants[t] # NoTenant

\* A SQLite call answers, or it raises (within the bound).
Calls(ok) ==
  /\ ok \/ faults < MaxFaults
  /\ faults' = IF ok THEN faults ELSE faults + 1

-----------------------------------------------------------------------------
(* Start-up.                                                               *)

\* What importing tenant_configs leaves in TENANTS.
Imported == [t \in TenantIds |-> IF t \in Demo THEN DemoConfig[t] ELSE NoTenant]

\* Mutant: the demo tenants are written whether they are there or not.
MutantSeed ==
  /\ phase = "seed"
  /\ \E ok \in BOOLEAN :
       /\ Calls(ok)
       /\ table' = IF ok THEN [t \in TenantIds |-> IF t \in Demo THEN DemoConfig[t] ELSE table[t]]
                   ELSE table
       /\ phase' = IF ok THEN "load" ELSE "degraded"
  /\ UNCHANGED <<tenants, usage, req, requests, crashes, clashed>>

\* seed_missing_demo_tenants, one transaction; lifespan swallows a failure and
\* serves what was imported.
Seed ==
  /\ phase = "seed"
  /\ \E ok \in BOOLEAN :
       /\ Calls(ok)
       /\ table' = IF ok THEN [t \in TenantIds |-> IF table[t] = NoTenant THEN Imported[t]
                                                   ELSE table[t]]
                   ELSE table
       /\ phase' = IF ok THEN "load" ELSE "degraded"
  /\ UNCHANGED <<tenants, usage, req, requests, crashes, clashed>>

\* load_tenants_from_registry: every row replaces its entry.
Load ==
  /\ phase = "load"
  /\ \E ok \in BOOLEAN :
       /\ Calls(ok)
       /\ tenants' = IF ok THEN [t \in TenantIds |-> IF table[t] = NoTenant THEN tenants[t]
                                                     ELSE table[t]]
                     ELSE tenants
       /\ phase' = IF ok THEN "up" ELSE "degraded"
  /\ UNCHANGED <<table, usage, req, requests, crashes, clashed>>

\* The backend restarts; writes in flight end where they are.
Crash ==
  /\ crashes < MaxCrashes
  /\ crashes' = crashes + 1
  /\ phase' = "seed" /\ tenants' = Imported
  /\ req' = [w \in Workers |-> NoRequest]
  /\ clashed' = {}
  /\ UNCHANGED <<table, usage, requests, faults>>

-----------------------------------------------------------------------------
(* The writes.                                                             *)

Accept(w, t, config, given, event) ==
  /\ Up /\ ~Busy(w) /\ requests < MaxRequests
  /\ requests' = requests + 1
  /\ req' = [req EXCEPT ![w] = [pc |-> "save", tenant |-> t, config |-> config,
                                given |-> given, event |-> event]]
  /\ clashed' = IF Saving(t) = {} THEN clashed ELSE clashed \cup {t}
  /\ UNCHANGED <<table, tenants, usage, phase, faults, crashes>>

\* POST /tenants: the tenant is new when TENANTS has no such id.
CreateOrUpdateTenant(w) ==
  \E p \in Posts :
    Accept(w, p.tenant,
           [p.config EXCEPT !.labels = IF @ = NoLabels THEN ItSupport ELSE @],
           Fields, IF Known(p.tenant) THEN "none" ELSE "tenant_created")

Keep(field, known) == IF field = Unchanged THEN known ELSE field

\* PATCH /tenants/{id}/labels: the rest is what TENANTS holds now.  An unknown
\* tenant is answered with 404 and changes nothing.
UpdateTenantLabels(w) ==
  \E p \in Patches :
    /\ Known(p.tenant)
    /\ Accept(w, p.tenant,
              [tenants[p.tenant] EXCEPT !.labels = Keep(p.labels, @), !.map = Keep(p.map, @)],
              {f \in {"labels", "map"} : p[f] # Unchanged}, "label_mapping_updated")

Finish(w) == req' = [req EXCEPT ![w] = NoRequest]
Goto(w, step) == req' = [req EXCEPT ![w].pc = step]

\* Mutant: a failing commit is swallowed.
MutantSave(w) ==
  /\ At(w, "save")
  /\ \E ok \in BOOLEAN :
       /\ Calls(ok)
       /\ table' = IF ok THEN [table EXCEPT ![req[w].tenant] = req[w].config] ELSE table
       /\ Goto(w, "upsert")
  /\ UNCHANGED <<tenants, usage, phase, requests, crashes, clashed>>

\* save_tenant_to_registry: the row is committed; a failure is HTTP 500.
Save(w) ==
  /\ At(w, "save")
  /\ \E ok \in BOOLEAN :
       /\ Calls(ok)
       /\ table' = IF ok THEN [table EXCEPT ![req[w].tenant] = req[w].config] ELSE table
       /\ IF ok THEN Goto(w, "upsert") ELSE Finish(w)
  /\ UNCHANGED <<tenants, usage, phase, requests, crashes, clashed>>

\* Mutant: only a PATCH reaches TENANTS.
MutantUpsert(w) ==
  /\ At(w, "upsert")
  /\ tenants' = IF req[w].event = "label_mapping_updated"
                THEN [tenants EXCEPT ![req[w].tenant] = req[w].config] ELSE tenants
  /\ IF req[w].event = "none" THEN Finish(w) ELSE Goto(w, "log")
  /\ UNCHANGED <<table, usage, phase, requests, faults, crashes, clashed>>

\* upsert_tenant, after the lock is released; an update by POST is answered now.
Upsert(w) ==
  /\ At(w, "upsert")
  /\ tenants' = [tenants EXCEPT ![req[w].tenant] = req[w].config]
  /\ IF req[w].event = "none" THEN Finish(w) ELSE Goto(w, "log")
  /\ UNCHANGED <<table, usage, phase, requests, faults, crashes, clashed>>

\* log_usage_event; a failure is swallowed.  Then the answer leaves.
LogUsage(w) ==
  /\ At(w, "log")
  /\ \E ok \in BOOLEAN :
       /\ Calls(ok)
       /\ usage' = IF ok THEN [usage EXCEPT ![req[w].tenant][req[w].event] = @ + 1] ELSE usage
  /\ Finish(w)
  /\ UNCHANGED <<table, tenants, phase, requests, crashes, clashed>>

Init ==
  /\ table = [t \in TenantIds |-> NoTenant] /\ tenants = Imported
  /\ usage = [t \in TenantIds |-> [e \in Events |-> 0]]
  /\ phase = "seed" /\ req = [w \in Workers |-> NoRequest]
  /\ requests = 0 /\ faults = 0 /\ crashes = 0 /\ clashed = {}

Handler(w) == CreateOrUpdateTenant(w) \/ UpdateTenantLabels(w)
              \/ Save(w) \/ Upsert(w) \/ LogUsage(w)

Next == Seed \/ Load \/ Crash \/ \E w \in Workers : Handler(w)

Spec == Init /\ [][Next]_vars

-----------------------------------------------------------------------------
(* Properties.                                                             *)

Entry == TenantConfig \cup {NoTenant}
WriteRecord == [pc : {"save", "upsert", "log"}, tenant : TenantIds, config : TenantConfig,
                given : SUBSET Fields, event : Events \cup {"none"}]

\* Every variable has its type, and a write in flight has its configuration.
TypeOK ==
  /\ table \in [TenantIds -> Entry] /\ tenants \in [TenantIds -> Entry]
  /\ usage \in [TenantIds -> [Events -> Nat]] /\ phase \in Phases
  /\ req \in [Workers -> WriteRecord \cup {NoRequest}]
  /\ requests \in Nat /\ faults \in Nat /\ crashes \in Nat
  /\ clashed \subseteq TenantIds

\* After a start-up that worked, a tenant without overlapping writes is served
\* as it is stored whenever none of its rows is between commit and TENANTS: a
\* restart changes nothing a client can see, whatever write failed before.
ServedMatchesStored ==
  phase = "up" =>
    \A t \in TenantIds \ clashed :
      (\A w \in Saving(t) : ~At(w, "upsert")) => tenants[t] = table[t]

\* Whoever is served is stored, also through overlapping writes: a tenant that
\* a client has seen is there after the restart (readme: "The tenant is persisted
\* in SQLite and loaded again on application startup").
ServedIsPersistent ==
  phase = "up" => \A t \in TenantIds : tenants[t] # NoTenant => table[t] # NoTenant

\* A write changes the fields its request names and no other field of the row,
\* and a start-up changes no row: a PATCH of the label map does not bring back
\* older labels.
Written(t) == {w \in Workers : At(w, "save") /\ req[w].tenant = t /\ req'[w].pc = "upsert"}
KeepsOtherFields ==
  [][ \A t \in TenantIds \ clashed :
        phase # "degraded" /\ table[t] # NoTenant /\ table'[t] # table[t] =>
          \E w \in Written(t) :
            \A f \in Fields \ req[w].given : table'[t][f] = table[t][f] ]_vars

\* A tenant is recorded as created once per worker that can race for it, and
\* once more for each start-up that did not load the table.
CreatedBounded ==
  \A t \in TenantIds \ {Blank} :
    usage[t]["tenant_created"] <= Cardinality(Workers) * (1 + faults)
=============================================================================
