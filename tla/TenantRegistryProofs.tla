------------------------ MODULE TenantRegistryProofs ------------------------
(* The registry keeps table and memory together, for any number of         *)
(* workers, tenants, failures and restarts.                                *)
EXTENDS TenantRegistry, FiniteSetTheorems, TLAPS

-----------------------------------------------------------------------------
(* The inductive invariant.                                                *)

\* No write is in flight before the start-up has ended, TENANTS is then what
\* was imported, and once seeded the table holds every demo tenant.
BootInv ==
  phase \in {"seed", "load"} =>
    /\ \A w \in Workers : ~Busy(w)
    /\ tenants = Imported
    /\ phase = "load" => \A t \in Demo : table[t] # NoTenant

\* Without a clash a tenant has one write in flight at most.
AloneInv == \A t \in TenantIds \ clashed : \A v, w \in Saving(t) : v = w

\* After the commit, and before TENANTS is updated, the row is the write's.
CommittedInv ==
  phase = "up" => \A t \in TenantIds \ clashed : \A w \in Saving(t) :
                    At(w, "upsert") => table[t] = req[w].config

\* What a write leaves out is what TENANTS holds until it is committed.
MergedInv ==
  phase = "up" => \A t \in TenantIds \ clashed : \A w \in Saving(t) :
                    At(w, "save") => \A f \in Fields \ req[w].given :
                                       req[w].config[f] = tenants[t][f]

\* A write that is past its commit has a row, whatever other writes do.
RowInv == \A w \in Workers : At(w, "upsert") => table[req[w].tenant] # NoTenant

RegistryInv == /\ TypeOK /\ BootInv /\ AloneInv /\ CommittedInv /\ MergedInv /\ RowInv
               /\ ServedMatchesStored /\ ServedIsPersistent

-----------------------------------------------------------------------------
(* Type correctness.                                                       *)

LEMMA ImportedType == Imported \in [TenantIds -> Entry]
  BY TenantsAssumption DEF Imported, Entry

\* A busy worker holds a write, and an idle one nothing.
LEMMA BusyRecord ==
  ASSUME TypeOK, NEW w \in Workers
  PROVE  /\ req[w] \in WriteRecord \cup {NoRequest}
         /\ Busy(w) => req[w] \in WriteRecord
         /\ ~Busy(w) => req[w] = NoRequest
         /\ Busy(w) => req[w].config # NoTenant
  BY TenantsAssumption DEF TypeOK, WriteRecord, NoRequest, Busy

\* Accepting a well-formed write keeps the types.
LEMMA AcceptType ==
  ASSUME TypeOK, NEW w \in Workers, NEW t \in TenantIds, NEW c \in TenantConfig,
         NEW g \in SUBSET Fields, NEW e \in Events \cup {"none"}, Accept(w, t, c, g, e)
  PROVE  TypeOK'
  BY DEF Accept, TypeOK, WriteRecord

\* Moving on, or answering, keeps the writes well-formed.
LEMMA GotoType ==
  ASSUME TypeOK, NEW w \in Workers, Busy(w), NEW step \in {"save", "upsert", "log"}, Goto(w, step)
  PROVE  /\ req' \in [Workers -> WriteRecord \cup {NoRequest}]
         /\ req'[w] = [req[w] EXCEPT !.pc = step]
         /\ \A v \in Workers \ {w} : req'[v] = req[v]
<1>1. req[w] \in WriteRecord /\ req \in [Workers -> WriteRecord \cup {NoRequest}]
  BY BusyRecord DEF TypeOK
<1> DEFINE r == [req[w] EXCEPT !.pc = step]
<1>2. r \in WriteRecord
  BY <1>1 DEF WriteRecord
<1>3. req' = [req EXCEPT ![w] = r]
  BY DEF Goto
<1> HIDE DEF r
<1>4. req'[w] = r
  BY <1>1, <1>3
<1>5. QED BY <1>1, <1>2, <1>3, <1>4 DEF r
LEMMA FinishType ==
  ASSUME TypeOK, NEW w \in Workers, Finish(w)
  PROVE  /\ req' \in [Workers -> WriteRecord \cup {NoRequest}]
         /\ req'[w] = NoRequest
         /\ \A v \in Workers \ {w} : req'[v] = req[v]
<1>1. req \in [Workers -> WriteRecord \cup {NoRequest}]
  BY DEF TypeOK
<1>2. QED BY <1>1 DEF Finish

\* Counting one event keeps the counts.
LEMMA CountType ==
  ASSUME NEW n \in [Events -> Nat], NEW e
  PROVE  [n EXCEPT ![e] = @ + 1] \in [Events -> Nat]
<1>1. CASE e \in Events
  <2>1. n[e] + 1 \in Nat
    BY <1>1
  <2>2. QED BY <1>1, <2>1
<1>2. CASE e \notin Events
  BY <1>2
<1>3. QED BY <1>1, <1>2

\* What a PATCH merges into a known tenant is a configuration.
LEMMA MergeType ==
  ASSUME NEW c \in TenantConfig, NEW l \in Labels \cup {Unchanged}, NEW m \in Maps \cup {Unchanged}
  PROVE  /\ [c EXCEPT !.labels = Keep(l, @), !.map = Keep(m, @)] \in TenantConfig
         /\ [c EXCEPT !.labels = Keep(l, @), !.map = Keep(m, @)].profile = c.profile
         /\ [c EXCEPT !.labels = Keep(l, @), !.map = Keep(m, @)].labels = Keep(l, c.labels)
         /\ [c EXCEPT !.labels = Keep(l, @), !.map = Keep(m, @)].map = Keep(m, c.map)
  BY DEF TenantConfig, Keep

\* What a POST stores is a configuration.
LEMMA FilledType ==
  ASSUME NEW c \in TenantConfig
  PROVE  [c EXCEPT !.labels = IF @ = NoLabels THEN ItSupport ELSE @] \in TenantConfig
  BY TenantsAssumption DEF TenantConfig

\* A known tenant has a configuration.
LEMMA KnownConfig ==
  ASSUME TypeOK, NEW t \in TenantIds, Known(t)
  PROVE  tenants[t] \in TenantConfig
  BY DEF TypeOK, Known, Entry

LEMMA InitType == ASSUME Init PROVE TypeOK
  BY TenantsAssumption, ImportedType DEF Init, TypeOK, Entry, Phases

LEMMA NextType == ASSUME TypeOK, [Next]_vars PROVE TypeOK'
<1>1. CASE Seed
  BY <1>1, ImportedType DEF Seed, Calls, TypeOK, Phases
<1>2. CASE Load
  BY <1>2 DEF Load, Calls, TypeOK, Phases
<1>3. CASE Crash
  BY <1>3, ImportedType DEF Crash, TypeOK, Phases
<1>4. ASSUME NEW w \in Workers, CreateOrUpdateTenant(w) PROVE TypeOK'
  <2>1. PICK p \in Posts :
          Accept(w, p.tenant,
                 [p.config EXCEPT !.labels = IF @ = NoLabels THEN ItSupport ELSE @],
                 Fields, IF Known(p.tenant) THEN "none" ELSE "tenant_created")
    BY <1>4 DEF CreateOrUpdateTenant
  <2>2. p.tenant \in TenantIds /\ p.config \in TenantConfig
    BY TenantsAssumption DEF Post
  <2>3. QED BY <2>1, <2>2, FilledType, AcceptType DEF Events
<1>5. ASSUME NEW w \in Workers, UpdateTenantLabels(w) PROVE TypeOK'
  <2>1. PICK p \in Patches :
          /\ Known(p.tenant)
          /\ Accept(w, p.tenant,
                    [tenants[p.tenant] EXCEPT !.labels = Keep(p.labels, @), !.map = Keep(p.map, @)],
                    {f \in {"labels", "map"} : p[f] # Unchanged}, "label_mapping_updated")
    BY <1>5 DEF UpdateTenantLabels
  <2>2. p.tenant \in TenantIds /\ p.labels \in Labels \cup {Unchanged}
        /\ p.map \in Maps \cup {Unchanged}
    BY TenantsAssumption DEF Patch
  <2>3. {f \in {"labels", "map"} : p[f] # Unchanged} \in SUBSET Fields
    BY DEF Fields
  <2>4. QED BY <2>1, <2>2, <2>3, KnownConfig, MergeType, AcceptType DEF Events
<1>6. ASSUME NEW w \in Workers, Save(w) PROVE TypeOK'
  <2>1. Busy(w) /\ (Goto(w, "upsert") \/ Finish(w))
    BY <1>6 DEF Save, At, Busy
  <2>2. req' \in [Workers -> WriteRecord \cup {NoRequest}]
    BY <2>1, GotoType, FinishType
  <2>3. req[w].tenant \in TenantIds /\ req[w].config \in Entry
    BY <2>1, BusyRecord DEF WriteRecord, Entry
  <2>4. table' \in [TenantIds -> Entry] /\ faults' \in Nat
    BY <1>6, <2>3 DEF Save, Calls, TypeOK
  <2>5. QED BY <1>6, <2>2, <2>4 DEF Save, TypeOK
<1>7. ASSUME NEW w \in Workers, Upsert(w) PROVE TypeOK'
  <2>1. Busy(w) /\ (Goto(w, "log") \/ Finish(w))
    BY <1>7 DEF Upsert, At, Busy
  <2>2. req' \in [Workers -> WriteRecord \cup {NoRequest}]
    BY <2>1, GotoType, FinishType
  <2>3. req[w].tenant \in TenantIds /\ req[w].config \in Entry
    BY <2>1, BusyRecord DEF WriteRecord, Entry
  <2>4. tenants' \in [TenantIds -> Entry]
    BY <1>7, <2>3 DEF Upsert, TypeOK
  <2>5. QED BY <1>7, <2>2, <2>4 DEF Upsert, TypeOK
<1>8. ASSUME NEW w \in Workers, LogUsage(w) PROVE TypeOK'
  <2>1. Finish(w)
    BY <1>8 DEF LogUsage
  <2>2. req' \in [Workers -> WriteRecord \cup {NoRequest}]
    BY <2>1, FinishType
  <2> DEFINE t == req[w].tenant
             counted == [usage[t] EXCEPT ![req[w].event] = @ + 1]
  <2>3. t \in TenantIds
    BY <1>8, BusyRecord DEF LogUsage, At, Busy, WriteRecord
  <2>4. usage[t] \in [Events -> Nat] /\ counted \in [Events -> Nat]
    BY <2>3, CountType DEF TypeOK
  <2>5. usage' = usage \/ usage' = [usage EXCEPT ![t] = counted]
    BY <1>8 DEF LogUsage
  <2> HIDE DEF t, counted
  <2>6. usage' \in [TenantIds -> [Events -> Nat]]
    BY <2>3, <2>4, <2>5 DEF TypeOK
  <2>7. faults' \in Nat
    BY <1>8 DEF LogUsage, Calls, TypeOK
  <2>8. QED BY <1>8, <2>2, <2>6, <2>7 DEF LogUsage, TypeOK
<1>9. CASE UNCHANGED vars
  BY <1>9 DEF vars, TypeOK
<1>10. QED BY <1>1, <1>2, <1>3, <1>4, <1>5, <1>6, <1>7, <1>8, <1>9 DEF Next, Handler

\* Every variable keeps its type.
THEOREM TenantTypeCorrect == Spec => []TypeOK
<1>1. Init => TypeOK BY InitType
<1>2. TypeOK /\ [Next]_vars => TypeOK' BY NextType
<1>3. QED BY <1>1, <1>2, PTL DEF Spec

-----------------------------------------------------------------------------
(* What is served is what is stored.                                       *)

\* A worker that takes a write was idle, and the others go on as they were.
LEMMA AcceptStep ==
  ASSUME TypeOK, NEW w \in Workers, NEW t \in TenantIds, NEW c, NEW g, NEW e,
         Accept(w, t, c, g, e)
  PROVE  /\ req'[w] = [pc |-> "save", tenant |-> t, config |-> c, given |-> g, event |-> e]
         /\ \A v \in Workers \ {w} : req'[v] = req[v]
         /\ Up /\ ~Busy(w)
         /\ UNCHANGED <<table, tenants, phase>>
  BY DEF Accept, TypeOK

LEMMA AcceptInv ==
  ASSUME RegistryInv, NEW w \in Workers, NEW t \in TenantIds, NEW c \in TenantConfig,
         NEW g \in SUBSET Fields, NEW e \in Events \cup {"none"}, Accept(w, t, c, g, e),
         phase = "up" /\ t \notin clashed => \A f \in Fields \ g : c[f] = tenants[t][f]
  PROVE  RegistryInv'
<1> USE DEF RegistryInv
<1>1. /\ req'[w] = [pc |-> "save", tenant |-> t, config |-> c, given |-> g, event |-> e]
      /\ \A v \in Workers \ {w} : req'[v] = req[v]
      /\ Up /\ ~Busy(w) /\ UNCHANGED <<table, tenants, phase>>
  BY AcceptStep
<1>2. TypeOK'
  BY AcceptType
<1>3. BootInv'
  BY <1>1 DEF BootInv, Up
<1>4. clashed' = IF Saving(t) = {} THEN clashed ELSE clashed \cup {t}
  BY DEF Accept
<1>5. \A u \in TenantIds : Saving(u)' = IF u = t THEN Saving(u) \cup {w} ELSE Saving(u)
  BY <1>1 DEF Saving, Busy
<1>12. \A u \in TenantIds : Saving(u) \subseteq Workers \ {w}
  BY <1>1 DEF Saving
<1>6. AloneInv'
  BY <1>4, <1>5 DEF AloneInv
<1>7. \A v \in Workers : At(v, "upsert")' <=> At(v, "upsert") /\ v # w
  BY <1>1 DEF At, Busy
<1>8. CommittedInv' /\ MergedInv'
  <2> SUFFICES ASSUME phase = "up", NEW u \in TenantIds \ clashed', NEW v \in Saving(u)'
               PROVE  /\ At(v, "upsert")' => table[u] = req'[v].config
                      /\ At(v, "save")' => \A f \in Fields \ req'[v].given :
                                             req'[v].config[f] = tenants[u][f]
    BY <1>1 DEF CommittedInv, MergedInv
  <2>1. u \in TenantIds \ clashed
    BY <1>4
  <2>2. CASE v = w
    <3>1. u = t
      BY <1>5, <1>12, <2>2
    <3>2. QED BY <1>1, <2>1, <2>2, <3>1 DEF At
  <2>3. CASE v # w
    <3>1. v \in Saving(u) /\ req'[v] = req[v]
      BY <1>1, <1>5, <1>12, <2>3
    <3>2. QED BY <2>1, <3>1 DEF CommittedInv, MergedInv, At
  <2>4. QED BY <2>2, <2>3
<1>9. ServedMatchesStored'
  <2> SUFFICES ASSUME phase = "up", NEW u \in TenantIds \ clashed',
                      \A v \in Saving(u)' : ~At(v, "upsert")'
               PROVE  tenants[u] = table[u]
    BY <1>1 DEF ServedMatchesStored
  <2>1. u \in TenantIds \ clashed
    BY <1>4
  <2>2. \A v \in Saving(u) : ~At(v, "upsert")
    BY <1>5, <1>12, <1>7
  <2>3. QED BY <2>1, <2>2 DEF ServedMatchesStored
<1>10. RowInv' /\ ServedIsPersistent'
  BY <1>1, <1>7 DEF RowInv, ServedIsPersistent, At
<1>11. QED BY <1>2, <1>3, <1>6, <1>8, <1>9, <1>10

\* A commit writes the row of the only write of a tenant without a clash.
LEMMA SaveInv ==
  ASSUME RegistryInv, TypeOK', NEW w \in Workers, Save(w)
  PROVE  RegistryInv'
<1> DEFINE t == req[w].tenant
<1>1. /\ TypeOK /\ BootInv /\ AloneInv /\ CommittedInv /\ MergedInv /\ RowInv
      /\ ServedMatchesStored /\ ServedIsPersistent
  BY DEF RegistryInv
<1>2. /\ Busy(w) /\ At(w, "save") /\ t \in TenantIds /\ req[w].config # NoTenant
      /\ UNCHANGED <<tenants, phase, clashed>>
  BY <1>1, BusyRecord DEF Save, At, Busy, WriteRecord
<1>3. BootInv'
  BY <1>1, <1>2 DEF BootInv
<1>4. CASE Goto(w, "upsert") /\ table' = [table EXCEPT ![t] = req[w].config]
  <2>1. /\ req'[w] = [req[w] EXCEPT !.pc = "upsert"]
        /\ \A v \in Workers \ {w} : req'[v] = req[v]
    BY <1>1, <1>2, <1>4, GotoType
  <2>2. /\ req'[w].pc = "upsert" /\ req'[w].tenant = t /\ req'[w].config = req[w].config
    BY <1>1, <1>2, <2>1, BusyRecord DEF WriteRecord
  <2>3. table'[t] = req[w].config /\ \A u \in TenantIds \ {t} : table'[u] = table[u]
    BY <1>1, <1>2, <1>4 DEF TypeOK
  <2>4. \A u \in TenantIds : /\ Saving(u)' = Saving(u) /\ Saving(u) \subseteq Workers
                             /\ w \in Saving(u) => u = t
    BY <1>2, <2>1, <2>2 DEF Saving, Busy
  <2>5. AloneInv'
    BY <1>1, <1>2, <2>4 DEF AloneInv
  <2>6. w \in Saving(t)
    BY <1>2 DEF Saving
  <2>7. CommittedInv' /\ MergedInv'
    <3> SUFFICES ASSUME phase = "up", NEW u \in TenantIds \ clashed, NEW v \in Saving(u)
                 PROVE  /\ At(v, "upsert")' => table'[u] = req'[v].config
                        /\ At(v, "save")' => \A f \in Fields \ req'[v].given :
                                               req'[v].config[f] = tenants[u][f]
      BY <1>2, <2>4 DEF CommittedInv, MergedInv
    <3>1. CASE v = w
      BY <2>2, <2>3, <2>4, <3>1 DEF At
    <3>2. CASE v # w
      <4>1. u # t /\ req'[v] = req[v]
        BY <1>1, <2>1, <2>4, <2>6, <3>2 DEF AloneInv
      <4>2. QED BY <1>1, <2>3, <4>1 DEF CommittedInv, MergedInv, At
    <3>3. QED BY <3>1, <3>2
  <2>9. RowInv'
    BY <1>1, <1>2, <2>1, <2>2, <2>3, BusyRecord DEF RowInv, At, Busy, WriteRecord
  <2>10. ServedMatchesStored'
    <3> SUFFICES ASSUME phase = "up", NEW u \in TenantIds \ clashed,
                        \A v \in Saving(u) : ~At(v, "upsert")'
                 PROVE  tenants[u] = table'[u]
      BY <1>2, <2>4 DEF ServedMatchesStored
    <3>1. u # t
      BY <2>2, <2>6 DEF At
    <3>2. \A v \in Saving(u) : ~At(v, "upsert")
      BY <2>1, <2>4, <3>1 DEF At
    <3>3. QED BY <1>1, <2>3, <3>1, <3>2 DEF ServedMatchesStored
  <2>11. ServedIsPersistent'
    BY <1>1, <1>2, <2>3 DEF ServedIsPersistent
  <2>12. QED BY <1>3, <2>5, <2>7, <2>9, <2>10, <2>11 DEF RegistryInv
<1>5. CASE Finish(w) /\ table' = table
  <2>1. req'[w] = NoRequest /\ \A v \in Workers \ {w} : req'[v] = req[v]
    BY <1>1, <1>5, FinishType
  <2>2. \A u \in TenantIds : /\ Saving(u)' = Saving(u) \ {w}
                             /\ Saving(u) \subseteq Workers
    BY <2>1 DEF Saving, Busy, NoRequest
  <2>3. \A v \in Workers : At(v, "upsert")' <=> At(v, "upsert")
    BY <1>2, <2>1 DEF At, NoRequest
  <2>4. AloneInv' /\ CommittedInv' /\ MergedInv'
    BY <1>1, <1>2, <1>5, <2>1, <2>2 DEF AloneInv, CommittedInv, MergedInv, At
  <2>5. RowInv'
    BY <1>1, <1>5, <2>1 DEF RowInv, At, NoRequest
  <2>6. ServedMatchesStored'
    BY <1>1, <1>2, <1>5, <2>2, <2>3 DEF ServedMatchesStored, At
  <2>7. ServedIsPersistent'
    BY <1>1, <1>2, <1>5 DEF ServedIsPersistent
  <2>8. QED BY <1>3, <2>4, <2>5, <2>6, <2>7 DEF RegistryInv
<1>6. QED BY <1>4, <1>5 DEF Save

\* After its commit a write only moves on or ends: nobody else's step changes.
LEMMA LaterStep ==
  ASSUME TypeOK, NEW w \in Workers, Busy(w), Goto(w, "log") \/ Finish(w)
  PROVE  /\ req'[w].pc \in {"log", "idle"}
         /\ \A v \in Workers \ {w} : req'[v] = req[v]
         /\ \A u \in TenantIds : /\ Saving(u)' \subseteq Saving(u)
                                 /\ Saving(u) \ {w} \subseteq Saving(u)'
                                 /\ Saving(u) \subseteq Workers
<1>1. CASE Goto(w, "log")
  <2>1. /\ req'[w] = [req[w] EXCEPT !.pc = "log"]
        /\ \A v \in Workers \ {w} : req'[v] = req[v]
    BY <1>1, GotoType
  <2>2. req'[w].pc = "log" /\ req'[w].tenant = req[w].tenant
    BY <2>1, BusyRecord DEF WriteRecord
  <2>3. QED BY <2>1, <2>2 DEF Saving, Busy
<1>2. CASE Finish(w)
  <2>1. req'[w] = NoRequest /\ \A v \in Workers \ {w} : req'[v] = req[v]
    BY <1>2, FinishType
  <2>2. QED BY <2>1 DEF Saving, Busy, NoRequest
<1>3. QED BY <1>1, <1>2

\* TENANTS takes over the row the only write of a tenant has committed.
LEMMA UpsertInv ==
  ASSUME RegistryInv, TypeOK', NEW w \in Workers, Upsert(w)
  PROVE  RegistryInv'
<1> DEFINE t == req[w].tenant
<1>1. /\ TypeOK /\ BootInv /\ AloneInv /\ CommittedInv /\ MergedInv /\ RowInv
      /\ ServedMatchesStored /\ ServedIsPersistent
  BY DEF RegistryInv
<1>2. /\ Busy(w) /\ At(w, "upsert") /\ t \in TenantIds
      /\ UNCHANGED <<table, phase, clashed>>
      /\ Goto(w, "log") \/ Finish(w)
  BY <1>1, BusyRecord DEF Upsert, At, Busy, WriteRecord
<1>3. /\ req'[w].pc \in {"log", "idle"}
      /\ \A v \in Workers \ {w} : req'[v] = req[v]
      /\ \A u \in TenantIds : /\ Saving(u)' \subseteq Saving(u)
                              /\ Saving(u) \ {w} \subseteq Saving(u)'
                              /\ Saving(u) \subseteq Workers
  BY <1>1, <1>2, LaterStep
<1>4. tenants'[t] = req[w].config /\ \A u \in TenantIds \ {t} : tenants'[u] = tenants[u]
  BY <1>1, <1>2 DEF Upsert, TypeOK
<1>5. w \in Saving(t) /\ \A u \in TenantIds : w \in Saving(u) => u = t
  BY <1>2 DEF Saving
<1>6. BootInv'
  BY <1>1, <1>2 DEF BootInv
<1>7. AloneInv'
  BY <1>1, <1>2, <1>3 DEF AloneInv
<1>8. CommittedInv' /\ MergedInv'
  <2> SUFFICES ASSUME phase = "up", NEW u \in TenantIds \ clashed, NEW v \in Saving(u)'
               PROVE  /\ At(v, "upsert")' => table[u] = req'[v].config
                      /\ At(v, "save")' => \A f \in Fields \ req'[v].given :
                                             req'[v].config[f] = tenants'[u][f]
    BY <1>2 DEF CommittedInv, MergedInv
  <2>1. CASE v = w
    BY <1>3, <2>1 DEF At
  <2>2. CASE v # w
    <3>1. v \in Saving(u) /\ req'[v] = req[v]
      BY <1>3, <2>2
    <3>2. u # t
      BY <1>1, <1>5, <2>2, <3>1 DEF AloneInv
    <3>3. QED BY <1>1, <1>4, <3>1, <3>2 DEF CommittedInv, MergedInv, At
  <2>3. QED BY <2>1, <2>2
<1>9. RowInv'
  BY <1>1, <1>2, <1>3 DEF RowInv, At
<1>10. ServedMatchesStored'
  <2> SUFFICES ASSUME phase = "up", NEW u \in TenantIds \ clashed,
                      \A v \in Saving(u)' : ~At(v, "upsert")'
               PROVE  tenants'[u] = table[u]
    BY <1>2 DEF ServedMatchesStored
  <2>1. CASE u = t
    BY <1>1, <1>2, <1>4, <1>5, <2>1 DEF CommittedInv
  <2>2. CASE u # t
    <3>1. \A v \in Saving(u) : ~At(v, "upsert")
      BY <1>3, <1>5, <2>2 DEF At
    <3>2. QED BY <1>1, <1>4, <2>2, <3>1 DEF ServedMatchesStored
  <2>3. QED BY <2>1, <2>2
<1>11. ServedIsPersistent'
  BY <1>1, <1>2, <1>4 DEF ServedIsPersistent, RowInv
<1>12. QED BY <1>6, <1>7, <1>8, <1>9, <1>10, <1>11 DEF RegistryInv

\* The usage row changes neither the table nor TENANTS.
LEMMA LogUsageInv ==
  ASSUME RegistryInv, TypeOK', NEW w \in Workers, LogUsage(w)
  PROVE  RegistryInv'
<1>1. /\ TypeOK /\ BootInv /\ AloneInv /\ CommittedInv /\ MergedInv /\ RowInv
      /\ ServedMatchesStored /\ ServedIsPersistent
  BY DEF RegistryInv
<1>2. Busy(w) /\ At(w, "log") /\ Finish(w) /\ UNCHANGED <<table, tenants, phase, clashed>>
  BY DEF LogUsage, At, Busy
<1>3. /\ req'[w].pc \in {"log", "idle"}
      /\ \A v \in Workers \ {w} : req'[v] = req[v]
      /\ \A u \in TenantIds : /\ Saving(u)' \subseteq Saving(u)
                              /\ Saving(u) \ {w} \subseteq Saving(u)'
                              /\ Saving(u) \subseteq Workers
  BY <1>1, <1>2, LaterStep
<1>4. BootInv'
  BY <1>1, <1>2 DEF BootInv
<1>5. AloneInv'
  BY <1>1, <1>2, <1>3 DEF AloneInv
<1>6. \A v \in Workers : (At(v, "upsert") \/ At(v, "save"))' => v # w /\ req'[v] = req[v]
  BY <1>3 DEF At
<1>7. CommittedInv' /\ MergedInv'
  <2> SUFFICES ASSUME phase = "up", NEW u \in TenantIds \ clashed, NEW v \in Saving(u)'
               PROVE  /\ At(v, "upsert")' => table[u] = req'[v].config
                      /\ At(v, "save")' => \A f \in Fields \ req'[v].given :
                                             req'[v].config[f] = tenants[u][f]
    BY <1>2 DEF CommittedInv, MergedInv
  <2>1. v \in Saving(u) /\ v \in Workers
    BY <1>3
  <2>2. QED BY <1>1, <1>6, <2>1 DEF CommittedInv, MergedInv, At
<1>8. RowInv'
  BY <1>1, <1>2, <1>3 DEF RowInv, At
<1>9. ServedMatchesStored'
  <2> SUFFICES ASSUME phase = "up", NEW u \in TenantIds \ clashed,
                      \A v \in Saving(u)' : ~At(v, "upsert")'
               PROVE  tenants[u] = table[u]
    BY <1>2 DEF ServedMatchesStored
  <2>1. \A v \in Saving(u) : ~At(v, "upsert")
    BY <1>2, <1>3 DEF At
  <2>2. QED BY <1>1, <2>1 DEF ServedMatchesStored
<1>10. ServedIsPersistent'
  BY <1>1, <1>2 DEF ServedIsPersistent
<1>11. QED BY <1>4, <1>5, <1>7, <1>8, <1>9, <1>10 DEF RegistryInv

\* With no write in flight the parts about writes hold.
LEMMA IdleInv ==
  ASSUME \A w \in Workers : ~Busy(w)
  PROVE  AloneInv /\ CommittedInv /\ MergedInv /\ RowInv
  BY DEF AloneInv, CommittedInv, MergedInv, RowInv, Saving, At, Busy

LEMMA InitInv == ASSUME Init PROVE RegistryInv
<1>1. TypeOK
  BY InitType
<1>2. \A w \in Workers : ~Busy(w)
  BY DEF Init, Busy, NoRequest
<1>3. BootInv /\ ServedMatchesStored /\ ServedIsPersistent
  BY <1>2 DEF Init, BootInv, ServedMatchesStored, ServedIsPersistent
<1>4. QED BY <1>1, <1>2, <1>3, IdleInv DEF RegistryInv

\* The start-up and a restart establish the invariant anew.
LEMMA BootStep ==
  ASSUME RegistryInv, TypeOK', Seed \/ Load \/ Crash
  PROVE  RegistryInv'
<1>1. TypeOK /\ BootInv
  BY DEF RegistryInv
<1>2. \A w \in Workers : ~Busy(w)'
  BY <1>1 DEF Seed, Load, Crash, BootInv, Busy, NoRequest
<1>3. AloneInv' /\ CommittedInv' /\ MergedInv' /\ RowInv'
  BY <1>2 DEF AloneInv, CommittedInv, MergedInv, RowInv, Saving, At, Busy
<1>4. CASE Seed
  <2>1. phase' \in {"load", "degraded"}
    BY <1>4 DEF Seed
  <2>2. phase' = "load" => \A t \in Demo : table'[t] # NoTenant
    <3>1. \A t \in Demo : t \in TenantIds /\ Imported[t] # NoTenant
      BY TenantsAssumption DEF Imported
    <3>2. QED BY <1>4, <3>1 DEF Seed
  <2>3. tenants' = Imported
    BY <1>1, <1>4 DEF Seed, BootInv
  <2>4. BootInv' /\ ServedMatchesStored' /\ ServedIsPersistent'
    BY <1>2, <2>1, <2>2, <2>3 DEF BootInv, ServedMatchesStored, ServedIsPersistent
  <2>5. QED BY <1>3, <2>4 DEF RegistryInv
<1>5. CASE Load
  <2>1. phase' \in {"up", "degraded"} /\ table' = table
    BY <1>5 DEF Load
  <2>2. \A t \in TenantIds : table[t] = NoTenant => tenants[t] = NoTenant
    BY <1>1, <1>5 DEF Load, BootInv, Imported
  <2>3. phase' = "up" => \A t \in TenantIds : tenants'[t] = table[t]
    BY <1>5, <2>2 DEF Load
  <2>4. BootInv' /\ ServedMatchesStored' /\ ServedIsPersistent'
    BY <2>1, <2>3 DEF BootInv, ServedMatchesStored, ServedIsPersistent
  <2>5. QED BY <1>3, <2>4 DEF RegistryInv
<1>6. CASE Crash
  <2>1. BootInv' /\ ServedMatchesStored' /\ ServedIsPersistent'
    BY <1>2, <1>6 DEF Crash, BootInv, ServedMatchesStored, ServedIsPersistent, Imported
  <2>2. QED BY <1>3, <2>1 DEF RegistryInv
<1>7. QED BY <1>4, <1>5, <1>6

LEMMA NextInv == ASSUME RegistryInv, [Next]_vars PROVE RegistryInv'
<1>1. TypeOK /\ TypeOK'
  BY NextType DEF RegistryInv
<1>2. CASE Seed \/ Load \/ Crash
  BY <1>1, <1>2, BootStep
<1>3. ASSUME NEW w \in Workers, CreateOrUpdateTenant(w) PROVE RegistryInv'
  <2>1. PICK p \in Posts :
          Accept(w, p.tenant,
                 [p.config EXCEPT !.labels = IF @ = NoLabels THEN ItSupport ELSE @],
                 Fields, IF Known(p.tenant) THEN "none" ELSE "tenant_created")
    BY <1>3 DEF CreateOrUpdateTenant
  <2>2. p.tenant \in TenantIds /\ p.config \in TenantConfig
    BY TenantsAssumption DEF Post
  <2>3. QED BY <2>1, <2>2, FilledType, AcceptInv DEF Events
<1>4. ASSUME NEW w \in Workers, UpdateTenantLabels(w) PROVE RegistryInv'
  <2>1. PICK p \in Patches :
          /\ Known(p.tenant)
          /\ Accept(w, p.tenant,
                    [tenants[p.tenant] EXCEPT !.labels = Keep(p.labels, @), !.map = Keep(p.map, @)],
                    {f \in {"labels", "map"} : p[f] # Unchanged}, "label_mapping_updated")
    BY <1>4 DEF UpdateTenantLabels
  <2> DEFINE old == tenants[p.tenant]
             new == [old EXCEPT !.labels = Keep(p.labels, @), !.map = Keep(p.map, @)]
             given == {f \in {"labels", "map"} : p[f] # Unchanged}
  <2>2. p.tenant \in TenantIds /\ p.labels \in Labels \cup {Unchanged}
        /\ p.map \in Maps \cup {Unchanged}
    BY TenantsAssumption DEF Patch
  <2>3. old \in TenantConfig
    BY <1>1, <2>1, <2>2, KnownConfig
  <2>4. /\ new \in TenantConfig /\ new.profile = old.profile
        /\ new.labels = Keep(p.labels, old.labels) /\ new.map = Keep(p.map, old.map)
    BY <2>2, <2>3, MergeType
  <2>5. given \in SUBSET Fields
    BY DEF Fields
  <2>6. \A f \in Fields \ given : new[f] = old[f]
    BY <2>4 DEF Fields, Keep
  <2>7. QED BY <2>1, <2>2, <2>4, <2>5, <2>6, AcceptInv DEF Events
<1>5. ASSUME NEW w \in Workers, Save(w) PROVE RegistryInv'
  BY <1>1, <1>5, SaveInv
<1>6. ASSUME NEW w \in Workers, Upsert(w) PROVE RegistryInv'
  BY <1>1, <1>6, UpsertInv
<1>7. ASSUME NEW w \in Workers, LogUsage(w) PROVE RegistryInv'
  BY <1>1, <1>7, LogUsageInv
<1>8. CASE UNCHANGED vars
  BY <1>8 DEF vars, RegistryInv, TypeOK, BootInv, AloneInv, CommittedInv, MergedInv, RowInv,
             ServedMatchesStored, ServedIsPersistent, Saving, At, Busy
<1>9. QED BY <1>2, <1>3, <1>4, <1>5, <1>6, <1>7, <1>8 DEF Next, Handler

\* Without overlapping writes of a tenant, what is served is what is stored.
THEOREM TenantServedMatchesStored == Spec => []ServedMatchesStored
<1>1. Init => RegistryInv BY InitInv
<1>2. RegistryInv /\ [Next]_vars => RegistryInv' BY NextInv
<1>3. RegistryInv => ServedMatchesStored BY DEF RegistryInv
<1>4. QED BY <1>1, <1>2, <1>3, PTL DEF Spec

\* Every tenant that is served is stored, whatever overlaps.
THEOREM TenantServedIsPersistent == Spec => []ServedIsPersistent
<1>1. Init => RegistryInv BY InitInv
<1>2. RegistryInv /\ [Next]_vars => RegistryInv' BY NextInv
<1>3. RegistryInv => ServedIsPersistent BY DEF RegistryInv
<1>4. QED BY <1>1, <1>2, <1>3, PTL DEF Spec

\* One step changes no field of a row that its request did not name.
LEMMA StepKeeps ==
  ASSUME RegistryInv, [Next]_vars, NEW t \in TenantIds \ clashed,
         phase # "degraded", table[t] # NoTenant, table'[t] # table[t]
  PROVE  \E w \in Written(t) :
           \A f \in Fields \ req[w].given : table'[t][f] = table[t][f]
<1>1. /\ TypeOK /\ BootInv /\ AloneInv /\ CommittedInv /\ MergedInv
      /\ ServedMatchesStored
  BY DEF RegistryInv
<1>2. ~Seed
  BY DEF Seed
<1>3. PICK w \in Workers : Save(w)
  BY <1>2 DEF Next, Handler, Load, Crash, CreateOrUpdateTenant, UpdateTenantLabels, Accept,
              Upsert, LogUsage, vars
<1>4. /\ Busy(w) /\ At(w, "save") /\ Goto(w, "upsert")
      /\ table' = [table EXCEPT ![req[w].tenant] = req[w].config]
  BY <1>3 DEF Save, At, Busy
<1>5. req[w].tenant = t /\ table'[t] = req[w].config
  BY <1>1, <1>4 DEF TypeOK
<1>6. phase = "up"
  BY <1>1, <1>4 DEF TypeOK, Phases, BootInv
<1>7. w \in Saving(t) /\ \A v \in Saving(t) : v = w
  BY <1>1, <1>4, <1>5 DEF Saving, AloneInv
<1>8. tenants[t] = table[t]
  BY <1>1, <1>4, <1>6, <1>7 DEF ServedMatchesStored, At
<1>9. \A f \in Fields \ req[w].given : req[w].config[f] = tenants[t][f]
  BY <1>1, <1>4, <1>6, <1>7 DEF MergedInv
<1>10. req'[w].pc = "upsert"
  BY <1>1, <1>4, GotoType, BusyRecord DEF WriteRecord
<1>11. w \in Written(t)
  BY <1>4, <1>5, <1>10 DEF Written
<1>12. QED BY <1>5, <1>8, <1>9, <1>11

\* A write changes what its request names and a start-up changes no row.
THEOREM TenantKeepsOtherFields == Spec => KeepsOtherFields
<1>1. Init => RegistryInv BY InitInv
<1>2. RegistryInv /\ [Next]_vars => RegistryInv' BY NextInv
<1>3. RegistryInv /\ [Next]_vars =>
        [ \A t \in TenantIds \ clashed :
            phase # "degraded" /\ table[t] # NoTenant /\ table'[t] # table[t] =>
              \E w \in Written(t) :
                \A f \in Fields \ req[w].given : table'[t][f] = table[t][f] ]_vars
  BY StepKeeps
<1>4. QED BY <1>1, <1>2, <1>3, PTL DEF Spec, KeepsOtherFields

-----------------------------------------------------------------------------
(* How often a tenant is recorded as created.                              *)

Created(t)  == usage[t]["tenant_created"]
Creators(t) == {w \in Saving(t) : req[w].event = "tenant_created"}
Bound(n)    == Cardinality(Workers) * n

\* A write that is about to be recorded is stored and served.
LoggedInv == \A w \in Workers : At(w, "log") => /\ table[req[w].tenant] # NoTenant
                                                /\ tenants[req[w].tenant] # NoTenant

\* Whoever is recorded as created is stored, so a start-up that loads the table
\* knows the tenant.  While TENANTS does not have it every worker may create it;
\* as soon as TENANTS has it, only those that had begun may still be recorded.
Tally(t) ==
  /\ Created(t) > 0 => table[t] # NoTenant
  /\ ~Up => Created(t) <= Bound(1 + faults)
  /\ Up /\ tenants[t] # NoTenant =>
       Created(t) + Cardinality(Creators(t)) <= Bound(1 + faults)
  /\ phase = "degraded" /\ tenants[t] = NoTenant => Created(t) <= Bound(faults)
  /\ phase = "up" /\ tenants[t] = NoTenant => Created(t) = 0

CountInv == RegistryInv /\ LoggedInv /\ \A t \in TenantIds \ {Blank} : Tally(t)

LEMMA TimesSuccessor ==
  ASSUME NEW a \in Nat, NEW n \in Nat
  PROVE  a * n \in Nat /\ a * (1 + n) = a * n + a
  OBVIOUS

\* One more failure allows one more record for each worker.
LEMMA BoundStep ==
  ASSUME NEW n \in Nat
  PROVE  /\ Cardinality(Workers) \in Nat /\ Bound(n) \in Nat /\ Bound(1 + n) \in Nat
         /\ Bound(1 + n) = Bound(n) + Cardinality(Workers)
<1>1. Cardinality(Workers) \in Nat
  BY TenantsFinite, FS_CardinalityType
<1>2. QED BY <1>1, TimesSuccessor DEF Bound

\* A set of workers has no more members than there are workers.
LEMMA WorkersCount ==
  ASSUME NEW S \in SUBSET Workers, NEW T \in SUBSET S
  PROVE  /\ Cardinality(S) \in Nat /\ Cardinality(T) \in Nat
         /\ Cardinality(T) <= Cardinality(S) /\ Cardinality(S) <= Cardinality(Workers)
         /\ \A w \in S : Cardinality(S \ {w}) = Cardinality(S) - 1
<1>1. IsFiniteSet(S) /\ Cardinality(S) <= Cardinality(Workers)
  BY TenantsFinite, FS_Subset
<1>2. IsFiniteSet(T) /\ Cardinality(T) <= Cardinality(S)
  BY <1>1, FS_Subset
<1>3. QED BY <1>1, <1>2, FS_CardinalityType, FS_RemoveElement

LEMMA CreatedType ==
  ASSUME TypeOK, NEW t \in TenantIds
  PROVE  Created(t) \in Nat /\ Creators(t) \in SUBSET Workers /\ faults \in Nat
  BY DEF TypeOK, Created, Creators, Saving, Events

\* A step that records no creation of t keeps the tally, when it takes t out of
\* neither table nor TENANTS and no known tenant gets another creator.
LEMMA TallyKept ==
  ASSUME TypeOK, TypeOK', NEW t \in TenantIds, Tally(t), Up, phase' = phase,
         Created(t)' = Created(t), faults' \in {faults, faults + 1},
         table[t] # NoTenant => table'[t] # NoTenant,
         tenants[t] # NoTenant => /\ tenants'[t] # NoTenant
                                  /\ Creators(t)' \subseteq Creators(t)
  PROVE  Tally(t)'
<1>1. Created(t) \in Nat /\ Creators(t) \in SUBSET Workers /\ faults \in Nat
  BY CreatedType
<1>2. PICK new : new = Creators(t)'
  OBVIOUS
<1>3. new \in SUBSET Workers
  BY <1>2, CreatedType DEF Creators, Saving
<1>4. /\ Cardinality(new) \in Nat /\ Cardinality(Creators(t)) \in Nat
      /\ Cardinality(new) <= Cardinality(Workers)
      /\ tenants[t] # NoTenant => Cardinality(new) <= Cardinality(Creators(t))
  BY <1>1, <1>2, <1>3, WorkersCount
<1>5. /\ Cardinality(Workers) \in Nat /\ Bound(faults) \in Nat /\ Bound(1 + faults) \in Nat
      /\ Bound(1 + faults) = Bound(faults) + Cardinality(Workers)
      /\ Bound(1 + (1 + faults)) = Bound(1 + faults) + Cardinality(Workers)
  BY <1>1, BoundStep
<1>6. /\ Bound(faults') >= Bound(faults) /\ Bound(1 + faults') >= Bound(1 + faults)
      /\ Bound(faults') \in Nat /\ Bound(1 + faults') \in Nat
  <2>1. CASE faults' = faults
    BY <1>5, <2>1
  <2>2. CASE faults' = faults + 1
    <3>1. faults' = 1 + faults
      BY <1>1, <2>2
    <3>2. QED BY <1>5, <3>1
  <2>3. QED BY <2>1, <2>2
<1>7. Created(t)' > 0 => table'[t] # NoTenant
  BY DEF Tally
<1>8. phase = "up" \/ phase = "degraded"
  BY DEF Up
<1>9. Up' /\ tenants'[t] # NoTenant => Created(t)' + Cardinality(new) <= Bound(1 + faults')
  <2>1. CASE tenants[t] # NoTenant
    BY <1>1, <1>4, <1>5, <1>6, <2>1 DEF Tally
  <2>2. CASE tenants[t] = NoTenant
    <3>1. Created(t) <= Bound(faults)
      BY <1>1, <1>5, <1>8, <2>2 DEF Tally
    <3>2. QED BY <1>1, <1>4, <1>5, <1>6, <3>1
  <2>3. QED BY <2>1, <2>2
<1>10. /\ Up'
       /\ phase' = "degraded" /\ tenants'[t] = NoTenant => Created(t)' <= Bound(faults')
       /\ phase' = "up" /\ tenants'[t] = NoTenant => Created(t)' = 0
  BY <1>1, <1>5, <1>6 DEF Tally, Up
<1>11. QED
  <2>1. Up' /\ tenants'[t] # NoTenant => Created(t)' + Cardinality(Creators(t)') <= Bound(1 + faults')
    BY <1>2, <1>9
  <2>2. QED BY <1>7, <1>10, <2>1 DEF Tally, Bound, Up, Created, Creators, Saving

\* Taking a write records nothing, and whoever takes a POST of a tenant that
\* TENANTS has is no creator.
LEMMA AcceptCount ==
  ASSUME CountInv, TypeOK', NEW w \in Workers, NEW t \in TenantIds, NEW c, NEW g, NEW e,
         Accept(w, t, c, g, e), t # Blank /\ tenants[t] # NoTenant => e # "tenant_created"
  PROVE  LoggedInv' /\ \A u \in TenantIds \ {Blank} : Tally(u)'
<1>1. TypeOK /\ LoggedInv /\ \A u \in TenantIds \ {Blank} : Tally(u)
  BY DEF CountInv, RegistryInv
<1>2. /\ req'[w] = [pc |-> "save", tenant |-> t, config |-> c, given |-> g, event |-> e]
      /\ \A v \in Workers \ {w} : req'[v] = req[v]
      /\ Up /\ ~Busy(w) /\ UNCHANGED <<table, tenants, phase>>
  BY <1>1, AcceptStep
<1>3. LoggedInv'
  BY <1>1, <1>2 DEF LoggedInv, At
<1>4. ASSUME NEW u \in TenantIds \ {Blank} PROVE Tally(u)'
  <2>1. Created(u)' = Created(u) /\ faults' = faults
    BY DEF Accept, Created
  <2>2. tenants[u] # NoTenant => Creators(u)' \subseteq Creators(u)
    BY <1>2 DEF Creators, Saving, Busy
  <2>3. QED BY <1>1, <1>2, <2>1, <2>2, TallyKept
<1>5. QED BY <1>3, <1>4

\* A commit adds rows, and drops a write only when it fails.
LEMMA SaveCount ==
  ASSUME CountInv, TypeOK', NEW w \in Workers, Save(w)
  PROVE  LoggedInv' /\ \A u \in TenantIds \ {Blank} : Tally(u)'
<1>1. TypeOK /\ BootInv /\ LoggedInv /\ \A u \in TenantIds \ {Blank} : Tally(u)
  BY DEF CountInv, RegistryInv
<1>2. /\ Busy(w) /\ (Goto(w, "upsert") \/ Finish(w))
      /\ req[w].tenant \in TenantIds /\ req[w].config # NoTenant
  BY <1>1, BusyRecord DEF Save, At, Busy, WriteRecord
<1>3. /\ req'[w].pc \in {"upsert", "idle"}
      /\ req'[w].pc = "upsert" => /\ req'[w].tenant = req[w].tenant
                                  /\ req'[w].event = req[w].event
      /\ \A v \in Workers \ {w} : req'[v] = req[v]
  <2>1. CASE Goto(w, "upsert")
    BY <1>1, <1>2, <2>1, GotoType, BusyRecord DEF WriteRecord
  <2>2. CASE Finish(w)
    BY <1>1, <2>2, FinishType DEF NoRequest
  <2>3. QED BY <1>2, <2>1, <2>2
<1>4. \A u \in TenantIds : table[u] # NoTenant => table'[u] # NoTenant
  BY <1>1, <1>2 DEF Save, TypeOK
<1>5. UNCHANGED <<tenants, usage, phase>> /\ faults' \in {faults, faults + 1}
  BY DEF Save, Calls
<1>6. Up
  BY <1>1, <1>2 DEF BootInv, TypeOK, Phases, Up
<1>7. LoggedInv'
  <2> SUFFICES ASSUME NEW v \in Workers, At(v, "log")'
               PROVE  table'[req'[v].tenant] # NoTenant /\ tenants'[req'[v].tenant] # NoTenant
    BY DEF LoggedInv
  <2>1. req'[v] = req[v] /\ At(v, "log")
    BY <1>3 DEF At
  <2>2. req[v].tenant \in TenantIds
    BY <1>1, <2>1, BusyRecord DEF At, Busy, WriteRecord
  <2>3. QED BY <1>1, <1>4, <1>5, <2>1, <2>2 DEF LoggedInv
<1>8. ASSUME NEW u \in TenantIds \ {Blank} PROVE Tally(u)'
  <2>1. Created(u)' = Created(u)
    BY <1>5 DEF Created
  <2>2. Creators(u)' \subseteq Creators(u)
    BY <1>2, <1>3 DEF Creators, Saving, Busy
  <2>3. QED BY <1>1, <1>4, <1>5, <1>6, <2>1, <2>2, TallyKept
<1>9. QED BY <1>7, <1>8

\* TENANTS gets the tenant; its creators stay at most all workers.
LEMMA UpsertCount ==
  ASSUME CountInv, TypeOK', NEW w \in Workers, Upsert(w)
  PROVE  LoggedInv' /\ \A u \in TenantIds \ {Blank} : Tally(u)'
<1>1. /\ TypeOK /\ BootInv /\ RowInv /\ LoggedInv
      /\ \A u \in TenantIds \ {Blank} : Tally(u)
  BY DEF CountInv, RegistryInv
<1>2. /\ Busy(w) /\ At(w, "upsert") /\ (Goto(w, "log") \/ Finish(w))
      /\ req[w].tenant \in TenantIds /\ req[w].config # NoTenant
  BY <1>1, BusyRecord DEF Upsert, At, Busy, WriteRecord
<1>3. /\ req'[w].pc \in {"log", "idle"}
      /\ req'[w].pc = "log" => /\ req'[w].tenant = req[w].tenant
                               /\ req'[w].event = req[w].event
      /\ \A v \in Workers \ {w} : req'[v] = req[v]
  <2>1. CASE Goto(w, "log")
    BY <1>1, <1>2, <2>1, GotoType, BusyRecord DEF WriteRecord
  <2>2. CASE Finish(w)
    BY <1>1, <2>2, FinishType DEF NoRequest
  <2>3. QED BY <1>2, <2>1, <2>2
<1>4. UNCHANGED <<table, usage, phase, faults>>
  BY DEF Upsert
<1>5. /\ tenants'[req[w].tenant] # NoTenant
      /\ \A u \in TenantIds : tenants[u] # NoTenant => tenants'[u] # NoTenant
  BY <1>1, <1>2 DEF Upsert, TypeOK
<1>6. Up
  BY <1>1, <1>2 DEF BootInv, TypeOK, Phases, Up
<1>7. LoggedInv'
  <2> SUFFICES ASSUME NEW v \in Workers, At(v, "log")'
               PROVE  table'[req'[v].tenant] # NoTenant /\ tenants'[req'[v].tenant] # NoTenant
    BY DEF LoggedInv
  <2>1. CASE v = w
    BY <1>1, <1>2, <1>3, <1>4, <1>5, <2>1 DEF RowInv, At
  <2>2. CASE v # w
    <3>1. req'[v] = req[v] /\ At(v, "log")
      BY <1>3, <2>2 DEF At
    <3>2. req[v].tenant \in TenantIds
      BY <1>1, <3>1, BusyRecord DEF At, Busy, WriteRecord
    <3>3. QED BY <1>1, <1>4, <1>5, <3>1, <3>2 DEF LoggedInv
  <2>3. QED BY <2>1, <2>2
<1>8. ASSUME NEW u \in TenantIds \ {Blank} PROVE Tally(u)'
  <2>1. Created(u)' = Created(u)
    BY <1>4 DEF Created
  <2>2. Creators(u)' \subseteq Creators(u)
    BY <1>2, <1>3 DEF Creators, Saving, Busy
  <2>3. QED BY <1>1, <1>4, <1>5, <1>6, <2>1, <2>2, TallyKept
<1>9. QED BY <1>7, <1>8

\* A recorded creation is one more record and one creator less.
LEMMA LogUsageCount ==
  ASSUME CountInv, TypeOK', NEW w \in Workers, LogUsage(w)
  PROVE  LoggedInv' /\ \A u \in TenantIds \ {Blank} : Tally(u)'
<1> DEFINE t == req[w].tenant
           e == req[w].event
<1>1. TypeOK /\ BootInv /\ LoggedInv /\ \A u \in TenantIds \ {Blank} : Tally(u)
  BY DEF CountInv, RegistryInv
<1>2. /\ Busy(w) /\ At(w, "log") /\ t \in TenantIds /\ e \in Events \cup {"none"}
      /\ UNCHANGED <<table, tenants, phase>>
  BY <1>1, BusyRecord DEF LogUsage, At, Busy, WriteRecord
<1>3. req'[w] = NoRequest /\ \A v \in Workers \ {w} : req'[v] = req[v]
  BY <1>1, FinishType DEF LogUsage
<1>4. Up
  BY <1>1, <1>2 DEF BootInv, TypeOK, Phases, Up
<1>5. LoggedInv'
  BY <1>1, <1>2, <1>3 DEF LoggedInv, At, NoRequest
<1>6. \A u \in TenantIds : Creators(u)' = Creators(u) \ {w}
  BY <1>3 DEF Creators, Saving, Busy, NoRequest
<1>7. ASSUME NEW u \in TenantIds \ {Blank} PROVE Tally(u)'
  <2>1. CASE Created(u)' = Created(u)
    <3>1. faults' \in {faults, faults + 1}
      BY DEF LogUsage, Calls
    <3>2. QED BY <1>1, <1>2, <1>4, <1>6, <2>1, <3>1, TallyKept
  <2>2. CASE Created(u)' # Created(u)
    <3>1. /\ faults' = faults /\ u = t /\ e = "tenant_created"
          /\ Created(u)' = Created(u) + 1
      BY <1>1, <1>2, <2>2 DEF LogUsage, Calls, Created, TypeOK, Events
    <3>2. w \in Creators(u)
      BY <1>2, <3>1 DEF Creators, Saving
    <3>3. table[u] # NoTenant /\ tenants[u] # NoTenant
      BY <1>1, <1>2, <3>1 DEF LoggedInv
    <3>4. Created(u) + Cardinality(Creators(u)) <= Bound(1 + faults)
      BY <1>1, <1>4, <3>3 DEF Tally
    <3>5. /\ Created(u) \in Nat /\ Creators(u) \in SUBSET Workers /\ faults \in Nat
      BY <1>1, CreatedType
    <3>6. /\ Cardinality(Creators(u)) \in Nat
          /\ Cardinality(Creators(u) \ {w}) = Cardinality(Creators(u)) - 1
      BY <3>2, <3>5, WorkersCount
    <3>7. Created(u)' + Cardinality(Creators(u)') <= Bound(1 + faults')
      <4>1. Cardinality(Creators(u)') = Cardinality(Creators(u)) - 1
        BY <1>6, <3>6
      <4>2. Bound(1 + faults) \in Nat
        BY <3>5, BoundStep
      <4>3. QED BY <3>1, <3>4, <3>5, <3>6, <4>1, <4>2
    <3>8. Up'
      BY <1>2, <1>4 DEF Up
    <3>9. QED BY <1>2, <3>3, <3>7, <3>8 DEF Tally, Up, Bound
  <2>3. QED BY <2>1, <2>2
<1>8. QED BY <1>5, <1>7

\* A start-up that works serves every stored tenant; one that fails has used up
\* a failure; a restart forgets the writes in flight.
LEMMA BootCount ==
  ASSUME CountInv, TypeOK', RegistryInv', Seed \/ Load \/ Crash
  PROVE  LoggedInv' /\ \A u \in TenantIds \ {Blank} : Tally(u)'
<1>1. TypeOK /\ BootInv /\ \A u \in TenantIds \ {Blank} : Tally(u)
  BY DEF CountInv, RegistryInv
<1>2. \A v \in Workers : ~Busy(v)'
  BY <1>1 DEF Seed, Load, Crash, BootInv, Busy, NoRequest
<1>3. LoggedInv'
  BY <1>2 DEF LoggedInv, At, Busy
<1>4. ASSUME NEW u \in TenantIds \ {Blank} PROVE Tally(u)'
  <2>1. /\ Created(u) \in Nat /\ Creators(u) \in SUBSET Workers /\ faults \in Nat
        /\ Cardinality(Creators(u)) \in Nat
    BY <1>1, CreatedType, WorkersCount
  <2>2. /\ Cardinality(Workers) \in Nat /\ Bound(faults) \in Nat /\ Bound(1 + faults) \in Nat
        /\ Bound(1 + faults) = Bound(faults) + Cardinality(Workers)
        /\ Bound(1 + (1 + faults)) = Bound(1 + faults) + Cardinality(Workers)
    BY <2>1, BoundStep
  <2>3. Created(u)' = Created(u)
    BY DEF Seed, Load, Crash, Created
  <2>4. PICK new : new = Creators(u)'
    OBVIOUS
  <2>5. new = {}
    BY <1>2, <2>4 DEF Creators, Saving
  <2>6. Cardinality(Creators(u)') = 0
    BY <2>4, <2>5, FS_EmptySet
  <2>7. table[u] # NoTenant => table'[u] # NoTenant
    BY DEF Seed, Load, Crash
  <2>8. Created(u) <= Bound(1 + faults)
    BY <1>1, <2>1, <2>2 DEF Tally, Up, TypeOK, Phases
  <2>9. CASE phase' = "degraded"
    <3>1. faults' = 1 + faults
      BY <1>1, <2>1, <2>9 DEF Seed, Load, Crash, Calls
    <3>2. Bound(faults') = Bound(1 + faults) /\ Bound(1 + faults') = Bound(1 + (1 + faults))
      BY <3>1
    <3>3. Created(u)' + Cardinality(Creators(u)') <= Bound(1 + faults')
      BY <2>1, <2>2, <2>3, <2>6, <2>8, <3>2
    <3>4. Created(u)' <= Bound(faults')
      BY <2>3, <2>8, <3>2
    <3>5. Created(u)' > 0 => table'[u] # NoTenant
      BY <1>1, <2>3, <2>7 DEF Tally
    <3>6. QED BY <2>9, <3>3, <3>4, <3>5 DEF Tally, Up, Bound
  <2>10. CASE phase' = "up"
    <3>1. faults' = faults /\ Load
      BY <2>10 DEF Seed, Load, Crash, Calls
    <3>2. Created(u)' + Cardinality(Creators(u)') <= Bound(1 + faults')
      BY <2>1, <2>2, <2>3, <2>6, <2>8, <3>1
    <3>3. Created(u)' > 0 => table'[u] # NoTenant
      BY <1>1, <2>3, <2>7 DEF Tally
    <3>4. tenants'[u] = NoTenant => Created(u)' = 0
      <4>1. tenants'[u] = NoTenant => table[u] = NoTenant
        BY <2>10, <3>1 DEF Load
      <4>2. QED BY <1>1, <2>1, <2>3, <4>1 DEF Tally
    <3>5. QED BY <2>10, <3>2, <3>3, <3>4 DEF Tally, Up
  <2>11. CASE phase' \in {"seed", "load"}
    <3>1. faults' = faults
      BY <2>11 DEF Seed, Load, Crash, Calls
    <3>2. Created(u)' <= Bound(1 + faults')
      BY <2>3, <2>8, <3>1
    <3>3. Created(u)' > 0 => table'[u] # NoTenant
      BY <1>1, <2>3, <2>7 DEF Tally
    <3>4. QED BY <2>11, <3>2, <3>3 DEF Tally, Up, Bound
  <2>12. phase' \in Phases
    BY DEF TypeOK
  <2>13. QED BY <2>9, <2>10, <2>11, <2>12 DEF Phases
<1>5. QED BY <1>3, <1>4

LEMMA InitCount == ASSUME Init PROVE CountInv
<1>1. RegistryInv /\ LoggedInv
  BY InitInv DEF Init, LoggedInv, At, NoRequest
<1>2. ASSUME NEW t \in TenantIds \ {Blank} PROVE Tally(t)
  <2>1. Bound(1 + faults) \in Nat
    BY BoundStep DEF Init
  <2>2. Created(t) = 0 /\ phase = "seed"
    BY DEF Init, Created, Events
  <2>3. QED BY <2>1, <2>2 DEF Tally, Up
<1>3. QED BY <1>1, <1>2 DEF CountInv

LEMMA NextCount == ASSUME CountInv, [Next]_vars PROVE CountInv'
<1>1. /\ TypeOK /\ TypeOK' /\ RegistryInv' /\ LoggedInv
      /\ \A u \in TenantIds \ {Blank} : Tally(u)
  BY NextType, NextInv DEF CountInv, RegistryInv
<1> DEFINE Counted == LoggedInv' /\ \A u \in TenantIds \ {Blank} : Tally(u)'
<1>2. CASE Seed \/ Load \/ Crash
  <2>1. Counted BY <1>1, <1>2, BootCount
  <2>2. QED BY <1>1, <2>1 DEF CountInv
<1>3. ASSUME NEW w \in Workers, CreateOrUpdateTenant(w) PROVE CountInv'
  <2>1. PICK p \in Posts :
          Accept(w, p.tenant,
                 [p.config EXCEPT !.labels = IF @ = NoLabels THEN ItSupport ELSE @],
                 Fields, IF Known(p.tenant) THEN "none" ELSE "tenant_created")
    BY <1>3 DEF CreateOrUpdateTenant
  <2>2. p.tenant \in TenantIds
    BY TenantsAssumption DEF Post
  <2>3. p.tenant # Blank /\ tenants[p.tenant] # NoTenant =>
          (IF Known(p.tenant) THEN "none" ELSE "tenant_created") # "tenant_created"
    BY DEF Known
  <2>4. Counted
    BY <1>1, <2>1, <2>2, <2>3, AcceptCount
  <2>5. QED BY <1>1, <2>4 DEF CountInv
<1>4. ASSUME NEW w \in Workers, UpdateTenantLabels(w) PROVE CountInv'
  <2>1. PICK p \in Patches :
          /\ Known(p.tenant)
          /\ Accept(w, p.tenant,
                    [tenants[p.tenant] EXCEPT !.labels = Keep(p.labels, @), !.map = Keep(p.map, @)],
                    {f \in {"labels", "map"} : p[f] # Unchanged}, "label_mapping_updated")
    BY <1>4 DEF UpdateTenantLabels
  <2>2. p.tenant \in TenantIds
    BY TenantsAssumption DEF Patch
  <2>3. Counted
    BY <1>1, <2>1, <2>2, AcceptCount
  <2>4. QED BY <1>1, <2>3 DEF CountInv
<1>5. ASSUME NEW w \in Workers, Save(w) \/ Upsert(w) \/ LogUsage(w) PROVE CountInv'
  <2>1. Counted
    BY <1>1, <1>5, SaveCount, UpsertCount, LogUsageCount
  <2>2. QED BY <1>1, <2>1 DEF CountInv
<1>6. CASE UNCHANGED vars
  <2>1. UNCHANGED <<table, tenants, usage, phase, req, faults>>
    BY <1>6 DEF vars
  <2>2. LoggedInv'
    BY <1>1, <2>1 DEF LoggedInv, At
  <2>3. ASSUME NEW u \in TenantIds \ {Blank} PROVE Tally(u)'
    BY <1>1, <2>1 DEF Tally, Created, Creators, Saving, Busy, Bound, Up
  <2>4. QED BY <1>1, <2>2, <2>3 DEF CountInv
<1>7. QED BY <1>2, <1>3, <1>4, <1>5, <1>6 DEF Next, Handler

\* A tenant is recorded as created once per worker, and once more per worker for
\* every SQLite call that raised: only a start-up that failed makes a known
\* tenant look new.
THEOREM TenantCreatedBounded == Spec => []CreatedBounded
<1>1. Init => CountInv BY InitCount
<1>2. CountInv /\ [Next]_vars => CountInv' BY NextCount
<1>3. CountInv => CreatedBounded
  <2> SUFFICES ASSUME CountInv, NEW t \in TenantIds \ {Blank}
               PROVE  Created(t) <= Bound(1 + faults)
    BY DEF CreatedBounded, Created, Bound
  <2>1. /\ TypeOK /\ Tally(t)
    BY DEF CountInv, RegistryInv
  <2>2. /\ Created(t) \in Nat /\ Creators(t) \in SUBSET Workers /\ faults \in Nat
        /\ Cardinality(Creators(t)) \in Nat
    BY <2>1, CreatedType, WorkersCount
  <2>3. /\ Cardinality(Workers) \in Nat /\ Bound(faults) \in Nat /\ Bound(1 + faults) \in Nat
        /\ Bound(1 + faults) = Bound(faults) + Cardinality(Workers)
    BY <2>2, BoundStep
  <2>4. QED BY <2>1, <2>2, <2>3 DEF Tally, Up, TypeOK, Phases
<1>4. QED BY <1>1, <1>2, <1>3, PTL DEF Spec
=============================================================================
