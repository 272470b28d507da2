--------------------------- MODULE AdminPageProofs ---------------------------
(***************************************************************************)
(* What the usage log and the page in front of it promise, for any         *)
(* threads, tenants, events and bounds.                                    *)
(*                                                                         *)
(* First, UsageLog implements UsageLedger.  The step that matters is the   *)
(* return of a summary: its three counts were taken at three moments and   *)
(* the ledger takes them at one.  They agree because whoever is inside a   *)
(* call holds the lock (Held) and so what it has read is still what the    *)
(* table says (Fresh).                                                     *)
(*                                                                         *)
(* Then the page: an invariant on every fetch in flight says which tenant  *)
(* it may name, whose labels it carries and which rows it has caused, and  *)
(* with it what the page shows is listed, saved at home and counted.       *)
(***************************************************************************)
EXTENDS AdminPage, FiniteSetTheorems, TLAPS

Stages == {"idle", "open", "ready"} \cup Holding

\* A call in progress has a request and has returned nothing yet.
Typed ==
  /\ reply = [t \in Threads |-> reply[t]]
  /\ use = [t \in Threads |-> [at |-> use[t].at, q |-> use[t].q, got |-> use[t].got]]
  /\ \A t \in Threads :
       /\ use[t].at \in Stages
       /\ use[t].at # "idle" => use[t].q \in Ledger!Calls /\ reply[t] = None
       /\ use[t].at \in {"total", "events"} => use[t].q \in Ledger!Filters

Held == \A t \in Threads : use[t].at \in Holding => lock = t

\* What a thread has read is what the table says.
Fresh == \A t \in Threads : LET u == use[t] IN
  /\ u.at = "total" => u.got = Ledger!Total(table, u.q)
  /\ u.at = "events" => u.got = <<Ledger!Total(table, u.q), Ledger!ByEvent(table, u.q)>>
  /\ u.at \in {"open", "ready", "first"} => u.got = None
  /\ u.at = "done" /\ u.q \in Ledger!Appends => u.got = None
  /\ u.at = "done" /\ u.q \in Ledger!Filters => u.got = Ledger!Summary(table, u.q)
  /\ u.at = "done" /\ u.q \in Ledger!Lists => u.got = Ledger!Page(table, u.q)

IInv == Typed /\ Held /\ Fresh

-----------------------------------------------------------------------------
\* A request says by its op which of the three kinds it is.
LEMMA CallKinds ==
  ASSUME NEW q \in Ledger!Calls
  PROVE  /\ q.op = "append" <=> q \in Ledger!Appends
         /\ q.op = "summary" <=> q \in Ledger!Filters
         /\ q.op = "list" <=> q \in Ledger!Lists
         /\ q \in Ledger!Appends \/ q \in Ledger!Filters \/ q \in Ledger!Lists
         /\ q # None
<1>1. q \in Ledger!Appends => q.op = "append"
  BY DEF Ledger!Appends
<1>2. q \in Ledger!Filters => q.op = "summary"
  BY DEF Ledger!Filters
<1>3. q \in Ledger!Lists => q.op = "list"
  BY DEF Ledger!Lists
<1> QED BY <1>1, <1>2, <1>3, NoneAssumption DEF Ledger!Calls

\* What the invariant says of the threads that do not move.
LEMMA OthersKeep ==
  ASSUME IInv, NEW t \in Threads, NEW u, NEW r,
         use' = [use EXCEPT ![t] = u],
         reply' = [reply EXCEPT ![t] = r],
         u = [at |-> u.at, q |-> u.q, got |-> u.got],
         u.at \in Stages,
         u.at # "idle" => u.q \in Ledger!Calls /\ r = None,
         u.at \in {"total", "events"} => u.q \in Ledger!Filters,
         u.at \in Holding => lock' = t,
         \A v \in Threads \ {t} : use[v].at \in Holding => lock' = v,
         \A v \in Threads \ {t} : use[v].at \in Holding => table' = table,
         u.at = "total" => u.got = Ledger!Total(table', u.q),
         u.at = "events" => u.got = <<Ledger!Total(table', u.q), Ledger!ByEvent(table', u.q)>>,
         u.at \in {"open", "ready", "first"} => u.got = None,
         u.at = "done" /\ u.q \in Ledger!Appends => u.got = None,
         u.at = "done" /\ u.q \in Ledger!Filters => u.got = Ledger!Summary(table', u.q),
         u.at = "done" /\ u.q \in Ledger!Lists => u.got = Ledger!Page(table', u.q)
  PROVE  IInv'
<1>1. \A v \in Threads \ {t} : use'[v] = use[v] /\ reply'[v] = reply[v]
  BY DEF IInv, Typed
<1>2. use'[t] = u /\ reply'[t] = r
  BY DEF IInv, Typed
<1>3. Typed'
  <2>1. reply' = [v \in Threads |-> reply'[v]]
    BY DEF IInv, Typed
  <2>2. ASSUME NEW v \in Threads
        PROVE  use'[v] = [at |-> use'[v].at, q |-> use'[v].q, got |-> use'[v].got]
    BY <1>1, <1>2 DEF IInv, Typed
  <2>3. use' = [v \in Threads |-> use'[v]]
    BY DEF IInv, Typed
  <2>4. use' = [v \in Threads |-> [at |-> use'[v].at, q |-> use'[v].q, got |-> use'[v].got]]
    BY <2>2, <2>3
  <2> QED BY <1>1, <1>2, <2>1, <2>4 DEF IInv, Typed
<1>4. Held'
  BY <1>1, <1>2 DEF IInv, Held
<1>5. ASSUME NEW v \in Threads \ {t}
      PROVE  LET w == use'[v] IN
             /\ w.at = "total" => w.got = Ledger!Total(table', w.q)
             /\ w.at = "events" => w.got = <<Ledger!Total(table', w.q), Ledger!ByEvent(table', w.q)>>
             /\ w.at \in {"open", "ready", "first"} => w.got = None
             /\ w.at = "done" /\ w.q \in Ledger!Appends => w.got = None
             /\ w.at = "done" /\ w.q \in Ledger!Filters => w.got = Ledger!Summary(table', w.q)
             /\ w.at = "done" /\ w.q \in Ledger!Lists => w.got = Ledger!Page(table', w.q)
  <2>1. use'[v] = use[v]
    BY <1>1
  <2>2. CASE use[v].at \in Holding
    BY <2>1, <2>2 DEF IInv, Fresh
  <2>3. CASE use[v].at \notin Holding
    BY <2>1, <2>3 DEF IInv, Fresh, Holding
  <2> QED BY <2>2, <2>3
<1>6. Fresh'
  BY <1>2, <1>5 DEF Fresh
<1> QED BY <1>3, <1>4, <1>6 DEF IInv

\* The thread that moves, as it was.
LEMMA Mover ==
  ASSUME IInv, NEW t \in Threads
  PROVE  /\ use[t] = [at |-> use[t].at, q |-> use[t].q, got |-> use[t].got]
         /\ use[t].at \in Stages
         /\ use[t].at # "idle" => use[t].q \in Ledger!Calls /\ reply[t] = None
         /\ use[t].at \in Holding => lock = t
         /\ reply = [reply EXCEPT ![t] = reply[t]]
         /\ \A v \in Threads \ {t} : use[v].at \in Holding => lock = v
         /\ use[t].at \in Holding => \A v \in Threads \ {t} : use[v].at \notin Holding
         /\ lock = None => \A v \in Threads : use[v].at \notin Holding
  BY NoneAssumption DEF IInv, Typed, Held

LEMMA AskKeeps ==
  ASSUME IInv, NEW t \in Threads, NEW q \in Ledger!Calls, Ask(t, q)
  PROVE  IInv'
<1> DEFINE u == [at |-> "open", q |-> q, got |-> None]
<1>1. /\ use' = [use EXCEPT ![t] = u] /\ reply' = [reply EXCEPT ![t] = None]
      /\ table' = table /\ lock' = lock
  BY DEF Ask
<1>2. /\ u = [at |-> u.at, q |-> u.q, got |-> u.got]
      /\ u.at = "open" /\ u.q = q /\ u.got = None
  OBVIOUS
<1>3. u.at \in Stages /\ u.at \notin Holding
  BY <1>2 DEF Stages, Holding
<1> HIDE DEF u
<1> QED BY <1>1, <1>2, <1>3, Mover, OthersKeep

LEMMA InitDbKeeps ==
  ASSUME IInv, NEW t \in Threads, InitDb(t)
  PROVE  IInv'
<1> DEFINE u == [at |-> "ready", q |-> use[t].q, got |-> use[t].got]
<1>1. /\ use[t].at = "open"
      /\ use' = [use EXCEPT ![t] = u]
      /\ table' = table /\ lock' = lock /\ reply' = reply
  BY DEF InitDb, At, Move
<1>2. use[t].got = None
  BY <1>1 DEF IInv, Fresh
<1>3. /\ u = [at |-> u.at, q |-> u.q, got |-> u.got]
      /\ u.at = "ready" /\ u.q = use[t].q /\ u.got = use[t].got
  OBVIOUS
<1>4. u.at \in Stages /\ u.at \notin Holding
  BY <1>3 DEF Stages, Holding
<1> HIDE DEF u
<1> QED BY <1>1, <1>2, <1>3, <1>4, Mover, OthersKeep

LEMMA AcquireKeeps ==
  ASSUME IInv, NEW t \in Threads, Acquire(t)
  PROVE  IInv'
<1> DEFINE u == [at |-> "first", q |-> use[t].q, got |-> use[t].got]
<1>1. /\ use[t].at = "ready" /\ lock = None
      /\ use' = [use EXCEPT ![t] = u]
      /\ table' = table /\ lock' = t /\ reply' = reply
  BY DEF Acquire, At, Move
<1>2. use[t].got = None
  BY <1>1 DEF IInv, Fresh
<1>3. /\ u = [at |-> u.at, q |-> u.q, got |-> u.got]
      /\ u.at = "first" /\ u.q = use[t].q /\ u.got = use[t].got
  OBVIOUS
<1>4. u.at \in Stages
  BY <1>3 DEF Stages, Holding
<1> HIDE DEF u
<1> QED BY <1>1, <1>2, <1>3, <1>4, Mover, OthersKeep

LEMMA CommitKeeps ==
  ASSUME IInv, NEW t \in Threads, Commit(t)
  PROVE  IInv'
<1> DEFINE u == [at |-> "done", q |-> use[t].q, got |-> use[t].got]
<1>1. /\ use[t].at = "first" /\ use[t].q.op = "append"
      /\ use' = [use EXCEPT ![t] = u]
      /\ lock' = lock /\ reply' = reply
  BY DEF Commit, At, Move
<1>2. use[t].got = None /\ use[t].at \in Holding
  BY <1>1 DEF IInv, Fresh, Holding
<1>3. /\ use[t].q \in Ledger!Calls
      /\ use[t].q \notin Ledger!Filters /\ use[t].q \notin Ledger!Lists
  BY <1>1, Mover, CallKinds
<1>4. /\ u = [at |-> u.at, q |-> u.q, got |-> u.got]
      /\ u.at = "done" /\ u.q = use[t].q /\ u.got = use[t].got
  OBVIOUS
<1>5. u.at \in Stages
  BY <1>4 DEF Stages, Holding
<1> HIDE DEF u
<1> QED BY <1>1, <1>2, <1>3, <1>4, <1>5, Mover, OthersKeep

LEMMA QueryTotalKeeps ==
  ASSUME IInv, NEW t \in Threads, QueryTotal(t)
  PROVE  IInv'
<1> DEFINE u == [at |-> "total", q |-> use[t].q, got |-> Ledger!Total(table, use[t].q)]
<1>1. /\ use[t].at = "first" /\ use[t].q.op = "summary"
      /\ use' = [use EXCEPT ![t] = u]
      /\ table' = table /\ lock' = lock /\ reply' = reply
  BY DEF QueryTotal, Move
<1>2. use[t].at \in Holding
  BY <1>1 DEF Holding
<1>3. use[t].q \in Ledger!Calls /\ use[t].q \in Ledger!Filters
  BY <1>1, Mover, CallKinds
<1>4. /\ u = [at |-> u.at, q |-> u.q, got |-> u.got]
      /\ u.at = "total" /\ u.q = use[t].q /\ u.got = Ledger!Total(table, use[t].q)
  OBVIOUS
<1>5. u.at \in Stages
  BY <1>4 DEF Stages, Holding
<1> HIDE DEF u
<1>6. u.got = Ledger!Total(table', u.q)
  BY <1>1, <1>4
<1> QED BY <1>1, <1>2, <1>3, <1>4, <1>5, <1>6, Mover, OthersKeep

LEMMA QueryBreakdownKeeps ==
  ASSUME IInv, NEW t \in Threads, QueryBreakdown(t)
  PROVE  IInv'
<1> DEFINE got == <<use[t].got, Ledger!ByEvent(table, use[t].q)>>
           u   == [at |-> "events", q |-> use[t].q, got |-> got]
<1>1. /\ use[t].at = "total"
      /\ use' = [use EXCEPT ![t] = u]
      /\ table' = table /\ lock' = lock /\ reply' = reply
  BY DEF QueryBreakdown, Move
<1>2. use[t].at \in Holding
  BY <1>1 DEF Holding
<1>3. /\ use[t].q \in Ledger!Calls /\ use[t].q \in Ledger!Filters
      /\ got = <<Ledger!Total(table, use[t].q), Ledger!ByEvent(table, use[t].q)>>
  BY <1>1, Mover DEF IInv, Typed, Fresh
<1>4. /\ u = [at |-> u.at, q |-> u.q, got |-> u.got]
      /\ u.at = "events" /\ u.q = use[t].q /\ u.got = got
  OBVIOUS
<1>5. u.at \in Stages
  BY <1>4 DEF Stages, Holding
<1> HIDE DEF u, got
<1>6. u.got = <<Ledger!Total(table', u.q), Ledger!ByEvent(table', u.q)>>
  BY <1>1, <1>3, <1>4
<1> QED BY <1>1, <1>2, <1>3, <1>4, <1>5, <1>6, Mover, OthersKeep

LEMMA QueryIntentsKeeps ==
  ASSUME IInv, NEW t \in Threads, QueryIntents(t)
  PROVE  IInv'
<1> DEFINE got == [total |-> use[t].got[1], by_event_type |-> use[t].got[2],
                   by_intent |-> Ledger!ByIntent(table, use[t].q)]
           u   == [at |-> "done", q |-> use[t].q, got |-> got]
<1>1. /\ use[t].at = "events"
      /\ use' = [use EXCEPT ![t] = u]
      /\ table' = table /\ lock' = lock /\ reply' = reply
  BY DEF QueryIntents, Move
<1>2. use[t].at \in Holding
  BY <1>1 DEF Holding
<1>3. use[t].q \in Ledger!Calls /\ use[t].q \in Ledger!Filters
  BY <1>1, Mover DEF IInv, Typed
<1>4. use[t].q \notin Ledger!Appends /\ use[t].q \notin Ledger!Lists
  BY <1>3 DEF Ledger!Appends, Ledger!Lists, Ledger!Filters
<1>5. use[t].got = <<Ledger!Total(table, use[t].q), Ledger!ByEvent(table, use[t].q)>>
  BY <1>1 DEF IInv, Fresh
<1>6. got = Ledger!Summary(table, use[t].q)
  BY <1>5 DEF Ledger!Summary
<1>7. /\ u = [at |-> u.at, q |-> u.q, got |-> u.got]
      /\ u.at = "done" /\ u.q = use[t].q /\ u.got = got
  OBVIOUS
<1>8. u.at \in Stages
  BY <1>7 DEF Stages, Holding
<1> HIDE DEF u, got
<1>9. u.got = Ledger!Summary(table', u.q)
  BY <1>1, <1>6, <1>7
<1> QED BY <1>1, <1>2, <1>3, <1>4, <1>7, <1>8, <1>9, Mover, OthersKeep

LEMMA QueryPageKeeps ==
  ASSUME IInv, NEW t \in Threads, QueryPage(t)
  PROVE  IInv'
<1> DEFINE u == [at |-> "done", q |-> use[t].q, got |-> Ledger!Page(table, use[t].q)]
<1>1. /\ use[t].at = "first" /\ use[t].q.op = "list"
      /\ use' = [use EXCEPT ![t] = u]
      /\ table' = table /\ lock' = lock /\ reply' = reply
  BY DEF QueryPage, Move
<1>2. use[t].at \in Holding
  BY <1>1 DEF Holding
<1>3. /\ use[t].q \in Ledger!Calls
      /\ use[t].q \notin Ledger!Appends /\ use[t].q \notin Ledger!Filters
  BY <1>1, Mover, CallKinds
<1>4. /\ u = [at |-> u.at, q |-> u.q, got |-> u.got]
      /\ u.at = "done" /\ u.q = use[t].q /\ u.got = Ledger!Page(table, use[t].q)
  OBVIOUS
<1>5. u.at \in Stages
  BY <1>4 DEF Stages, Holding
<1> HIDE DEF u
<1>6. u.got = Ledger!Page(table', u.q)
  BY <1>1, <1>4
<1> QED BY <1>1, <1>2, <1>3, <1>4, <1>5, <1>6, Mover, OthersKeep

\* A thread that returns, or whose call raised, is back where it began; if it
\* held the lock it gave it back.
LEMMA EndKeeps ==
  ASSUME IInv, NEW t \in Threads, NEW r,
         use' = [use EXCEPT ![t] = NoUse], reply' = [reply EXCEPT ![t] = r],
         table' = table, use[t].at \in Holding \/ lock = None
  PROVE  IInv'
<1>1. /\ NoUse = [at |-> NoUse.at, q |-> NoUse.q, got |-> NoUse.got]
      /\ NoUse.at = "idle"
  BY DEF NoUse
<1>2. NoUse.at \in Stages /\ NoUse.at \notin Holding
  BY <1>1 DEF Stages, Holding
<1>3. \A v \in Threads \ {t} : use[v].at \notin Holding
  BY Mover
<1> QED BY <1>1, <1>2, <1>3, Mover, OthersKeep

LEMMA TakeKeeps ==
  ASSUME IInv, NEW t \in Threads, Take(t)
  PROVE  IInv'
<1>1. reply' = [reply EXCEPT ![t] = None] /\ table' = table /\ lock' = lock /\ use' = use
  BY DEF Take
<1>2. Typed'
  BY <1>1 DEF IInv, Typed
<1> QED BY <1>1, <1>2 DEF IInv, Held, Fresh

-----------------------------------------------------------------------------
(* Every step is a step of the ledger, or none of its business *)

\* The ledger's view of a step that moves one thread.
LEMMA View ==
  ASSUME IInv, NEW t \in Threads, NEW u,
         use' = [use EXCEPT ![t] = u]
  PROVE  /\ Pending' = [Pending EXCEPT ![t] = IF Unsettled(u) THEN u.q ELSE None]
         /\ Pending[t] = IF Unsettled(use[t]) THEN use[t].q ELSE None
         /\ (IF Unsettled(u) THEN u.q ELSE None) = Pending[t] => Pending' = Pending
<1>1. use'[t] = u /\ \A v \in Threads \ {t} : use'[v] = use[v]
  BY DEF IInv, Typed
<1>2. Pending' = [v \in Threads |-> IF Unsettled(use'[v]) THEN use'[v].q ELSE None]
  BY DEF Pending, Unsettled
<1>3. DOMAIN Pending = Threads /\ \A v \in Threads : Pending[v] = IF Unsettled(use[v]) THEN use[v].q ELSE None
  BY DEF Pending
<1>4. \A v \in Threads \ {t} : (IF Unsettled(use'[v]) THEN use'[v].q ELSE None) = Pending[v]
  BY <1>1, <1>3
<1>5. Pending = [v \in Threads |-> Pending[v]]
  BY DEF Pending
<1>6. Pending' = [Pending EXCEPT ![t] = IF Unsettled(u) THEN u.q ELSE None]
  BY <1>1, <1>2, <1>4, <1>5
<1>7. (IF Unsettled(u) THEN u.q ELSE None) = Pending[t] => Pending' = Pending
  BY <1>5, <1>6
<1> QED BY <1>3, <1>6, <1>7

\* A step that leaves what the ledger sees of its thread alone.
LEMMA Stutters ==
  ASSUME IInv, NEW t \in Threads, NEW u, use' = [use EXCEPT ![t] = u],
         u.q = use[t].q, Unsettled(u) <=> Unsettled(use[t]),
         table' = table, reply' = reply
  PROVE  UNCHANGED Ledger!vars
  BY View DEF Ledger!vars

LEMMA AskIsAsk ==
  ASSUME IInv, NEW t \in Threads, NEW q \in Ledger!Calls, Ask(t, q)
  PROVE  Ledger!Ask(t)
<1> DEFINE u == [at |-> "open", q |-> q, got |-> None]
<1>1. /\ use[t].at = "idle" /\ use' = [use EXCEPT ![t] = u]
      /\ reply' = [reply EXCEPT ![t] = None] /\ table' = table
  BY DEF Ask
<1>2. Unsettled(u) /\ u.q = q /\ ~Unsettled(use[t])
  BY <1>1 DEF Unsettled
<1> HIDE DEF u
<1>3. Pending' = [Pending EXCEPT ![t] = q] /\ Pending[t] = None
  BY <1>1, <1>2, View
<1>4. Pending'[t] = q
  BY <1>3 DEF Pending
<1> QED BY <1>1, <1>3, <1>4 DEF Ledger!Ask

\* What a call in progress asks is what the ledger has pending.
LEMMA Asked ==
  ASSUME IInv, NEW t \in Threads, Unsettled(use[t])
  PROVE  Pending[t] = use[t].q /\ use[t].q \in Ledger!Calls /\ Pending[t] # None
<1>1. Pending[t] = use[t].q
  BY DEF Pending
<1>2. use[t].at # "idle"
  BY DEF Unsettled
<1> QED BY <1>1, <1>2, CallKinds DEF IInv, Typed

\* The commit is the moment an append takes effect.
LEMMA CommitIsWrite ==
  ASSUME IInv, NEW t \in Threads, Commit(t)
  PROVE  Ledger!Write(t)
<1> DEFINE u == [at |-> "done", q |-> use[t].q, got |-> use[t].got]
<1>1. /\ use[t].at = "first" /\ use[t].q.op = "append" /\ use' = [use EXCEPT ![t] = u]
      /\ reply' = reply /\ table' = Append(table, use[t].q.row)
  BY DEF Commit, At, Move
<1>2. ~Unsettled(u) /\ Unsettled(use[t])
  BY <1>1 DEF Unsettled
<1> HIDE DEF u
<1>3. Pending' = [Pending EXCEPT ![t] = None]
  BY <1>1, <1>2, View
<1>4. Pending[t] = use[t].q /\ Pending[t] # None /\ Pending[t] \in Ledger!Appends
  BY <1>1, <1>2, Asked, CallKinds
<1> QED BY <1>1, <1>3, <1>4 DEF Ledger!Write, Ledger!Settle

\* The return is the moment a read does.
LEMMA ReturnIsRead ==
  ASSUME IInv, NEW t \in Threads, Return(t)
  PROVE  Ledger!Summarise(t) \/ Ledger!List(t) \/ UNCHANGED Ledger!vars
<1>1. /\ use[t].at = "done" /\ use' = [use EXCEPT ![t] = NoUse]
      /\ reply' = [reply EXCEPT ![t] = use[t].got] /\ table' = table
  BY DEF Return
<1>2. ~Unsettled(NoUse)
  BY DEF Unsettled, NoUse
<1>3. Pending' = [Pending EXCEPT ![t] = None]
  BY <1>1, <1>2, View
<1>4. use[t].q \in Ledger!Calls /\ reply[t] = None /\ reply = [reply EXCEPT ![t] = reply[t]]
  BY <1>1, Mover
<1>5. CASE use[t].q \in Ledger!Appends
  <2>1. use[t].got = None
    BY <1>1, <1>5 DEF IInv, Fresh
  <2>2. ~Unsettled(use[t])
    BY <1>1, <1>4, <1>5, CallKinds DEF Unsettled
  <2>3. Pending' = Pending
    BY <1>1, <1>2, <2>2, View
  <2>4. reply' = reply
    BY <1>1, <1>4, <2>1
  <2> QED BY <1>1, <2>3, <2>4 DEF Ledger!vars
<1>6. ASSUME use[t].q.op # "append"
      PROVE  Pending[t] = use[t].q /\ Pending[t] # None
  <2>1. Unsettled(use[t])
    BY <1>1, <1>6 DEF Unsettled
  <2> QED BY <2>1, Asked
<1>7. CASE use[t].q \in Ledger!Filters
  <2>1. use[t].got = Ledger!Summary(table, use[t].q)
    BY <1>1, <1>7 DEF IInv, Fresh
  <2>2. use[t].q.op # "append"
    BY <1>7 DEF Ledger!Filters
  <2> QED BY <1>1, <1>3, <1>6, <1>7, <2>1, <2>2 DEF Ledger!Summarise, Ledger!Settle
<1>8. CASE use[t].q \in Ledger!Lists
  <2>1. use[t].got = Ledger!Page(table, use[t].q)
    BY <1>1, <1>8 DEF IInv, Fresh
  <2>2. use[t].q.op # "append"
    BY <1>8 DEF Ledger!Lists
  <2> QED BY <1>1, <1>3, <1>6, <1>8, <2>1, <2>2 DEF Ledger!List, Ledger!Settle
<1> QED BY <1>4, <1>5, <1>7, <1>8, CallKinds

LEMMA RaiseIsFail ==
  ASSUME IInv, NEW t \in Threads, Raise(t)
  PROVE  Ledger!Fail(t)
<1>1. /\ use[t].at # "idle" /\ use[t].at # "done"
      /\ use' = [use EXCEPT ![t] = NoUse] /\ reply' = reply /\ table' = table
  BY DEF Raise, Holding
<1>2. Unsettled(use[t]) /\ ~Unsettled(NoUse)
  BY <1>1 DEF Unsettled, NoUse
<1>3. Pending' = [Pending EXCEPT ![t] = None] /\ Pending[t] # None
  BY <1>1, <1>2, View, Asked
<1> QED BY <1>1, <1>3 DEF Ledger!Fail, Ledger!Settle

LEMMA TakeIsTake ==
  ASSUME NEW t \in Threads, Take(t)
  PROVE  Ledger!Take(t)
<1>1. reply' = [reply EXCEPT ![t] = None] /\ table' = table /\ use' = use
  BY DEF Take
<1>2. Pending' = Pending
  BY <1>1 DEF Pending, Unsettled
<1> QED BY <1>1, <1>2 DEF Ledger!Take

LEMMA WorkIsWrite ==
  ASSUME IInv, NEW t \in Threads, Work(t)
  PROVE  Ledger!Write(t) \/ UNCHANGED Ledger!vars
<1>1. ASSUME NEW at, NEW got, Move(t, at, got), use[t].at # "idle", use[t].at # "done",
             at # "idle", at = "done" => use[t].q.op # "append",
             table' = table, reply' = reply
      PROVE  UNCHANGED Ledger!vars
  <2> DEFINE u == [at |-> at, q |-> use[t].q, got |-> got]
  <2>1. use' = [use EXCEPT ![t] = u] /\ u.q = use[t].q
    BY <1>1 DEF Move
  <2>2. Unsettled(u) /\ Unsettled(use[t])
    BY <1>1 DEF Unsettled
  <2> HIDE DEF u
  <2> QED BY <1>1, <2>1, <2>2, Stutters
<1>2. CASE InitDb(t)
  BY <1>1, <1>2 DEF InitDb, At
<1>3. CASE Acquire(t)
  BY <1>1, <1>3 DEF Acquire, At
<1>4. CASE QueryTotal(t)
  BY <1>1, <1>4 DEF QueryTotal
<1>5. CASE QueryBreakdown(t)
  BY <1>1, <1>5 DEF QueryBreakdown
<1>6. CASE QueryIntents(t)
  <2>1. use[t].at = "events" /\ use[t].q \in Ledger!Filters
    BY <1>6 DEF QueryIntents, IInv, Typed
  <2>2. use[t].q.op # "append"
    BY <2>1 DEF Ledger!Filters
  <2> QED BY <1>1, <1>6, <2>1, <2>2 DEF QueryIntents
<1>7. CASE QueryPage(t)
  BY <1>1, <1>7 DEF QueryPage
<1> QED BY <1>2, <1>3, <1>4, <1>5, <1>6, <1>7, CommitIsWrite DEF Work

-----------------------------------------------------------------------------
LEMMA InitIInv == Init => IInv /\ Ledger!Init
<1> SUFFICES ASSUME Init PROVE IInv /\ Ledger!Init
  OBVIOUS
<1>1. \A t \in Threads : use[t] = NoUse /\ reply[t] = None
  BY DEF Init
<1>2. NoUse = [at |-> NoUse.at, q |-> NoUse.q, got |-> NoUse.got] /\ NoUse.at = "idle"
  BY DEF NoUse
<1>3. "idle" \in Stages /\ "idle" \notin Holding
  BY DEF Stages, Holding
<1>4. Typed
  BY <1>1, <1>2, <1>3 DEF Init, Typed
<1>5. Held /\ Fresh
  BY <1>1, <1>2, <1>3 DEF Held, Fresh
<1>6. Pending = [t \in Threads |-> None]
  BY <1>1, <1>2 DEF Pending, Unsettled
<1> QED BY <1>4, <1>5, <1>6 DEF IInv, Init, Ledger!Init

LEMMA StepIInv == IInv /\ [Next]_vars => IInv' /\ [Ledger!Next]_(Ledger!vars)
<1> SUFFICES ASSUME IInv, [Next]_vars PROVE IInv' /\ [Ledger!Next]_(Ledger!vars)
  OBVIOUS
<1>1. CASE UNCHANGED vars
  <2>1. table' = table /\ lock' = lock /\ use' = use /\ reply' = reply
    BY <1>1 DEF vars
  <2>2. Pending' = Pending
    BY <2>1 DEF Pending, Unsettled
  <2> QED BY <2>1, <2>2 DEF IInv, Typed, Held, Fresh, Ledger!vars
<1>2. ASSUME NEW t \in Threads, NEW q \in Ledger!Calls, Ask(t, q)
      PROVE  IInv' /\ Ledger!Next
  BY <1>2, AskKeeps, AskIsAsk DEF Ledger!Next
<1>3. ASSUME NEW t \in Threads, Work(t)
      PROVE  IInv' /\ [Ledger!Next]_(Ledger!vars)
  <2>1. IInv'
    BY <1>3, InitDbKeeps, AcquireKeeps, CommitKeeps, QueryTotalKeeps, QueryBreakdownKeeps,
       QueryIntentsKeeps, QueryPageKeeps DEF Work
  <2> QED BY <1>3, <2>1, WorkIsWrite DEF Ledger!Next
<1>4. ASSUME NEW t \in Threads, Return(t)
      PROVE  IInv' /\ [Ledger!Next]_(Ledger!vars)
  <2>1. IInv'
    <3>1. use[t].at \in Holding
      BY <1>4 DEF Return, Holding
    <3> QED BY <1>4, <3>1, EndKeeps DEF Return
  <2> QED BY <1>4, <2>1, ReturnIsRead DEF Ledger!Next
<1>5. ASSUME NEW t \in Threads, Take(t)
      PROVE  IInv' /\ Ledger!Next
  BY <1>5, TakeKeeps, TakeIsTake DEF Ledger!Next
<1>6. ASSUME NEW t \in Threads, Raise(t)
      PROVE  IInv' /\ Ledger!Next
  <2>1. IInv'
    <3>1. reply = [reply EXCEPT ![t] = reply[t]]
      BY Mover
    <3> QED BY <1>6, <3>1, EndKeeps DEF Raise
  <2> QED BY <1>6, <2>1, RaiseIsFail DEF Ledger!Next
<1> QED BY <1>1, <1>2, <1>3, <1>4, <1>5, <1>6 DEF Next

\* No two threads are inside a call to the table at once.
THEOREM UsageLockExcludes ==
  Spec => [](\A t, v \in Threads : use[t].at \in Holding /\ use[v].at \in Holding => t = v)
<1>1. IInv => \A t, v \in Threads : use[t].at \in Holding /\ use[v].at \in Holding => t = v
  BY DEF IInv, Held
<1> QED BY <1>1, InitIInv, StepIInv, PTL DEF Spec

\* The usage log implements the ledger: every append, page and summary of
\* overlapping threads takes effect at one moment of its call and at most once,
\* whatever raises.
THEOREM UsageTakesEffectAtOnce == Spec => TakesEffectAtOnce
<1>1. Spec => Ledger!Init /\ [][Ledger!Next]_(Ledger!vars)
  BY InitIInv, StepIInv, PTL DEF Spec
<1> QED BY <1>1 DEF TakesEffectAtOnce, Ledger!Spec
-----------------------------------------------------------------------------
(* The page *)

Label == "label_mapping_updated"
Known == {t \in Tenants : config[t] # None}

Texts == Tenants \cup {Empty}
Views == [tab : {"chat", "labels", "usage", "tenants"}, selected : Tenants, tenants : SUBSET Tenants,
          tenantsLoading : BOOLEAN, form : Texts, labelLoading : BOOLEAN, labelSaving : BOOLEAN,
          usageLoading : BOOLEAN, creating : BOOLEAN]
Requests == [kind : {"none", "labels", "tenants", "save", "post", "summary"},
             tenant : Tenants \cup {None}, body : Texts \cup {None} \cup SUBSET Tenants,
             at : {"none", "sent", "logging", "answered", "failed"}, floor : Nat]

AdminTyped ==
  /\ page \in Views /\ req \in [Threads -> Requests]
  /\ config \in [Tenants -> Texts \cup {None}]
  /\ told \in [Tenants -> Nat] /\ unlogged \in Nat /\ strayed \in BOOLEAN
  /\ table \in Seq(Ledger!Row)

\* A fetch names a tenant the backend knows, unless it is to create it, and a
\* list of the tenants that is on its way has the one the page will select.
Founded(r) ==
  /\ r.kind \in {"labels", "save", "summary"} => r.tenant \in Known
  /\ r.kind = "post" => r.tenant \in Tenants /\ (r.at \in {"logging", "answered"} => r.tenant \in Known)
  /\ r.kind = "tenants" => r.tenant \in Known \cup {None}
  /\ r.kind = "tenants" /\ r.at = "answered" =>
       r.body \subseteq Known /\ First \in r.body /\ (r.tenant # None => r.tenant \in r.body)
  /\ r.kind = "save" \/ (r.kind = "labels" /\ r.at = "answered") => r.body \in Texts
  /\ r.at = "logging" => r.kind \in {"save", "post", "summary"}
  /\ r.at = "none" <=> r.kind = "none"

\* What its thread is doing in the usage log.
SummaryOf(t) == [op |-> "summary", tenant |-> t, event |-> None]
QueryOf(r) ==
  CASE r.kind = "save" -> RowOf(Label, r.tenant)
    [] r.kind = "post" -> RowOf("tenant_created", r.tenant)
    [] OTHER           -> SummaryOf(r.tenant)
Coupled(r, u) ==
  /\ r.at = "logging" => u.at # "idle" /\ u.q = QueryOf(r)
  /\ r.at \in {"sent", "answered", "failed"} => u.at = "idle"

\* A save that has logged is one more row than the page has reported; a summary
\* was asked for when its floor was counted.
LabelRows(rows, t) == {i \in DOMAIN rows : rows[i].tenant = t /\ rows[i].event = Label}
Rows(t) == Cardinality(LabelRows(table, t))
Logged(r, u) == r.at = "answered" \/ (r.at = "logging" /\ u.at = "done")
Accounted(r, u, a) ==
  /\ r.kind = "save" /\ Logged(r, u) => told[r.tenant] + 1 <= Rows(r.tenant) + unlogged
  /\ r.kind = "summary" => r.floor <= Rows(r.tenant) + unlogged
  /\ r.kind = "summary" /\ r.at = "answered" =>
       a.by_event_type[Label] \in Nat /\ a.by_event_type[Label] + unlogged >= r.floor

Requested == \A w \in Threads :
  Founded(req[w]) /\ Coupled(req[w], use[w]) /\ Accounted(req[w], use[w], reply[w])

\* The labels a fetch carries are its tenant's.
Homed(r) == r.kind = "save" \/ (r.kind = "labels" /\ r.at = "answered") => r.body = r.tenant
AtHome   == page.tab = "labels" /\ ~page.labelLoading => page.form = page.selected
Home == ~strayed =>
  AtHome /\ (\A t \in Tenants : config[t] \in {t, None}) /\ (\A w \in Threads : Homed(req[w]))

Listed == First \in Known /\ page.selected \in Known /\ page.tenants \subseteq Known /\ SelectedListed

OneSave ==
  /\ \A w \in Threads : req[w].kind = "save" => page.labelSaving
  /\ \A w, v \in Threads : req[w].kind = "save" /\ req[v].kind = "save" => w = v

Counted == \A t \in Tenants : told[t] <= Rows(t) + unlogged

PageInv  == AdminTyped /\ Requested /\ Home /\ Listed /\ OneSave /\ Counted
AdminInv == IInv /\ PageInv

-----------------------------------------------------------------------------
\* The first free thread is free.
LEMMA ServerFree == Free # {} => Server \in Free /\ Server \in Threads
<1> SUFFICES ASSUME Free # {} PROVE Server \in Free /\ Server \in Threads
  OBVIOUS
<1>1. Free \in SUBSET Threads
  BY DEF Free
<1>2. PICK w \in Free : \A v \in Free : w <= v
  BY <1>1, ThreadAssumption
<1> QED BY <1>1, <1>2 DEF Server

\* The rows of a tenant's labels are finitely many, and an append adds to them
\* what it is.
LEMMA RowsFacts ==
  ASSUME NEW rows \in Seq(Ledger!Row), NEW t
  PROVE  IsFiniteSet(LabelRows(rows, t)) /\ Cardinality(LabelRows(rows, t)) \in Nat
<1>1. LabelRows(rows, t) \subseteq 1..Len(rows) /\ Len(rows) \in Nat
  BY DEF LabelRows
<1>2. IsFiniteSet(1..Len(rows))
  BY <1>1, FS_Interval
<1> QED BY <1>1, <1>2, FS_Subset, FS_CardinalityType

LEMMA AppendRows ==
  ASSUME NEW rows \in Seq(Ledger!Row), NEW row \in Ledger!Row, NEW t
  PROVE  Cardinality(LabelRows(Append(rows, row), t)) =
           Cardinality(LabelRows(rows, t)) + IF row.tenant = t /\ row.event = Label THEN 1 ELSE 0
<1> DEFINE n == Len(rows) + 1
<1>1. /\ Append(rows, row)[n] = row /\ DOMAIN Append(rows, row) = DOMAIN rows \cup {n}
      /\ n \notin DOMAIN rows
      /\ \A i \in DOMAIN rows : Append(rows, row)[i] = rows[i]
  OBVIOUS
<1> HIDE DEF n
<1>2. CASE row.tenant = t /\ row.event = Label
  <2>1. LabelRows(Append(rows, row), t) = LabelRows(rows, t) \cup {n}
    BY <1>1, <1>2 DEF LabelRows
  <2>2. n \notin LabelRows(rows, t)
    BY <1>1 DEF LabelRows
  <2> QED BY <1>2, <2>1, <2>2, RowsFacts, FS_AddElement
<1>3. CASE ~(row.tenant = t /\ row.event = Label)
  <2>1. LabelRows(Append(rows, row), t) = LabelRows(rows, t)
    BY <1>1, <1>3 DEF LabelRows
  <2> QED BY <1>3, <2>1, RowsFacts
<1> QED BY <1>2, <1>3

\* The ledger counts with a copy of Cardinality, its own by name only.
LEMMA LedgerCardinality == ASSUME NEW S PROVE Ledger!Cardinality(S) = Cardinality(S)
BY DEF Ledger!Cardinality, Cardinality

\* What a summary of a tenant counts under label_mapping_updated.
LEMMA SummaryCounts ==
  ASSUME NEW rows \in Seq(Ledger!Row), NEW t \in Tenants
  PROVE  Ledger!Summary(rows, SummaryOf(t)).by_event_type[Label] = Cardinality(LabelRows(rows, t))
<1> DEFINE q == SummaryOf(t)
<1>1. q.tenant = t /\ q.event = None /\ t # None /\ Label \in EventTypes
  BY AdminAssumption DEF SummaryOf, Label
<1> HIDE DEF q
<1>2. {i \in Ledger!Selected(rows, q) : rows[i].event = Label} = LabelRows(rows, t)
  BY <1>1 DEF Ledger!Selected, LabelRows
<1>3. Ledger!Summary(rows, q).by_event_type = Ledger!ByEvent(rows, q)
  BY DEF Ledger!Summary
<1>4. Ledger!ByEvent(rows, q)[Label] =
        Ledger!Cardinality({i \in Ledger!Selected(rows, q) : rows[i].event = Label})
  BY <1>1, Zenon DEF Ledger!ByEvent
<1> QED BY <1>2, <1>3, <1>4, LedgerCardinality DEF q

\* What the invariant says of the fetches a step leaves alone, while the tenants
\* the backend knows and the rows only grow; a save the page takes back is the
\* one save there is.
LEMMA PageKeeps ==
  ASSUME AdminInv, NEW w \in Threads, req' = [req EXCEPT ![w] = req'[w]], AdminTyped',
         \A v \in Threads \ {w} : use'[v] = use[v] /\ reply'[v] = reply[v],
         Known \subseteq Known', strayed => strayed', unlogged <= unlogged',
         \A t \in Tenants : Rows(t) <= Rows(t)' /\ Rows(t)' \in Nat /\ Rows(t) \in Nat,
         told' = told \/ (req[w].kind = "save" /\ req'[w].kind # "save"),
         Founded(req[w])', Coupled(req[w], use[w])', Accounted(req[w], use[w], reply[w])',
         ~strayed' => AtHome' /\ (\A t \in Tenants : config'[t] \in {t, None}) /\ Homed(req[w])',
         Listed', Counted',
         req'[w].kind = "save" => page'.labelSaving /\ (req[w].kind = "save" \/ ~page.labelSaving),
         page.labelSaving /\ ~page'.labelSaving => req[w].kind = "save" /\ req'[w].kind # "save"
  PROVE  PageInv'
<1>1. \A v \in Threads \ {w} : req'[v] = req[v]
  BY DEF AdminInv, PageInv, AdminTyped
<1>2. ASSUME NEW v \in Threads \ {w} PROVE Founded(req[v])'
  BY <1>1, <1>2 DEF AdminInv, PageInv, Requested, Founded
<1>3. ASSUME NEW v \in Threads \ {w} PROVE Coupled(req[v], use[v])'
  <2>1. req'[v] = req[v] /\ use'[v] = use[v] /\ Coupled(req[v], use[v])
    BY <1>1 DEF AdminInv, PageInv, Requested
  <2> QED BY <2>1 DEF Coupled, QueryOf, RowOf, SummaryOf
<1>4. ASSUME NEW v \in Threads \ {w} PROVE Accounted(req[v], use[v], reply[v])'
  <2>1. /\ req'[v] = req[v] /\ use'[v] = use[v] /\ reply'[v] = reply[v] /\ req[v] \in Requests
        /\ Founded(req[v]) /\ Accounted(req[v], use[v], reply[v])
    BY <1>1 DEF AdminInv, PageInv, AdminTyped, Requested
  <2>2. unlogged \in Nat /\ unlogged' \in Nat /\ told \in [Tenants -> Nat]
    BY DEF AdminInv, PageInv, AdminTyped
  <2>3. CASE req[v].kind = "save"
    <3>1. told' = told /\ req[v].tenant \in Tenants
      BY <2>1, <2>3 DEF AdminInv, PageInv, OneSave, Founded, Known
    <3> QED BY <2>1, <2>2, <2>3, <3>1 DEF Accounted, Logged
  <2>4. CASE req[v].kind = "summary"
    <3>1. req[v].tenant \in Tenants /\ req[v].floor \in Nat
      BY <2>1, <2>4 DEF Founded, Known, Requests
    <3> QED BY <2>1, <2>2, <2>4, <3>1 DEF Accounted, Logged
  <2> QED BY <2>1, <2>3, <2>4 DEF Accounted
<1>5. Requested'
  BY <1>2, <1>3, <1>4 DEF Requested
<1>6. Home'
  BY <1>1 DEF AdminInv, PageInv, Home, Homed
<1>7. OneSave'
  BY <1>1 DEF AdminInv, PageInv, OneSave
<1> QED BY <1>5, <1>6, <1>7 DEF PageInv

\* A step of a handler, or of the network, that leaves the page, the labels and
\* the rows alone.
LEMMA ServedKeeps ==
  ASSUME AdminInv, NEW w \in Threads, req' = [req EXCEPT ![w] = req'[w]], req'[w] \in Requests,
         \A v \in Threads \ {w} : use'[v] = use[v] /\ reply'[v] = reply[v],
         UNCHANGED <<page, config, told, unlogged, strayed, table>>,
         Founded(req[w])', Coupled(req[w], use[w])', Accounted(req[w], use[w], reply[w])',
         ~strayed => Homed(req[w])', req'[w].kind = "save" => req[w].kind = "save"
  PROVE  PageInv'
<1>1. AdminTyped'
  BY DEF AdminInv, PageInv, AdminTyped
<1>2. Known' = Known /\ strayed' = strayed /\ unlogged' = unlogged /\ told' = told /\ page' = page
  BY DEF Known
<1>3. \A t \in Tenants : Rows(t)' = Rows(t) /\ Rows(t) \in Nat
  BY RowsFacts DEF Rows, AdminInv, PageInv, AdminTyped
<1>4. Listed' /\ AtHome' = AtHome
  BY <1>2 DEF AdminInv, PageInv, Listed, SelectedListed, AtHome
<1>5. Counted'
  BY <1>2, <1>3 DEF AdminInv, PageInv, Counted
<1>6. unlogged <= unlogged'
  BY <1>2 DEF AdminInv, PageInv, AdminTyped
<1>7. ~strayed' => AtHome' /\ (\A t \in Tenants : config'[t] \in {t, None}) /\ Homed(req[w])'
  BY <1>2, <1>4 DEF AdminInv, PageInv, Home
<1>8. req[w].kind = "save" => page.labelSaving
  BY DEF AdminInv, PageInv, OneSave
<1>9. \A t \in Tenants : Rows(t) <= Rows(t)' /\ Rows(t)' \in Nat /\ Rows(t) \in Nat
  BY <1>3
<1> QED BY <1>1, <1>2, <1>4, <1>5, <1>6, <1>7, <1>8, <1>9, PageKeeps

\* What the invariant says of one fetch and its thread.
LEMMA FetchFacts ==
  ASSUME AdminInv, NEW w \in Threads
  PROVE  /\ req[w] \in Requests /\ req = [req EXCEPT ![w] = req[w]]
         /\ Founded(req[w]) /\ Coupled(req[w], use[w]) /\ Accounted(req[w], use[w], reply[w])
         /\ ~strayed => Homed(req[w])
  BY DEF AdminInv, PageInv, AdminTyped, Requested, Home

\* A fetch that moves on keeps what it asked.
LEMMA Moves ==
  ASSUME AdminInv, NEW w \in Threads, NEW at \in {"logging", "answered", "failed"},
         req' = [req EXCEPT ![w].at = at]
  PROVE  /\ req' = [req EXCEPT ![w] = req'[w]] /\ req'[w] \in Requests
         /\ req'[w].kind = req[w].kind /\ req'[w].tenant = req[w].tenant
         /\ req'[w].body = req[w].body /\ req'[w].floor = req[w].floor /\ req'[w].at = at
  BY DEF AdminInv, PageInv, AdminTyped, Requests

LEMMA Answers ==
  ASSUME AdminInv, NEW w \in Threads, NEW body \in Texts \cup {None} \cup SUBSET Tenants,
         Answer(w, body)
  PROVE  /\ req' = [req EXCEPT ![w] = req'[w]] /\ req'[w] \in Requests
         /\ req'[w].kind = req[w].kind /\ req'[w].tenant = req[w].tenant
         /\ req'[w].body = body /\ req'[w].floor = req[w].floor /\ req'[w].at = "answered"
  BY DEF AdminInv, PageInv, AdminTyped, Requests, Answer

\* A call of a thread concerns that thread.
LEMMA Asks ==
  ASSUME AdminInv, NEW w \in Threads, NEW q, Ask(w, q)
  PROVE  /\ use[w].at = "idle" /\ use'[w].at = "open" /\ use'[w].q = q
         /\ \A v \in Threads \ {w} : use'[v] = use[v] /\ reply'[v] = reply[v]
         /\ table' = table
  BY DEF AdminInv, IInv, Typed, Ask

LEMMA GetLabelsKeeps ==
  ASSUME AdminInv, NEW w \in Threads, GetLabels(w)
  PROVE  PageInv'
<1> USE FetchFacts
<1>1. /\ req[w].kind = "labels" /\ req[w].at = "sent" /\ Answer(w, config[req[w].tenant])
      /\ UNCHANGED <<page, config, told, unlogged, strayed, table, use, reply>>
  BY DEF GetLabels, Sent, vars
<1>2. req[w].tenant \in Tenants /\ config[req[w].tenant] \in Texts
  BY <1>1 DEF Founded, Known, AdminInv, PageInv, AdminTyped
<1>3. /\ req' = [req EXCEPT ![w] = req'[w]] /\ req'[w] \in Requests
      /\ req'[w].kind = "labels" /\ req'[w].tenant = req[w].tenant
      /\ req'[w].body = config[req[w].tenant] /\ req'[w].at = "answered"
  BY <1>1, <1>2, Answers
<1>4. Founded(req[w])'
  BY <1>1, <1>2, <1>3 DEF Founded, Known
<1>5. Coupled(req[w], use[w])'
  BY <1>1, <1>3 DEF Coupled
<1>6. Accounted(req[w], use[w], reply[w])'
  BY <1>3 DEF Accounted
<1>7. ~strayed => Homed(req[w])'
  BY <1>1, <1>2, <1>3 DEF Founded, Known, Homed, AdminInv, PageInv, Home
<1> QED BY <1>1, <1>3, <1>4, <1>5, <1>6, <1>7, ServedKeeps

LEMMA GetTenantsKeeps ==
  ASSUME AdminInv, NEW w \in Threads, GetTenants(w)
  PROVE  PageInv'
<1> USE FetchFacts
<1>1. /\ req[w].kind = "tenants" /\ req[w].at = "sent" /\ Answer(w, Known)
      /\ UNCHANGED <<page, config, told, unlogged, strayed, table, use, reply>>
  BY DEF GetTenants, Sent, vars, Known
<1>2. Known \in SUBSET Tenants
  BY DEF Known
<1>3. /\ req' = [req EXCEPT ![w] = req'[w]] /\ req'[w] \in Requests
      /\ req'[w].kind = "tenants" /\ req'[w].tenant = req[w].tenant
      /\ req'[w].body = Known /\ req'[w].at = "answered"
  BY <1>1, <1>2, Answers
<1>4. Founded(req[w])'
  <2>1. Known' = Known /\ First \in Known
    BY <1>1 DEF Known, AdminInv, PageInv, Listed
  <2> QED BY <1>1, <1>3, <2>1 DEF Founded
<1>5. Coupled(req[w], use[w])'
  BY <1>1, <1>3 DEF Coupled
<1>6. Accounted(req[w], use[w], reply[w])' /\ Homed(req[w])'
  BY <1>3 DEF Accounted, Homed
<1> QED BY <1>1, <1>3, <1>4, <1>5, <1>6, ServedKeeps

LEMMA GetSummaryKeeps ==
  ASSUME AdminInv, NEW w \in Threads, GetSummary(w)
  PROVE  PageInv'
<1> USE FetchFacts
<1>1. /\ req[w].kind = "summary" /\ req[w].at = "sent" /\ req' = [req EXCEPT ![w].at = "logging"]
      /\ Ask(w, SummaryOf(req[w].tenant))
      /\ UNCHANGED <<page, config, told, unlogged, strayed>>
  BY DEF GetSummary, Sent, Logging, SummaryOf
<1>2. /\ use'[w].at = "open" /\ use'[w].q = SummaryOf(req[w].tenant) /\ table' = table
      /\ \A v \in Threads \ {w} : use'[v] = use[v] /\ reply'[v] = reply[v]
  BY <1>1, Asks
<1>3. /\ req' = [req EXCEPT ![w] = req'[w]] /\ req'[w] \in Requests
      /\ req'[w].kind = "summary" /\ req'[w].tenant = req[w].tenant
      /\ req'[w].floor = req[w].floor /\ req'[w].at = "logging"
  BY <1>1, Moves
<1>4. Founded(req[w])'
  BY <1>1, <1>3 DEF Founded, Known
<1>5. Coupled(req[w], use[w])'
  BY <1>2, <1>3 DEF Coupled, QueryOf
<1>6. Accounted(req[w], use[w], reply[w])'
  BY <1>1, <1>2, <1>3 DEF Accounted, Rows
<1>7. Homed(req[w])'
  BY <1>3 DEF Homed
<1> QED BY <1>1, <1>2, <1>3, <1>4, <1>5, <1>6, <1>7, ServedKeeps

\* A fetch that fails is owed nothing.
LEMMA LoseKeeps ==
  ASSUME AdminInv, NEW w \in Threads, Lose(w)
  PROVE  PageInv'
<1> USE FetchFacts
<1>1. /\ req[w].at \in {"sent", "answered"} /\ req' = [req EXCEPT ![w].at = "failed"]
      /\ UNCHANGED <<page, config, told, unlogged, strayed, table, use, reply>>
  BY DEF Lose, vars
<1>2. /\ req' = [req EXCEPT ![w] = req'[w]] /\ req'[w] \in Requests
      /\ req'[w].kind = req[w].kind /\ req'[w].tenant = req[w].tenant
      /\ req'[w].body = req[w].body /\ req'[w].floor = req[w].floor /\ req'[w].at = "failed"
  BY <1>1, Moves
<1>3. Founded(req[w])'
  BY <1>1, <1>2 DEF Founded, Known
<1>4. Coupled(req[w], use[w])'
  BY <1>1, <1>2 DEF Coupled
<1>5. Accounted(req[w], use[w], reply[w])'
  BY <1>1, <1>2 DEF Accounted, Rows, Logged
<1>6. ~strayed => Homed(req[w])'
  BY <1>1, <1>2 DEF Homed
<1> QED BY <1>1, <1>2, <1>3, <1>4, <1>5, <1>6, ServedKeeps

\* Rows only come.
LEMMA RowsGrow ==
  ASSUME AdminInv, table' = table \/ \E row \in Ledger!Row : table' = Append(table, row)
  PROVE  \A t \in Tenants : Rows(t) <= Rows(t)' /\ Rows(t)' \in Nat /\ Rows(t) \in Nat
<1> SUFFICES ASSUME NEW t \in Tenants
             PROVE  Rows(t) <= Rows(t)' /\ Rows(t)' \in Nat /\ Rows(t) \in Nat
  OBVIOUS
<1>1. table \in Seq(Ledger!Row) /\ Rows(t) \in Nat
  BY RowsFacts DEF Rows, AdminInv, PageInv, AdminTyped
<1>2. CASE table' = table
  BY <1>1, <1>2 DEF Rows
<1>3. ASSUME NEW row \in Ledger!Row, table' = Append(table, row)
      PROVE  Rows(t) <= Rows(t)' /\ Rows(t)' \in Nat
  <2>1. Rows(t)' = Cardinality(LabelRows(Append(table, row), t))
    BY <1>3 DEF Rows
  <2> QED BY <1>1, <2>1, AppendRows DEF Rows
<1> QED BY <1>1, <1>2, <1>3

\* What a step inside the usage log does: the commit appends, the others do not.
LEMMA Works ==
  ASSUME AdminInv, NEW w \in Threads, Work(w)
  PROVE  /\ use[w].at # "idle" /\ use'[w].at # "idle" /\ use'[w].q = use[w].q
         /\ reply' = reply /\ \A v \in Threads \ {w} : use'[v] = use[v]
         /\ \/ table' = table /\ (use'[w].at = "done" => use[w].q.op # "append")
            \/ table' = Append(table, use[w].q.row) /\ use[w].q \in Ledger!Appends
<1>1. /\ use[w].at # "idle" => use[w].q \in Ledger!Calls
      /\ use[w].at \in {"total", "events"} => use[w].q \in Ledger!Filters
  BY DEF AdminInv, IInv, Typed
<1>2. ASSUME NEW at, NEW got, Move(w, at, got)
      PROVE  /\ use'[w].at = at /\ use'[w].q = use[w].q
             /\ \A v \in Threads \ {w} : use'[v] = use[v]
  BY <1>2 DEF Move, AdminInv, IInv, Typed
<1>3. CASE InitDb(w)
  <2>1. Move(w, "ready", use[w].got) /\ use[w].at = "open" /\ table' = table /\ reply' = reply
    BY <1>3 DEF InitDb, At
  <2> QED BY <1>2, <2>1
<1>4. CASE Acquire(w)
  <2>1. Move(w, "first", use[w].got) /\ use[w].at = "ready" /\ table' = table /\ reply' = reply
    BY <1>4 DEF Acquire, At
  <2> QED BY <1>2, <2>1
<1>5. CASE Commit(w)
  <2>1. /\ Move(w, "done", use[w].got) /\ use[w].at = "first" /\ use[w].q.op = "append"
        /\ table' = Append(table, use[w].q.row) /\ reply' = reply
    BY <1>5 DEF Commit, At
  <2> QED BY <1>1, <1>2, <2>1, CallKinds
<1>6. CASE QueryTotal(w)
  <2>1. /\ Move(w, "total", Ledger!Total(table, use[w].q)) /\ use[w].at = "first"
        /\ table' = table /\ reply' = reply
    BY <1>6 DEF QueryTotal
  <2> QED BY <1>2, <2>1
<1>7. CASE QueryBreakdown(w)
  <2>1. /\ Move(w, "events", <<use[w].got, Ledger!ByEvent(table, use[w].q)>>) /\ use[w].at = "total"
        /\ table' = table /\ reply' = reply
    BY <1>7 DEF QueryBreakdown
  <2> QED BY <1>2, <2>1
<1>8. CASE QueryIntents(w)
  <2>1. use[w].at = "events" /\ use[w].q.op # "append" /\ table' = table /\ reply' = reply
    BY <1>1, <1>8 DEF QueryIntents, Ledger!Filters
  <2>2. \E got : Move(w, "done", got)
    BY <1>8 DEF QueryIntents
  <2> QED BY <1>2, <2>1, <2>2
<1>9. CASE QueryPage(w)
  <2>1. /\ Move(w, "done", Ledger!Page(table, use[w].q)) /\ use[w].at = "first"
        /\ use[w].q.op = "list" /\ table' = table /\ reply' = reply
    BY <1>9 DEF QueryPage
  <2> QED BY <1>2, <2>1
<1> QED BY <1>3, <1>4, <1>5, <1>6, <1>7, <1>8, <1>9 DEF Work

\* A row of labels is owed by a save, and only by a save.
LEMMA SaveAppends ==
  ASSUME AdminInv, NEW w \in Threads, req[w].kind = "save", req[w].at = "logging"
  PROVE  /\ use[w].q.op = "append" /\ req[w].tenant \in Tenants
         /\ use[w].q.row.tenant = req[w].tenant /\ use[w].q.row.event = Label
<1>1. use[w].q = RowOf(Label, req[w].tenant)
  BY FetchFacts DEF Coupled, QueryOf
<1> QED BY <1>1, FetchFacts DEF RowOf, Founded, Known

\* A thread that works for nobody's fetch, or whose fetch is being logged.
LEMMA Busy ==
  ASSUME AdminInv, NEW w \in Threads, use[w].at # "idle"
  PROVE  req[w].at = "logging" \/ (req[w].at = "none" /\ req[w].kind = "none")
  BY FetchFacts DEF Coupled, Requests, Founded

\* Nothing the page sees changes.
LEMMA PageStays ==
  ASSUME AdminInv, UNCHANGED <<page, config, strayed>>
  PROVE  /\ Known' = Known /\ (strayed => strayed') /\ Listed'
         /\ ~strayed' => ~strayed /\ AtHome' /\ (\A t \in Tenants : config'[t] \in {t, None})
<1>1. Known' = Known
  BY DEF Known
<1>2. Listed'
  BY <1>1 DEF AdminInv, PageInv, Listed, SelectedListed
<1> QED BY <1>1, <1>2 DEF AdminInv, PageInv, Home, AtHome

LEMMA UseLogKeeps ==
  ASSUME AdminInv, NEW w \in Threads, UseLog(w)
  PROVE  PageInv'
<1> USE FetchFacts
<1>1. UNCHANGED <<page, req, config, told, unlogged, strayed>> /\ Work(w)
  BY DEF UseLog, adminVars
<1>2. /\ use[w].at # "idle" /\ use'[w].at # "idle" /\ use'[w].q = use[w].q
      /\ reply' = reply /\ \A v \in Threads \ {w} : use'[v] = use[v]
      /\ \/ table' = table /\ (use'[w].at = "done" => use[w].q.op # "append")
         \/ table' = Append(table, use[w].q.row) /\ use[w].q \in Ledger!Appends
  BY <1>1, Works
<1>3. table' = table \/ \E row \in Ledger!Row : table' = Append(table, row)
  BY <1>2 DEF Ledger!Appends
<1>4. AdminTyped'
  <2>1. table \in Seq(Ledger!Row)
    BY DEF AdminInv, PageInv, AdminTyped
  <2>2. table' \in Seq(Ledger!Row)
    BY <1>3, <2>1
  <2> QED BY <1>1, <2>2 DEF AdminInv, PageInv, AdminTyped
<1>5. \A t \in Tenants : Rows(t) <= Rows(t)' /\ Rows(t)' \in Nat /\ Rows(t) \in Nat
  BY <1>3, RowsGrow
<1>6. Founded(req[w])' /\ Coupled(req[w], use[w])'
  <2>1. Founded(req[w])'
    BY <1>1 DEF Founded, Known
  <2> QED BY <1>1, <1>2, <2>1 DEF Coupled, QueryOf, RowOf, SummaryOf
<1>7. told \in [Tenants -> Nat] /\ unlogged \in Nat /\ req[w].floor \in Nat
  BY DEF AdminInv, PageInv, AdminTyped, Requests
<1>8. Accounted(req[w], use[w], reply[w])'
  <2>1. CASE req[w].kind = "save" /\ Logged(req[w], use[w])'
    <3>1. req[w].at = "logging" /\ use'[w].at = "done"
      BY <1>1, <1>2, <2>1, Busy DEF Logged
    <3>2. /\ use[w].q.op = "append" /\ req[w].tenant \in Tenants
          /\ use[w].q.row.tenant = req[w].tenant /\ use[w].q.row.event = Label
      BY <2>1, <3>1, SaveAppends
    <3>3. table' = Append(table, use[w].q.row) /\ use[w].q.row \in Ledger!Row
      BY <1>2, <3>1, <3>2 DEF Ledger!Appends
    <3>4. Rows(req[w].tenant)' = Rows(req[w].tenant) + 1
      <4>1. table \in Seq(Ledger!Row)
        BY DEF AdminInv, PageInv, AdminTyped
      <4>2. Rows(req[w].tenant)' = Cardinality(LabelRows(Append(table, use[w].q.row), req[w].tenant))
        BY <1>1, <3>3 DEF Rows
      <4> QED BY <3>2, <3>3, <4>1, <4>2, AppendRows DEF Rows
    <3>5. told[req[w].tenant] <= Rows(req[w].tenant) + unlogged
      BY <3>2 DEF AdminInv, PageInv, Counted
    <3> QED BY <1>1, <1>5, <1>7, <2>1, <3>2, <3>4, <3>5 DEF Accounted
  <2>2. CASE req[w].kind = "summary"
    <3>1. req[w].tenant \in Tenants
      BY <2>2 DEF Founded, Known
    <3> QED BY <1>1, <1>2, <1>5, <1>7, <2>2, <3>1 DEF Accounted
  <2> QED BY <1>1, <2>1, <2>2 DEF Accounted
<1>9. Counted'
  BY <1>1, <1>5, <1>7 DEF AdminInv, PageInv, Counted
<1>10. /\ Known' = Known /\ (strayed => strayed') /\ Listed'
       /\ ~strayed' => ~strayed /\ AtHome' /\ (\A t \in Tenants : config'[t] \in {t, None})
  BY <1>1, PageStays
<1>11. req' = [req EXCEPT ![w] = req'[w]] /\ unlogged <= unlogged'
  BY <1>1, <1>7
<1>12. ~strayed' => AtHome' /\ (\A t \in Tenants : config'[t] \in {t, None}) /\ Homed(req[w])'
  BY <1>1, <1>10 DEF Homed
<1>13. req[w].kind = "save" => page.labelSaving
  BY DEF AdminInv, PageInv, OneSave
<1> QED BY <1>1, <1>2, <1>4, <1>5, <1>6, <1>8, <1>9, <1>10, <1>11, <1>12, <1>13, PageKeeps

\* A summary that returns counts the rows there are, its floor among them.
LEMMA SummaryReturns ==
  ASSUME AdminInv, NEW w \in Threads, req[w].kind = "summary", req[w].at = "logging", use[w].at = "done"
  PROVE  /\ req[w].tenant \in Tenants /\ Rows(req[w].tenant) \in Nat
         /\ use[w].got.by_event_type[Label] = Rows(req[w].tenant)
<1>1. use[w].q = SummaryOf(req[w].tenant) /\ req[w].tenant \in Tenants
  BY FetchFacts DEF Coupled, QueryOf, Founded, Known
<1>2. table \in Seq(Ledger!Row) /\ use[w].q \in Ledger!Calls
  BY DEF AdminInv, PageInv, AdminTyped, IInv, Typed
<1>3. use[w].q \in Ledger!Filters
  BY <1>1, <1>2, CallKinds DEF SummaryOf
<1>4. use[w].got = Ledger!Summary(table, SummaryOf(req[w].tenant))
  BY <1>1, <1>3 DEF AdminInv, IInv, Fresh
<1> QED BY <1>1, <1>2, <1>4, SummaryCounts, RowsFacts DEF Rows

LEMMA EndLogKeeps ==
  ASSUME AdminInv, NEW w \in Threads, EndLog(w)
  PROVE  PageInv'
<1> USE FetchFacts
<1>1. /\ use[w].at = "done" /\ use' = [use EXCEPT ![w] = NoUse]
      /\ reply' = [reply EXCEPT ![w] = use[w].got]
      /\ UNCHANGED <<page, config, told, unlogged, strayed, table>>
      /\ IF req[w].at = "logging" THEN Answer(w, req[w].body) ELSE UNCHANGED req
  BY DEF EndLog, Return
<1>2. /\ use'[w].at = "idle" /\ reply'[w] = use[w].got
      /\ \A v \in Threads \ {w} : use'[v] = use[v] /\ reply'[v] = reply[v]
  BY <1>1 DEF NoUse, AdminInv, IInv, Typed
<1>3. CASE req[w].at # "logging"
  <2>1. req' = req /\ req[w].at = "none" /\ req[w].kind = "none"
    BY <1>1, <1>3, Busy
  <2>2. /\ Founded(req[w])' /\ Coupled(req[w], use[w])' /\ Accounted(req[w], use[w], reply[w])'
        /\ Homed(req[w])'
    BY <2>1 DEF Founded, Coupled, Accounted, Homed
  <2> QED BY <1>1, <1>2, <2>1, <2>2, ServedKeeps
<1>4. CASE req[w].at = "logging"
  <2>1. Answer(w, req[w].body) /\ req[w].body \in Texts \cup {None} \cup SUBSET Tenants
    BY <1>1, <1>4 DEF Requests
  <2>2. /\ req' = [req EXCEPT ![w] = req'[w]] /\ req'[w] \in Requests
        /\ req'[w].kind = req[w].kind /\ req'[w].tenant = req[w].tenant
        /\ req'[w].body = req[w].body /\ req'[w].floor = req[w].floor /\ req'[w].at = "answered"
    BY <2>1, Answers
  <2>3. req[w].kind \in {"save", "post", "summary"}
    BY <1>4 DEF Founded
  <2>4. Founded(req[w])'
    BY <1>1, <1>4, <2>2, <2>3 DEF Founded, Known
  <2>5. Coupled(req[w], use[w])'
    BY <1>2, <2>2 DEF Coupled
  <2>6. told' = told /\ unlogged' = unlogged /\ \A t : Rows(t)' = Rows(t)
    BY <1>1 DEF Rows
  <2>7. Accounted(req[w], use[w], reply[w])'
    <3>1. CASE req[w].kind = "save"
      BY <1>1, <1>4, <2>2, <2>6, <3>1 DEF Accounted, Logged
    <3>2. CASE req[w].kind = "summary"
      <4>1. unlogged \in Nat /\ req[w].floor \in Nat
        BY DEF AdminInv, PageInv, AdminTyped, Requests
      <4>2. req[w].floor <= Rows(req[w].tenant) + unlogged
        BY <3>2 DEF Accounted
      <4>3. Rows(req[w].tenant) \in Nat /\ reply'[w].by_event_type[Label] = Rows(req[w].tenant)
        BY <1>1, <1>2, <1>4, <3>2, SummaryReturns
      <4> QED BY <2>2, <2>6, <3>2, <4>1, <4>2, <4>3 DEF Accounted
    <3>3. CASE req[w].kind = "post"
      BY <2>2, <3>3 DEF Accounted
    <3> QED BY <2>3, <3>1, <3>2, <3>3
  <2>8. ~strayed => Homed(req[w])'
    BY <2>2, <2>3 DEF Homed
  <2> QED BY <1>1, <1>2, <2>2, <2>4, <2>5, <2>7, <2>8, ServedKeeps
<1> QED BY <1>3, <1>4

\* A row that is given up is counted as such.
LEMMA RaiseLogKeeps ==
  ASSUME AdminInv, NEW w \in Threads, RaiseLog(w)
  PROVE  PageInv'
<1> USE FetchFacts
<1>1. /\ use[w].at # "idle" /\ use' = [use EXCEPT ![w] = NoUse] /\ reply' = reply
      /\ UNCHANGED <<page, config, told, strayed, table>>
      /\ unlogged' = IF use[w].q.op = "append" THEN unlogged + 1 ELSE unlogged
  BY DEF RaiseLog, Raise, Holding
<1>2. /\ use'[w].at = "idle"
      /\ \A v \in Threads \ {w} : use'[v] = use[v] /\ reply'[v] = reply[v]
  BY <1>1 DEF NoUse, AdminInv, IInv, Typed
<1>3. /\ told \in [Tenants -> Nat] /\ unlogged \in Nat /\ req[w].floor \in Nat
      /\ unlogged' \in Nat /\ unlogged <= unlogged'
  BY <1>1 DEF AdminInv, PageInv, AdminTyped, Requests
<1>4. /\ \A t \in Tenants : Rows(t) <= Rows(t)' /\ Rows(t)' \in Nat /\ Rows(t) \in Nat
      /\ \A t : Rows(t)' = Rows(t)
  BY <1>1, RowsGrow DEF Rows
<1>5. /\ req' = [req EXCEPT ![w] = req'[w]] /\ req' \in [Threads -> Requests]
      /\ req'[w].kind = req[w].kind /\ Founded(req[w])' /\ Coupled(req[w], use[w])'
      /\ Accounted(req[w], use[w], reply[w])' /\ (Homed(req[w]) => Homed(req[w])')
  <2>1. CASE req[w].at # "logging"
    <3>1. req' = req /\ req[w].at = "none" /\ req[w].kind = "none"
      BY <1>1, <2>1, Busy DEF RaiseLog
    <3>2. /\ Founded(req[w])' /\ Coupled(req[w], use[w])' /\ Accounted(req[w], use[w], reply[w])'
          /\ Homed(req[w])'
      BY <3>1 DEF Founded, Coupled, Accounted, Homed
    <3> QED BY <3>1, <3>2 DEF AdminInv, PageInv, AdminTyped
  <2>2. CASE req[w].at = "logging"
    <3>1. /\ req' = [req EXCEPT ![w].at = IF req[w].kind = "summary" THEN "failed" ELSE "answered"]
          /\ req[w].kind \in {"save", "post", "summary"}
      BY <2>2 DEF RaiseLog, Founded
    <3>2. /\ req' = [req EXCEPT ![w] = req'[w]] /\ req'[w] \in Requests
          /\ req'[w].kind = req[w].kind /\ req'[w].tenant = req[w].tenant
          /\ req'[w].body = req[w].body /\ req'[w].floor = req[w].floor
          /\ req'[w].at = IF req[w].kind = "summary" THEN "failed" ELSE "answered"
      BY <3>1, Moves
    <3>3. Founded(req[w])' /\ Coupled(req[w], use[w])'
      BY <1>1, <1>2, <2>2, <3>1, <3>2 DEF Founded, Known, Coupled
    <3>4. Accounted(req[w], use[w], reply[w])'
      <4>1. CASE req[w].kind = "save"
        <5>1. unlogged' = unlogged + 1 /\ req[w].tenant \in Tenants
          BY <1>1, <2>2, <4>1, SaveAppends
        <5>2. told[req[w].tenant] <= Rows(req[w].tenant) + unlogged
          BY <5>1 DEF AdminInv, PageInv, Counted
        <5> QED BY <1>1, <1>3, <1>4, <3>2, <4>1, <5>1, <5>2 DEF Accounted
      <4>2. CASE req[w].kind = "summary"
        <5>1. req[w].tenant \in Tenants /\ req[w].floor <= Rows(req[w].tenant) + unlogged
          BY <4>2 DEF Founded, Known, Accounted
        <5> QED BY <1>3, <1>4, <3>2, <4>2, <5>1 DEF Accounted
      <4>3. CASE req[w].kind = "post"
        BY <3>2, <4>3 DEF Accounted
      <4> QED BY <3>1, <4>1, <4>2, <4>3
    <3>5. req' \in [Threads -> Requests]
      BY <3>2 DEF AdminInv, PageInv, AdminTyped
    <3> QED BY <3>1, <3>2, <3>3, <3>4, <3>5 DEF Homed
  <2> QED BY <2>1, <2>2
<1>6. AdminTyped'
  BY <1>1, <1>3, <1>5 DEF AdminInv, PageInv, AdminTyped
<1>7. Counted'
  BY <1>1, <1>3, <1>4 DEF AdminInv, PageInv, Counted
<1>8. /\ Known' = Known /\ (strayed => strayed') /\ Listed'
      /\ ~strayed' => ~strayed /\ AtHome' /\ (\A t \in Tenants : config'[t] \in {t, None})
  BY <1>1, PageStays
<1>9. ~strayed' => AtHome' /\ (\A t \in Tenants : config'[t] \in {t, None}) /\ Homed(req[w])'
  BY <1>5, <1>8
<1>10. req[w].kind = "save" => page.labelSaving
  BY DEF AdminInv, PageInv, OneSave
<1> QED BY <1>1, <1>2, <1>3, <1>4, <1>5, <1>6, <1>7, <1>8, <1>9, <1>10, PageKeeps

\* A tenant that is given labels is known from then on.
LEMMA Configures ==
  ASSUME AdminInv, NEW t \in Tenants, NEW x \in Texts, config' = [config EXCEPT ![t] = x],
         UNCHANGED <<page, strayed>>
  PROVE  /\ config' \in [Tenants -> Texts \cup {None}] /\ Known \subseteq Known' /\ t \in Known'
         /\ Listed' /\ AtHome' = AtHome
         /\ (\A u \in Tenants : config[u] \in {u, None}) /\ x = t
              => \A u \in Tenants : config'[u] \in {u, None}
<1>1. config \in [Tenants -> Texts \cup {None}] /\ None \notin Texts
  BY AdminAssumption DEF AdminInv, PageInv, AdminTyped, Texts
<1>2. /\ config' \in [Tenants -> Texts \cup {None}]
      /\ config'[t] = x /\ \A u \in Tenants \ {t} : config'[u] = config[u]
  BY <1>1
<1>3. Known \subseteq Known' /\ t \in Known'
  BY <1>1, <1>2 DEF Known
<1>4. Listed'
  BY <1>3 DEF AdminInv, PageInv, Listed, SelectedListed
<1>5. AtHome' = AtHome
  BY DEF AtHome
<1> QED BY <1>2, <1>3, <1>4, <1>5

LEMMA PatchLabelsKeeps ==
  ASSUME AdminInv, NEW w \in Threads, PatchLabels(w)
  PROVE  PageInv'
<1> USE FetchFacts
<1>1. /\ req[w].kind = "save" /\ req[w].at = "sent" /\ req' = [req EXCEPT ![w].at = "logging"]
      /\ Ask(w, RowOf(Label, req[w].tenant))
      /\ config' = [config EXCEPT ![req[w].tenant] = req[w].body]
      /\ UNCHANGED <<page, told, unlogged, strayed>>
  BY DEF PatchLabels, Sent, Logging, Label
<1>2. /\ use'[w].at = "open" /\ use'[w].q = RowOf(Label, req[w].tenant) /\ table' = table
      /\ \A v \in Threads \ {w} : use'[v] = use[v] /\ reply'[v] = reply[v]
  BY <1>1, Asks
<1>3. /\ req' = [req EXCEPT ![w] = req'[w]] /\ req'[w] \in Requests
      /\ req'[w].kind = "save" /\ req'[w].tenant = req[w].tenant
      /\ req'[w].body = req[w].body /\ req'[w].at = "logging"
  BY <1>1, Moves
<1>4. req[w].tenant \in Tenants /\ req[w].body \in Texts
  BY <1>1 DEF Founded, Known
<1>5. /\ config' \in [Tenants -> Texts \cup {None}] /\ Known \subseteq Known'
      /\ req[w].tenant \in Known' /\ Listed' /\ AtHome' = AtHome
      /\ (\A u \in Tenants : config[u] \in {u, None}) /\ req[w].body = req[w].tenant
           => \A u \in Tenants : config'[u] \in {u, None}
  BY <1>1, <1>4, Configures
<1>6. AdminTyped'
  BY <1>1, <1>2, <1>3, <1>5 DEF AdminInv, PageInv, AdminTyped
<1>7. Founded(req[w])' /\ Coupled(req[w], use[w])' /\ Accounted(req[w], use[w], reply[w])'
  <2>1. Founded(req[w])'
    BY <1>3, <1>4, <1>5 DEF Founded
  <2>2. Coupled(req[w], use[w])'
    BY <1>2, <1>3 DEF Coupled, QueryOf, RowOf
  <2>3. Accounted(req[w], use[w], reply[w])'
    BY <1>2, <1>3 DEF Accounted, Logged
  <2> QED BY <2>1, <2>2, <2>3
<1>8. ~strayed' => AtHome' /\ (\A t \in Tenants : config'[t] \in {t, None}) /\ Homed(req[w])'
  BY <1>1, <1>3, <1>5 DEF Homed, AdminInv, PageInv, Home
<1>9. \A t \in Tenants : Rows(t) <= Rows(t)' /\ Rows(t)' \in Nat /\ Rows(t) \in Nat
  BY <1>2, RowsGrow
<1>10. unlogged <= unlogged' /\ told' = told /\ Counted'
  BY <1>1, <1>2 DEF AdminInv, PageInv, AdminTyped, Counted, Rows
<1>11. page.labelSaving
  BY <1>1 DEF AdminInv, PageInv, OneSave
<1> QED BY <1>1, <1>2, <1>3, <1>5, <1>6, <1>7, <1>8, <1>9, <1>10, <1>11, PageKeeps

LEMMA PostTenantKeeps ==
  ASSUME AdminInv, NEW w \in Threads, PostTenant(w)
  PROVE  PageInv'
<1> USE FetchFacts
<1>1. /\ req[w].kind = "post" /\ req[w].at = "sent" /\ req[w].tenant \in Tenants
      /\ config' = [config EXCEPT ![req[w].tenant] = req[w].tenant]
      /\ UNCHANGED <<page, told, unlogged, strayed>>
  BY DEF PostTenant, Sent, Founded
<1>2. /\ table' = table
      /\ \A v \in Threads \ {w} : use'[v] = use[v] /\ reply'[v] = reply[v]
      /\ req' = [req EXCEPT ![w] = req'[w]] /\ req'[w] \in Requests
      /\ req'[w].kind = "post" /\ req'[w].tenant = req[w].tenant
      /\ req'[w].at \in {"logging", "answered"} /\ Coupled(req[w], use[w])'
  <2>1. CASE config[req[w].tenant] = None
    <3>1. Ask(w, RowOf("tenant_created", req[w].tenant)) /\ req' = [req EXCEPT ![w].at = "logging"]
      BY <2>1 DEF PostTenant, Logging
    <3>2. /\ use'[w].at = "open" /\ use'[w].q = RowOf("tenant_created", req[w].tenant) /\ table' = table
          /\ \A v \in Threads \ {w} : use'[v] = use[v] /\ reply'[v] = reply[v]
      BY <3>1, Asks
    <3>3. /\ req' = [req EXCEPT ![w] = req'[w]] /\ req'[w] \in Requests
          /\ req'[w].kind = "post" /\ req'[w].tenant = req[w].tenant /\ req'[w].at = "logging"
      BY <1>1, <3>1, Moves
    <3> QED BY <3>2, <3>3 DEF Coupled, QueryOf, RowOf
  <2>2. CASE config[req[w].tenant] # None
    <3>1. Answer(w, None) /\ table' = table /\ use' = use /\ reply' = reply
      BY <2>2 DEF PostTenant, vars
    <3>2. /\ req' = [req EXCEPT ![w] = req'[w]] /\ req'[w] \in Requests
          /\ req'[w].kind = "post" /\ req'[w].tenant = req[w].tenant /\ req'[w].at = "answered"
      BY <1>1, <3>1, Answers
    <3> QED BY <1>1, <3>1, <3>2 DEF Coupled
  <2> QED BY <2>1, <2>2
<1>3. /\ config' \in [Tenants -> Texts \cup {None}] /\ Known \subseteq Known'
      /\ req[w].tenant \in Known' /\ Listed' /\ AtHome' = AtHome
      /\ (\A u \in Tenants : config[u] \in {u, None})
           => \A u \in Tenants : config'[u] \in {u, None}
  BY <1>1, Configures DEF Texts
<1>4. AdminTyped'
  BY <1>1, <1>2, <1>3 DEF AdminInv, PageInv, AdminTyped
<1>5. Founded(req[w])' /\ Accounted(req[w], use[w], reply[w])' /\ Homed(req[w])'
  BY <1>1, <1>2, <1>3 DEF Founded, Accounted, Homed
<1>6. ~strayed' => AtHome' /\ (\A t \in Tenants : config'[t] \in {t, None}) /\ Homed(req[w])'
  BY <1>1, <1>3, <1>5 DEF AdminInv, PageInv, Home
<1>7. \A t \in Tenants : Rows(t) <= Rows(t)' /\ Rows(t)' \in Nat /\ Rows(t) \in Nat
  BY <1>2, RowsGrow
<1>8. unlogged <= unlogged' /\ told' = told /\ Counted'
  BY <1>1, <1>2 DEF AdminInv, PageInv, AdminTyped, Counted, Rows
<1> QED BY <1>1, <1>2, <1>3, <1>4, <1>5, <1>6, <1>7, <1>8, PageKeeps

LEMMA OtherCallKeeps ==
  ASSUME AdminInv, OtherCall
  PROVE  PageInv'
<1>1. PICK w \in Threads : w = Server /\ req[w].kind = "none"
  BY ServerFree DEF OtherCall, Free
<1>2. PICK q \in Others : Ask(w, q)
  BY <1>1 DEF OtherCall
<1>3. UNCHANGED <<page, req, config, told, unlogged, strayed>>
  BY DEF OtherCall
<1>4. /\ table' = table
      /\ \A v \in Threads \ {w} : use'[v] = use[v] /\ reply'[v] = reply[v]
  BY <1>1, <1>2, Asks
<1>5. req[w].at = "none" /\ req[w] \in Requests
  BY <1>1, FetchFacts DEF Founded
<1>6. /\ Founded(req[w])' /\ Coupled(req[w], use[w])' /\ Accounted(req[w], use[w], reply[w])'
      /\ Homed(req[w])' /\ req' = [req EXCEPT ![w] = req'[w]]
  BY <1>1, <1>3, <1>5, FetchFacts DEF Founded, Coupled, Accounted, Homed
<1> QED BY <1>1, <1>3, <1>4, <1>5, <1>6, ServedKeeps

-----------------------------------------------------------------------------
(* What the page does *)

\* A fetch the page may send: of a tenant that is known, or that is to be.
Sendable(r) ==
  \/ r = NoReq
  \/ \E kind \in {"labels", "save", "summary", "post", "tenants"}, tenant \in Tenants \cup {None},
        body \in Texts \cup {None} :
       /\ r = Fetch(kind, tenant, body)
       /\ kind \in {"labels", "save", "summary"} => tenant \in Known
       /\ kind = "post" => tenant \in Tenants
       /\ kind = "tenants" => tenant \in Known \cup {None}
       /\ kind = "save" => body \in Texts

LEMMA Sends ==
  ASSUME AdminInv, NEW w \in Threads, Sendable(req'[w]), use'[w].at = "idle",
         UNCHANGED <<table, config, unlogged>>
  PROVE  /\ req'[w] \in Requests /\ Founded(req[w])' /\ Coupled(req[w], use[w])'
         /\ Accounted(req[w], use[w], reply[w])'
<1>1. /\ told \in [Tenants -> Nat] /\ unlogged \in Nat /\ Known' = Known
      /\ unlogged' = unlogged /\ \A t : Rows(t)' = Rows(t)
  BY DEF AdminInv, PageInv, AdminTyped, Known, Rows
<1>2. CASE req'[w] = NoReq
  BY <1>2 DEF NoReq, Requests, Founded, Coupled, Accounted
<1>3. ASSUME NEW kind \in {"labels", "save", "summary", "post", "tenants"},
             NEW tenant \in Tenants \cup {None}, NEW body \in Texts \cup {None},
             req'[w] = Fetch(kind, tenant, body),
             kind \in {"labels", "save", "summary"} => tenant \in Known,
             kind = "post" => tenant \in Tenants,
             kind = "tenants" => tenant \in Known \cup {None},
             kind = "save" => body \in Texts
      PROVE  /\ req'[w] \in Requests /\ Founded(req[w])' /\ Coupled(req[w], use[w])'
             /\ Accounted(req[w], use[w], reply[w])'
  <2>1. /\ req'[w].kind = kind /\ req'[w].tenant = tenant /\ req'[w].body = body
        /\ req'[w].at = "sent" /\ req'[w].floor = IF tenant \in Tenants THEN told[tenant] ELSE 0
    BY <1>3 DEF Fetch
  <2>2. req'[w] \in Requests
    <3>1. req'[w].floor \in Nat
      BY <1>1, <2>1
    <3> QED BY <1>3, <2>1, <3>1 DEF Fetch, Requests
  <2>3. Founded(req[w])'
    BY <1>1, <1>3, <2>1 DEF Founded
  <2>4. Coupled(req[w], use[w])'
    BY <2>1 DEF Coupled
  <2>5. Accounted(req[w], use[w], reply[w])'
    <3>1. CASE kind = "summary"
      <4>1. tenant \in Tenants
        BY <1>3, <3>1 DEF Known
      <4>2. told[tenant] <= Rows(tenant) + unlogged
        BY <4>1 DEF AdminInv, PageInv, Counted
      <4> QED BY <1>1, <2>1, <3>1, <4>1, <4>2 DEF Accounted
    <3>2. CASE kind # "summary"
      BY <2>1, <3>2 DEF Accounted, Logged
    <3> QED BY <3>1, <3>2
  <2> QED BY <2>2, <2>3, <2>4, <2>5
<1> QED BY <1>2, <1>3 DEF Sendable

\* A step of the page that sends a fetch, or takes one back, or both.
LEMMA PageStep ==
  ASSUME AdminInv, NEW w \in Threads, req' = [req EXCEPT ![w] = req'[w]], Sendable(req'[w]),
         use' = use, use[w].at = "idle",
         \A v \in Threads \ {w} : reply'[v] = reply[v],
         UNCHANGED <<table, config, unlogged>>,
         page' \in Views, told' \in [Tenants -> Nat], strayed' \in BOOLEAN, strayed => strayed',
         told' = told \/ (req[w].kind = "save" /\ req'[w].kind # "save"),
         ~strayed' => AtHome' /\ Homed(req'[w]),
         page'.selected \in Known, page'.tenants \subseteq Known,
         page'.tenants # {} => page'.selected \in page'.tenants,
         Counted',
         req'[w].kind = "save" => page'.labelSaving /\ ~page.labelSaving,
         page.labelSaving /\ ~page'.labelSaving => req[w].kind = "save" /\ req'[w].kind # "save"
  PROVE  PageInv'
<1>1. /\ req'[w] \in Requests /\ Founded(req[w])' /\ Coupled(req[w], use[w])'
      /\ Accounted(req[w], use[w], reply[w])'
  BY Sends
<1>2. AdminTyped'
  BY <1>1 DEF AdminInv, PageInv, AdminTyped
<1>3. Known' = Known /\ unlogged <= unlogged'
  BY DEF Known, AdminInv, PageInv, AdminTyped
<1>4. \A t \in Tenants : Rows(t) <= Rows(t)' /\ Rows(t)' \in Nat /\ Rows(t) \in Nat
  BY RowsGrow
<1>5. Listed'
  BY <1>3 DEF Listed, SelectedListed, AdminInv, PageInv
<1>6. ~strayed' => AtHome' /\ (\A t \in Tenants : config'[t] \in {t, None}) /\ Homed(req[w])'
  BY DEF AdminInv, PageInv, Home
<1> QED BY <1>1, <1>2, <1>3, <1>4, <1>5, <1>6, PageKeeps

\* A step of the page that sends nothing.
LEMMA PageOnly ==
  ASSUME AdminInv, UNCHANGED <<vars, req, config, told, unlogged, strayed>>,
         page' \in Views, AtHome', page'.selected \in Known, page'.tenants = page.tenants,
         page.tenants # {} => page'.selected \in page.tenants,
         page'.labelSaving = page.labelSaving
  PROVE  PageInv'
<1>1. /\ AdminTyped' /\ Known' = Known /\ use' = use /\ reply' = reply /\ req' = req
      /\ told' = told /\ unlogged' = unlogged /\ \A t : Rows(t)' = Rows(t)
  BY DEF AdminInv, PageInv, AdminTyped, Known, vars, Rows
<1>2. Requested'
  <2> SUFFICES ASSUME NEW w \in Threads
               PROVE  Founded(req[w])' /\ Coupled(req[w], use[w])' /\ Accounted(req[w], use[w], reply[w])'
    BY DEF Requested
  <2>1. Founded(req[w])'
    BY <1>1, FetchFacts DEF Founded
  <2>2. Coupled(req[w], use[w])'
    BY <1>1, FetchFacts DEF Coupled, QueryOf, RowOf, SummaryOf
  <2>3. Accounted(req[w], use[w], reply[w])'
    BY <1>1, FetchFacts DEF Accounted, Logged
  <2> QED BY <2>1, <2>2, <2>3
<1>3. Home'
  BY <1>1 DEF AdminInv, PageInv, Home, Homed
<1>4. Listed'
  BY <1>1 DEF AdminInv, PageInv, Listed, SelectedListed
<1>5. OneSave' /\ Counted'
  BY <1>1 DEF AdminInv, PageInv, OneSave, Counted
<1> QED BY <1>1, <1>2, <1>3, <1>4, <1>5 DEF PageInv

\* The page as the invariant knows it.
LEMMA PageFacts ==
  ASSUME AdminInv
  PROVE  /\ page \in Views /\ page.selected \in Known /\ page.tenants \subseteq Known
         /\ (page.tenants # {} => page.selected \in page.tenants) /\ Known \subseteq Tenants
         /\ told \in [Tenants -> Nat] /\ strayed \in BOOLEAN
         /\ \A w \in Threads : req[w].kind = "save" => page.labelSaving
  BY DEF AdminInv, PageInv, AdminTyped, Listed, SelectedListed, OneSave, Known

\* The effects of a tab and a selection.
LEMMA LoadingFacts ==
  ASSUME NEW p \in Views
  PROVE  /\ Loading(p) \in Views /\ Loading(p).selected = p.selected /\ Loading(p).tenants = p.tenants
         /\ Loading(p).tab = p.tab /\ Loading(p).labelSaving = p.labelSaving
         /\ (p.tab = "labels" => Loading(p).labelLoading)
  BY DEF Loading, Views

\* What the fetches of a tab are.
LEMMA FetchSendable ==
  ASSUME NEW kind \in {"labels", "summary"}, NEW tenant \in Known
  PROVE  /\ Sendable(Fetch(kind, tenant, None)) /\ Fetch(kind, tenant, None).kind # "save"
         /\ Homed(Fetch(kind, tenant, None))
<1>1. tenant \in Tenants \cup {None} /\ None \in Texts \cup {None}
  BY DEF Known
<1>2. Sendable(Fetch(kind, tenant, None))
  BY <1>1, Zenon DEF Sendable
<1>3. Fetch(kind, tenant, None).kind = kind /\ Fetch(kind, tenant, None).at = "sent"
  BY DEF Fetch
<1> QED BY <1>2, <1>3 DEF Homed

LEMMA ReloadFacts ==
  ASSUME NEW p \in Views, p.selected \in Known
  PROVE  /\ Sendable(Reload(p)) /\ Reload(p).kind # "save"
         /\ Homed(Reload(p))
<1>1. CASE p.tab = "labels"
  <2>1. Reload(p) = Fetch("labels", p.selected, None)
    BY <1>1 DEF Reload
  <2> QED BY <2>1, FetchSendable
<1>2. CASE p.tab = "usage"
  <2>1. Reload(p) = Fetch("summary", p.selected, None)
    BY <1>2 DEF Reload
  <2> QED BY <2>1, FetchSendable
<1>3. CASE p.tab \notin {"labels", "usage"}
  <2>1. Reload(p) = NoReq
    BY <1>3 DEF Reload
  <2> QED BY <2>1 DEF Sendable, NoReq, Homed
<1> QED BY <1>1, <1>2, <1>3

LEMMA ShowKeeps ==
  ASSUME AdminInv, NEW p \in Views, Show(p), p.selected \in Known, p.tenants = page.tenants,
         page.tenants # {} => p.selected \in page.tenants, p.labelSaving = page.labelSaving
  PROVE  PageInv'
<1>1. /\ page' = Loading(p) /\ UNCHANGED <<vars, config, told, unlogged, strayed>>
      /\ IF Reload(p) = NoReq THEN UNCHANGED <<req, counts>> ELSE Requesting /\ Send(Reload(p))
  BY DEF Show
<1>2. /\ page' \in Views /\ page'.selected = p.selected /\ page'.tenants = page.tenants
      /\ page'.tab = p.tab /\ page'.labelSaving = page.labelSaving
      /\ (p.tab = "labels" => page'.labelLoading)
  BY <1>1, LoadingFacts
<1>3. AtHome'
  BY <1>2 DEF AtHome
<1>4. CASE Reload(p) = NoReq
  BY <1>1, <1>2, <1>3, <1>4, PageOnly
<1>5. CASE Reload(p) # NoReq
  <2>1. PICK w \in Threads : w = Server /\ use[w].at = "idle" /\ req[w].kind = "none"
    BY <1>1, <1>5, ServerFree DEF Requesting, Free
  <2>2. req' = [req EXCEPT ![w] = Reload(p)]
    BY <1>1, <1>5, <2>1 DEF Send
  <2>3. req' = [req EXCEPT ![w] = req'[w]] /\ req'[w] = Reload(p)
    BY <2>2 DEF AdminInv, PageInv, AdminTyped
  <2>4. Sendable(req'[w]) /\ req'[w].kind # "save" /\ Homed(req'[w])
    BY <2>3, ReloadFacts
  <2>5. /\ use' = use /\ reply' = reply /\ table' = table /\ config' = config /\ unlogged' = unlogged
        /\ told' = told /\ strayed' = strayed
    BY <1>1 DEF vars
  <2>6. Counted'
    BY <2>5 DEF AdminInv, PageInv, Counted, Rows
  <2>7. strayed' \in BOOLEAN /\ told' \in [Tenants -> Nat] /\ page.tenants \subseteq Known
    BY <2>5, PageFacts
  <2> QED BY <1>2, <1>3, <2>1, <2>3, <2>4, <2>5, <2>6, <2>7, PageStep
<1> QED BY <1>4, <1>5

LEMMA TabsKeep ==
  ASSUME AdminInv, OpenTab \/ SelectTenant \/ Refresh
  PROVE  PageInv'
<1> USE PageFacts
<1>1. ASSUME NEW tab \in {"labels", "usage", "tenants"}, Show([page EXCEPT !.tab = tab])
      PROVE  PageInv'
  <2> DEFINE p == [page EXCEPT !.tab = tab]
  <2>1. /\ p \in Views /\ p.selected = page.selected /\ p.tenants = page.tenants
        /\ p.labelSaving = page.labelSaving
    BY <1>1 DEF Views
  <2> HIDE DEF p
  <2> QED BY <1>1, <2>1, ShowKeeps DEF p
<1>2. ASSUME NEW t \in page.tenants, Show([page EXCEPT !.selected = t])
      PROVE  PageInv'
  <2> DEFINE p == [page EXCEPT !.selected = t]
  <2>1. /\ p \in Views /\ p.selected = t /\ p.tenants = page.tenants
        /\ p.labelSaving = page.labelSaving
    BY <1>2 DEF Views
  <2> HIDE DEF p
  <2> QED BY <1>2, <2>1, ShowKeeps DEF p
<1>3. CASE Refresh
  BY <1>3, ShowKeeps DEF Refresh
<1> QED BY <1>1, <1>2, <1>3 DEF OpenTab, SelectTenant

\* Save Mapping is enabled when the text on the page is the selected tenant's.
LEMMA SaveLabelsKeeps ==
  ASSUME AdminInv, SaveLabels
  PROVE  PageInv'
<1> USE PageFacts
<1>1. /\ page.tab = "labels" /\ ~page.labelSaving /\ ~page.labelLoading
      /\ Free # {} /\ req' = [req EXCEPT ![Server] = Fetch("save", page.selected, page.form)]
      /\ page' = [page EXCEPT !.labelSaving = TRUE]
      /\ UNCHANGED <<table, use, reply, config, told, unlogged, strayed>>
  BY DEF SaveLabels, Requesting, Send, vars
<1>2. PICK w \in Threads : w = Server /\ use[w].at = "idle" /\ req[w].kind = "none"
  BY <1>1, ServerFree DEF Free
<1>3. req' = [req EXCEPT ![w] = req'[w]] /\ req'[w] = Fetch("save", page.selected, page.form)
  BY <1>1, <1>2 DEF AdminInv, PageInv, AdminTyped
<1>4. /\ page' \in Views /\ page'.selected = page.selected /\ page'.tenants = page.tenants
      /\ page'.tab = page.tab /\ page'.labelLoading = page.labelLoading
      /\ page'.form = page.form /\ page'.labelSaving /\ page.form \in Texts
  BY <1>1 DEF Views
<1>5. Sendable(req'[w])
  <2>1. page.selected \in Tenants \cup {None} /\ page.form \in Texts \cup {None}
    BY <1>4
  <2>2. "save" \in {"labels", "save", "summary", "post", "tenants"} /\ "save" # "post" /\ "save" # "tenants"
    OBVIOUS
  <2> QED BY <1>3, <1>4, <2>1, <2>2, Zenon DEF Sendable
<1>6. ~strayed' => AtHome' /\ Homed(req'[w])
  <2>1. req'[w].body = page.form /\ req'[w].tenant = page.selected
    BY <1>3 DEF Fetch
  <2> QED BY <1>1, <1>4, <2>1 DEF AdminInv, PageInv, Home, AtHome, Homed
<1>7. Counted' /\ strayed' \in BOOLEAN /\ told' \in [Tenants -> Nat]
  BY <1>1 DEF AdminInv, PageInv, Counted, Rows
<1> QED BY <1>1, <1>2, <1>3, <1>4, <1>5, <1>6, <1>7, PageStep

LEMMA CreateTenantKeeps ==
  ASSUME AdminInv, CreateTenant
  PROVE  PageInv'
<1> USE PageFacts
<1>1. PICK t \in Posted :
        /\ Free # {} /\ req' = [req EXCEPT ![Server] = Fetch("post", t, None)]
        /\ page' = [page EXCEPT !.creating = TRUE]
        /\ UNCHANGED <<table, use, reply, config, told, unlogged, strayed>>
  BY DEF CreateTenant, Requesting, Send, vars
<1>2. PICK w \in Threads : w = Server /\ use[w].at = "idle" /\ req[w].kind = "none"
  BY <1>1, ServerFree DEF Free
<1>3. req' = [req EXCEPT ![w] = req'[w]] /\ req'[w] = Fetch("post", t, None)
  BY <1>1, <1>2 DEF AdminInv, PageInv, AdminTyped
<1>4. /\ page' \in Views /\ page'.selected = page.selected /\ page'.tenants = page.tenants
      /\ page'.tab = page.tab /\ page'.labelLoading = page.labelLoading
      /\ page'.form = page.form /\ page'.labelSaving = page.labelSaving
  BY <1>1 DEF Views
<1>5. Sendable(req'[w])
  <2>1. t \in Tenants \cup {None} /\ t \in Tenants /\ None \in Texts \cup {None}
    BY AdminAssumption
  <2>2. /\ "post" \in {"labels", "save", "summary", "post", "tenants"}
        /\ "post" \notin {"labels", "save", "summary"} /\ "post" # "tenants" /\ "post" # "save"
    OBVIOUS
  <2> QED BY <1>3, <2>1, <2>2, Zenon DEF Sendable
<1>6. req'[w].kind = "post" /\ Homed(req'[w])
  BY <1>3 DEF Fetch, Homed
<1>7. ~strayed' => AtHome'
  BY <1>1, <1>4 DEF AdminInv, PageInv, Home, AtHome
<1>8. Counted' /\ strayed' \in BOOLEAN /\ told' \in [Tenants -> Nat]
  BY <1>1 DEF AdminInv, PageInv, Counted, Rows
<1> QED BY <1>1, <1>2, <1>3, <1>4, <1>5, <1>6, <1>7, <1>8, PageStep

\* An answer that is taken leaves its thread free.
LEMMA Dones ==
  ASSUME AdminInv, NEW w \in Threads, req[w].at \in {"answered", "failed"}, Done(w)
  PROVE  /\ req' = [req EXCEPT ![w] = req'[w]] /\ Sendable(req'[w]) /\ Homed(req'[w])
         /\ req'[w].kind = "none" /\ use[w].at = "idle"
<1>1. req' = [req EXCEPT ![w] = req'[w]] /\ req'[w] = NoReq
  BY DEF Done, AdminInv, PageInv, AdminTyped
<1> QED BY <1>1, FetchFacts DEF Sendable, NoReq, Homed, Coupled

LEMMA LabelsArriveKeeps ==
  ASSUME AdminInv, NEW w \in Threads, LabelsArrive(w)
  PROVE  PageInv'
<1> USE PageFacts, FetchFacts
<1>1. /\ req[w].kind = "labels" /\ req[w].at \in {"answered", "failed"} /\ Done(w)
      /\ page' = [page EXCEPT !.labelLoading = FALSE, !.form = IF Ok(w) THEN req[w].body ELSE @]
      /\ strayed' = (strayed \/ req[w].tenant # page.selected \/ (~Ok(w) /\ page.form # page.selected))
      /\ UNCHANGED <<table, use, reply, config, told, unlogged>>
  BY DEF LabelsArrive, Arrived, vars
<1>2. /\ req' = [req EXCEPT ![w] = req'[w]] /\ Sendable(req'[w]) /\ Homed(req'[w])
      /\ req'[w].kind = "none" /\ use[w].at = "idle"
  BY <1>1, Dones
<1>3. Ok(w) => req[w].body \in Texts
  BY <1>1 DEF Ok, Founded
<1>4. /\ page' \in Views /\ page'.selected = page.selected /\ page'.tenants = page.tenants
      /\ page'.form = (IF Ok(w) THEN req[w].body ELSE page.form) /\ page'.labelSaving = page.labelSaving
  BY <1>1, <1>3 DEF Views
<1>5. ~strayed' => AtHome'
  <2> SUFFICES ASSUME ~strayed' PROVE page'.form = page'.selected
    BY DEF AtHome
  <2>1. ~strayed /\ req[w].tenant = page.selected /\ (~Ok(w) => page.form = page.selected)
    BY <1>1
  <2> QED BY <1>1, <1>4, <2>1 DEF Homed, Ok
<1>6. Counted' /\ strayed' \in BOOLEAN /\ told' \in [Tenants -> Nat] /\ (strayed => strayed')
  BY <1>1 DEF AdminInv, PageInv, Counted, Rows
<1> QED BY <1>1, <1>2, <1>4, <1>5, <1>6, PageStep

\* A save that is reported is a row that is there, or one given up.
LEMMA SaveArrivesKeeps ==
  ASSUME AdminInv, NEW w \in Threads, SaveArrives(w)
  PROVE  PageInv'
<1> USE PageFacts, FetchFacts
<1>1. /\ req[w].kind = "save" /\ req[w].at \in {"answered", "failed"} /\ Done(w)
      /\ page' = [page EXCEPT !.labelSaving = FALSE, !.form = IF Ok(w) THEN req[w].body ELSE @]
      /\ told' = IF Ok(w) THEN [told EXCEPT ![req[w].tenant] = @ + 1] ELSE told
      /\ strayed' = (strayed \/ (Ok(w) /\ req[w].tenant # page.selected))
      /\ UNCHANGED <<table, use, reply, config, unlogged>>
  BY DEF SaveArrives, Arrived, vars
<1>2. /\ req' = [req EXCEPT ![w] = req'[w]] /\ Sendable(req'[w]) /\ Homed(req'[w])
      /\ req'[w].kind = "none" /\ use[w].at = "idle"
  BY <1>1, Dones
<1>3. req[w].body \in Texts /\ req[w].tenant \in Tenants
  BY <1>1 DEF Founded
<1>4. /\ page' \in Views /\ page'.selected = page.selected /\ page'.tenants = page.tenants
      /\ page'.tab = page.tab /\ page'.labelLoading = page.labelLoading
      /\ page'.form = IF Ok(w) THEN req[w].body ELSE page.form
  BY <1>1, <1>3 DEF Views
<1>5. ~strayed' => AtHome'
  BY <1>1, <1>4 DEF AdminInv, PageInv, Home, AtHome, Homed
<1>6. Counted' /\ told' \in [Tenants -> Nat]
  <2>1. unlogged' = unlogged /\ \A t : Rows(t)' = Rows(t)
    BY <1>1 DEF Rows
  <2>2. CASE Ok(w)
    <3>1. told[req[w].tenant] + 1 <= Rows(req[w].tenant) + unlogged
      BY <1>1, <2>2 DEF Accounted, Logged, Ok
    <3> QED BY <1>1, <1>3, <2>1, <2>2, <3>1 DEF AdminInv, PageInv, Counted
  <2>3. CASE ~Ok(w)
    BY <1>1, <2>1, <2>3 DEF AdminInv, PageInv, Counted
  <2> QED BY <2>2, <2>3
<1>7. strayed' \in BOOLEAN /\ (strayed => strayed')
  BY <1>1
<1> QED BY <1>1, <1>2, <1>4, <1>5, <1>6, <1>7, PageStep

LEMMA SummaryArrivesKeeps ==
  ASSUME AdminInv, NEW w \in Threads, SummaryArrives(w)
  PROVE  PageInv'
<1> USE PageFacts, FetchFacts
<1>1. /\ req[w].kind = "summary" /\ req[w].at \in {"answered", "failed"} /\ Done(w)
      /\ reply' = [reply EXCEPT ![w] = None] /\ page' = [page EXCEPT !.usageLoading = FALSE]
      /\ UNCHANGED <<table, use, config, told, unlogged, strayed>>
  BY DEF SummaryArrives, Arrived, Take
<1>2. /\ req' = [req EXCEPT ![w] = req'[w]] /\ Sendable(req'[w]) /\ Homed(req'[w])
      /\ req'[w].kind = "none" /\ use[w].at = "idle"
  BY <1>1, Dones
<1>3. \A v \in Threads \ {w} : reply'[v] = reply[v]
  BY <1>1 DEF AdminInv, IInv, Typed
<1>4. /\ page' \in Views /\ page'.selected = page.selected /\ page'.tenants = page.tenants
      /\ page'.tab = page.tab /\ page'.labelLoading = page.labelLoading
      /\ page'.form = page.form /\ page'.labelSaving = page.labelSaving
  BY <1>1 DEF Views
<1>5. ~strayed' => AtHome'
  BY <1>1, <1>4 DEF AdminInv, PageInv, Home, AtHome
<1>6. Counted' /\ strayed' \in BOOLEAN /\ told' \in [Tenants -> Nat]
  BY <1>1 DEF AdminInv, PageInv, Counted, Rows
<1> QED BY <1>1, <1>2, <1>3, <1>4, <1>5, <1>6, PageStep

\* A tenant that was posted is listed next, to be selected.
LEMMA PostArrivesKeeps ==
  ASSUME AdminInv, NEW w \in Threads, PostArrives(w)
  PROVE  PageInv'
<1> USE PageFacts, FetchFacts
<1>1. /\ req[w].kind = "post" /\ req[w].at \in {"answered", "failed"}
      /\ UNCHANGED <<table, use, reply, config, told, unlogged, strayed>>
  BY DEF PostArrives, Arrived, vars
<1>2. /\ req' = [req EXCEPT ![w] = req'[w]] /\ Sendable(req'[w]) /\ Homed(req'[w])
      /\ req'[w].kind # "save" /\ use[w].at = "idle"
      /\ page' \in Views /\ page'.selected = page.selected /\ page'.tenants = page.tenants
      /\ page'.tab = page.tab /\ page'.labelLoading = page.labelLoading
      /\ page'.form = page.form /\ page'.labelSaving = page.labelSaving
  <2>1. CASE Ok(w)
    <3>1. /\ req' = [req EXCEPT ![w] = Fetch("tenants", req[w].tenant, None)]
          /\ page' = [page EXCEPT !.tenantsLoading = TRUE]
      BY <2>1 DEF PostArrives
    <3>2. req' = [req EXCEPT ![w] = req'[w]] /\ req'[w] = Fetch("tenants", req[w].tenant, None)
      BY <3>1 DEF AdminInv, PageInv, AdminTyped
    <3>3. req[w].tenant \in Known /\ use[w].at = "idle"
      BY <1>1, <2>1 DEF Ok, Founded, Coupled
    <3>4. Sendable(req'[w])
      <4>1. /\ req[w].tenant \in Tenants \cup {None} /\ req[w].tenant \in Known \cup {None}
            /\ None \in Texts \cup {None}
        BY <3>3 DEF Known
      <4>2. /\ "tenants" \in {"labels", "save", "summary", "post", "tenants"}
            /\ "tenants" \notin {"labels", "save", "summary"} /\ "tenants" # "post" /\ "tenants" # "save"
        OBVIOUS
      <4> QED BY <3>2, <4>1, <4>2, Zenon DEF Sendable
    <3>5. req'[w].kind = "tenants" /\ Homed(req'[w])
      BY <3>2 DEF Fetch, Homed
    <3> QED BY <3>1, <3>2, <3>3, <3>4, <3>5 DEF Views
  <2>2. CASE ~Ok(w)
    <3>1. Done(w) /\ page' = [page EXCEPT !.creating = FALSE]
      BY <2>2 DEF PostArrives
    <3>2. /\ req' = [req EXCEPT ![w] = req'[w]] /\ Sendable(req'[w]) /\ Homed(req'[w])
          /\ req'[w].kind = "none" /\ use[w].at = "idle"
      BY <1>1, <3>1, Dones
    <3> QED BY <3>1, <3>2 DEF Views
  <2> QED BY <2>1, <2>2
<1>3. ~strayed' => AtHome'
  BY <1>1, <1>2 DEF AdminInv, PageInv, Home, AtHome
<1>4. Counted' /\ strayed' \in BOOLEAN /\ told' \in [Tenants -> Nat]
  BY <1>1 DEF AdminInv, PageInv, Counted, Rows
<1> QED BY <1>1, <1>2, <1>3, <1>4, PageStep

\* Whichever list is answered last, what is selected from it is in it.
LEMMA PickFacts ==
  ASSUME AdminInv, NEW w \in Threads, req[w].kind = "tenants", req[w].at \in {"answered", "failed"},
         NEW list, list = IF Ok(w) THEN req[w].body ELSE {}
  PROVE  /\ list \subseteq Known /\ Pick(list, w) \in Known
         /\ list # {} => Pick(list, w) \in list
<1>1. Founded(req[w]) /\ page.selected \in Known
  BY FetchFacts, PageFacts
<1>2. list \subseteq Known /\ (Ok(w) => First \in list)
  BY <1>1 DEF Ok, Founded
<1>3. CASE req[w].tenant # None
  BY <1>1, <1>2, <1>3 DEF Pick, Founded, Ok
<1>4. CASE req[w].tenant = None /\ page.selected \in list
  BY <1>2, <1>4 DEF Pick
<1>5. CASE req[w].tenant = None /\ page.selected \notin list /\ ~Ok(w)
  BY <1>1, <1>2, <1>5 DEF Pick
<1>6. CASE req[w].tenant = None /\ page.selected \notin list /\ Ok(w)
  <2>1. Pick(list, w) = CHOOSE t \in list : TRUE
    BY <1>6 DEF Pick
  <2>2. (CHOOSE t \in list : TRUE) \in list
    BY <1>2, <1>6
  <2> QED BY <1>2, <2>1, <2>2
<1> QED BY <1>3, <1>4, <1>5, <1>6

LEMMA TenantsArriveKeeps ==
  ASSUME AdminInv, NEW w \in Threads, TenantsArrive(w)
  PROVE  PageInv'
<1> USE PageFacts, FetchFacts
<1>1. /\ req[w].kind = "tenants" /\ req[w].at \in {"answered", "failed"} /\ use[w].at = "idle"
      /\ UNCHANGED <<table, use, reply, config, told, unlogged, strayed>>
  BY DEF TenantsArrive, Arrived, vars, Coupled
<1>2. PICK list : list = IF Ok(w) THEN req[w].body ELSE {}
  OBVIOUS
<1>3. /\ list \subseteq Known /\ Pick(list, w) \in Known
      /\ list # {} => Pick(list, w) \in list
  BY <1>1, <1>2, PickFacts
<1> DEFINE next == [page EXCEPT !.tenants = list, !.tenantsLoading = FALSE, !.selected = Pick(list, w),
                      !.creating = @ /\ req[w].tenant = None]
<1>4. /\ next \in Views /\ next.selected = Pick(list, w) /\ next.tenants = list
      /\ next.tab = page.tab /\ next.labelLoading = page.labelLoading
      /\ next.form = page.form /\ next.labelSaving = page.labelSaving
  BY <1>3 DEF Views
<1>5. IF next.selected = page.selected
      THEN page' = next /\ Done(w)
      ELSE page' = Loading(next) /\ req' = [req EXCEPT ![w] = Reload(next)]
  BY <1>2 DEF TenantsArrive
<1> HIDE DEF next
<1>6. Counted' /\ strayed' \in BOOLEAN /\ told' \in [Tenants -> Nat]
  BY <1>1 DEF AdminInv, PageInv, Counted, Rows
<1>7. CASE next.selected = page.selected
  <2>1. /\ page' = next /\ req' = [req EXCEPT ![w] = req'[w]] /\ Sendable(req'[w])
        /\ Homed(req'[w]) /\ req'[w].kind = "none"
    BY <1>1, <1>5, <1>7, Dones
  <2>2. ~strayed' => AtHome'
    BY <1>1, <1>4, <1>7, <2>1 DEF AdminInv, PageInv, Home, AtHome
  <2> QED BY <1>1, <1>3, <1>4, <1>6, <2>1, <2>2, PageStep
<1>8. CASE next.selected # page.selected
  <2>1. /\ page' = Loading(next) /\ page' \in Views /\ page'.selected = next.selected
        /\ page'.tenants = list /\ page'.labelSaving = page.labelSaving
        /\ page'.tab = next.tab /\ (next.tab = "labels" => page'.labelLoading)
    BY <1>4, <1>5, <1>8, LoadingFacts
  <2>2. req' = [req EXCEPT ![w] = req'[w]] /\ req'[w] = Reload(next)
    BY <1>5, <1>8 DEF AdminInv, PageInv, AdminTyped
  <2>3. Sendable(req'[w]) /\ req'[w].kind # "save" /\ Homed(req'[w])
    BY <1>3, <1>4, <2>2, ReloadFacts
  <2>4. AtHome'
    BY <2>1 DEF AtHome
  <2> QED BY <1>1, <1>3, <1>4, <1>6, <2>1, <2>2, <2>3, <2>4, PageStep
<1> QED BY <1>7, <1>8

-----------------------------------------------------------------------------
\* Whatever the page, the handlers and the network do, the usage log makes at
\* most one step of its own, of one thread.
LEMMA LogSteps ==
  ASSUME AdminInv, [AdminNext]_allVars
  PROVE  [Next]_vars
<1>1. CASE UNCHANGED allVars
  BY <1>1 DEF allVars
<1>2. CASE User
  BY <1>2 DEF User, OpenTab, SelectTenant, Refresh, Show, SaveLabels, CreateTenant
<1>3. CASE OtherCall
  <2>1. PICK q \in Others : Ask(Server, q) /\ Server \in Threads
    BY <1>3, ServerFree DEF OtherCall
  <2>2. q \in Ledger!Calls
    BY <2>1 DEF Ask
  <2> QED BY <2>1, <2>2 DEF Next
<1>4. ASSUME NEW w \in Threads, Handle(w) \/ RaiseLog(w) \/ Lose(w) \/ Arrive(w)
      PROVE  [Next]_vars
  <2>1. ASSUME NEW q, Ask(w, q) PROVE Next
    <3>1. q \in Ledger!Calls
      BY <2>1 DEF Ask
    <3> QED BY <2>1, <3>1 DEF Next
  <2>2. CASE GetLabels(w) \/ GetTenants(w)
    BY <2>2 DEF GetLabels, GetTenants
  <2>3. CASE PatchLabels(w) \/ PostTenant(w) \/ GetSummary(w)
    BY <2>1, <2>3 DEF PatchLabels, PostTenant, GetSummary, Logging
  <2>4. CASE UseLog(w) \/ EndLog(w) \/ RaiseLog(w)
    BY <2>4 DEF UseLog, EndLog, RaiseLog, Next
  <2>5. CASE Lose(w) \/ LabelsArrive(w) \/ SaveArrives(w) \/ PostArrives(w) \/ TenantsArrive(w)
    BY <2>5 DEF Lose, LabelsArrive, SaveArrives, PostArrives, TenantsArrive
  <2>6. CASE SummaryArrives(w)
    BY <2>6 DEF SummaryArrives, Next
  <2> QED BY <1>4, <2>2, <2>3, <2>4, <2>5, <2>6 DEF Handle, Arrive
<1> QED BY <1>1, <1>2, <1>3, <1>4 DEF AdminNext

LEMMA InitAdminInv == AdminInit => AdminInv /\ Ledger!Init
<1> SUFFICES ASSUME AdminInit PROVE AdminInv /\ Ledger!Init
  OBVIOUS
<1>1. IInv /\ Ledger!Init
  BY InitIInv DEF AdminInit
<1>2. /\ table = <<>> /\ \A w \in Threads : use[w].at = "idle"
      /\ First \in Demo /\ Demo \subseteq Tenants /\ None \notin Tenants
  BY AdminAssumption DEF AdminInit, Init, NoUse
<1>3. /\ page = [tab |-> "chat", selected |-> First, tenants |-> {}, tenantsLoading |-> TRUE,
                 form |-> Empty, labelLoading |-> FALSE, labelSaving |-> FALSE,
                 usageLoading |-> FALSE, creating |-> FALSE]
      /\ config = [t \in Tenants |-> IF t \in Demo THEN t ELSE None]
      /\ told = [t \in Tenants |-> 0] /\ unlogged = 0 /\ strayed = FALSE
  BY DEF AdminInit
<1>4. Known = Demo
  BY <1>2, <1>3 DEF Known
<1>5. req \in [Threads -> Requests]
      /\ \A w \in Threads : /\ req[w].kind \in {"none", "tenants"} /\ req[w].tenant = None
                            /\ req[w].kind = "none" => req[w].at = "none"
                            /\ req[w].kind = "tenants" => req[w].at = "sent"
  BY DEF AdminInit, NoReq, Requests
<1>6. AdminTyped
  <2>1. table \in Seq(Ledger!Row)
    BY <1>2
  <2> QED BY <1>2, <1>3, <1>5, <2>1 DEF AdminTyped, Views, Texts
<1>7. Requested /\ Home /\ OneSave
  BY <1>2, <1>3, <1>5 DEF Requested, Founded, Coupled, Accounted, Home, AtHome, Homed, OneSave
<1>8. Listed
  BY <1>2, <1>3, <1>4 DEF Listed, SelectedListed
<1>9. Counted
  BY <1>3, <1>6, RowsFacts DEF Counted, Rows, AdminTyped
<1> QED BY <1>1, <1>6, <1>7, <1>8, <1>9 DEF AdminInv, PageInv

LEMMA StepAdminInv == AdminInv /\ [AdminNext]_allVars => AdminInv' /\ [Ledger!Next]_(Ledger!vars)
<1> SUFFICES ASSUME AdminInv, [AdminNext]_allVars PROVE AdminInv' /\ [Ledger!Next]_(Ledger!vars)
  OBVIOUS
<1>1. IInv' /\ [Ledger!Next]_(Ledger!vars)
  BY LogSteps, StepIInv DEF AdminInv
<1>2. PageInv'
  <2>1. CASE UNCHANGED allVars
    BY <2>1 DEF AdminInv, PageInv, AdminTyped, allVars, adminVars, vars, Requested, Founded, Known,
       Coupled, QueryOf, RowOf, SummaryOf, Accounted, Logged, Rows, Home, AtHome, Homed, Listed,
       SelectedListed, OneSave, Counted
  <2>2. CASE User
    BY <2>2, TabsKeep, SaveLabelsKeeps, CreateTenantKeeps DEF User
  <2>3. CASE OtherCall
    BY <2>3, OtherCallKeeps
  <2>4. ASSUME NEW w \in Threads, Handle(w)
        PROVE  PageInv'
    BY <2>4, GetLabelsKeeps, GetTenantsKeeps, PatchLabelsKeeps, PostTenantKeeps, GetSummaryKeeps,
       UseLogKeeps, EndLogKeeps DEF Handle
  <2>5. ASSUME NEW w \in Threads, Arrive(w)
        PROVE  PageInv'
    BY <2>5, LabelsArriveKeeps, SaveArrivesKeeps, SummaryArrivesKeeps, PostArrivesKeeps,
       TenantsArriveKeeps DEF Arrive
  <2>6. ASSUME NEW w \in Threads, RaiseLog(w) \/ Lose(w)
        PROVE  PageInv'
    BY <2>6, RaiseLogKeeps, LoseKeeps
  <2> QED BY <2>1, <2>2, <2>3, <2>4, <2>5, <2>6 DEF AdminNext
<1> QED BY <1>1, <1>2 DEF AdminInv

\* Behind the page too, the calls of the usage log take effect at one moment each
\* and at most once.
THEOREM AdminTakesEffectAtOnce == AdminSpec => TakesEffectAtOnce
<1>1. AdminSpec => Ledger!Init /\ [][Ledger!Next]_(Ledger!vars)
  BY InitAdminInv, StepAdminInv, PTL DEF AdminSpec
<1> QED BY <1>1 DEF TakesEffectAtOnce, Ledger!Spec

\* As long as no answer came late, no interleaving of tabs, selections, loads and
\* saves writes one tenant's labels to another.
THEOREM AdminLabelsStayHome == AdminSpec => []LabelsStayHome
<1>1. AdminInv => LabelsStayHome
  BY DEF AdminInv, PageInv, Home, LabelsStayHome
<1> QED BY <1>1, InitAdminInv, StepAdminInv, PTL DEF AdminSpec

\* A summary counts every save the page had reported when it asked, but for rows
\* whose logging raised.
THEOREM AdminSavedIsCounted == AdminSpec => []SavedIsCounted
<1>1. AdminInv => SavedIsCounted
  BY DEF AdminInv, PageInv, Requested, Accounted, SavedIsCounted, Label
<1> QED BY <1>1, InitAdminInv, StepAdminInv, PTL DEF AdminSpec

\* What is selected is one of the options, whichever list is answered last.
THEOREM AdminSelectedListed == AdminSpec => []SelectedListed
<1>1. AdminInv => SelectedListed
  BY DEF AdminInv, PageInv, Listed
<1> QED BY <1>1, InitAdminInv, StepAdminInv, PTL DEF AdminSpec

-----------------------------------------------------------------------------
(* What is waited for *)

LockTaken == lock # None => lock \in Threads /\ use[lock].at \in Holding

Spinners(p, r) ==
  /\ p.labelLoading => \E w \in Threads : r[w].kind = "labels"
  /\ p.labelSaving => \E w \in Threads : r[w].kind = "save"
  /\ p.usageLoading => \E w \in Threads : r[w].kind = "summary"
  /\ p.creating => \E w \in Threads : Creation(r[w])

\* Of the parts of SpinnersAwaited one is known already.
LEMMA AwaitedParts ==
  ASSUME AdminInv
  PROVE  SpinnersAwaited <=> Spinners(page, req) /\ LockTaken
<1>1. \A w \in Threads : req[w].at = "logging" => use[w].at # "idle"
  BY FetchFacts DEF Coupled
<1> QED BY <1>1 DEF SpinnersAwaited, Spinners, LockTaken, Awaited

\* A thread takes the lock when it begins its call, and gives it back when that
\* ends, well or not; nobody else's end takes it from it.
LEMMA LockStep ==
  ASSUME IInv, LockTaken, [Next]_vars
  PROVE  LockTaken'
<1>1. /\ None \notin Threads /\ \A t \in Threads : use[t].at \in Holding => lock = t
      /\ use = [t \in Threads |-> [at |-> use[t].at, q |-> use[t].q, got |-> use[t].got]]
  BY NoneAssumption DEF IInv, Typed, Held
<1>2. CASE UNCHANGED vars
  BY <1>2 DEF vars, LockTaken
<1>3. ASSUME NEW t \in Threads, lock' = None
      PROVE  LockTaken'
  BY <1>3 DEF LockTaken
<1>4. ASSUME NEW t \in Threads, NEW at, NEW got, Move(t, at, got), lock' = lock,
             use[t].at \in Holding => at \in Holding
      PROVE  LockTaken'
  BY <1>1, <1>4 DEF Move, LockTaken
<1>5. ASSUME NEW t \in Threads, Acquire(t)
      PROVE  LockTaken'
  BY <1>1, <1>5 DEF Acquire, At, Move, LockTaken, Holding
<1>6. ASSUME NEW t \in Threads, NEW q, Ask(t, q)
      PROVE  LockTaken'
  BY <1>1, <1>6 DEF Ask, LockTaken, Holding
<1>7. ASSUME NEW t \in Threads, Work(t)
      PROVE  LockTaken'
  <2>1. CASE InitDb(t)
    BY <1>4, <2>1 DEF InitDb, At, Holding
  <2>2. CASE Commit(t)
    BY <1>4, <2>2 DEF Commit, At, Holding
  <2>3. CASE QueryTotal(t)
    BY <1>4, <2>3 DEF QueryTotal, Holding
  <2>4. CASE QueryBreakdown(t)
    BY <1>4, <2>4 DEF QueryBreakdown, Holding
  <2>5. CASE QueryIntents(t)
    BY <1>4, <2>5 DEF QueryIntents, Holding
  <2>6. CASE QueryPage(t)
    BY <1>4, <2>6 DEF QueryPage, Holding
  <2> QED BY <1>5, <1>7, <2>1, <2>2, <2>3, <2>4, <2>5, <2>6 DEF Work
<1>8. ASSUME NEW t \in Threads, Take(t)
      PROVE  LockTaken'
  BY <1>8 DEF Take, LockTaken
<1>9. ASSUME NEW t \in Threads, Return(t) \/ Raise(t)
      PROVE  LockTaken'
  BY <1>3, <1>9 DEF Return, Raise
<1> QED BY <1>2, <1>6, <1>7, <1>8, <1>9 DEF Next

\* A fetch that only moves on is still awaited.
LEMMA MovedAwaited ==
  ASSUME Spinners(page, req), UNCHANGED page,
         \A w \in Threads : req'[w].kind = req[w].kind /\ req'[w].tenant = req[w].tenant
  PROVE  Spinners(page, req)'
  BY DEF Spinners, Creation

\* A fetch sent for the spinners that start with it, or taken back with the one
\* spinner it was for.
LEMMA SwappedAwaited ==
  ASSUME AdminInv, Spinners(page, req), NEW w \in Threads, req' = [req EXCEPT ![w] = req'[w]],
         page'.labelLoading => req'[w].kind = "labels" \/ (page.labelLoading /\ req[w].kind # "labels"),
         page'.labelSaving => req'[w].kind = "save" \/ (page.labelSaving /\ req[w].kind # "save"),
         page'.usageLoading => req'[w].kind = "summary" \/ (page.usageLoading /\ req[w].kind # "summary"),
         page'.creating => Creation(req'[w]) \/ (page.creating /\ ~Creation(req[w]))
  PROVE  Spinners(page, req)'
<1>1. \A v \in Threads \ {w} : req'[v] = req[v]
  BY DEF AdminInv, PageInv, AdminTyped
<1> QED BY <1>1 DEF Spinners

LEMMA AnsweredAwaited ==
  ASSUME AdminInv, Spinners(page, req), UNCHANGED page, NEW w \in Threads, NEW at, NEW body,
         \/ req' = req
         \/ req' = [req EXCEPT ![w].at = at]
         \/ req' = [req EXCEPT ![w].at = at, ![w].body = body]
  PROVE  Spinners(page, req)'
<1>1. req \in [Threads -> Requests]
  BY DEF AdminInv, PageInv, AdminTyped
<1>2. \A v \in Threads \ {w} : req'[v] = req[v]
  BY <1>1
<1>3. req'[w].kind = req[w].kind /\ req'[w].tenant = req[w].tenant
  <2>1. req[w] \in Requests
    BY <1>1
  <2>2. CASE req' = [req EXCEPT ![w].at = at]
    BY <1>1, <2>1, <2>2 DEF Requests
  <2>3. CASE req' = [req EXCEPT ![w].at = at, ![w].body = body]
    <3>1. req'[w] = [req[w] EXCEPT !.at = at, !.body = body]
      BY <1>1, <2>3
    <3> QED BY <2>1, <3>1 DEF Requests
  <2> QED BY <2>2, <2>3
<1> QED BY <1>2, <1>3, MovedAwaited

LEMMA ServedAwaited ==
  ASSUME AdminInv, Spinners(page, req), NEW w \in Threads, Handle(w) \/ RaiseLog(w) \/ Lose(w)
  PROVE  Spinners(page, req)'
<1>1. CASE GetLabels(w) \/ GetTenants(w)
  BY <1>1, AnsweredAwaited DEF GetLabels, GetTenants, Answer
<1>2. CASE PatchLabels(w) \/ GetSummary(w)
  BY <1>2, AnsweredAwaited DEF PatchLabels, GetSummary, Logging
<1>3. CASE PostTenant(w)
  BY <1>3, AnsweredAwaited DEF PostTenant, Logging, Answer
<1>4. CASE UseLog(w)
  BY <1>4, MovedAwaited DEF UseLog, adminVars
<1>5. CASE EndLog(w)
  BY <1>5, AnsweredAwaited DEF EndLog, Answer
<1>6. CASE RaiseLog(w)
  BY <1>6, AnsweredAwaited DEF RaiseLog
<1>7. CASE Lose(w)
  BY <1>7, AnsweredAwaited DEF Lose
<1> QED BY <1>1, <1>2, <1>3, <1>4, <1>5, <1>6, <1>7 DEF Handle

\* The effects of a tab start its spinner and send its fetch.
LEMMA LoadingAwaited ==
  ASSUME NEW p \in Views
  PROVE  /\ Loading(p).labelLoading => p.labelLoading \/ Reload(p).kind = "labels"
         /\ Loading(p).usageLoading => p.usageLoading \/ Reload(p).kind = "summary"
         /\ Loading(p).labelSaving = p.labelSaving /\ Loading(p).creating = p.creating
         /\ Reload(p) = NoReq => Loading(p) = p
<1>1. CASE p.tab = "labels"
  BY <1>1 DEF Loading, Reload, Fetch, NoReq, Views
<1>2. CASE p.tab = "usage"
  BY <1>2 DEF Loading, Reload, Fetch, NoReq, Views
<1>3. CASE p.tab \notin {"labels", "usage"}
  BY <1>3 DEF Loading, Reload, NoReq, Views
<1> QED BY <1>1, <1>2, <1>3

LEMMA ShowAwaited ==
  ASSUME AdminInv, Spinners(page, req), NEW p \in Views, Show(p),
         p.labelLoading = page.labelLoading, p.labelSaving = page.labelSaving,
         p.usageLoading = page.usageLoading, p.creating = page.creating
  PROVE  Spinners(page, req)'
<1>1. CASE Reload(p) = NoReq
  <2>1. page' = p /\ req' = req
    BY <1>1, LoadingAwaited DEF Show
  <2> QED BY <2>1 DEF Spinners
<1>2. CASE Reload(p) # NoReq
  <2>1. PICK w \in Threads : w = Server /\ req[w].kind = "none"
    BY <1>2, ServerFree DEF Show, Requesting, Free
  <2>2. req' = [req EXCEPT ![w] = req'[w]] /\ req'[w] = Reload(p) /\ page' = Loading(p)
    BY <1>2, <2>1 DEF Show, Send, AdminInv, PageInv, AdminTyped
  <2>3. ~Creation(req[w])
    BY <2>1 DEF Creation
  <2> QED BY <2>1, <2>2, <2>3, LoadingAwaited, SwappedAwaited
<1> QED BY <1>1, <1>2

LEMMA UserAwaited ==
  ASSUME AdminInv, Spinners(page, req), User
  PROVE  Spinners(page, req)'
<1> USE PageFacts
<1>1. ASSUME NEW tab \in {"labels", "usage", "tenants"}, Show([page EXCEPT !.tab = tab])
      PROVE  Spinners(page, req)'
  <2> DEFINE p == [page EXCEPT !.tab = tab]
  <2>1. /\ p \in Views /\ p.labelLoading = page.labelLoading /\ p.labelSaving = page.labelSaving
        /\ p.usageLoading = page.usageLoading /\ p.creating = page.creating
    BY <1>1 DEF Views
  <2> HIDE DEF p
  <2> QED BY <1>1, <2>1, ShowAwaited DEF p
<1>2. ASSUME NEW t \in page.tenants, Show([page EXCEPT !.selected = t])
      PROVE  Spinners(page, req)'
  <2> DEFINE p == [page EXCEPT !.selected = t]
  <2>1. /\ p \in Views /\ p.labelLoading = page.labelLoading /\ p.labelSaving = page.labelSaving
        /\ p.usageLoading = page.usageLoading /\ p.creating = page.creating
    BY <1>2 DEF Views
  <2> HIDE DEF p
  <2> QED BY <1>2, <2>1, ShowAwaited DEF p
<1>3. CASE Refresh
  BY <1>3, ShowAwaited DEF Refresh
<1>4. CASE SaveLabels \/ CreateTenant
  <2>1. PICK w \in Threads : w = Server /\ req[w].kind = "none"
    BY <1>4, ServerFree DEF SaveLabels, CreateTenant, Requesting, Free
  <2>2. ~Creation(req[w])
    BY <2>1 DEF Creation
  <2>3. CASE SaveLabels
    <3>1. /\ req' = [req EXCEPT ![w] = req'[w]] /\ req'[w] = Fetch("save", page.selected, page.form)
          /\ page' = [page EXCEPT !.labelSaving = TRUE]
      BY <2>1, <2>3 DEF SaveLabels, Send, AdminInv, PageInv, AdminTyped
    <3>2. req'[w].kind = "save" /\ page'.labelLoading = page.labelLoading
          /\ page'.usageLoading = page.usageLoading /\ page'.creating = page.creating
      BY <3>1 DEF Fetch, Views
    <3> QED BY <2>1, <2>2, <3>1, <3>2, SwappedAwaited
  <2>4. CASE CreateTenant
    <3>1. PICK t \in Posted : /\ req' = [req EXCEPT ![w] = req'[w]] /\ req'[w] = Fetch("post", t, None)
                              /\ page' = [page EXCEPT !.creating = TRUE]
      BY <2>1, <2>4 DEF CreateTenant, Send, AdminInv, PageInv, AdminTyped
    <3>2. Creation(req'[w]) /\ page'.labelLoading = page.labelLoading
          /\ page'.usageLoading = page.usageLoading /\ page'.labelSaving = page.labelSaving
      BY <3>1 DEF Fetch, Views, Creation
    <3> QED BY <2>1, <2>2, <3>1, <3>2, SwappedAwaited
  <2> QED BY <1>4, <2>3, <2>4
<1> QED BY <1>1, <1>2, <1>3, <1>4 DEF User, OpenTab, SelectTenant

\* What an answer ends, and what goes on for it.
LEMMA ArriveAwaited ==
  ASSUME AdminInv, Spinners(page, req), NEW w \in Threads, Arrive(w)
  PROVE  Spinners(page, req)'
<1> USE PageFacts
<1>1. ASSUME Done(w)
      PROVE  req' = [req EXCEPT ![w] = req'[w]] /\ req'[w] = NoReq
  BY <1>1 DEF Done, AdminInv, PageInv, AdminTyped
<1>2. CASE LabelsArrive(w)
  <2>1. req[w].kind = "labels" /\ ~Creation(req[w])
    BY <1>2 DEF LabelsArrive, Arrived, Creation
  <2>2. /\ ~page'.labelLoading /\ page'.labelSaving = page.labelSaving
        /\ page'.usageLoading = page.usageLoading /\ page'.creating = page.creating
    BY <1>2 DEF LabelsArrive, Views
  <2> QED BY <1>1, <1>2, <2>1, <2>2, SwappedAwaited DEF LabelsArrive
<1>3. CASE SaveArrives(w)
  <2>1. req[w].kind = "save" /\ ~Creation(req[w])
    BY <1>3 DEF SaveArrives, Arrived, Creation
  <2>2. /\ ~page'.labelSaving /\ page'.labelLoading = page.labelLoading
        /\ page'.usageLoading = page.usageLoading /\ page'.creating = page.creating
    BY <1>3 DEF SaveArrives, Views
  <2> QED BY <1>1, <1>3, <2>1, <2>2, SwappedAwaited DEF SaveArrives
<1>4. CASE SummaryArrives(w)
  <2>1. req[w].kind = "summary" /\ ~Creation(req[w])
    BY <1>4 DEF SummaryArrives, Arrived, Creation
  <2>2. /\ ~page'.usageLoading /\ page'.labelSaving = page.labelSaving
        /\ page'.labelLoading = page.labelLoading /\ page'.creating = page.creating
    BY <1>4 DEF SummaryArrives, Views
  <2> QED BY <1>1, <1>4, <2>1, <2>2, SwappedAwaited DEF SummaryArrives
<1>5. CASE PostArrives(w)
  <2>1. req[w].kind = "post" /\ req[w].at \in {"answered", "failed"}
    BY <1>5 DEF PostArrives, Arrived
  <2>2. CASE Ok(w)
    <3>1. /\ req' = [req EXCEPT ![w] = req'[w]] /\ req'[w] = Fetch("tenants", req[w].tenant, None)
          /\ page' = [page EXCEPT !.tenantsLoading = TRUE]
      BY <1>5, <2>2 DEF PostArrives, AdminInv, PageInv, AdminTyped
    <3>2. req[w].tenant # None
      BY <2>1, FetchFacts, AdminAssumption DEF Founded
    <3>3. Creation(req'[w])
      BY <3>1, <3>2 DEF Creation, Fetch
    <3>4. /\ page'.labelSaving = page.labelSaving /\ page'.labelLoading = page.labelLoading
          /\ page'.usageLoading = page.usageLoading
      BY <3>1 DEF Views
    <3> QED BY <2>1, <3>1, <3>3, <3>4, SwappedAwaited
  <2>3. CASE ~Ok(w)
    <3>1. Done(w) /\ page' = [page EXCEPT !.creating = FALSE]
      BY <1>5, <2>3 DEF PostArrives
    <3>2. /\ ~page'.creating /\ page'.labelSaving = page.labelSaving
          /\ page'.labelLoading = page.labelLoading /\ page'.usageLoading = page.usageLoading
      BY <3>1 DEF Views
    <3> QED BY <1>1, <2>1, <3>1, <3>2, SwappedAwaited
  <2> QED BY <2>2, <2>3
<1>6. CASE TenantsArrive(w)
  <2>1. req[w].kind = "tenants" /\ req[w].at \in {"answered", "failed"}
    BY <1>6 DEF TenantsArrive, Arrived
  <2>2. PICK list : list = IF Ok(w) THEN req[w].body ELSE {}
    OBVIOUS
  <2> DEFINE next == [page EXCEPT !.tenants = list, !.tenantsLoading = FALSE, !.selected = Pick(list, w),
                        !.creating = @ /\ req[w].tenant = None]
  <2>3. list \subseteq Known /\ Pick(list, w) \in Known
    BY <2>1, <2>2, PickFacts
  <2>4. /\ next \in Views /\ next.labelSaving = page.labelSaving /\ next.labelLoading = page.labelLoading
        /\ next.usageLoading = page.usageLoading
        /\ next.creating => page.creating /\ req[w].tenant = None
    BY <2>3 DEF Views
  <2>5. IF next.selected = page.selected
        THEN page' = next /\ Done(w)
        ELSE page' = Loading(next) /\ req' = [req EXCEPT ![w] = Reload(next)]
    BY <1>6, <2>2 DEF TenantsArrive
  <2> HIDE DEF next
  <2>6. next.creating => page.creating /\ ~Creation(req[w])
    BY <2>1, <2>4 DEF Creation
  <2>7. CASE next.selected = page.selected
    BY <1>1, <2>1, <2>4, <2>5, <2>6, <2>7, SwappedAwaited
  <2>8. CASE next.selected # page.selected
    <3>1. req' = [req EXCEPT ![w] = req'[w]] /\ req'[w] = Reload(next) /\ page' = Loading(next)
      BY <2>5, <2>8 DEF AdminInv, PageInv, AdminTyped
    <3> QED BY <2>1, <2>4, <2>6, <3>1, LoadingAwaited, SwappedAwaited
  <2> QED BY <2>7, <2>8
<1> QED BY <1>2, <1>3, <1>4, <1>5, <1>6 DEF Arrive

LEMMA InitAwaited == AdminInit => SpinnersAwaited
BY DEF AdminInit, Init, SpinnersAwaited, Awaited, NoReq

LEMMA StepAwaited ==
  ASSUME AdminInv, AdminInv', SpinnersAwaited, [AdminNext]_allVars
  PROVE  Spinners(page, req)' /\ LockTaken'
<1>1. Spinners(page, req) /\ LockTaken
  BY AwaitedParts
<1>2. LockTaken'
  BY <1>1, LogSteps, LockStep DEF AdminInv
<1>3. Spinners(page, req)'
  <2>1. CASE UNCHANGED allVars
    BY <1>1, <2>1 DEF allVars, adminVars, Spinners
  <2>2. CASE OtherCall
    BY <1>1, <2>2, MovedAwaited DEF OtherCall
  <2> QED BY <1>1, <2>1, <2>2, UserAwaited, ServedAwaited, ArriveAwaited DEF AdminNext
<1> QED BY <1>2, <1>3

\* Nobody waits for nothing, however loads overlap and whatever fails: a spinner
\* turns for a fetch in flight, that for a call, that for the holder of the lock,
\* who is inside a call.
THEOREM AdminSpinnersAwaited == AdminSpec => []SpinnersAwaited
<1>1. AdminInv' => (SpinnersAwaited' <=> Spinners(page, req)' /\ LockTaken')
  <2>1. AdminInv => (SpinnersAwaited <=> Spinners(page, req) /\ LockTaken)
    BY AwaitedParts
  <2> QED BY <2>1, PTL
<1>2. AdminInv /\ AdminInv' /\ SpinnersAwaited /\ [AdminNext]_allVars => SpinnersAwaited'
  BY <1>1, StepAwaited
<1> QED BY <1>2, InitAwaited, InitAdminInv, StepAdminInv, PTL DEF AdminSpec
=============================================================================
