------------------------------ MODULE UsageLog ------------------------------
(***************************************************************************)
(* UsageEventLog: threads that append to, list and summarise the SQLite    *)
(* table usage_events, each on a connection of its own, under one lock.    *)
(* Every call takes the lock twice, first in init_db and then for itself.  *)
(***************************************************************************)
EXTENDS Naturals, Sequences, FiniteSets

CONSTANTS Threads, Tenants, EventTypes, Intents, Limits, Offsets, None

VARIABLES
  table,  \* the committed rows
  lock,   \* the thread that holds _lock, or None
  use,    \* each thread's call: where it is, what it asks, what it has read
  reply   \* what a thread's last call returned

vars == <<table, lock, use, reply>>

Holding == {"first", "total", "events", "done"}
NoUse   == [at |-> "idle", q |-> None, got |-> None]
Move(t, at, got) == use' = [use EXCEPT ![t] = [at |-> at, q |-> use[t].q, got |-> got]]
At(t, at) == Move(t, at, use[t].got)

\* Where a call has had no effect yet: an append is not committed, the answer
\* of a read is not given.
Unsettled(u) == u.at # "idle" /\ (u.at = "done" => u.q.op # "append")
Pending == [t \in Threads |-> IF Unsettled(use[t]) THEN use[t].q ELSE None]

Ledger == INSTANCE UsageLedger WITH log <- table, pending <- Pending, answer <- reply

ASSUME NoneAssumption == None \notin Threads /\ None \notin Ledger!Calls

-----------------------------------------------------------------------------
(* log_usage_event, list_usage_events and get_usage_summary are called;     *)
(* rows with a blank field are dropped before.                              *)
Ask(t, q) ==
  /\ use[t].at = "idle" /\ q \in Ledger!Calls
  /\ use' = [use EXCEPT ![t] = [at |-> "open", q |-> q, got |-> None]]
  /\ reply' = [reply EXCEPT ![t] = None]
  /\ UNCHANGED <<table, lock>>

\* init_db takes the lock and gives it back: CREATE IF NOT EXISTS changes nothing
\* that another call sees.
InitDb(t) ==
  /\ use[t].at = "open" /\ lock = None
  /\ At(t, "ready")
  /\ UNCHANGED <<table, lock, reply>>

\* Mutant: the call itself does not take the lock.
MutantAcquire(t) ==
  /\ use[t].at = "ready"
  /\ At(t, "first")
  /\ UNCHANGED <<table, lock, reply>>

\* with self._lock
Acquire(t) ==
  /\ use[t].at = "ready" /\ lock = None
  /\ At(t, "first") /\ lock' = t
  /\ UNCHANGED <<table, reply>>

\* append: the INSERT is seen by other connections once it is committed.
Commit(t) ==
  /\ use[t].at = "first" /\ use[t].q.op = "append"
  /\ table' = Append(table, use[t].q.row)
  /\ At(t, "done")
  /\ UNCHANGED <<lock, reply>>

\* summary: three queries, which WAL mode runs on three snapshots.
QueryTotal(t) ==
  /\ use[t].at = "first" /\ use[t].q.op = "summary"
  /\ Move(t, "total", Ledger!Total(table, use[t].q))
  /\ UNCHANGED <<table, lock, reply>>

QueryBreakdown(t) ==
  /\ use[t].at = "total"
  /\ Move(t, "events", <<use[t].got, Ledger!ByEvent(table, use[t].q)>>)
  /\ UNCHANGED <<table, lock, reply>>

QueryIntents(t) ==
  /\ use[t].at = "events"
  /\ Move(t, "done", [total |-> use[t].got[1], by_event_type |-> use[t].got[2],
                      by_intent |-> Ledger!ByIntent(table, use[t].q)])
  /\ UNCHANGED <<table, lock, reply>>

\* list_events: one query.
QueryPage(t) ==
  /\ use[t].at = "first" /\ use[t].q.op = "list"
  /\ Move(t, "done", Ledger!Page(table, use[t].q))
  /\ UNCHANGED <<table, lock, reply>>

\* The connection is closed, the lock given back, the answer returned.
Return(t) ==
  /\ use[t].at = "done"
  /\ reply' = [reply EXCEPT ![t] = use[t].got]
  /\ use' = [use EXCEPT ![t] = NoUse]
  /\ lock' = None
  /\ UNCHANGED table

\* The caller has used what was returned.
Take(t) ==
  /\ reply' = [reply EXCEPT ![t] = None]
  /\ UNCHANGED <<table, lock, use>>

\* Mutant: acquire and release around the block in place of with.
MutantRaise(t) ==
  /\ use[t].at \in Holding \ {"done"} \/ (use[t].at = "open" /\ lock = None)
  /\ use' = [use EXCEPT ![t] = NoUse]
  /\ UNCHANGED <<table, reply, lock>>

\* A SQLite call raises: the connection is closed, which undoes the INSERT, and
\* the lock given back.
Raise(t) ==
  /\ use[t].at \in Holding \ {"done"} \/ (use[t].at = "open" /\ lock = None)
  /\ use' = [use EXCEPT ![t] = NoUse]
  /\ lock' = None
  /\ UNCHANGED <<table, reply>>

Init ==
  /\ table = <<>> /\ lock = None
  /\ use = [t \in Threads |-> NoUse]
  /\ reply = [t \in Threads |-> None]

Work(t) ==
  \/ InitDb(t) \/ Acquire(t) \/ Commit(t)
  \/ QueryTotal(t) \/ QueryBreakdown(t) \/ QueryIntents(t) \/ QueryPage(t)

Next == \E t \in Threads : (\E q \in Ledger!Calls : Ask(t, q)) \/ Work(t) \/ Return(t) \/ Take(t) \/ Raise(t)

Spec == Init /\ [][Next]_vars

-----------------------------------------------------------------------------
\* Calls of overlapping threads take effect one at a time and at most once: a
\* summary adds up, its three counts are of the same rows, and a page is of the
\* rows at one moment (UsageLedger).
TakesEffectAtOnce == Ledger!Spec
=============================================================================
