----------------------------- MODULE UsageLedger -----------------------------
(* What a caller of the usage log may rely on: every call takes effect at   *)
(* once, between its request and its answer, or not at all.                 *)
EXTENDS Naturals, Sequences, FiniteSets

CONSTANTS
  Threads,
  Tenants,     \* tenant ids that rows and filters name
  EventTypes,
  Intents,     \* intents of email_ingested rows
  Limits, Offsets,  \* of list_events
  None         \* no filter, no intent, no call, no answer

VARIABLES
  log,      \* the rows, oldest first
  pending,  \* the call a thread has made that has had no effect yet
  answer    \* what its last call returned

vars == <<log, pending, answer>>

Row     == [tenant : Tenants, event : EventTypes, intent : Intents \cup {None}]
Appends == [op : {"append"}, row : Row]
Filters == [op : {"summary"}, tenant : Tenants \cup {None}, event : EventTypes \cup {None}]
Lists   == [op : {"list"}, tenant : Tenants \cup {None}, limit : Limits, offset : Offsets]
Calls   == Appends \cup Filters \cup Lists

\* The positions of the rows a filter selects.
Selected(rows, q) ==
  {i \in DOMAIN rows : q.tenant \in {None, rows[i].tenant} /\ q.event \in {None, rows[i].event}}

Total(rows, q)    == Cardinality(Selected(rows, q))
ByEvent(rows, q)  == [e \in EventTypes |-> Cardinality({i \in Selected(rows, q) : rows[i].event = e})]
ByIntent(rows, q) == [x \in Intents |-> Cardinality(
  {i \in Selected(rows, q) : rows[i].event = "email_ingested" /\ rows[i].intent = x})]

Summary(rows, q) ==
  [total |-> Total(rows, q), by_event_type |-> ByEvent(rows, q), by_intent |-> ByIntent(rows, q)]

\* The newest rows of a tenant first.
Newest(rows, q) ==
  LET own == SelectSeq(rows, LAMBDA r : q.tenant \in {None, r.tenant})
  IN  [i \in DOMAIN own |-> own[Len(own) + 1 - i]]

\* list_events: one page of them.
Page(rows, q) ==
  LET newest == Newest(rows, q)
      last   == IF q.offset + q.limit < Len(newest) THEN q.offset + q.limit ELSE Len(newest)
  IN  SubSeq(newest, q.offset + 1, last)

-----------------------------------------------------------------------------
Init ==
  /\ log = <<>>
  /\ pending = [t \in Threads |-> None]
  /\ answer = [t \in Threads |-> None]

Ask(t) ==
  /\ pending[t] = None /\ pending'[t] \in Calls
  /\ pending' = [pending EXCEPT ![t] = pending'[t]]
  /\ answer' = [answer EXCEPT ![t] = None]
  /\ UNCHANGED log

Settle(t) == pending[t] # None /\ pending' = [pending EXCEPT ![t] = None]

Write(t) ==
  /\ Settle(t) /\ pending[t] \in Appends
  /\ log' = Append(log, pending[t].row)
  /\ UNCHANGED answer

Summarise(t) ==
  /\ Settle(t) /\ pending[t] \in Filters
  /\ answer' = [answer EXCEPT ![t] = Summary(log, pending[t])]
  /\ UNCHANGED log

List(t) ==
  /\ Settle(t) /\ pending[t] \in Lists
  /\ answer' = [answer EXCEPT ![t] = Page(log, pending[t])]
  /\ UNCHANGED log

\* The caller has used what was returned.
Take(t) == answer' = [answer EXCEPT ![t] = None] /\ UNCHANGED <<log, pending>>

\* The call raises and has had no effect.
Fail(t) == Settle(t) /\ UNCHANGED <<log, answer>>

Next == \E t \in Threads : Ask(t) \/ Write(t) \/ Summarise(t) \/ List(t) \/ Take(t) \/ Fail(t)

Spec == Init /\ [][Next]_vars
=============================================================================
