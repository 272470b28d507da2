---------------------------- MODULE MemorySession ----------------------------
(***************************************************************************)
(* MemoryStore for one session and one email: dictionaries shared by the   *)
(* handler threads without a lock.  Every call first runs cleanup_expired, *)
(* which lists what is expired and then pops it key by key; the threads    *)
(* switch between any two dictionary operations.                           *)
(***************************************************************************)
EXTENDS SessionTtl, Integers, Sequences

CONSTANTS
  Workers,  \* threads of the handler pool
  Dicts     \* the email dictionaries, in the order of the cleanup

\* The session's dictionaries in the order they are popped; _last_seen is last.
Popped == <<"messages", "last_intent", "vpn_context", "company_id", "pending_handoff">>
Fields == {"messages", "last_intent", "vpn_context", "company_id", "pending_handoff"}
Absent == -1
Old    == Ttl + 2  \* ages beyond it are not told apart

Kinds == {Dicts[i] : i \in DOMAIN Dicts}

VARIABLES
  data,    \* the session's dictionaries that hold an entry
  seen,    \* the age of _last_seen
  emails,  \* the age of the email's entry in each dictionary
  task,    \* where each worker is in its call
  raced,   \* history: what was written while another call was popping it
  quiet    \* history: ticks since a call for the session was last completed

vars == <<data, seen, emails, task, raced, quiet>>

NoTask == [at |-> "idle", n |-> 0, late |-> FALSE]
At(w, at, n) == task' = [task EXCEPT ![w].at = at, ![w].n = n]
End(w)  == task' = [task EXCEPT ![w] = NoTask]

Popping == {"sweep", "delete"}
Swept(w) == \E v \in Workers \ {w} : task[v].at \in Popping
Racing(w, what, risk) == raced' = IF risk THEN raced \cup {what} ELSE raced
Older(age, w) == age - (IF task[w].late THEN 1 ELSE 0) > Ttl

-----------------------------------------------------------------------------
(* cleanup_expired *)

AfterSessions == IF Dicts = <<>> THEN "body" ELSE "dict"

\* A call begins: the clock is read and the expired sessions are listed.
Begin(w) ==
  /\ task[w].at = "idle"
  /\ At(w, IF seen > Ttl THEN "sweep" ELSE AfterSessions, 1)
  /\ UNCHANGED <<data, seen, emails, raced, quiet>>

\* One pop of the sweep, or of delete_session.
PopSession(w) ==
  /\ task[w].at \in Popping
  /\ IF task[w].n <= Len(Popped)
     THEN data' = data \ {Popped[task[w].n]} /\ At(w, task[w].at, task[w].n + 1) /\ UNCHANGED seen
     ELSE /\ seen' = Absent /\ UNCHANGED data
          /\ IF task[w].at = "sweep" THEN At(w, AfterSessions, 1) ELSE End(w)
  /\ UNCHANGED <<emails, raced, quiet>>

NextDict(w) == IF task[w].n < Len(Dicts) THEN At(w, "dict", task[w].n + 1) ELSE At(w, "body", 0)

\* Mutant: an entry is expired on the tick its TTL is up (>= for >).
MutantListDict(w) ==
  /\ task[w].at = "dict"
  /\ IF Older(emails[Dicts[task[w].n]] + 1, w) THEN At(w, "expire", task[w].n) ELSE NextDict(w)
  /\ UNCHANGED <<data, seen, emails, raced, quiet>>

\* The entries of one email dictionary are listed, with the clock of the start.
ListDict(w) ==
  /\ task[w].at = "dict"
  /\ IF Older(emails[Dicts[task[w].n]], w) THEN At(w, "expire", task[w].n) ELSE NextDict(w)
  /\ UNCHANGED <<data, seen, emails, raced, quiet>>

PopEmail(w) ==
  /\ task[w].at = "expire"
  /\ emails' = [emails EXCEPT ![Dicts[task[w].n]] = Absent]
  /\ NextDict(w)
  /\ UNCHANGED <<data, seen, raced, quiet>>

-----------------------------------------------------------------------------
(* The calls, once the cleanup is over *)

\* get_or_create_session, add_message, set_*: the entry, then _touch.
Put(w) == \E f \in Fields :
  /\ task[w].at = "body"
  /\ data' = data \cup {f}
  /\ Racing(w, "session", Swept(w) \/ "messages" \notin data')
  /\ At(w, "touch", 0)
  /\ UNCHANGED <<seen, emails, quiet>>

\* clear_pending_handoff, clear_vpn_context: the pop, then the check.
ClearField(w) == \E f \in {"vpn_context", "pending_handoff"} :
  /\ task[w].at = "body"
  /\ data' = data \ {f}
  /\ At(w, "check", 0)
  /\ UNCHANGED <<seen, emails, raced, quiet>>

\* get_*, get_history: only a session with messages is touched.
Check(w) ==
  /\ task[w].at \in {"body", "check"}
  /\ IF "messages" \in data THEN At(w, "touch", 0) ELSE End(w)
  /\ UNCHANGED <<data, seen, emails, raced, quiet>>

\* Mutant: _touch only starts the lease of a session that has none.
MutantTouch(w) ==
  /\ task[w].at = "touch"
  /\ seen' = (IF seen = Absent THEN 0 ELSE seen) /\ quiet' = 0
  /\ Racing(w, "session", Swept(w))
  /\ End(w)
  /\ UNCHANGED <<data, emails>>

Touch(w) ==
  /\ task[w].at = "touch" /\ End(w)
  /\ seen' = 0 /\ quiet' = 0
  /\ Racing(w, "session", Swept(w))
  /\ UNCHANGED <<data, emails>>

DeleteSession(w) ==
  /\ task[w].at = "body"
  /\ At(w, "delete", 1)
  /\ UNCHANGED <<data, seen, emails, raced, quiet>>

\* mark_email_processed, set_email_receipt, set_pending_email.
PutEmail(w) == \E d \in Kinds :
  /\ task[w].at = "body"
  /\ emails' = [emails EXCEPT ![d] = 0]
  /\ Racing(w, d, \E v \in Workers \ {w} : task[v].at = "expire" /\ Dicts[task[v].n] = d)
  /\ End(w)
  /\ UNCHANGED <<data, seen, quiet>>

\* clear_pending_email.
ClearEmail(w) ==
  /\ task[w].at = "body" /\ "pending" \in Kinds
  /\ emails' = [emails EXCEPT !["pending"] = Absent]
  /\ End(w)
  /\ UNCHANGED <<data, seen, raced, quiet>>

\* session_exists, is_email_processed, get_email_receipt, get_pending_email,
\* list_pending_emails, a blank message id, cleanup_if_supported.
Look(w) ==
  /\ task[w].at = "body"
  /\ End(w)
  /\ UNCHANGED <<data, seen, emails, raced, quiet>>

-----------------------------------------------------------------------------
Empty ==
  /\ data' = {} /\ seen' = Absent /\ raced' = {}
  /\ emails' = [d \in Kinds |-> Absent]
  /\ task' = [w \in Workers |-> NoTask]

\* The store is a part of the process.
Restart == Empty /\ quiet' = quiet

Aged(age) == IF age = Absent \/ age = Old THEN age ELSE age + 1

\* Time passes; a call straddles at most one tick, it is short next to the TTL.
Tick ==
  /\ \A w \in Workers : ~task[w].late
  /\ seen' = Aged(seen) /\ emails' = [d \in Kinds |-> Aged(emails[d])]
  /\ task' = [w \in Workers |-> [task[w] EXCEPT !.late = task[w].at # "idle"]]
  /\ quiet' = IF quiet > Ttl THEN quiet ELSE quiet + 1
  /\ UNCHANGED <<data, raced>>

Init ==
  /\ data = {} /\ seen = Absent /\ raced = {} /\ quiet = 0
  /\ emails = [d \in Kinds |-> Absent]
  /\ task = [w \in Workers |-> NoTask]

Step(w) ==
  \/ Begin(w) \/ PopSession(w) \/ ListDict(w) \/ PopEmail(w)
  \/ Put(w) \/ ClearField(w) \/ Check(w) \/ Touch(w)
  \/ DeleteSession(w) \/ PutEmail(w) \/ ClearEmail(w) \/ Look(w)

Next == (\E w \in Workers : Step(w)) \/ Restart \/ Tick

Spec == Init /\ [][Next]_vars

-----------------------------------------------------------------------------
TypeOK ==
  /\ data \subseteq Fields /\ seen \in Absent..Old
  /\ emails \in [Kinds -> Absent..Old]
  /\ task \in [Workers -> [late : BOOLEAN, n : 0..6,
       at : Popping \cup {"idle", "dict", "expire", "body", "check", "touch"}]]
  /\ raced \subseteq {"session"} \cup Kinds
  /\ quiet \in 0..Ttl + 1

\* What a caller would find: its own cleanup comes first.
Kept == IF seen > Ttl THEN {} ELSE data

\* A call that keeps the session, or deletes it, is past its cleanup.
Open == \E w \in Workers : task[w].at \in {"check", "touch", "delete"}
=============================================================================
