---------------------------- MODULE RedisSession ----------------------------
(***************************************************************************)
(* RedisMemoryStore for one session: five keys, each with a TTL of its     *)
(* own.  A write sets its key and _touch then renews all five, one EXPIRE  *)
(* after the other; Redis executes single commands, so the calls of two    *)
(* requests interleave between any two of them.                            *)
(***************************************************************************)
EXTENDS SessionTtl, Sequences

CONSTANT Workers  \* threads of the handler pool

\* The keys in the order of _touch.
Touched == <<"messages", "last_intent", "vpn_context", "company_id", "pending_handoff">>
Keys    == {"messages", "last_intent", "vpn_context", "company_id", "pending_handoff"}
Absent  == 0
Forever == Ttl + 1  \* stored without a TTL

VARIABLES
  ttl,    \* what is left of each key
  call,   \* the call each worker makes: the key it touches next
  torn,   \* a call has ended half-way and none begun since has completed
  quiet   \* history: ticks since a call was last completed

vars == <<ttl, call, torn, quiet>>

NoCall  == [next |-> 0, late |-> FALSE, clean |-> FALSE]
Busy(w) == call[w].next # 0
Idle    == \A w \in Workers : ~Busy(w)

-----------------------------------------------------------------------------
\* The first command of a call has been executed; _touch follows.
Begin(w) ==
  /\ ~Busy(w)
  /\ call' = [call EXCEPT ![w] = [next |-> 1, late |-> FALSE, clean |-> TRUE]]
  /\ UNCHANGED <<torn, quiet>>

\* add_message: RPUSH keeps the TTL of a list and gives a new one none.
AddMessage(w) ==
  /\ Begin(w)
  /\ ttl' = [ttl EXCEPT !["messages"] = IF @ = Absent THEN Forever ELSE @]

\* set_*: SET drops the TTL of its key.
SetField(w) == \E k \in Keys \ {"messages"} :
  /\ Begin(w)
  /\ ttl' = [ttl EXCEPT ![k] = Forever]

\* get_* and get_history.
GetField(w) == Begin(w) /\ UNCHANGED ttl

\* clear_*.
ClearField(w) == \E k \in {"vpn_context", "pending_handoff"} :
  /\ Begin(w)
  /\ ttl' = [ttl EXCEPT ![k] = Absent]

\* Mutant: _touch leaves the last key out.
MutantTouchFour(w) ==
  /\ Busy(w)
  /\ ttl' = [ttl EXCEPT ![Touched[call[w].next]] = IF @ = Absent THEN @ ELSE Ttl]
  /\ IF call[w].next + 1 < Len(Touched)
     THEN call' = [call EXCEPT ![w].next = @ + 1] /\ UNCHANGED <<torn, quiet>>
     ELSE /\ call' = [call EXCEPT ![w] = NoCall]
          /\ torn' = (torn /\ ~call[w].clean) /\ quiet' = 0

\* One EXPIRE of _touch: a key that is absent stays absent.  After the last the
\* call is complete.
Touch(w) ==
  /\ Busy(w)
  /\ ttl' = [ttl EXCEPT ![Touched[call[w].next]] = IF @ = Absent THEN @ ELSE Ttl]
  /\ IF call[w].next < Len(Touched)
     THEN call' = [call EXCEPT ![w].next = @ + 1] /\ UNCHANGED <<torn, quiet>>
     ELSE /\ call' = [call EXCEPT ![w] = NoCall]
          /\ torn' = (torn /\ ~call[w].clean) /\ quiet' = 0

\* delete_session is one DEL and touches nothing.
DeleteSession ==
  /\ ttl' = [k \in Keys |-> Absent]
  /\ UNCHANGED <<call, torn, quiet>>

\* A command raises, or the backend restarts: calls end where they are.
Tear == \E ended \in SUBSET {w \in Workers : Busy(w)} :
  /\ ended # {}
  /\ call' = [w \in Workers |-> IF w \in ended THEN NoCall ELSE [call[w] EXCEPT !.clean = FALSE]]
  /\ torn' = TRUE
  /\ UNCHANGED <<ttl, quiet>>

\* Time passes; a call straddles at most one tick, it is short next to the TTL.
Tick ==
  /\ \A w \in Workers : ~call[w].late
  /\ ttl' = [k \in Keys |-> IF ttl[k] \in {Absent, Forever} THEN ttl[k] ELSE ttl[k] - 1]
  /\ call' = [w \in Workers |-> [call[w] EXCEPT !.late = Busy(w)]]
  /\ quiet' = IF quiet > Ttl THEN quiet ELSE quiet + 1
  /\ UNCHANGED torn

Init ==
  /\ ttl = [k \in Keys |-> Absent]
  /\ call = [w \in Workers |-> NoCall]
  /\ torn = FALSE /\ quiet = 0

Command(w) == AddMessage(w) \/ SetField(w) \/ GetField(w) \/ ClearField(w) \/ Touch(w)

Next == (\E w \in Workers : Command(w)) \/ DeleteSession \/ Tear \/ Tick

Spec == Init /\ [][Next]_vars

-----------------------------------------------------------------------------
TypeOK ==
  /\ ttl \in [Keys -> 0..Forever]
  /\ call \in [Workers -> [next : 0..5, late : BOOLEAN, clean : BOOLEAN]]
  /\ torn \in BOOLEAN /\ quiet \in 0..Ttl + 1

\* SET and EXPIRE are separate commands, yet no key is left without a TTL: when
\* no call is under way, only a call that ended half-way can have left one, and
\* the next call that completes repairs it, whatever overlapped.
NoImmortalKey == Idle /\ ~torn => \A k \in Keys : ttl[k] # Forever

\* The keys a caller would find.
Kept == {k \in Keys : ttl[k] # Absent}
=============================================================================
