---------------------------- MODULE SessionLease ----------------------------
(* What the rest of the backend relies on when it asks get_memory() for a  *)
(* store: the fields of a session stay while the session is used and go    *)
(* together once nobody has called for it for Ttl ticks.                   *)
EXTENDS SessionTtl

CONSTANT Fields

VARIABLES
  kept,   \* the fields a caller would find
  quiet,  \* ticks since a call for the session was last completed
  open    \* a call for the session is in progress

vars == <<kept, quiet, open>>

Init == kept = {} /\ quiet = 0 /\ open = FALSE

\* A call begins, sets or clears one field, or ends.
Serve ==
  /\ open \/ open'
  /\ kept' \subseteq Fields
  /\ \E f \in Fields : kept \ {f} \subseteq kept'
  /\ quiet' \in {0, quiet}

\* The session is deleted, or the store restarts with nothing in it.
End == kept' = {} /\ open' \in {open, FALSE} /\ quiet' = quiet

\* Nothing goes before its time, and nothing stays behind.
Pass ==
  /\ open' = open /\ quiet' \in {quiet, quiet + 1}
  /\ kept' \subseteq kept
  /\ quiet' + 1 < Ttl => kept' = kept
  /\ quiet' > Ttl /\ ~open => kept' = {}

Next == Serve \/ End \/ Pass

Spec == Init /\ [][Next]_vars
=============================================================================
