----------------------------- MODULE SessionTtl -----------------------------
(* How long a session outlives its last call: SESSION_TTL_SECONDS.  A tick is *)
(* longer than a call, and a TTL longer than a tick.                          *)
EXTENDS Naturals

CONSTANT Ttl
ASSUME TtlAssumption == Ttl \in Nat \ {0, 1}
=============================================================================
