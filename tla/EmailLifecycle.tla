-------------------------- MODULE EmailLifecycle ---------------------------
(* What the email pipeline promises about each message, with no word about *)
(* threads, stores, failures or clocks: a message is unknown, then perhaps *)
(* pending, then processed; it is processed once, and becomes unknown      *)
(* again only when the system has forgotten it.                            *)
EXTENDS Naturals

CONSTANT Mids

VARIABLES
  stage,  \* what the system knows of each message
  total   \* how many processings there have been

vars == <<stage, total>>

Stages == {"unknown", "pending", "processed"}

Init == stage = [m \in Mids |-> "unknown"] /\ total = 0

\* The email has no tenant yet; asking again changes nothing.
Park(m) ==
  /\ stage[m] = "unknown"
  /\ stage' = [stage EXCEPT ![m] = "pending"]
  /\ UNCHANGED total

\* One processing.  A processed message is not processed again.
Process(m) ==
  /\ stage[m] # "processed"
  /\ stage' = [stage EXCEPT ![m] = "processed"]
  /\ total' = total + 1

\* Retention ends for some messages at once, or a crash takes a pending one.
Forget(S) ==
  /\ stage' = [m \in Mids |-> IF m \in S THEN "unknown" ELSE stage[m]]
  /\ UNCHANGED total

Next ==
  \/ \E m \in Mids : Park(m) \/ Process(m)
  \/ \E S \in SUBSET Mids : Forget(S)

Spec == Init /\ [][Next]_vars
=============================================================================
