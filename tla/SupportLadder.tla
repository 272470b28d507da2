--------------------------- MODULE SupportLadder ---------------------------
(* What the chat half promises about one session: the user describes the   *)
(* problem, tries a first round of steps, then a second, and the case is   *)
(* closed and handed to IT; a success sends it back to the start.  A       *)
(* closed case is billed at most once and only a new session reopens it.   *)
EXTENDS Naturals

VARIABLES
  rung,    \* how far the session has come
  billed   \* usage rows written for it

vars == <<rung, billed>>

Rungs == {"describing", "first_try", "second_try", "closed"}

Init == rung = "describing" /\ billed = 0

Climb ==
  /\ \/ rung = "describing" /\ rung' = "first_try"
     \/ rung = "first_try"  /\ rung' = "second_try"
     \/ rung = "second_try" /\ rung' = "closed"
  /\ UNCHANGED billed

Solve ==
  /\ rung \in {"first_try", "second_try"}
  /\ rung' = "describing"
  /\ UNCHANGED billed

Bill ==
  /\ rung = "closed" /\ billed = 0
  /\ billed' = 1
  /\ UNCHANGED rung

\* The session is deleted or expires, and its id starts again.
Renew == rung' = "describing" /\ billed' = 0

Next == Climb \/ Solve \/ Bill \/ Renew

Spec == Init /\ [][Next]_vars
=============================================================================
