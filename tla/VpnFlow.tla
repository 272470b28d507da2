------------------------------ MODULE VpnFlow ------------------------------
(***************************************************************************)
(* The VPN troubleshooting flow as a pure function: handle_vpn_message     *)
(* takes a message and the context of its session and returns the next     *)
(* context and whether to hand the case to IT.                             *)
(*                                                                         *)
(* A message is what the extractors of vpn_nlp find in it.  They look for  *)
(* keywords anywhere in the text and independently of each other, so one   *)
(* text may name a client, a symptom and a code and, at the same time,     *)
(* look like a success ("connected") and like a failure ("still").         *)
(***************************************************************************)
EXTENDS Naturals

CONSTANTS
  OSes,      \* operating systems a user may name
  Clients,   \* VPN clients, "Unknown" included
  Symptoms,  \* symptom categories
  Codes,     \* error codes and error keywords
  None       \* nothing said, nothing known

ASSUME FlowNoneAssumption == None \notin OSes \cup Clients \cup Symptoms \cup Codes

VpnMessage == [os : OSes \cup {None}, client : Clients \cup {None},
               symptom : Symptoms \cup {None}, code : Codes \cup {None},
               success : BOOLEAN, failure : BOOLEAN]

Questions == {"os", "client", "symptom", "error_code"}
\* VPN_GIVE_STEPS never rests: the call that enters it leaves it.
States == {"VPN_START", "VPN_ASK_OS", "VPN_ASK_CLIENT", "VPN_ASK_SYMPTOM",
           "VPN_ASK_ERROR_CODE", "VPN_CHECK_RESULT", "VPN_HANDOFF"}
StepLists == {"network", "certificate", "auth", "timeout", "generic"}

VpnContext == [state : States, os : OSes \cup {None}, client : Clients \cup {None},
               symptom : Symptoms \cup {None}, error_code : Codes \cup {None},
               steps_given : StepLists \cup {"none"}, attempt_count : Nat,
               last_question : Questions \cup {"none"}]
NewContext == [state |-> "VPN_START", os |-> None, client |-> None, symptom |-> None,
               error_code |-> None, steps_given |-> "none", attempt_count |-> 0,
               last_question |-> "none"]

\* _steps_for_error; the code keeps the list of steps, the model which list.
StepsFor(code) ==
  CASE code \in {"619", "809", "812"} -> "network"
    [] code = "CERTIFICATE" -> "certificate"
    [] code = "AUTH_FAILED" -> "auth"
    [] code = "TIMEOUT"     -> "timeout"
    [] OTHER                -> "generic"

\* Mutant: the state stays behind.
MutantGiveStepsStays(ctx) ==
  [ctx EXCEPT !.attempt_count = @ + 1, !.steps_given = StepsFor(ctx.error_code),
              !.state = "VPN_GIVE_STEPS"]

\* _give_steps
GiveSteps(ctx) ==
  [ctx EXCEPT !.attempt_count = @ + 1, !.steps_given = StepsFor(ctx.error_code),
              !.state = "VPN_CHECK_RESULT"]

AskState(q) == CASE q = "os"         -> "VPN_ASK_OS"
                 [] q = "client"     -> "VPN_ASK_CLIENT"
                 [] q = "symptom"    -> "VPN_ASK_SYMPTOM"
                 [] q = "error_code" -> "VPN_ASK_ERROR_CODE"

\* Mutant: the question is not noted.
MutantAsk(ctx, q) == [ctx EXCEPT !.state = AskState(q)]

Ask(ctx, q) == [ctx EXCEPT !.state = AskState(q), !.last_question = q]

\* The first of the questions in S the context has no answer to.
FirstOpen(ctx, S) ==
  IF "os" \in S /\ ctx.os = None THEN "os"
  ELSE IF "client" \in S /\ ctx.client = None THEN "client"
  ELSE IF "symptom" \in S /\ ctx.symptom = None THEN "symptom"
  ELSE IF "error_code" \in S /\ ctx.error_code = None THEN "error_code"
  ELSE "none"

\* The questions the state machine still passes from a state.
Ahead(state) ==
  CASE state \in {"VPN_START", "VPN_ASK_OS"} -> Questions
    [] state = "VPN_ASK_CLIENT"     -> {"client", "symptom", "error_code"}
    [] state = "VPN_ASK_SYMPTOM"    -> {"symptom", "error_code"}
    [] state = "VPN_ASK_ERROR_CODE" -> {"error_code"}

Keep(known, found) == IF known = None THEN found ELSE known

\* Mutant: the newest value wins.
MutantExtract(ctx, m) ==
  [ctx EXCEPT !.os = Keep(m.os, @), !.client = Keep(m.client, @),
              !.symptom = Keep(m.symptom, @), !.error_code = Keep(m.code, @)]

\* Mutant: a field this message does not name is lost.
MutantExtractForgets(ctx, m) ==
  [ctx EXCEPT !.os = m.os, !.client = m.client, !.symptom = m.symptom, !.error_code = m.code]

\* Best-effort extraction: a field that is known stays.
Extract(ctx, m) ==
  [ctx EXCEPT !.os = Keep(@, m.os), !.client = Keep(@, m.client),
              !.symptom = Keep(@, m.symptom), !.error_code = Keep(@, m.code)]

\* Before the steps: ask the first open question, or give the steps.  A message
\* that looks like a result makes _ask_next_missing start from the top.
Collect(ctx, m) ==
  LET asked == IF m.success \/ m.failure THEN Questions ELSE Ahead(ctx.state)
      q     == FirstOpen(ctx, asked)
  IN  IF q # "none" THEN Ask(ctx, q)
      ELSE GiveSteps([ctx EXCEPT !.last_question =
             IF ctx.state = "VPN_START" /\ ~m.success /\ ~m.failure THEN @ ELSE "none"])

\* Mutant: the attempts survive a success.
MutantSolved(ctx) ==
  [ctx EXCEPT !.state = "VPN_START", !.error_code = None,
              !.steps_given = "none", !.last_question = "none"]

\* What is known of the machine survives a success; the error does not.
Solved(ctx) ==
  [ctx EXCEPT !.state = "VPN_START", !.attempt_count = 0, !.error_code = None,
              !.steps_given = "none", !.last_question = "none"]

\* Mutant: the first failing round is handed off.
MutantCheckResultEarly(ctx, m) ==
  IF m.success THEN Solved(ctx)
  ELSE IF ~m.failure THEN ctx
  ELSE IF ctx.attempt_count >= 1 THEN [ctx EXCEPT !.state = "VPN_HANDOFF"]
  ELSE GiveSteps([ctx EXCEPT !.error_code = Keep(m.code, @)])

\* Mutant: the new code is stored after the steps are chosen.
MutantCheckResultLate(ctx, m) ==
  IF m.success THEN Solved(ctx)
  ELSE IF ~m.failure THEN ctx
  ELSE IF ctx.attempt_count >= 2 THEN [ctx EXCEPT !.state = "VPN_HANDOFF"]
  ELSE [GiveSteps(ctx) EXCEPT !.error_code = Keep(m.code, @)]

\* After the steps: solved, a second round, a hand-off, or a reminder.
CheckResult(ctx, m) ==
  IF m.success THEN Solved(ctx)
  ELSE IF ~m.failure THEN ctx
  ELSE IF ctx.attempt_count >= 2 THEN [ctx EXCEPT !.state = "VPN_HANDOFF"]
  ELSE GiveSteps([ctx EXCEPT !.error_code = Keep(m.code, @)])

\* handle_vpn_message: the context it returns.  A handed-off context stays.
HandleVpnMessage(ctx, m) ==
  IF ctx.state = "VPN_HANDOFF" THEN ctx
  ELSE LET found == Extract(ctx, m)
       IN  IF ctx.state = "VPN_CHECK_RESULT" THEN CheckResult(found, m)
           ELSE Collect(found, m)

\* handle_vpn_message: its handoff flag.
WantsHandoff(ctx, m) == HandleVpnMessage(ctx, m).state = "VPN_HANDOFF"

\* A summary IT can work with: every question answered, the steps that were
\* tried, and two rounds of them.
Complete(ctx) ==
  /\ FirstOpen(ctx, Questions) = "none"
  /\ ctx.steps_given # "none" /\ ctx.attempt_count = 2
=============================================================================
