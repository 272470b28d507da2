----------------------------- MODULE VpnSession -----------------------------
(* One chat session in the VPN flow: the user sends message after message, *)
(* each handled to its end before the next (ChatSession drops that).       *)
EXTENDS VpnFlow

CONSTANT Messages  \* what the user may say
ASSUME MessagesAssumption == Messages \subseteq VpnMessage

VARIABLES
  ctx,      \* the VpnContext stored for the session
  reports   \* history: failures reported on steps since the last success

vars == <<ctx, reports>>

Solves(m)  == ctx.state = "VPN_CHECK_RESULT" /\ m.success
Reports(m) == ctx.state = "VPN_CHECK_RESULT" /\ ~m.success /\ m.failure

Init == ctx = NewContext /\ reports = 0

\* handle_vpn_message, and the context is saved.
Say(m) ==
  /\ ctx' = HandleVpnMessage(ctx, m)
  /\ reports' = IF Solves(m) THEN 0 ELSE IF Reports(m) THEN reports + 1 ELSE reports

\* The session is deleted or expires.
Renew == ctx' = NewContext /\ reports' = 0

Next == (\E m \in Messages : Say(m)) \/ Renew

Spec == Init /\ [][Next]_vars

\* The user answers the question that is open, or says how the steps went.
Fills(c, m) ==
  LET q == FirstOpen(c, Questions)
  IN  \/ q = "os" /\ m.os # None
      \/ q = "client" /\ m.client # None
      \/ q = "symptom" /\ m.symptom # None
      \/ q = "error_code" /\ m.code # None
Answers(m) == IF ctx.state = "VPN_CHECK_RESULT" THEN m.success \/ m.failure ELSE Fills(ctx, m)

\* A user who keeps talking sooner or later answers; what else they say, and
\* how often, is left open.
Answer == \E m \in Messages : Answers(m) /\ Say(m)
FairSpec == Spec /\ WF_vars(Answer)

-----------------------------------------------------------------------------
\* The context is one VpnContext allows.
TypeOK == ctx \in VpnContext /\ reports \in Nat

\* The flow asks one question at a time, the first it has no answer to, and
\* rests without a question only before it starts and after the steps.
AsksFirstOpen ==
  IF ctx.state \in {"VPN_CHECK_RESULT", "VPN_HANDOFF", "VPN_START"}
  THEN ctx.last_question = "none"
  ELSE /\ ctx.last_question = FirstOpen(ctx, Questions)
       /\ ctx.last_question # "none" /\ ctx.state = AskState(ctx.last_question)

\* Steps are given only on a full description and always for the error that is
\* stored next to them; a hand-off comes after two rounds of them (readme: "After
\* repeated failure, the flow escalates and produces a structured handoff
\* summary"), each followed by a report of failure.
StepsMatchError ==
  IF ctx.state \in {"VPN_CHECK_RESULT", "VPN_HANDOFF"}
  THEN FirstOpen(ctx, Questions) = "none" /\ ctx.steps_given = StepsFor(ctx.error_code)
  ELSE ctx.steps_given = "none" /\ ctx.attempt_count = 0
AttemptsFollowReports ==
  /\ ctx.state = "VPN_CHECK_RESULT" => ctx.attempt_count = reports + 1 /\ reports \in 0..1
  /\ ctx.state = "VPN_HANDOFF" => Complete(ctx) /\ reports = 2
  /\ ctx.state \notin {"VPN_CHECK_RESULT", "VPN_HANDOFF"} => reports = 0

\* What the user said about the machine is never replaced by a later guess, and
\* within a session nothing said is forgotten except the error of a solved case.
FactsStable ==
  [][ ctx' # NewContext =>
        /\ \A f \in {"os", "client", "symptom"} : ctx[f] # None => ctx'[f] = ctx[f]
        /\ ctx.error_code # None /\ ctx'.error_code = None =>
             ctx.state = "VPN_CHECK_RESULT" /\ ctx'.state = "VPN_START" ]_vars

\* The inductive invariant: the three above are not inductive one by one, since
\* the attempts depend on the steps and the steps on what was asked.
VpnInv == TypeOK /\ AsksFirstOpen /\ StepsMatchError /\ AttemptsFollowReports

\* The flow climbs SupportLadder rung by rung.
Rung == IF ctx.state = "VPN_HANDOFF" THEN "closed"
        ELSE CASE ctx.attempt_count = 0 -> "describing"
               [] ctx.attempt_count = 1 -> "first_try"
               [] OTHER                 -> "second_try"
Ladder == INSTANCE SupportLadder WITH rung <- Rung, billed <- 0
ClimbsLadder == Ladder!Spec

\* How far the case is from its end: questions open, then rounds to report on.
One(v)  == IF v = None THEN 1 ELSE 0
Open(c) == One(c.os) + One(c.client) + One(c.symptom) + One(c.error_code)
Distance(c) == CASE c.state = "VPN_HANDOFF"      -> 0
                 [] c.state = "VPN_CHECK_RESULT" -> 3 - c.attempt_count
                 [] OTHER                        -> 2 + Open(c)

\* No message sends the user back, short of a new start, and each answer brings
\* the case closer to its end: a flow that forgot an answer or asked for what it
\* knows would go round in circles.
AnswersBringCloser ==
  [][ \/ ctx'.state = "VPN_START"
      \/ /\ Distance(ctx') <= Distance(ctx)
         /\ Answer /\ ctx.state # "VPN_HANDOFF" => Distance(ctx') < Distance(ctx) ]_vars

\* Before the hand-off there is an answer that moves the case: no state of the
\* flow waits for something no user can say.
AnswerPossible == ctx.state # "VPN_HANDOFF" => ENABLED <<Answer>>_vars

\* A user who keeps answering is not asked forever: either the case is handed
\* off for good, or it is again and again solved or started anew.
Concludes == <>[](ctx.state = "VPN_HANDOFF") \/ []<>(ctx.state = "VPN_START")

\* What the flow itself asks for: "Reply with 'works now' or 'still failing' and
\* include any error message you see."  A reply that says it still fails is
\* not taken for a success.
FailureIsNoSuccess ==
  [][\A m \in Messages :
       Say(m) /\ m.failure /\ ctx.state = "VPN_CHECK_RESULT" => ctx'.state # "VPN_START"]_vars
=============================================================================
