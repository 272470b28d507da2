-------------------------- MODULE VpnSessionProofs --------------------------
(* The VPN flow for any set of messages: its safety, its refinement of     *)
(* SupportLadder, and that a user who keeps answering brings it to an end. *)
EXTENDS VpnSession, VpnFlowProofs

\* The first three parts of the invariant say that the stored context is sound.
LEMMA InvIsSound == VpnInv => Sound(ctx)
<1>1. VpnInv /\ ctx.state = "VPN_CHECK_RESULT" => ctx.attempt_count \in {1, 2}
  BY DEF VpnInv, TypeOK, AttemptsFollowReports
<1>2. QED BY <1>1 DEF VpnInv, TypeOK, AsksFirstOpen, StepsMatchError, AttemptsFollowReports,
                      Sound, Asks, StepsFit, Rounds

LEMMA SoundIsInv ==
  ASSUME Sound(ctx), reports \in Nat, AttemptsFollowReports
  PROVE  VpnInv
  BY DEF VpnInv, TypeOK, AsksFirstOpen, StepsMatchError, AttemptsFollowReports,
         Sound, Asks, StepsFit, Rounds

LEMMA InitVpnInv == Init => VpnInv
  BY NewContextFacts DEF Init, VpnInv, TypeOK, AsksFirstOpen, StepsMatchError,
                         AttemptsFollowReports

LEMMA RenewStep == ASSUME Renew PROVE VpnInv'
  BY NewContextFacts DEF Renew, VpnInv, TypeOK, AsksFirstOpen, StepsMatchError,
                         AttemptsFollowReports

\* The reports are counted with the attempts.
LEMMA SayStep ==
  ASSUME VpnInv, NEW m \in VpnMessage, Say(m)
  PROVE  VpnInv'
<1>1. Sound(ctx) /\ ctx' = HandleVpnMessage(ctx, m) /\ reports \in Nat
  BY InvIsSound DEF Say, VpnInv, TypeOK
<1>2. Sound(ctx')
  BY <1>1, FlowKeepsSound
<1>3. CASE ctx.state \notin {"VPN_CHECK_RESULT", "VPN_HANDOFF"}
  <2>1. reports' = 0
    BY <1>3 DEF VpnInv, AttemptsFollowReports, Say, Solves, Reports
  <2>2. /\ ctx'.state # "VPN_HANDOFF"
        /\ ctx'.state = "VPN_CHECK_RESULT" => ctx'.attempt_count = 1
    BY <1>1, <1>3, CollectStep
  <2>3. AttemptsFollowReports'
    BY <2>1, <2>2 DEF AttemptsFollowReports
  <2>4. QED BY <1>2, <2>1, <2>3 DEF VpnInv, TypeOK, AsksFirstOpen, StepsMatchError,
                                    Sound, Asks, StepsFit
<1>4. CASE ctx.state = "VPN_CHECK_RESULT"
  <2>1. ctx.attempt_count = reports + 1 /\ reports \in 0..1
    BY <1>4 DEF VpnInv, AttemptsFollowReports
  <2>2. IF m.success THEN ctx'.state = "VPN_START" /\ ctx'.attempt_count = 0
        ELSE IF ~m.failure THEN ctx' = ctx
        ELSE IF ctx.attempt_count = 1
        THEN ctx'.state = "VPN_CHECK_RESULT" /\ ctx'.attempt_count = 2
        ELSE ctx.attempt_count = 2 /\ ctx' = [ctx EXCEPT !.state = "VPN_HANDOFF"]
    BY <1>1, <1>4, CheckStep
  <2>3. ctx \in VpnContext
    BY <1>1 DEF Sound
  <2>4. reports' \in Nat /\ AttemptsFollowReports'
    <3>1. CASE m.success
      BY <1>4, <2>2, <3>1 DEF Say, Solves, AttemptsFollowReports
    <3>2. CASE ~m.success /\ ~m.failure
      BY <1>1, <1>4, <2>1, <2>2, <3>2 DEF Say, Solves, Reports, AttemptsFollowReports
    <3>3. CASE ~m.success /\ m.failure /\ ctx.attempt_count = 1
      BY <1>4, <2>1, <2>2, <3>3 DEF Say, Solves, Reports, AttemptsFollowReports
    <3>4. CASE ~m.success /\ m.failure /\ ctx.attempt_count # 1
      <4>1. ctx'.state = "VPN_HANDOFF" /\ reports' = 2
        BY <1>4, <2>1, <2>2, <2>3, <3>4 DEF Say, Solves, Reports, VpnContext
      <4>2. Complete(ctx')
        BY <1>2, <4>1 DEF Sound, Rounds
      <4>3. QED BY <4>1, <4>2 DEF AttemptsFollowReports
    <3>5. QED BY <3>1, <3>2, <3>3, <3>4
  <2>5. QED BY <1>2, <2>4 DEF VpnInv, TypeOK, AsksFirstOpen, StepsMatchError,
                              Sound, Asks, StepsFit
<1>5. CASE ctx.state = "VPN_HANDOFF"
  <2>1. ctx' = ctx /\ reports' = reports
    BY <1>5, HandoffStep DEF Say, Solves, Reports
  <2>2. QED BY <2>1 DEF VpnInv, TypeOK, AsksFirstOpen, StepsMatchError,
                        AttemptsFollowReports, Complete
<1>6. QED BY <1>3, <1>4, <1>5

LEMMA VpnInvStep == ASSUME VpnInv, [Next]_vars PROVE VpnInv'
<1>1. CASE Renew
  BY <1>1, RenewStep
<1>2. ASSUME NEW m \in Messages, Say(m) PROVE VpnInv'
  BY <1>2, SayStep, MessagesAssumption
<1>3. CASE UNCHANGED vars
  BY <1>3 DEF vars, VpnInv, TypeOK, AsksFirstOpen, StepsMatchError,
              AttemptsFollowReports, Complete
<1>4. QED BY <1>1, <1>2, <1>3 DEF Next

LEMMA VpnInvHolds == Spec => []VpnInv
  BY InitVpnInv, VpnInvStep, PTL DEF Spec

-----------------------------------------------------------------------------
(* The theorems.                                                           *)

\* handle_vpn_message returns a VpnContext, whatever the user says.
THEOREM VpnTypeCorrect == Spec => []TypeOK
<1>1. VpnInv => TypeOK
  BY DEF VpnInv
<1>2. QED BY <1>1, VpnInvHolds, PTL

\* The flow asks one question at a time and only what it does not know.
THEOREM VpnAsksFirstOpen == Spec => []AsksFirstOpen
<1>1. VpnInv => AsksFirstOpen
  BY DEF VpnInv
<1>2. QED BY <1>1, VpnInvHolds, PTL

\* The steps on record are those for the error on record.
THEOREM VpnStepsMatchError == Spec => []StepsMatchError
<1>1. VpnInv => StepsMatchError
  BY DEF VpnInv
<1>2. QED BY <1>1, VpnInvHolds, PTL

\* A hand-off carries a complete description and follows two failed rounds.
THEOREM VpnEscalatesAfterTwo == Spec => []AttemptsFollowReports
<1>1. VpnInv => AttemptsFollowReports
  BY DEF VpnInv
<1>2. QED BY <1>1, VpnInvHolds, PTL

LEMMA LadderStep == ASSUME VpnInv, [Next]_vars PROVE [Ladder!Next]_(Ladder!vars)
<1> USE DEF Ladder!Next, Ladder!vars, Ladder!Climb, Ladder!Solve, Ladder!Renew
<1>1. CASE Renew
  <2>1. Rung' = "describing"
    BY <1>1, NewContextFacts DEF Renew, Rung
  <2>2. QED BY <2>1
<1>2. ASSUME NEW m \in Messages, Say(m) PROVE [Ladder!Next]_(Ladder!vars)
  <2>1. m \in VpnMessage /\ Sound(ctx) /\ ctx' = HandleVpnMessage(ctx, m)
    BY <1>2, MessagesAssumption, InvIsSound DEF Say
  <2>2. Climbs(ctx, ctx')
    BY <2>1, FlowClimbs
  <2>3. Rung = RungOf(ctx) /\ Rung' = RungOf(ctx')
    BY DEF Rung, RungOf
  <2>4. QED BY <2>2, <2>3 DEF Climbs
<1>3. CASE UNCHANGED vars
  BY <1>3 DEF vars, Rung
<1>4. QED BY <1>1, <1>2, <1>3 DEF Next

\* The flow implements SupportLadder: no rung is skipped, and a closed case is
\* reopened only by a new session.
THEOREM VpnClimbsLadder == Spec => ClimbsLadder
<1>1. Init => Ladder!Init
  BY NewContextFacts DEF Init, Ladder!Init, Rung
<1>2. QED BY <1>1, VpnInvHolds, LadderStep, PTL DEF Spec, ClimbsLadder, Ladder!Spec

-----------------------------------------------------------------------------
(* What the user said.                                                     *)

LEMMA FactsStep ==
  ASSUME VpnInv, [Next]_vars, ctx' # NewContext
  PROVE  /\ \A f \in {"os", "client", "symptom"} : ctx[f] # None => ctx'[f] = ctx[f]
         /\ ctx.error_code # None /\ ctx'.error_code = None =>
              ctx.state = "VPN_CHECK_RESULT" /\ ctx'.state = "VPN_START"
<1>1. CASE Renew
  BY <1>1 DEF Renew
<1>2. ASSUME NEW m \in Messages, Say(m)
      PROVE  KeepsFacts(ctx, ctx')
  BY <1>2, InvIsSound, MessagesAssumption, FlowKeepsFacts DEF Say, Sound
<1>3. CASE UNCHANGED vars
  BY <1>3 DEF vars
<1>4. QED BY <1>1, <1>2, <1>3 DEF Next, KeepsFacts

\* An answer stays what it was, and only a success forgets the error.
THEOREM VpnFactsStable == Spec => FactsStable
  BY VpnInvHolds, FactsStep, PTL DEF Spec, FactsStable

\* A reply in which no success can be read next to the failure is not taken for
\* one: what refutes FailureIsNoSuccess is the mixture, and only that.
THEOREM VpnFailureIsNoSuccess ==
  ASSUME \A m \in Messages : ~(m.success /\ m.failure)
  PROVE  Spec => FailureIsNoSuccess
<1>1. ASSUME VpnInv, NEW m \in Messages, Say(m), m.failure, ctx.state = "VPN_CHECK_RESULT"
      PROVE  ctx'.state # "VPN_START"
  <2>1. m \in VpnMessage /\ Sound(ctx) /\ ctx' = HandleVpnMessage(ctx, m) /\ ~m.success
    BY <1>1, MessagesAssumption, InvIsSound DEF Say
  <2>2. IF ctx.attempt_count = 1
        THEN ctx'.state = "VPN_CHECK_RESULT"
        ELSE ctx' = [ctx EXCEPT !.state = "VPN_HANDOFF"]
    BY <1>1, <2>1, CheckStep
  <2> QED BY <2>1, <2>2 DEF Sound, VpnContext
<1>2. ASSUME VpnInv
      PROVE  [\A m \in Messages :
                Say(m) /\ m.failure /\ ctx.state = "VPN_CHECK_RESULT" => ctx'.state # "VPN_START"]_vars
  BY <1>1, <1>2
<1> QED BY <1>2, VpnInvHolds, PTL DEF FailureIsNoSuccess

-----------------------------------------------------------------------------
(* The end of a case.                                                      *)

\* Before the steps, an answer fills in what was open and nothing else.
LEMMA CollectFills ==
  ASSUME NEW c, Sound(c), NEW m \in VpnMessage, NEW n, n = HandleVpnMessage(c, m),
         c.state \notin {"VPN_CHECK_RESULT", "VPN_HANDOFF"}
  PROVE  /\ n.os = Keep(c.os, m.os) /\ n.client = Keep(c.client, m.client)
         /\ n.symptom = Keep(c.symptom, m.symptom)
         /\ n.error_code = Keep(c.error_code, m.code)
<1> DEFINE e == Extract(c, m)
           asked == IF m.success \/ m.failure THEN Questions ELSE Ahead(e.state)
           l == IF e.state = "VPN_START" /\ ~m.success /\ ~m.failure
                THEN e.last_question ELSE "none"
           g == [e EXCEPT !.last_question = l]
<1>1. e \in VpnContext /\ c \in VpnContext
  BY ExtractFacts DEF Sound
<1>2. /\ e.os = Keep(c.os, m.os) /\ e.client = Keep(c.client, m.client)
      /\ e.symptom = Keep(c.symptom, m.symptom) /\ e.error_code = Keep(c.error_code, m.code)
  BY <1>1 DEF VpnContext, Extract
<1>3. n = Collect(e, m)
  BY DEF HandleVpnMessage
<1> HIDE DEF e
<1>4. n = IF FirstOpen(e, asked) # "none" THEN Ask(e, FirstOpen(e, asked)) ELSE GiveSteps(g)
  BY <1>1, <1>3 DEF Collect, VpnContext
<1> HIDE DEF asked, l
<1>5. \A q : /\ Ask(e, q).os = e.os /\ Ask(e, q).client = e.client
             /\ Ask(e, q).symptom = e.symptom /\ Ask(e, q).error_code = e.error_code
  BY <1>1 DEF Ask, VpnContext
<1>6. /\ GiveSteps(g).os = e.os /\ GiveSteps(g).client = e.client
      /\ GiveSteps(g).symptom = e.symptom /\ GiveSteps(g).error_code = e.error_code
  BY <1>1 DEF GiveSteps, VpnContext
<1> QED BY <1>2, <1>4, <1>5, <1>6

\* A message closes questions, an answer the one that is open.
LEMMA OpenShrinks ==
  ASSUME NEW c, Sound(c), NEW m \in VpnMessage, NEW n, n = HandleVpnMessage(c, m),
         c.state \notin {"VPN_CHECK_RESULT", "VPN_HANDOFF"}
  PROVE  /\ Open(n) \in Nat /\ Open(c) \in Nat /\ Open(n) <= Open(c)
         /\ Fills(c, m) => Open(n) < Open(c)
<1>1. \A k, f : One(Keep(k, f)) \in 0..1 /\ One(k) \in 0..1 /\ One(Keep(k, f)) <= One(k)
                /\ (k = None /\ f # None => One(Keep(k, f)) < One(k))
  BY DEF One, Keep
<1>2. /\ n.os = Keep(c.os, m.os) /\ n.client = Keep(c.client, m.client)
      /\ n.symptom = Keep(c.symptom, m.symptom) /\ n.error_code = Keep(c.error_code, m.code)
  BY CollectFills
<1>3. LET q == FirstOpen(c, Questions)
      IN  /\ (q = "os" => c.os = None) /\ (q = "client" => c.client = None)
          /\ (q = "symptom" => c.symptom = None) /\ (q = "error_code" => c.error_code = None)
  BY DEF FirstOpen
<1> QED BY <1>1, <1>2, <1>3 DEF Open, Fills

\* What a message does to the distance.
LEMMA SayCloser ==
  ASSUME VpnInv, NEW m \in Messages, Say(m)
  PROVE  \/ ctx'.state = "VPN_START"
         \/ /\ Distance(ctx') <= Distance(ctx)
            /\ Answers(m) /\ ctx.state # "VPN_HANDOFF" => Distance(ctx') < Distance(ctx)
<1>1. m \in VpnMessage /\ Sound(ctx) /\ ctx' = HandleVpnMessage(ctx, m)
  BY MessagesAssumption, InvIsSound DEF Say
<1>2. Sound(ctx')
  BY <1>1, FlowKeepsSound
<1>3. CASE ctx.state \notin {"VPN_CHECK_RESULT", "VPN_HANDOFF"}
  <2>1. /\ ctx'.state # "VPN_HANDOFF"
        /\ ctx'.attempt_count = IF ctx'.state = "VPN_CHECK_RESULT" THEN 1 ELSE 0
    BY <1>1, <1>3, CollectStep
  <2>2. Distance(ctx) = 2 + Open(ctx)
    BY <1>3 DEF Distance
  <2>3. Distance(ctx') = IF ctx'.state = "VPN_CHECK_RESULT" THEN 2 ELSE 2 + Open(ctx')
    BY <2>1 DEF Distance
  <2>4. Open(ctx') \in Nat /\ Open(ctx) \in Nat /\ Open(ctx') <= Open(ctx)
    BY <1>1, <1>3, OpenShrinks
  <2>5. ASSUME Answers(m) PROVE Open(ctx') < Open(ctx)
    <3>1. Fills(ctx, m)
      BY <1>3, <2>5 DEF Answers
    <3> QED BY <1>1, <1>3, <3>1, OpenShrinks
  <2> QED BY <2>2, <2>3, <2>4, <2>5
<1>4. CASE ctx.state = "VPN_CHECK_RESULT"
  <2>1. IF m.success THEN ctx'.state = "VPN_START" /\ ctx'.attempt_count = 0
        ELSE IF ~m.failure THEN ctx' = ctx
        ELSE IF ctx.attempt_count = 1
        THEN ctx'.state = "VPN_CHECK_RESULT" /\ ctx'.attempt_count = 2
        ELSE ctx.attempt_count = 2 /\ ctx' = [ctx EXCEPT !.state = "VPN_HANDOFF"]
    BY <1>1, <1>4, CheckStep
  <2>2. ctx.attempt_count \in {1, 2} /\ ctx \in VpnContext
    BY <1>1, <1>4 DEF Sound, Rounds
  <2>3. Answers(m) => m.success \/ m.failure
    BY <1>4 DEF Answers
  <2>4. CASE m.success
    BY <2>1, <2>4
  <2>5. CASE ~m.success /\ ~m.failure
    <3>1. ctx' = ctx
      BY <2>1, <2>5
    <3>2. Distance(ctx') = Distance(ctx) /\ Distance(ctx) \in Nat
      BY <1>4, <2>2, <3>1 DEF Distance
    <3> QED BY <2>3, <2>5, <3>2
  <2>6. CASE ~m.success /\ m.failure
    <3>1. Distance(ctx) = 3 - ctx.attempt_count
      BY <1>4 DEF Distance
    <3>2. CASE ctx.attempt_count = 1
      <4>1. Distance(ctx') = 1
        BY <2>1, <2>6, <3>2 DEF Distance
      <4> QED BY <3>1, <3>2, <4>1
    <3>3. CASE ctx.attempt_count = 2
      <4>1. ctx'.state = "VPN_HANDOFF"
        BY <2>1, <2>2, <2>6, <3>3 DEF VpnContext
      <4>2. Distance(ctx') = 0
        BY <4>1 DEF Distance
      <4> QED BY <3>1, <3>3, <4>2
    <3> QED BY <2>2, <3>2, <3>3
  <2> QED BY <2>4, <2>5, <2>6
<1>5. CASE ctx.state = "VPN_HANDOFF"
  <2>1. ctx' = ctx
    BY <1>1, <1>5, HandoffStep
  <2>2. Distance(ctx') = Distance(ctx) /\ Distance(ctx) = 0
    BY <1>5, <2>1 DEF Distance
  <2> QED BY <1>5, <2>2
<1> QED BY <1>3, <1>4, <1>5

\* The distance is a number of at most six.
LEMMA DistanceType ==
  ASSUME VpnInv
  PROVE  Distance(ctx) \in 0..6 /\ (Distance(ctx) = 0 <=> ctx.state = "VPN_HANDOFF")
<1>1. CASE ctx.state = "VPN_CHECK_RESULT"
  <2>1. ctx.attempt_count \in {1, 2}
    BY <1>1, InvIsSound DEF Sound, Rounds
  <2> QED BY <1>1, <2>1 DEF Distance
<1>2. CASE ctx.state = "VPN_HANDOFF"
  BY <1>2 DEF Distance
<1>3. CASE ctx.state \notin {"VPN_CHECK_RESULT", "VPN_HANDOFF"}
  <2>1. Open(ctx) \in 0..4
    BY DEF Open, One
  <2> QED BY <1>3, <2>1 DEF Distance
<1> QED BY <1>1, <1>2, <1>3

LEMMA CloserStep ==
  ASSUME VpnInv, [Next]_vars
  PROVE  \/ ctx'.state = "VPN_START"
         \/ /\ Distance(ctx') <= Distance(ctx)
            /\ <<Answer>>_vars /\ ctx.state # "VPN_HANDOFF" => Distance(ctx') < Distance(ctx)
<1>1. CASE Renew
  BY <1>1, NewContextFacts DEF Renew
<1>2. CASE \E m \in Messages : Say(m)
  <2>1. CASE Answer
    <3>1. PICK m \in Messages : Answers(m) /\ Say(m)
      BY <2>1 DEF Answer
    <3> QED BY <3>1, SayCloser
  <2>2. CASE ~Answer
    BY <1>2, <2>2, SayCloser
  <2> QED BY <2>1, <2>2
<1>3. CASE UNCHANGED vars
  <2>1. Distance(ctx') = Distance(ctx) /\ Distance(ctx) \in 0..6
    BY <1>3, DistanceType DEF vars
  <2> QED BY <1>3, <2>1
<1> QED BY <1>1, <1>2, <1>3 DEF Next

\* No message sends the user back, and an answer brings the case closer.
THEOREM VpnAnswersBringCloser == Spec => AnswersBringCloser
<1>1. ASSUME VpnInv, [Next]_vars
      PROVE  [ \/ ctx'.state = "VPN_START"
               \/ /\ Distance(ctx') <= Distance(ctx)
                  /\ Answer /\ ctx.state # "VPN_HANDOFF" => Distance(ctx') < Distance(ctx) ]_vars
  BY <1>1, CloserStep
<1> QED BY <1>1, VpnInvHolds, PTL DEF Spec, AnswersBringCloser

\* Wherever an answer is possible, the case of a user who goes on answering
\* ends: it is handed off for good, or starts anew again and again.  That the
\* answer is possible (AnswerPossible) is the hypothesis.
THEOREM VpnConcludes == FairSpec /\ []AnswerPossible => Concludes
<1> DEFINE Final == ctx.state = "VPN_HANDOFF"
           Anew  == ctx.state = "VPN_START"
           Near1 == Distance(ctx) <= 1
           Near2 == Distance(ctx) <= 2
           Near3 == Distance(ctx) <= 3
           Near4 == Distance(ctx) <= 4
           Near5 == Distance(ctx) <= 5
<1>1. VpnInv => Distance(ctx) \in 0..6 /\ (Distance(ctx) = 0 <=> Final)
  BY DistanceType
<1>2. VpnInv' => (Distance(ctx) \in 0..6 /\ (Distance(ctx) = 0 <=> Final))'
  BY <1>1, PTL
<1>3. VpnInv /\ VpnInv' /\ [Next]_vars =>
        /\ Final => Final' \/ Anew'
        /\ Near1 => Near1' \/ Anew'
        /\ Near2 => Near2' \/ Anew'
        /\ Near3 => Near3' \/ Anew'
        /\ Near4 => Near4' \/ Anew'
        /\ Near5 => Near5' \/ Anew'
  <2> SUFFICES ASSUME VpnInv, VpnInv', [Next]_vars, ~Anew'
               PROVE  /\ Final => Final'
                      /\ Near1 => Near1'
                      /\ Near2 => Near2'
                      /\ Near3 => Near3'
                      /\ Near4 => Near4'
                      /\ Near5 => Near5'
    OBVIOUS
  <2>1. Distance(ctx') <= Distance(ctx)
    BY CloserStep
  <2> QED BY <2>1, <1>1, <1>2
<1>4. VpnInv /\ VpnInv' /\ [Next]_vars /\ <<Answer>>_vars =>
        /\ Near1 => Final' \/ Anew'
        /\ Near2 => Near1' \/ Anew'
        /\ Near3 => Near2' \/ Anew'
        /\ Near4 => Near3' \/ Anew'
        /\ Near5 => Near4' \/ Anew'
        /\ Near5' \/ Final \/ Anew'
  <2> SUFFICES ASSUME VpnInv, VpnInv', [Next]_vars, <<Answer>>_vars, ~Anew'
               PROVE  /\ Near1 => Final'
                      /\ Near2 => Near1'
                      /\ Near3 => Near2'
                      /\ Near4 => Near3'
                      /\ Near5 => Near4'
                      /\ Near5' \/ Final
    OBVIOUS
  <2>1. CASE Final
    BY <2>1, <1>3, <1>1, <1>2
  <2>2. CASE ~Final
    <3>1. Distance(ctx') < Distance(ctx)
      BY <2>2, CloserStep
    <3> QED BY <3>1, <1>1, <1>2
  <2> QED BY <2>1, <2>2
<1>5. Concludes <=> <>[]Final \/ []<>Anew
  BY DEF Concludes
<1>6. AnswerPossible <=> (Final \/ ENABLED <<Answer>>_vars)
  BY DEF AnswerPossible
<1> HIDE DEF Final, Anew, Near1, Near2, Near3, Near4, Near5
<1> QED BY VpnInvHolds, <1>3, <1>4, <1>5, <1>6, PTL DEF FairSpec, Spec

\* The flow does not begin, anew or not, with everything known: of a solved case
\* the error is forgotten.
StartOpen(c) == c.state = "VPN_START" => c.error_code = None

LEMMA FlowStartsOpen ==
  ASSUME NEW c, Sound(c), NEW m \in VpnMessage
  PROVE  LET n == HandleVpnMessage(c, m) IN c.state # "VPN_HANDOFF" => StartOpen(n)
<1> DEFINE n == HandleVpnMessage(c, m)
           e == Extract(c, m)
<1>1. e \in VpnContext /\ e.state = c.state /\ e.attempt_count = c.attempt_count
  BY ExtractFacts DEF Sound
<1>2. CASE c.state = "VPN_CHECK_RESULT"
  <2>1. CASE m.success
    <3>1. n = Solved(e)
      BY <1>2, <2>1 DEF HandleVpnMessage, CheckResult
    <3> HIDE DEF n, e
    <3>2. Solved(e).error_code = None
      BY <1>1 DEF Solved, VpnContext
    <3> QED BY <3>1, <3>2 DEF StartOpen, n
  <2>2. CASE ~m.success
    <3> HIDE DEF n
    <3>1. \/ n = c
          \/ n.state = "VPN_CHECK_RESULT"
          \/ n = [c EXCEPT !.state = "VPN_HANDOFF"]
      BY <1>2, <2>2, CheckStep DEF n
    <3>2. [c EXCEPT !.state = "VPN_HANDOFF"].state = "VPN_HANDOFF"
      BY DEF Sound, VpnContext
    <3> QED BY <1>2, <3>1, <3>2 DEF StartOpen, n
  <2> QED BY <2>1, <2>2
<1>3. CASE c.state \notin {"VPN_CHECK_RESULT", "VPN_HANDOFF"}
  <2> DEFINE asked == IF m.success \/ m.failure THEN Questions ELSE Ahead(e.state)
             l == IF e.state = "VPN_START" /\ ~m.success /\ ~m.failure
                  THEN e.last_question ELSE "none"
             g == [e EXCEPT !.last_question = l]
  <2>1. n = Collect(e, m)
    BY <1>3 DEF HandleVpnMessage
  <2> HIDE DEF n, e
  <2>2. n = IF FirstOpen(e, asked) # "none" THEN Ask(e, FirstOpen(e, asked)) ELSE GiveSteps(g)
    BY <1>1, <2>1 DEF Collect, VpnContext
  <2>3. FirstOpen(e, asked) \in Questions \cup {"none"}
    BY DEF FirstOpen, Questions
  <2> HIDE DEF asked, l
  <2>4. \A q \in Questions : Ask(e, q).state # "VPN_START"
    BY <1>1, AskFacts
  <2>5. GiveSteps(g).state # "VPN_START"
    BY <1>1 DEF GiveSteps, VpnContext
  <2> QED BY <2>2, <2>3, <2>4, <2>5 DEF StartOpen, n
<1> QED BY <1>2, <1>3

LEMMA StartsOpen == Spec => [](VpnInv /\ StartOpen(ctx))
<1>1. Init => StartOpen(ctx)
  BY DEF Init, NewContext, StartOpen
<1>2. VpnInv /\ StartOpen(ctx) /\ [Next]_vars => StartOpen(ctx)'
  <2> SUFFICES ASSUME VpnInv, StartOpen(ctx), [Next]_vars PROVE StartOpen(ctx')
    OBVIOUS
  <2>1. CASE Renew \/ UNCHANGED vars
    BY <2>1 DEF Renew, NewContext, vars, StartOpen
  <2>2. ASSUME NEW m \in Messages, Say(m)
        PROVE  StartOpen(ctx')
    <3>1. m \in VpnMessage /\ Sound(ctx) /\ ctx' = HandleVpnMessage(ctx, m)
      BY <2>2, MessagesAssumption, InvIsSound DEF Say
    <3> QED BY <3>1, FlowStartsOpen, HandoffStep
  <2> QED BY <2>1, <2>2 DEF Next
<1> QED BY <1>1, <1>2, VpnInvHolds, PTL DEF Spec

\* Messages with which every question can be answered, and the steps reported on.
Talkative ==
  /\ \A f \in {"os", "client", "symptom", "code"} : \E m \in Messages : m[f] # None
  /\ \E m \in Messages : m.success \/ m.failure

\* Before the hand-off some answer changes what is stored, whatever was said
\* before: AnswerPossible as far as it can be said without ENABLED, for every set
\* of messages that holds an answer to each question.
THEOREM VpnAnswerExists ==
  ASSUME Talkative
  PROVE  Spec => [](ctx.state # "VPN_HANDOFF" =>
                      \E m \in Messages : Answers(m) /\ HandleVpnMessage(ctx, m) # ctx)
<1>1. ASSUME VpnInv, StartOpen(ctx), ctx.state # "VPN_HANDOFF"
      PROVE  \E m \in Messages : Answers(m) /\ HandleVpnMessage(ctx, m) # ctx
  <2> USE MessagesAssumption
  <2>1. Sound(ctx) /\ ctx \in VpnContext
    BY <1>1, InvIsSound DEF Sound
  <2>2. CASE ctx.state = "VPN_CHECK_RESULT"
    <3>1. PICK m \in Messages : m.success \/ m.failure
      BY DEF Talkative
    <3>2. Answers(m)
      BY <2>2, <3>1 DEF Answers
    <3>3. CASE m.success
      <4>1. HandleVpnMessage(ctx, m).state = "VPN_START"
        BY <2>1, <2>2, <3>3, CheckStep
      <4> QED BY <2>2, <3>2, <4>1
    <3>4. CASE ~m.success /\ ctx.attempt_count = 1
      <4>1. HandleVpnMessage(ctx, m).attempt_count = 2
        BY <2>1, <2>2, <3>1, <3>4, CheckStep
      <4> QED BY <3>2, <3>4, <4>1
    <3>5. CASE ~m.success /\ ctx.attempt_count # 1
      <4>1. HandleVpnMessage(ctx, m) = [ctx EXCEPT !.state = "VPN_HANDOFF"]
        BY <2>1, <2>2, <3>1, <3>5, CheckStep
      <4>2. HandleVpnMessage(ctx, m).state = "VPN_HANDOFF"
        BY <2>1, <4>1 DEF VpnContext
      <4> QED BY <2>2, <3>2, <4>2
    <3> QED BY <3>3, <3>4, <3>5
  <2>3. CASE ctx.state # "VPN_CHECK_RESULT"
    <3>1. FirstOpen(ctx, Questions) \in Questions
      <4>1. CASE ctx.state = "VPN_START"
        BY <1>1, <4>1 DEF StartOpen, FirstOpen, Questions
      <4>2. CASE ctx.state # "VPN_START"
        <5>1. FirstOpen(ctx, Questions) # "none"
          BY <1>1, <2>3, <4>2 DEF VpnInv, AsksFirstOpen
        <5> QED BY <5>1 DEF FirstOpen, Questions
      <4> QED BY <4>1, <4>2
    <3>2. PICK m \in Messages : Fills(ctx, m)
      BY <3>1 DEF Talkative, Fills, Questions
    <3>3. Answers(m)
      BY <2>3, <3>2 DEF Answers
    <3>4. Open(HandleVpnMessage(ctx, m)) < Open(ctx) /\ Open(ctx) \in Nat
      BY <1>1, <2>1, <2>3, <3>2, OpenShrinks
    <3>5. HandleVpnMessage(ctx, m) # ctx
      BY <3>4
    <3> QED BY <3>3, <3>5
  <2> QED BY <2>2, <2>3
<1>2. VpnInv /\ StartOpen(ctx) =>
        (ctx.state # "VPN_HANDOFF" => \E m \in Messages : Answers(m) /\ HandleVpnMessage(ctx, m) # ctx)
  BY <1>1
<1> QED BY <1>2, StartsOpen, PTL
=============================================================================
