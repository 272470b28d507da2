---------------------------- MODULE VpnFlowProofs ----------------------------
(***************************************************************************)
(* What handle_vpn_message does to a context, for any message.  VpnSession *)
(* and ChatSession store that context in different ways, and their proofs  *)
(* use these lemmas.                                                       *)
(***************************************************************************)
EXTENDS VpnFlow, TLAPS

\* A context that the flow may have left: it asks the first open question, has
\* steps only for a full description and the stored error, counts their rounds,
\* and is handed off complete.
Asks(c) ==
  IF c.state \in {"VPN_CHECK_RESULT", "VPN_HANDOFF", "VPN_START"}
  THEN c.last_question = "none"
  ELSE /\ c.last_question = FirstOpen(c, Questions)
       /\ c.last_question # "none" /\ c.state = AskState(c.last_question)
StepsFit(c) ==
  IF c.state \in {"VPN_CHECK_RESULT", "VPN_HANDOFF"}
  THEN FirstOpen(c, Questions) = "none" /\ c.steps_given = StepsFor(c.error_code)
  ELSE c.steps_given = "none" /\ c.attempt_count = 0
Rounds(c) ==
  /\ c.state = "VPN_CHECK_RESULT" => c.attempt_count \in {1, 2}
  /\ c.state = "VPN_HANDOFF" => Complete(c)
Sound(c) == c \in VpnContext /\ Asks(c) /\ StepsFit(c) /\ Rounds(c)

-----------------------------------------------------------------------------
(* The operators of VpnFlow.                                               *)

\* Extraction changes nothing but the four answers, and none that is known.
LEMMA ExtractFacts ==
  ASSUME NEW c \in VpnContext, NEW m \in VpnMessage
  PROVE  /\ Extract(c, m) \in VpnContext
         /\ Extract(c, m).state = c.state
         /\ Extract(c, m).steps_given = c.steps_given
         /\ Extract(c, m).attempt_count = c.attempt_count
         /\ Extract(c, m).last_question = c.last_question
         /\ FirstOpen(c, Questions) = "none" => Extract(c, m) = c
<1>1. /\ Keep(c.os, m.os) \in OSes \cup {None}
      /\ Keep(c.client, m.client) \in Clients \cup {None}
      /\ Keep(c.symptom, m.symptom) \in Symptoms \cup {None}
      /\ Keep(c.error_code, m.code) \in Codes \cup {None}
  BY DEF VpnContext, VpnMessage, Keep
<1>2. Extract(c, m) \in VpnContext
  BY <1>1 DEF VpnContext, Extract
<1>3. /\ Extract(c, m).state = c.state
      /\ Extract(c, m).steps_given = c.steps_given
      /\ Extract(c, m).attempt_count = c.attempt_count
      /\ Extract(c, m).last_question = c.last_question
  BY DEF VpnContext, Extract
<1>4. ASSUME FirstOpen(c, Questions) = "none" PROVE Extract(c, m) = c
  <2>1. /\ c.os # None /\ c.client # None /\ c.symptom # None /\ c.error_code # None
    BY <1>4 DEF FirstOpen, Questions
  <2>2. /\ Keep(c.os, m.os) = c.os /\ Keep(c.client, m.client) = c.client
        /\ Keep(c.symptom, m.symptom) = c.symptom
        /\ Keep(c.error_code, m.code) = c.error_code
    BY <2>1 DEF Keep
  <2>3. QED BY <2>2 DEF Extract, VpnContext
<1>5. QED BY <1>2, <1>3, <1>4

\* FirstOpen answers with an open question of S, or with none.
LEMMA FirstOpenType ==
  ASSUME NEW c, NEW S \in SUBSET Questions
  PROVE  FirstOpen(c, S) \in Questions \cup {"none"}
  BY DEF FirstOpen, Questions

\* A question is put with its own state, which is not a resting one.
LEMMA AskFacts ==
  ASSUME NEW c \in VpnContext, NEW q \in Questions
  PROVE  /\ Ask(c, q) \in VpnContext
         /\ Ask(c, q).state = AskState(q)
         /\ AskState(q) \notin {"VPN_CHECK_RESULT", "VPN_HANDOFF", "VPN_START"}
         /\ Ask(c, q).last_question = q
         /\ \A S : FirstOpen(Ask(c, q), S) = FirstOpen(c, S)
         /\ Ask(c, q).steps_given = c.steps_given
         /\ Ask(c, q).attempt_count = c.attempt_count
  BY DEF VpnContext, Ask, AskState, Questions, States, FirstOpen

\* The steps given are those of the stored error, and the round is counted.
LEMMA GiveStepsFacts ==
  ASSUME NEW c \in VpnContext
  PROVE  /\ GiveSteps(c) \in VpnContext
         /\ GiveSteps(c).state = "VPN_CHECK_RESULT"
         /\ GiveSteps(c).attempt_count = c.attempt_count + 1
         /\ GiveSteps(c).steps_given = StepsFor(c.error_code)
         /\ GiveSteps(c).error_code = c.error_code
         /\ GiveSteps(c).last_question = c.last_question
         /\ \A S : FirstOpen(GiveSteps(c), S) = FirstOpen(c, S)
<1>1. StepsFor(c.error_code) \in StepLists
  BY DEF StepsFor, StepLists
<1>2. c.attempt_count + 1 \in Nat
  BY DEF VpnContext
<1>3. GiveSteps(c) \in VpnContext
  BY <1>1, <1>2 DEF VpnContext, GiveSteps, States
<1>4. /\ GiveSteps(c).state = "VPN_CHECK_RESULT"
      /\ GiveSteps(c).attempt_count = c.attempt_count + 1
      /\ GiveSteps(c).steps_given = StepsFor(c.error_code)
      /\ GiveSteps(c).error_code = c.error_code
      /\ GiveSteps(c).last_question = c.last_question
      /\ GiveSteps(c).os = c.os /\ GiveSteps(c).client = c.client
      /\ GiveSteps(c).symptom = c.symptom
  BY DEF VpnContext, GiveSteps
<1>5. QED BY <1>3, <1>4 DEF FirstOpen

\* Any context is turned into a context, also one no flow has left.
LEMMA FlowType ==
  ASSUME NEW c \in VpnContext, NEW m \in VpnMessage
  PROVE  HandleVpnMessage(c, m) \in VpnContext
<1> DEFINE e == Extract(c, m)
<1>1. e \in VpnContext
  BY ExtractFacts
<1> HIDE DEF e
<1>2. CheckResult(e, m) \in VpnContext
  <2> DEFINE k == Keep(m.code, e.error_code)
             g == [e EXCEPT !.error_code = k]
  <2>1. k \in Codes \cup {None}
    BY <1>1 DEF Keep, VpnContext, VpnMessage
  <2> HIDE DEF k
  <2>2. g \in VpnContext
    BY <1>1, <2>1 DEF VpnContext
  <2> HIDE DEF g
  <2>3. GiveSteps(g) \in VpnContext
    BY <2>2, GiveStepsFacts
  <2>4. Solved(e) \in VpnContext
    BY <1>1 DEF Solved, VpnContext, States
  <2>5. [e EXCEPT !.state = "VPN_HANDOFF"] \in VpnContext
    BY <1>1 DEF VpnContext, States
  <2> QED BY <1>1, <2>3, <2>4, <2>5 DEF CheckResult, g, k
<1>3. e.state \in States \ {"VPN_CHECK_RESULT", "VPN_HANDOFF"} => Collect(e, m) \in VpnContext
  <2> DEFINE S == IF m.success \/ m.failure THEN Questions ELSE Ahead(e.state)
             q == FirstOpen(e, S)
             l == IF e.state = "VPN_START" /\ ~m.success /\ ~m.failure
                  THEN e.last_question ELSE "none"
             g == [e EXCEPT !.last_question = l]
  <2> SUFFICES ASSUME e.state \in States \ {"VPN_CHECK_RESULT", "VPN_HANDOFF"}
               PROVE  Collect(e, m) \in VpnContext
    OBVIOUS
  <2>1. Collect(e, m) = IF q # "none" THEN Ask(e, q) ELSE GiveSteps(g)
    BY DEF Collect
  <2>2. S \in SUBSET Questions
    BY DEF Ahead, States, Questions
  <2>3. q \in Questions \cup {"none"}
    BY <2>2, FirstOpenType
  <2>4. l \in Questions \cup {"none"}
    BY <1>1 DEF VpnContext
  <2> HIDE DEF q, l
  <2>5. g \in VpnContext
    BY <1>1, <2>4 DEF VpnContext
  <2> HIDE DEF g
  <2> QED BY <1>1, <2>1, <2>3, <2>5, AskFacts, GiveStepsFacts
<1>4. e.state = c.state /\ c.state \in States
  BY ExtractFacts DEF e, VpnContext
<1> QED BY <1>2, <1>3, <1>4 DEF HandleVpnMessage, e

\* While the description is incomplete, the first open question among those
\* ahead is the first open question of all: what lies behind is answered.
LEMMA NothingOpenBehind ==
  ASSUME NEW c \in VpnContext, NEW m \in VpnMessage,
         c.state \notin {"VPN_CHECK_RESULT", "VPN_HANDOFF"},
         c.state # "VPN_START" =>
           /\ FirstOpen(c, Questions) # "none"
           /\ c.state = AskState(FirstOpen(c, Questions))
  PROVE  FirstOpen(Extract(c, m), Ahead(c.state)) = FirstOpen(Extract(c, m), Questions)
<1> DEFINE e == Extract(c, m)
<1>1. /\ c.os # None => e.os # None
      /\ c.client # None => e.client # None
      /\ c.symptom # None => e.symptom # None
  BY DEF VpnContext, Extract, Keep
<1> HIDE DEF e
<1>2. c.state \in States
  BY DEF VpnContext
<1>3. CASE c.state \in {"VPN_START", "VPN_ASK_OS"}
  BY <1>3 DEF Ahead, e
<1>4. CASE c.state = "VPN_ASK_CLIENT"
  <2>1. c.os # None
    BY <1>4 DEF FirstOpen, AskState, Questions
  <2>2. QED BY <1>1, <1>4, <2>1 DEF FirstOpen, Ahead, Questions, e
<1>5. CASE c.state = "VPN_ASK_SYMPTOM"
  <2>1. c.os # None /\ c.client # None
    BY <1>5 DEF FirstOpen, AskState, Questions
  <2>2. QED BY <1>1, <1>5, <2>1 DEF FirstOpen, Ahead, Questions, e
<1>6. CASE c.state = "VPN_ASK_ERROR_CODE"
  <2>1. c.os # None /\ c.client # None /\ c.symptom # None
    BY <1>6 DEF FirstOpen, AskState, Questions
  <2>2. QED BY <1>1, <1>6, <2>1 DEF FirstOpen, Ahead, Questions, e
<1>7. QED BY <1>2, <1>3, <1>4, <1>5, <1>6 DEF States

-----------------------------------------------------------------------------
(* The flow.                                                               *)

\* The first context, at start and after a deletion.
LEMMA NewContextFacts ==
  /\ NewContext \in VpnContext /\ NewContext.state = "VPN_START"
  /\ NewContext.attempt_count = 0 /\ NewContext.steps_given = "none"
  /\ NewContext.last_question = "none"
  BY DEF NewContext, VpnContext, States

LEMMA NewContextSound == Sound(NewContext)
  BY NewContextFacts DEF Sound, Asks, StepsFit, Rounds

\* A message before the steps: the first open question, or the first round.
LEMMA CollectStep ==
  ASSUME NEW c, Sound(c), NEW m \in VpnMessage, NEW n, n = HandleVpnMessage(c, m),
         c.state \notin {"VPN_CHECK_RESULT", "VPN_HANDOFF"}
  PROVE  Sound(n) /\ n.state # "VPN_HANDOFF"
                  /\ n.attempt_count = IF n.state = "VPN_CHECK_RESULT" THEN 1 ELSE 0
<1> DEFINE e == Extract(c, m)
           q == FirstOpen(e, Questions)
           g == [e EXCEPT !.last_question =
                   IF e.state = "VPN_START" /\ ~m.success /\ ~m.failure THEN @ ELSE "none"]
<1>1. /\ e \in VpnContext /\ e.state = c.state
      /\ e.steps_given = "none" /\ e.attempt_count = 0
      /\ e.last_question = c.last_question
  BY ExtractFacts DEF Sound, StepsFit
<1>3. FirstOpen(e, Ahead(e.state)) = q
  BY <1>1, NothingOpenBehind DEF Sound, Asks
<1>4. n = IF q # "none" THEN Ask(e, q) ELSE GiveSteps(g)
  <2>1. n = Collect(e, m)
    BY DEF HandleVpnMessage
  <2>2. QED BY <1>3, <2>1 DEF Collect
<1>5. q \in Questions \cup {"none"}
  BY FirstOpenType
<1> HIDE DEF e, q
<1>6. CASE q # "none"
  <2>1. n = Ask(e, q) /\ q \in Questions
    BY <1>4, <1>5, <1>6
  <2>2. /\ n \in VpnContext /\ n.state = AskState(q) /\ n.last_question = q
        /\ n.state \notin {"VPN_CHECK_RESULT", "VPN_HANDOFF", "VPN_START"}
        /\ FirstOpen(n, Questions) = q
        /\ n.steps_given = "none" /\ n.attempt_count = 0
    BY <1>1, <2>1, AskFacts DEF q
  <2>3. QED BY <1>6, <2>2 DEF Sound, Asks, StepsFit, Rounds
<1>7. CASE q = "none"
  <2>1. n = GiveSteps(g)
    BY <1>4, <1>7
  <2>2. /\ g \in VpnContext /\ g.attempt_count = 0 /\ g.error_code = e.error_code
        /\ FirstOpen(g, Questions) = "none"
        /\ g.last_question = "none"
    <3>1. e.state = "VPN_START" => e.last_question = "none"
      BY <1>1 DEF Sound, Asks
    <3>2. g \in VpnContext /\ g.last_question = "none" /\ g.attempt_count = 0
      BY <1>1, <3>1 DEF VpnContext
    <3>3. /\ g.os = e.os /\ g.client = e.client /\ g.symptom = e.symptom
          /\ g.error_code = e.error_code
      BY <1>1 DEF VpnContext
    <3>4. QED BY <1>7, <3>2, <3>3 DEF q, FirstOpen
  <2> HIDE DEF g
  <2>3. /\ n \in VpnContext /\ n.state = "VPN_CHECK_RESULT"
        /\ n.attempt_count = 1 /\ n.last_question = "none"
        /\ n.steps_given = StepsFor(n.error_code)
        /\ FirstOpen(n, Questions) = "none"
    BY <2>1, <2>2, GiveStepsFacts
  <2>4. QED BY <2>3 DEF Sound, Asks, StepsFit, Rounds
<1>8. QED BY <1>6, <1>7

\* A complete context that goes to IT, and one that is handed back to its user.
LEMMA HandedOff ==
  ASSUME NEW c, Sound(c), c.state \in {"VPN_CHECK_RESULT", "VPN_HANDOFF"}, c.attempt_count = 2
  PROVE  /\ Sound([c EXCEPT !.state = "VPN_HANDOFF"])
         /\ Sound([c EXCEPT !.state = "VPN_CHECK_RESULT"])
<1> DEFINE h == [c EXCEPT !.state = "VPN_HANDOFF"]
           b == [c EXCEPT !.state = "VPN_CHECK_RESULT"]
<1>1. /\ c \in VpnContext /\ FirstOpen(c, Questions) = "none" /\ c.last_question = "none"
      /\ c.steps_given = StepsFor(c.error_code)
  BY DEF Sound, Asks, StepsFit
<1>2. /\ c.os # None /\ c.client # None /\ c.symptom # None /\ c.error_code # None
      /\ c.steps_given # "none"
  BY <1>1 DEF FirstOpen, Questions, StepsFor
<1>3. h \in VpnContext /\ b \in VpnContext
  BY <1>1 DEF VpnContext, States
<1>4. /\ h.state = "VPN_HANDOFF" /\ h.os = c.os /\ h.client = c.client /\ h.symptom = c.symptom
      /\ h.error_code = c.error_code /\ h.steps_given = c.steps_given
      /\ h.attempt_count = 2 /\ h.last_question = "none"
  BY <1>1 DEF VpnContext
<1>5. /\ b.state = "VPN_CHECK_RESULT" /\ b.os = c.os /\ b.client = c.client /\ b.symptom = c.symptom
      /\ b.error_code = c.error_code /\ b.steps_given = c.steps_given
      /\ b.attempt_count = 2 /\ b.last_question = "none"
  BY <1>1 DEF VpnContext
<1> HIDE DEF h, b
<1>6. FirstOpen(h, Questions) = "none" /\ FirstOpen(b, Questions) = "none"
  BY <1>2, <1>4, <1>5 DEF FirstOpen
<1>7. Sound(h)
  BY <1>1, <1>2, <1>3, <1>4, <1>6 DEF Sound, Asks, StepsFit, Rounds, Complete
<1>8. Sound(b)
  BY <1>1, <1>3, <1>5, <1>6 DEF Sound, Asks, StepsFit, Rounds
<1> QED BY <1>7, <1>8 DEF h, b

\* A message after the steps: solved, reminded, a second round, or handed off.
LEMMA CheckStep ==
  ASSUME NEW c, Sound(c), NEW m \in VpnMessage, NEW n, n = HandleVpnMessage(c, m),
         c.state = "VPN_CHECK_RESULT"
  PROVE  /\ Sound(n)
         /\ IF m.success THEN n.state = "VPN_START" /\ n.attempt_count = 0
            ELSE IF ~m.failure THEN n = c
            ELSE IF c.attempt_count = 1
            THEN n.state = "VPN_CHECK_RESULT" /\ n.attempt_count = 2
            ELSE c.attempt_count = 2 /\ n = [c EXCEPT !.state = "VPN_HANDOFF"]
<1>1. /\ c \in VpnContext /\ FirstOpen(c, Questions) = "none"
      /\ c.last_question = "none"
      /\ c.steps_given = StepsFor(c.error_code)
      /\ c.attempt_count \in {1, 2}
  BY DEF Sound, Asks, StepsFit, Rounds
<1>2. /\ c.os # None /\ c.client # None
      /\ c.symptom # None /\ c.error_code # None
  BY <1>1 DEF FirstOpen, Questions
<1>3. n = CheckResult(c, m)
  BY <1>1, ExtractFacts DEF HandleVpnMessage
<1>4. CASE m.success
  <2>1. n = Solved(c)
    BY <1>3, <1>4 DEF CheckResult
  <2>2. Solved(c) \in VpnContext
    BY <1>1 DEF VpnContext, Solved, States
  <2>3. /\ Solved(c).state = "VPN_START" /\ Solved(c).attempt_count = 0
        /\ Solved(c).steps_given = "none" /\ Solved(c).last_question = "none"
    BY <1>1 DEF VpnContext, Solved
  <2>4. QED BY <1>4, <2>1, <2>2, <2>3 DEF Sound, Asks, StepsFit, Rounds
<1>5. CASE ~m.success /\ ~m.failure
  BY <1>3, <1>5 DEF CheckResult
<1>6. CASE ~m.success /\ m.failure /\ c.attempt_count >= 2
  <2>1. n = [c EXCEPT !.state = "VPN_HANDOFF"] /\ c.attempt_count = 2
    BY <1>1, <1>3, <1>6 DEF CheckResult
  <2>2. Sound(n)
    BY <2>1, HandedOff
  <2>3. QED BY <1>6, <2>1, <2>2
<1>7. CASE ~m.success /\ m.failure /\ ~(c.attempt_count >= 2)
  <2> DEFINE g == [c EXCEPT !.error_code = Keep(m.code, @)]
  <2>1. n = GiveSteps(g)
    BY <1>3, <1>7 DEF CheckResult
  <2>2. c.attempt_count = 1
    BY <1>1, <1>7
  <2>3. Keep(m.code, c.error_code) \in Codes /\ Keep(m.code, c.error_code) # None
    BY <1>1, <1>2, FlowNoneAssumption DEF Keep, VpnContext, VpnMessage
  <2>4. /\ g \in VpnContext /\ g.attempt_count = 1 /\ g.last_question = "none"
        /\ g.os = c.os /\ g.client = c.client /\ g.symptom = c.symptom
        /\ g.error_code # None
    BY <1>1, <2>2, <2>3 DEF VpnContext
  <2>5. FirstOpen(g, Questions) = "none"
    BY <1>2, <2>4 DEF FirstOpen
  <2> HIDE DEF g
  <2>6. /\ n \in VpnContext /\ n.state = "VPN_CHECK_RESULT"
        /\ n.attempt_count = 2 /\ n.last_question = "none"
        /\ n.steps_given = StepsFor(n.error_code)
        /\ FirstOpen(n, Questions) = "none"
    BY <2>1, <2>4, <2>5, GiveStepsFacts
  <2>7. QED BY <1>7, <2>2, <2>6 DEF Sound, Asks, StepsFit, Rounds
<1>8. QED BY <1>4, <1>5, <1>6, <1>7

\* A handed-off context answers every message with itself.
LEMMA HandoffStep ==
  ASSUME NEW c, NEW m, c.state = "VPN_HANDOFF"
  PROVE  HandleVpnMessage(c, m) = c
  BY DEF HandleVpnMessage

\* Only a complete context that was checked is handed off, and as it was.
LEMMA HandsOffChecked ==
  ASSUME NEW c, Sound(c), NEW m \in VpnMessage, c.state # "VPN_HANDOFF",
         HandleVpnMessage(c, m).state = "VPN_HANDOFF"
  PROVE  /\ c.state = "VPN_CHECK_RESULT"
         /\ HandleVpnMessage(c, m) = [c EXCEPT !.state = "VPN_HANDOFF"]
<1> DEFINE n == HandleVpnMessage(c, m)
<1>1. c.state = "VPN_CHECK_RESULT"
  BY CollectStep
<1>2. IF m.success THEN n.state = "VPN_START" /\ n.attempt_count = 0
      ELSE IF ~m.failure THEN n = c
      ELSE IF c.attempt_count = 1
      THEN n.state = "VPN_CHECK_RESULT" /\ n.attempt_count = 2
      ELSE c.attempt_count = 2 /\ n = [c EXCEPT !.state = "VPN_HANDOFF"]
  BY <1>1, CheckStep
<1> HIDE DEF n
<1>3. n.state = "VPN_HANDOFF"
  BY DEF n
<1>4. n = [c EXCEPT !.state = "VPN_HANDOFF"]
  BY <1>1, <1>2, <1>3
<1> QED BY <1>1, <1>4 DEF n

\* Whatever the message, the flow leaves a context it may leave.
LEMMA FlowKeepsSound ==
  ASSUME NEW c, Sound(c), NEW m \in VpnMessage
  PROVE  Sound(HandleVpnMessage(c, m))
  BY CollectStep, CheckStep, HandoffStep

-----------------------------------------------------------------------------
(* What a message may change.                                              *)

\* The rung of SupportLadder a context stands on.
RungOf(c) == IF c.state = "VPN_HANDOFF" THEN "closed"
             ELSE CASE c.attempt_count = 0 -> "describing"
                    [] c.attempt_count = 1 -> "first_try"
                    [] OTHER               -> "second_try"

\* One rung up, or back to the start, or nowhere.
Climbs(c, n) ==
  \/ RungOf(n) = RungOf(c)
  \/ RungOf(c) = "describing" /\ RungOf(n) = "first_try"
  \/ RungOf(c) = "first_try"  /\ RungOf(n) \in {"second_try", "describing"}
  \/ RungOf(c) = "second_try" /\ RungOf(n) \in {"closed", "describing"}

LEMMA FlowClimbs ==
  ASSUME NEW c, Sound(c), NEW m \in VpnMessage
  PROVE  Climbs(c, HandleVpnMessage(c, m))
<1> DEFINE n == HandleVpnMessage(c, m)
<1>1. CASE c.state \notin {"VPN_CHECK_RESULT", "VPN_HANDOFF"}
  <2>1. RungOf(c) = "describing"
    BY <1>1 DEF Sound, StepsFit, RungOf
  <2>2. /\ n.state # "VPN_HANDOFF"
        /\ n.attempt_count = IF n.state = "VPN_CHECK_RESULT" THEN 1 ELSE 0
    BY <1>1, CollectStep
  <2> HIDE DEF n
  <2>3. RungOf(n) \in {"describing", "first_try"}
    BY <2>2 DEF RungOf
  <2>4. QED BY <2>1, <2>3 DEF Climbs, n
<1>2. CASE c.state = "VPN_CHECK_RESULT"
  <2>1. IF m.success THEN n.state = "VPN_START" /\ n.attempt_count = 0
        ELSE IF ~m.failure THEN n = c
        ELSE IF c.attempt_count = 1
        THEN n.state = "VPN_CHECK_RESULT" /\ n.attempt_count = 2
        ELSE c.attempt_count = 2 /\ n = [c EXCEPT !.state = "VPN_HANDOFF"]
    BY <1>2, CheckStep
  <2>2. c \in VpnContext /\ c.attempt_count \in {1, 2}
    BY <1>2 DEF Sound, Rounds
  <2> HIDE DEF n
  <2>3. RungOf(c) = IF c.attempt_count = 1 THEN "first_try" ELSE "second_try"
    BY <1>2, <2>2 DEF RungOf
  <2>4. CASE m.success
    <3>1. RungOf(n) = "describing"
      BY <2>1, <2>4 DEF RungOf
    <3>2. QED BY <2>3, <3>1 DEF Climbs, n
  <2>5. CASE ~m.success /\ ~m.failure
    BY <2>1, <2>5 DEF Climbs, n
  <2>6. CASE ~m.success /\ m.failure /\ c.attempt_count = 1
    <3>1. RungOf(n) = "second_try"
      BY <2>1, <2>6 DEF RungOf
    <3>2. QED BY <2>3, <2>6, <3>1 DEF Climbs, n
  <2>7. CASE ~m.success /\ m.failure /\ c.attempt_count # 1
    <3>1. n.state = "VPN_HANDOFF"
      BY <2>1, <2>2, <2>7 DEF VpnContext
    <3>2. RungOf(n) = "closed"
      BY <3>1 DEF RungOf
    <3>3. QED BY <2>3, <2>7, <3>2 DEF Climbs, n
  <2>8. QED BY <2>4, <2>5, <2>6, <2>7
<1>3. CASE c.state = "VPN_HANDOFF"
  BY <1>3, HandoffStep DEF Climbs
<1>4. QED BY <1>1, <1>2, <1>3

\* What is known of the machine stays, and only a success forgets the error.
KeepsFacts(c, n) ==
  /\ \A f \in {"os", "client", "symptom"} : c[f] # None => n[f] = c[f]
  /\ c.error_code # None /\ n.error_code = None =>
       c.state = "VPN_CHECK_RESULT" /\ n.state = "VPN_START"

LEMMA FlowKeepsFacts ==
  ASSUME NEW c \in VpnContext, NEW m \in VpnMessage
  PROVE  KeepsFacts(c, HandleVpnMessage(c, m))
<1> DEFINE e == Extract(c, m)
           n == HandleVpnMessage(c, m)
<1>1. /\ e \in VpnContext /\ e.state = c.state
      /\ c.os # None => e.os = c.os
      /\ c.client # None => e.client = c.client
      /\ c.symptom # None => e.symptom = c.symptom
      /\ c.error_code # None => e.error_code = c.error_code
  <2>1. /\ e.os = Keep(c.os, m.os) /\ e.client = Keep(c.client, m.client)
        /\ e.symptom = Keep(c.symptom, m.symptom)
        /\ e.error_code = Keep(c.error_code, m.code)
    BY DEF Extract, VpnContext
  <2>2. QED BY <2>1, ExtractFacts DEF Keep
<1> HIDE DEF e
<1>2. CASE c.state = "VPN_HANDOFF"
  BY <1>2, HandoffStep DEF KeepsFacts
<1>3. CASE c.state = "VPN_CHECK_RESULT"
  <2>1. n = CheckResult(e, m)
    BY <1>3 DEF HandleVpnMessage, e
  <2>2. CASE m.success
    <3>1. n = Solved(e)
      BY <2>1, <2>2 DEF CheckResult
    <3>2. /\ Solved(e).os = e.os /\ Solved(e).client = e.client
          /\ Solved(e).symptom = e.symptom /\ Solved(e).state = "VPN_START"
      BY <1>1 DEF Solved, VpnContext
    <3>3. QED BY <1>1, <1>3, <3>1, <3>2 DEF KeepsFacts
  <2>3. CASE ~m.success /\ ~m.failure
    <3>1. n = e
      BY <2>1, <2>3 DEF CheckResult
    <3>2. QED BY <1>1, <3>1 DEF KeepsFacts
  <2>4. CASE ~m.success /\ m.failure /\ e.attempt_count >= 2
    <3> DEFINE h == [e EXCEPT !.state = "VPN_HANDOFF"]
    <3>1. n = h
      BY <2>1, <2>4 DEF CheckResult
    <3>2. /\ h.os = e.os /\ h.client = e.client
          /\ h.symptom = e.symptom /\ h.error_code = e.error_code
      BY <1>1 DEF VpnContext
    <3>3. QED BY <1>1, <3>1, <3>2 DEF KeepsFacts
  <2>5. CASE ~m.success /\ m.failure /\ ~(e.attempt_count >= 2)
    <3> DEFINE k == Keep(m.code, e.error_code)
               g == [e EXCEPT !.error_code = k]
    <3>1. n = GiveSteps(g)
      BY <2>1, <2>5 DEF CheckResult
    <3>2. k \in Codes \cup {None} /\ (e.error_code # None => k # None)
      BY <1>1 DEF Keep, VpnContext, VpnMessage
    <3> HIDE DEF k
    <3>3. /\ g \in VpnContext /\ g.os = e.os /\ g.client = e.client
          /\ g.symptom = e.symptom /\ g.error_code = k
      BY <1>1, <3>2 DEF VpnContext
    <3> HIDE DEF g
    <3>4. /\ n.os = g.os /\ n.client = g.client /\ n.symptom = g.symptom
          /\ n.error_code = g.error_code
      BY <3>1, <3>3 DEF GiveSteps, VpnContext
    <3>5. QED BY <1>1, <3>2, <3>3, <3>4 DEF KeepsFacts
  <2>6. QED BY <2>2, <2>3, <2>4, <2>5
<1>4. CASE c.state \notin {"VPN_CHECK_RESULT", "VPN_HANDOFF"}
  <2> DEFINE q == FirstOpen(e, IF m.success \/ m.failure THEN Questions ELSE Ahead(e.state))
             l == IF e.state = "VPN_START" /\ ~m.success /\ ~m.failure
                  THEN e.last_question ELSE "none"
             g == [e EXCEPT !.last_question = l]
  <2>1. n = IF q # "none" THEN Ask(e, q) ELSE GiveSteps(g)
    BY <1>4 DEF HandleVpnMessage, Collect, e
  <2>2. l \in Questions \cup {"none"}
    BY <1>1 DEF VpnContext
  <2> HIDE DEF q, l
  <2>3. /\ Ask(e, q).os = e.os /\ Ask(e, q).client = e.client
        /\ Ask(e, q).symptom = e.symptom /\ Ask(e, q).error_code = e.error_code
    BY <1>1 DEF Ask, VpnContext
  <2>4. /\ GiveSteps(g).os = e.os /\ GiveSteps(g).client = e.client
        /\ GiveSteps(g).symptom = e.symptom /\ GiveSteps(g).error_code = e.error_code
    BY <1>1, <2>2 DEF GiveSteps, VpnContext
  <2>5. /\ n.os = e.os /\ n.client = e.client
        /\ n.symptom = e.symptom /\ n.error_code = e.error_code
    BY <2>1, <2>3, <2>4
  <2>6. QED BY <1>1, <2>5 DEF KeepsFacts
<1>5. QED BY <1>2, <1>3, <1>4
=============================================================================
