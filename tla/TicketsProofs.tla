---------------------------- MODULE TicketsProofs ----------------------------
(***************************************************************************)
(* For every set of workers, emails, settings, responses, tenants and      *)
(* configurations, and for labels and tags of any number: a rejected reply *)
(* leaves no trace, a ticket says what its case says, and its labels are   *)
(* the ones that its tags and one configuration of its time ask for.  What *)
(* the loops over labels and tags compute is shown along their runs.       *)
(***************************************************************************)
EXTENDS Tickets, WellFoundedInduction, FiniteSetTheorems, TLAPS

Steps   == {"classify", "park", "preview", "lookup", "rebuild"}
Cased   == {"park", "preview", "lookup", "rebuild", "answered"}
Located == {"classify", "park", "preview", "rebuild"}

\* The fields that the record of a request has at each of its steps.
Shaped(r) ==
  /\ r.pc \in {"idle", "answered"} \cup Steps
  /\ r.pc \in Steps     => {"pc", "mid", "tenant", "seen"} \subseteq DOMAIN r
  /\ r.pc \in Cased     => "case" \in DOMAIN r
  /\ r.pc \in Located   => "config" \in DOMAIN r
  /\ r.pc = "classify"  => "text" \in DOMAIN r

\* A case was read from its text and the accepted part of its offer.
WellRead(case) == case.reading = Read(case.text, Accepted(case.offer))

\* The configuration a request looked up, or is about to, is one it has seen.
ConfigSeen(r) ==
  /\ r.pc \in Located                => r.config \in r.seen
  /\ r.pc \in {"preview", "rebuild"} => r.config # Unknown
  /\ r.pc = "lookup"                 => ConfigOf(r.tenant) \in r.seen

Traceless(r) ==
  r.pc = "answered" /\ Accepted(r.case.offer) = Nothing => r.reading = ReadText(r.case.text)

\* The summary a preview of the case leaves.
Final(case) == [Said(case) EXCEPT !.tags = InternalTags(Said(case))]

SaysCase(r) ==
  r.pc = "answered" /\ r.ticket # Nothing =>
    /\ r.reading.summary = Final(r.case)
    /\ \E c \in r.seen \ {Unknown} : r.ticket = Ticket(r.reading.summary, c)

Served(r) == /\ Shaped(r) /\ ConfigSeen(r) /\ Traceless(r) /\ SaysCase(r)
             /\ r.pc \in Cased => WellRead(r.case)

IInv ==
  /\ DOMAIN req = Workers /\ DOMAIN pending = Mids /\ DOMAIN config = Tenants
  /\ \A w \in Workers : Served(req[w])
  /\ \A m \in Mids : pending[m] # Nothing => WellRead(pending[m])

-----------------------------------------------------------------------------
(* What a preview makes of a case.                                         *)

\* The tags of a summary depend on what else it says, not on tags it carries.
LEMMA Retag ==
  ASSUME NEW c, NEW sy, NEW co, NEW t1, NEW t2
  PROVE  LET b1 == [category |-> c, symptom |-> sy, code |-> co, tags |-> t1]
             b2 == [category |-> c, symptom |-> sy, code |-> co, tags |-> t2]
         IN  /\ AttachInternalTags(b1) = AttachInternalTags(b2)
             /\ AttachInternalTags(b1) = [category |-> c, symptom |-> sy, code |-> co,
                                          tags |-> InternalTags(b2)]
<1> DEFINE b1 == [category |-> c, symptom |-> sy, code |-> co, tags |-> t1]
           b2 == [category |-> c, symptom |-> sy, code |-> co, tags |-> t2]
<1>1. InternalTags(b1) = InternalTags(b2)
  BY DEF InternalTags
<1> HIDE DEF b1, b2
<1>2. AttachInternalTags(b1) = [category |-> c, symptom |-> sy, code |-> co, tags |-> InternalTags(b2)]
  BY <1>1 DEF AttachInternalTags, b1
<1>3. AttachInternalTags(b2) = [category |-> c, symptom |-> sy, code |-> co, tags |-> InternalTags(b2)]
  BY DEF AttachInternalTags, b2
<1> QED BY <1>2, <1>3 DEF b1, b2

\* What a case says is a summary of four fields.
LEMMA SaidFields ==
  ASSUME NEW case
  PROVE  \E c, sy, co : Said(case) = [category |-> c, symptom |-> sy, code |-> co, tags |-> <<>>]
<1>1. \A x, i : \E c, sy, co :
        BuildSummary(x, i) = [category |-> c, symptom |-> sy, code |-> co, tags |-> <<>>]
  BY DEF BuildSummary
<1>2. \A s, reply, c, sy, co :
        s = [category |-> c, symptom |-> sy, code |-> co, tags |-> <<>>] =>
          \E sy2, co2 : Enrich(s, reply) = [category |-> c, symptom |-> sy2, code |-> co2, tags |-> <<>>]
  <2> TAKE s, reply, c, sy, co
  <2> HAVE s = [category |-> c, symptom |-> sy, code |-> co, tags |-> <<>>]
  <2> DEFINE sy2 == IF sy = Null THEN reply.symptom ELSE sy
             co2 == IF co = Null THEN reply.code ELSE co
  <2>1. CASE c # "VPN_ISSUE"
    BY <2>1 DEF Enrich
  <2>2. CASE c = "VPN_ISSUE"
    <3>1. Enrich(s, reply) = [[s EXCEPT !.symptom = sy2] EXCEPT !.code = co2]
      BY <2>2 DEF Enrich
    <3>2. [s EXCEPT !.symptom = sy2] = [category |-> c, symptom |-> sy2, code |-> co, tags |-> <<>>]
      OBVIOUS
    <3> HIDE DEF sy2, co2
    <3>3. Enrich(s, reply) = [category |-> c, symptom |-> sy2, code |-> co2, tags |-> <<>>]
      BY <3>1, <3>2
    <3> QED BY <3>3
  <2> QED BY <2>1, <2>2
<1>3. CASE Accepted(case.offer) = Nothing
  BY <1>1, <1>3 DEF Said
<1>4. CASE Accepted(case.offer) # Nothing
  <2> DEFINE reply == Accepted(case.offer)
             s     == BuildSummary(case.text, reply.intent)
  <2>1. PICK c, sy, co : s = [category |-> c, symptom |-> sy, code |-> co, tags |-> <<>>]
    BY <1>1
  <2>2. PICK sy2, co2 :
          Enrich(s, reply) = [category |-> c, symptom |-> sy2, code |-> co2, tags |-> <<>>]
    <3> HIDE DEF s, reply
    <3> QED BY <1>2, <2>1
  <2>3. Said(case) = Enrich(s, reply)
    BY <1>4 DEF Said
  <2> QED BY <2>2, <2>3
<1> QED BY <1>3, <1>4

\* A preview of a case that was well read says what the case says; without a
\* reply it changes nothing.
LEMMA PreviewOfCase ==
  ASSUME NEW case, WellRead(case)
  PROVE  LET s == AttachInternalTags(case.reading.summary)
         IN  /\ s = Final(case)
             /\ Accepted(case.offer) = Nothing =>
                  /\ case.reading = ReadText(case.text)
                  /\ [case.reading EXCEPT !.summary = s] = ReadText(case.text)
                  /\ [case.reading EXCEPT !.tags = s.tags, !.summary = s] = ReadText(case.text)
<1> DEFINE s == AttachInternalTags(case.reading.summary)
           said == Said(case)
<1>1. PICK c, sy, co : said = [category |-> c, symptom |-> sy, code |-> co, tags |-> <<>>]
  BY SaidFields
<1>2. Final(case) = [category |-> c, symptom |-> sy, code |-> co, tags |-> InternalTags(said)]
  BY <1>1 DEF Final
<1>3. AttachInternalTags(said) = Final(case)
  BY <1>1, <1>2, Retag
<1>4. ASSUME Accepted(case.offer) = Nothing
      PROVE  /\ case.reading = [intent |-> case.text.intent, confidence |-> case.text.confidence,
                                tags |-> Final(case).tags, summary |-> Final(case)]
             /\ case.reading = ReadText(case.text)
  BY <1>3, <1>4 DEF WellRead, Read, ReadText, Said
<1>5. ASSUME Accepted(case.offer) # Nothing
      PROVE  \E t : case.reading.summary = [Final(case) EXCEPT !.tags = t]
  <2> DEFINE reply == Accepted(case.offer)
             tags  == MergeTags(Final(case).tags, reply)
  <2>1. said = Enrich(BuildSummary(case.text, reply.intent), reply)
    BY <1>5 DEF Said
  <2>2. case.reading = ReadReply(case.text, reply)
    BY <1>5 DEF WellRead, Read
  <2>3. ReadReply(case.text, reply)
          = [intent |-> reply.intent, confidence |-> reply.confidence, tags |-> tags,
             summary |-> [Final(case) EXCEPT !.tags = tags]]
    BY <1>3, <2>1 DEF ReadReply
  <2>4. case.reading.summary = [Final(case) EXCEPT !.tags = tags]
    <3> HIDE DEF tags, reply
    <3> QED BY <2>2, <2>3
  <2> QED BY <2>4
<1>6. \E t : case.reading.summary = [category |-> c, symptom |-> sy, code |-> co, tags |-> t]
  <2>1. CASE Accepted(case.offer) = Nothing
    <3>1. case.reading.summary = Final(case)
      BY <1>4, <2>1
    <3> QED BY <1>2, <3>1
  <2>2. CASE Accepted(case.offer) # Nothing
    <3>1. PICK t : case.reading.summary = [Final(case) EXCEPT !.tags = t]
      BY <1>5, <2>2
    <3>2. [Final(case) EXCEPT !.tags = t] = [category |-> c, symptom |-> sy, code |-> co, tags |-> t]
      BY <1>2
    <3> QED BY <3>1, <3>2
  <2> QED BY <2>1, <2>2
<1>7. s = Final(case)
  BY <1>1, <1>2, <1>6, Retag
<1>8. ASSUME Accepted(case.offer) = Nothing
      PROVE  /\ [case.reading EXCEPT !.summary = s] = case.reading
             /\ [case.reading EXCEPT !.tags = s.tags, !.summary = s] = case.reading
  <2> DEFINE F == Final(case)
             r == case.reading
  <2>1. r = [intent |-> case.text.intent, confidence |-> case.text.confidence,
             tags |-> F.tags, summary |-> F]
    BY <1>4, <1>8
  <2>2. s = F
    BY <1>7
  <2> HIDE DEF F, s, r
  <2>3. [r EXCEPT !.summary = F] = r
    BY <2>1
  <2>4. [r EXCEPT !.tags = F.tags] = r
    BY <2>1
  <2>5. [r EXCEPT !.tags = F.tags, !.summary = F] = [[r EXCEPT !.tags = F.tags] EXCEPT !.summary = F]
    OBVIOUS
  <2> QED BY <2>2, <2>3, <2>4, <2>5 DEF r
<1> QED BY <1>4, <1>7, <1>8

\* What was read is a record of four fields.
LEMMA ReadingFields ==
  ASSUME NEW case, WellRead(case)
  PROVE  \E i, n, t, s : case.reading = [intent |-> i, confidence |-> n, tags |-> t, summary |-> s]
<1>1. CASE Accepted(case.offer) = Nothing
  BY <1>1 DEF WellRead, Read, ReadText
<1>2. CASE Accepted(case.offer) # Nothing
  BY <1>2 DEF WellRead, Read, ReadReply
<1> QED BY <1>1, <1>2

-----------------------------------------------------------------------------
(* Steps.                                                                  *)

\* The environment is the same after a step that edits no tenant, so a record
\* is as good after it as before.
LEMMA SameServed ==
  ASSUME llm' = llm, config' = config, NEW CONSTANT r
  PROVE  /\ Served(r) => Served(r)'
         /\ WellRead(r) => WellRead(r)'
<1>1. \A offer : Accepted(offer)' = Accepted(offer)
  BY DEF Accepted, MinConfidence
<1>2. \A case : WellRead(case)' <=> WellRead(case)
  BY <1>1 DEF WellRead, Read
<1>3. \A case : Said(case)' = Said(case)
  BY <1>1 DEF Said
<1>4. \A t : ConfigOf(t)' = ConfigOf(t)
  BY DEF ConfigOf
<1> QED BY <1>1, <1>2, <1>3, <1>4 DEF Served, ConfigSeen, Traceless, SaysCase, Final

\* A worker's record is replaced by a good one, and what is stored is good.
LEMMA Replaced ==
  ASSUME IInv, NEW w \in Workers, NEW CONSTANT r, Served(r),
         req' = [req EXCEPT ![w] = r], llm' = llm, config' = config,
         DOMAIN pending' = Mids,
         \A m \in Mids : pending'[m] # Nothing => WellRead(pending'[m])
  PROVE  IInv'
<1>1. DOMAIN req' = Workers
  BY DEF IInv
<1>2. \A v \in Workers : Served(req[v])'
  <2> TAKE v \in Workers
  <2>1. PICK x : x = req'[v]
    OBVIOUS
  <2>2. Served(x)
    <3>1. CASE v = w
      BY <2>1, <3>1 DEF IInv
    <3>2. CASE v # w
      BY <2>1, <3>2 DEF IInv
    <3> QED BY <3>1, <3>2
  <2>3. Served(x)'
    BY <2>2, SameServed
  <2> QED BY <2>1, <2>3
<1>3. \A m \in Mids : pending'[m] # Nothing => WellRead(pending[m])'
  <2> TAKE m \in Mids
  <2> HAVE pending'[m] # Nothing
  <2>1. PICK x : x = pending'[m]
    OBVIOUS
  <2>2. WellRead(x)'
    BY <2>1, SameServed
  <2> QED BY <2>1, <2>2
<1> QED BY <1>1, <1>2, <1>3 DEF IInv

\* What is in the store stays good when a good case is put or a record cleared.
LEMMA Stored ==
  ASSUME IInv, NEW m \in Mids, NEW CONSTANT case, Store(m, case),
         case = Nothing \/ WellRead(case)
  PROVE  /\ DOMAIN pending' = Mids
         /\ \A n \in Mids : pending'[n] # Nothing => WellRead(pending'[n])
<1>1. CASE pending' = pending
  BY <1>1 DEF IInv
<1>2. CASE pending' = [pending EXCEPT ![m] = case]
  <2>1. DOMAIN pending' = Mids
    BY <1>2 DEF IInv
  <2>2. \A n \in Mids : pending'[n] = case \/ pending'[n] = pending[n]
    BY <1>2 DEF IInv
  <2> QED BY <2>1, <2>2 DEF IInv
<1> QED BY <1>1, <1>2 DEF Store

\* A request is sent: an ingestion, or a resolution of what is pending.
LEMMA IngestKeeps ==
  ASSUME IInv, NEW w \in Workers, Ingest(w)
  PROVE  IInv'
<1>1. PICK m \in Mids, x \in Texts, t \in Tenants \cup {Nobody} :
        Send(w, [pc |-> "classify", mid |-> m, text |-> x, tenant |-> t,
                 config |-> ConfigOf(t), seen |-> {ConfigOf(t)}])
  BY DEF Ingest
<1> DEFINE r == [pc |-> "classify", mid |-> m, text |-> x, tenant |-> t,
                 config |-> ConfigOf(t), seen |-> {ConfigOf(t)}]
<1>2. Served(r)
  BY DEF Served, Shaped, ConfigSeen, Traceless, SaysCase, Steps, Cased, Located
<1>3. /\ req' = [req EXCEPT ![w] = r] /\ llm' = llm /\ config' = config
      /\ pending' = pending
  BY <1>1 DEF Send
<1> HIDE DEF r
<1>4. \A n \in Mids : pending'[n] # Nothing => WellRead(pending'[n])
  BY <1>3 DEF IInv
<1>5. DOMAIN pending' = Mids
  BY <1>3 DEF IInv
<1> QED BY <1>2, <1>3, <1>4, <1>5, Replaced

LEMMA ResolveKeeps ==
  ASSUME IInv, NEW w \in Workers, Resolve(w)
  PROVE  IInv'
<1>1. PICK m \in Mids, t \in Tenants \cup {Nobody} :
        /\ pending[m] # Nothing
        /\ Send(w, [pc |-> "lookup", mid |-> m, tenant |-> t, case |-> pending[m],
                    seen |-> {ConfigOf(t)}])
  BY DEF Resolve
<1> DEFINE r == [pc |-> "lookup", mid |-> m, tenant |-> t, case |-> pending[m],
                 seen |-> {ConfigOf(t)}]
<1>2. WellRead(pending[m])
  BY <1>1 DEF IInv
<1>3. Served(r)
  BY <1>2 DEF Served, Shaped, ConfigSeen, Traceless, SaysCase, Steps, Cased, Located
<1>4. /\ req' = [req EXCEPT ![w] = r] /\ llm' = llm /\ config' = config
      /\ pending' = pending
  BY <1>1 DEF Send
<1> HIDE DEF r
<1>5. \A n \in Mids : pending'[n] # Nothing => WellRead(pending'[n])
  BY <1>4 DEF IInv
<1>6. DOMAIN pending' = Mids
  BY <1>4 DEF IInv
<1> QED BY <1>3, <1>4, <1>5, <1>6, Replaced

\* The email is read as WellRead says; whether it is parked depends on the
\* configuration looked up.
LEMMA ClassifyKeeps ==
  ASSUME IInv, NEW w \in Workers, Classify(w)
  PROVE  IInv'
<1> DEFINE q == req[w]
<1>1. PICK offer \in Offers(q.text) : req' = [req EXCEPT ![w] =
        [pc |-> IF q.config = Unknown THEN "park" ELSE "preview", mid |-> q.mid,
         tenant |-> q.tenant, config |-> q.config, seen |-> q.seen,
         case |-> [text |-> q.text, offer |-> offer, candidate |-> q.tenant,
                   reading |-> Read(q.text, Accepted(offer))]]]
  BY DEF Classify
<1> DEFINE case == [text |-> q.text, offer |-> offer, candidate |-> q.tenant,
                    reading |-> Read(q.text, Accepted(offer))]
           r == [pc |-> IF q.config = Unknown THEN "park" ELSE "preview", mid |-> q.mid,
                 tenant |-> q.tenant, config |-> q.config, seen |-> q.seen, case |-> case]
<1>2. WellRead(case)
  BY DEF WellRead
<1>3. q.config \in q.seen
  BY DEF Classify, At, IInv, Served, ConfigSeen, Located
<1>4. req' = [req EXCEPT ![w] = r]
  BY <1>1
<1> HIDE DEF case, q
<1>5. Served(r)
  BY <1>2, <1>3 DEF Served, Shaped, ConfigSeen, Traceless, SaysCase, Steps, Cased, Located
<1> HIDE DEF r
<1>6. llm' = llm /\ config' = config /\ pending' = pending
  BY DEF Classify
<1>7. \A n \in Mids : pending'[n] # Nothing => WellRead(pending'[n])
  BY <1>6 DEF IInv
<1>8. DOMAIN pending' = Mids
  BY <1>6 DEF IInv
<1> QED BY <1>4, <1>5, <1>6, <1>7, <1>8, Replaced

\* An answer to a well-read case: the reading as it is and no ticket, or as a
\* preview leaves it, with a ticket under a configuration seen.
LEMMA AnswerServed ==
  ASSUME IInv, NEW w \in Workers, req[w].pc \in Cased,
         NEW CONSTANT reading, NEW CONSTANT ticket,
         Accepted(req[w].case.offer) = Nothing => reading = ReadText(req[w].case.text),
         ticket # Nothing =>
           /\ reading.summary = Final(req[w].case)
           /\ \E c \in req[w].seen \ {Unknown} : ticket = Ticket(reading.summary, c)
  PROVE  Served([pc |-> "answered", tenant |-> req[w].tenant, case |-> req[w].case,
                 seen |-> req[w].seen, reading |-> reading, ticket |-> ticket])
<1> DEFINE q == req[w]
           r == [pc |-> "answered", tenant |-> q.tenant, case |-> q.case,
                 seen |-> q.seen, reading |-> reading, ticket |-> ticket]
<1>1. WellRead(q.case)
  BY DEF IInv, Served
<1> HIDE DEF q
<1>2. Shaped(r) /\ ConfigSeen(r)
  BY DEF Shaped, ConfigSeen, Steps, Cased, Located
<1>3. Traceless(r)
  BY DEF Traceless, q
<1>4. SaysCase(r)
  BY DEF SaysCase, q
<1> QED BY <1>1, <1>2, <1>3, <1>4 DEF Served, q

\* A reading answered as it is, without a ticket: parking and a failed lookup.
LEMMA UntouchedKeeps ==
  ASSUME IInv, NEW w \in Workers, req[w].pc \in {"park", "lookup"},
         Store(req[w].mid, req[w].case), Answer(w, req[w].case.reading, Nothing),
         llm' = llm, config' = config
  PROVE  IInv'
<1>1. req[w].pc \in Cased
  BY DEF Cased
<1>2. WellRead(req[w].case)
  BY <1>1 DEF IInv, Served
<1>3. Accepted(req[w].case.offer) = Nothing => req[w].case.reading = ReadText(req[w].case.text)
  BY <1>2 DEF WellRead, Read
<1>4. PICK r : r = [pc |-> "answered", tenant |-> req[w].tenant, case |-> req[w].case,
                    seen |-> req[w].seen, reading |-> req[w].case.reading, ticket |-> Nothing]
  OBVIOUS
<1>5. Served(r)
  BY <1>1, <1>3, <1>4, AnswerServed
<1>6. req' = [req EXCEPT ![w] = r]
  BY <1>4 DEF Answer
<1>7. /\ DOMAIN pending' = Mids
      /\ \A n \in Mids : pending'[n] # Nothing => WellRead(pending'[n])
  <2>1. CASE req[w].mid \in Mids
    BY <1>2, <2>1, Stored
  <2>2. CASE req[w].mid \notin Mids
    BY <2>2 DEF Store, IInv
  <2> QED BY <2>1, <2>2
<1> QED BY <1>5, <1>6, <1>7, Replaced

LEMMA PreviewKeeps ==
  ASSUME IInv, NEW w \in Workers, Preview(w)
  PROVE  IInv'
<1> DEFINE read == req[w].case.reading
           s    == AttachInternalTags(read.summary)
<1>1. req[w].pc = "preview" /\ req[w].pc \in Cased /\ req[w].pc \in Located
  BY DEF Preview, At, Cased, Located
<1>2. WellRead(req[w].case) /\ req[w].config \in req[w].seen \ {Unknown}
  BY <1>1 DEF IInv, Served, ConfigSeen
<1>3. /\ s = Final(req[w].case)
      /\ Accepted(req[w].case.offer) = Nothing =>
           [read EXCEPT !.summary = s] = ReadText(req[w].case.text)
  BY <1>2, PreviewOfCase
<1>4. [read EXCEPT !.summary = s].summary = s
  BY <1>2, ReadingFields
<1>5. PICK reading, ticket : reading = [read EXCEPT !.summary = s]
                          /\ ticket = Ticket(s, req[w].config)
  OBVIOUS
<1>6. PICK r : r = [pc |-> "answered", tenant |-> req[w].tenant, case |-> req[w].case,
                    seen |-> req[w].seen, reading |-> reading, ticket |-> ticket]
  OBVIOUS
<1>7. Served(r)
  <2>1. Accepted(req[w].case.offer) = Nothing => reading = ReadText(req[w].case.text)
    BY <1>3, <1>5
  <2>2. reading.summary = Final(req[w].case)
    BY <1>3, <1>4, <1>5
  <2>3. \E c \in req[w].seen \ {Unknown} : ticket = Ticket(reading.summary, c)
    BY <1>2, <1>4, <1>5
  <2> HIDE DEF read, s
  <2> QED BY <1>1, <1>6, <2>1, <2>2, <2>3, AnswerServed
<1>8. /\ req' = [req EXCEPT ![w] = r] /\ llm' = llm /\ config' = config
      /\ pending' = pending
  BY <1>5, <1>6 DEF Preview, Answer
<1>9. /\ DOMAIN pending' = Mids
      /\ \A n \in Mids : pending'[n] # Nothing => WellRead(pending'[n])
  BY <1>8 DEF IInv
<1> QED BY <1>7, <1>8, <1>9, Replaced

LEMMA PreviewFromPendingKeeps ==
  ASSUME IInv, NEW w \in Workers, PreviewFromPending(w)
  PROVE  IInv'
<1> DEFINE read == req[w].case.reading
           s    == AttachInternalTags(read.summary)
           said == [read EXCEPT !.tags = s.tags, !.summary = s]
<1>1. req[w].pc = "rebuild" /\ req[w].pc \in Cased /\ req[w].pc \in Located
  BY DEF PreviewFromPending, At, Cased, Located
<1>2. WellRead(req[w].case) /\ req[w].config \in req[w].seen \ {Unknown}
  BY <1>1 DEF IInv, Served, ConfigSeen
<1>3. /\ s = Final(req[w].case)
      /\ Accepted(req[w].case.offer) = Nothing => said = ReadText(req[w].case.text)
  BY <1>2, PreviewOfCase
<1>4. said.summary = s
  BY <1>2, ReadingFields
<1>5. PICK reading, ticket : reading = said /\ ticket = Ticket(s, req[w].config)
  OBVIOUS
<1>6. PICK r : r = [pc |-> "answered", tenant |-> req[w].tenant, case |-> req[w].case,
                    seen |-> req[w].seen, reading |-> reading, ticket |-> ticket]
  OBVIOUS
<1>7. Served(r)
  <2>1. Accepted(req[w].case.offer) = Nothing => reading = ReadText(req[w].case.text)
    BY <1>3, <1>5
  <2>2. reading.summary = Final(req[w].case)
    BY <1>3, <1>4, <1>5
  <2>3. \E c \in req[w].seen \ {Unknown} : ticket = Ticket(reading.summary, c)
    BY <1>2, <1>4, <1>5
  <2> HIDE DEF read, s, said
  <2> QED BY <1>1, <1>6, <2>1, <2>2, <2>3, AnswerServed
<1>8. /\ req' = [req EXCEPT ![w] = r] /\ llm' = llm /\ config' = config
      /\ Store(req[w].mid, Nothing)
  BY <1>5, <1>6 DEF PreviewFromPending, Answer
<1>9. /\ DOMAIN pending' = Mids
      /\ \A n \in Mids : pending'[n] # Nothing => WellRead(pending'[n])
  <2>1. CASE req[w].mid \in Mids
    BY <1>8, <2>1, Stored
  <2>2. CASE req[w].mid \notin Mids
    BY <1>8, <2>2 DEF Store, IInv
  <2> QED BY <2>1, <2>2
<1> QED BY <1>7, <1>8, <1>9, Replaced

LEMMA FindTenantKeeps ==
  ASSUME IInv, NEW w \in Workers, FindTenant(w)
  PROVE  IInv'
<1>1. /\ req[w].pc = "lookup" /\ req[w].pc \in Cased
      /\ ConfigOf(req[w].tenant) # Unknown
  BY DEF FindTenant, At, Cased
<1>2. WellRead(req[w].case) /\ ConfigOf(req[w].tenant) \in req[w].seen
  BY <1>1 DEF IInv, Served, ConfigSeen
<1>3. PICK r : r = [pc |-> "rebuild", mid |-> req[w].mid, tenant |-> req[w].tenant,
                    case |-> req[w].case, seen |-> req[w].seen,
                    config |-> ConfigOf(req[w].tenant)]
  OBVIOUS
<1>4. Served(r)
  BY <1>1, <1>2, <1>3
  DEF Served, Shaped, ConfigSeen, Traceless, SaysCase, Steps, Cased, Located
<1>5. /\ req' = [req EXCEPT ![w] = r] /\ llm' = llm /\ config' = config
      /\ pending' = pending
  BY <1>3 DEF FindTenant
<1>6. /\ DOMAIN pending' = Mids
      /\ \A n \in Mids : pending'[n] # Nothing => WellRead(pending'[n])
  BY <1>5 DEF IInv
<1> QED BY <1>4, <1>5, <1>6, Replaced

LEMMA FinishKeeps ==
  ASSUME IInv, NEW w \in Workers, Finish(w)
  PROVE  IInv'
<1>1. Served(Idle)
  BY DEF Served, Shaped, ConfigSeen, Traceless, SaysCase, Idle, Steps, Cased, Located
<1>2. /\ req' = [req EXCEPT ![w] = Idle] /\ llm' = llm /\ config' = config
      /\ pending' = pending
  BY DEF Finish
<1>3. /\ DOMAIN pending' = Mids
      /\ \A n \in Mids : pending'[n] # Nothing => WellRead(pending'[n])
  BY <1>2 DEF IInv
<1> QED BY <1>1, <1>2, <1>3, Replaced

\* An edit changes what requests under way have seen, which is no part of what
\* they read, and a request that is still to look its tenant up has seen it.
LEMMA EditTenantKeeps ==
  ASSUME IInv, NEW t \in Tenants, EditTenant(t)
  PROVE  IInv'
<1>1. PICK c \in Configs \ {config[t]} :
        /\ config' = [config EXCEPT ![t] = c]
        /\ req' = [w \in Workers |->
                     IF ~At(w, "idle") /\ ~At(w, "answered") /\ req[w].tenant = t
                     THEN [req[w] EXCEPT !.seen = @ \cup {c}] ELSE req[w]]
  BY DEF EditTenant
<1>2. llm' = llm /\ pending' = pending
  BY DEF EditTenant
<1>3. \A case : WellRead(case)' <=> WellRead(case)
  <2>1. \A offer : Accepted(offer)' = Accepted(offer)
    BY <1>2 DEF Accepted, MinConfidence
  <2> QED BY <2>1 DEF WellRead, Read
<1>4. ASSUME NEW w \in Workers PROVE Served(req[w])'
  <2> DEFINE q == req[w]
  <2>1. Served(q)
    BY DEF IInv
  <2>2. CASE ~At(w, "idle") /\ ~At(w, "answered")
    <3>1. q.pc \in Steps
      BY <2>1, <2>2 DEF Served, Shaped, At
    <3>2. /\ req'[w].pc = q.pc /\ req'[w].tenant = q.tenant /\ DOMAIN req'[w] = DOMAIN q
          /\ q.pc \in Cased => req'[w].case = q.case
          /\ q.pc \in Located => req'[w].config = q.config
          /\ q.seen \subseteq req'[w].seen
          /\ q.tenant = t => c \in req'[w].seen
      <4>1. {"pc", "mid", "tenant", "seen"} \subseteq DOMAIN q
        BY <2>1, <3>1 DEF Served, Shaped
      <4>2. /\ q.pc \in Cased => "case" \in DOMAIN q
            /\ q.pc \in Located => "config" \in DOMAIN q
        BY <2>1 DEF Served, Shaped
      <4>3. CASE q.tenant = t
        <5>1. req'[w] = [q EXCEPT !.seen = q.seen \cup {c}]
          BY <1>1, <2>2, <4>3
        <5> HIDE DEF q
        <5>2. req'[w].seen = q.seen \cup {c} /\ DOMAIN req'[w] = DOMAIN q
          BY <4>1, <5>1
        <5>3. /\ req'[w].pc = q.pc /\ req'[w].tenant = q.tenant
              /\ q.pc \in Cased => req'[w].case = q.case
              /\ q.pc \in Located => req'[w].config = q.config
          BY <4>1, <4>2, <5>1
        <5> QED BY <5>2, <5>3
      <4>4. CASE q.tenant # t
        BY <1>1, <4>4
      <4> QED BY <4>3, <4>4
    <3>3. q.pc \in Cased => WellRead(req[w].case)'
      <4> HAVE q.pc \in Cased
      <4>1. PICK case : case = req'[w].case
        OBVIOUS
      <4>2. WellRead(case)
        BY <2>1, <3>2, <4>1 DEF Served
      <4>3. WellRead(case)'
        BY <1>3, <4>2
      <4> QED BY <4>1, <4>3
    <3>4. q.pc = "lookup" => ConfigOf(req[w].tenant)' \in req'[w].seen
      <4>1. CASE q.tenant = t
        BY <1>1, <3>2, <4>1 DEF ConfigOf, IInv
      <4>2. CASE q.tenant # t
        BY <1>1, <2>1, <3>2, <4>2 DEF ConfigOf, IInv, Served, ConfigSeen
      <4> QED BY <4>1, <4>2
    <3>5. Shaped(req[w])'
      BY <2>1, <3>2 DEF Served, Shaped
    <3>6. ConfigSeen(req[w])'
      <4>1. ConfigSeen(q)
        BY <2>1 DEF Served
      <4>2. /\ q.pc \in Located => req'[w].config \in req'[w].seen
            /\ q.pc \in {"preview", "rebuild"} => req'[w].config # Unknown
        BY <3>2, <4>1 DEF ConfigSeen, Located
      <4> QED BY <3>2, <3>4, <4>2 DEF ConfigSeen
    <3>7. q.pc # "answered"
      BY <2>2 DEF At
    <3> QED BY <3>2, <3>3, <3>5, <3>6, <3>7 DEF Served, Traceless, SaysCase
  <2>3. CASE At(w, "idle") \/ At(w, "answered")
    <3>1. req'[w] = q
      BY <1>1, <2>3
    <3>2. PICK x : x = q
      OBVIOUS
    <3>3. Shaped(x)' /\ ConfigSeen(x)' /\ Traceless(x)' /\ SaysCase(x)'
      <4>1. x.pc \notin Located \cup {"preview", "rebuild", "lookup"}
        BY <2>3, <3>2 DEF At, Located
      <4>2. \A offer : Accepted(offer)' = Accepted(offer)
        BY <1>2 DEF Accepted, MinConfidence
      <4>3. \A case : Final(case)' = Final(case)
        BY <4>2 DEF Final, Said
      <4>4. Served(x)
        BY <2>1, <3>2
      <4> QED BY <4>1, <4>2, <4>3, <4>4 DEF Served, Shaped, ConfigSeen, Traceless, SaysCase
    <3>4. x.pc \in Cased => WellRead(x.case)'
      BY <1>3, <2>1, <3>2 DEF Served
    <3>5. Served(x)'
      BY <3>3, <3>4 DEF Served
    <3> QED BY <3>1, <3>2, <3>5
  <2> QED BY <2>2, <2>3
<1>5. \A m \in Mids : pending'[m] # Nothing => WellRead(pending[m])'
  <2> TAKE m \in Mids
  <2> HAVE pending'[m] # Nothing
  <2>1. PICK x : x = pending'[m]
    OBVIOUS
  <2>2. WellRead(x)'
    BY <1>2, <1>3, <2>1 DEF IInv
  <2> QED BY <2>1, <2>2
<1>6. DOMAIN req' = Workers /\ DOMAIN pending' = Mids /\ DOMAIN config' = Tenants
  BY <1>1, <1>2 DEF IInv
<1> QED BY <1>4, <1>5, <1>6 DEF IInv

-----------------------------------------------------------------------------
(* Folds.  FoldLeft recurs over the subsets of a domain; here it becomes a     *)
(* run: a function on 0..n that starts with the base and goes on by the        *)
(* operator.                                                                   *)

LEMMA Induction ==
  ASSUME NEW S, 0 \in S, \A n \in Nat : n \in S => n + 1 \in S
  PROVE  Nat \subseteq S
<1> SUFFICES ASSUME Nat \ S # {} PROVE FALSE
  OBVIOUS
<1>1. PICK n \in Nat \ S : \A m \in Nat \ S : <<m, n>> \notin OpToRel(<, Nat)
  BY NatLessThanWellFounded, WFMin
<1>2. \A m \in Nat \ S : ~(m < n)
  BY <1>1 DEF OpToRel
<1>3. n # 0 /\ n - 1 \in Nat
  OBVIOUS
<1>4. n - 1 \in S
  BY <1>2, <1>3
<1> QED BY <1>3, <1>4

\* The largest index of a set of indices that has the last one.
LEMMA MaxLast ==
  ASSUME NEW n \in Nat, NEW T \in SUBSET (1..(n + 1)), n + 1 \in T
  PROVE  Max(T) = n + 1
<1>1. \A y \in T : n + 1 >= y
  OBVIOUS
<1>2. \A x \in T : (\A y \in T : x >= y) => x = n + 1
  OBVIOUS
<1> QED BY <1>1, <1>2 DEF Max

LEMMA MaxIsIn ==
  ASSUME NEW n \in Nat, NEW T \in SUBSET (1..n), T # {}
  PROVE  Max(T) \in T
<1> DEFINE S == {m \in Nat : \A U \in SUBSET (1..m) : U # {} => Max(U) \in U}
<1>1. 0 \in S
  <2>1. \A U \in SUBSET (1..0) : U = {}
    OBVIOUS
  <2> QED BY <2>1
<1>2. ASSUME NEW m \in Nat, m \in S PROVE m + 1 \in S
  <2> SUFFICES ASSUME NEW U \in SUBSET (1..(m + 1)), U # {} PROVE Max(U) \in U
    OBVIOUS
  <2>1. CASE m + 1 \in U
    BY <2>1, MaxLast
  <2>2. CASE m + 1 \notin U
    <3>1. U \in SUBSET (1..m)
      BY <2>2
    <3> QED BY <1>2, <3>1
  <2> QED BY <2>1, <2>2
<1> HIDE DEF S
<1>3. n \in S
  BY <1>1, <1>2, Induction
<1> QED BY <1>3 DEF S

LEMMA UpTo ==
  ASSUME NEW n \in Nat, NEW S, 0 \in S, \A m \in 0..(n - 1) : m \in S => m + 1 \in S
  PROVE  0..n \subseteq S
<1> DEFINE R == {m \in Nat : m <= n => m \in S}
<1>1. 0 \in R
  OBVIOUS
<1>2. ASSUME NEW m \in Nat, m \in R PROVE m + 1 \in R
  <2> SUFFICES ASSUME m + 1 <= n PROVE m + 1 \in S
    OBVIOUS
  <2>1. m \in 0..(n - 1) /\ m <= n
    OBVIOUS
  <2> QED BY <1>2, <2>1
<1> HIDE DEF R
<1>3. Nat \subseteq R
  BY <1>1, <1>2, Induction
<1>4. \A m \in 0..n : m \in Nat /\ m <= n
  OBVIOUS
<1> QED BY <1>3, <1>4 DEF R

Solves(g, Y, base, step, m) ==
  /\ g \in [SUBSET (1..m) -> Y]
  /\ \A T \in SUBSET (1..m) :
       g[T] = IF T = {} THEN base ELSE step[<<g[T \ {Max(T)}], Max(T)>>]

\* There is a function that satisfies the equation of FoldLeft, for any step.
LEMMA Iterates ==
  ASSUME NEW Y, NEW base \in Y, NEW n \in Nat, NEW step \in [Y \X (1..n) -> Y]
  PROVE  \E g : Solves(g, Y, base, step, n)
<1> DEFINE S == {m \in Nat : \E g : Solves(g, Y, base, step, m)}
<1>1. 0 \in S
  <2> DEFINE g == [T \in SUBSET (1..0) |-> base]
  <2>1. \A T \in SUBSET (1..0) : T = {}
    OBVIOUS
  <2>2. Solves(g, Y, base, step, 0)
    BY <2>1 DEF Solves
  <2> HIDE DEF g
  <2> QED BY <2>2
<1>2. ASSUME NEW m \in 0..(n - 1), m \in S PROVE m + 1 \in S
  <2>1. PICK old : Solves(old, Y, base, step, m)
    BY <1>2
  <2> DEFINE g == [T \in SUBSET (1..(m + 1)) |->
                     IF m + 1 \in T THEN step[<<old[T \ {m + 1}], m + 1>>] ELSE old[T]]
  <2>2. \A T \in SUBSET (1..(m + 1)) : m + 1 \notin T => T \in SUBSET (1..m)
    OBVIOUS
  <2>3. \A T \in SUBSET (1..(m + 1)) : T \ {m + 1} \in SUBSET (1..m)
    OBVIOUS
  <2>0. m \in Nat /\ m + 1 \in 1..n /\ old \in [SUBSET (1..m) -> Y]
    BY <2>1 DEF Solves
  <2>4. g \in [SUBSET (1..(m + 1)) -> Y]
    <3> SUFFICES ASSUME NEW T \in SUBSET (1..(m + 1))
                 PROVE (IF m + 1 \in T THEN step[<<old[T \ {m + 1}], m + 1>>] ELSE old[T]) \in Y
      OBVIOUS
    <3>1. CASE m + 1 \in T
      <4>1. old[T \ {m + 1}] \in Y
        BY <2>3, <2>0
      <4> QED BY <3>1, <4>1, <2>0
    <3>2. CASE m + 1 \notin T
      BY <2>2, <2>0, <3>2
    <3> QED BY <3>1, <3>2
  <2>5. ASSUME NEW T \in SUBSET (1..(m + 1))
        PROVE  g[T] = IF T = {} THEN base ELSE step[<<g[T \ {Max(T)}], Max(T)>>]
    <3>1. CASE m + 1 \in T
      <4>1. Max(T) = m + 1 /\ T # {}
        BY <3>1, <2>0, MaxLast
      <4>2. g[T \ {m + 1}] = old[T \ {m + 1}]
        BY <2>3
      <4>3. g[T] = step[<<old[T \ {m + 1}], m + 1>>]
        BY <3>1
      <4> HIDE DEF g
      <4> QED BY <4>1, <4>2, <4>3
    <3>2. CASE m + 1 \notin T
      <4>1. T \in SUBSET (1..m)
        BY <2>2, <3>2
      <4>2. T \ {Max(T)} \in SUBSET (1..(m + 1)) /\ m + 1 \notin T \ {Max(T)}
        BY <3>2
      <4>3. g[T] = old[T] /\ g[T \ {Max(T)}] = old[T \ {Max(T)}]
        BY <3>2, <4>2
      <4> HIDE DEF g
      <4> QED BY <2>1, <4>1, <4>3 DEF Solves
    <3> QED BY <3>1, <3>2
  <2> HIDE DEF g
  <2>6. Solves(g, Y, base, step, m + 1)
    BY <2>4, <2>5 DEF Solves
  <2> QED BY <2>6, <2>0
<1> HIDE DEF S
<1>3. n \in S
  <2>1. 0..n \subseteq S
    BY <1>1, <1>2, UpTo
  <2> QED BY <2>1
<1> QED BY <1>3 DEF S

\* From a solution to the run along the indices.
LEMMA UpToIndex ==
  ASSUME NEW n \in Nat, NEW i \in 1..n
  PROVE  /\ 1..i \in SUBSET (1..n) /\ 1..i # {} /\ Max(1..i) = i
         /\ (1..i) \ {i} = 1..(i - 1)
<1>1. i = (i - 1) + 1 /\ i - 1 \in Nat /\ i \in 1..i
  OBVIOUS
<1>2. Max(1..i) = i
  <2>1. 1..i \in SUBSET (1..((i - 1) + 1))
    BY <1>1
  <2>2. (i - 1) + 1 \in 1..i
    BY <1>1
  <2> DEFINE j == i - 1
             T == 1..i
  <2>3. j \in Nat /\ T \in SUBSET (1..(j + 1)) /\ j + 1 \in T
    BY <1>1, <2>1, <2>2
  <2> HIDE DEF j, T
  <2>4. Max(T) = j + 1
    BY <2>3, MaxLast
  <2> QED BY <1>1, <2>4 DEF j, T
<1>3. 1..i \in SUBSET (1..n)
  OBVIOUS
<1>4. ASSUME NEW x PROVE x \in (1..i) \ {i} <=> x \in 1..(i - 1)
  OBVIOUS
<1> QED BY <1>1, <1>2, <1>3, <1>4

Runs(h, it, Y, base, step, n) ==
  /\ h \in [0..n -> Y] /\ h[0] = base /\ h[n] = it[1..n]
  /\ \A i \in 1..n : h[i] = step[<<h[i - 1], i>>]

\* A solution followed from one initial interval to the next.
Follows(it, Y, base, step, n) ==
  /\ it[1..0] = base
  /\ \A i \in 1..n : it[1..(i - 1)] \in Y => it[1..i] = step[<<it[1..(i - 1)], i>>]

LEMMA RunOf ==
  ASSUME NEW Y, NEW base \in Y, NEW n \in Nat, NEW step \in [Y \X (1..n) -> Y],
         NEW it, Follows(it, Y, base, step, n)
  PROVE  \E h : Runs(h, it, Y, base, step, n)
<1> DEFINE S == {m \in Nat : it[1..m] \in Y}
           h == [i \in 0..n |-> it[1..i]]
<1> USE DEF Follows
<1>1. 0 \in S
  OBVIOUS
<1>2. ASSUME NEW m \in 0..(n - 1), m \in S PROVE m + 1 \in S
  <2>1. m + 1 \in 1..n /\ (m + 1) - 1 = m /\ it[1..m] \in Y
    BY <1>2
  <2>2. it[1..(m + 1)] = step[<<it[1..m], m + 1>>]
    BY <2>1
  <2> QED BY <2>1, <2>2
<1> HIDE DEF S
<1>3. 0..n \subseteq S
  BY <1>1, <1>2, UpTo
<1>4. h \in [0..n -> Y] /\ h[0] = base /\ h[n] = it[1..n]
  BY <1>3 DEF S
<1>5. ASSUME NEW i \in 1..n PROVE h[i] = step[<<h[i - 1], i>>]
  <2>1. i \in 0..n /\ i - 1 \in 0..n
    OBVIOUS
  <2>2. h[i] = it[1..i] /\ h[i - 1] = it[1..(i - 1)] /\ it[1..(i - 1)] \in Y
    BY <1>3, <2>1 DEF S
  <2> HIDE DEF h
  <2> QED BY <2>2
<1> HIDE DEF h
<1> QED BY <1>4, <1>5 DEF Runs

-----------------------------------------------------------------------------
(* Tags and labels.                                                        *)

LEMMA AddNewType ==
  ASSUME NEW X, NEW s \in Seq(X), NEW x \in X
  PROVE  AddNew(s, x) \in Seq(X)
  BY DEF AddNew

LEMMA AddLabelType ==
  ASSUME NEW X, NEW out \in Seq(X), NEW l \in X
  PROVE  AddLabel(out, l) \in Seq(X)
  BY DEF AddLabel, AddNew

LEMMA DistinctRun ==
  ASSUME NEW X, NEW s \in Seq(X)
  PROVE  \E h \in [0..Len(s) -> Seq(X)] :
           /\ h[0] = <<>> /\ h[Len(s)] = Distinct(s)
           /\ \A i \in 1..Len(s) : h[i] = AddNew(h[i - 1], s[i])
<1>1. PICK n : n = Len(s)
  OBVIOUS
<1>2. PICK Y : Y = Seq(X)
  OBVIOUS
<1>3. PICK step : step = [p \in Y \X (1..n) |-> AddNew(p[1], s[p[2]])]
  OBVIOUS
<1>4. PICK it : it = CHOOSE g : g = [T \in SUBSET DOMAIN s |->
                   IF T = {} THEN <<>> ELSE AddNew(g[T \ {Max(T)}], s[Max(T)])]
  OBVIOUS
<1>5. n \in Nat /\ DOMAIN s = 1..n /\ \A i \in 1..n : s[i] \in X
  BY <1>1
<1>6. \A y \in Y, i \in 1..n : AddNew(y, s[i]) \in Y
  BY <1>2, <1>5, AddNewType
<1>7. step \in [Y \X (1..n) -> Y]
  BY <1>3, <1>6
<1>8. \A y \in Y, i \in 1..n : step[<<y, i>>] = AddNew(y, s[i])
  BY <1>3
<1>9. PICK g : Solves(g, Y, <<>>, step, n)
  <2>1. <<>> \in Y /\ n \in Nat
    BY <1>2, <1>5
  <2> QED BY <2>1, <1>7, Iterates
<1>10. ASSUME NEW T \in SUBSET (1..n)
       PROVE  g[T] = IF T = {} THEN <<>> ELSE AddNew(g[T \ {Max(T)}], s[Max(T)])
  <2>1. CASE T = {}
    BY <1>9, <2>1 DEF Solves
  <2>2. CASE T # {}
    <3>1. Max(T) \in 1..n
      BY <1>5, <2>2, MaxIsIn
    <3>2. g[T \ {Max(T)}] \in Y
      BY <1>9 DEF Solves
    <3>3. g[T] = step[<<g[T \ {Max(T)}], Max(T)>>]
      BY <1>9, <2>2 DEF Solves
    <3> QED BY <2>2, <3>1, <3>2, <3>3, <1>8
  <2> QED BY <2>1, <2>2
<1>11. g = [T \in SUBSET DOMAIN s |->
             IF T = {} THEN <<>> ELSE AddNew(g[T \ {Max(T)}], s[Max(T)])]
  <2>1. g = [T \in SUBSET (1..n) |-> g[T]]
    BY <1>9 DEF Solves
  <2> QED BY <1>5, <1>10, <2>1
<1>12. it = [T \in SUBSET DOMAIN s |->
              IF T = {} THEN <<>> ELSE AddNew(it[T \ {Max(T)}], s[Max(T)])]
  BY <1>4, <1>11
<1>13. Distinct(s) = it[1..n]
  BY <1>4, <1>5 DEF Distinct, FoldLeft, MapThenFoldSet
<1>14. it[1..0] = <<>>
  <2>1. 1..0 = {}
    OBVIOUS
  <2> QED BY <1>12, <2>1
<1>15. ASSUME NEW i \in 1..n, it[1..(i - 1)] \in Y
       PROVE  it[1..i] = step[<<it[1..(i - 1)], i>>]
  <2>1. /\ 1..i \in SUBSET (1..n) /\ 1..i # {} /\ Max(1..i) = i
        /\ (1..i) \ {i} = 1..(i - 1)
    BY <1>5, UpToIndex
  <2>2. it[1..i] = AddNew(it[(1..i) \ {Max(1..i)}], s[Max(1..i)])
    BY <1>5, <1>12, <2>1
  <2> QED BY <1>8, <1>15, <2>1, <2>2
<1>16. PICK h : Runs(h, it, Y, <<>>, step, n)
  <2>1. <<>> \in Y /\ n \in Nat
    BY <1>2, <1>5
  <2>2. \A i \in 1..n : it[1..(i - 1)] \in Y => it[1..i] = step[<<it[1..(i - 1)], i>>]
    BY <1>15
  <2>3. Follows(it, Y, <<>>, step, n)
    BY <2>2, <1>14 DEF Follows
  <2> QED BY <2>1, <2>3, <1>7, RunOf
<1>17. ASSUME NEW i \in 1..n PROVE h[i] = AddNew(h[i - 1], s[i])
  <2>1. i - 1 \in 0..n
    BY <1>5
  <2>2. h[i - 1] \in Y /\ h[i] = step[<<h[i - 1], i>>]
    BY <1>16, <2>1 DEF Runs
  <2> QED BY <1>8, <2>2
<1> QED BY <1>1, <1>2, <1>13, <1>16, <1>17 DEF Runs

LEMMA AddLabelsRun ==
  ASSUME NEW X, NEW out \in Seq(X), NEW ls \in Seq(X)
  PROVE  \E h \in [0..Len(ls) -> Seq(X)] :
           /\ h[0] = out /\ h[Len(ls)] = AddLabels(out, ls)
           /\ \A i \in 1..Len(ls) : h[i] = AddLabel(h[i - 1], ls[i])
<1>1. PICK n : n = Len(ls)
  OBVIOUS
<1>2. PICK Y : Y = Seq(X)
  OBVIOUS
<1>3. PICK step : step = [p \in Y \X (1..n) |-> AddLabel(p[1], ls[p[2]])]
  OBVIOUS
<1>4. PICK it : it = CHOOSE g : g = [T \in SUBSET DOMAIN ls |->
                   IF T = {} THEN out ELSE AddLabel(g[T \ {Max(T)}], ls[Max(T)])]
  OBVIOUS
<1>5. n \in Nat /\ DOMAIN ls = 1..n /\ \A i \in 1..n : ls[i] \in X
  BY <1>1
<1>6. \A y \in Y, i \in 1..n : AddLabel(y, ls[i]) \in Y
  BY <1>2, <1>5, AddLabelType
<1>7. step \in [Y \X (1..n) -> Y]
  BY <1>3, <1>6
<1>8. \A y \in Y, i \in 1..n : step[<<y, i>>] = AddLabel(y, ls[i])
  BY <1>3
<1>9. PICK g : Solves(g, Y, out, step, n)
  <2>1. out \in Y /\ n \in Nat
    BY <1>2, <1>5
  <2> QED BY <2>1, <1>7, Iterates
<1>10. ASSUME NEW T \in SUBSET (1..n)
       PROVE  g[T] = IF T = {} THEN out ELSE AddLabel(g[T \ {Max(T)}], ls[Max(T)])
  <2>1. CASE T = {}
    BY <1>9, <2>1 DEF Solves
  <2>2. CASE T # {}
    <3>1. Max(T) \in 1..n
      BY <1>5, <2>2, MaxIsIn
    <3>2. g[T \ {Max(T)}] \in Y
      BY <1>9 DEF Solves
    <3>3. g[T] = step[<<g[T \ {Max(T)}], Max(T)>>]
      BY <1>9, <2>2 DEF Solves
    <3> QED BY <2>2, <3>1, <3>2, <3>3, <1>8
  <2> QED BY <2>1, <2>2
<1>11. g = [T \in SUBSET DOMAIN ls |->
             IF T = {} THEN out ELSE AddLabel(g[T \ {Max(T)}], ls[Max(T)])]
  <2>1. g = [T \in SUBSET (1..n) |-> g[T]]
    BY <1>9 DEF Solves
  <2> QED BY <1>5, <1>10, <2>1
<1>12. it = [T \in SUBSET DOMAIN ls |->
              IF T = {} THEN out ELSE AddLabel(it[T \ {Max(T)}], ls[Max(T)])]
  BY <1>4, <1>11
<1>13. AddLabels(out, ls) = it[1..n]
  BY <1>4, <1>5 DEF AddLabels, FoldLeft, MapThenFoldSet
<1>14. it[1..0] = out
  <2>1. 1..0 = {}
    OBVIOUS
  <2> QED BY <1>12, <2>1
<1>15. ASSUME NEW i \in 1..n, it[1..(i - 1)] \in Y
       PROVE  it[1..i] = step[<<it[1..(i - 1)], i>>]
  <2>1. /\ 1..i \in SUBSET (1..n) /\ 1..i # {} /\ Max(1..i) = i
        /\ (1..i) \ {i} = 1..(i - 1)
    BY <1>5, UpToIndex
  <2>2. it[1..i] = AddLabel(it[(1..i) \ {Max(1..i)}], ls[Max(1..i)])
    BY <1>5, <1>12, <2>1
  <2> QED BY <1>8, <1>15, <2>1, <2>2
<1>16. PICK h : Runs(h, it, Y, out, step, n)
  <2>1. out \in Y /\ n \in Nat
    BY <1>2, <1>5
  <2>2. \A i \in 1..n : it[1..(i - 1)] \in Y => it[1..i] = step[<<it[1..(i - 1)], i>>]
    BY <1>15
  <2>3. Follows(it, Y, out, step, n)
    BY <2>2, <1>14 DEF Follows
  <2> QED BY <2>1, <2>3, <1>7, RunOf
<1>17. ASSUME NEW i \in 1..n PROVE h[i] = AddLabel(h[i - 1], ls[i])
  <2>1. i - 1 \in 0..n
    BY <1>5
  <2>2. h[i - 1] \in Y /\ h[i] = step[<<h[i - 1], i>>]
    BY <1>16, <2>1 DEF Runs
  <2> QED BY <1>8, <2>2
<1> QED BY <1>1, <1>2, <1>13, <1>16, <1>17 DEF Runs

\* No label occurs twice.
NoRepeat(s) == \A i, j \in DOMAIN s : s[i] = s[j] => i = j

LEMMA AddNewFacts ==
  ASSUME NEW X, NEW s \in Seq(X), NEW x \in X, NoRepeat(s)
  PROVE  NoRepeat(AddNew(s, x)) /\ ToSet(AddNew(s, x)) = ToSet(s) \cup {x}
<1>1. CASE Contains(s, x)
  <2>1. x \in ToSet(s)
    BY <1>1 DEF Contains, ToSet
  <2> QED BY <1>1, <2>1 DEF AddNew
<1>2. CASE ~Contains(s, x)
  <2>1. AddNew(s, x) = Append(s, x)
    BY <1>2 DEF AddNew
  <2>2. \A i \in 1..Len(s) : s[i] # x
    BY <1>2 DEF Contains
  <2>3. NoRepeat(Append(s, x))
    BY <2>2 DEF NoRepeat
  <2>4. ToSet(Append(s, x)) = ToSet(s) \cup {x}
    <3>1. DOMAIN Append(s, x) = 1..(Len(s) + 1) /\ DOMAIN s = 1..Len(s) /\ Len(s) \in Nat
      OBVIOUS
    <3>2. \A i \in 1..Len(s) : Append(s, x)[i] = s[i]
      OBVIOUS
    <3>3. Append(s, x)[Len(s) + 1] = x
      OBVIOUS
    <3>4. 1..(Len(s) + 1) = 1..Len(s) \cup {Len(s) + 1}
      BY <3>1
    <3> QED BY <3>1, <3>2, <3>3, <3>4 DEF ToSet
  <2> QED BY <2>1, <2>3, <2>4
<1> QED BY <1>1, <1>2

LEMMA AddLabelsFacts ==
  ASSUME NEW X, NEW out \in Seq(X), NEW ls \in Seq(X), NoRepeat(out)
  PROVE  /\ AddLabels(out, ls) \in Seq(X) /\ NoRepeat(AddLabels(out, ls))
         /\ ToSet(AddLabels(out, ls)) = ToSet(out) \cup (ToSet(ls) \ {Blank})
<1>1. PICK h \in [0..Len(ls) -> Seq(X)] :
        /\ h[0] = out /\ h[Len(ls)] = AddLabels(out, ls)
        /\ \A i \in 1..Len(ls) : h[i] = AddLabel(h[i - 1], ls[i])
  BY AddLabelsRun
<1> DEFINE Prefix(m) == {ls[i] : i \in 1..m}
           S == {m \in 0..Len(ls) :
                   NoRepeat(h[m]) /\ ToSet(h[m]) = ToSet(out) \cup (Prefix(m) \ {Blank})}
<1>2. Len(ls) \in Nat /\ DOMAIN ls = 1..Len(ls) /\ \A i \in 1..Len(ls) : ls[i] \in X
  OBVIOUS
<1>3. 0 \in S
  <2>1. Prefix(0) = {}
    OBVIOUS
  <2> HIDE DEF Prefix
  <2> QED BY <1>1, <1>2, <2>1
<1>4. ASSUME NEW m \in 0..(Len(ls) - 1), m \in S PROVE m + 1 \in S
  <2>1. m + 1 \in 1..Len(ls) /\ m + 1 \in 0..Len(ls) /\ (m + 1) - 1 = m /\ m \in Nat
    BY <1>2
  <2>2. Prefix(m + 1) = Prefix(m) \cup {ls[m + 1]}
    <3>1. 1..(m + 1) = 1..m \cup {m + 1}
      BY <2>1
    <3> QED BY <3>1
  <2>3. h[m] \in Seq(X) /\ ls[m + 1] \in X
    BY <1>1, <1>2, <1>4, <2>1
  <2>4. h[m + 1] = AddLabel(h[m], ls[m + 1])
    BY <1>1, <2>1
  <2> HIDE DEF Prefix
  <2>5. NoRepeat(h[m]) /\ ToSet(h[m]) = ToSet(out) \cup (Prefix(m) \ {Blank})
    BY <1>4
  <2>6. CASE ls[m + 1] = Blank
    BY <2>1, <2>2, <2>4, <2>5, <2>6 DEF AddLabel
  <2>7. CASE ls[m + 1] # Blank
    <3>1. h[m + 1] = AddNew(h[m], ls[m + 1])
      BY <2>4, <2>7 DEF AddLabel
    <3>2. NoRepeat(h[m + 1]) /\ ToSet(h[m + 1]) = ToSet(h[m]) \cup {ls[m + 1]}
      BY <2>3, <2>5, <3>1, AddNewFacts
    <3> QED BY <2>1, <2>2, <2>5, <2>7, <3>2
  <2> QED BY <2>6, <2>7
<1>5. Len(ls) \in S
  <2> HIDE DEF S
  <2>1. 0..Len(ls) \subseteq S
    BY <1>2, <1>3, <1>4, UpTo
  <2> QED BY <1>2, <2>1
<1>6. Prefix(Len(ls)) = ToSet(ls)
  BY <1>2 DEF ToSet
<1> HIDE DEF Prefix
<1>7. AddLabels(out, ls) \in Seq(X)
  BY <1>1, <1>2
<1> QED BY <1>1, <1>5, <1>6, <1>7

LEMMA AddLabelsType ==
  ASSUME NEW X, NEW out \in Seq(X), NEW ls \in Seq(X)
  PROVE  AddLabels(out, ls) \in Seq(X)
<1>1. PICK h \in [0..Len(ls) -> Seq(X)] : h[Len(ls)] = AddLabels(out, ls)
  BY AddLabelsRun
<1>2. Len(ls) \in 0..Len(ls)
  OBVIOUS
<1> QED BY <1>1, <1>2

LEMMA AddMappedType ==
  ASSUME NEW c \in Configs, NEW out \in Seq(STRING), NEW t
  PROVE  AddMapped(c, out, t) \in Seq(STRING)
<1>1. CASE t \in DOMAIN c.map
  <2>1. c.map[t] \in Seq(STRING)
    BY <1>1, TicketConstants
  <2>2. AddLabels(out, c.map[t]) \in Seq(STRING)
    BY <2>1, AddLabelsType
  <2> QED BY <1>1, <2>2 DEF AddMapped
<1>2. CASE t \notin DOMAIN c.map
  BY <1>2 DEF AddMapped
<1> QED BY <1>1, <1>2

LEMMA LabelsRun ==
  ASSUME NEW c \in Configs, NEW X, NEW tags \in Seq(X), NEW base \in Seq(STRING),
         base = AddLabels(<<>>, c.defaults)
  PROVE  \E h \in [0..Len(tags) -> Seq(STRING)] :
           /\ h[0] = base /\ h[Len(tags)] = Labels(c, tags)
           /\ \A i \in 1..Len(tags) : h[i] = AddMapped(c, h[i - 1], tags[i])
<1>1. PICK n : n = Len(tags)
  OBVIOUS
<1>2. PICK Y : Y = Seq(STRING)
  OBVIOUS
<1>3. PICK step : step = [p \in Y \X (1..n) |-> AddMapped(c, p[1], tags[p[2]])]
  OBVIOUS
<1>4. PICK it : it = CHOOSE g : g = [T \in SUBSET DOMAIN tags |->
                   IF T = {} THEN base ELSE AddMapped(c, g[T \ {Max(T)}], tags[Max(T)])]
  OBVIOUS
<1>5. n \in Nat /\ DOMAIN tags = 1..n /\ \A i \in 1..n : tags[i] \in X
  BY <1>1
<1>6. \A y \in Y, i \in 1..n : AddMapped(c, y, tags[i]) \in Y
  BY <1>2, <1>5, AddMappedType
<1>7. step \in [Y \X (1..n) -> Y]
  BY <1>3, <1>6
<1>8. \A y \in Y, i \in 1..n : step[<<y, i>>] = AddMapped(c, y, tags[i])
  BY <1>3
<1>9. PICK g : Solves(g, Y, base, step, n)
  <2>1. base \in Y /\ n \in Nat
    BY <1>2, <1>5
  <2> QED BY <2>1, <1>7, Iterates
<1>10. ASSUME NEW T \in SUBSET (1..n)
       PROVE  g[T] = IF T = {} THEN base ELSE AddMapped(c, g[T \ {Max(T)}], tags[Max(T)])
  <2>1. CASE T = {}
    BY <1>9, <2>1 DEF Solves
  <2>2. CASE T # {}
    <3>1. Max(T) \in 1..n
      BY <1>5, <2>2, MaxIsIn
    <3>2. g[T \ {Max(T)}] \in Y
      BY <1>9 DEF Solves
    <3>3. g[T] = step[<<g[T \ {Max(T)}], Max(T)>>]
      BY <1>9, <2>2 DEF Solves
    <3> QED BY <2>2, <3>1, <3>2, <3>3, <1>8
  <2> QED BY <2>1, <2>2
<1>11. g = [T \in SUBSET DOMAIN tags |->
             IF T = {} THEN base ELSE AddMapped(c, g[T \ {Max(T)}], tags[Max(T)])]
  <2>1. g = [T \in SUBSET (1..n) |-> g[T]]
    BY <1>9 DEF Solves
  <2> QED BY <1>5, <1>10, <2>1
<1>12. it = [T \in SUBSET DOMAIN tags |->
              IF T = {} THEN base ELSE AddMapped(c, it[T \ {Max(T)}], tags[Max(T)])]
  BY <1>4, <1>11
<1>13. Labels(c, tags) = it[1..n]
  BY <1>4, <1>5 DEF Labels, FoldLeft, MapThenFoldSet
<1>14. it[1..0] = base
  <2>1. 1..0 = {}
    OBVIOUS
  <2> QED BY <1>12, <2>1
<1>15. ASSUME NEW i \in 1..n, it[1..(i - 1)] \in Y
       PROVE  it[1..i] = step[<<it[1..(i - 1)], i>>]
  <2>1. /\ 1..i \in SUBSET (1..n) /\ 1..i # {} /\ Max(1..i) = i
        /\ (1..i) \ {i} = 1..(i - 1)
    BY <1>5, UpToIndex
  <2>2. it[1..i] = AddMapped(c, it[(1..i) \ {Max(1..i)}], tags[Max(1..i)])
    BY <1>5, <1>12, <2>1
  <2> QED BY <1>8, <1>15, <2>1, <2>2
<1>16. PICK h : Runs(h, it, Y, base, step, n)
  <2>1. base \in Y /\ n \in Nat
    BY <1>2, <1>5
  <2>2. \A i \in 1..n : it[1..(i - 1)] \in Y => it[1..i] = step[<<it[1..(i - 1)], i>>]
    BY <1>15
  <2>3. Follows(it, Y, base, step, n)
    BY <2>2, <1>14 DEF Follows
  <2> QED BY <2>1, <2>3, <1>7, RunOf
<1>17. ASSUME NEW i \in 1..n PROVE h[i] = AddMapped(c, h[i - 1], tags[i])
  <2>1. i - 1 \in 0..n
    BY <1>5
  <2>2. h[i - 1] \in Y /\ h[i] = step[<<h[i - 1], i>>]
    BY <1>16, <2>1 DEF Runs
  <2> QED BY <1>8, <2>2
<1> QED BY <1>1, <1>2, <1>13, <1>16, <1>17 DEF Runs

Mapped(c, ts) == UNION {ToSet(c.map[t]) : t \in ts \cap DOMAIN c.map}

LEMMA LabelsFacts ==
  ASSUME NEW c \in Configs, NEW X, NEW tags \in Seq(X)
  PROVE  /\ Labels(c, tags) \in Seq(STRING) /\ NoRepeat(Labels(c, tags))
         /\ ToSet(Labels(c, tags)) = (ToSet(c.defaults) \cup Mapped(c, ToSet(tags))) \ {Blank}
<1>1. PICK base : base = AddLabels(<<>>, c.defaults)
  OBVIOUS
<1>2. base \in Seq(STRING) /\ NoRepeat(base) /\ ToSet(base) = ToSet(c.defaults) \ {Blank}
  <2>1. c.defaults \in Seq(STRING)
    BY TicketConstants
  <2>2. <<>> \in Seq(STRING) /\ NoRepeat(<<>>) /\ ToSet(<<>>) = {}
    BY DEF NoRepeat, ToSet
  <2>3. PICK d, e : d = c.defaults /\ e = <<>>
    OBVIOUS
  <2>4. d \in Seq(STRING) /\ e \in Seq(STRING) /\ NoRepeat(e)
    BY <2>1, <2>2, <2>3
  <2>5. /\ AddLabels(e, d) \in Seq(STRING) /\ NoRepeat(AddLabels(e, d))
        /\ ToSet(AddLabels(e, d)) = ToSet(e) \cup (ToSet(d) \ {Blank})
    BY <2>4, AddLabelsFacts
  <2> QED BY <1>1, <2>2, <2>3, <2>5
<1>3. PICK h \in [0..Len(tags) -> Seq(STRING)] :
        /\ h[0] = base /\ h[Len(tags)] = Labels(c, tags)
        /\ \A i \in 1..Len(tags) : h[i] = AddMapped(c, h[i - 1], tags[i])
  BY <1>1, <1>2, LabelsRun
<1> DEFINE Prefix(m) == {tags[i] : i \in 1..m}
           Want(m) == (ToSet(c.defaults) \cup Mapped(c, Prefix(m))) \ {Blank}
           S == {m \in 0..Len(tags) : NoRepeat(h[m]) /\ ToSet(h[m]) = Want(m)}
<1>4. Len(tags) \in Nat /\ DOMAIN tags = 1..Len(tags)
  OBVIOUS
<1>5. 0 \in S
  <2>1. Prefix(0) = {}
    OBVIOUS
  <2>2. Mapped(c, {}) = {}
    BY DEF Mapped
  <2> HIDE DEF Prefix
  <2>3. NoRepeat(h[0]) /\ ToSet(h[0]) = ToSet(c.defaults) \ {Blank}
    BY <1>2, <1>3
  <2>4. Want(0) = ToSet(c.defaults) \ {Blank}
    BY <2>1, <2>2
  <2>5. 0 \in 0..Len(tags)
    BY <1>4
  <2> HIDE DEF Want
  <2> QED BY <2>3, <2>4, <2>5
<1>6. ASSUME NEW m \in 0..(Len(tags) - 1), m \in S PROVE m + 1 \in S
  <2>1. m + 1 \in 1..Len(tags) /\ m + 1 \in 0..Len(tags) /\ (m + 1) - 1 = m /\ m \in Nat
    BY <1>4
  <2>2. PICK t : t = tags[m + 1]
    OBVIOUS
  <2>3. Prefix(m + 1) = Prefix(m) \cup {t}
    <3>1. 1..(m + 1) = 1..m \cup {m + 1}
      BY <2>1
    <3> QED BY <2>2, <3>1
  <2>4. h[m] \in Seq(STRING) /\ h[m + 1] = AddMapped(c, h[m], t)
    BY <1>3, <1>6, <2>1, <2>2
  <2>5. NoRepeat(h[m]) /\ ToSet(h[m]) = Want(m)
    BY <1>6
  <2> HIDE DEF Prefix
  <2>6. CASE t \in DOMAIN c.map
    <3>1. c.map[t] \in Seq(STRING)
      BY <2>6, TicketConstants
    <3>2. /\ NoRepeat(h[m + 1])
          /\ ToSet(h[m + 1]) = ToSet(h[m]) \cup (ToSet(c.map[t]) \ {Blank})
      <4>1. h[m + 1] = AddLabels(h[m], c.map[t])
        BY <2>4, <2>6 DEF AddMapped
      <4>2. h[m] \in Seq(STRING) /\ NoRepeat(h[m])
        BY <2>4, <2>5
      <4> QED BY <3>1, <4>1, <4>2, AddLabelsFacts
    <3>3. Mapped(c, Prefix(m + 1)) = Mapped(c, Prefix(m)) \cup ToSet(c.map[t])
      BY <2>3, <2>6 DEF Mapped
    <3> QED BY <2>1, <2>5, <3>2, <3>3
  <2>7. CASE t \notin DOMAIN c.map
    <3>1. Mapped(c, Prefix(m + 1)) = Mapped(c, Prefix(m))
      BY <2>3, <2>7 DEF Mapped
    <3>2. h[m + 1] = h[m]
      BY <2>4, <2>7 DEF AddMapped
    <3> QED BY <2>1, <2>5, <3>1, <3>2
  <2> QED BY <2>6, <2>7
<1>7. Len(tags) \in S
  <2> HIDE DEF S
  <2>1. 0..Len(tags) \subseteq S
    BY <1>4, <1>5, <1>6, UpTo
  <2> QED BY <1>4, <2>1
<1>8. Prefix(Len(tags)) = ToSet(tags)
  BY <1>4 DEF ToSet
<1> HIDE DEF Prefix
<1>9. Labels(c, tags) \in Seq(STRING)
  BY <1>3, <1>4
<1> QED BY <1>3, <1>7, <1>8, <1>9

\* As many labels as different ones.
LEMMA NoRepeatCounts ==
  ASSUME NEW X, NEW s \in Seq(X), NoRepeat(s)
  PROVE  Len(s) = Cardinality(ToSet(s))
<1>1. Len(s) \in Nat /\ DOMAIN s = 1..Len(s)
  OBVIOUS
<1>2. s \in Bijection(1..Len(s), ToSet(s))
  <2>1. s \in [1..Len(s) -> ToSet(s)]
    BY <1>1 DEF ToSet
  <2>2. \A y \in ToSet(s) : \E i \in 1..Len(s) : s[i] = y
    BY <1>1 DEF ToSet
  <2> QED BY <1>1, <2>1, <2>2 DEF NoRepeat, Bijection, Injection, Surjection, IsInjective
<1>3. ExistsBijection(1..Len(s), ToSet(s))
  BY <1>2 DEF ExistsBijection
<1> QED BY <1>1, <1>3, FS_CountingElements

LEMMA TagsAreASequence ==
  ASSUME NEW s
  PROVE  \E X : InternalTags(s) \in Seq(X)
<1>1. CASE s.category = "VPN_ISSUE"
  <2>1. PICK x, y, z : x = ProblemClass(s.symptom) /\ y = ErrorTag(s.code) /\ z = s.code
    OBVIOUS
  <2>2. PICK sig : sig = Signal(s.code)
    OBVIOUS
  <2>3. PICK X : X = {"vpn", "escalated", "certificate", "auth_failed", "timeout", x, y, z}
    OBVIOUS
  <2>4. sig \in Seq(X)
    <3>1. \/ sig = <<>> \/ sig = <<y>> \/ sig = <<z>>
          \/ sig = <<"certificate">> \/ sig = <<"auth_failed">> \/ sig = <<"timeout">>
      BY <2>1, <2>2 DEF Signal
    <3>2. \A v \in X : <<v>> \in Seq(X)
      OBVIOUS
    <3>3. <<>> \in Seq(X)
      OBVIOUS
    <3>4. y \in X /\ z \in X /\ "certificate" \in X /\ "auth_failed" \in X /\ "timeout" \in X
      BY <2>3
    <3> QED BY <3>1, <3>2, <3>3, <3>4
  <2>5. PICK long : long = <<"vpn", x>> \o sig \o <<"escalated">>
    OBVIOUS
  <2>6. long \in Seq(X)
    <3>1. <<"vpn", x>> \in Seq(X) /\ <<"escalated">> \in Seq(X)
      BY <2>3
    <3> QED BY <2>4, <2>5, <3>1
  <2>7. PICK h \in [0..Len(long) -> Seq(X)] : h[Len(long)] = Distinct(long)
    BY <2>6, DistinctRun
  <2>8. Len(long) \in 0..Len(long)
    BY <2>6
  <2>9. Distinct(long) \in Seq(X)
    BY <2>7, <2>8
  <2>10. InternalTags(s) = Distinct(long)
    BY <1>1, <2>1, <2>2, <2>5 DEF InternalTags
  <2> QED BY <2>9, <2>10
<1>2. CASE s.category # "VPN_ISSUE"
  <2>1. PICK g : g = GenericTag(s.category)
    OBVIOUS
  <2>2. InternalTags(s) = <<g, "escalated">>
    BY <1>2, <2>1 DEF InternalTags
  <2>3. <<g, "escalated">> \in Seq({g, "escalated"})
    OBVIOUS
  <2> QED BY <2>2, <2>3
<1> QED BY <1>1, <1>2

-----------------------------------------------------------------------------
(* The configurations a request has seen are configurations.               *)

SeenInv ==
  /\ config \in [Tenants -> Configs \cup {Unknown}]
  /\ \A w \in Workers : ~At(w, "idle") => req[w].seen \subseteq Configs \cup {Unknown}

LEMMA ConfigOfType ==
  ASSUME SeenInv, NEW t
  PROVE  ConfigOf(t) \in Configs \cup {Unknown}
  BY DEF SeenInv, ConfigOf

\* What a worker does to its request leaves what was seen, or starts it anew.
LEMMA SeenByWorker ==
  ASSUME IInv, SeenInv, NEW w \in Workers, NEW r, req' = [req EXCEPT ![w] = r], config' = config,
         r.pc # "idle" => r.seen \subseteq Configs \cup {Unknown}
  PROVE  SeenInv'
<1>1. ASSUME NEW v \in Workers, ~At(v, "idle")'
      PROVE  req'[v].seen \subseteq Configs \cup {Unknown}
  <2>1. CASE v = w
    <3>1. req'[v] = r
      BY <2>1 DEF IInv
    <3> QED BY <1>1, <3>1 DEF At
  <2>2. CASE v # w
    <3>1. req'[v] = req[v]
      BY <2>2 DEF IInv
    <3> QED BY <1>1, <3>1 DEF At, SeenInv
  <2> QED BY <2>1, <2>2
<1> QED BY <1>1 DEF SeenInv

LEMMA SeenByStep ==
  ASSUME IInv, SeenInv, NEW w \in Workers, Step(w)
  PROVE  SeenInv'
<1>1. ~At(w, "idle") => req[w].seen \subseteq Configs \cup {Unknown}
  BY DEF SeenInv
<1>2. CASE Ingest(w) \/ Resolve(w)
  <2>1. \E t, r : Send(w, r) /\ r.seen = {ConfigOf(t)}
    <3>1. CASE Ingest(w)
      <4>1. PICK m \in Mids, x \in Texts, t \in Tenants \cup {Nobody} :
              Send(w, [pc |-> "classify", mid |-> m, text |-> x, tenant |-> t,
                       config |-> ConfigOf(t), seen |-> {ConfigOf(t)}])
        BY <3>1 DEF Ingest
      <4>2. PICK r : r = [pc |-> "classify", mid |-> m, text |-> x, tenant |-> t,
                          config |-> ConfigOf(t), seen |-> {ConfigOf(t)}]
        OBVIOUS
      <4>3. Send(w, r) /\ r.seen = {ConfigOf(t)}
        BY <4>1, <4>2
      <4> QED BY <4>3
    <3>2. CASE Resolve(w)
      <4>1. PICK m \in Mids, t \in Tenants \cup {Nobody} :
              Send(w, [pc |-> "lookup", mid |-> m, tenant |-> t, case |-> pending[m],
                       seen |-> {ConfigOf(t)}])
        BY <3>2 DEF Resolve
      <4>2. PICK r : r = [pc |-> "lookup", mid |-> m, tenant |-> t, case |-> pending[m],
                          seen |-> {ConfigOf(t)}]
        OBVIOUS
      <4>3. Send(w, r) /\ r.seen = {ConfigOf(t)}
        BY <4>1, <4>2
      <4> QED BY <4>3
    <3> QED BY <1>2, <3>1, <3>2
  <2>0. PICK t, r : Send(w, r) /\ r.seen = {ConfigOf(t)}
    BY <2>1
  <2>2. r.seen \subseteq Configs \cup {Unknown}
    BY <2>0, ConfigOfType
  <2> QED BY <2>0, <2>2, SeenByWorker DEF Send
<1>3. CASE Classify(w)
  <2>1. PICK r : req' = [req EXCEPT ![w] = r] /\ r.seen = req[w].seen
    BY <1>3 DEF Classify
  <2> QED BY <1>1, <1>3, <2>1, SeenByWorker DEF Classify, At
<1>4. CASE Park(w) \/ Preview(w) \/ BumpAttempt(w) \/ PreviewFromPending(w)
  <2>1. /\ \E r : req' = [req EXCEPT ![w] = r] /\ r.seen = req[w].seen
        /\ ~At(w, "idle") /\ config' = config
    BY <1>4 DEF Park, Preview, BumpAttempt, PreviewFromPending, Answer, At
  <2>2. PICK r : req' = [req EXCEPT ![w] = r] /\ r.seen = req[w].seen
    BY <2>1
  <2> QED BY <1>1, <2>1, <2>2, SeenByWorker
<1>5. CASE FindTenant(w)
  <2>0. PICK r : r = [pc |-> "rebuild", mid |-> req[w].mid, tenant |-> req[w].tenant,
                      case |-> req[w].case, seen |-> req[w].seen,
                      config |-> ConfigOf(req[w].tenant)]
    OBVIOUS
  <2>1. req' = [req EXCEPT ![w] = r] /\ r.seen = req[w].seen
    BY <1>5, <2>0 DEF FindTenant
  <2> QED BY <1>1, <1>5, <2>1, SeenByWorker DEF FindTenant, At
<1>6. CASE Finish(w)
  <2>1. Idle.pc = "idle"
    BY DEF Idle
  <2> QED BY <1>6, <2>1, SeenByWorker DEF Finish
<1> QED BY <1>2, <1>3, <1>4, <1>5, <1>6 DEF Step

LEMMA SeenByEdit ==
  ASSUME IInv, SeenInv, NEW t \in Tenants, EditTenant(t)
  PROVE  SeenInv'
<1>1. PICK c \in Configs :
        /\ config' = [config EXCEPT ![t] = c]
        /\ req' = [w \in Workers |->
                     IF ~At(w, "idle") /\ ~At(w, "answered") /\ req[w].tenant = t
                     THEN [req[w] EXCEPT !.seen = @ \cup {c}] ELSE req[w]]
  BY DEF EditTenant
<1>2. ASSUME NEW v \in Workers, ~At(v, "idle")'
      PROVE  req'[v].seen \subseteq Configs \cup {Unknown}
  <2>1. CASE ~At(v, "idle") /\ ~At(v, "answered") /\ req[v].tenant = t
    <3>1. req'[v] = [req[v] EXCEPT !.seen = @ \cup {c}]
      BY <1>1, <2>1
    <3>2. "seen" \in DOMAIN req[v]
      BY <2>1 DEF IInv, Served, Shaped, Steps, At
    <3>3. req'[v].seen = req[v].seen \cup {c}
      BY <3>1, <3>2
    <3> QED BY <2>1, <3>3 DEF SeenInv
  <2>2. CASE ~(~At(v, "idle") /\ ~At(v, "answered") /\ req[v].tenant = t)
    <3>1. req'[v] = req[v]
      BY <1>1, <2>2
    <3> QED BY <1>2, <3>1 DEF SeenInv, At
  <2> QED BY <2>1, <2>2
<1>3. config' \in [Tenants -> Configs \cup {Unknown}]
  BY <1>1 DEF SeenInv
<1> QED BY <1>2, <1>3 DEF SeenInv

LEMMA SeenInductive == IInv /\ SeenInv /\ [Next]_vars => SeenInv'
<1> SUFFICES ASSUME IInv, SeenInv, [Next]_vars PROVE SeenInv'
  OBVIOUS
<1>1. CASE Next
  BY <1>1, SeenByStep, SeenByEdit DEF Next
<1>2. CASE UNCHANGED vars
  BY <1>2 DEF vars, SeenInv, At
<1> QED BY <1>1, <1>2

LEMMA LabelsOfTheirTime ==
  ASSUME IInv, SeenInv
  PROVE  LabelsFollowTags
<1> SUFFICES ASSUME NEW w \in Ticketed
             PROVE  LET labels  == req[w].ticket.labels
                        Maps(c) == UNION {ToSet(c.map[t]) :
                                     t \in ToSet(req[w].reading.summary.tags) \cap DOMAIN c.map}
                    IN  /\ Len(labels) = Cardinality(ToSet(labels))
                        /\ \E c \in req[w].seen \ {Unknown} :
                             ToSet(labels) = (ToSet(c.defaults) \cup Maps(c)) \ {Blank}
  BY DEF LabelsFollowTags
<1>1. w \in Workers /\ req[w].pc = "answered" /\ req[w].ticket # Nothing
  BY DEF Ticketed, Answered, At
<1>2. PICK s : s = req[w].reading.summary
  OBVIOUS
<1>3. s = Final(req[w].case)
  BY <1>1, <1>2 DEF IInv, Served, SaysCase
<1>4. PICK c \in req[w].seen \ {Unknown} : req[w].ticket = Ticket(s, c)
  BY <1>1, <1>2 DEF IInv, Served, SaysCase
<1>5. c \in Configs
  BY <1>1, <1>4 DEF SeenInv, At
<1>6. s.tags = InternalTags(Said(req[w].case))
  BY <1>3, SaidFields DEF Final
<1>7. PICK X : s.tags \in Seq(X)
  BY <1>6, TagsAreASequence
<1>8. req[w].ticket.labels = Labels(c, s.tags)
  BY <1>4 DEF Ticket, VpnPayload, GenericPayload
<1>9. PICK labels : labels = Labels(c, s.tags)
  OBVIOUS
<1>10. /\ labels \in Seq(STRING) /\ NoRepeat(labels)
       /\ ToSet(labels) = (ToSet(c.defaults) \cup Mapped(c, ToSet(s.tags))) \ {Blank}
  BY <1>5, <1>7, <1>9, LabelsFacts
<1>11. Len(labels) = Cardinality(ToSet(labels))
  BY <1>10, NoRepeatCounts
<1> QED BY <1>2, <1>4, <1>8, <1>9, <1>10, <1>11 DEF Mapped

-----------------------------------------------------------------------------
(* Theorems.                                                               *)

LEMMA Initial == Init => IInv
<1> SUFFICES ASSUME Init PROVE IInv
  OBVIOUS
<1>1. Served(Idle)
  BY DEF Served, Shaped, ConfigSeen, Traceless, SaysCase, Idle, Steps, Cased, Located
<1>2. \A w \in Workers : req[w] = Idle
  BY DEF Init
<1>3. \A w \in Workers : Served(req[w])
  BY <1>1, <1>2
<1> QED BY <1>3 DEF Init, IInv

LEMMA Inductive == IInv /\ [Next]_vars => IInv'
<1> SUFFICES ASSUME IInv, [Next]_vars PROVE IInv'
  OBVIOUS
<1>1. ASSUME NEW w \in Workers, Step(w) PROVE IInv'
  <2>1. CASE Ingest(w)
    BY <2>1, IngestKeeps
  <2>2. CASE Classify(w)
    BY <2>2, ClassifyKeeps
  <2>3. CASE Park(w)
    BY <2>3, UntouchedKeeps DEF Park, At
  <2>4. CASE Preview(w)
    BY <2>4, PreviewKeeps
  <2>5. CASE Resolve(w)
    BY <2>5, ResolveKeeps
  <2>6. CASE FindTenant(w)
    BY <2>6, FindTenantKeeps
  <2>7. CASE BumpAttempt(w)
    BY <2>7, UntouchedKeeps DEF BumpAttempt, At
  <2>8. CASE PreviewFromPending(w)
    BY <2>8, PreviewFromPendingKeeps
  <2>9. CASE Finish(w)
    BY <2>9, FinishKeeps
  <2> QED BY <1>1, <2>1, <2>2, <2>3, <2>4, <2>5, <2>6, <2>7, <2>8, <2>9 DEF Step
<1>2. ASSUME NEW t \in Tenants, EditTenant(t) PROVE IInv'
  BY <1>2, EditTenantKeeps
<1>3. CASE UNCHANGED vars
  <2>1. req' = req /\ llm' = llm /\ config' = config /\ pending' = pending
    BY <1>3 DEF vars
  <2> QED BY <2>1 DEF IInv, Served, Shaped, ConfigSeen, Traceless, SaysCase, Final, Said,
                      WellRead, Read, Accepted, MinConfidence, ConfigOf
<1> QED BY <1>1, <1>2, <1>3 DEF Next

\* A reply that is missing or not sure enough leaves no trace in any answer.
THEOREM TicketsRejectedLeavesNoTrace == Spec => []RejectedLeavesNoTrace
<1>1. IInv => RejectedLeavesNoTrace
  BY DEF IInv, Served, Traceless, RejectedLeavesNoTrace, Answered, At, Accepted
<1> QED BY Initial, Inductive, <1>1, PTL DEF Spec

\* A ticket says what its email and its accepted reply say, whichever way it
\* took, and is made under a configuration from the time of its request.
THEOREM TicketsSayTheirCase == Spec => []SaysItsCase
<1>1. IInv => SaysItsCase
  BY DEF IInv, Served, SaysCase, Final, SaysItsCase, Ticketed, Answered, At
<1> QED BY Initial, Inductive, <1>1, PTL DEF Spec

\* A ticket is one of its time: whatever the labels, the tags and the edits of
\* the tenant meanwhile, its labels are, without repetition, the defaults of
\* one configuration the request has seen and what that maps its tags to.
THEOREM TicketsOfTheirTime == Spec => []TicketOfItsTime
<1>1. Init => SeenInv
  <2>1. Init => \A w \in Workers : req[w].pc = "idle"
    BY DEF Init, Idle
  <2> QED BY <2>1 DEF Init, SeenInv, At
<1>2. IInv => SaysItsCase
  BY DEF IInv, Served, SaysCase, Final, SaysItsCase, Ticketed, Answered, At
<1>3. IInv /\ SeenInv => TicketOfItsTime
  BY <1>2, LabelsOfTheirTime DEF TicketOfItsTime
<1> QED BY Initial, Inductive, SeenInductive, <1>1, <1>3, PTL DEF Spec
=============================================================================
