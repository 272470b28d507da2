------------------------- MODULE StoreFactoryProofs -------------------------
(***************************************************************************)
(* The store of get_memory, for any number of workers and any TTL: types,  *)
(* that no key of a session is left without a TTL, and that either store   *)
(* keeps SessionLease and the memory cleanup takes no email entry early.   *)
(*                                                                         *)
(* NoImmortalKey is not inductive: it says nothing while a call is under   *)
(* way.  What carries it is who will still come past a key stored without  *)
(* a TTL: some call under way that has not touched it yet (Repaired); and  *)
(* to see that one completed call is enough after a torn one, that every   *)
(* key a call has already touched has such a call again if it lost its TTL *)
(* behind it (Behind).                                                     *)
(*                                                                         *)
(* The lease needs the ages besides: in Redis a key a call has renewed is  *)
(* at most a tick short of Ttl (RedisLease), in memory _last_seen is as old *)
(* as the last call and, unless a write raced with a pop, what was popped  *)
(* stays popped (MemoryLease).  The cleanup pops only what it has listed,  *)
(* and what it lists as expired does not get younger (Listed).             *)
(***************************************************************************)
EXTENDS StoreFactory, TLAPS

Positions == 1..5

\* Some call under way still has the key at position i to touch.
Coming(i) == \E v \in Workers : call[v].next \in 1..i

Repaired == ~torn => \A i \in Positions : ttl[Redis!Touched[i]] = Redis!Forever => Coming(i)

Behind == \A w \in Workers : call[w].clean =>
  \A i \in Positions : i < call[w].next /\ ttl[Redis!Touched[i]] = Redis!Forever => Coming(i)

RedisInv == Redis!TypeOK /\ Repaired /\ Behind

-----------------------------------------------------------------------------
\* _touch names every key once.
LEMMA TouchedKeys ==
  /\ Len(Redis!Touched) = 5
  /\ \A i \in Positions : Redis!Touched[i] \in Redis!Keys
  /\ \A k \in Redis!Keys : \E i \in Positions : Redis!Touched[i] = k
  /\ \A i, j \in Positions : Redis!Touched[i] = Redis!Touched[j] => i = j
<1>1. /\ Len(Redis!Touched) = 5
      /\ Redis!Touched[1] = "messages" /\ Redis!Touched[2] = "last_intent" /\ Redis!Touched[3] = "vpn_context"
      /\ Redis!Touched[4] = "company_id" /\ Redis!Touched[5] = "pending_handoff"
  BY DEF Redis!Touched
<1>2. \A i \in Positions : i = 1 \/ i = 2 \/ i = 3 \/ i = 4 \/ i = 5
  BY DEF Positions
<1>3. {1, 2, 3, 4, 5} \subseteq Positions
  BY DEF Positions
<1>4. \A i \in Positions : Redis!Touched[i] \in Redis!Keys
  BY <1>1, <1>2 DEF Redis!Keys
<1>5. \A k \in Redis!Keys : \E i \in Positions : Redis!Touched[i] = k
  BY <1>1, <1>3 DEF Redis!Keys
<1>6. \A i, j \in Positions : Redis!Touched[i] = Redis!Touched[j] => i = j
  BY <1>1, <1>2
<1> QED BY <1>1, <1>4, <1>5, <1>6

\* A call that begins may store keys without a TTL: it comes past all of them.
LEMMA BeginKeeps ==
  ASSUME RedisInv, NEW w \in Workers, Redis!Begin(w), ttl' \in [Redis!Keys -> 0..Redis!Forever]
  PROVE  RedisInv'
<1>1. call[w].next = 0 /\ call[w] \in [next : 0..5, late : BOOLEAN, clean : BOOLEAN]
  BY DEF Redis!Begin, Redis!Busy, RedisInv, Redis!TypeOK
<1>2. /\ call' = [call EXCEPT ![w] = [next |-> 1, late |-> FALSE, clean |-> TRUE]]
      /\ torn' = torn /\ quiet' = quiet
  BY DEF Redis!Begin
<1>3. Redis!TypeOK'
  BY <1>2 DEF RedisInv, Redis!TypeOK
<1>4. call'[w].next = 1
  BY <1>2 DEF RedisInv, Redis!TypeOK
<1>5. \A i \in Positions : Coming(i)'
  BY <1>4 DEF Coming, Positions
<1> QED BY <1>3, <1>5 DEF RedisInv, Repaired, Behind

\* One EXPIRE: the key it renews is not without a TTL, and a call that was to
\* come past another key still is.
LEMMA TouchKeeps ==
  ASSUME RedisInv, NEW w \in Workers, Redis!Touch(w)
  PROVE  RedisInv'
<1> DEFINE n == call[w].next
<1>1. n \in Positions /\ Redis!Touched[n] \in Redis!Keys
  BY TouchedKeys DEF Redis!Touch, Redis!Busy, RedisInv, Redis!TypeOK, Positions
<1>2. ttl' = [ttl EXCEPT ![Redis!Touched[n]] = IF @ = Redis!Absent THEN @ ELSE Ttl]
  BY DEF Redis!Touch
<1>3. ttl' \in [Redis!Keys -> 0..Redis!Forever] /\ Ttl \in Nat
  BY <1>1, <1>2, TtlAssumption DEF RedisInv, Redis!TypeOK, Redis!Forever, Redis!Absent
<1>4. ttl'[Redis!Touched[n]] # Redis!Forever
  BY <1>1, <1>2, <1>3 DEF RedisInv, Redis!TypeOK, Redis!Forever, Redis!Absent
<1>5. \A i \in Positions \ {n} : ttl'[Redis!Touched[i]] = ttl[Redis!Touched[i]]
  BY <1>1, <1>2, TouchedKeys DEF RedisInv, Redis!TypeOK
<1>6. CASE n < Len(Redis!Touched)
  <2>1. call' = [call EXCEPT ![w].next = n + 1] /\ torn' = torn /\ quiet' = quiet
    BY <1>6 DEF Redis!Touch
  <2>2. n + 1 \in 0..5
    BY <1>1, <1>6, TouchedKeys DEF Positions
  <2>3. Redis!TypeOK'
    BY <1>3, <2>1, <2>2 DEF RedisInv, Redis!TypeOK
  <2>4. call'[w].next = n + 1 /\ call'[w].clean = call[w].clean
    BY <2>1 DEF RedisInv, Redis!TypeOK
  <2>5. \A v \in Workers \ {w} : call'[v] = call[v]
    BY <2>1 DEF RedisInv, Redis!TypeOK
  <2>6. ASSUME NEW i \in Positions \ {n}, Coming(i)
        PROVE  Coming(i)'
    <3>1. PICK v \in Workers : call[v].next \in 1..i
      BY <2>6 DEF Coming
    <3>2. CASE v = w
      <4>1. n + 1 \in 1..i
        BY <3>1, <3>2, <1>1 DEF Positions
      <4> QED BY <4>1, <2>4 DEF Coming
    <3>3. CASE v # w
      BY <3>1, <3>3, <2>5 DEF Coming
    <3> QED BY <3>2, <3>3
  <2>7. Repaired'
    BY <1>4, <1>5, <2>1, <2>6 DEF RedisInv, Repaired
  <2>8. ASSUME NEW v \in Workers, call'[v].clean, NEW i \in Positions,
               i < call'[v].next, ttl'[Redis!Touched[i]] = Redis!Forever
        PROVE  Coming(i)'
    <3>1. i # n
      BY <1>4, <2>8
    <3>2. i < call[v].next /\ call[v].clean
      <4>1. CASE v = w
        BY <4>1, <2>4, <2>8, <3>1, <1>1 DEF Positions
      <4>2. CASE v # w
        BY <4>2, <2>5, <2>8
      <4> QED BY <4>1, <4>2
    <3>3. Coming(i)
      BY <1>5, <2>8, <3>1, <3>2 DEF RedisInv, Behind
    <3> QED BY <2>6, <3>1, <3>3
  <2>9. Behind'
    BY <2>8 DEF Behind
  <2> QED BY <2>3, <2>7, <2>9 DEF RedisInv
<1>7. CASE ~(n < Len(Redis!Touched))
  <2>1. call' = [call EXCEPT ![w] = Redis!NoCall] /\ torn' = (torn /\ ~call[w].clean) /\ quiet' = 0
    BY <1>7 DEF Redis!Touch
  <2>2. n = 5
    BY <1>1, <1>7, TouchedKeys DEF Positions
  <2>3. Redis!NoCall \in [next : 0..5, late : BOOLEAN, clean : BOOLEAN]
    BY DEF Redis!NoCall
  <2>4. Redis!TypeOK'
    BY <1>3, <2>1, <2>3 DEF RedisInv, Redis!TypeOK
  <2>5. call'[w] = Redis!NoCall /\ ~call'[w].clean /\ \A v \in Workers \ {w} : call'[v] = call[v]
    BY <2>1 DEF RedisInv, Redis!TypeOK, Redis!NoCall
  <2>6. ASSUME NEW i \in Positions \ {n}, Coming(i)
        PROVE  Coming(i)'
    <3>1. PICK v \in Workers : call[v].next \in 1..i
      BY <2>6 DEF Coming
    <3>2. v # w
      BY <3>1, <2>2 DEF Positions
    <3> QED BY <3>1, <3>2, <2>5 DEF Coming
  <2>7. ASSUME ~torn', NEW i \in Positions, ttl'[Redis!Touched[i]] = Redis!Forever
        PROVE  Coming(i)'
    <3>1. i # n /\ ttl[Redis!Touched[i]] = Redis!Forever
      BY <1>4, <1>5, <2>7
    <3>2. CASE ~torn
      BY <3>1, <3>2, <2>6 DEF RedisInv, Repaired
    <3>3. CASE call[w].clean
      <4>1. i < call[w].next
        BY <2>2, <3>1 DEF Positions
      <4> QED BY <4>1, <3>1, <3>3, <2>6 DEF RedisInv, Behind
    <3> QED BY <2>1, <2>7, <3>2, <3>3 DEF RedisInv, Redis!TypeOK
  <2>8. Repaired'
    BY <2>7 DEF Repaired
  <2>9. ASSUME NEW v \in Workers, call'[v].clean, NEW i \in Positions,
               i < call'[v].next, ttl'[Redis!Touched[i]] = Redis!Forever
        PROVE  Coming(i)'
    <3>1. v # w /\ call[v] = call'[v]
      BY <2>5, <2>9
    <3>2. i # n /\ ttl[Redis!Touched[i]] = Redis!Forever
      BY <1>4, <1>5, <2>9
    <3> QED BY <3>1, <3>2, <2>6, <2>9 DEF RedisInv, Behind
  <2>10. Behind'
    BY <2>9 DEF Behind
  <2> QED BY <2>4, <2>8, <2>10 DEF RedisInv
<1> QED BY <1>6, <1>7

\* Calls that end half-way: torn, and no call under way counts as clean.
LEMMA TearKeeps ==
  ASSUME RedisInv, Redis!Tear
  PROVE  RedisInv'
<1>1. PICK ended \in SUBSET {w \in Workers : Redis!Busy(w)} :
        call' = [w \in Workers |-> IF w \in ended THEN Redis!NoCall ELSE [call[w] EXCEPT !.clean = FALSE]]
  BY DEF Redis!Tear
<1>2. torn' = TRUE /\ ttl' = ttl /\ quiet' = quiet
  BY DEF Redis!Tear
<1>3. ASSUME NEW w \in Workers
      PROVE  /\ call'[w] \in [next : 0..5, late : BOOLEAN, clean : BOOLEAN]
             /\ ~call'[w].clean
  <2>1. call[w] \in [next : 0..5, late : BOOLEAN, clean : BOOLEAN]
    BY DEF RedisInv, Redis!TypeOK
  <2>2. CASE w \in ended
    BY <1>1, <2>2 DEF Redis!NoCall
  <2>3. CASE w \notin ended
    BY <1>1, <2>1, <2>3
  <2> QED BY <2>2, <2>3
<1>4. call' \in [Workers -> [next : 0..5, late : BOOLEAN, clean : BOOLEAN]]
  BY <1>1, <1>3
<1>5. Redis!TypeOK'
  BY <1>2, <1>4 DEF RedisInv, Redis!TypeOK
<1> QED BY <1>2, <1>3, <1>5 DEF RedisInv, Repaired, Behind

\* Time takes no TTL off a key.
LEMMA TickKeeps ==
  ASSUME RedisInv, Redis!Tick
  PROVE  RedisInv'
<1>1. ttl' = [k \in Redis!Keys |-> IF ttl[k] \in {Redis!Absent, Redis!Forever} THEN ttl[k] ELSE ttl[k] - 1]
  BY DEF Redis!Tick
<1>2. ttl' \in [Redis!Keys -> 0..Redis!Forever] /\ \A k \in Redis!Keys : ttl'[k] = Redis!Forever => ttl[k] = Redis!Forever
  BY <1>1, TtlAssumption DEF RedisInv, Redis!TypeOK, Redis!Forever, Redis!Absent
<1>3. call' = [w \in Workers |-> [call[w] EXCEPT !.late = Redis!Busy(w)]]
  BY DEF Redis!Tick
<1>4. ASSUME NEW w \in Workers
      PROVE  /\ call'[w] \in [next : 0..5, late : BOOLEAN, clean : BOOLEAN]
             /\ call'[w].next = call[w].next /\ call'[w].clean = call[w].clean
  <2>1. call[w] \in [next : 0..5, late : BOOLEAN, clean : BOOLEAN]
    BY DEF RedisInv, Redis!TypeOK
  <2>2. Redis!Busy(w) \in BOOLEAN
    BY DEF Redis!Busy
  <2> QED BY <1>3, <2>1, <2>2
<1>5. call' \in [Workers -> [next : 0..5, late : BOOLEAN, clean : BOOLEAN]]
  BY <1>3, <1>4
<1>6. quiet' \in 0..Ttl + 1 /\ torn' = torn
  BY TtlAssumption DEF Redis!Tick, RedisInv, Redis!TypeOK
<1>7. Redis!TypeOK'
  BY <1>2, <1>5, <1>6 DEF RedisInv, Redis!TypeOK
<1>8. \A i \in Positions : Coming(i) => Coming(i)'
  BY <1>4 DEF Coming
<1>9. \A i \in Positions : ttl'[Redis!Touched[i]] = Redis!Forever => ttl[Redis!Touched[i]] = Redis!Forever
  BY <1>2, TouchedKeys
<1>10. Repaired'
  BY <1>6, <1>8, <1>9 DEF RedisInv, Repaired
<1>11. Behind'
  BY <1>4, <1>8, <1>9 DEF RedisInv, Behind
<1> QED BY <1>7, <1>10, <1>11 DEF RedisInv

\* DEL leaves no key at all.
LEMMA DeleteKeeps ==
  ASSUME RedisInv, Redis!DeleteSession
  PROVE  RedisInv'
<1>1. ttl' = [k \in Redis!Keys |-> Redis!Absent] /\ call' = call /\ torn' = torn /\ quiet' = quiet
  BY DEF Redis!DeleteSession
<1>2. ttl' \in [Redis!Keys -> 0..Redis!Forever] /\ \A i \in Positions : ttl'[Redis!Touched[i]] # Redis!Forever
  BY <1>1, TouchedKeys, TtlAssumption DEF Redis!Forever, Redis!Absent
<1> QED BY <1>1, <1>2 DEF RedisInv, Redis!TypeOK, Repaired, Behind

\* Any one Redis command of a call.
LEMMA CommandKeeps ==
  ASSUME RedisInv, NEW w \in Workers, Redis!Command(w)
  PROVE  RedisInv'
<1>1. ttl \in [Redis!Keys -> 0..Redis!Forever] /\ Redis!Forever \in 0..Redis!Forever /\ Redis!Absent \in 0..Redis!Forever
  BY TtlAssumption DEF RedisInv, Redis!TypeOK, Redis!Forever, Redis!Absent
<1>2. CASE Redis!AddMessage(w)
  BY <1>1, <1>2, BeginKeeps DEF Redis!AddMessage
<1>3. CASE Redis!SetField(w)
  BY <1>1, <1>3, BeginKeeps DEF Redis!SetField
<1>4. CASE Redis!GetField(w)
  BY <1>1, <1>4, BeginKeeps DEF Redis!GetField
<1>5. CASE Redis!ClearField(w)
  BY <1>1, <1>5, BeginKeeps DEF Redis!ClearField
<1>6. CASE Redis!Touch(w)
  BY <1>6, TouchKeeps
<1> QED BY <1>2, <1>3, <1>4, <1>5, <1>6 DEF Redis!Command

\* No keys and no calls.
LEMMA RedisStarts == Redis!Init => RedisInv
<1> SUFFICES ASSUME Redis!Init PROVE RedisInv
  OBVIOUS
<1>1. Redis!TypeOK
  <2>1. ttl \in [Redis!Keys -> 0..Redis!Forever]
    BY TtlAssumption DEF Redis!Init, Redis!Forever, Redis!Absent
  <2>2. Redis!NoCall \in [next : 0..5, late : BOOLEAN, clean : BOOLEAN]
    BY DEF Redis!NoCall
  <2>3. call \in [Workers -> [next : 0..5, late : BOOLEAN, clean : BOOLEAN]]
    BY <2>2 DEF Redis!Init
  <2>4. quiet \in 0..Ttl + 1 /\ torn = FALSE
    BY TtlAssumption DEF Redis!Init
  <2> QED BY <2>1, <2>3, <2>4 DEF Redis!TypeOK
<1>2. \A i \in Positions : ttl[Redis!Touched[i]] # Redis!Forever
  BY TouchedKeys, TtlAssumption DEF Redis!Init, Redis!Forever, Redis!Absent
<1> QED BY <1>1, <1>2 DEF RedisInv, Repaired, Behind

\* Every step of the Redis store.
LEMMA RedisSteps == RedisInv /\ [Redis!Next]_(Redis!vars) => RedisInv'
<1> SUFFICES ASSUME RedisInv, [Redis!Next]_(Redis!vars) PROVE RedisInv'
  OBVIOUS
<1>1. CASE \E w \in Workers : Redis!Command(w)
  BY <1>1, CommandKeeps
<1>2. CASE Redis!DeleteSession
  BY <1>2, DeleteKeeps
<1>3. CASE Redis!Tear
  BY <1>3, TearKeeps
<1>4. CASE Redis!Tick
  BY <1>4, TickKeeps
<1>5. CASE UNCHANGED (Redis!vars)
  BY <1>5 DEF Redis!vars, RedisInv, Redis!TypeOK, Repaired, Behind, Coming
<1> QED BY <1>1, <1>2, <1>3, <1>4, <1>5 DEF Redis!Next

-----------------------------------------------------------------------------
(* The memory store.                                                       *)

Place == Memory!Popping \cup {"idle", "dict", "expire", "body", "check", "touch"}
Task  == [late : BOOLEAN, n : 0..6, at : Place]

\* Where a worker goes next is a place in a call.
LEMMA TaskMoves ==
  ASSUME Memory!TypeOK, NEW w \in Workers, NEW at \in Place, NEW n \in 0..6,
         Memory!At(w, at, n) \/ Memory!End(w)
  PROVE  task' \in [Workers -> Task]
<1>1. task \in [Workers -> Task]
  BY DEF Memory!TypeOK, Task, Place
<1>2. Memory!NoTask \in Task
  BY DEF Memory!NoTask, Task, Place
<1>3. CASE Memory!At(w, at, n)
  <2>1. task' = [task EXCEPT ![w] = [task[w] EXCEPT !.at = at, !.n = n]]
    BY <1>1, <1>3 DEF Memory!At
  <2>2. [task[w] EXCEPT !.at = at, !.n = n] \in Task
    BY <1>1 DEF Task
  <2> QED BY <1>1, <2>1, <2>2
<1>4. CASE Memory!End(w)
  BY <1>1, <1>2, <1>4 DEF Memory!End
<1> QED BY <1>3, <1>4

\* The cleanup of the dictionaries goes on to the next one or is over.
LEMMA NextDictMoves ==
  ASSUME Memory!TypeOK, NEW w \in Workers, Memory!NextDict(w)
  PROVE  task' \in [Workers -> Task]
<1>1. task[w].n \in 0..6
  BY DEF Memory!TypeOK
<1>2. CASE task[w].n < Len(Dicts)
  <2>1. task[w].n + 1 \in 0..6 /\ "dict" \in Place
    BY <1>1, <1>2, DictsAssumption DEF Place
  <2> QED BY <1>2, <2>1, TaskMoves DEF Memory!NextDict
<1>3. CASE ~(task[w].n < Len(Dicts))
  <2>1. 0 \in 0..6 /\ "body" \in Place
    BY DEF Place
  <2> QED BY <1>3, <2>1, TaskMoves DEF Memory!NextDict
<1> QED BY <1>2, <1>3

\* No sessions, no entries, no calls.
LEMMA MemoryStarts == Memory!Init => Memory!TypeOK
BY TtlAssumption DEF Memory!Init, Memory!TypeOK, Memory!NoTask, Memory!Absent, Memory!Old

\* Any one dictionary operation of a call.
LEMMA MemorySteps ==
  ASSUME Memory!TypeOK, NEW w \in Workers, Memory!Step(w)
  PROVE  Memory!TypeOK'
<1> USE DEF Memory!Popping
<1>1. /\ Ttl \in Nat /\ 0 \in Memory!Absent..Memory!Old /\ Memory!Absent \in Memory!Absent..Memory!Old
      /\ {"idle", "dict", "expire", "body", "check", "touch", "sweep", "delete"} \subseteq Place
      /\ 0 \in 0..6 /\ 1 \in 0..6 /\ 0 \in 0..Ttl + 1
  BY TtlAssumption DEF Memory!Absent, Memory!Old, Place
<1>2. task \in [Workers -> Task]
  BY DEF Memory!TypeOK, Task, Place
<1>3. ASSUME task' \in [Workers -> Task], data' \subseteq Memory!Fields,
             seen' \in Memory!Absent..Memory!Old, emails' \in [Memory!Kinds -> Memory!Absent..Memory!Old],
             raced' \subseteq {"session"} \cup Memory!Kinds, quiet' \in 0..Ttl + 1
      PROVE  Memory!TypeOK'
  BY <1>3 DEF Memory!TypeOK, Task, Place
<1>4. CASE Memory!Begin(w)
  BY <1>1, <1>3, <1>4, TaskMoves DEF Memory!Begin, Memory!AfterSessions, Memory!TypeOK
<1>5. CASE Memory!PopSession(w)
  <2>1. Len(Memory!Popped) = 5
    BY DEF Memory!Popped
  <2>2. CASE task[w].n <= Len(Memory!Popped)
    <3>1. task[w].n + 1 \in 0..6 /\ task[w].at \in Place
      BY <1>1, <1>2, <1>5, <2>1, <2>2 DEF Memory!PopSession, Task
    <3>2. task' \in [Workers -> Task]
      BY <3>1, <1>5, <2>2, TaskMoves DEF Memory!PopSession
    <3> QED BY <3>2, <1>3, <1>5, <2>2 DEF Memory!PopSession, Memory!TypeOK
  <2>3. CASE ~(task[w].n <= Len(Memory!Popped))
    <3>1. task' \in [Workers -> Task]
      BY <1>1, <1>5, <2>3, TaskMoves DEF Memory!PopSession, Memory!AfterSessions
    <3> QED BY <1>1, <1>3, <1>5, <2>3, <3>1 DEF Memory!PopSession, Memory!TypeOK
  <2> QED BY <2>2, <2>3
<1>6. CASE Memory!ListDict(w)
  <2>1. task' \in [Workers -> Task]
    BY <1>1, <1>2, <1>6, TaskMoves, NextDictMoves DEF Memory!ListDict, Task
  <2> QED BY <1>3, <1>6, <2>1 DEF Memory!ListDict, Memory!TypeOK
<1>7. CASE Memory!PopEmail(w)
  <2>1. task' \in [Workers -> Task]
    BY <1>7, NextDictMoves DEF Memory!PopEmail
  <2>2. emails' \in [Memory!Kinds -> Memory!Absent..Memory!Old]
    BY <1>1, <1>7 DEF Memory!PopEmail, Memory!TypeOK
  <2> QED BY <1>3, <1>7, <2>1, <2>2 DEF Memory!PopEmail, Memory!TypeOK
<1>8. CASE Memory!Put(w)
  <2>1. task' \in [Workers -> Task]
    BY <1>1, <1>8, TaskMoves DEF Memory!Put
  <2> QED BY <1>3, <1>8, <2>1 DEF Memory!Put, Memory!Racing, Memory!TypeOK
<1>9. CASE Memory!ClearField(w)
  <2>1. task' \in [Workers -> Task]
    BY <1>1, <1>9, TaskMoves DEF Memory!ClearField
  <2> QED BY <1>3, <1>9, <2>1 DEF Memory!ClearField, Memory!TypeOK
<1>10. CASE Memory!Check(w)
  <2>1. task' \in [Workers -> Task]
    BY <1>1, <1>10, TaskMoves DEF Memory!Check
  <2> QED BY <1>3, <1>10, <2>1 DEF Memory!Check, Memory!TypeOK
<1>11. CASE Memory!Touch(w)
  <2>1. task' \in [Workers -> Task]
    BY <1>1, <1>11, TaskMoves DEF Memory!Touch
  <2> QED BY <1>1, <1>3, <1>11, <2>1 DEF Memory!Touch, Memory!Racing, Memory!TypeOK
<1>12. CASE Memory!DeleteSession(w)
  BY <1>1, <1>3, <1>12, TaskMoves DEF Memory!DeleteSession, Memory!TypeOK
<1>13. CASE Memory!PutEmail(w)
  <2>1. task' \in [Workers -> Task]
    BY <1>1, <1>13, TaskMoves DEF Memory!PutEmail
  <2>2. emails' \in [Memory!Kinds -> Memory!Absent..Memory!Old]
    BY <1>1, <1>13 DEF Memory!PutEmail, Memory!TypeOK
  <2>3. raced' \subseteq {"session"} \cup Memory!Kinds
    BY <1>13 DEF Memory!PutEmail, Memory!Racing, Memory!TypeOK
  <2> QED BY <1>3, <1>13, <2>1, <2>2, <2>3 DEF Memory!PutEmail, Memory!TypeOK
<1>14. CASE Memory!ClearEmail(w)
  <2>1. task' \in [Workers -> Task]
    BY <1>1, <1>14, TaskMoves DEF Memory!ClearEmail
  <2>2. emails' \in [Memory!Kinds -> Memory!Absent..Memory!Old]
    BY <1>1, <1>14 DEF Memory!ClearEmail, Memory!TypeOK
  <2> QED BY <1>3, <1>14, <2>1, <2>2 DEF Memory!ClearEmail, Memory!TypeOK
<1>15. CASE Memory!Look(w)
  <2>1. task' \in [Workers -> Task]
    BY <1>1, <1>15, TaskMoves DEF Memory!Look
  <2> QED BY <1>3, <1>15, <2>1 DEF Memory!Look, Memory!TypeOK
<1> QED BY <1>4, <1>5, <1>6, <1>7, <1>8, <1>9, <1>10, <1>11, <1>12, <1>13, <1>14, <1>15
        DEF Memory!Step

\* The dictionaries go with the process.
LEMMA MemoryRestarts ==
  ASSUME Memory!TypeOK, Memory!Restart
  PROVE  Memory!TypeOK'
BY TtlAssumption DEF Memory!Restart, Memory!Empty, Memory!NoTask, Memory!TypeOK, Memory!Absent, Memory!Old

\* Ages stop growing beyond the TTL, where they are not told apart.
LEMMA MemoryAges ==
  ASSUME Memory!TypeOK, Memory!Tick
  PROVE  Memory!TypeOK'
<1>1. ASSUME NEW age \in Memory!Absent..Memory!Old
      PROVE  Memory!Aged(age) \in Memory!Absent..Memory!Old
  BY <1>1, TtlAssumption DEF Memory!Aged, Memory!Absent, Memory!Old
<1>2. seen' \in Memory!Absent..Memory!Old /\ emails' \in [Memory!Kinds -> Memory!Absent..Memory!Old]
  BY <1>1 DEF Memory!Tick, Memory!TypeOK
<1>3. task \in [Workers -> Task]
  BY DEF Memory!TypeOK, Task, Place
<1>4. task' \in [Workers -> Task]
  BY <1>3 DEF Memory!Tick, Task
<1>5. quiet' \in 0..Ttl + 1
  BY TtlAssumption DEF Memory!Tick, Memory!TypeOK
<1> QED BY <1>2, <1>4, <1>5 DEF Memory!Tick, Memory!TypeOK, Task, Place

-----------------------------------------------------------------------------
(* Whichever store get_memory has chosen.                                  *)

IInv == use_redis \in BOOLEAN /\ RedisInv /\ Memory!TypeOK

\* Either choice starts with no session.
LEMMA InitIInv == Init => IInv
BY RedisStarts, MemoryStarts DEF Init, IInv

\* The store not chosen stays as it was.
LEMMA StepIInv == IInv /\ [Next]_vars => IInv'
<1> SUFFICES ASSUME IInv, [Next]_vars PROVE IInv'
  OBVIOUS
<1>1. CASE Redis!Next /\ UNCHANGED memoryVars /\ UNCHANGED use_redis
  <2>1. RedisInv'
    BY <1>1, RedisSteps DEF IInv
  <2>2. Memory!TypeOK'
    BY <1>1, <2>1 DEF IInv, memoryVars, RedisInv, Redis!TypeOK, Memory!TypeOK
  <2> QED BY <1>1, <2>1, <2>2 DEF IInv
<1>2. CASE Memory!Next /\ UNCHANGED redisVars /\ UNCHANGED use_redis
  <2>1. Memory!TypeOK'
    BY <1>2, MemorySteps, MemoryRestarts, MemoryAges DEF IInv, Memory!Next
  <2>2. RedisInv'
    BY <1>2, <2>1
       DEF IInv, redisVars, RedisInv, Redis!TypeOK, Memory!TypeOK, Repaired, Behind, Coming
  <2> QED BY <1>2, <2>1, <2>2 DEF IInv
<1>3. CASE UNCHANGED vars
  BY <1>3 DEF vars, redisVars, memoryVars, IInv, RedisInv, Redis!TypeOK, Memory!TypeOK,
              Repaired, Behind, Coming
<1> QED BY <1>1, <1>2, <1>3 DEF Next

-----------------------------------------------------------------------------
\* TTLs, ages and the calls under way keep their types, in either store.
THEOREM StoreTypeCorrect == Spec => []TypeOK
<1>1. IInv => TypeOK
  BY DEF IInv, RedisInv, TypeOK
<1> QED BY <1>1, InitIInv, StepIInv, PTL DEF Spec

\* When no call is under way and none ended half-way since one last completed,
\* every key of the session has a TTL, for any number of overlapping calls.
THEOREM StoreNoImmortalKey == Spec => []NoImmortalKey
<1>1. IInv => NoImmortalKey
  <2> SUFFICES ASSUME IInv, Redis!Idle, ~torn, NEW k \in Redis!Keys, ttl[k] = Redis!Forever PROVE FALSE
    BY DEF NoImmortalKey, Redis!NoImmortalKey
  <2>1. PICK i \in Positions : Redis!Touched[i] = k
    BY TouchedKeys
  <2>2. PICK v \in Workers : call[v].next \in 1..i
    BY <2>1 DEF IInv, RedisInv, Repaired, Coming
  <2> QED BY <2>2 DEF Redis!Idle, Redis!Busy
<1> QED BY <1>1, InitIInv, StepIInv, PTL DEF Spec

-----------------------------------------------------------------------------
(* Either store keeps the lease of SessionLease.                           *)

\* Redis.  A key a call has renewed is a tick short of Ttl at most, so a key
\* lasts Ttl ticks, less one, from the end of any call; and where every call
\* went to its end, no longer than Ttl.
Renewed == \A w \in Workers : \A i \in Positions :
  i < call[w].next /\ ttl[Redis!Touched[i]] # Redis!Absent =>
    ttl[Redis!Touched[i]] + (IF call[w].late THEN 1 ELSE 0) >= Ttl
Lasting  == \A k \in Redis!Keys : ttl[k] # Redis!Absent => ttl[k] + quiet + 1 >= Ttl
Expiring == Redis!Idle /\ ~torn => \A k \in Redis!Keys : ttl[k] # Redis!Absent => ttl[k] + quiet <= Ttl

RedisLease == Renewed /\ Lasting /\ Expiring

\* Memory.  _last_seen is as old as the last call.  Unless a write raced with a
\* pop, what a call has popped stays popped, a sweep only meets a session that
\* is over, and data without _last_seen belongs to a call about to touch it.
InStep == seen # Memory!Absent => seen = quiet \/ (seen > Ttl /\ quiet > Ttl)
Gone   == \A w \in Workers : task[w].at \in Memory!Popping =>
  \A i \in Positions : i < task[w].n => Memory!Popped[i] \notin data
Over   == \A w \in Workers : task[w].at = "sweep" => seen > Ttl \/ (seen = Memory!Absent /\ data = {})
Owned  == seen = Memory!Absent /\ data # {} => \E w \in Workers : task[w].at = "touch"

MemoryLease == InStep /\ ("session" \notin raced => Gone /\ Over /\ Owned)

LeaseInv == IInv /\ IF use_redis THEN RedisLease ELSE MemoryLease

LEMMA RedisStarted ==
  ASSUME Redis!Init PROVE RedisLease
<1>1. \A k \in Redis!Keys : ttl[k] = Redis!Absent
  BY DEF Redis!Init
<1> QED BY <1>1, TouchedKeys DEF RedisLease, Renewed, Lasting, Expiring

\* A call that begins renews nothing yet; what it stores, it stores for good.
LEMMA RedisBegins ==
  ASSUME RedisInv, RedisLease, NEW w \in Workers, Redis!Begin(w),
         \A k \in Redis!Keys : ttl'[k] \in {ttl[k], Redis!Absent, Redis!Forever}
  PROVE  RedisLease' /\ ~Redis!Idle'
<1>1. /\ call'[w].next = 1 /\ quiet' = quiet
      /\ \A v \in Workers \ {w} : call'[v] = call[v]
  BY DEF Redis!Begin, RedisInv, Redis!TypeOK
<1>2. ~Redis!Idle'
  BY <1>1 DEF Redis!Idle, Redis!Busy
<1>3. \A k \in Redis!Keys : ttl[k] \in Nat
  BY TtlAssumption DEF RedisInv, Redis!TypeOK, Redis!Forever
<1>4. Ttl \in Nat /\ quiet \in Nat
  BY TtlAssumption DEF RedisInv, Redis!TypeOK
<1>5. Renewed'
  <2> SUFFICES ASSUME NEW v \in Workers, NEW i \in Positions, i < call'[v].next,
                      ttl'[Redis!Touched[i]] # Redis!Absent
               PROVE  ttl'[Redis!Touched[i]] + (IF call'[v].late THEN 1 ELSE 0) >= Ttl
    BY DEF Renewed
  <2>1. PICK k \in Redis!Keys : k = Redis!Touched[i]
    BY TouchedKeys
  <2>2. v # w /\ call'[v] = call[v]
    BY <1>1 DEF Positions
  <2>3. ttl'[k] = Redis!Forever \/ (ttl'[k] = ttl[k] /\ ttl[k] + (IF call[v].late THEN 1 ELSE 0) >= Ttl)
    BY <2>1, <2>2 DEF RedisLease, Renewed
  <2> QED BY <1>4, <2>1, <2>2, <2>3 DEF Redis!Forever
<1>6. Lasting'
  BY <1>1, <1>3, <1>4 DEF RedisLease, Lasting, Redis!Forever
<1> QED BY <1>2, <1>5, <1>6 DEF RedisLease, Expiring

\* A call that completes has renewed every key.
LEMMA RedisTouches ==
  ASSUME RedisInv, RedisInv', RedisLease, NEW w \in Workers, Redis!Touch(w)
  PROVE  RedisLease'
<1> DEFINE n == call[w].next
<1>1. n \in Positions /\ Redis!Touched[n] \in Redis!Keys /\ Len(Redis!Touched) = 5
  BY TouchedKeys DEF Redis!Touch, Redis!Busy, RedisInv, Redis!TypeOK, Positions
<1>2. Ttl \in Nat /\ quiet \in Nat /\ \A k \in Redis!Keys : ttl[k] \in Nat /\ ttl'[k] \in 0..Ttl + 1
  BY TtlAssumption DEF RedisInv, Redis!TypeOK, Redis!Forever
<1>3. \A k \in Redis!Keys : ttl'[k] = IF k = Redis!Touched[n] /\ ttl[k] # Redis!Absent THEN Ttl ELSE ttl[k]
  BY <1>1 DEF Redis!Touch, RedisInv, Redis!TypeOK
<1>4. /\ \A v \in Workers \ {w} : call'[v] = call[v]
      /\ \/ n < 5 /\ call'[w].next = n + 1 /\ call'[w].late = call[w].late /\ quiet' = quiet
         \/ n = 5 /\ call'[w].next = 0 /\ quiet' = 0
  BY <1>1 DEF Redis!Touch, RedisInv, Redis!TypeOK, Redis!NoCall, Positions
<1>5. Renewed'
  <2> SUFFICES ASSUME NEW v \in Workers, NEW i \in Positions, i < call'[v].next,
                      ttl'[Redis!Touched[i]] # Redis!Absent
               PROVE  ttl'[Redis!Touched[i]] + (IF call'[v].late THEN 1 ELSE 0) >= Ttl
    BY DEF Renewed
  <2>1. PICK k \in Redis!Keys : k = Redis!Touched[i]
    BY TouchedKeys
  <2>2. CASE k = Redis!Touched[n] /\ ttl[k] # Redis!Absent
    BY <1>2, <1>3, <2>1, <2>2
  <2>3. CASE ~(k = Redis!Touched[n] /\ ttl[k] # Redis!Absent)
    <3>1. ttl'[k] = ttl[k] /\ i # n
      BY <1>3, <2>1, <2>3
    <3>2. i < call[v].next /\ call'[v].late = call[v].late
      BY <1>1, <1>4, <3>1 DEF Positions
    <3> QED BY <2>1, <3>1, <3>2 DEF RedisLease, Renewed
  <2> QED BY <2>2, <2>3
<1>6. Lasting'
  <2>1. CASE quiet' = quiet
    BY <1>2, <1>3, <2>1 DEF RedisLease, Lasting
  <2>2. CASE n = 5 /\ quiet' = 0
    <3> SUFFICES ASSUME NEW k \in Redis!Keys, ttl'[k] # Redis!Absent PROVE ttl'[k] + 1 >= Ttl
      BY <1>2, <2>2 DEF Lasting
    <3>1. PICK i \in Positions : Redis!Touched[i] = k
      BY TouchedKeys
    <3>2. CASE i = n
      BY <1>2, <1>3, <3>1, <3>2
    <3>3. CASE i # n
      <4>1. i < n /\ ttl'[k] = ttl[k]
        BY <1>1, <1>3, <2>2, <3>1, <3>3, TouchedKeys DEF Positions
      <4> QED BY <1>2, <3>1, <4>1 DEF RedisLease, Renewed
    <3> QED BY <3>2, <3>3
  <2> QED BY <1>4, <2>1, <2>2
<1>7. Expiring'
  <2> SUFFICES ASSUME Redis!Idle', ~torn', NEW k \in Redis!Keys, ttl'[k] # Redis!Absent
               PROVE  ttl'[k] + quiet' <= Ttl
    BY DEF Expiring
  <2>1. quiet' = 0
    BY <1>1, <1>4 DEF Redis!Idle, Redis!Busy, Positions
  <2>2. PICK i \in Positions : Redis!Touched[i] = k
    BY TouchedKeys
  <2>3. ttl'[k] # Redis!Forever
    BY <2>2 DEF RedisInv, Repaired, Coming, Redis!Idle, Redis!Busy
  <2> QED BY <1>2, <2>1, <2>3 DEF Redis!Forever
<1> QED BY <1>5, <1>6, <1>7 DEF RedisLease

LEMMA RedisTicks ==
  ASSUME RedisInv, RedisLease, Redis!Tick PROVE RedisLease' /\ Redis!Idle' = Redis!Idle
<1>1. Ttl \in Nat /\ Ttl >= 2 /\ quiet \in 0..Ttl + 1 /\ \A k \in Redis!Keys : ttl[k] \in 0..Ttl + 1
  BY TtlAssumption DEF RedisInv, Redis!TypeOK, Redis!Forever
<1>2. \A k \in Redis!Keys : ttl'[k] = IF ttl[k] = 0 \/ ttl[k] = Ttl + 1 THEN ttl[k] ELSE ttl[k] - 1
  BY DEF Redis!Tick, Redis!Absent, Redis!Forever
<1>3. \A w \in Workers : /\ ~call[w].late /\ call'[w].next = call[w].next
                         /\ call[w].next # 0 => call'[w].late
  BY DEF Redis!Tick, Redis!Busy, RedisInv, Redis!TypeOK
<1>4. quiet' = IF quiet > Ttl THEN quiet ELSE quiet + 1
  BY DEF Redis!Tick
<1>5. Renewed'
  <2> SUFFICES ASSUME NEW v \in Workers, NEW i \in Positions, i < call'[v].next,
                      ttl'[Redis!Touched[i]] # Redis!Absent
               PROVE  ttl'[Redis!Touched[i]] + (IF call'[v].late THEN 1 ELSE 0) >= Ttl
    BY DEF Renewed
  <2>1. PICK k \in Redis!Keys : k = Redis!Touched[i]
    BY TouchedKeys
  <2>2. i < call[v].next /\ call'[v].late /\ ~call[v].late
    BY <1>3 DEF Positions
  <2>3. ttl[k] # Redis!Absent => ttl[k] >= Ttl
    BY <1>1, <2>1, <2>2 DEF RedisLease, Renewed
  <2> QED BY <1>1, <1>2, <2>1, <2>2, <2>3 DEF Redis!Absent
<1>6. Lasting'
  BY <1>1, <1>2, <1>4 DEF RedisLease, Lasting, Redis!Absent
<1>7. Redis!Idle' = Redis!Idle /\ torn' = torn
  BY <1>3 DEF Redis!Idle, Redis!Busy, Redis!Tick
<1>8. Expiring'
  BY <1>1, <1>2, <1>4, <1>7 DEF RedisLease, Expiring, Redis!Absent
<1> QED BY <1>5, <1>6, <1>7, <1>8 DEF RedisLease

LEMMA RedisCommands ==
  ASSUME RedisInv, RedisInv', RedisLease, NEW w \in Workers, Redis!Command(w)
  PROVE  /\ RedisLease' /\ (~Redis!Idle \/ ~Redis!Idle') /\ quiet' \in {0, quiet}
         /\ \E f \in Redis!Keys : Redis!Kept \ {f} \subseteq Redis!Kept'
<1>1. ttl \in [Redis!Keys -> 0..Redis!Forever] /\ "messages" \in Redis!Keys
      /\ "vpn_context" \in Redis!Keys /\ "pending_handoff" \in Redis!Keys
  BY DEF RedisInv, Redis!TypeOK, Redis!Keys
<1>2. ASSUME Redis!Begin(w), NEW f \in Redis!Keys, NEW x \in {ttl[f], Redis!Absent, Redis!Forever},
             ttl' = [ttl EXCEPT ![f] = x]
      PROVE  /\ RedisLease' /\ ~Redis!Idle' /\ quiet' = quiet
             /\ Redis!Kept \ {f} \subseteq Redis!Kept'
  <2>1. \A k \in Redis!Keys : ttl'[k] = IF k = f THEN x ELSE ttl[k]
    BY <1>1, <1>2
  <2>2. RedisLease' /\ ~Redis!Idle'
    BY <1>2, <2>1, RedisBegins
  <2>3. quiet' = quiet
    BY <1>2 DEF Redis!Begin
  <2> QED BY <2>1, <2>2, <2>3 DEF Redis!Kept
<1>3. CASE Redis!AddMessage(w)
  BY <1>1, <1>2, <1>3 DEF Redis!AddMessage
<1>4. CASE Redis!SetField(w)
  BY <1>2, <1>4 DEF Redis!SetField
<1>5. CASE Redis!ClearField(w)
  BY <1>1, <1>2, <1>5 DEF Redis!ClearField
<1>6. CASE Redis!GetField(w)
  <2>1. ttl' = [ttl EXCEPT !["messages"] = ttl["messages"]]
    BY <1>1, <1>6 DEF Redis!GetField
  <2> QED BY <1>1, <1>2, <1>6, <2>1 DEF Redis!GetField
<1>7. CASE Redis!Touch(w)
  <2>1. RedisLease'
    BY <1>7, RedisTouches
  <2>2. ~Redis!Idle /\ quiet' \in {0, quiet}
    BY <1>7 DEF Redis!Touch, Redis!Idle
  <2>3. Redis!Kept \subseteq Redis!Kept'
    BY <1>1, <1>7, TtlAssumption DEF Redis!Touch, Redis!Kept, Redis!Absent
  <2> QED BY <1>1, <2>1, <2>2, <2>3
<1> QED BY <1>3, <1>4, <1>5, <1>6, <1>7 DEF Redis!Command

\* A step of Redis that tears nothing is a step of the lease.
LEMMA RedisLeases ==
  ASSUME use_redis, use_redis', RedisInv, RedisInv', RedisLease, Redis!Next, ~torn, ~torn'
  PROVE  RedisLease' /\ Lease!Next
<1>1. /\ Memory!Fields = Redis!Keys /\ Redis!Kept \subseteq Redis!Keys /\ Redis!Kept' \subseteq Redis!Keys
      /\ Redis!Idle \in BOOLEAN /\ Redis!Idle' \in BOOLEAN
  BY DEF Memory!Fields, Redis!Keys, Redis!Kept, Redis!Idle
<1>2. CASE \E w \in Workers : Redis!Command(w)
  <2>1. /\ RedisLease' /\ (~Redis!Idle \/ ~Redis!Idle') /\ quiet' \in {0, quiet}
        /\ \E f \in Redis!Keys : Redis!Kept \ {f} \subseteq Redis!Kept'
    BY <1>2, RedisCommands
  <2>2. Lease!Serve
    BY <1>1, <2>1 DEF Lease!Serve
  <2> QED BY <2>1, <2>2 DEF Lease!Next
<1>3. CASE Redis!DeleteSession
  <2>1. Redis!Kept' = {} /\ \A k \in Redis!Keys : ttl'[k] = Redis!Absent
    BY <1>3 DEF Redis!DeleteSession, Redis!Kept
  <2>2. RedisLease' /\ Redis!Idle' = Redis!Idle /\ quiet' = quiet
    BY <1>3, <2>1, TouchedKeys
       DEF Redis!DeleteSession, RedisLease, Renewed, Lasting, Expiring, Redis!Idle, Redis!Busy
  <2>3. Lease!End
    BY <1>1, <2>1, <2>2 DEF Lease!End
  <2> QED BY <2>2, <2>3 DEF Lease!Next
<1>4. CASE Redis!Tear
  BY <1>4 DEF Redis!Tear
<1>5. CASE Redis!Tick
  <2>1. RedisLease' /\ Redis!Idle' = Redis!Idle
    BY <1>5, RedisTicks
  <2>2. Ttl \in Nat /\ Ttl >= 2 /\ quiet \in 0..Ttl + 1 /\ \A k \in Redis!Keys : ttl[k] \in 0..Ttl + 1
    BY TtlAssumption DEF RedisInv, Redis!TypeOK, Redis!Forever
  <2>3. /\ quiet' = IF quiet > Ttl THEN quiet ELSE quiet + 1
        /\ \A k \in Redis!Keys : ttl'[k] = IF ttl[k] = 0 \/ ttl[k] = Ttl + 1 THEN ttl[k] ELSE ttl[k] - 1
    BY <1>5 DEF Redis!Tick, Redis!Absent, Redis!Forever
  <2>4. Redis!Kept' \subseteq Redis!Kept
    BY <2>3 DEF Redis!Kept, Redis!Absent
  <2>5. quiet' + 1 < Ttl => Redis!Kept' = Redis!Kept
    <3> SUFFICES ASSUME quiet' + 1 < Ttl, NEW k \in Redis!Keys, ttl[k] # 0 PROVE ttl'[k] # 0
      BY <2>4 DEF Redis!Kept, Redis!Absent
    <3>1. ttl[k] + quiet + 1 >= Ttl
      BY DEF RedisLease, Lasting, Redis!Absent
    <3> QED BY <2>2, <2>3, <3>1
  <2>6. quiet' > Ttl /\ Redis!Idle => Redis!Kept' = {}
    <3> SUFFICES ASSUME quiet' > Ttl, Redis!Idle, NEW k \in Redis!Keys, ttl'[k] # 0 PROVE FALSE
      BY DEF Redis!Kept, Redis!Absent
    <3>1. ttl'[k] + quiet' <= Ttl
      BY <2>1 DEF RedisLease, Expiring, Redis!Absent
    <3> QED BY <2>2, <2>3, <3>1
  <2>7. Lease!Pass
    BY <1>1, <2>1, <2>2, <2>3, <2>4, <2>5, <2>6 DEF Lease!Pass
  <2> QED BY <2>1, <2>7 DEF Lease!Next
<1> QED BY <1>2, <1>3, <1>4, <1>5 DEF Redis!Next

\* What the assignments to task make of a worker's task.
LEMMA TaskAt ==
  ASSUME Memory!TypeOK, NEW w \in Workers, NEW at, NEW n, Memory!At(w, at, n)
  PROVE  task'[w].at = at /\ task'[w].n = n /\ \A v \in Workers \ {w} : task'[v] = task[v]
  BY DEF Memory!At, Memory!TypeOK

LEMMA TaskEnd ==
  ASSUME Memory!TypeOK, NEW w \in Workers, Memory!End(w)
  PROVE  task'[w].at = "idle" /\ \A v \in Workers \ {w} : task'[v] = task[v]
  BY DEF Memory!End, Memory!TypeOK, Memory!NoTask

LEMMA TaskNext ==
  ASSUME Memory!TypeOK, NEW w \in Workers, Memory!NextDict(w)
  PROVE  task'[w].at \in {"dict", "body"} /\ \A v \in Workers \ {w} : task'[v] = task[v]
  BY TaskAt DEF Memory!NextDict

\* A step of w that adds nothing to the session and leaves _last_seen alone
\* keeps the invariant; where w pops on, it has popped what it passes.
LEMMA MemoryQuiet ==
  ASSUME MemoryLease, NEW w \in Workers, UNCHANGED <<seen, quiet>>, raced \subseteq raced', data' \subseteq data,
         \A v \in Workers \ {w} : task'[v] = task[v], task[w].at # "touch",
         task'[w].at = "sweep" => seen > Ttl \/ task[w].at = "sweep",
         task'[w].at \in Memory!Popping =>
           \A i \in Positions : i < task'[w].n =>
             Memory!Popped[i] \notin data' \/ (task[w].at \in Memory!Popping /\ i < task[w].n)
  PROVE  MemoryLease'
<1>1. InStep'
  BY DEF MemoryLease, InStep
<1>2. ASSUME "session" \notin raced' PROVE Gone' /\ Over' /\ Owned'
  <2>1. Gone /\ Over /\ Owned
    BY <1>2 DEF MemoryLease
  <2>2. ASSUME NEW v \in Workers, task'[v].at \in Memory!Popping, NEW i \in Positions, i < task'[v].n
        PROVE  Memory!Popped[i] \notin data'
    BY <2>1, <2>2 DEF Gone
  <2>3. Over'
    BY <2>1 DEF Over
  <2>4. Owned'
    BY <2>1 DEF Owned
  <2> QED BY <2>2, <2>3, <2>4 DEF Gone
<1> QED BY <1>1, <1>2 DEF MemoryLease

\* The dictionaries of a session are popped one by one, and all of them.
LEMMA PoppedFields ==
  /\ Len(Memory!Popped) = 5
  /\ \A f \in Memory!Fields : \E i \in Positions : Memory!Popped[i] = f
<1>1. /\ Len(Memory!Popped) = 5
      /\ Memory!Popped[1] = "messages" /\ Memory!Popped[2] = "last_intent" /\ Memory!Popped[3] = "vpn_context"
      /\ Memory!Popped[4] = "company_id" /\ Memory!Popped[5] = "pending_handoff"
  BY DEF Memory!Popped
<1>2. {1, 2, 3, 4, 5} \subseteq Positions
  BY DEF Positions
<1> QED BY <1>1, <1>2 DEF Memory!Fields

\* The steps of a call that neither pop nor write the session.
LEMMA MemoryReads ==
  ASSUME Memory!TypeOK, Memory!TypeOK', MemoryLease, NEW w \in Workers,
         \/ Memory!Begin(w) \/ Memory!ListDict(w) \/ Memory!PopEmail(w)
         \/ Memory!PutEmail(w) \/ Memory!ClearEmail(w) \/ Memory!Look(w)
  PROVE  /\ MemoryLease' /\ UNCHANGED <<data, seen, quiet>> /\ Memory!Open' = Memory!Open
<1>1. /\ UNCHANGED <<data, seen, quiet>> /\ raced \subseteq raced'
      /\ task[w].at \in {"idle", "dict", "expire", "body"}
  BY DEF Memory!Begin, Memory!ListDict, Memory!PopEmail, Memory!PutEmail, Memory!ClearEmail,
     Memory!Look, Memory!Racing
<1>2. /\ \A v \in Workers \ {w} : task'[v] = task[v]
      /\ \/ task'[w].at \in {"idle", "dict", "expire", "body"}
         \/ task'[w].at = "sweep" /\ task'[w].n = 1 /\ seen > Ttl
  <2>1. CASE Memory!Begin(w)
    BY <2>1, TaskAt DEF Memory!Begin, Memory!AfterSessions
  <2>2. CASE Memory!ListDict(w)
    BY <2>2, TaskAt, TaskNext DEF Memory!ListDict
  <2>3. CASE Memory!PopEmail(w)
    BY <2>3, TaskNext DEF Memory!PopEmail
  <2>4. CASE Memory!PutEmail(w) \/ Memory!ClearEmail(w) \/ Memory!Look(w)
    BY <2>4, TaskEnd DEF Memory!PutEmail, Memory!ClearEmail, Memory!Look
  <2> QED BY <2>1, <2>2, <2>3, <2>4
<1>3. MemoryLease'
  BY <1>1, <1>2, MemoryQuiet DEF Memory!Popping, Positions
<1>4. Memory!Open' = Memory!Open
  BY <1>1, <1>2 DEF Memory!Open
<1> QED BY <1>1, <1>3, <1>4

\* A pop: of a session that is over, or by its deletion.
LEMMA MemoryPops ==
  ASSUME Memory!TypeOK, Memory!TypeOK', MemoryLease, NEW w \in Workers, Memory!PopSession(w),
         "session" \notin raced
  PROVE  /\ MemoryLease' /\ quiet' = quiet
         /\ \/ Memory!Kept' = Memory!Kept /\ Memory!Open' = Memory!Open
            \/ Memory!Open /\ \E f \in Memory!Fields : Memory!Kept \ {f} \subseteq Memory!Kept'
<1> USE DEF Memory!Popping
<1>0. /\ Len(Memory!Popped) = 5 /\ quiet' = quiet /\ raced' = raced /\ task[w].at \in {"sweep", "delete"}
      /\ Gone /\ Over /\ Owned /\ task[w].n \in 0..6 /\ Ttl \in Nat /\ seen \in -1..Ttl + 2
  BY PoppedFields, TtlAssumption
     DEF Memory!PopSession, MemoryLease, Memory!TypeOK, Memory!Absent, Memory!Old
<1>1. task[w].at = "delete" => Memory!Open
  BY DEF Memory!Open
<1>2. task[w].at = "sweep" => Memory!Kept = {}
  BY <1>0 DEF Over, Memory!Kept
<1>3. CASE task[w].n <= 5
  <2>1. /\ data' = data \ {Memory!Popped[task[w].n]} /\ seen' = seen
        /\ task'[w].at = task[w].at /\ task'[w].n = task[w].n + 1
        /\ \A v \in Workers \ {w} : task'[v] = task[v]
    BY <1>0, <1>3, TaskAt DEF Memory!PopSession
  <2>2. \A i \in Positions : i < task'[w].n => Memory!Popped[i] \notin data' \/ i < task[w].n
    BY <1>0, <2>1 DEF Positions
  <2>3. MemoryLease'
    BY <1>0, <2>1, <2>2, MemoryQuiet
  <2>4. Memory!Open' = Memory!Open
    BY <2>1 DEF Memory!Open
  <2>5. task[w].at = "sweep" => Memory!Kept' = {}
    BY <1>0, <2>1 DEF Over, Memory!Kept
  <2>6. \E f \in Memory!Fields : data \ {f} \subseteq data'
    BY <2>1 DEF Memory!TypeOK, Memory!Fields
  <2>7. \E f \in Memory!Fields : Memory!Kept \ {f} \subseteq Memory!Kept'
    BY <2>1, <2>6 DEF Memory!Kept
  <2> QED BY <1>0, <1>1, <1>2, <2>3, <2>4, <2>5, <2>7
<1>4. CASE ~(task[w].n <= 5)
  <2>1. /\ data' = data /\ seen' = Memory!Absent
        /\ task'[w].at \in {"dict", "body", "idle"} /\ (task[w].at = "sweep" => task'[w].at \in {"dict", "body"})
        /\ \A v \in Workers \ {w} : task'[v] = task[v]
    BY <1>0, <1>4, TaskAt, TaskEnd DEF Memory!PopSession, Memory!AfterSessions
  <2>2. data = {}
    <3>1. \A i \in Positions : Memory!Popped[i] \notin data
      BY <1>0, <1>4 DEF Gone, Positions
    <3> QED BY <3>1, PoppedFields DEF Memory!TypeOK
  <2>3. MemoryLease'
    BY <1>0, <2>1, <2>2 DEF MemoryLease, InStep, Gone, Over, Owned
  <2>4. Memory!Kept = {} /\ Memory!Kept' = {}
    BY <2>1, <2>2 DEF Memory!Kept
  <2>5. task[w].at = "sweep" => Memory!Open' = Memory!Open
    BY <2>1 DEF Memory!Open
  <2>6. "messages" \in Memory!Fields
    BY DEF Memory!Fields
  <2> QED BY <1>0, <1>1, <2>3, <2>4, <2>5, <2>6
<1> QED BY <1>3, <1>4

\* The steps that serve the session: a call that keeps or deletes it is open
\* before or after each of them.
LEMMA MemoryServes ==
  ASSUME Memory!TypeOK, Memory!TypeOK', MemoryLease, NEW w \in Workers, "session" \notin raced',
         \/ Memory!Put(w) \/ Memory!ClearField(w) \/ Memory!Check(w) \/ Memory!Touch(w)
         \/ Memory!DeleteSession(w)
  PROVE  /\ MemoryLease' /\ quiet' \in {0, quiet}
         /\ \/ Memory!Kept' = Memory!Kept /\ Memory!Open' = Memory!Open
            \/ /\ Memory!Open \/ Memory!Open'
               /\ \E f \in Memory!Fields : Memory!Kept \ {f} \subseteq Memory!Kept'
<1> USE DEF Memory!Popping
<1>0. /\ "messages" \in Memory!Fields /\ "vpn_context" \in Memory!Fields
      /\ "pending_handoff" \in Memory!Fields
      /\ Ttl \in Nat /\ seen \in -1..Ttl + 2
  BY TtlAssumption DEF Memory!Fields, Memory!TypeOK, Memory!Absent, Memory!Old
<1>1. ASSUME \A v \in Workers \ {w} : task[v].at \notin Memory!Popping /\ task'[v] = task[v],
             task'[w].at \notin Memory!Popping, InStep', Owned'
      PROVE  MemoryLease'
  BY <1>1 DEF MemoryLease, Gone, Over
<1>2. CASE Memory!Put(w)
  <2>1. PICK f \in Memory!Fields : data' = data \cup {f}
    BY <1>2 DEF Memory!Put
  <2>2. /\ task'[w].at = "touch" /\ \A v \in Workers \ {w} : task'[v] = task[v]
        /\ seen' = seen /\ quiet' = quiet
    BY <1>2, TaskAt DEF Memory!Put
  <2>3. ~Memory!Swept(w)
    BY <1>2 DEF Memory!Put, Memory!Racing
  <2>4. InStep' /\ Owned'
    BY <2>2 DEF MemoryLease, InStep, Owned
  <2>5. MemoryLease'
    BY <1>1, <2>2, <2>3, <2>4 DEF Memory!Swept
  <2>6. Memory!Open' /\ Memory!Kept \ {f} \subseteq Memory!Kept'
    BY <2>1, <2>2 DEF Memory!Open, Memory!Kept
  <2> QED BY <2>2, <2>5, <2>6
<1>3. CASE Memory!ClearField(w)
  <2>1. PICK f \in Memory!Fields : data' = data \ {f}
    BY <1>0, <1>3 DEF Memory!ClearField
  <2>2. /\ task'[w].at = "check" /\ \A v \in Workers \ {w} : task'[v] = task[v]
        /\ UNCHANGED <<seen, quiet, raced>> /\ task[w].at = "body"
    BY <1>3, TaskAt DEF Memory!ClearField
  <2>3. MemoryLease'
    BY <2>1, <2>2, MemoryQuiet
  <2>4. Memory!Open' /\ Memory!Kept \ {f} \subseteq Memory!Kept'
    BY <2>1, <2>2 DEF Memory!Open, Memory!Kept
  <2> QED BY <2>2, <2>3, <2>4
<1>4. CASE Memory!Check(w)
  <2>1. /\ task'[w].at \in {"touch", "idle"} /\ \A v \in Workers \ {w} : task'[v] = task[v]
        /\ UNCHANGED <<data, seen, quiet, raced>> /\ task[w].at \in {"body", "check"}
    BY <1>4, TaskAt, TaskEnd DEF Memory!Check
  <2>2. MemoryLease'
    BY <2>1, MemoryQuiet
  <2>3. Memory!Kept' = Memory!Kept
    BY <2>1 DEF Memory!Kept
  <2>4. Memory!Open' = Memory!Open \/ Memory!Open \/ Memory!Open'
    BY <2>1 DEF Memory!Open
  <2> QED BY <1>0, <2>1, <2>2, <2>3, <2>4
<1>5. CASE Memory!Touch(w)
  <2>1. /\ task'[w].at = "idle" /\ \A v \in Workers \ {w} : task'[v] = task[v]
        /\ seen' = 0 /\ quiet' = 0 /\ data' = data /\ task[w].at = "touch"
    BY <1>5, TaskEnd DEF Memory!Touch
  <2>2. ~Memory!Swept(w)
    BY <1>5 DEF Memory!Touch, Memory!Racing
  <2>3. InStep' /\ Owned'
    BY <2>1 DEF InStep, Owned, Memory!Absent
  <2>4. MemoryLease'
    BY <1>1, <2>1, <2>2, <2>3 DEF Memory!Swept
  <2>5. Memory!Open /\ Memory!Kept \subseteq Memory!Kept'
    BY <1>0, <2>1 DEF Memory!Open, Memory!Kept
  <2> QED BY <1>0, <2>1, <2>4, <2>5
<1>6. CASE Memory!DeleteSession(w)
  <2>1. /\ task'[w].at = "delete" /\ task'[w].n = 1 /\ \A v \in Workers \ {w} : task'[v] = task[v]
        /\ UNCHANGED <<data, seen, quiet, raced>> /\ task[w].at = "body"
    BY <1>6, TaskAt DEF Memory!DeleteSession
  <2>2. MemoryLease'
    BY <2>1, MemoryQuiet DEF Positions
  <2>3. Memory!Open' /\ Memory!Kept' = Memory!Kept
    BY <2>1 DEF Memory!Open, Memory!Kept
  <2> QED BY <1>0, <2>1, <2>2, <2>3
<1> QED BY <1>2, <1>3, <1>4, <1>5, <1>6

LEMMA MemoryTicks ==
  ASSUME Memory!TypeOK, MemoryLease, Memory!Tick
  PROVE  MemoryLease' /\ Memory!Open' = Memory!Open
<1>1. Ttl \in Nat /\ seen \in -1..Ttl + 2 /\ quiet \in 0..Ttl + 1
  BY TtlAssumption DEF Memory!TypeOK, Memory!Absent, Memory!Old
<1>2. /\ seen' = IF seen = -1 \/ seen = Ttl + 2 THEN seen ELSE seen + 1
      /\ quiet' = IF quiet > Ttl THEN quiet ELSE quiet + 1
      /\ data' = data /\ raced' = raced
  BY DEF Memory!Tick, Memory!Aged, Memory!Absent, Memory!Old
<1>3. \A w \in Workers : task'[w].at = task[w].at /\ task'[w].n = task[w].n
  BY DEF Memory!Tick, Memory!TypeOK
<1>4. InStep'
  BY <1>1, <1>2 DEF MemoryLease, InStep, Memory!Absent
<1>5. (Gone => Gone') /\ (Owned => Owned') /\ (Over => Over')
  BY <1>1, <1>2, <1>3 DEF Gone, Owned, Over, Memory!Absent
<1>6. Memory!Open' = Memory!Open
  BY <1>3 DEF Memory!Open
<1> QED BY <1>2, <1>4, <1>5, <1>6 DEF MemoryLease

LEMMA MemoryStarted ==
  ASSUME Memory!Init \/ Memory!Restart
  PROVE  /\ Memory!Init => MemoryLease
         /\ Memory!Restart => MemoryLease' /\ ~Memory!Open' /\ Memory!Kept' = {} /\ quiet' = quiet
<1>1. ASSUME Memory!Init PROVE MemoryLease
  BY <1>1 DEF Memory!Init, Memory!NoTask, MemoryLease, InStep, Gone, Over, Owned, Memory!Popping
<1>2. ASSUME Memory!Restart PROVE MemoryLease' /\ ~Memory!Open' /\ Memory!Kept' = {} /\ quiet' = quiet
  <2>1. data' = {} /\ seen' = Memory!Absent /\ quiet' = quiet /\ \A w \in Workers : task'[w].at = "idle"
    BY <1>2 DEF Memory!Restart, Memory!Empty, Memory!NoTask
  <2> QED BY <2>1 DEF MemoryLease, InStep, Gone, Over, Owned, Memory!Popping, Memory!Open, Memory!Kept
<1> QED BY <1>1, <1>2

\* A step of the memory store keeps the invariant whatever races, and where
\* nothing raced it is a step of the lease.
LEMMA MemoryKeeps ==
  ASSUME Memory!TypeOK, Memory!TypeOK', MemoryLease, Memory!Next PROVE MemoryLease'
<1>1. CASE Memory!Tick
  BY <1>1, MemoryTicks
<1>2. CASE Memory!Restart
  BY <1>2, MemoryStarted
<1>3. ASSUME NEW w \in Workers, Memory!Step(w) PROVE MemoryLease'
  <2>1. CASE \/ Memory!Begin(w) \/ Memory!ListDict(w) \/ Memory!PopEmail(w)
             \/ Memory!PutEmail(w) \/ Memory!ClearEmail(w) \/ Memory!Look(w)
    BY <2>1, MemoryReads
  <2>2. CASE Memory!PopSession(w)
    <3>1. CASE "session" \notin raced
      BY <2>2, <3>1, MemoryPops
    <3>2. CASE "session" \in raced
      <4>1. InStep' /\ raced' = raced
        BY <2>2 DEF Memory!PopSession, MemoryLease, InStep
      <4> QED BY <3>2, <4>1 DEF MemoryLease
    <3> QED BY <3>1, <3>2
  <2>3. CASE \/ Memory!Put(w) \/ Memory!ClearField(w) \/ Memory!Check(w) \/ Memory!Touch(w)
             \/ Memory!DeleteSession(w)
    <3>1. CASE "session" \notin raced'
      BY <2>3, <3>1, MemoryServes
    <3>2. CASE "session" \in raced'
      <4>1. InStep'
        BY <2>3 DEF Memory!Put, Memory!ClearField, Memory!Check, Memory!Touch, Memory!DeleteSession,
                    MemoryLease, InStep
      <4> QED BY <3>2, <4>1 DEF MemoryLease
    <3> QED BY <3>1, <3>2
  <2> QED BY <1>3, <2>1, <2>2, <2>3 DEF Memory!Step
<1> QED BY <1>1, <1>2, <1>3 DEF Memory!Next

LEMMA MemoryLeases ==
  ASSUME ~use_redis, ~use_redis', Memory!TypeOK, Memory!TypeOK', MemoryLease, Memory!Next,
         "session" \notin raced, "session" \notin raced'
  PROVE  Lease!Next \/ UNCHANGED (Lease!vars)
<1>0. Memory!Kept \subseteq Memory!Fields /\ Memory!Kept' \subseteq Memory!Fields
  BY DEF Memory!TypeOK, Memory!Kept
<1>1. ASSUME Memory!Open \/ Memory!Open', quiet' \in {0, quiet},
             \E f \in Memory!Fields : Memory!Kept \ {f} \subseteq Memory!Kept'
      PROVE  Lease!Next
  <2>1. Lease!Serve
    BY <1>0, <1>1 DEF Lease!Serve
  <2> QED BY <2>1 DEF Lease!Next
<1>2. ASSUME Memory!Kept' = Memory!Kept, Memory!Open' = Memory!Open, quiet' = quiet
      PROVE  UNCHANGED (Lease!vars)
  BY <1>2 DEF Lease!vars
<1>3. CASE Memory!Tick
  <2>1. Ttl \in Nat /\ seen \in -1..Ttl + 2 /\ quiet \in 0..Ttl + 1
    BY TtlAssumption DEF Memory!TypeOK, Memory!Absent, Memory!Old
  <2>2. /\ seen' = IF seen = -1 \/ seen = Ttl + 2 THEN seen ELSE seen + 1
        /\ quiet' = IF quiet > Ttl THEN quiet ELSE quiet + 1
        /\ data' = data
    BY <1>3 DEF Memory!Tick, Memory!Aged, Memory!Absent, Memory!Old
  <2>3. MemoryLease' /\ Memory!Open' = Memory!Open
    BY <1>3, MemoryTicks
  <2>4. Memory!Kept' \subseteq Memory!Kept
    BY <2>1, <2>2 DEF Memory!Kept
  <2>5. quiet' + 1 < Ttl => Memory!Kept' = Memory!Kept
    BY <2>1, <2>2 DEF Memory!Kept, MemoryLease, InStep, Memory!Absent
  <2>6. quiet' > Ttl /\ ~Memory!Open => Memory!Kept' = {}
    <3> SUFFICES ASSUME quiet' > Ttl, ~Memory!Open, Memory!Kept' # {} PROVE FALSE
      OBVIOUS
    <3>1. ~(seen' > Ttl) /\ data' # {}
      BY DEF Memory!Kept
    <3>2. seen' = Memory!Absent
      BY <2>1, <2>2, <2>3, <3>1 DEF MemoryLease, InStep
    <3>3. \E w \in Workers : task'[w].at = "touch"
      BY <2>3, <3>1, <3>2 DEF MemoryLease, Owned
    <3> QED BY <2>3, <3>3 DEF Memory!Open
  <2>7. Lease!Pass
    BY <2>1, <2>2, <2>3, <2>4, <2>5, <2>6 DEF Lease!Pass
  <2> QED BY <2>7 DEF Lease!Next
<1>4. CASE Memory!Restart
  <2>1. Memory!Open' = FALSE /\ Memory!Kept' = {} /\ quiet' = quiet
    BY <1>4, MemoryStarted
  <2>2. Lease!End
    BY <2>1 DEF Lease!End
  <2> QED BY <2>2 DEF Lease!Next
<1>5. ASSUME NEW w \in Workers, Memory!Step(w) PROVE Lease!Next \/ UNCHANGED (Lease!vars)
  <2>1. CASE \/ Memory!Begin(w) \/ Memory!ListDict(w) \/ Memory!PopEmail(w)
             \/ Memory!PutEmail(w) \/ Memory!ClearEmail(w) \/ Memory!Look(w)
    <3>1. UNCHANGED <<data, seen, quiet>> /\ Memory!Open' = Memory!Open
      BY <2>1, MemoryReads
    <3>2. Memory!Kept' = Memory!Kept
      BY <3>1 DEF Memory!Kept
    <3> QED BY <1>2, <3>1, <3>2
  <2>2. CASE Memory!PopSession(w)
    BY <1>1, <1>2, <2>2, MemoryPops
  <2>3. CASE \/ Memory!Put(w) \/ Memory!ClearField(w) \/ Memory!Check(w) \/ Memory!Touch(w)
             \/ Memory!DeleteSession(w)
    <3>1. /\ quiet' \in {0, quiet}
          /\ \/ Memory!Kept' = Memory!Kept /\ Memory!Open' = Memory!Open
             \/ /\ Memory!Open \/ Memory!Open'
                /\ \E f \in Memory!Fields : Memory!Kept \ {f} \subseteq Memory!Kept'
      BY <2>3, MemoryServes
    <3>2. CASE Memory!Touch(w)
      <4>1. Memory!Open
        BY <3>2 DEF Memory!Touch, Memory!Open
      <4>2. "messages" \in Memory!Fields
        BY DEF Memory!Fields
      <4> QED BY <1>1, <3>1, <4>1, <4>2
    <3>3. CASE ~Memory!Touch(w)
      <4>1. quiet' = quiet
        BY <2>3, <3>3 DEF Memory!Put, Memory!ClearField, Memory!Check, Memory!DeleteSession
      <4> QED BY <1>1, <1>2, <3>1, <4>1
    <3> QED BY <3>2, <3>3
  <2> QED BY <1>5, <2>1, <2>2, <2>3 DEF Memory!Step
<1> QED BY <1>3, <1>4, <1>5 DEF Memory!Next

LEMMA LeaseInit == ASSUME Init PROVE LeaseInv /\ Lease!Init
<1>1. LeaseInv
  BY InitIInv, RedisStarted, MemoryStarted DEF Init, LeaseInv
<1>2. Redis!Kept = {} /\ Redis!Idle /\ Memory!Kept = {} /\ ~Memory!Open /\ quiet = 0
  BY DEF Init, Redis!Init, Memory!Init, Redis!Kept, Redis!Idle, Redis!Busy, Redis!NoCall,
     Memory!Kept, Memory!Open, Memory!NoTask
<1> QED BY <1>1, <1>2 DEF Lease!Init

LEMMA LeaseStep ==
  ASSUME LeaseInv, [Next]_vars
  PROVE  /\ LeaseInv'
         /\ Disturbed \/ Disturbed' \/ Lease!Next \/ UNCHANGED (Lease!vars)
<1>1. IInv /\ IInv'
  BY StepIInv DEF LeaseInv
<1>2. CASE use_redis /\ Redis!Next /\ UNCHANGED memoryVars /\ UNCHANGED use_redis
  <2>1. use_redis' /\ RedisLease
    BY <1>2 DEF LeaseInv
  <2>2. RedisLease'
    <3>1. CASE Redis!Tear
      <4>1. PICK ended \in SUBSET {w \in Workers : Redis!Busy(w)} :
              call' = [w \in Workers |-> IF w \in ended THEN Redis!NoCall
                                         ELSE [call[w] EXCEPT !.clean = FALSE]]
        BY <3>1 DEF Redis!Tear
      <4>2. torn' /\ UNCHANGED <<ttl, quiet>>
        BY <3>1 DEF Redis!Tear
      <4>3. \A w \in Workers : \/ call'[w].next = 0
                               \/ call'[w].next = call[w].next /\ call'[w].late = call[w].late
        BY <1>1, <4>1 DEF Redis!NoCall, IInv, RedisInv, Redis!TypeOK
      <4>4. Renewed'
        BY <2>1, <4>2, <4>3 DEF RedisLease, Renewed, Positions
      <4> QED BY <2>1, <4>2, <4>4 DEF RedisLease, Lasting, Expiring
    <3>2. CASE Redis!DeleteSession
      <4>1. \A k \in Redis!Keys : ttl'[k] = Redis!Absent
        BY <3>2 DEF Redis!DeleteSession
      <4> QED BY <4>1, TouchedKeys DEF RedisLease, Renewed, Lasting, Expiring
    <3> QED BY <1>1, <1>2, <2>1, <3>1, <3>2, RedisCommands, RedisTicks DEF Redis!Next, IInv
  <2>3. ~torn /\ ~torn' => Lease!Next
    BY <1>1, <1>2, <2>1, RedisLeases DEF IInv
  <2> QED BY <1>1, <2>1, <2>2, <2>3 DEF LeaseInv, Disturbed
<1>3. CASE ~use_redis /\ Memory!Next /\ UNCHANGED redisVars /\ UNCHANGED use_redis
  <2>1. ~use_redis' /\ MemoryLease
    BY <1>3 DEF LeaseInv
  <2>2. MemoryLease'
    BY <1>1, <1>3, <2>1, MemoryKeeps DEF IInv
  <2>3. "session" \notin raced /\ "session" \notin raced' => Lease!Next \/ UNCHANGED (Lease!vars)
    BY <1>1, <1>3, <2>1, MemoryLeases DEF IInv
  <2> QED BY <1>1, <2>1, <2>2, <2>3 DEF LeaseInv, Disturbed
<1>4. CASE UNCHANGED vars
  <2>1. RedisLease' = RedisLease /\ MemoryLease' = MemoryLease
    BY <1>4 DEF vars, redisVars, memoryVars, RedisLease, Renewed, Lasting, Expiring, Redis!Idle,
                Redis!Busy, MemoryLease, InStep, Gone, Over, Owned
  <2>2. UNCHANGED (Lease!vars)
    BY <1>4 DEF vars, redisVars, memoryVars, Lease!vars, Redis!Kept, Redis!Idle, Redis!Busy,
                Memory!Kept, Memory!Open
  <2> QED BY <1>1, <1>4, <2>1, <2>2 DEF vars, LeaseInv
<1> QED BY <1>2, <1>3, <1>4 DEF Next

\* Either store implements the lease, for any number of overlapping calls and
\* any TTL, but for the steps that a torn call or a racing write disturbs.
THEOREM StoreKeepsLease == Spec => KeepsLease
<1>1. LeaseInv /\ [Next]_vars => LeaseInv'
  BY LeaseStep
<1>2. Init => LeaseInv /\ Lease!Init
  BY LeaseInit
<1>3. LeaseInv /\ [Next]_vars => [Disturbed \/ Disturbed' \/ [Lease!Next]_(Lease!vars)]_vars
  BY LeaseStep
<1> QED BY <1>1, <1>2, <1>3, PTL DEF Spec, KeepsLease

-----------------------------------------------------------------------------
(* The memory cleanup takes no email entry before its time.                *)

\* The cleanup is at a dictionary there is, and what it has listed as expired
\* still is, or is gone, or was written meanwhile.
Stale(w, d) == d \in raced \/ emails[d] = Memory!Absent \/ Memory!Older(emails[d], w)
Listed == \A w \in Workers :
  /\ task[w].at \in {"dict", "expire"} => task[w].n \in DOMAIN Dicts
  /\ task[w].at = "expire" => Stale(w, Dicts[task[w].n])

\* Only listing an expired entry leads to its pop.
LEMMA ListedTask ==
  ASSUME Memory!TypeOK, NEW w \in Workers, Memory!Step(w)
  PROVE  /\ \A v \in Workers \ {w} : task'[v] = task[v]
         /\ task'[w].at \in {"dict", "expire"} => task'[w].n \in DOMAIN Dicts
                                                  \/ (task'[w].at = "expire" /\ task'[w].n = task[w].n)
         /\ task'[w].at = "expire" =>
              /\ task[w].at = "dict" /\ task'[w].n = task[w].n /\ task'[w].late = task[w].late
              /\ Memory!Older(emails[Dicts[task[w].n]], w) /\ UNCHANGED <<emails, raced>>
<1>1. /\ Len(Dicts) \in Nat /\ DOMAIN Dicts = 1..Len(Dicts) /\ task[w].n \in 0..6
      /\ Dicts # <<>> => 1 \in DOMAIN Dicts
  BY DictsAssumption DEF Memory!TypeOK
<1>2. ASSUME Memory!NextDict(w)
      PROVE  /\ \A v \in Workers \ {w} : task'[v] = task[v]
             /\ task'[w].at # "expire"
             /\ task'[w].at = "dict" => task'[w].n \in DOMAIN Dicts
  BY <1>1, <1>2, TaskAt DEF Memory!NextDict
<1>3. CASE Memory!Begin(w)
  BY <1>1, <1>3, TaskAt DEF Memory!Begin, Memory!AfterSessions
<1>4. CASE Memory!PopSession(w)
  <2>1. task[w].at \in {"sweep", "delete"}
    BY <1>4 DEF Memory!PopSession, Memory!Popping
  <2> QED BY <1>1, <1>4, <2>1, TaskAt, TaskEnd DEF Memory!PopSession, Memory!AfterSessions
<1>5. CASE Memory!ListDict(w)
  <2>1. CASE Memory!NextDict(w)
    BY <1>2, <2>1
  <2>2. CASE ~Memory!NextDict(w)
    <3>1. /\ Memory!At(w, "expire", task[w].n) /\ Memory!Older(emails[Dicts[task[w].n]], w)
          /\ task[w].at = "dict" /\ UNCHANGED <<emails, raced>>
      BY <1>5, <2>2 DEF Memory!ListDict
    <3>2. task'[w].late = task[w].late
      BY <3>1 DEF Memory!At, Memory!TypeOK
    <3> QED BY <3>1, <3>2, TaskAt
  <2> QED BY <2>1, <2>2
<1>6. CASE Memory!PopEmail(w)
  BY <1>2, <1>6 DEF Memory!PopEmail
<1>7. CASE Memory!Put(w) \/ Memory!ClearField(w) \/ Memory!DeleteSession(w)
  <2>1. \E at \in {"touch", "check", "delete"} : \E n : Memory!At(w, at, n)
    BY <1>7 DEF Memory!Put, Memory!ClearField, Memory!DeleteSession
  <2> QED BY <2>1, TaskAt
<1>8. CASE Memory!Check(w)
  BY <1>8, TaskAt, TaskEnd DEF Memory!Check
<1>9. CASE Memory!Touch(w) \/ Memory!PutEmail(w) \/ Memory!ClearEmail(w) \/ Memory!Look(w)
  BY <1>9, TaskEnd DEF Memory!Touch, Memory!PutEmail, Memory!ClearEmail, Memory!Look
<1> QED BY <1>3, <1>4, <1>5, <1>6, <1>7, <1>8, <1>9 DEF Memory!Step

LEMMA ListedStep ==
  ASSUME Memory!TypeOK, Memory!TypeOK', Listed, Memory!Next
  PROVE  /\ Listed'
         /\ \A d \in Memory!Kinds : emails[d] # Memory!Absent /\ emails'[d] = Memory!Absent =>
              \/ emails[d] > Ttl \/ d \in raced
              \/ Memory!Restart
              \/ \E w \in Workers : Memory!ClearEmail(w)
<1>1. /\ Ttl \in Nat /\ Memory!Absent = -1
      /\ \A d \in Memory!Kinds : emails[d] \in -1..Ttl + 2 /\ emails'[d] \in -1..Ttl + 2
  BY TtlAssumption DEF Memory!TypeOK, Memory!Absent, Memory!Old
<1>2. CASE Memory!Restart
  <2>1. \A w \in Workers : task'[w].at = "idle"
    BY <1>2 DEF Memory!Restart, Memory!Empty, Memory!NoTask
  <2> QED BY <1>2, <2>1 DEF Listed
<1>3. CASE Memory!Tick
  <2>1. /\ raced' = raced
        /\ \A w \in Workers : /\ task'[w].at = task[w].at /\ task'[w].n = task[w].n /\ ~task[w].late
                              /\ task[w].at # "idle" => task'[w].late
    BY <1>3 DEF Memory!Tick, Memory!TypeOK
  <2>2. \A d \in Memory!Kinds :
          emails'[d] = IF emails[d] = -1 \/ emails[d] = Ttl + 2 THEN emails[d] ELSE emails[d] + 1
    BY <1>3 DEF Memory!Tick, Memory!Aged, Memory!Absent, Memory!Old
  <2>3. ASSUME NEW w \in Workers, task'[w].at = "expire" PROVE Stale(w, Dicts[task[w].n])'
    <3>1. PICK d \in Memory!Kinds : d = Dicts[task[w].n]
      BY <2>1, <2>3 DEF Listed, Memory!Kinds
    <3>2. d \in raced \/ emails[d] = -1 \/ emails[d] > Ttl
      BY <1>1, <2>1, <2>3, <3>1 DEF Listed, Stale, Memory!Older
    <3>3. d \in raced' \/ emails'[d] = -1 \/ emails'[d] - 1 > Ttl
      BY <1>1, <2>1, <2>2, <3>2
    <3>4. task'[w].late /\ d = Dicts[task'[w].n]
      BY <2>1, <2>3, <3>1
    <3> QED BY <1>1, <3>3, <3>4 DEF Stale, Memory!Older
  <2> QED BY <1>1, <2>1, <2>2, <2>3 DEF Listed
<1>4. ASSUME NEW w \in Workers, Memory!Step(w)
      PROVE  /\ Listed'
             /\ \A d \in Memory!Kinds : emails[d] # Memory!Absent /\ emails'[d] = Memory!Absent =>
                  emails[d] > Ttl \/ d \in raced \/ Memory!ClearEmail(w)
  <2>1. /\ \A v \in Workers \ {w} : task'[v] = task[v]
        /\ task'[w].at \in {"dict", "expire"} => task'[w].n \in DOMAIN Dicts
                                                 \/ (task'[w].at = "expire" /\ task'[w].n = task[w].n)
        /\ task'[w].at = "expire" =>
             /\ task[w].at = "dict" /\ task'[w].n = task[w].n /\ task'[w].late = task[w].late
             /\ Memory!Older(emails[Dicts[task[w].n]], w) /\ UNCHANGED <<emails, raced>>
    BY <1>4, ListedTask
  <2>2. /\ raced \subseteq raced'
        /\ \/ UNCHANGED emails
           \/ Memory!PopEmail(w)
           \/ Memory!ClearEmail(w)
           \/ Memory!PutEmail(w)
    BY <1>4 DEF Memory!Step, Memory!Begin, Memory!PopSession, Memory!ListDict, Memory!Put,
       Memory!ClearField, Memory!Check, Memory!Touch, Memory!DeleteSession, Memory!Look,
       Memory!PopEmail, Memory!PutEmail, Memory!ClearEmail, Memory!Racing
  <2>3. ASSUME NEW d \in Memory!Kinds
        PROVE  \/ emails'[d] = emails[d]
               \/ /\ emails'[d] = Memory!Absent
                  /\ emails[d] > Ttl \/ d \in raced \/ emails[d] = Memory!Absent \/ Memory!ClearEmail(w)
               \/ /\ emails'[d] # Memory!Absent
                  /\ \A v \in Workers \ {w} : task[v].at = "expire" /\ Dicts[task[v].n] = d => d \in raced'
    <3>1. CASE Memory!PopEmail(w)
      <4>1. /\ emails'[d] = IF d = Dicts[task[w].n] THEN Memory!Absent ELSE emails[d]
            /\ task[w].at = "expire"
        BY <3>1 DEF Memory!PopEmail, Memory!TypeOK
      <4>2. Stale(w, Dicts[task[w].n])
        BY <4>1 DEF Listed
      <4>3. d = Dicts[task[w].n] => d \in raced \/ emails[d] = Memory!Absent \/ emails[d] > Ttl
        BY <1>1, <4>2 DEF Stale, Memory!Older
      <4> QED BY <4>1, <4>3
    <3>2. CASE Memory!ClearEmail(w)
      <4>1. emails'[d] = emails[d] \/ emails'[d] = Memory!Absent
        BY <3>2 DEF Memory!ClearEmail, Memory!TypeOK
      <4> QED BY <3>2, <4>1
    <3>3. CASE Memory!PutEmail(w)
      <4>1. PICK e \in Memory!Kinds :
              /\ emails' = [emails EXCEPT ![e] = 0]
              /\ Memory!Racing(w, e, \E v \in Workers \ {w} : task[v].at = "expire" /\ Dicts[task[v].n] = e)
        BY <3>3 DEF Memory!PutEmail
      <4>2. emails'[d] = IF d = e THEN 0 ELSE emails[d]
        BY <4>1 DEF Memory!TypeOK
      <4> QED BY <1>1, <4>1, <4>2 DEF Memory!Racing
    <3> QED BY <2>2, <3>1, <3>2, <3>3
  <2>4. ASSUME NEW v \in Workers
        PROVE  /\ task'[v].at \in {"dict", "expire"} => task'[v].n \in DOMAIN Dicts
               /\ task'[v].at = "expire" => Stale(v, Dicts[task[v].n])'
    <3>1. CASE v = w
      <4>1. task'[w].at \in {"dict", "expire"} => task'[w].n \in DOMAIN Dicts
        BY <2>1 DEF Listed
      <4>2. task'[w].at = "expire" => Stale(w, Dicts[task[w].n])'
        BY <2>1 DEF Stale, Memory!Older
      <4> QED BY <3>1, <4>1, <4>2
    <3>2. CASE v # w
      <4>1. task'[v] = task[v] /\ (task[v].at \in {"dict", "expire"} => task[v].n \in DOMAIN Dicts)
        BY <2>1, <3>2 DEF Listed
      <4>2. ASSUME task[v].at = "expire" PROVE Stale(v, Dicts[task[v].n])'
        <5>1. PICK d \in Memory!Kinds : d = Dicts[task[v].n]
          BY <4>1, <4>2 DEF Memory!Kinds
        <5>2. Stale(v, d)
          BY <4>2, <5>1 DEF Listed
        <5>3. d \in raced' \/ emails'[d] = Memory!Absent \/ emails'[d] = emails[d]
          BY <2>3, <3>2, <4>2, <5>1
        <5>4. d \in raced' \/ emails'[d] = Memory!Absent \/ Memory!Older(emails[d], v)'
          BY <2>2, <4>1, <5>2, <5>3 DEF Stale, Memory!Older
        <5>5. d = Dicts[task'[v].n]
          BY <4>1, <5>1
        <5> QED BY <5>4, <5>5 DEF Stale, Memory!Older
      <4> QED BY <4>1, <4>2
    <3> QED BY <3>1, <3>2
  <2>5. Listed'
    BY <2>4 DEF Listed
  <2> QED BY <2>3, <2>5
<1> QED BY <1>2, <1>3, <1>4 DEF Memory!Next

\* A marker or receipt of the memory store stays until its time is up, for any
\* number of threads and any TTL: the cleanup pops only what it listed.
THEOREM StoreFreshMarkerKept == Spec => FreshMarkerKept
<1> DEFINE Goes == \A d \in Memory!Kinds : emails[d] # Memory!Absent /\ emails'[d] = Memory!Absent =>
                     \/ emails[d] > Ttl \/ d \in raced
                     \/ Memory!Restart
                     \/ \E w \in Workers : Memory!ClearEmail(w)
<1>1. Init => Listed
  BY DEF Init, Memory!Init, Memory!NoTask, Listed
<1>2. IInv /\ IInv' /\ Listed /\ [Next]_vars => Listed' /\ [Goes]_vars
  <2> SUFFICES ASSUME IInv, IInv', Listed, [Next]_vars PROVE Listed' /\ Goes
    OBVIOUS
  <2>1. CASE Memory!Next
    BY <2>1, ListedStep DEF IInv
  <2>2. CASE UNCHANGED memoryVars
    BY <2>2 DEF memoryVars, Listed, Stale, Memory!Older
  <2> QED BY <2>1, <2>2 DEF Next, vars
<1> QED BY <1>1, <1>2, InitIInv, StepIInv, PTL DEF Spec, FreshMarkerKept
=============================================================================
