---------------------------- MODULE StoreFactory ----------------------------
(***************************************************************************)
(* get_memory: one store for the life of the process, Redis or memory,     *)
(* chosen at import.  Both are to keep the lease of SessionLease.          *)
(***************************************************************************)
EXTENDS SessionTtl, Integers, Sequences

CONSTANTS Workers, Dicts
ASSUME DictsAssumption == Dicts \in Seq(STRING) /\ Len(Dicts) <= 3

VARIABLES
  use_redis,                        \* USE_REDIS
  ttl, call, torn,                  \* RedisSession
  data, seen, emails, task, raced,  \* MemorySession
  quiet                             \* of both: they never run side by side

redisVars  == <<ttl, call, torn>>
memoryVars == <<data, seen, emails, task, raced>>
vars == <<use_redis, redisVars, memoryVars, quiet>>

Redis  == INSTANCE RedisSession
Memory == INSTANCE MemorySession

Init ==
  /\ use_redis \in BOOLEAN
  /\ Redis!Init /\ Memory!Init

Next ==
  /\ UNCHANGED use_redis
  /\ \/ use_redis /\ Redis!Next /\ UNCHANGED memoryVars
     \/ ~use_redis /\ Memory!Next /\ UNCHANGED redisVars

Spec == Init /\ [][Next]_vars

-----------------------------------------------------------------------------
TypeOK == use_redis \in BOOLEAN /\ Redis!TypeOK /\ Memory!TypeOK

\* SET and EXPIRE are separate commands, yet no key is left without a TTL: when
\* no call is under way, only a call that ended half-way can have left one, and
\* the next call that completes repairs it (_touch renews all five keys).
NoImmortalKey == Redis!NoImmortalKey

Lease == INSTANCE SessionLease WITH
  Fields <- Memory!Fields,
  kept   <- IF use_redis THEN Redis!Kept ELSE Memory!Kept,
  open   <- IF use_redis THEN ~Redis!Idle ELSE Memory!Open

\* A Redis call ended half-way, or a memory call wrote to the session while
\* another one was popping it or after one had deleted it.
Disturbed == torn \/ "session" \in raced

\* Whichever store runs, the fields of a session stay while it is used and go
\* together Ttl after its last call (SessionLease), unless a call was disturbed.
KeepsLease == Lease!Init /\ [][Disturbed \/ Disturbed' \/ [Lease!Next]_(Lease!vars)]_vars

\* The memory cleanup pops an entry of an email only once its window is over; a
\* marker goes early only by clear_pending_email, with the process, or when it
\* was written again while another thread held the old one in its list.
FreshMarkerKept == [][
  \A d \in Memory!Kinds : emails[d] # Memory!Absent /\ emails'[d] = Memory!Absent =>
    \/ emails[d] > Ttl \/ d \in raced
    \/ Memory!Restart
    \/ \E w \in Workers : Memory!ClearEmail(w)]_vars
=============================================================================
