---------------------------- MODULE HttpSessions ----------------------------
(***************************************************************************)
(* HttpSessionManager and HttpSession: request handlers look sessions up   *)
(* under the mutex and keep the reference they get, while time passes and  *)
(* other handlers invalidate or drop the same sessions.                    *)
(***************************************************************************)
EXTENDS Integers, FiniteSets

CONSTANTS Handlers,       \* threads that handle requests
          Ids,            \* session ids, each generated once
          NoSession, Invalid,   \* no reference; the static invalid session
          Keys, Data,           \* what handlers store
          SessionTimeout,
          MaxTime         \* bound: clock ticks

ASSUME SessionAssumption ==
  /\ NoSession \notin Ids \cup Handlers /\ Invalid \notin Ids /\ NoSession # Invalid
  /\ SessionTimeout \in Nat \ {0} /\ MaxTime \in Nat

VARIABLES clock,
          sessions,       \* _sessions: id to HttpSession
          held,           \* the reference each handler has
          writing,        \* the insertion a handler is in, if any
          stale,          \* _values of the static invalid session
          raced,          \* sessions whose _values were accessed by two at once
          used,           \* history: ids that were generated
          ended,          \* history: ids of sessions that were invalidated
          lastUse,        \* history: when a session was last created or looked up
          stored,         \* history: what was stored first under each key
          erasedBy        \* history: whose lookup erased a session

useVars == <<held, writing, raced>>
pastVars == <<used, ended, lastUse, stored, erasedBy>>
sessionVars == <<clock, sessions, stale, useVars, pastVars>>

ValueMaps == UNION {[K -> Data] : K \in SUBSET Keys}
NoValues == [k \in {} |-> {}]

Session == [_isNew : BOOLEAN, _isValid : BOOLEAN, _timestamp : 0..MaxTime, _values : ValueMaps]

SessionsInit ==
  /\ clock = 0
  /\ sessions = [i \in {} |-> {}]
  /\ held = [h \in Handlers |-> NoSession]
  /\ writing = [h \in Handlers |-> {}]
  /\ stale = NoValues
  /\ raced = {}
  /\ used = {} /\ ended = {}
  /\ lastUse = [i \in Ids |-> 0]
  /\ stored = [i \in Ids |-> NoValues]
  /\ erasedBy = [i \in Ids |-> NoSession]

Put(i, s) == [j \in DOMAIN sessions \cup {i} |-> IF j = i THEN s ELSE sessions[j]]

(* A handler does one thing after the other. *)
Idle(h) == writing[h] = {}
Hold(h, i) == held' = [held EXCEPT ![h] = i] /\ UNCHANGED <<writing, raced>>

-----------------------------------------------------------------------------
createSession(h, i) ==
  /\ Idle(h)
  /\ i \in Ids \ used
  /\ sessions' = Put(i, [_isNew |-> TRUE, _isValid |-> TRUE, _timestamp |-> clock, _values |-> NoValues])
  /\ Hold(h, i)
  /\ used' = used \cup {i}
  /\ lastUse' = [lastUse EXCEPT ![i] = clock]
  /\ UNCHANGED <<clock, stale, ended, stored, erasedBy>>

InTime_late(s) == clock <= s._timestamp + SessionTimeout  \* mutant: off by one

InTime(s) == clock < s._timestamp + SessionTimeout

(* sessionForId: the session is there, valid and not too old. *)
SessionFound(h, i) ==
  /\ Idle(h)
  /\ i \in DOMAIN sessions
  /\ sessions[i]._isValid /\ InTime(sessions[i])
  /\ sessions' = Put(i, [sessions[i] EXCEPT !._isNew = FALSE, !._timestamp = clock])
  /\ Hold(h, i)
  /\ lastUse' = [lastUse EXCEPT ![i] = clock]
  /\ UNCHANGED <<clock, stale, used, ended, stored, erasedBy>>

(* sessionForId: the session is invalid or too old and is erased. *)
SessionErased(h, i) ==
  /\ Idle(h)
  /\ i \in DOMAIN sessions
  /\ ~(sessions[i]._isValid /\ InTime(sessions[i]))
  /\ sessions' = [j \in DOMAIN sessions \ {i} |-> sessions[j]]
  /\ Hold(h, Invalid)
  /\ erasedBy' = [erasedBy EXCEPT ![i] = h]
  /\ UNCHANGED <<clock, stale, used, ended, lastUse, stored>>

(* sessionForId: an id nobody knows. *)
SessionUnknown(h, i) ==
  /\ Idle(h)
  /\ i \notin DOMAIN sessions
  /\ Hold(h, Invalid)
  /\ UNCHANGED <<clock, sessions, stale, pastVars>>

sessionForId(h, i) == SessionFound(h, i) \/ SessionErased(h, i) \/ SessionUnknown(h, i)

(* Nothing guards _values: handler h touches those of its session while     *)
(* another is inserting into them.                                          *)
Race(h) ==
  raced' = IF \E g \in Handlers \ {h} : held[g] = held[h] /\ ~Idle(g)
           THEN raced \cup {held[h]} ELSE raced

invalidate_erases(h) ==  \* mutant: the session is erased at once
  /\ Idle(h)
  /\ held[h] \in DOMAIN sessions
  /\ sessions' = [j \in DOMAIN sessions \ {held[h]} |-> sessions[j]]
  /\ ended' = ended \cup {held[h]}
  /\ UNCHANGED <<clock, stale, useVars, used, lastUse, stored, erasedBy>>

(* invalidate: the id is looked up under the mutex, and the session         *)
(* referred to is cleared.  The static one is not in the table.             *)
invalidate(h) ==
  /\ Idle(h)
  /\ held[h] \in DOMAIN sessions
  /\ sessions' = Put(held[h], [sessions[held[h]] EXCEPT !._isValid = FALSE, !._values = NoValues])
  /\ ended' = ended \cup {held[h]}
  /\ Race(h)
  /\ UNCHANGED <<clock, stale, held, writing, used, lastUse, stored, erasedBy>>

Inserted_over(m, k, v) ==  \* mutant: operator[] instead of insert
  [j \in DOMAIN m \cup {k} |-> IF j = k THEN v ELSE m[j]]

(* unordered_map::insert leaves a key that is there alone. *)
Inserted(m, k, v) == [j \in DOMAIN m \cup {k} |-> IF j \in DOMAIN m THEN m[j] ELSE v]

(* HttpSession::value(key, value), without a lock, of a handler that does   *)
(* not ask isValid, on a session that exists or on the static one.          *)
BeginValue(h, k, v) ==
  /\ Idle(h)
  /\ held[h] \in DOMAIN sessions \cup {Invalid}
  /\ writing' = [writing EXCEPT ![h] = {<<k, v>>}]
  /\ Race(h)
  /\ UNCHANGED <<clock, sessions, stale, held, pastVars>>

(* What an insertion into m leaves there: after a race it may be anything.  *)
Outcome(h, m, k, v) == IF held[h] \in raced THEN ValueMaps ELSE {Inserted(m, k, v)}

(* The history keeps the first value under a key. *)
First(m, k, v) ==
  IF k \in DOMAIN m THEN m ELSE [j \in DOMAIN m \cup {k} |-> IF j = k THEN v ELSE m[j]]

(* The insertion is complete; into a session that was erased meanwhile it   *)
(* went into freed memory.                                                  *)
EndValue(h, k, v) ==
  /\ writing[h] = {<<k, v>>}
  /\ writing' = [writing EXCEPT ![h] = {}]
  /\ \/ /\ held[h] \in DOMAIN sessions
        /\ \E m \in Outcome(h, sessions[held[h]]._values, k, v) :
             sessions' = Put(held[h], [sessions[held[h]] EXCEPT !._values = m])
        /\ stored' = [stored EXCEPT ![held[h]] = First(stored[held[h]], k, v)]
        /\ UNCHANGED stale
     \/ /\ held[h] = Invalid
        /\ stale' \in Outcome(h, stale, k, v)
        /\ UNCHANGED <<sessions, stored>>
     \/ /\ held[h] \notin DOMAIN sessions \cup {Invalid}
        /\ UNCHANGED <<sessions, stale, stored>>
  /\ UNCHANGED <<clock, held, raced, used, ended, lastUse, erasedBy>>

RequestDone(h) ==
  /\ Idle(h)
  /\ held[h] # NoSession
  /\ Hold(h, NoSession)
  /\ UNCHANGED <<clock, sessions, stale, pastVars>>

Tick ==
  /\ clock < MaxTime
  /\ clock' = clock + 1
  /\ UNCHANGED <<sessions, stale, useVars, pastVars>>

SessionsNext ==
  \/ \E h \in Handlers, i \in Ids : createSession(h, i) \/ sessionForId(h, i)
  \/ \E h \in Handlers : invalidate(h) \/ RequestDone(h)
  \/ \E h \in Handlers, k \in Keys, v \in Data : BeginValue(h, k, v) \/ EndValue(h, k, v)
  \/ Tick

SessionsSpec == SessionsInit /\ [][SessionsNext]_sessionVars

-----------------------------------------------------------------------------
(* The types of the state. *)
SessionsTypeOK ==
  /\ clock \in 0..MaxTime
  /\ DOMAIN sessions \subseteq used /\ used \subseteq Ids
  /\ \A i \in DOMAIN sessions : sessions[i] \in Session
  /\ held \in [Handlers -> Ids \cup {NoSession, Invalid}]
  /\ writing \in [Handlers -> SUBSET (Keys \X Data)]
  /\ stale \in ValueMaps /\ raced \subseteq used \cup {Invalid} /\ ended \subseteq used
  /\ lastUse \in [Ids -> 0..MaxTime]
  /\ stored \in [Ids -> ValueMaps]
  /\ erasedBy \in [Ids -> Handlers \cup {NoSession}]

(* A session that was invalidated, or was not asked for within the         *)
(* timeout, is never handed out again.  One that was asked for in time is  *)
(* handed out, with the value that was stored first under each key, as     *)
(* value(key, value) replaces none, unless two handlers were in its values *)
(* at once: HttpSession has no lock, and they are anything after that.     *)
HandedOutAlive ==
  [][\A h \in Handlers, i \in Ids : sessionForId(h, i) =>
       IF /\ i \in used /\ i \notin ended /\ erasedBy[i] = NoSession
          /\ clock < lastUse[i] + SessionTimeout
       THEN held'[h] = i /\ (i \notin raced => sessions'[i]._values = stored[i])
       ELSE held'[h] = Invalid]_sessionVars

(* A handler whose reference is dangling can blame another one that came   *)
(* with the same session id: its own lookups never leave it one.           *)
DanglingIsShared ==
  \A h \in Handlers :
    held[h] \in Ids /\ held[h] \notin DOMAIN sessions
      => erasedBy[held[h]] \in Handlers \ {h}
=============================================================================
