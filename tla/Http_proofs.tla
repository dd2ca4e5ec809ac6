----------------------------- MODULE Http_proofs -----------------------------
(***************************************************************************)
(* Proofs about the HTTP server: the sessions, for any handlers, ids, keys *)
(* and timeout, and a connection, for any requests, buffer size and number *)
(* of requests.                                                            *)
(***************************************************************************)
EXTENDS HttpConnection, HttpSessions, SequenceTheorems, WellFoundedInduction,
        NaturalsInduction, TLAPS


(* A session in the table is what the histories say, and was never erased; *)
(* the values are, until it is invalidated or two handlers race for them.  *)
TableIsHistory ==
  \A i \in DOMAIN sessions :
    /\ sessions[i]._timestamp = lastUse[i]
    /\ sessions[i]._isValid <=> i \notin ended
    /\ i \notin ended /\ i \notin raced => sessions[i]._values = stored[i]
    /\ erasedBy[i] = NoSession

(* An id that is not in the table was never used, or a lookup erased it.   *)
GoneWasErased ==
  \A i \in Ids :
    /\ i \notin used => stored[i] = NoValues /\ erasedBy[i] = NoSession
    /\ i \in used /\ i \notin DOMAIN sessions => erasedBy[i] \in Handlers

(* Handlers refer to sessions that were created, and none to a session     *)
(* that its own lookup erased.                                             *)
References ==
  \A h \in Handlers :
    /\ held[h] \in Ids => held[h] \in used
    /\ \A i \in Ids : erasedBy[i] = h => held[h] # i

SessionsInv == SessionsTypeOK /\ TableIsHistory /\ GoneWasErased /\ References

(* No values are values, and inserting into values gives values.           *)
LEMMA NoValuesType == NoValues \in ValueMaps
<1>1. {} \in SUBSET Keys /\ NoValues \in [{} -> Data]
  BY DEF NoValues
<1>2. QED
  BY <1>1 DEF ValueMaps

LEMMA InsertedType ==
  ASSUME NEW m \in ValueMaps, NEW k \in Keys, NEW v \in Data
  PROVE  Inserted(m, k, v) \in ValueMaps
<1>1. PICK K \in SUBSET Keys : m \in [K -> Data]
  BY DEF ValueMaps
<1>2. K \cup {k} \in SUBSET Keys
  OBVIOUS
<1>3. Inserted(m, k, v) \in [K \cup {k} -> Data]
  BY <1>1 DEF Inserted
<1>4. QED
  BY <1>2, <1>3 DEF ValueMaps

(* insert leaves what is there, so the first value under a key stays.      *)
LEMMA InsertedIs ==
  ASSUME NEW m \in ValueMaps, NEW k \in Keys, NEW v \in Data
  PROVE  Inserted(m, k, v) = First(m, k, v)
<1>1. PICK K \in SUBSET Keys : m \in [K -> Data]
  BY DEF ValueMaps
<1>2. QED
  BY <1>1 DEF Inserted, First

(* Putting a session back into the table changes no other.                 *)
LEMMA PutBack ==
  ASSUME NEW i, NEW w, i \in DOMAIN sessions, sessions' = Put(i, w)
  PROVE  /\ DOMAIN sessions' = DOMAIN sessions
         /\ \A j \in DOMAIN sessions \ {i} : sessions'[j] = sessions[j]
         /\ sessions'[i] = w
BY DEF Put

(* After an insertion is complete: one session has other values, those the *)
(* history has unless there was a race, or nothing in the table changed.   *)
Finished(h) ==
  /\ held' = held /\ raced' = raced /\ clock' = clock
  /\ used' = used /\ ended' = ended /\ lastUse' = lastUse /\ erasedBy' = erasedBy
  /\ writing' \in [Handlers -> SUBSET (Keys \X Data)] /\ stale' \in ValueMaps
  /\ \/ sessions' = sessions /\ stored' = stored
     \/ /\ held[h] \in DOMAIN sessions
        /\ \E m \in ValueMaps, n \in ValueMaps :
             /\ sessions' = Put(held[h], [sessions[held[h]] EXCEPT !._values = m])
             /\ stored' = [stored EXCEPT ![held[h]] = n]
             /\ held[h] \notin raced /\ sessions[held[h]]._values = stored[held[h]] => m = n

LEMMA EndFinishes ==
  ASSUME SessionsTypeOK, NEW h \in Handlers, NEW k \in Keys, NEW v \in Data, EndValue(h, k, v)
  PROVE  Finished(h)
<1> USE DEF SessionsTypeOK
<1>1. /\ held' = held /\ raced' = raced /\ clock' = clock
      /\ used' = used /\ ended' = ended /\ lastUse' = lastUse /\ erasedBy' = erasedBy
      /\ writing' \in [Handlers -> SUBSET (Keys \X Data)]
  BY DEF EndValue
<1>2. CASE held[h] \in DOMAIN sessions
  <2> DEFINE i == held[h]
  <2>1. i \in Ids /\ i # Invalid /\ sessions[i] \in Session /\ stored[i] \in ValueMaps
    BY <1>2, SessionAssumption
  <2>2. sessions[i]._values \in ValueMaps
    BY <2>1 DEF Session
  <2>3. /\ stale' = stale
        /\ stored' = [stored EXCEPT ![i] = First(stored[i], k, v)]
        /\ \E m \in Outcome(h, sessions[i]._values, k, v) :
             sessions' = Put(i, [sessions[i] EXCEPT !._values = m])
    BY <1>2, <2>1 DEF EndValue
  <2>4. PICK m \in Outcome(h, sessions[i]._values, k, v) :
          sessions' = Put(i, [sessions[i] EXCEPT !._values = m])
    BY <2>3
  <2>5. m \in ValueMaps /\ (i \notin raced => m = Inserted(sessions[i]._values, k, v))
    BY <2>2, <2>4, InsertedType DEF Outcome
  <2> DEFINE n == Inserted(stored[i], k, v)
  <2>6. n \in ValueMaps
    BY <2>1, InsertedType
  <2>7. stored' = [stored EXCEPT ![i] = n]
    <3>1. n = First(stored[i], k, v)
      BY <2>1, InsertedIs
    <3>2. stored' = [stored EXCEPT ![i] = First(stored[i], k, v)]
      BY <2>3
    <3>3. QED
      BY <3>1, <3>2
  <2>8. i \notin raced /\ sessions[i]._values = stored[i] => m = n
    BY <2>5
  <2> HIDE DEF n
  <2>9. QED
    BY <1>1, <1>2, <2>3, <2>4, <2>5, <2>6, <2>7, <2>8 DEF Finished
<1>3. CASE held[h] \notin DOMAIN sessions
  <2>1. sessions' = sessions /\ stored' = stored
    BY <1>3 DEF EndValue
  <2>2. stale' = stale \/ stale' \in Outcome(h, stale, k, v)
    BY <1>3 DEF EndValue
  <2>3. stale' \in ValueMaps
    BY <2>2, InsertedType DEF Outcome
  <2>4. QED
    BY <1>1, <2>1, <2>3 DEF Finished
<1>4. QED
  BY <1>2, <1>3

(* The state keeps its types: references, time stamps and histories.       *)
LEMMA TypeStep ==
  ASSUME SessionsTypeOK, [SessionsNext]_sessionVars
  PROVE  SessionsTypeOK'
<1> USE SessionAssumption, NoValuesType DEF SessionsTypeOK, Session, Hold, useVars, pastVars
<1>1. ASSUME NEW h \in Handlers, NEW i \in Ids, createSession(h, i)
      PROVE  SessionsTypeOK'
  BY <1>1 DEF createSession, Put
<1>2. ASSUME NEW h \in Handlers, NEW i \in Ids, SessionFound(h, i)
      PROVE  SessionsTypeOK'
  BY <1>2, ZenonT(40) DEF SessionFound, Put
<1>3. ASSUME NEW h \in Handlers, NEW i \in Ids, SessionErased(h, i)
      PROVE  SessionsTypeOK'
  BY <1>3 DEF SessionErased
<1>4. ASSUME NEW h \in Handlers, NEW i \in Ids, SessionUnknown(h, i)
      PROVE  SessionsTypeOK'
  BY <1>4 DEF SessionUnknown
<1>5. ASSUME NEW h \in Handlers, invalidate(h)
      PROVE  SessionsTypeOK'
  <2>1. held[h] \in DOMAIN sessions /\ held[h] \in used
    BY <1>5 DEF invalidate
  <2>2. raced' \subseteq used \cup {Invalid}
    BY <1>5, <2>1 DEF invalidate, Race
  <2>3. /\ DOMAIN sessions' = DOMAIN sessions
        /\ \A j \in DOMAIN sessions' : sessions'[j] \in Session
    <3> DEFINE s == [sessions[held[h]] EXCEPT !._isValid = FALSE, !._values = NoValues]
    <3>1. s \in Session
      BY <2>1
    <3>2. sessions' = Put(held[h], s)
      BY <1>5 DEF invalidate
    <3> HIDE DEF s
    <3>3. /\ DOMAIN sessions' = DOMAIN sessions
          /\ \A j \in DOMAIN sessions \ {held[h]} : sessions'[j] = sessions[j]
          /\ sessions'[held[h]] = s
      BY <2>1, <3>2, PutBack
    <3>4. QED
      BY <3>1, <3>3
  <2>4. QED
    BY <1>5, <2>1, <2>2, <2>3 DEF invalidate
<1>6. ASSUME NEW h \in Handlers, RequestDone(h)
      PROVE  SessionsTypeOK'
  BY <1>6 DEF RequestDone
<1>7. ASSUME NEW h \in Handlers, NEW k \in Keys, NEW v \in Data, BeginValue(h, k, v)
      PROVE  SessionsTypeOK'
  <2>1. raced' \subseteq used \cup {Invalid}
    BY <1>7 DEF BeginValue, Race
  <2>2. writing' \in [Handlers -> SUBSET (Keys \X Data)]
    BY <1>7 DEF BeginValue
  <2>3. QED
    BY <1>7, <2>1, <2>2 DEF BeginValue
<1>8. ASSUME NEW h \in Handlers, NEW k \in Keys, NEW v \in Data, EndValue(h, k, v)
      PROVE  SessionsTypeOK'
  <2>1. Finished(h)
    BY <1>8, EndFinishes
  <2>2. CASE sessions' = sessions /\ stored' = stored
    BY <2>1, <2>2 DEF Finished
  <2>3. ASSUME held[h] \in DOMAIN sessions, NEW m \in ValueMaps, NEW n \in ValueMaps,
               sessions' = Put(held[h], [sessions[held[h]] EXCEPT !._values = m]),
               stored' = [stored EXCEPT ![held[h]] = n]
        PROVE  SessionsTypeOK'
    <3>1. [sessions[held[h]] EXCEPT !._values = m] \in Session
      BY <2>3
    <3>2. /\ DOMAIN sessions' = DOMAIN sessions
          /\ \A j \in DOMAIN sessions' : sessions'[j] \in Session
      <4> DEFINE s == [sessions[held[h]] EXCEPT !._values = m]
      <4>1. /\ s \in Session /\ sessions' = Put(held[h], s)
            /\ held[h] \in DOMAIN sessions
        BY <2>3, <3>1
      <4> HIDE DEF s
      <4>2. /\ DOMAIN sessions' = DOMAIN sessions
            /\ \A j \in DOMAIN sessions \ {held[h]} : sessions'[j] = sessions[j]
            /\ sessions'[held[h]] = s
        BY <4>1, PutBack
      <4>3. QED
        BY <4>1, <4>2
    <3>3. stored' \in [Ids -> ValueMaps]
      BY <2>3
    <3>4. QED
      BY <2>1, <3>2, <3>3 DEF Finished
  <2>4. QED
    BY <2>1, <2>2, <2>3 DEF Finished
<1>9. CASE Tick
  BY <1>9 DEF Tick
<1>10. CASE UNCHANGED sessionVars
  BY <1>10 DEF sessionVars
<1>11. QED
  BY <1>1, <1>2, <1>3, <1>4, <1>5, <1>6, <1>7, <1>8, <1>9, <1>10 DEF SessionsNext, sessionForId

(* Every step keeps the table in line with the histories.                  *)
LEMMA InvStep ==
  ASSUME SessionsInv, [SessionsNext]_sessionVars
  PROVE  SessionsInv'
<1> DEFINE Rest == TableIsHistory /\ GoneWasErased /\ References
<1> USE SessionAssumption DEF SessionsInv
<1>0. SessionsTypeOK'
  BY TypeStep
<1> USE DEF SessionsTypeOK, Session, Hold, TableIsHistory, GoneWasErased, References, useVars, pastVars
<1>1. ASSUME NEW h \in Handlers, NEW i \in Ids, createSession(h, i)
      PROVE  Rest'
  <2>1. /\ i \in Ids /\ i \notin used /\ i \notin DOMAIN sessions /\ i \notin ended
        /\ stored[i] = NoValues /\ erasedBy[i] = NoSession
    BY <1>1 DEF createSession
  <2>2. /\ DOMAIN sessions' = DOMAIN sessions \cup {i}
        /\ \A j \in DOMAIN sessions : sessions'[j] = sessions[j]
        /\ sessions'[i] = [_isNew |-> TRUE, _isValid |-> TRUE, _timestamp |-> clock, _values |-> NoValues]
    BY <1>1, <2>1 DEF createSession, Put
  <2>3. /\ lastUse'[i] = clock /\ \A j \in Ids \ {i} : lastUse'[j] = lastUse[j]
        /\ ended' = ended /\ stored' = stored /\ erasedBy' = erasedBy /\ raced' = raced
    BY <1>1 DEF createSession
  <2>4. TableIsHistory'
    <3> SUFFICES ASSUME NEW j \in DOMAIN sessions'
                 PROVE  /\ sessions'[j]._timestamp = lastUse'[j]
                        /\ sessions'[j]._isValid <=> j \notin ended
                        /\ j \notin ended /\ j \notin raced => sessions'[j]._values = stored[j]
                        /\ erasedBy[j] = NoSession
      BY <2>3
    <3>1. CASE j = i
      <4>1. /\ sessions'[j]._timestamp = clock
            /\ sessions'[j]._isValid = TRUE
            /\ sessions'[j]._values = NoValues
        BY <2>2, <3>1
      <4>2. /\ lastUse'[j] = clock /\ j \notin ended
            /\ stored[j] = NoValues /\ erasedBy[j] = NoSession
        BY <2>1, <2>3, <3>1
      <4> HIDE DEF TableIsHistory, GoneWasErased, References, SessionsTypeOK, SessionsInv
      <4>3. QED
        BY <4>1, <4>2
    <3>2. CASE j # i
      <4>1. j \in DOMAIN sessions /\ j \in Ids
        BY <2>2, <3>2
      <4>2. sessions'[j] = sessions[j] /\ lastUse'[j] = lastUse[j]
        BY <2>2, <2>3, <3>2, <4>1
      <4>3. QED
        BY <4>1, <4>2
    <3>3. QED
      BY <3>1, <3>2
  <2>5. GoneWasErased' /\ References'
    BY <1>1, <2>1, <2>2, <2>3 DEF createSession
  <2>6. QED
    BY <2>4, <2>5
<1>2. ASSUME NEW h \in Handlers, NEW i \in Ids, SessionFound(h, i)
      PROVE  Rest'
  BY <1>2 DEF SessionFound, Put
<1>3. ASSUME NEW h \in Handlers, NEW i \in Ids, SessionErased(h, i)
      PROVE  Rest'
  BY <1>3 DEF SessionErased
<1>4. ASSUME NEW h \in Handlers, NEW i \in Ids, SessionUnknown(h, i)
      PROVE  Rest'
  BY <1>4 DEF SessionUnknown
<1>5. ASSUME NEW h \in Handlers, invalidate(h)
      PROVE  Rest'
  <2>1. held[h] \in Ids /\ held[h] \in used /\ raced \subseteq raced'
    BY <1>5 DEF invalidate, Race
  <2>2. QED
    BY <1>5, <2>1 DEF invalidate, Put
<1>6. ASSUME NEW h \in Handlers, RequestDone(h)
      PROVE  Rest'
  BY <1>6 DEF RequestDone
<1>7. ASSUME NEW h \in Handlers, NEW k \in Keys, NEW v \in Data, BeginValue(h, k, v)
      PROVE  Rest'
  <2>1. raced \subseteq raced'
    BY <1>7 DEF Race, BeginValue
  <2>2. QED
    BY <1>7, <2>1 DEF BeginValue
<1>8. ASSUME NEW h \in Handlers, NEW k \in Keys, NEW v \in Data, EndValue(h, k, v)
      PROVE  Rest'
  <2>1. Finished(h)
    BY <1>8, EndFinishes
  <2>2. CASE sessions' = sessions /\ stored' = stored
    BY <2>1, <2>2 DEF Finished
  <2>3. ASSUME held[h] \in DOMAIN sessions, NEW m \in ValueMaps, NEW n \in ValueMaps,
               sessions' = Put(held[h], [sessions[held[h]] EXCEPT !._values = m]),
               stored' = [stored EXCEPT ![held[h]] = n],
               held[h] \notin raced /\ sessions[held[h]]._values = stored[held[h]] => m = n
        PROVE  Rest'
    <3> DEFINE i == held[h]
    <3>1. /\ ended' = ended /\ lastUse' = lastUse /\ erasedBy' = erasedBy /\ raced' = raced
          /\ used' = used /\ held' = held
      BY <2>1 DEF Finished
    <3>2. /\ i \in Ids /\ i \in used
          /\ DOMAIN sessions' = DOMAIN sessions
          /\ \A j \in DOMAIN sessions \ {i} : sessions'[j] = sessions[j]
          /\ sessions'[i] = [sessions[i] EXCEPT !._values = m]
      <4> DEFINE s == [sessions[held[h]] EXCEPT !._values = m]
      <4>1. /\ i \in Ids /\ i \in used /\ sessions' = Put(i, s)
            /\ i \in DOMAIN sessions
        BY <2>3
      <4> HIDE DEF s
      <4>2. /\ DOMAIN sessions' = DOMAIN sessions
            /\ \A j \in DOMAIN sessions \ {i} : sessions'[j] = sessions[j]
            /\ sessions'[i] = s
        BY <4>1, PutBack
      <4>3. QED
        BY <4>1, <4>2 DEF s
    <3>3. stored'[i] = n /\ \A j \in Ids \ {i} : stored'[j] = stored[j]
      BY <2>3, <3>2
    <3>4. TableIsHistory'
      <4> SUFFICES ASSUME NEW j \in DOMAIN sessions
                   PROVE  /\ sessions'[j]._timestamp = lastUse[j]
                          /\ sessions'[j]._isValid <=> j \notin ended
                          /\ j \notin ended /\ j \notin raced => sessions'[j]._values = stored'[j]
                          /\ erasedBy[j] = NoSession
        BY <3>1, <3>2
      <4>1. CASE j = i
        <5>1. /\ sessions'[j]._timestamp = sessions[j]._timestamp
              /\ sessions'[j]._isValid = sessions[j]._isValid
              /\ sessions'[j]._values = m
          BY <3>2, <4>1
        <5>2. /\ sessions[j]._timestamp = lastUse[j]
              /\ sessions[j]._isValid <=> j \notin ended
              /\ j \notin ended /\ j \notin raced => sessions[j]._values = stored[j]
              /\ erasedBy[j] = NoSession
          OBVIOUS
        <5> HIDE DEF TableIsHistory, GoneWasErased, References, SessionsTypeOK, SessionsInv
        <5>3. QED
          BY <2>3, <3>3, <4>1, <5>1, <5>2
      <4>2. CASE j # i
        <5>1. j \in Ids /\ sessions'[j] = sessions[j] /\ stored'[j] = stored[j]
          BY <3>2, <3>3, <4>2
        <5>2. QED
          BY <5>1
      <4>3. QED
        BY <4>1, <4>2
    <3>5. GoneWasErased' /\ References'
      BY <3>1, <3>2, <3>3
    <3>6. QED
      BY <3>4, <3>5
  <2>4. QED
    BY <2>1, <2>2, <2>3 DEF Finished
<1>9. CASE Tick
  BY <1>9 DEF Tick
<1>10. CASE UNCHANGED sessionVars
  BY <1>10 DEF sessionVars
<1>11. Rest'
  BY <1>1, <1>2, <1>3, <1>4, <1>5, <1>6, <1>7, <1>8, <1>9, <1>10 DEF SessionsNext, sessionForId
<1>12. QED
  BY <1>0, <1>11

(* The first state has an empty table and no references.                   *)
LEMMA InvInit == SessionsInit => SessionsInv
  BY SessionAssumption, NoValuesType
  DEF SessionsInit, SessionsInv, SessionsTypeOK, TableIsHistory, GoneWasErased, References, Session

(* The table, the histories and the references agree in every state.       *)
LEMMA Invariant == SessionsSpec => []SessionsInv
<1>1. SessionsInit => SessionsInv
  BY InvInit
<1>2. SessionsInv /\ [SessionsNext]_sessionVars => SessionsInv'
  BY InvStep
<1>3. QED
  BY <1>1, <1>2, PTL DEF SessionsSpec

(* Only the lookup of another handler with the same session id can make a  *)
(* reference that sessionForId or createSession returned dangle.           *)
THEOREM SharedDangling == SessionsSpec => []DanglingIsShared
<1>1. SessionsInv => DanglingIsShared
  BY DEF SessionsInv, SessionsTypeOK, GoneWasErased, References, DanglingIsShared
<1>2. QED
  BY <1>1, Invariant, PTL

(* sessionForId returns a session exactly if it was not invalidated and    *)
(* was asked for within the timeout, and with what was stored first under  *)
(* each key unless two handlers were in its values at once.                *)
THEOREM AliveOrInvalid == SessionsSpec => HandedOutAlive
<1> DEFINE Alive(h, i) ==
      /\ i \in used /\ i \notin ended /\ erasedBy[i] = NoSession
      /\ clock < lastUse[i] + SessionTimeout
    Promise ==
      \A h \in Handlers, i \in Ids : sessionForId(h, i) =>
        IF Alive(h, i) THEN held'[h] = i /\ (i \notin raced => sessions'[i]._values = stored[i])
        ELSE held'[h] = Invalid
<1>1. SessionsInv => Promise
  <2> SUFFICES ASSUME SessionsInv, NEW h \in Handlers, NEW i \in Ids, sessionForId(h, i)
               PROVE  IF Alive(h, i) THEN held'[h] = i /\ (i \notin raced => sessions'[i]._values = stored[i])
                      ELSE held'[h] = Invalid
    OBVIOUS
  <2>1. i \in DOMAIN sessions /\ sessions[i]._isValid /\ InTime(sessions[i]) <=> Alive(h, i)
    BY SessionAssumption
    DEF SessionsInv, SessionsTypeOK, TableIsHistory, GoneWasErased, InTime
  <2>2. CASE SessionFound(h, i)
    BY <2>1, <2>2 DEF SessionFound, Put, Hold, SessionsInv, SessionsTypeOK, TableIsHistory, Session
  <2>3. CASE SessionErased(h, i) \/ SessionUnknown(h, i)
    BY <2>1, <2>3 DEF SessionErased, SessionUnknown, Hold, SessionsInv, SessionsTypeOK
  <2>4. QED
    BY <2>2, <2>3 DEF sessionForId
<1>2. [SessionsNext]_sessionVars /\ SessionsInv => [Promise]_sessionVars
  BY <1>1
<1>3. QED
  BY <1>2, Invariant, PTL DEF SessionsSpec, HandedOutAlive

-----------------------------------------------------------------------------
(* The connection.  What its variables are made of.                        *)
Kinds == {"end", "begin", "url", "field", "value", "headers", "last", "body", "error"}

(* The texts a piece carries; the end of a body carries none.              *)
AllTexts == Texts \cup {""}
PieceSet == [k : Kinds, v : AllTexts]
Headers == UNION {[D -> Seq(AllTexts)] : D \in SUBSET Seq(AllTexts)}
GotSet == [method : {"GET", "POST"}, url : Seq(AllTexts), version : Versions, header : Headers]
ParserSet ==
  [state : {"Start", "Url", "HeaderField", "HeaderValue", "Body", "Complete"},
   data : Seq(AllTexts),
   lib : Kinds, iter : Seq(AllTexts),
   request : GotSet, out : Seq(GotSet)]
Messages ==
  [part : {"header", "body"}, of : Nat \ {0}, version : Versions,
   status : {"BAD_REQUEST", "NOT_FOUND", "OK"}]

(* A parser that is between reads has a complete request when its state    *)
(* says so.                                                                *)
GoodParser(c) ==
  /\ c \in ParserSet
  /\ c.lib \in {"end", "begin", "url", "field", "value", "headers", "error"}
  /\ c.state = "Complete" /\ c.lib # "error" => c.out # <<>>

(* The types, with each read inside the buffer and a parser that is between reads. *)
HttpTypes ==
  /\ reads \in Nat /\ written \in Nat
  /\ stream \in Seq(PieceSet) /\ readBuf \in Seq(PieceSet)
  /\ arrived \in Seq(Nat) /\ \A i \in DOMAIN arrived : arrived[i] <= Len(readBuf)
  /\ GoodParser(parser) /\ parser.out = <<>>
  /\ wire \in Seq(Messages) /\ writes \in Seq(Messages)
  /\ writes # <<>> => writeBuf \in Messages
  /\ answered \in Seq(GotSet)

(* Until a write is overtaken there is at most one, and the buffer holds   *)
(* what it writes.                                                         *)
BufferIsWrite ==
  ~overwritten => Len(writes) <= 1 /\ (writes # <<>> => writes[1] = writeBuf)

(* Messages in the order of their requests, each body behind its header.   *)
Ordered(s) ==
  \A i \in DOMAIN s :
    /\ i > 1 => s[i].of >= s[i - 1].of
    /\ s[i].part = "body" => i > 1 /\ s[i - 1] = [s[i] EXCEPT !.part = "header"]

(* Each message answers a request that was handed over, in its version.    *)
Fitting(s, got) ==
  \A i \in DOMAIN s : s[i].of \in DOMAIN got /\ s[i].version = got[s[i].of].version

InOrder == ~overwritten => Ordered(wire \o writes) /\ Fitting(wire \o writes, answered)

HttpInv == HttpTypes /\ BufferIsWrite /\ InOrder /\ KeepsListening

-----------------------------------------------------------------------------
(* A set of natural numbers that is not empty has a least one.             *)
LEMMA LeastNat ==
  ASSUME NEW S \in SUBSET Nat, S # {}
  PROVE  \E n \in S : \A m \in S : n <= m
<1> DEFINE R == OpToRel(<, Nat)
<1>1. IsWellFoundedOn(R, Nat)
  BY NatLessThanWellFounded
<1>2. \A m, n \in Nat : <<m, n>> \in R <=> m < n
  BY DEF OpToRel
<1> HIDE DEF R
<1>3. PICK n \in S : \A m \in S : ~(<<m, n>> \in R)
  BY <1>1, WFMin
<1>4. \A m \in S : ~(m < n)
  BY <1>2, <1>3
<1>5. \A m \in S : n <= m
  BY <1>4
<1> QED
  BY <1>5

(* A set that contains 0 and with n the next number contains 0..b. *)
LEMMA UpTo ==
  ASSUME NEW b \in Nat, NEW S, 0 \in S, \A n \in 0..(b - 1) : n \in S => n + 1 \in S
  PROVE  \A n \in 0..b : n \in S
<1> DEFINE T == {n \in 0..b : n \notin S}
<1>1. SUFFICES ASSUME T # {} PROVE FALSE
  OBVIOUS
<1>2. T \in SUBSET Nat
  OBVIOUS
<1>3. PICK n \in T : \A m \in T : n <= m
  BY <1>1, <1>2, LeastNat
<1>4. n - 1 \in 0..(b - 1) /\ n - 1 \notin T /\ (n - 1) + 1 = n
  BY <1>3
<1>5. n - 1 \in S
  BY <1>4
<1> QED
  BY <1>3, <1>4, <1>5

(* What FlattenSeq computes. *)
LEMMA FlattenIs ==
  ASSUME NEW S, NEW seqs \in Seq(Seq(S)), seqs # <<>>
  PROVE  \E f \in [1..Len(seqs) -> Seq(S)] :
           /\ f[1] = seqs[1]
           /\ \A i \in 2..Len(seqs) : f[i] = f[i - 1] \o seqs[i]
           /\ FlattenSeq(seqs) = f[Len(seqs)]
<1> DEFINE L == Len(seqs)
           Is(m, f) == f = [i \in 1..m |-> IF i = 1 THEN seqs[i] ELSE f[i - 1] \o seqs[i]]
           Ex(m) == \E f \in [1..m -> Seq(S)] : Is(m, f)
           A == {m \in Nat : m < L => Ex(m + 1)}
<1>1. L \in Nat /\ L >= 1 /\ \A i \in 1..L : seqs[i] \in Seq(S)
  OBVIOUS
<1>2. Ex(1)
  <2>1. [i \in 1..1 |-> seqs[1]] \in [1..1 -> Seq(S)]
    BY <1>1
  <2>2. Is(1, [i \in 1..1 |-> seqs[1]])
    OBVIOUS
  <2> QED
    BY <2>1, <2>2
<1>3. ASSUME NEW n \in Nat, n + 1 < L, Ex(n + 1) PROVE Ex(n + 2)
  <2>1. n + 1 \in Nat /\ n + 2 \in 1..L
    BY <1>1, <1>3
  <2>2. PICK f \in [1..(n + 1) -> Seq(S)] : Is(n + 1, f)
    BY <1>3
  <2> DEFINE g == [i \in 1..(n + 2) |-> IF i = n + 2 THEN f[n + 1] \o seqs[n + 2] ELSE f[i]]
  <2>3. g \in [1..(n + 2) -> Seq(S)]
    <3>1. f[n + 1] \in Seq(S) /\ seqs[n + 2] \in Seq(S)
      BY <1>1, <2>1, <2>2
    <3>2. f[n + 1] \o seqs[n + 2] \in Seq(S)
      BY <3>1
    <3>3. \A i \in 1..(n + 2) : i # n + 2 => i \in 1..(n + 1)
      OBVIOUS
    <3> QED
      BY <2>2, <3>2, <3>3
  <2>4. ASSUME NEW i \in 1..(n + 2)
        PROVE  g[i] = IF i = 1 THEN seqs[i] ELSE g[i - 1] \o seqs[i]
    <3>1. CASE i = n + 2
      <4>1. i # 1 /\ i - 1 = n + 1 /\ g[n + 1] = f[n + 1]
        BY <3>1
      <4> QED
        BY <3>1, <4>1
    <3>2. CASE i # n + 2
      <4>1. i \in 1..(n + 1) /\ g[i] = f[i]
        BY <3>2
      <4>2. f[i] = IF i = 1 THEN seqs[i] ELSE f[i - 1] \o seqs[i]
        BY <2>2, <4>1
      <4>3. i # 1 => i - 1 \in 1..(n + 2) /\ i - 1 # n + 2
        BY <3>2
      <4>4. i # 1 => g[i - 1] = f[i - 1]
        BY <4>3
      <4> QED
        BY <4>1, <4>2, <4>4
    <3> QED
      BY <3>1, <3>2
  <2>5. Is(n + 2, g)
    BY <2>4
  <2> QED
    BY <2>3, <2>5
<1>4. Ex(L)
  <2> HIDE DEF Ex
  <2>1. 0 + 1 = 1 /\ 0 \in A
    BY <1>2
  <2>2. ASSUME NEW n \in 0..((L - 1) - 1), n \in A PROVE n + 1 \in A
    <3>1. n \in Nat /\ n < L /\ n + 1 < L /\ (n + 1) + 1 = n + 2
      BY <1>1
    <3> HIDE DEF L
    <3> QED
      BY <1>3, <2>2, <3>1
  <2>3. L - 1 \in Nat /\ L - 1 \in 0..(L - 1) /\ (L - 1) + 1 = L /\ L - 1 < L
    BY <1>1
  <2>4. L - 1 \in A
    <3> HIDE DEF A, L
    <3> QED
      BY <2>1, <2>2, <2>3, UpTo
  <2> QED
    BY <2>3, <2>4
<1> DEFINE h == CHOOSE f : Is(L, f)
<1>5. Is(L, h)
  BY <1>4
<1>6. FlattenSeq(seqs) = h[L]
  BY <1>1 DEF FlattenSeq
<1> HIDE DEF h
<1>7. h[1] = seqs[1] /\ \A i \in 2..L : h[i] = h[i - 1] \o seqs[i]
  <2>1. \A i \in 1..L : h[i] = IF i = 1 THEN seqs[i] ELSE h[i - 1] \o seqs[i]
    BY <1>5
  <2>2. 1 \in 1..L /\ \A i \in 2..L : i \in 1..L /\ i # 1
    BY <1>1
  <2> HIDE DEF L
  <2> QED
    BY <2>1, <2>2
<1>8. \A i \in 1..L : h[i] \in Seq(S)
  <2> DEFINE B == {m \in Nat : m < L => h[m + 1] \in Seq(S)}
  <2>1. 0 \in B
    BY <1>1, <1>7
  <2>2. ASSUME NEW n \in 0..((L - 1) - 1), n \in B PROVE n + 1 \in B
    <3>1. n < L /\ (n + 1) + 1 \in 2..L /\ ((n + 1) + 1) - 1 = n + 1 /\ (n + 1) + 1 \in 1..L
      BY <1>1
    <3>2. h[n + 1] \in Seq(S) /\ seqs[(n + 1) + 1] \in Seq(S)
      BY <1>1, <2>2, <3>1
    <3>3. h[(n + 1) + 1] = h[n + 1] \o seqs[(n + 1) + 1]
      BY <1>7, <3>1
    <3>4. h[(n + 1) + 1] \in Seq(S) /\ n + 1 \in Nat
      BY <3>2, <3>3
    <3> QED
      BY <3>4
  <2>3. L - 1 \in Nat
    BY <1>1
  <2>4. \A n \in 0..(L - 1) : n \in B
    <3> HIDE DEF B, L
    <3> QED
      BY <2>1, <2>2, <2>3, UpTo
  <2>5. \A i \in 1..L : i - 1 \in 0..(L - 1) /\ (i - 1) + 1 = i /\ i - 1 < L
    BY <1>1
  <2> QED
    BY <2>4, <2>5
<1>9. h \in [1..L -> Seq(S)]
  BY <1>5, <1>8
<1> QED
  BY <1>6, <1>7, <1>9

(* Flattening gives a sequence over the same set.                          *)
LEMMA FlattenInSeq ==
  ASSUME NEW S, NEW seqs \in Seq(Seq(S))
  PROVE  FlattenSeq(seqs) \in Seq(S)
<1>1. CASE seqs = <<>>
  BY <1>1 DEF FlattenSeq
<1>2. CASE seqs # <<>>
  <2>1. PICK f \in [1..Len(seqs) -> Seq(S)] : FlattenSeq(seqs) = f[Len(seqs)]
    BY <1>2, FlattenIs
  <2>2. Len(seqs) \in 1..Len(seqs)
    BY <1>2
  <2> QED
    BY <2>1, <2>2
<1> QED
  BY <1>1, <1>2

(* What Parse computes. *)
LEMMA ParseIs ==
  ASSUME NEW c, NEW pieces, Len(pieces) \in Nat
  PROVE  \E f : /\ f[0] = c /\ f[Len(pieces)] = Parse(c, pieces)
               /\ \A n \in 1..Len(pieces) : f[n] = OnPiece(f[n - 1], pieces[n])
<1> DEFINE L == Len(pieces)
           Is(m, f) == f = [n \in 0..m |-> IF n = 0 THEN c ELSE OnPiece(f[n - 1], pieces[n])]
           Ex(m) == \E f : Is(m, f)
           A == {m \in Nat : Ex(m)}
<1>1. Ex(0)
  <2>1. Is(0, [n \in 0..0 |-> c])
    OBVIOUS
  <2> QED
    BY <2>1
<1>2. ASSUME NEW m \in Nat, Ex(m) PROVE Ex(m + 1)
  <2>1. PICK f : Is(m, f)
    BY <1>2
  <2> DEFINE g == [n \in 0..(m + 1) |-> IF n = m + 1 THEN OnPiece(f[m], pieces[m + 1]) ELSE f[n]]
  <2>2. ASSUME NEW n \in 0..(m + 1)
        PROVE  g[n] = IF n = 0 THEN c ELSE OnPiece(g[n - 1], pieces[n])
    <3>1. CASE n = m + 1
      <4>1. n # 0 /\ n - 1 = m /\ g[m] = f[m]
        BY <3>1
      <4> QED
        BY <3>1, <4>1
    <3>2. CASE n # m + 1
      <4>1. n \in 0..m /\ g[n] = f[n]
        BY <3>2
      <4>2. f[n] = IF n = 0 THEN c ELSE OnPiece(f[n - 1], pieces[n])
        BY <2>1, <4>1
      <4>3. n # 0 => n - 1 \in 0..(m + 1) /\ n - 1 # m + 1
        BY <3>2
      <4>4. n # 0 => g[n - 1] = f[n - 1]
        BY <4>3
      <4> QED
        BY <4>1, <4>2, <4>4
    <3> QED
      BY <3>1, <3>2
  <2>3. Is(m + 1, g)
    BY <2>2
  <2> QED
    BY <2>3
<1>3. Ex(L)
  <2> HIDE DEF Ex
  <2>1. L \in Nat /\ 0 \in A /\ \A n \in 0..(L - 1) : n \in A => n + 1 \in A
    BY <1>1, <1>2
  <2>2. \A n \in 0..L : n \in A
    <3> HIDE DEF A, L
    <3> QED
      BY <2>1, UpTo
  <2>3. L \in 0..L
    BY <2>1
  <2> QED
    BY <2>2, <2>3
<1> DEFINE h == CHOOSE f : Is(L, f)
<1>4. Is(L, h)
  BY <1>3
<1>5. Parse(c, pieces) = h[L]
  BY DEF Parse
<1> HIDE DEF h
<1>6. \A n \in 0..L : h[n] = IF n = 0 THEN c ELSE OnPiece(h[n - 1], pieces[n])
  BY <1>4
<1>7. 0 \in 0..L /\ \A n \in 1..L : n \in 0..L /\ n # 0
  OBVIOUS
<1>8. h[0] = c /\ \A n \in 1..L : h[n] = OnPiece(h[n - 1], pieces[n])
  <2> HIDE DEF L
  <2> QED
    BY <1>6, <1>7
<1> QED
  BY <1>5, <1>8

-----------------------------------------------------------------------------
(* Handing over a field, and dropping its text, keeps the parser good. *)
LEMMA CallCallbackGood ==
  ASSUME NEW c \in ParserSet
  PROVE  /\ CallCallback(c) \in ParserSet
         /\ CallCallback(c).state = c.state /\ CallCallback(c).lib = c.lib
         /\ CallCallback(c).out = c.out
<1>1. CASE c.state = "Url"
  <2>1. CallCallback(c) = [c EXCEPT !.request.url = c.data]
    BY <1>1 DEF CallCallback, onUrl
  <2> QED
    BY <2>1 DEF ParserSet, GotSet
<1>2. CASE c.state = "HeaderField"
  <2> DEFINE f == c.data
             H == c.request.header
             G == [g \in DOMAIN H \cup {f} |-> IF g \in DOMAIN H THEN H[g] ELSE <<>>]
  <2>1. CallCallback(c) = [c EXCEPT !.iter = f, !.request.header = G]
    BY <1>2 DEF CallCallback, onHeaderField
  <2>2. f \in Seq(AllTexts)
    BY DEF ParserSet
  <2>3. PICK D \in SUBSET Seq(AllTexts) : H \in [D -> Seq(AllTexts)]
    BY DEF ParserSet, GotSet, Headers
  <2>4. G \in [D \cup {f} -> Seq(AllTexts)]
    BY <2>3
  <2>5. G \in Headers
    <3> HIDE DEF G, f
    <3> QED
      BY <2>2, <2>4 DEF Headers
  <2> DEFINE R == [c.request EXCEPT !.header = G]
  <2> HIDE DEF G, f
  <2>6. R \in GotSet
    BY <2>5 DEF ParserSet, GotSet
  <2>7. CallCallback(c) = [c EXCEPT !.iter = f, !.request = R]
    BY <2>1 DEF ParserSet
  <2> HIDE DEF R
  <2> QED
    BY <2>2, <2>6, <2>7 DEF ParserSet
<1>3. CASE c.state = "HeaderValue"
  <2> DEFINE H == c.request.header
             G == [H EXCEPT ![c.iter] = c.data]
  <2>1. CallCallback(c) = [c EXCEPT !.request.header = G]
    BY <1>3 DEF CallCallback, onHeaderValue
  <2>2. PICK D \in SUBSET Seq(AllTexts) : H \in [D -> Seq(AllTexts)]
    BY DEF ParserSet, GotSet, Headers
  <2>3. G \in [D -> Seq(AllTexts)]
    BY <2>2 DEF ParserSet
  <2>4. G \in Headers
    <3> HIDE DEF G
    <3> QED
      BY <2>3 DEF Headers
  <2> HIDE DEF G
  <2> QED
    BY <2>1, <2>4 DEF ParserSet, GotSet
<1>4. CASE c.state \notin {"Url", "HeaderField", "HeaderValue"}
  BY <1>4 DEF CallCallback
<1> QED
  BY <1>1, <1>2, <1>3, <1>4

(* Handing over what was collected keeps the parser's type and state.      *)
LEMMA FlushGood ==
  ASSUME NEW c \in ParserSet
  PROVE  /\ Flush(c) \in ParserSet
         /\ Flush(c).state = c.state /\ Flush(c).lib = c.lib
         /\ Flush(c).out = c.out
<1>1. PICK e \in ParserSet : /\ e = CallCallback(c)
                             /\ e.state = c.state /\ e.lib = c.lib /\ e.out = c.out
  BY CallCallbackGood
<1>2. Flush(c) = [e EXCEPT !.data = <<>>]
  BY <1>1 DEF Flush
<1>3. <<>> \in Seq(AllTexts)
  OBVIOUS
<1>4. Flush(c) \in ParserSet
  BY <1>1, <1>2, <1>3 DEF ParserSet
<1>5. Flush(c).state = e.state /\ Flush(c).lib = e.lib /\ Flush(c).out = e.out
  BY <1>1, <1>2 DEF ParserSet
<1> QED
  BY <1>1, <1>4, <1>5

(* What is left as it was when one member is assigned. *)
LEMMA SetLib ==
  ASSUME NEW c \in ParserSet, NEW l \in Kinds
  PROVE  LET e == [c EXCEPT !.lib = l]
         IN /\ e \in ParserSet /\ e.lib = l
            /\ e.state = c.state /\ e.data = c.data /\ e.out = c.out /\ e.request = c.request
BY DEF ParserSet

(* An error of the library leaves a good parser.                           *)
LEMMA LibError ==
  ASSUME NEW c \in ParserSet
  PROVE  GoodParser([c EXCEPT !.lib = "error"])
<1>1. c \in ParserSet /\ "error" \in Kinds
  BY DEF Kinds
<1>2. PICK e \in ParserSet : /\ e = [c EXCEPT !.lib = "error"] /\ e.lib = "error"
                            /\ e.state = c.state /\ e.data = c.data
  BY <1>1, SetLib
<1> QED
  BY <1>2 DEF GoodParser

(* A callback keeps the parser good. *)
LEMMA OnPieceGood ==
  ASSUME NEW c, GoodParser(c), NEW p \in PieceSet
  PROVE  GoodParser(OnPiece(c, p))
<1> DEFINE d == [c EXCEPT !.lib = p.k]
<1>1. c \in ParserSet
  BY DEF GoodParser
<1>0. c \in ParserSet
  BY DEF GoodParser
<1>2. CASE p.k \notin Follows(c.lib)
  <2>1. OnPiece(c, p) = [c EXCEPT !.lib = "error"]
    BY <1>2 DEF OnPiece
  <2> QED
    BY <1>0, <2>1, LibError
<1>3. CASE p.k \in Follows(c.lib)
  <2>1. c.lib # "error" /\ p.k \in {"begin", "url", "field", "value", "headers", "last", "body"}
    BY <1>3 DEF Follows, GoodParser
  <2>2. d \in ParserSet /\ d.state = c.state /\ d.out = c.out /\ d.request = c.request /\ d.lib = p.k
    BY <1>1, SetLib DEF PieceSet, GoodParser
  <2>3. p.v \in AllTexts
    BY DEF PieceSet
  <2>4. d.state = "Complete" => d.out # <<>>
    BY <2>1, <2>2 DEF GoodParser
  <2> HIDE DEF d
  <2>5. CASE p.k = "begin"
    <3>1. OnPiece(c, p) = onMessageBegin(d, p.v)
      BY <1>3, <2>5 DEF OnPiece, d
    <3>2. CASE Guess(p.v) \in {"GET", "POST"}
      <4> DEFINE R == [d.request EXCEPT !.method = Guess(p.v)]
                 e == [d EXCEPT !.request = R]
      <4>1. R \in GotSet
        BY <2>2, <3>2 DEF ParserSet, GotSet
      <4>2. OnPiece(c, p) = e
        BY <2>2, <3>1, <3>2 DEF onMessageBegin, ParserSet
      <4> HIDE DEF R
      <4>3. e \in ParserSet /\ e.state = d.state /\ e.data = d.data /\ e.lib = d.lib /\ e.out = d.out
        BY <2>2, <4>1 DEF ParserSet
      <4> QED
        BY <2>2, <2>4, <2>5, <4>2, <4>3 DEF GoodParser
    <3>3. CASE Guess(p.v) \notin {"GET", "POST"}
      <4>1. OnPiece(c, p) = [d EXCEPT !.lib = "error"]
        BY <3>1, <3>3 DEF onMessageBegin
      <4> QED
        BY <2>2, <4>1, LibError
    <3> QED
      BY <3>2, <3>3
  <2>6. ASSUME NEW e \in ParserSet, e.lib = p.k, NEW state \in {"Url", "HeaderField", "HeaderValue"},
               p.k \in {"url", "field", "value"}
        PROVE  GoodParser(Collect(e, state, p.v))
    <3>1. Append(e.data, p.v) \in Seq(AllTexts) /\ Append(e.data, p.v) # <<>>
      BY <2>3, <2>6 DEF ParserSet
    <3>2. Collect(e, state, p.v) = [e EXCEPT !.state = state, !.data = Append(e.data, p.v)]
      BY DEF Collect
    <3> QED
      BY <2>6, <3>1, <3>2 DEF GoodParser, ParserSet
  <2>7. CASE p.k = "url"
    <3>1. OnPiece(c, p) = Collect(d, "Url", p.v)
      BY <1>3, <2>7 DEF OnPiece, d
    <3> QED
      BY <2>2, <2>6, <2>7, <3>1
  <2>8. ASSUME NEW state \in {"HeaderField", "HeaderValue"}, p.k \in {"field", "value"}
        PROVE  GoodParser(CollectNew(d, state, p.v))
    <3>1. CASE d.state = state
      BY <2>2, <2>6, <2>8, <3>1 DEF CollectNew
    <3>2. CASE d.state # state
      BY <2>2, <2>6, <2>8, <3>2, FlushGood DEF CollectNew
    <3> QED
      BY <3>1, <3>2
  <2>9. CASE p.k = "field"
    BY <1>3, <2>8, <2>9 DEF OnPiece, d
  <2>10. CASE p.k = "value"
    BY <1>3, <2>8, <2>10 DEF OnPiece, d
  <2>11. ASSUME NEW e \in ParserSet PROVE GoodParser(onMessageComplete(e))
    <3>1. Append(e.out, e.request) \in Seq(GotSet) /\ Append(e.out, e.request) # <<>>
      BY DEF ParserSet
    <3>2. PICK a \in Seq(GotSet) : a = Append(e.out, e.request) /\ a # <<>>
      BY <3>1
    <3>3. onMessageComplete(e) = [e EXCEPT !.out = a, !.state = "Complete", !.lib = "end"]
      BY <3>2 DEF onMessageComplete
    <3>4. "end" \in Kinds
      BY DEF Kinds
    <3>5. PICK g : g = onMessageComplete(e)
      OBVIOUS
    <3>6. g \in ParserSet /\ g.out = a /\ g.state = "Complete" /\ g.lib = "end"
      BY <3>3, <3>4, <3>5 DEF ParserSet
    <3> QED
      BY <3>2, <3>5, <3>6 DEF GoodParser
  <2>12. onHeaderComplete(d, p.v) \in ParserSet
    <3>1. PICK e \in ParserSet : e = Flush(d)
      BY <2>2, FlushGood
    <3>2. CASE p.v \in Versions
      <4> DEFINE R == [e.request EXCEPT !.version = p.v]
      <4>1. R \in GotSet
        BY <3>2 DEF ParserSet, GotSet
      <4>2. onHeaderComplete(d, p.v) = [e EXCEPT !.request = R, !.state = "Body"]
        BY <3>1, <3>2 DEF onHeaderComplete, ParserSet
      <4> HIDE DEF R
      <4> QED
        BY <4>1, <4>2 DEF ParserSet
    <3>3. CASE p.v \notin Versions
      <4>1. onHeaderComplete(d, p.v) = [e EXCEPT !.lib = "end"] /\ "end" \in Kinds
        BY <3>1, <3>3 DEF onHeaderComplete, Kinds
      <4> QED
        BY <4>1, SetLib
    <3> QED
      BY <3>2, <3>3
  <2>13. CASE p.k = "last"
    BY <1>3, <2>11, <2>12, <2>13 DEF OnPiece, d
  <2>14. CASE p.k = "body"
    BY <1>3, <2>2, <2>11, <2>14 DEF OnPiece, d
  <2>15. CASE p.k = "headers"
    <3> DEFINE e == onHeaderComplete(d, p.v)
    <3>1. OnPiece(c, p) = IF e.lib = "end" THEN onMessageComplete(e) ELSE e
      BY <1>3, <2>15 DEF OnPiece, d
    <3>2. CASE e.lib = "end"
      BY <2>11, <2>12, <3>1, <3>2
    <3>3. CASE e.lib # "end"
      <4>1. PICK f \in ParserSet : f = Flush(d) /\ f.lib = p.k
        BY <2>2, FlushGood
      <4>2. p.v \in Versions
        BY <3>3, <4>1, SetLib DEF onHeaderComplete
      <4>3. e = [f EXCEPT !.request.version = p.v, !.state = "Body"]
        BY <4>1, <4>2 DEF onHeaderComplete
      <4>4. e.lib = p.k /\ e.state = "Body"
        BY <4>1, <4>3 DEF ParserSet
      <4> QED
        BY <2>12, <2>15, <3>1, <3>3, <4>4 DEF GoodParser
    <3> QED
      BY <3>2, <3>3
  <2> QED
    BY <2>1, <2>5, <2>7, <2>9, <2>10, <2>13, <2>14, <2>15
<1> QED
  BY <1>2, <1>3

(* Parsing a read keeps the parser good.                                   *)
LEMMA ParseGood ==
  ASSUME NEW c, GoodParser(c), NEW pieces \in Seq(PieceSet)
  PROVE  GoodParser(Parse(c, pieces))
<1> DEFINE L == Len(pieces)
<1>1. L \in Nat /\ L \in 0..L
  OBVIOUS
<1>2. PICK f : /\ f[0] = c /\ f[L] = Parse(c, pieces)
               /\ \A n \in 1..L : f[n] = OnPiece(f[n - 1], pieces[n])
  BY <1>1, ParseIs
<1> DEFINE A == {n \in 0..L : GoodParser(f[n])}
<1>3. 0 \in A
  BY <1>1, <1>2
<1>4. ASSUME NEW n \in 0..(L - 1), n \in A PROVE n + 1 \in A
  <2>1. n + 1 \in 1..L /\ n + 1 \in 0..L /\ (n + 1) - 1 = n
    BY <1>1
  <2>2. f[n + 1] = OnPiece(f[n], pieces[n + 1])
    BY <1>2, <2>1
  <2>3. GoodParser(f[n]) /\ pieces[n + 1] \in PieceSet
    BY <1>4, <2>1
  <2>4. GoodParser(f[n + 1])
    BY <2>2, <2>3, OnPieceGood
  <2> QED
    BY <2>1, <2>4
<1>5. L \in A
  <2> HIDE DEF A, L
  <2> QED
    BY <1>1, <1>3, <1>4, UpTo
<1> QED
  BY <1>2, <1>5

(* Pieces of a request have the type of a piece.                           *)
LEMMA OnePiece ==
  ASSUME NEW k \in Kinds, NEW v \in AllTexts
  PROVE  <<[k |-> k, v |-> v]>> \in Seq(PieceSet)
<1>1. PICK p \in PieceSet : p = [k |-> k, v |-> v]
  BY DEF PieceSet
<1>2. <<p>> \in Seq(PieceSet)
  OBVIOUS
<1> QED
  BY <1>1, <1>2

(* A text reported in parts is a sequence of pieces.                       *)
LEMMA TextPiecesType ==
  ASSUME NEW texts \in Seq(Texts), NEW k \in Kinds
  PROVE  TextPieces(k, texts) \in Seq(PieceSet)
<1> DEFINE piece(i) == [k |-> k, v |-> texts[i]]
<1>1. Len(texts) \in Nat /\ DOMAIN texts = 1..Len(texts)
  OBVIOUS
<1>2. ASSUME NEW i \in 1..Len(texts) PROVE piece(i) \in PieceSet
  <2>1. texts[i] \in AllTexts
    BY ElementOfSeq DEF AllTexts
  <2> QED
    BY <2>1 DEF PieceSet
<1> HIDE DEF piece
<1>3. [i \in 1..Len(texts) |-> piece(i)] \in Seq(PieceSet)
  BY <1>1, <1>2
<1> QED
  BY <1>1, <1>3 DEF piece, TextPieces

(* A peer writes pieces. *)
LEMMA PiecesAre ==
  ASSUME NEW r \in Requests
  PROVE  Pieces(r) \in Seq(PieceSet)
<1>1. /\ r.method \in Texts /\ r.version \in Texts /\ r.url \in Seq(Texts)
      /\ r.header \in Seq([field : Seq(Texts), value : Seq(Texts)])
  BY HttpAssumption
<1>2. /\ "begin" \in Kinds /\ "url" \in Kinds /\ "field" \in Kinds /\ "value" \in Kinds
      /\ "headers" \in Kinds /\ "last" \in Kinds /\ "body" \in Kinds
      /\ "" \in AllTexts /\ Texts \subseteq AllTexts
  BY DEF Kinds, AllTexts
<1>3. ASSUME NEW h \in [field : Seq(Texts), value : Seq(Texts)]
      PROVE  FieldPieces(h) \in Seq(PieceSet)
  <2>1. h.field \in Seq(Texts) /\ h.value \in Seq(Texts)
    BY <1>3
  <2>2. PICK a \in Seq(PieceSet) : a = TextPieces("field", h.field)
    BY <1>2, <2>1, TextPiecesType
  <2>3. PICK b \in Seq(PieceSet) : b = TextPieces("value", h.value)
    BY <1>2, <2>1, TextPiecesType
  <2>4. FieldPieces(h) = a \o b
    BY <2>2, <2>3 DEF FieldPieces
  <2> QED
    BY <2>4
<1>4. PICK c \in Seq(PieceSet) : c = FlattenSeq([n \in DOMAIN r.header |-> FieldPieces(r.header[n])])
  <2>1. Len(r.header) \in Nat /\ DOMAIN r.header = 1..Len(r.header)
    BY <1>1
  <2>2. \A n \in 1..Len(r.header) : r.header[n] \in [field : Seq(Texts), value : Seq(Texts)]
    BY <1>1, ElementOfSeq
  <2>3. \A n \in 1..Len(r.header) : FieldPieces(r.header[n]) \in Seq(PieceSet)
    BY <1>3, <2>2
  <2>4. [n \in DOMAIN r.header |-> FieldPieces(r.header[n])] \in Seq(Seq(PieceSet))
    BY <2>1, <2>3
  <2> QED
    BY <2>4, FlattenInSeq
<1>5. PICK b \in Seq(PieceSet) : b = TextPieces("url", r.url)
  BY <1>1, <1>2, TextPiecesType
<1>6. PICK a \in Seq(PieceSet) : a = <<[k |-> "begin", v |-> r.method]>>
  BY <1>1, <1>2, OnePiece
<1>7. PICK d \in Seq(PieceSet) : d = <<[k |-> IF r.body THEN "headers" ELSE "last", v |-> r.version]>>
  <2>1. (IF r.body THEN "headers" ELSE "last") \in Kinds
    BY <1>2
  <2> QED
    BY <1>1, <1>2, <2>1, OnePiece
<1>8. PICK e \in Seq(PieceSet) : e = IF r.body THEN <<[k |-> "body", v |-> ""]>> ELSE <<>>
  <2>1. <<[k |-> "body", v |-> ""]>> \in Seq(PieceSet)
    BY <1>2, OnePiece
  <2>2. <<>> \in Seq(PieceSet)
    OBVIOUS
  <2> QED
    BY <2>1, <2>2
<1>9. Pieces(r) = a \o b \o c \o d \o e
  BY <1>4, <1>5, <1>6, <1>7, <1>8 DEF Pieces
<1> QED
  BY <1>9

-----------------------------------------------------------------------------
(* Two ordered sequences in the order of their requests stay ordered.      *)
LEMMA OrderedConcat ==
  ASSUME NEW s \in Seq(Messages), NEW t \in Seq(Messages), Ordered(s), Ordered(t),
         \A i \in DOMAIN s, j \in DOMAIN t : s[i].of <= t[j].of
  PROVE  Ordered(s \o t)
<1> SUFFICES ASSUME NEW i \in DOMAIN (s \o t)
             PROVE  /\ i > 1 => (s \o t)[i].of >= (s \o t)[i - 1].of
                    /\ (s \o t)[i].part = "body" =>
                         i > 1 /\ (s \o t)[i - 1] = [(s \o t)[i] EXCEPT !.part = "header"]
  BY DEF Ordered
<1>1. /\ Len(s) \in Nat /\ Len(t) \in Nat /\ i \in 1..(Len(s) + Len(t))
      /\ DOMAIN s = 1..Len(s) /\ DOMAIN t = 1..Len(t)
  OBVIOUS
<1>2. \A j \in 1..(Len(s) + Len(t)) : (s \o t)[j] = IF j <= Len(s) THEN s[j] ELSE t[j - Len(s)]
  OBVIOUS
<1>3. CASE i <= Len(s)
  <2>1. i \in DOMAIN s /\ (s \o t)[i] = s[i] /\ (i > 1 => (s \o t)[i - 1] = s[i - 1])
    BY <1>1, <1>2, <1>3
  <2> QED
    BY <2>1 DEF Ordered
<1>4. CASE i = Len(s) + 1
  <2>1. (s \o t)[i] = t[1] /\ 1 \in DOMAIN t /\ t[1].part # "body"
    <3>1. 1 \in DOMAIN t /\ i - Len(s) = 1 /\ ~(i <= Len(s)) /\ ~(1 > 1)
      BY <1>1, <1>4
    <3> QED
      BY <1>1, <1>2, <3>1 DEF Ordered
  <2>2. i > 1 => Len(s) \in DOMAIN s /\ (s \o t)[i - 1] = s[Len(s)]
    BY <1>1, <1>2, <1>4
  <2>3. \A m \in Messages : m.of \in Nat
    BY DEF Messages
  <2> QED
    BY <2>1, <2>2, <2>3
<1>5. CASE i > Len(s) + 1
  <2>1. PICK j \in DOMAIN t : j = i - Len(s)
    BY <1>1, <1>5
  <2>2. (s \o t)[i] = t[j] /\ j > 1 /\ (s \o t)[i - 1] = t[j - 1]
    BY <1>1, <1>2, <1>5, <2>1
  <2> QED
    BY <1>1, <1>5, <2>1, <2>2 DEF Ordered
<1>6. i <= Len(s) \/ i = Len(s) + 1 \/ i > Len(s) + 1
  BY <1>1
<1> QED
  BY <1>3, <1>4, <1>5, <1>6

(* An answer is a header, perhaps with its body, in the version of its request. *)
LEMMA ResponseIs ==
  ASSUME NEW i \in Nat \ {0}, NEW r \in GotSet
  PROVE  /\ Response(i, r) \in Seq(Messages) /\ Len(Response(i, r)) \in {1, 2}
         /\ Ordered(Response(i, r))
         /\ \A j \in DOMAIN Response(i, r) : /\ Response(i, r)[j].of = i
                                             /\ Response(i, r)[j].version = r.version
<1>1. Status(r) \in {"BAD_REQUEST", "NOT_FOUND", "OK"}
  BY DEF Status
<1>2. PICK m \in Messages : /\ m = sendResponseHeader(i, r)
                            /\ m.part = "header" /\ m.of = i /\ m.version = r.version
  <2> DEFINE m == [part |-> "header", of |-> i, version |-> r.version, status |-> Status(r)]
  <2>1. r.version \in Versions
    BY DEF GotSet
  <2>2. m \in Messages /\ m.part = "header" /\ m.of = i /\ m.version = r.version
    BY <1>1, <2>1 DEF Messages
  <2> QED
    BY <2>2 DEF sendResponseHeader
<1>3. PICK b \in Messages : /\ b = [m EXCEPT !.part = "body"] /\ m = [b EXCEPT !.part = "header"]
                            /\ b.of = i /\ b.version = r.version
  <2> DEFINE b == [m EXCEPT !.part = "body"]
  <2>1. b \in Messages /\ b.of = i /\ b.version = r.version
    BY <1>2 DEF Messages
  <2>2. m = [b EXCEPT !.part = "header"]
    BY <1>2 DEF Messages
  <2> QED
    BY <2>1, <2>2
<1>4. Response(i, r) = <<m>> \/ Response(i, r) = <<m, b>>
  BY <1>2, <1>3 DEF Response
<1>5. CASE Response(i, r) = <<m>>
  <2>1. <<m>> \in Seq(Messages) /\ Len(<<m>>) = 1 /\ DOMAIN <<m>> = 1..1 /\ <<m>>[1] = m
    OBVIOUS
  <2>2. \A j \in 1..1 : j = 1 /\ ~(j > 1)
    OBVIOUS
  <2>3. Ordered(<<m>>)
    BY <1>2, <2>1, <2>2 DEF Ordered
  <2> QED
    BY <1>2, <1>5, <2>1, <2>2, <2>3
<1>6. CASE Response(i, r) = <<m, b>>
  <2>1. /\ <<m, b>> \in Seq(Messages) /\ Len(<<m, b>>) = 2 /\ DOMAIN <<m, b>> = 1..2
        /\ <<m, b>>[1] = m /\ <<m, b>>[2] = b
    OBVIOUS
  <2>2. \A j \in 1..2 : (j = 1 /\ ~(j > 1)) \/ (j = 2 /\ j > 1 /\ j - 1 = 1)
    OBVIOUS
  <2>3. b.of >= m.of
    BY <1>2, <1>3
  <2>4. Ordered(<<m, b>>)
    <3>1. PICK s : s = <<m, b>>
      OBVIOUS
    <3>2. m = [b EXCEPT !.part = "header"] /\ m.part # "body"
      BY <1>2, <1>3
    <3>3. DOMAIN s = 1..2 /\ s[1] = m /\ s[2] = b
      BY <2>1, <3>1
    <3>4. Ordered(s)
      BY <2>2, <2>3, <3>2, <3>3 DEF Ordered
    <3> QED
      BY <3>1, <3>4
  <2> QED
    BY <1>2, <1>3, <1>6, <2>1, <2>2, <2>4, ZenonT(40)
<1> QED
  BY <1>4, <1>5, <1>6

(* The answers to the requests of one read: in order, for these requests,  *)
(* one or two for each.                                                    *)
LEMMA AnswersAre ==
  ASSUME NEW n \in Nat, NEW out \in Seq(GotSet)
  PROVE  /\ Answers(n, out) \in Seq(Messages) /\ Ordered(Answers(n, out))
         /\ Len(Answers(n, out)) <= 2 * Len(out)
         /\ out # <<>> => Answers(n, out) # <<>>
         /\ \A j \in DOMAIN Answers(n, out) :
              /\ Answers(n, out)[j].of \in (n + 1)..(n + Len(out))
              /\ Answers(n, out)[j].version = out[Answers(n, out)[j].of - n].version
<1> DEFINE L == Len(out)
           seqs == [i \in DOMAIN out |-> Response(n + i, out[i])]
           Fits(s, k) == /\ s \in Seq(Messages) /\ Ordered(s) /\ Len(s) \in 1..(2 * k)
                         /\ \A j \in DOMAIN s : /\ s[j].of \in (n + 1)..(n + k)
                                                /\ s[j].version = out[s[j].of - n].version
<1>1. L \in Nat /\ DOMAIN out = 1..L /\ DOMAIN seqs = 1..L
  OBVIOUS
<1>2. CASE out = <<>>
  <2>1. seqs = <<>> /\ Len(seqs) = 0 /\ Len(out) = 0
    BY <1>2
  <2>2. Answers(n, out) = <<>>
    BY <2>1 DEF Answers, FlattenSeq
  <2>3. <<>> \in Seq(Messages) /\ Len(<<>>) = 0 /\ DOMAIN <<>> = {}
    OBVIOUS
  <2>4. Ordered(<<>>)
    BY <2>3 DEF Ordered
  <2>5. Len(<<>>) <= 2 * Len(out)
    BY <2>1, <2>3
  <2> HIDE DEF seqs
  <2> QED
    BY <1>2, <2>2, <2>3, <2>4, <2>5
<1>3. CASE out # <<>>
  <2>1. ASSUME NEW i \in 1..L
        PROVE  /\ seqs[i] \in Seq(Messages) /\ Len(seqs[i]) \in {1, 2} /\ Ordered(seqs[i])
               /\ \A j \in DOMAIN seqs[i] : /\ seqs[i][j].of = n + i
                                            /\ seqs[i][j].version = out[i].version
    <3>1. n + i \in Nat \ {0} /\ out[i] \in GotSet /\ seqs[i] = Response(n + i, out[i])
      BY <1>1, ElementOfSeq
    <3>2. PICK s : s = Response(n + i, out[i])
      OBVIOUS
    <3>3. /\ s \in Seq(Messages) /\ Len(s) \in {1, 2} /\ Ordered(s)
          /\ \A j \in DOMAIN s : s[j].of = n + i /\ s[j].version = out[i].version
      BY <3>1, <3>2, ResponseIs
    <3> HIDE DEF seqs
    <3> QED
      BY <3>1, <3>2, <3>3
  <2>2. seqs \in Seq(Seq(Messages)) /\ Len(seqs) = L /\ seqs # <<>> /\ L >= 1
    <3>1. L >= 1
      BY <1>3
    <3>2. \A i \in 1..L : Response(n + i, out[i]) \in Seq(Messages)
      BY <1>1, <2>1
    <3>3. [i \in 1..L |-> Response(n + i, out[i])] \in Seq(Seq(Messages))
      BY <1>1, <3>2
    <3>4. seqs \in Seq(Seq(Messages)) /\ Len(seqs) = L
      BY <1>1, <3>3
    <3> HIDE DEF seqs
    <3> QED
      BY <3>1, <3>4
  <2>3. PICK f \in [1..L -> Seq(Messages)] :
           /\ f[1] = seqs[1] /\ Answers(n, out) = f[L]
           /\ \A i \in 2..L : f[i] = f[i - 1] \o seqs[i]
    <3>1. Answers(n, out) = FlattenSeq(seqs)
      BY DEF Answers
    <3> HIDE DEF seqs
    <3>2. \E f \in [1..Len(seqs) -> Seq(Messages)] :
             /\ f[1] = seqs[1]
             /\ \A i \in 2..Len(seqs) : f[i] = f[i - 1] \o seqs[i]
             /\ FlattenSeq(seqs) = f[Len(seqs)]
      BY <2>2, FlattenIs
    <3> HIDE DEF L
    <3> QED
      BY <2>2, <3>1, <3>2
  <2> HIDE DEF seqs
  <2> DEFINE A == {k \in Nat : k < L => Fits(f[k + 1], k + 1)}
  <2>4. 0 \in A
    <3>1. 1 \in 1..L /\ 0 + 1 = 1 /\ n + 1 \in (n + 1)..(n + 1) /\ (n + 1) - n = 1 /\ 2 * 1 = 2
          /\ 1 \in 1..2 /\ 2 \in 1..2
      BY <2>2
    <3>2. Fits(f[1], 1)
      BY <2>1, <2>3, <3>1
    <3> HIDE DEF Fits
    <3> QED
      BY <3>1, <3>2
  <2>5. ASSUME NEW k \in 0..((L - 1) - 1), k \in A PROVE k + 1 \in A
    <3> DEFINE i == k + 2
    <3>1. /\ k \in Nat /\ k + 1 \in Nat /\ k < L /\ (k + 1) + 1 = i /\ i \in 2..L /\ i \in 1..L
          /\ i - 1 = k + 1 /\ k + 1 \in 1..L
      BY <1>1
    <3>2. PICK s \in Seq(Messages) : s = f[k + 1] /\ Fits(s, k + 1)
      BY <2>5, <3>1
    <3>3. PICK t \in Seq(Messages) : /\ t = seqs[i] /\ Len(t) \in {1, 2} /\ Ordered(t)
                                     /\ \A j \in DOMAIN t : /\ t[j].of = n + i
                                                            /\ t[j].version = out[i].version
      BY <2>1, <3>1
    <3>4. f[i] = s \o t
      BY <2>3, <3>1, <3>2, <3>3
    <3>5. \A j \in DOMAIN s : s[j].of \in (n + 1)..(n + i) /\ s[j].of <= n + i
      <4>1. \A x \in (n + 1)..(n + (k + 1)) : x \in (n + 1)..(n + i) /\ x <= n + i
        BY <3>1
      <4> HIDE DEF i
      <4> QED
        BY <3>2, <4>1
    <3>6. Ordered(s \o t)
      BY <3>2, <3>3, <3>5, OrderedConcat
    <3>7. Len(s \o t) \in 1..(2 * i)
      <4>1. Len(s \o t) = Len(s) + Len(t)
        OBVIOUS
      <4>2. Len(s) \in 1..(2 * (k + 1)) /\ 2 * i = 2 * (k + 1) + 2
        BY <3>1, <3>2
      <4>3. Len(s) \in Nat /\ Len(s) >= 1 /\ Len(s) <= 2 * (k + 1)
        BY <3>1, <4>2
      <4>4. Len(t) \in Nat /\ Len(t) <= 2
        <5>1. Len(t) = 1 \/ Len(t) = 2
          BY <3>3
        <5>2. 1 \in Nat /\ 1 <= 2 /\ 2 \in Nat /\ 2 <= 2
          OBVIOUS
        <5> QED
          BY <5>1, <5>2, Zenon
      <4>5. Len(s) + Len(t) \in 1..(2 * (k + 1) + 2)
        BY <3>1, <4>3, <4>4
      <4> QED
        BY <4>1, <4>2, <4>5
    <3>8. ASSUME NEW j \in DOMAIN (s \o t)
          PROVE  /\ (s \o t)[j].of \in (n + 1)..(n + i)
                 /\ (s \o t)[j].version = out[(s \o t)[j].of - n].version
      <4>1. (\E a \in DOMAIN s : (s \o t)[j] = s[a]) \/ (\E a \in DOMAIN t : (s \o t)[j] = t[a])
        <5>1. Len(s) \in Nat /\ Len(t) \in Nat /\ j \in 1..(Len(s) + Len(t))
          OBVIOUS
        <5>2. CASE j <= Len(s)
          BY <5>1, <5>2
        <5>3. CASE ~(j <= Len(s))
          <6>1. j - Len(s) \in DOMAIN t /\ (s \o t)[j] = t[j - Len(s)]
            BY <5>1, <5>3
          <6> QED
            BY <6>1
        <5> QED
          BY <5>2, <5>3
      <4>2. n + i \in (n + 1)..(n + i) /\ (n + i) - n = i
        BY <3>1
      <4>3. \A a \in DOMAIN s : /\ s[a].of \in (n + 1)..(n + i)
                               /\ s[a].version = out[s[a].of - n].version
        BY <3>2, <3>5
      <4>4. \A a \in DOMAIN t : /\ t[a].of \in (n + 1)..(n + i)
                               /\ t[a].version = out[t[a].of - n].version
        BY <3>3, <4>2
      <4> HIDE DEF i
      <4> QED
        BY <4>1, <4>3, <4>4, Zenon
    <3>9. Fits(f[i], i)
      <4>1. s \o t \in Seq(Messages)
        OBVIOUS
      <4>2. Fits(s \o t, i)
        BY <3>6, <3>7, <3>8, <4>1
      <4> HIDE DEF Fits
      <4> QED
        BY <3>4, <4>2
    <3> HIDE DEF Fits
    <3> QED
      BY <3>1, <3>9
  <2>6. L - 1 \in Nat /\ L - 1 \in 0..(L - 1) /\ L - 1 < L /\ (L - 1) + 1 = L
    BY <2>2
  <2>7. L - 1 \in A
    <3> HIDE DEF A, L
    <3> QED
      BY <2>4, <2>5, <2>6, UpTo
  <2>8. Fits(f[L], L)
    BY <2>6, <2>7
  <2>9. f[L] # <<>> /\ Len(f[L]) <= 2 * L
    BY <2>8
  <2> QED
    BY <2>3, <2>8, <2>9
<1> QED
  BY <1>2, <1>3

-----------------------------------------------------------------------------
(* The inductive form implies the order of the answers the runs check.     *)
LEMMA SoundIsInOrder ==
  ASSUME InOrder
  PROVE  AnswersInOrder
BY DEF InOrder, Fitting, Ordered, AnswersInOrder

(* A new connection.                                                       *)
LEMMA HttpInitInv ==
  ASSUME HttpInit
  PROVE  HttpInv
<1> USE DEF HttpInit
<1>1. <<>> \in Seq(PieceSet) /\ <<>> \in Seq(Nat) /\ <<>> \in Seq(Messages) /\ <<>> \in Seq(GotSet)
      /\ <<>> \in Seq(AllTexts) /\ Len(<<>>) = 0 /\ DOMAIN <<>> = {} /\ 1 \in Nat /\ 0 \in Nat
  OBVIOUS
<1>2. GoodParser(parser) /\ parser.out = <<>>
  <2>1. PICK v \in Versions :
           parser = [state |-> "Start", data |-> <<>>, lib |-> "end", iter |-> <<>>,
                     request |-> [method |-> "GET", url |-> <<>>, version |-> v,
                                  header |-> [f \in {} |-> <<>>]],
                     out |-> <<>>]
    OBVIOUS
  <2>2. [f \in {} |-> <<>>] \in [{} -> Seq(AllTexts)]
    OBVIOUS
  <2>3. PICK h \in Headers : h = [f \in {} |-> <<>>]
    BY <2>2 DEF Headers
  <2>4. PICK r \in GotSet : r = [method |-> "GET", url |-> <<>>, version |-> v, header |-> h]
    BY <1>1 DEF GotSet
  <2>5. parser = [state |-> "Start", data |-> <<>>, lib |-> "end", iter |-> <<>>,
                  request |-> r, out |-> <<>>]
    BY <2>1, <2>3, <2>4
  <2> QED
    BY <1>1, <2>5 DEF GoodParser, ParserSet, Kinds
<1>3. HttpTypes
  BY <1>1, <1>2 DEF HttpTypes
<1>4. BufferIsWrite
  BY <1>1 DEF BufferIsWrite
<1>5. InOrder
  <2>1. DOMAIN (<<>> \o <<>>) = {}
    OBVIOUS
  <2> QED
    BY <2>1 DEF InOrder, Fitting, Ordered
<1>6. KeepsListening
  <2>1. Outstanding = 1 /\ Len(answered) = 0
    BY <1>1 DEF Outstanding
  <2> QED
    BY <2>1 DEF KeepsListening
<1> QED
  BY <1>3, <1>4, <1>5, <1>6 DEF HttpInv

(* The lengths and counters are natural numbers.                           *)
LEMMA NumbersOf ==
  ASSUME HttpTypes
  PROVE  /\ Len(arrived) \in Nat /\ Len(writes) \in Nat /\ Len(answered) \in Nat
         /\ Len(stream) \in Nat /\ Len(readBuf) \in Nat /\ Outstanding \in Nat
         /\ reads \in Nat /\ written \in Nat
BY DEF HttpTypes, Outstanding

(* Actions that write nothing. *)
LEMMA NothingWritten ==
  ASSUME HttpInv, UNCHANGED <<wire, writes, writeBuf, answered, overwritten>>
  PROVE  BufferIsWrite' /\ InOrder'
BY DEF HttpInv, BufferIsWrite, InOrder, Fitting, Ordered

(* One lemma for each action of the connection: the peer sends a request.  *)
LEMMA PeerSendInv ==
  ASSUME HttpInv, NEW r \in Requests, PeerSend(r)
  PROVE  HttpInv'
<1> USE DEF PeerSend
<1>1. HttpTypes'
  <2>1. Pieces(r) \in Seq(PieceSet) /\ stream \in Seq(PieceSet)
    BY PiecesAre DEF HttpInv, HttpTypes
  <2>2. stream' \in Seq(PieceSet)
    BY <2>1
  <2> QED
    BY <2>2 DEF HttpInv, HttpTypes
<1>2. KeepsListening'
  BY DEF HttpInv, KeepsListening, Outstanding
<1> QED
  BY <1>1, <1>2, NothingWritten DEF HttpInv

(* A read completes with n pieces.                                         *)
LEMMA ReadInv ==
  ASSUME HttpInv, NEW n \in 1..BufSize, Read(n)
  PROVE  HttpInv'
<1> USE DEF Read
<1>1. HttpTypes /\ n \in Nat /\ n <= Len(stream) /\ reads > 0
  BY HttpAssumption DEF HttpInv
<1>2. HttpTypes'
  <2>1. /\ stream \in Seq(PieceSet) /\ readBuf \in Seq(PieceSet) /\ arrived \in Seq(Nat)
        /\ \A i \in DOMAIN arrived : arrived[i] <= Len(readBuf)
    BY <1>1 DEF HttpTypes
  <2>2. SubSeq(stream, 1, n) \in Seq(PieceSet) /\ Len(SubSeq(stream, 1, n)) = n
    BY <1>1, <2>1
  <2>3. /\ SubSeq(readBuf, n + 1, Len(readBuf)) \in Seq(PieceSet)
        /\ Len(SubSeq(readBuf, n + 1, Len(readBuf))) =
             IF n + 1 <= Len(readBuf) THEN Len(readBuf) - n ELSE 0
    BY <1>1, <2>1
  <2>4. readBuf' \in Seq(PieceSet) /\ n <= Len(readBuf') /\ Len(readBuf) <= Len(readBuf')
    BY <1>1, <2>1, <2>2, <2>3
  <2>5. stream' \in Seq(PieceSet)
    BY <1>1, <2>1
  <2>6. arrived' \in Seq(Nat) /\ DOMAIN arrived' = 1..(Len(arrived) + 1)
        /\ \A i \in DOMAIN arrived' : arrived'[i] = IF i <= Len(arrived) THEN arrived[i] ELSE n
    BY <1>1, <2>1
  <2>7. ASSUME NEW i \in DOMAIN arrived' PROVE arrived'[i] <= Len(readBuf')
    <3>1. CASE i <= Len(arrived)
      <4>1. i \in DOMAIN arrived /\ arrived'[i] = arrived[i] /\ arrived[i] \in Nat
        BY <2>1, <2>6, <3>1
      <4>2. arrived[i] <= Len(readBuf)
        BY <2>1, <4>1
      <4> QED
        BY <1>1, <2>4, <4>1, <4>2, NumbersOf
    <3>2. CASE ~(i <= Len(arrived))
      BY <2>4, <2>6, <3>2
    <3> QED
      BY <3>1, <3>2
  <2>8. reads' \in Nat
    BY <1>1 DEF HttpTypes
  <2> QED
    BY <1>1, <2>4, <2>5, <2>6, <2>7, <2>8 DEF HttpTypes
<1>3. KeepsListening'
  <2>1. Len(arrived') = Len(arrived) + 1
    BY <1>1 DEF HttpTypes
  <2>2. Outstanding' = Outstanding
    BY <1>1, <2>1, NumbersOf DEF Outstanding
  <2>3. ASSUME arrived # <<>> PROVE answered # <<>>
    <3>1. HttpTypes /\ Outstanding <= 1 + 2 * Len(answered)
      BY DEF HttpInv, KeepsListening
    <3>2. reads \in Nat /\ written \in Nat /\ Len(arrived) \in Nat /\ Len(writes) \in Nat /\ Len(answered) \in Nat
      BY <1>1, NumbersOf
    <3>3. Len(arrived) # 0
      BY <2>3, <3>1, EmptySeq DEF HttpTypes
    <3>4. Outstanding >= 2
      BY <1>1, <3>2, <3>3 DEF Outstanding
    <3>5. Len(answered) # 0
      BY <3>1, <3>2, <3>4 DEF Outstanding
    <3> QED
      BY <3>5
  <2> QED
    BY <2>2, <2>3 DEF HttpInv, KeepsListening
<1> QED
  BY <1>2, <1>3, NothingWritten DEF HttpInv

(* The peer closes, and the read that then fails.                          *)
LEMMA PeerGone ==
  ASSUME HttpInv, PeerClose \/ ReadError
  PROVE  HttpInv'
<1>1. HttpTypes
  BY DEF HttpInv
<1>2. CASE PeerClose
  <2>1. HttpTypes'
    BY <1>1, <1>2 DEF PeerClose, HttpTypes
  <2>2. KeepsListening'
    BY <1>2 DEF PeerClose, HttpInv, KeepsListening, Outstanding
  <2> QED
    BY <1>2, <2>1, <2>2, NothingWritten DEF HttpInv, PeerClose
<1>3. CASE ReadError
  <2>1. HttpTypes'
    BY <1>1, <1>3 DEF ReadError, HttpTypes
  <2>2. Outstanding' = Outstanding - 1 /\ closed'
    BY <1>1, <1>3, NumbersOf, SMTT(30) DEF ReadError, Outstanding
  <2>3. KeepsListening'
    BY <1>1, <1>3, <2>2, NumbersOf DEF ReadError, HttpInv, KeepsListening
  <2> QED
    BY <1>3, <2>1, <2>3, NothingWritten DEF HttpInv, ReadError
<1> QED
  BY <1>2, <1>3

(* The handler of a completed write.                                       *)
LEMMA WriteDoneInv ==
  ASSUME HttpInv, WriteDone
  PROVE  HttpInv'
<1> USE DEF WriteDone
<1>1. HttpTypes
  BY DEF HttpInv
<1>2. HttpTypes'
  BY <1>1 DEF HttpTypes
<1>3. Outstanding' = Outstanding
  <2>1. PICK a \in Nat, w \in Nat, r \in Nat, n \in Nat :
          a = Len(arrived) /\ w = Len(writes) /\ r = reads /\ n = written
    BY <1>1, NumbersOf
  <2>2. (r + 1) + a + w + (n - 1) = r + a + w + n
    OBVIOUS
  <2> QED
    BY <2>1, <2>2 DEF Outstanding
<1>4. KeepsListening'
  BY <1>3 DEF HttpInv, KeepsListening
<1> QED
  BY <1>2, <1>4, NothingWritten DEF HttpInv

(* What holds of a sequence of messages holds of its beginning.            *)
LEMMA PrefixFits ==
  ASSUME NEW s \in Seq(Messages), NEW t \in Seq(Messages), NEW got,
         Ordered(s \o t), Fitting(s \o t, got)
  PROVE  Ordered(s) /\ Fitting(s, got)
<1>1. /\ Len(s) \in Nat /\ Len(t) \in Nat /\ DOMAIN s = 1..Len(s)
      /\ DOMAIN (s \o t) = 1..(Len(s) + Len(t))
      /\ \A i \in 1..Len(s) : i \in 1..(Len(s) + Len(t)) /\ (s \o t)[i] = s[i]
  OBVIOUS
<1>2. \A i \in 1..Len(s) : i > 1 => i - 1 \in 1..Len(s)
  BY <1>1
<1>3. Ordered(s)
  BY <1>1, <1>2 DEF Ordered
<1>4. Fitting(s, got)
  BY <1>1 DEF Fitting
<1> QED
  BY <1>3, <1>4

(* A sequence is its first k elements and the others.                      *)
LEMMA SplitAt ==
  ASSUME NEW S, NEW s \in Seq(S), NEW k \in 0..Len(s)
  PROVE  /\ SubSeq(s, 1, k) \in Seq(S) /\ Len(SubSeq(s, 1, k)) = k
         /\ SubSeq(s, k + 1, Len(s)) \in Seq(S) /\ Len(SubSeq(s, k + 1, Len(s))) = Len(s) - k
         /\ SubSeq(s, 1, k) \o SubSeq(s, k + 1, Len(s)) = s
<1>1. PICK l \in Nat : l = Len(s) /\ k \in 0..l
  BY LenProperties
<1>2. k \in Int /\ k + 1 \in Int /\ l \in Int /\ 1 \in Int /\ 1 \in 1..(l + 1) /\ k \in (1 - 1)..l
      /\ l \in k..l
  BY <1>1
<1>3. (\A i \in 1..k : s[i] \in S) /\ (\A i \in (k + 1)..l : s[i] \in S)
  <2>1. \A i \in 1..l : s[i] \in S
    BY <1>1, ElementOfSeq
  <2> QED
    BY <1>1, <2>1
<1>4. PICK a \in Seq(S) : a = SubSeq(s, 1, k) /\ Len(a) = IF 1 <= k THEN (k - 1) + 1 ELSE 0
  <2>1. SubSeq(s, 1, k) \in Seq(S) /\ Len(SubSeq(s, 1, k)) = IF 1 <= k THEN (k - 1) + 1 ELSE 0
    BY <1>2, <1>3, SubSeqProperties
  <2> QED
    BY <2>1, Zenon
<1>5. PICK b \in Seq(S) : b = SubSeq(s, k + 1, l) /\ Len(b) = IF k + 1 <= l THEN (l - (k + 1)) + 1 ELSE 0
  <2>1. /\ SubSeq(s, k + 1, l) \in Seq(S)
        /\ Len(SubSeq(s, k + 1, l)) = IF k + 1 <= l THEN (l - (k + 1)) + 1 ELSE 0
    BY <1>2, <1>3, SubSeqProperties
  <2> QED
    BY <2>1, Zenon
<1>6. a \o b = s
  BY <1>1, <1>2, <1>4, <1>5, ConcatAdjacentSubSeq, SubSeqFull
<1>7. Len(a) = k /\ Len(b) = l - k
  <2>1. (IF 1 <= k THEN (k - 1) + 1 ELSE 0) = k /\ (IF k + 1 <= l THEN (l - (k + 1)) + 1 ELSE 0) = l - k
    BY <1>1
  <2> QED
    BY <1>4, <1>5, <2>1
<1> QED
  BY <1>1, <1>4, <1>5, <1>6, <1>7

(* A queue of at most one write.                                           *)
LEMMA OneLeft ==
  ASSUME NEW s \in Seq(Messages), s # <<>>, Len(s) <= 1
  PROVE  s = <<s[1]>> /\ Tail(s) = <<>>
<1>1. Len(s) = 1
  <2>1. PICK l \in Nat : l = Len(s) /\ l # 0
    BY EmptySeq
  <2>2. l = 1
    BY <2>1
  <2> QED
    BY <2>1, <2>2
<1>2. s = <<s[1]>>
  BY <1>1
<1>3. Len(Tail(s)) = 0 /\ Tail(s) \in Seq(Messages)
  BY <1>1, HeadTailProperties
<1> QED
  BY <1>2, <1>3

(* A write sends what is in the buffer.                                    *)
LEMMA WriteInv ==
  ASSUME HttpInv, Write
  PROVE  HttpInv'
<1> USE DEF Write
<1>1. HttpTypes /\ wire \in Seq(Messages) /\ writes \in Seq(Messages) /\ writes # <<>>
      /\ writeBuf \in Messages
  BY DEF HttpInv, HttpTypes
<1>2. wire' \in Seq(Messages) /\ writes' \in Seq(Messages) /\ Len(writes') = Len(writes) - 1
  BY <1>1
<1>3. HttpTypes'
  BY <1>1, <1>2 DEF HttpTypes
<1>4. Outstanding' = Outstanding
  BY <1>1, <1>2, NumbersOf DEF Outstanding
<1>5. KeepsListening'
  BY <1>4 DEF HttpInv, KeepsListening
<1>6. CASE overwritten
  BY <1>6, <1>3, <1>5 DEF HttpInv, BufferIsWrite, InOrder
<1>7. CASE ~overwritten
  <2>1. Len(writes) <= 1 /\ writes[1] = writeBuf
    BY <1>1, <1>7 DEF HttpInv, BufferIsWrite
  <2>2. writes = <<writeBuf>> /\ writes' = <<>>
    BY <1>1, <2>1, OneLeft
  <2>3. wire' \o writes' = wire \o writes
    BY <1>1, <1>2, <2>2
  <2>4. InOrder'
    <3>1. Ordered(wire \o writes) /\ Fitting(wire \o writes, answered)
      BY <1>7 DEF HttpInv, InOrder
    <3>2. PICK all : all = wire \o writes /\ all = wire' \o writes'
      BY <2>3
    <3>3. Ordered(all) /\ Fitting(all, answered) /\ answered' = answered
      BY <3>1, <3>2
    <3>4. Ordered(wire' \o writes') /\ Fitting(wire' \o writes', answered')
      BY <3>2, <3>3
    <3> QED
      BY <3>4 DEF InOrder, Ordered, Fitting
  <2>5. BufferIsWrite'
    BY <2>2 DEF BufferIsWrite
  <2> QED
    BY <1>3, <1>5, <2>4, <2>5 DEF HttpInv
<1> QED
  BY <1>6, <1>7

(* A write fails.                                                          *)
LEMMA WriteErrorInv ==
  ASSUME HttpInv, WriteError
  PROVE  HttpInv'
<1> USE DEF WriteError
<1>1. HttpTypes /\ wire \in Seq(Messages) /\ writes \in Seq(Messages) /\ writes # <<>>
  BY DEF HttpInv, HttpTypes
<1>2. writes' \in Seq(Messages) /\ Len(writes') = Len(writes) - 1
  BY <1>1
<1>3. HttpTypes'
  BY <1>1, <1>2 DEF HttpTypes
<1>4. Outstanding' = Outstanding - 1 /\ closed'
  BY <1>1, <1>2, NumbersOf DEF Outstanding
<1>5. KeepsListening'
  BY <1>1, <1>4, NumbersOf DEF HttpInv, KeepsListening
<1>6. CASE overwritten
  BY <1>6, <1>3, <1>5 DEF HttpInv, BufferIsWrite, InOrder
<1>7. CASE ~overwritten
  <2>1. Len(writes) <= 1
    BY <1>7 DEF HttpInv, BufferIsWrite
  <2>2. writes' = <<>>
    BY <1>1, <2>1, OneLeft
  <2>3. wire' \o writes' = wire
    BY <1>1, <2>2, ConcatEmptySeq
  <2>4. Ordered(wire) /\ Fitting(wire, answered)
    BY <1>1, <1>7, PrefixFits DEF HttpInv, InOrder
  <2>a. answered' = answered
    OBVIOUS
  <2>b. Ordered(wire' \o writes') /\ Fitting(wire' \o writes', answered')
    BY <2>a, <2>3, <2>4, Zenon
  <2>5. InOrder'
    BY <2>b DEF InOrder
  <2>6. BufferIsWrite'
    BY <2>2 DEF BufferIsWrite
  <2> QED
    BY <1>3, <1>5, <2>5, <2>6 DEF HttpInv
<1> QED
  BY <1>6, <1>7

(* The handler of a read. *)
LEMMA HandleReadInv ==
  ASSUME HttpInv, NEW taken \in 0..(2 * MaxRequests), HandleRead(taken)
  PROVE  HttpInv'
<1> DEFINE pieces == SubSeq(readBuf, 1, Head(arrived))
<1>1. /\ HttpTypes /\ arrived # <<>> /\ arrived \in Seq(Nat) /\ readBuf \in Seq(PieceSet)
      /\ wire \in Seq(Messages) /\ writes \in Seq(Messages) /\ answered \in Seq(GotSet)
      /\ reads \in Nat /\ written \in Nat /\ GoodParser(parser)
      /\ \A i \in DOMAIN arrived : arrived[i] <= Len(readBuf)
  BY DEF HttpInv, HttpTypes, HandleRead
<1>2. pieces \in Seq(PieceSet)
  <2>1. Head(arrived) = arrived[1] /\ 1 \in DOMAIN arrived /\ arrived[1] \in Nat
    BY <1>1
  <2>2. Head(arrived) \in Nat /\ Head(arrived) <= Len(readBuf)
    BY <1>1, <2>1
  <2> QED
    BY <1>1, <2>2
<1>3. PICK c : c = Parse(parser, pieces) /\ GoodParser(c)
  BY <1>1, <1>2, ParseGood
<1>4. c.out \in Seq(GotSet) /\ c \in ParserSet
  BY <1>3 DEF GoodParser, ParserSet
<1>5. Len(answered) \in Nat /\ Len(c.out) \in Nat
  BY <1>1, <1>4
<1>6. PICK new \in Seq(Messages) :
        /\ new = Answers(Len(answered), c.out) /\ Ordered(new) /\ Len(new) <= 2 * Len(c.out)
        /\ c.out # <<>> => new # <<>>
        /\ \A j \in DOMAIN new :
             /\ new[j].of \in (Len(answered) + 1)..(Len(answered) + Len(c.out))
             /\ new[j].version = c.out[new[j].of - Len(answered)].version
  BY <1>4, <1>5, AnswersAre
<1> HIDE DEF pieces
<1>7. /\ taken \in IF writes = <<>> THEN 0..Len(new) ELSE {0}
      /\ arrived' = Tail(arrived)
      /\ answered' = answered \o c.out
      /\ wire' = wire \o SubSeq(new, 1, taken)
      /\ written' = written + taken
      /\ writes' = writes \o SubSeq(new, taken + 1, Len(new))
      /\ writeBuf' = IF new = <<>> THEN writeBuf ELSE Last(new)
      /\ overwritten' = (overwritten \/ Len(writes') > 1)
      /\ reads' = IF c.lib # "error" /\ c.state # "Complete" THEN reads + 1 ELSE reads
      /\ parser' = IF c.lib # "error" /\ c.state = "Complete" THEN Reset(c)
                   ELSE [c EXCEPT !.out = <<>>]
      /\ readBuf' = IF arrived' = <<>> THEN <<>> ELSE readBuf
      /\ UNCHANGED <<stream, closed>>
  BY <1>3, <1>6 DEF HandleRead, pieces
<1>8. Len(new) \in Nat /\ taken \in 0..Len(new)
  BY <1>7
<1>9. PICK first \in Seq(Messages), rest \in Seq(Messages) :
        /\ first = SubSeq(new, 1, taken) /\ Len(first) = taken
        /\ rest = SubSeq(new, taken + 1, Len(new)) /\ Len(rest) = Len(new) - taken
        /\ first \o rest = new
  <2> DEFINE a == SubSeq(new, 1, taken)
             b == SubSeq(new, taken + 1, Len(new))
  <2>1. a \in Seq(Messages) /\ Len(a) = taken /\ b \in Seq(Messages) /\ Len(b) = Len(new) - taken
        /\ a \o b = new
    <3>1. new \in Seq(Messages) /\ taken \in 0..Len(new)
      BY <1>6, <1>8
    <3> QED
      BY <3>1, SplitAt
  <2>2. a = SubSeq(new, 1, taken) /\ b = SubSeq(new, taken + 1, Len(new))
    OBVIOUS
  <2> HIDE DEF a, b
  <2> QED
    BY <2>1, <2>2
<1>10. wire' = wire \o first /\ writes' = writes \o rest
  BY <1>7, <1>9
<1>11. HttpTypes'
  <2>1. wire' \in Seq(Messages) /\ writes' \in Seq(Messages) /\ answered' \in Seq(GotSet)
    <3>1. answered' = answered \o c.out
      BY <1>7
    <3> QED
      BY <1>1, <1>4, <1>10, <3>1, ConcatProperties
  <2>2. reads' \in Nat /\ written' \in Nat
    <3>1. written' = written + taken /\ (reads' = reads + 1 \/ reads' = reads)
      BY <1>7
    <3> QED
      BY <1>1, <1>8, <3>1
  <2>3. arrived' \in Seq(Nat) /\ \A i \in DOMAIN arrived' : arrived'[i] <= Len(readBuf')
    <3>1. arrived' \in Seq(Nat) /\ Len(arrived') = Len(arrived) - 1
          /\ \A i \in DOMAIN arrived' : i + 1 \in DOMAIN arrived /\ arrived'[i] = arrived[i + 1]
      <4>1. arrived' = Tail(arrived)
        BY <1>7
      <4>2. PICK t \in Seq(Nat) : /\ t = Tail(arrived) /\ Len(t) = Len(arrived) - 1
                                 /\ \A i \in 1..Len(t) : t[i] = arrived[i + 1]
        BY <1>1, HeadTailProperties
      <4>3. Len(arrived) \in Nat /\ DOMAIN arrived = 1..Len(arrived) /\ DOMAIN t = 1..Len(t)
        BY <1>1, <4>2
      <4>4. \A i \in 1..Len(t) : i + 1 \in 1..Len(arrived)
        BY <4>2, <4>3
      <4> QED
        BY <4>1, <4>2, <4>3, <4>4
    <3>2. CASE arrived' = <<>>
      BY <3>1, <3>2
    <3>3. CASE arrived' # <<>>
      BY <1>1, <1>7, <3>1, <3>3
    <3> QED
      BY <3>1, <3>2, <3>3
  <2>4. readBuf' \in Seq(PieceSet) /\ stream' \in Seq(PieceSet)
    <3>1. <<>> \in Seq(PieceSet)
      OBVIOUS
    <3> QED
      BY <1>1, <1>7, <3>1 DEF HttpTypes
  <2>5. GoodParser(parser') /\ parser'.out = <<>>
    <3>1. <<>> \in Seq(GotSet) /\ <<>> \in Seq(AllTexts)
      OBVIOUS
    <3>2. CASE c.lib # "error" /\ c.state = "Complete"
      <4>1. parser' = [c EXCEPT !.state = "Start", !.data = <<>>, !.out = <<>>]
        BY <1>7, <3>2 DEF Reset
      <4>2. /\ parser' \in ParserSet /\ parser'.state = "Start" /\ parser'.out = <<>>
            /\ parser'.lib = c.lib
        BY <1>4, <3>1, <4>1 DEF ParserSet
      <4> QED
        BY <1>3, <4>2 DEF GoodParser
    <3>3. CASE ~(c.lib # "error" /\ c.state = "Complete")
      <4>1. parser' = [c EXCEPT !.out = <<>>]
        BY <1>7, <3>3
      <4>2. /\ parser' \in ParserSet /\ parser'.state = c.state /\ parser'.out = <<>>
            /\ parser'.lib = c.lib /\ parser'.data = c.data
        BY <1>4, <3>1, <4>1 DEF ParserSet
      <4> QED
        BY <1>3, <3>3, <4>2 DEF GoodParser
    <3> QED
      BY <3>2, <3>3
  <2>6. writes' # <<>> => writeBuf' \in Messages
    <3>1. CASE new = <<>>
      <4>1. rest = <<>>
        BY <1>8, <1>9, <3>1
      <4>2. writes' = writes
        BY <1>1, <1>10, <4>1, ConcatEmptySeq
      <4> QED
        BY <1>1, <1>7, <3>1, <4>2 DEF HttpTypes
    <3>2. CASE new # <<>>
      <4>1. Last(new) \in Messages
        BY <3>2 DEF Last
      <4> QED
        BY <1>7, <3>2, <4>1
    <3> QED
      BY <3>1, <3>2
  <2> QED
    BY <2>1, <2>2, <2>3, <2>4, <2>5, <2>6 DEF HttpTypes
<1>12. KeepsListening'
  <2>1. PICK a \in Nat, w \in Nat, g \in Nat, o \in Nat, l \in Nat :
          /\ a = Len(arrived) /\ w = Len(writes) /\ g = Len(answered) /\ o = Len(c.out)
          /\ l = Len(new) /\ l <= 2 * o
    BY <1>1, <1>4, <1>6, LenProperties
  <2>2. a >= 1 /\ Len(arrived') = a - 1
    <3>1. a # 0
      BY <1>1, <2>1, EmptySeq
    <3>2. arrived' = Tail(arrived)
      BY <1>7
    <3> QED
      BY <1>1, <2>1, <3>1, <3>2, HeadTailProperties
  <2>3. Len(writes') = w + (l - taken)
    <3>1. Len(writes \o rest) = Len(writes) + Len(rest)
      BY <1>1, <1>9, ConcatProperties
    <3> QED
      BY <1>9, <1>10, <2>1, <3>1
  <2>4. Len(answered') = g + o
    <3>1. answered' = answered \o c.out
      BY <1>7
    <3> QED
      BY <1>1, <1>4, <2>1, <3>1, ConcatProperties
  <2>5. written' = written + taken /\ taken \in 0..l
    BY <1>7, <1>8, <2>1
  <2>6. PICK r \in Nat : reads' = r /\ r \in reads..(reads + 1)
    <3>1. reads' = reads + 1 \/ reads' = reads
      BY <1>7
    <3> QED
      BY <1>1, <3>1
  <2>7. Outstanding = reads + a + w + written
    BY <2>1 DEF Outstanding
  <2>8. Outstanding' = r + (a - 1) + (w + (l - taken)) + (written + taken)
    BY <2>2, <2>3, <2>5, <2>6 DEF Outstanding
  <2>9. Outstanding' = r + (a - 1) + w + l + written
    BY <1>1, <2>5, <2>8
  <2>10. Outstanding <= 1 + 2 * g
    BY <2>1 DEF HttpInv, KeepsListening
  <2>11. Outstanding' <= 1 + 2 * (g + o)
    <3>1. r <= reads + 1
      BY <1>1, <2>6
    <3>2. reads + a + w + written <= 1 + 2 * g
      BY <2>7, <2>10
    <3>3. r + (a - 1) + w + l + written <= 1 + 2 * (g + o)
      BY <1>1, <2>1, <3>1, <3>2, SMTT(30)
    <3> QED
      BY <2>9, <3>3
  <2>12. ASSUME parser'.lib # "error" PROVE Outstanding' >= 1
    <3>1. c.lib # "error"
      <4>1. CASE c.lib # "error" /\ c.state = "Complete"
        BY <4>1
      <4>2. CASE ~(c.lib # "error" /\ c.state = "Complete")
        <5>1. parser' = [c EXCEPT !.out = <<>>]
          BY <1>7, <4>2
        <5>2. parser'.lib = c.lib
          BY <1>4, <5>1 DEF ParserSet
        <5> QED
          BY <2>12, <5>2
      <4> QED
        BY <4>1, <4>2
    <3>2. CASE c.state = "Complete"
      <4>1. new # <<>>
        BY <1>3, <1>6, <3>1, <3>2 DEF GoodParser
      <4>2. l # 0
        BY <1>6, <2>1, <4>1, EmptySeq
      <4>3. r + (a - 1) + w + l + written >= 1
        BY <1>1, <2>2, <4>2
      <4> QED
        BY <2>9, <4>3
    <3>3. CASE c.state # "Complete"
      <4>1. r = reads + 1
        BY <1>7, <2>6, <3>1, <3>3
      <4>2. r + (a - 1) + w + l + written >= 1
        BY <1>1, <2>2, <4>1
      <4> QED
        BY <2>9, <4>2
    <3> QED
      BY <3>2, <3>3
  <2>13. overlapped' => answered' # <<>>
    <3>1. overlapped' = overlapped
      BY DEF HandleRead
    <3>2. overlapped => answered # <<>>
      BY DEF HttpInv, KeepsListening
    <3>3. ASSUME answered # <<>> PROVE Len(answered') # 0
      <4>1. answered \in Seq(GotSet)
        BY <1>1 DEF HttpTypes
      <4>2. g # 0
        BY <2>1, <3>3, <4>1, EmptySeq
      <4> QED
        BY <2>1, <2>4, <4>2
    <3> QED
      BY <3>1, <3>2, <3>3
  <2> QED
    BY <2>4, <2>11, <2>12, <2>13 DEF KeepsListening
<1>13. ASSUME ~overwritten'
       PROVE  /\ Len(writes') <= 1 /\ (writes' # <<>> => writes'[1] = writeBuf')
              /\ wire' \o writes' = (wire \o writes) \o new
  <2>1. ~overwritten /\ ~(Len(writes') > 1)
    BY <1>7, <1>13
  <2>2. writes' \in Seq(Messages) /\ Len(writes') \in Nat
    BY <1>11 DEF HttpTypes
  <2>3. Len(writes') <= 1
    BY <2>1, <2>2
  <2>4. CASE writes # <<>>
    <3>1. Len(writes) \in Nat /\ Len(writes) # 0 /\ Len(rest) = Len(new) /\ taken = 0
      BY <1>1, <1>7, <1>9, <2>4, EmptySeq
    <3>2. Len(writes') = Len(writes) + Len(rest)
      BY <1>1, <1>9, <1>10, ConcatProperties
    <3>3. Len(new) = 0
      BY <1>8, <2>3, <3>1, <3>2
    <3>4. new = <<>> /\ first = <<>> /\ rest = <<>>
      BY <1>9, <3>1, <3>3
    <3>5. wire' = wire /\ writes' = writes /\ writeBuf' = writeBuf
      BY <1>1, <1>7, <1>10, <3>4, ConcatEmptySeq
    <3>6. (wire \o writes) \o new = wire \o writes
      <4>1. wire \o writes \in Seq(Messages)
        BY <1>1, ConcatProperties
      <4> QED
        BY <3>4, <4>1, ConcatEmptySeq
    <3>7. writes[1] = writeBuf
      BY <2>1, <2>4 DEF HttpInv, BufferIsWrite
    <3> QED
      BY <2>3, <3>5, <3>6, <3>7
  <2>5. CASE writes = <<>>
    <3>1. writes' = rest /\ wire \o writes = wire
      BY <1>1, <1>9, <1>10, <2>5, ConcatEmptySeq
    <3>2. wire' \o writes' = (wire \o writes) \o new
      <4>1. (wire \o first) \o rest = wire \o (first \o rest)
        <5>1. wire \in Seq(Messages) /\ first \in Seq(Messages) /\ rest \in Seq(Messages)
          BY <1>1, <1>9
        <5> QED
          BY <5>1, ConcatAssociative, SMTT(30)
      <4> QED
        BY <1>9, <1>10, <3>1, <4>1
    <3>3. ASSUME writes' # <<>> PROVE writes'[1] = writeBuf'
      <4>1. Len(rest) = 1
        <5>1. PICK m \in Nat : m = Len(writes') /\ m # 0
          BY <2>2, <3>3, EmptySeq
        <5>2. m <= 1
          BY <2>3, <5>1
        <5>3. m = 1
          BY <5>1, <5>2
        <5> QED
          BY <3>1, <5>1, <5>3
      <4>2. Len(new) = taken + 1 /\ new # <<>>
        <5>1. Len(new) = taken + 1
          <6>1. PICK m \in Nat, t \in Nat : m = Len(new) /\ t = taken
            BY <1>8
          <6>2. m - t = 1
            BY <1>9, <4>1, <6>1
          <6>3. m = t + 1
            BY <6>1, <6>2
          <6> QED
            BY <6>1, <6>3
        <5>2. new = <<>> => Len(new) = 0
          OBVIOUS
        <5> QED
          BY <1>8, <5>1, <5>2
      <4>3. (first \o rest)[taken + 1] = rest[1]
        <5>1. Len(first) = taken /\ first \in Seq(Messages) /\ rest \in Seq(Messages)
          BY <1>9
        <5>2. PICK t \in Nat : t = taken
          BY <1>8
        <5>3. t + 1 \in 1..(t + 1) /\ ~(t + 1 <= t) /\ (t + 1) - t = 1
          BY <5>2
        <5>4. \A i \in 1..(Len(first) + Len(rest)) :
                (first \o rest)[i] = IF i <= Len(first) THEN first[i] ELSE rest[i - Len(first)]
          BY <5>1, ConcatProperties
        <5>5. \A i \in 1..(t + 1) : (first \o rest)[i] = IF i <= t THEN first[i] ELSE rest[i - t]
          BY <4>1, <5>1, <5>2, <5>4
        <5> QED
          BY <5>2, <5>3, <5>5
      <4>4. writeBuf' = new[Len(new)]
        BY <1>7, <4>2 DEF Last
      <4> QED
        BY <1>9, <3>1, <4>2, <4>3, <4>4
    <3> QED
      BY <2>3, <3>2, <3>3
  <2> QED
    BY <2>4, <2>5
<1>14. BufferIsWrite'
  BY <1>13 DEF BufferIsWrite
<1>15. InOrder'
  <2> SUFFICES ASSUME ~overwritten'
               PROVE  Ordered(wire' \o writes') /\ Fitting(wire' \o writes', answered')
    BY DEF InOrder, Ordered, Fitting
  <2>1. PICK old \in Seq(Messages) : /\ old = wire \o writes
                                     /\ Ordered(old) /\ Fitting(old, answered)
    <3>1. ~overwritten
      BY <1>7
    <3>2. wire \o writes \in Seq(Messages)
      BY <1>1, ConcatProperties
    <3> QED
      BY <3>1, <3>2 DEF HttpInv, InOrder
  <2>2. wire' \o writes' = old \o new
    BY <1>13, <2>1
  <2>3. PICK got \in Seq(GotSet) : /\ got = answered' /\ got = answered \o c.out
    <3>1. answered \o c.out \in Seq(GotSet)
      BY <1>1, <1>4, ConcatProperties
    <3> QED
      BY <1>7, <3>1
  <2>4. PICK g \in Nat, o \in Nat : g = Len(answered) /\ o = Len(c.out)
    BY <1>5
  <2>5. /\ DOMAIN answered = 1..g /\ DOMAIN got = 1..(g + o)
        /\ \A i \in 1..g : got[i] = answered[i]
        /\ \A i \in (g + 1)..(g + o) : got[i] = c.out[i - g]
    <3>1. Len(got) = g + o
      BY <1>1, <1>4, <2>3, <2>4, ConcatProperties
    <3>2. \A i \in 1..(g + o) : got[i] = IF i <= g THEN answered[i] ELSE c.out[i - g]
      BY <1>1, <1>4, <2>3, <2>4, ConcatProperties
    <3>3. DOMAIN answered = 1..g /\ DOMAIN got = 1..(g + o)
      BY <1>1, <2>3, <2>4, <3>1, LenProperties
    <3>4. \A i \in 1..g : i \in 1..(g + o) /\ i <= g
      OBVIOUS
    <3>5. \A i \in (g + 1)..(g + o) : i \in 1..(g + o) /\ ~(i <= g)
      OBVIOUS
    <3> QED
      BY <3>2, <3>3, <3>4, <3>5
  <2>6. \A i \in DOMAIN old : /\ old[i].of \in 1..g /\ old[i].of \in 1..(g + o)
                              /\ old[i].version = got[old[i].of].version
    <3>1. \A i \in 1..g : i \in 1..(g + o)
      BY <2>4
    <3> QED
      BY <2>1, <2>5, <3>1 DEF Fitting
  <2>7. \A j \in DOMAIN new : /\ new[j].of \in (g + 1)..(g + o) /\ new[j].of \in 1..(g + o)
                              /\ new[j].version = got[new[j].of].version
    <3>1. \A i \in (g + 1)..(g + o) : i \in 1..(g + o)
      BY <2>4
    <3> QED
      BY <1>6, <2>4, <2>5, <3>1
  <2>8. \A i \in DOMAIN old, j \in DOMAIN new : old[i].of <= new[j].of
    <3>1. \A x \in 1..g, y \in (g + 1)..(g + o) : x <= y
      BY <2>4
    <3> QED
      BY <2>6, <2>7, <3>1
  <2>9. Ordered(old \o new)
    BY <1>6, <2>1, <2>8, OrderedConcat
  <2>10. Fitting(old \o new, got)
    <3>1. ASSUME NEW i \in DOMAIN (old \o new)
          PROVE  (\E a \in DOMAIN old : (old \o new)[i] = old[a])
                 \/ (\E a \in DOMAIN new : (old \o new)[i] = new[a])
      <4>1. PICK p \in Nat, q \in Nat :
              /\ p = Len(old) /\ q = Len(new) /\ DOMAIN old = 1..p /\ DOMAIN new = 1..q
              /\ i \in 1..(p + q)
              /\ (old \o new)[i] = IF i <= p THEN old[i] ELSE new[i - p]
        OBVIOUS
      <4>2. CASE i <= p
        BY <4>1, <4>2, SMTT(30)
      <4>3. CASE ~(i <= p)
        <5>1. i - p \in 1..q
          BY <4>1, <4>3
        <5> QED
          BY <4>1, <4>3, <5>1
      <4> QED
        BY <4>2, <4>3
    <3> QED
      BY <2>5, <2>6, <2>7, <3>1, SMTT(30) DEF Fitting
  <2> QED
    BY <2>2, <2>3, <2>9, <2>10
<1> QED
  BY <1>11, <1>12, <1>14, <1>15 DEF HttpInv

-----------------------------------------------------------------------------
(* Every step of the connection keeps the invariant.                       *)
LEMMA HttpNextInv ==
  ASSUME HttpInv, [HttpNext]_httpVars
  PROVE  HttpInv'
<1>1. CASE \E r \in Requests : PeerSend(r)
  BY <1>1, PeerSendInv
<1>2. CASE PeerClose \/ ReadError
  BY <1>2, PeerGone
<1>3. CASE WriteError
  BY <1>3, WriteErrorInv
<1>4. CASE \E n \in 1..BufSize : Read(n)
  BY <1>4, ReadInv
<1>5. CASE \E taken \in 0..(2 * MaxRequests) : HandleRead(taken)
  BY <1>5, HandleReadInv
<1>6. CASE Write
  BY <1>6, WriteInv
<1>7. CASE WriteDone
  BY <1>7, WriteDoneInv
<1>8. CASE UNCHANGED httpVars
  <2>1. HttpTypes'
    BY <1>8 DEF httpVars, HttpInv, HttpTypes
  <2>2. KeepsListening'
    BY <1>8 DEF httpVars, HttpInv, KeepsListening, Outstanding
  <2> QED
    BY <1>8, <2>1, <2>2, NothingWritten DEF httpVars, HttpInv
<1> QED
  BY <1>1, <1>2, <1>3, <1>4, <1>5, <1>6, <1>7, <1>8 DEF HttpNext, HttpStep

(* The operations of a connection are sound (connection.h:188-227): as     *)
(* long as no write is overtaken the peer gets headers and bodies in the   *)
(* order of the requests, there is always an operation that keeps the      *)
(* connection alive, each answer adds at most two operations, and before   *)
(* the first answer no read overtakes another.                             *)
THEOREM OperationsAreAlwaysSound == HttpSpec => []OperationsAreSound
<1>1. HttpInit => HttpInv
  BY HttpInitInv
<1>2. HttpInv /\ [HttpNext]_httpVars => HttpInv'
  BY HttpNextInv
<1>3. HttpInv => OperationsAreSound
  BY SoundIsInOrder DEF HttpInv, OperationsAreSound
<1> QED
  BY <1>1, <1>2, <1>3, PTL DEF HttpSpec
-----------------------------------------------------------------------------
(* Where FlattenSeq puts the elements. *)
LEMMA FlattenLayout ==
  ASSUME NEW S, NEW seqs \in Seq(Seq(S))
  PROVE  \E off \in [1..(Len(seqs) + 1) -> Nat] :
           /\ off[1] = 0 /\ off[Len(seqs) + 1] = Len(FlattenSeq(seqs))
           /\ \A i \in 1..Len(seqs) :
                /\ off[i + 1] = off[i] + Len(seqs[i])
                /\ \A m \in 1..Len(seqs[i]) : /\ off[i] + m \in 1..Len(FlattenSeq(seqs))
                                              /\ FlattenSeq(seqs)[off[i] + m] = seqs[i][m]
<1>1. PICK L \in Nat : L = Len(seqs) /\ \A i \in 1..L : seqs[i] \in Seq(S) /\ Len(seqs[i]) \in Nat
  <2>1. Len(seqs) \in Nat /\ \A i \in 1..Len(seqs) : seqs[i] \in Seq(S)
    BY ElementOfSeq, LenProperties
  <2>2. \A i \in 1..Len(seqs) : Len(seqs[i]) \in Nat
    BY <2>1, LenProperties
  <2> QED
    BY <2>1, <2>2
<1>2. CASE seqs = <<>>
  <2>1. Len(seqs) = 0 /\ FlattenSeq(seqs) = <<>> /\ Len(<<>>) = 0
    BY <1>2 DEF FlattenSeq
  <2>2. PICK off \in [1..(0 + 1) -> Nat] : off[1] = 0 /\ off[0 + 1] = 0
    <3>1. [i \in 1..(0 + 1) |-> 0] \in [1..(0 + 1) -> Nat] /\ [i \in 1..(0 + 1) |-> 0][1] = 0
          /\ [i \in 1..(0 + 1) |-> 0][0 + 1] = 0
      OBVIOUS
    <3> QED
      BY <3>1
  <2>3. \A i \in 1..0 : FALSE
    OBVIOUS
  <2> QED
    BY <2>1, <2>2, <2>3
<1>3. CASE seqs # <<>>
  <2>1. L >= 1
    BY <1>1, <1>3, EmptySeq
  <2>2. PICK f \in [1..L -> Seq(S)] :
           /\ f[1] = seqs[1]
           /\ \A i \in 2..L : f[i] = f[i - 1] \o seqs[i]
           /\ FlattenSeq(seqs) = f[L]
    BY <1>1, <1>3, FlattenIs
  <2>3. \A i \in 1..L : f[i] \in Seq(S) /\ Len(f[i]) \in Nat
    BY <2>2, LenProperties
  <2> DEFINE off == [i \in 1..(L + 1) |-> IF i = 1 THEN 0 ELSE Len(f[i - 1])]
  <2>4. off \in [1..(L + 1) -> Nat]
    <3>1. \A i \in 1..(L + 1) : i # 1 => i - 1 \in 1..L
      BY <1>1
    <3> QED
      BY <2>3, <3>1
  <2>5. off[1] = 0 /\ \A i \in 1..L : off[i + 1] = Len(f[i]) /\ i + 1 \in 1..(L + 1)
    BY <1>1, <2>1
  <2>6. off[L + 1] = Len(f[L])
    BY <2>1, <2>5
  <2> HIDE DEF off
  <2>7. \A i \in 1..L : off[i + 1] = off[i] + Len(seqs[i])
    <3> SUFFICES ASSUME NEW i \in 1..L PROVE off[i + 1] = off[i] + Len(seqs[i])
      OBVIOUS
    <3>1. CASE i = 1
      BY <1>1, <2>1, <2>2, <2>5, <3>1
    <3>2. CASE i # 1
      <4>1. i \in 2..L /\ i - 1 \in 1..L /\ (i - 1) + 1 = i
        BY <1>1, <3>2
      <4>2. f[i] = f[i - 1] \o seqs[i]
        BY <2>2, <4>1
      <4>3. Len(f[i]) = Len(f[i - 1]) + Len(seqs[i])
        BY <1>1, <2>3, <4>1, <4>2, ConcatProperties
      <4>4. off[i] = Len(f[i - 1])
        BY <2>5, <4>1
      <4> QED
        BY <2>5, <4>3, <4>4
    <3> QED
      BY <3>1, <3>2
  <2> DEFINE Placed(k) == \A i \in 1..k : \A m \in 1..Len(seqs[i]) :
                            off[i] + m \in 1..Len(f[k]) /\ f[k][off[i] + m] = seqs[i][m]
             A == {k \in Nat : k < L => Placed(k + 1)}
  <2>8. 0 \in A
    <3>1. Placed(1)
      <4>1. 1 \in 1..L /\ \A i \in 1..1 : i = 1
        BY <1>1, <2>1
      <4>2. \A m \in 1..Len(seqs[1]) : 0 + m = m
        BY <1>1, <4>1
      <4> QED
        BY <2>2, <2>5, <4>1, <4>2
    <3>2. 0 + 1 = 1 /\ 0 \in Nat
      OBVIOUS
    <3> HIDE DEF Placed
    <3> QED
      BY <3>1, <3>2
  <2>9. ASSUME NEW k \in 0..((L - 1) - 1), k \in A PROVE k + 1 \in A
    <3>1. /\ k \in Nat /\ k + 1 \in Nat /\ k < L /\ k + 1 \in 1..L /\ k + 2 \in 2..L /\ k + 2 \in 1..L
          /\ (k + 2) - 1 = k + 1 /\ (k + 1) + 1 = k + 2
      BY <1>1
    <3>2. Placed(k + 1)
      BY <2>9, <3>1
    <3>3. PICK s \in Seq(S), t \in Seq(S) : s = f[k + 1] /\ t = seqs[k + 2] /\ f[k + 2] = s \o t
      BY <1>1, <2>2, <2>3, <3>1
    <3>4. PICK ls \in Nat, lt \in Nat :
            /\ ls = Len(s) /\ lt = Len(t) /\ Len(s \o t) = ls + lt
            /\ \A x \in 1..(ls + lt) : (s \o t)[x] = IF x <= ls THEN s[x] ELSE t[x - ls]
      <4>1. Len(s) \in Nat /\ Len(t) \in Nat
        BY <3>3, LenProperties
      <4>2. /\ Len(s \o t) = Len(s) + Len(t)
            /\ \A x \in 1..(Len(s) + Len(t)) : (s \o t)[x] = IF x <= Len(s) THEN s[x] ELSE t[x - Len(s)]
        <5>1. s \in Seq(S) /\ t \in Seq(S)
          BY <3>3
        <5> QED
          BY <5>1, ConcatProperties
      <4> QED
        BY <4>1, <4>2
    <3>5. ASSUME NEW i \in 1..(k + 2), NEW m \in 1..Len(seqs[i])
          PROVE  off[i] + m \in 1..Len(f[k + 2]) /\ f[k + 2][off[i] + m] = seqs[i][m]
      <4>1. CASE i = k + 2
        <5>1. off[i] = ls /\ m \in 1..lt /\ m \in Nat
          <6>1. off[k + 2] = Len(f[k + 1])
            BY <2>5, <3>1
          <6>2. Len(seqs[i]) = lt
            BY <3>3, <3>4, <4>1
          <6> QED
            BY <3>3, <3>4, <4>1, <6>1, <6>2
        <5>2. ls + m \in 1..(ls + lt) /\ ~(ls + m <= ls) /\ (ls + m) - ls = m
          BY <3>4, <5>1
        <5> QED
          BY <3>3, <3>4, <4>1, <5>1, <5>2
      <4>2. CASE i # k + 2
        <5>1. i \in 1..(k + 1)
          BY <3>1, <4>2
        <5>2. off[i] + m \in 1..ls /\ s[off[i] + m] = seqs[i][m]
          BY <3>2, <3>3, <3>4, <5>1
        <5>3. \A x \in 1..ls : x \in 1..(ls + lt) /\ x <= ls
          BY <3>4
        <5> QED
          BY <3>3, <3>4, <5>2, <5>3
      <4> QED
        BY <4>1, <4>2
    <3>6. Placed(k + 2)
      BY <3>5
    <3> HIDE DEF Placed
    <3> QED
      BY <3>1, <3>6
  <2>10. L - 1 \in Nat /\ L - 1 \in 0..(L - 1) /\ L - 1 < L /\ (L - 1) + 1 = L
    BY <1>1, <2>1
  <2>11. L - 1 \in A
    <3> HIDE DEF A
    <3> QED
      BY <2>8, <2>9, <2>10, UpTo
  <2>12. Placed(L)
    BY <2>10, <2>11
  <2> QED
    BY <1>1, <2>2, <2>4, <2>5, <2>6, <2>7, <2>12, ZenonT(40)
<1> QED
  BY <1>2, <1>3

(* The elements of a concatenation.                                        *)
LEMMA ConcatIs ==
  ASSUME NEW S, NEW s \in Seq(S), NEW t \in Seq(S)
  PROVE  /\ s \o t \in Seq(S) /\ Len(s \o t) = Len(s) + Len(t)
         /\ \A x \in 1..Len(s) : (s \o t)[x] = s[x]
         /\ \A x \in 1..Len(t) : (s \o t)[Len(s) + x] = t[x]
<1>1. /\ s \o t \in Seq(S) /\ Len(s \o t) = Len(s) + Len(t)
      /\ \A x \in 1..(Len(s) + Len(t)) : (s \o t)[x] = IF x <= Len(s) THEN s[x] ELSE t[x - Len(s)]
  BY ConcatProperties
<1>2. Len(s) \in Nat /\ Len(t) \in Nat
  BY LenProperties
<1>3. \A x \in 1..Len(s) : x \in 1..(Len(s) + Len(t)) /\ x <= Len(s)
  BY <1>2
<1>4. \A x \in 1..Len(t) : /\ Len(s) + x \in 1..(Len(s) + Len(t)) /\ ~(Len(s) + x <= Len(s))
                           /\ (Len(s) + x) - Len(s) = x
  BY <1>2
<1> QED
  BY <1>1, <1>3, <1>4

(* Where the pieces of a request are: its fields start behind hs[n].       *)
Layout(r, hs) ==
  LET all == Pieces(r)  H == Len(r.header)
  IN /\ all \in Seq(PieceSet)
     /\ hs \in [1..(H + 1) -> Nat]
     /\ hs[1] = 1 + Len(r.url)
     /\ \A n \in 1..H : hs[n + 1] = hs[n] + Len(r.header[n].field) + Len(r.header[n].value)
     /\ Len(all) = hs[H + 1] + (IF r.body THEN 2 ELSE 1)
     /\ all[1] = [k |-> "begin", v |-> r.method]
     /\ \A m \in 1..Len(r.url) : all[1 + m] = [k |-> "url", v |-> r.url[m]]
     /\ \A n \in 1..H :
          /\ \A m \in 1..Len(r.header[n].field) :
               all[hs[n] + m] = [k |-> "field", v |-> r.header[n].field[m]]
          /\ \A m \in 1..Len(r.header[n].value) :
               all[hs[n] + Len(r.header[n].field) + m] = [k |-> "value", v |-> r.header[n].value[m]]
     /\ all[hs[H + 1] + 1] = [k |-> IF r.body THEN "headers" ELSE "last", v |-> r.version]
     /\ r.body => all[hs[H + 1] + 2] = [k |-> "body", v |-> ""]
     /\ \A n \in 1..(H + 1) : hs[n] <= hs[H + 1]

(* Behind which piece each field of a request begins.                      *)
Starts(r) == CHOOSE hs : Layout(r, hs)

(* A header field of a request, its name and its value in their parts.     *)
FieldSet == [field : Seq(Texts), value : Seq(Texts)]

(* What HttpAssumption says of a request.                                  *)
LEMMA RequestIs ==
  ASSUME NEW r \in Requests
  PROVE  /\ r.method \in Texts /\ r.version \in Texts /\ r.body \in BOOLEAN
         /\ r.url \in Seq(Texts) /\ r.url # <<>> /\ Len(r.url) \in Nat \ {0}
         /\ r.header \in Seq(FieldSet) /\ Len(r.header) \in Nat
         /\ \A n \in 1..Len(r.header) : /\ r.header[n] \in FieldSet
                                        /\ r.header[n].field \in Seq(Texts)
                                        /\ Len(r.header[n].field) \in Nat \ {0}
                                        /\ r.header[n].value \in Seq(Texts)
                                        /\ Len(r.header[n].value) \in Nat \ {0}
<1>1. /\ r.method \in Texts /\ r.version \in Texts /\ r.body \in BOOLEAN
      /\ r.url \in Seq(Texts) /\ r.url # <<>>
      /\ r.header \in Seq(FieldSet)
      /\ \A n \in DOMAIN r.header : r.header[n].field # <<>> /\ r.header[n].value # <<>>
  BY HttpAssumption DEF FieldSet
<1>2. Len(r.url) \in Nat \ {0}
  BY <1>1, EmptySeq
<1>3. Len(r.header) \in Nat /\ DOMAIN r.header = 1..Len(r.header)
  BY <1>1, LenProperties
<1>4. ASSUME NEW n \in 1..Len(r.header)
      PROVE  /\ r.header[n] \in FieldSet /\ r.header[n].field \in Seq(Texts)
             /\ Len(r.header[n].field) \in Nat \ {0}
             /\ r.header[n].value \in Seq(Texts)
             /\ Len(r.header[n].value) \in Nat \ {0}
  <2>1. r.header[n] \in FieldSet
    BY <1>1, ElementOfSeq
  <2>2. r.header[n].field \in Seq(Texts) /\ r.header[n].value \in Seq(Texts)
    BY <2>1 DEF FieldSet
  <2>3. r.header[n].field # <<>> /\ r.header[n].value # <<>>
    BY <1>1, <1>3
  <2> QED
    BY <2>1, <2>2, <2>3, EmptySeq
<1> QED
  BY <1>1, <1>2, <1>3, <1>4

(* The pieces of a text reported in parts.                                 *)
LEMMA TextPiecesAre ==
  ASSUME NEW texts \in Seq(Texts), NEW k \in Kinds
  PROVE  LET s == TextPieces(k, texts)
         IN /\ s \in Seq(PieceSet) /\ Len(s) = Len(texts)
            /\ \A m \in 1..Len(texts) : s[m] = [k |-> k, v |-> texts[m]]
<1> DEFINE s == TextPieces(k, texts)
<1>1. s \in Seq(PieceSet)
  BY TextPiecesType
<1>2. DOMAIN texts = 1..Len(texts) /\ Len(texts) \in Nat
  BY LenProperties
<1>3. DOMAIN s = 1..Len(texts) /\ \A m \in 1..Len(texts) : s[m] = [k |-> k, v |-> texts[m]]
  BY <1>2 DEF TextPieces
<1>4. Len(s) \in Nat /\ DOMAIN s = 1..Len(s)
  <2> HIDE DEF s
  <2> QED
    BY <1>1, LenProperties
<1>5. Len(s) = Len(texts)
  <2> HIDE DEF s
  <2> QED
    BY <1>2, <1>3, <1>4
<1> QED
  BY <1>1, <1>3, <1>5

(* The pieces of a header field: the parts of its name, then of its value. *)
LEMMA FieldPiecesAre ==
  ASSUME NEW h \in FieldSet
  PROVE  /\ FieldPieces(h) \in Seq(PieceSet)
         /\ Len(FieldPieces(h)) = Len(h.field) + Len(h.value)
         /\ \A m \in 1..Len(h.field) : FieldPieces(h)[m] = [k |-> "field", v |-> h.field[m]]
         /\ \A m \in 1..Len(h.value) :
              FieldPieces(h)[Len(h.field) + m] = [k |-> "value", v |-> h.value[m]]
<1>1. h.field \in Seq(Texts) /\ h.value \in Seq(Texts) /\ "field" \in Kinds /\ "value" \in Kinds
  BY DEF FieldSet, Kinds
<1>2. PICK a \in Seq(PieceSet) : /\ a = TextPieces("field", h.field) /\ Len(a) = Len(h.field)
                                 /\ \A m \in 1..Len(h.field) : a[m] = [k |-> "field", v |-> h.field[m]]
  BY <1>1, TextPiecesAre
<1>3. PICK b \in Seq(PieceSet) : /\ b = TextPieces("value", h.value) /\ Len(b) = Len(h.value)
                                 /\ \A m \in 1..Len(h.value) : b[m] = [k |-> "value", v |-> h.value[m]]
  BY <1>1, TextPiecesAre
<1>4. FieldPieces(h) = a \o b
  BY <1>2, <1>3 DEF FieldPieces
<1>5. /\ a \o b \in Seq(PieceSet) /\ Len(a \o b) = Len(a) + Len(b)
      /\ \A x \in 1..Len(a) : (a \o b)[x] = a[x]
      /\ \A x \in 1..Len(b) : (a \o b)[Len(a) + x] = b[x]
  BY <1>2, <1>3, ConcatIs
<1> QED
  BY <1>2, <1>3, <1>4, <1>5

(* A function on 1..n is a sequence of length n.                           *)
LEMMA FunctionIsSeq ==
  ASSUME NEW S, NEW n \in Nat, NEW f \in [1..n -> S]
  PROVE  f \in Seq(S) /\ Len(f) = n
<1>1. f \in Seq(S)
  OBVIOUS
<1>2. DOMAIN f = 1..n /\ DOMAIN f = 1..Len(f) /\ Len(f) \in Nat
  BY <1>1, LenProperties
<1> QED
  BY <1>1, <1>2

(* Every request has such a layout.                                        *)
LEMMA PiecesLayout ==
  ASSUME NEW r \in Requests
  PROVE  Layout(r, Starts(r))
<1>0. PICK H \in Nat, U \in Nat, u \in Nat : H = Len(r.header) /\ U = Len(r.url) /\ u = 1 + U
  <2>1. Len(r.header) \in Nat /\ Len(r.url) \in Nat
    BY RequestIs
  <2> QED
    BY <2>1
<1> DEFINE fields == [n \in DOMAIN r.header |-> FieldPieces(r.header[n])]
           last == [k |-> IF r.body THEN "headers" ELSE "last", v |-> r.version]
           body == [k |-> "body", v |-> ""]
<1>1. /\ "begin" \in Kinds /\ "url" \in Kinds /\ "headers" \in Kinds /\ "last" \in Kinds
      /\ "body" \in Kinds /\ "" \in AllTexts /\ r.method \in AllTexts /\ r.version \in AllTexts
      /\ r.url \in Seq(Texts) /\ r.header \in Seq(FieldSet)
      /\ DOMAIN r.header = 1..H
  BY <1>0, RequestIs, LenProperties DEF Kinds, AllTexts
<1>2. \A n \in 1..H : r.header[n] \in FieldSet
  BY <1>0, RequestIs
<1>3. PICK a \in Seq(PieceSet) : /\ a = <<[k |-> "begin", v |-> r.method]>>
                                 /\ Len(a) = 1 /\ a[1] = [k |-> "begin", v |-> r.method]
  BY <1>1, OnePiece
<1>4. PICK b \in Seq(PieceSet) : /\ b = TextPieces("url", r.url)
                                 /\ Len(b) = U
                                 /\ \A m \in 1..U : b[m] = [k |-> "url", v |-> r.url[m]]
  BY <1>0, <1>1, TextPiecesAre, ZenonT(40)
<1>5. /\ fields \in Seq(Seq(PieceSet)) /\ Len(fields) = H
      /\ \A n \in 1..H : fields[n] = FieldPieces(r.header[n])
  <2>1. \A n \in 1..H : FieldPieces(r.header[n]) \in Seq(PieceSet)
    BY <1>2, FieldPiecesAre
  <2>2. fields = [n \in 1..H |-> FieldPieces(r.header[n])]
    BY <1>1
  <2>3. fields \in [1..H -> Seq(PieceSet)] /\ \A n \in 1..H : fields[n] = FieldPieces(r.header[n])
    BY <2>1, <2>2
  <2> HIDE DEF fields
  <2>4. H \in Nat
    OBVIOUS
  <2>5. fields \in Seq(Seq(PieceSet)) /\ Len(fields) = H
    BY <2>3, <2>4, FunctionIsSeq
  <2> QED
    BY <2>3, <2>5
<1> HIDE DEF fields
<1>6. PICK c \in Seq(PieceSet) : c = FlattenSeq(fields)
  BY <1>5, FlattenInSeq
<1>7. PICK off \in [1..(H + 1) -> Nat] :
        /\ off[1] = 0 /\ off[H + 1] = Len(c)
        /\ \A n \in 1..H :
             /\ off[n + 1] = off[n] + Len(fields[n])
             /\ \A m \in 1..Len(fields[n]) : off[n] + m \in 1..Len(c) /\ c[off[n] + m] = fields[n][m]
  <2>1. fields \in Seq(Seq(PieceSet))
    BY <1>5
  <2>2. \E off \in [1..(Len(fields) + 1) -> Nat] :
          /\ off[1] = 0 /\ off[Len(fields) + 1] = Len(FlattenSeq(fields))
          /\ \A i \in 1..Len(fields) :
               /\ off[i + 1] = off[i] + Len(fields[i])
               /\ \A m \in 1..Len(fields[i]) : /\ off[i] + m \in 1..Len(FlattenSeq(fields))
                                               /\ FlattenSeq(fields)[off[i] + m] = fields[i][m]
    BY <2>1, FlattenLayout
  <2>3. Len(fields) = H
    BY <1>5
  <2> QED
    BY <1>6, <2>2, <2>3, Zenon
<1>8. PICK d \in Seq(PieceSet) : d = <<last>> /\ Len(d) = 1 /\ d[1] = last
  <2>1. (IF r.body THEN "headers" ELSE "last") \in Kinds
    BY <1>1
  <2>2. <<last>> \in Seq(PieceSet)
    BY <1>1, <2>1, OnePiece
  <2> HIDE DEF last
  <2> QED
    BY <2>2
<1>9. PICK e \in Seq(PieceSet) : /\ e = IF r.body THEN <<body>> ELSE <<>>
                                 /\ Len(e) = IF r.body THEN 1 ELSE 0
                                 /\ r.body => e[1] = body
  <2>1. <<body>> \in Seq(PieceSet)
    BY <1>1, OnePiece
  <2>2. <<>> \in Seq(PieceSet)
    OBVIOUS
  <2> HIDE DEF body
  <2> QED
    BY <2>1, <2>2
<1>10. Pieces(r) = a \o b \o c \o d \o e
  BY <1>3, <1>4, <1>6, <1>8, <1>9 DEF Pieces, fields
<1> DEFINE ab == a \o b
           abc == ab \o c
           abcd == abc \o d
           all == abcd \o e
<1>11. /\ ab \in Seq(PieceSet) /\ Len(ab) = u
       /\ ab[1] = a[1] /\ \A x \in 1..U : ab[1 + x] = b[x]
  <2>1. /\ a \o b \in Seq(PieceSet) /\ Len(a \o b) = Len(a) + Len(b)
        /\ \A x \in 1..Len(a) : (a \o b)[x] = a[x]
        /\ \A x \in 1..Len(b) : (a \o b)[Len(a) + x] = b[x]
    BY <1>3, <1>4, ConcatIs
  <2>2. 1 \in 1..1
    OBVIOUS
  <2> QED
    BY <1>0, <1>3, <1>4, <2>1, <2>2
<1> HIDE DEF ab
<1>12. /\ abc \in Seq(PieceSet) /\ Len(abc) = u + Len(c)
       /\ \A x \in 1..u : abc[x] = ab[x]
       /\ \A x \in 1..Len(c) : abc[u + x] = c[x]
  <2>1. /\ ab \o c \in Seq(PieceSet) /\ Len(ab \o c) = Len(ab) + Len(c)
        /\ \A x \in 1..Len(ab) : (ab \o c)[x] = ab[x]
        /\ \A x \in 1..Len(c) : (ab \o c)[Len(ab) + x] = c[x]
    <3>1. ab \in Seq(PieceSet) /\ c \in Seq(PieceSet)
      BY <1>6, <1>11
    <3> QED
      BY <3>1, ConcatIs
  <2> QED
    BY <1>11, <2>1
<1> HIDE DEF abc
<1>13. PICK l \in Nat : l = Len(c) /\ off[H + 1] = l
  BY <1>6, <1>7, LenProperties
<1>14. /\ abcd \in Seq(PieceSet) /\ Len(abcd) = u + l + 1
       /\ \A x \in 1..(u + l) : abcd[x] = abc[x]
       /\ abcd[u + l + 1] = last
  <2>1. /\ abc \o d \in Seq(PieceSet) /\ Len(abc \o d) = Len(abc) + Len(d)
        /\ \A x \in 1..Len(abc) : (abc \o d)[x] = abc[x]
        /\ \A x \in 1..Len(d) : (abc \o d)[Len(abc) + x] = d[x]
    <3>1. abc \in Seq(PieceSet) /\ d \in Seq(PieceSet)
      BY <1>8, <1>12
    <3>2. \A s, t \in Seq(PieceSet) :
            /\ s \o t \in Seq(PieceSet) /\ Len(s \o t) = Len(s) + Len(t)
            /\ \A x \in 1..Len(s) : (s \o t)[x] = s[x]
            /\ \A x \in 1..Len(t) : (s \o t)[Len(s) + x] = t[x]
      BY ConcatIs
    <3> QED
      BY <3>1, <3>2, Zenon
  <2> HIDE DEF last
  <2>2. 1 \in 1..1 /\ Len(abc) = u + l
    BY <1>12, <1>13
  <2> QED
    BY <1>8, <2>1, <2>2
<1> HIDE DEF abcd
<1>15. /\ all \in Seq(PieceSet) /\ Len(all) = u + l + (IF r.body THEN 2 ELSE 1)
       /\ \A x \in 1..(u + l + 1) : all[x] = abcd[x]
       /\ r.body => all[u + l + 2] = body
  <2>1. /\ abcd \o e \in Seq(PieceSet) /\ Len(abcd \o e) = Len(abcd) + Len(e)
        /\ \A x \in 1..Len(abcd) : (abcd \o e)[x] = abcd[x]
        /\ \A x \in 1..Len(e) : (abcd \o e)[Len(abcd) + x] = e[x]
    <3>1. abcd \in Seq(PieceSet) /\ e \in Seq(PieceSet)
      BY <1>9, <1>14
    <3> QED
      BY <3>1, ConcatIs
  <2>2. 1 \in 1..1 
    BY <1>0
  <2> HIDE DEF body
  <2>3. u + l + 1 + 1 = u + l + 2 /\ u + l + 1 + 0 = u + l + 1
    BY <2>2
  <2>4. CASE r.body
    <3>1. Len(e) = 1 /\ e[1] = body /\ Len(abcd) = u + l + 1
      BY <1>9, <1>14, <2>4
    <3>2. (abcd \o e)[(u + l + 1) + 1] = body
      BY <2>1, <2>2, <3>1
    <3> QED
      BY <1>14, <2>1, <2>3, <2>4, <3>1, <3>2
  <2>5. CASE ~r.body
    BY <1>9, <1>14, <2>1, <2>2, <2>3, <2>5
  <2> QED
    BY <2>4, <2>5
<1> HIDE DEF all
<1>16. Pieces(r) = all
  BY <1>10 DEF all, abcd, abc, ab
<1> DEFINE hs == [n \in 1..(H + 1) |-> u + off[n]]
<1>17. hs \in [1..(H + 1) -> Nat] /\ \A n \in 1..(H + 1) : hs[n] = u + off[n]
  <2>1. u \in Nat
    BY <1>0
  <2>2. \A n \in 1..(H + 1) : u + off[n] \in Nat
    BY <1>7, <2>1
  <2> QED
    BY <2>2
<1>18. 1 \in 1..(H + 1) /\ H + 1 \in 1..(H + 1)
       /\ \A n \in 1..H : n \in 1..(H + 1) /\ n + 1 \in 1..(H + 1)
  BY <1>0
<1> HIDE DEF hs, last, body
<1>19. hs[1] = u /\ hs[H + 1] = u + l
  <2>1. hs[1] = u + off[1] /\ hs[H + 1] = u + off[H + 1]
    BY <1>17, <1>18
  <2>2. off[1] = 0 /\ off[H + 1] = l
    BY <1>7, <1>13
  <2>3. u + 0 = u
    OBVIOUS
  <2> QED
    BY <2>1, <2>2, <2>3, Zenon
<1>20. all[1] = [k |-> "begin", v |-> r.method]
       /\ \A m \in 1..U : all[1 + m] = [k |-> "url", v |-> r.url[m]]
  <2>1. \A x \in 1..u : x \in 1..(u + l) /\ x \in 1..(u + l + 1)
    BY <1>13, <1>18
  <2>2. \A x \in 1..u : all[x] = ab[x]
    <3> QED
      BY <1>0, <1>12, <1>14, <1>15, <2>1
  <2>3. 1 \in 1..u /\ \A m \in 1..U : 1 + m \in 1..u
    BY <1>0
  <2> QED
    BY <1>3, <1>4, <1>11, <2>2, <2>3
<1>21. ASSUME NEW n \in 1..H
       PROVE  /\ hs[n + 1] = hs[n] + Len(r.header[n].field) + Len(r.header[n].value)
              /\ \A m \in 1..Len(r.header[n].field) :
                   all[hs[n] + m] = [k |-> "field", v |-> r.header[n].field[m]]
              /\ \A m \in 1..Len(r.header[n].value) :
                   all[hs[n] + Len(r.header[n].field) + m] = [k |-> "value", v |-> r.header[n].value[m]]
  <2>1. PICK g \in Nat, w \in Nat : g = Len(r.header[n].field) /\ w = Len(r.header[n].value)
    BY <1>0, RequestIs
  <2>2. r.header[n] \in FieldSet /\ fields[n] = FieldPieces(r.header[n])
    BY <1>2, <1>5
  <2>3. /\ Len(fields[n]) = g + w
        /\ \A m \in 1..g : fields[n][m] = [k |-> "field", v |-> r.header[n].field[m]]
        /\ \A m \in 1..w : fields[n][g + m] = [k |-> "value", v |-> r.header[n].value[m]]
    BY <2>1, <2>2, FieldPiecesAre
  <2>4. PICK o \in Nat : o = off[n] /\ off[n + 1] = o + (g + w) /\ hs[n] = u + o /\ hs[n + 1] = u + off[n + 1]
    <3>1. n \in 1..(H + 1) /\ n + 1 \in 1..(H + 1)
      BY <1>18
    <3>2. off[n] \in Nat /\ hs[n] = u + off[n] /\ hs[n + 1] = u + off[n + 1]
      BY <1>7, <1>17, <3>1
    <3>3. off[n + 1] = off[n] + (g + w)
      BY <1>7, <2>3
    <3> QED
      BY <3>2, <3>3
  <2>5. \A m \in 1..(g + w) : o + m \in 1..l /\ c[o + m] = fields[n][m]
    BY <1>7, <1>13, <2>3, <2>4
  <2>6. \A x \in 1..l : u + x \in 1..(u + l) /\ u + x \in 1..(u + l + 1)
    BY <1>13, <1>18
  <2>7. \A x \in 1..l : all[u + x] = c[x]
    <3> QED
      BY <1>0, <1>12, <1>13, <1>14, <1>15, <2>6
  <2>8. PICK y \in Nat : y = u + o /\ y = hs[n]
    BY <2>4
  <2>9. \A m \in 1..(g + w) : u + (o + m) = y + m
    BY <2>8
  <2>10. \A m \in 1..(g + w) : all[y + m] = fields[n][m]
    BY <2>5, <2>7, <2>9
  <2>11. /\ \A m \in 1..g : m \in 1..(g + w)
         /\ \A m \in 1..w : g + m \in 1..(g + w) /\ y + g + m = y + (g + m)
    OBVIOUS
  <2>12. u + (o + (g + w)) = y + g + w
    BY <2>8
  <2>13. hs[n + 1] = y + g + w
    BY <2>4, <2>12
  <2>14. \A m \in 1..w : all[y + g + m] = [k |-> "value", v |-> r.header[n].value[m]]
    BY <2>3, <2>10, <2>11
  <2>15. \A m \in 1..g : all[y + m] = [k |-> "field", v |-> r.header[n].field[m]]
    BY <2>3, <2>10, <2>11
  <2> QED
    BY <2>1, <2>8, <2>13, <2>14, <2>15
<1>22. Len(all) = hs[H + 1] + (IF r.body THEN 2 ELSE 1) /\ all[hs[H + 1] + 1] = last
       /\ (r.body => all[hs[H + 1] + 2] = body)
  <2>1. u + l + 1 \in 1..(u + l + 1)
    BY <1>13, <1>18
  <2> QED
    BY <1>14, <1>15, <1>19, <2>1
<1>23. \A n \in 1..(H + 1) : hs[n] <= hs[H + 1]
  <2> SUFFICES ASSUME NEW n \in 1..(H + 1) PROVE hs[n] <= hs[H + 1]
    OBVIOUS
  <2>1. hs[n] = u + off[n] /\ off[n] \in Nat /\ hs[H + 1] = u + l
    BY <1>7, <1>17, <1>19
  <2>2. CASE n = H + 1
    <3>1. off[n] = l
      BY <1>13, <2>2
    <3> QED
      BY <2>1, <3>1
  <2>3. CASE n # H + 1
    <3>1. n \in 1..H
      BY <2>3
    <3>2. r.header[n] \in FieldSet /\ fields[n] = FieldPieces(r.header[n])
      BY <1>2, <1>5, <3>1
    <3>3. PICK g \in Nat \ {0}, w \in Nat : g = Len(r.header[n].field) /\ w = Len(r.header[n].value)
      BY <1>0, <3>1, RequestIs
    <3>4. Len(fields[n]) = g + w
      BY <3>2, <3>3, FieldPiecesAre
    <3>5. 1 \in 1..(g + w)
      <4>1. g > 0 /\ w >= 0 /\ g \in Nat /\ w \in Nat
        OBVIOUS
      <4>2. 1 <= g + w /\ g + w \in Nat
        BY <4>1
      <4> QED
        BY <4>2
    <3>6. off[n] + 1 \in 1..l
      BY <1>7, <1>13, <3>1, <3>4, <3>5
    <3>7. u + off[n] <= u + l
      BY <2>1, <3>6
    <3> QED
      BY <2>1, <3>7
  <2> QED
    BY <2>2, <2>3
<1>24. Layout(r, hs)
  <2>1. all \in Seq(PieceSet)
    BY <1>15
  <2> QED
    BY <1>0, <1>16, <1>17, <1>19, <1>20, <1>21, <1>22, <1>23, <2>1 DEF Layout, last, body
<1> QED
  BY <1>24 DEF Starts

-----------------------------------------------------------------------------
(* Nothing is collected and no text is being collected.                    *)
Fresh(c) == c.data = <<>> /\ c.state \notin {"Url", "HeaderField", "HeaderValue"}

(* The names of the first n fields of a request.                           *)
Named(r, n) == {r.header[m].field : m \in 1..n}

(* The header holds the values of the first n fields of a request, and     *)
(* what was left of the names that are none of theirs.                     *)
Holds(header, r, n, left) ==
  /\ \A m \in 1..n :
       LET h == r.header[m]
       IN (\A l \in (m + 1)..n : r.header[l].field # h.field)
            => h.field \in DOMAIN header /\ header[h.field] = h.value
  /\ \A f \in DOMAIN left \ Named(r, n) : f \in DOMAIN header /\ header[f] = left[f]

(* The header is what the first n fields of a request make of what was     *)
(* left when it began.                                                     *)
Stored(header, r, n, left) ==
  DOMAIN header = Named(r, n) \cup DOMAIN left /\ Holds(header, r, n, left)

(* The nth field has been named; its value is still to come.               *)
Awaiting(header, r, n, left) ==
  /\ r.header[n].field \in DOMAIN header
  /\ DOMAIN header = Named(r, n) \cup DOMAIN left /\ Holds(header, r, n - 1, left)

(* What the parser is like after j pieces of the request r.                *)
InUrl(c, r, j, left) ==
  \E m \in 1..Len(r.url) :
    /\ j = 1 + m /\ c.lib = "url" /\ c.state = "Url" /\ c.data = SubSeq(r.url, 1, m)
    /\ c.request.header = left

(* After m parts of the name of the nth field, the ones before it stored.  *)
InField(c, r, j, left) ==
  \E n \in 1..Len(r.header) : \E m \in 1..Len(r.header[n].field) :
    /\ j = Starts(r)[n] + m /\ c.lib = "field" /\ c.state = "HeaderField"
    /\ c.data = SubSeq(r.header[n].field, 1, m)
    /\ c.request.url = r.url /\ Stored(c.request.header, r, n - 1, left)

(* After m parts of the value of the nth field.                            *)
InValue(c, r, j, left) ==
  \E n \in 1..Len(r.header) : \E m \in 1..Len(r.header[n].value) :
    /\ j = Starts(r)[n] + Len(r.header[n].field) + m
    /\ c.lib = "value" /\ c.state = "HeaderValue"
    /\ c.data = SubSeq(r.header[n].value, 1, m) /\ c.iter = r.header[n].field
    /\ c.request.url = r.url /\ Awaiting(c.request.header, r, n, left)

(* After the header of a request that has a body.                          *)
InBody(c, r, j, left) ==
  /\ r.body /\ j = Starts(r)[Len(r.header) + 1] + 1
  /\ c.lib = "headers" /\ c.state = "Body" /\ c.data = <<>>
  /\ c.request.url = r.url /\ Stored(c.request.header, r, Len(r.header), left)
  /\ c.request.version = r.version

(* The places in a request at which a read may end.                        *)
Progress(c, r, j, left) ==
  /\ c.request.method = Guess(r.method)
  /\ \/ j = 1 /\ c.lib = "begin" /\ Fresh(c) /\ c.request.header = left
     \/ InUrl(c, r, j, left)
     \/ InField(c, r, j, left)
     \/ InValue(c, r, j, left)
     \/ InBody(c, r, j, left)

(* The request handed over is the one sent, with what was left in the      *)
(* header when it began.                                                   *)
SameRequest(got, want, left) ==
  /\ got.url = want.url
  /\ got.method = Guess(want.method)
  /\ Stored(got.header, want, Len(want.header), left)
  /\ want.version \in Versions => got.version = want.version

-----------------------------------------------------------------------------
(* What the parts of a callback leave behind. *)
LEMMA CollectIs ==
  ASSUME NEW c \in ParserSet, NEW v \in AllTexts,
         NEW state \in {"Url", "HeaderField", "HeaderValue"}
  PROVE  LET e == Collect(c, state, v)
         IN /\ e.state = state /\ e.data = Append(c.data, v) /\ e.lib = c.lib
            /\ e.request = c.request /\ e.out = c.out /\ e.iter = c.iter
BY DEF Collect, ParserSet

(* Handing over the URL: it becomes that of the request.                   *)
LEMMA FlushUrl ==
  ASSUME NEW c \in ParserSet, c.state = "Url"
  PROVE  LET e == Flush(c)
         IN /\ e.data = <<>> /\ e.request.url = c.data
            /\ e.request.method = c.request.method /\ e.request.header = c.request.header
<1>1. Flush(c) = [[c EXCEPT !.request.url = c.data] EXCEPT !.data = <<>>]
  BY DEF Flush, CallCallback, onUrl
<1>2. PICK d : d = [c EXCEPT !.request.url = c.data]
  OBVIOUS
<1>3. d \in ParserSet /\ d.request.url = c.data
      /\ d.request.method = c.request.method /\ d.request.header = c.request.header
  BY <1>2 DEF ParserSet, GotSet
<1>4. Flush(c) = [d EXCEPT !.data = <<>>]
  BY <1>1, <1>2
<1> QED
  BY <1>3, <1>4 DEF ParserSet

(* Handing over a name: the header has the field, the others as before.    *)
LEMMA FlushField ==
  ASSUME NEW c \in ParserSet, c.state = "HeaderField"
  PROVE  LET e == Flush(c)
         IN /\ e.data = <<>> /\ e.iter = c.data
            /\ DOMAIN e.request.header = DOMAIN c.request.header \cup {c.data}
            /\ e.request.method = c.request.method /\ e.request.url = c.request.url
            /\ \A g \in DOMAIN c.request.header : e.request.header[g] = c.request.header[g]
<1> DEFINE f == c.data
           H == c.request.header
           G == [g \in DOMAIN H \cup {f} |-> IF g \in DOMAIN H THEN H[g] ELSE <<>>]
           R == [c.request EXCEPT !.header = G]
<1>1. CallCallback(c) = [c EXCEPT !.iter = f, !.request.header = G]
  BY DEF CallCallback, onHeaderField
<1>2. DOMAIN G = DOMAIN H \cup {f} /\ \A g \in DOMAIN H : G[g] = H[g]
  OBVIOUS
<1> HIDE DEF G, f
<1>3. CallCallback(c) = [c EXCEPT !.iter = f, !.request = R]
  BY <1>1 DEF ParserSet
<1>4. R.header = G /\ R.method = c.request.method /\ R.url = c.request.url
  BY DEF ParserSet, GotSet
<1> HIDE DEF R
<1>5. PICK d : d = CallCallback(c) /\ d \in ParserSet
  BY CallCallbackGood
<1>6. d.iter = f /\ d.request = R
  BY <1>3, <1>5 DEF ParserSet
<1>7. Flush(c) = [d EXCEPT !.data = <<>>]
  BY <1>5 DEF Flush
<1>8. Flush(c).data = <<>> /\ Flush(c).iter = f /\ Flush(c).request = R
  BY <1>5, <1>6, <1>7 DEF ParserSet
<1> QED
  BY <1>2, <1>4, <1>8 DEF f

(* Handing over a value: it replaces that of the field last named.         *)
LEMMA FlushValue ==
  ASSUME NEW c \in ParserSet, c.state = "HeaderValue", c.iter \in DOMAIN c.request.header
  PROVE  LET e == Flush(c)
         IN /\ e.data = <<>>
            /\ e.request.method = c.request.method /\ e.request.url = c.request.url
            /\ DOMAIN e.request.header = DOMAIN c.request.header
            /\ \A g \in DOMAIN c.request.header :
                 e.request.header[g] = IF g = c.iter THEN c.data ELSE c.request.header[g]
<1> DEFINE H == c.request.header
           G == [H EXCEPT ![c.iter] = c.data]
           R == [c.request EXCEPT !.header = G]
<1>1. CallCallback(c) = [c EXCEPT !.request.header = G]
  BY DEF CallCallback, onHeaderValue
<1>2. DOMAIN G = DOMAIN H /\ \A g \in DOMAIN H : G[g] = IF g = c.iter THEN c.data ELSE H[g]
  <2>1. PICK D \in SUBSET Seq(AllTexts) : H \in [D -> Seq(AllTexts)]
    BY DEF ParserSet, GotSet, Headers
  <2> HIDE DEF H
  <2> QED
    BY <2>1
<1> HIDE DEF G
<1>3. CallCallback(c) = [c EXCEPT !.request = R]
  BY <1>1 DEF ParserSet
<1>4. R.header = G /\ R.method = c.request.method /\ R.url = c.request.url
  BY DEF ParserSet, GotSet
<1> HIDE DEF R
<1>5. PICK d : d = CallCallback(c) /\ d \in ParserSet
  BY CallCallbackGood
<1>6. d.request = R
  BY <1>3, <1>5 DEF ParserSet
<1>7. Flush(c) = [d EXCEPT !.data = <<>>]
  BY <1>5 DEF Flush
<1>8. Flush(c).data = <<>> /\ Flush(c).request = R
  BY <1>5, <1>6, <1>7 DEF ParserSet
<1> QED
  BY <1>2, <1>4, <1>8

(* The names of the fields grow by that of the next one.                   *)
LEMMA NamedGrows ==
  ASSUME NEW r, NEW n \in Nat \ {0}
  PROVE  Named(r, n) = Named(r, n - 1) \cup {r.header[n].field}
<1>1. \A m : m \in 1..n <=> m \in 1..(n - 1) \/ m = n
  OBVIOUS
<1> QED
  BY <1>1 DEF Named

(* Naming the next field leaves the stored ones as they are.               *)
LEMMA StoredStays ==
  ASSUME NEW r, NEW n \in Nat \ {0}, NEW left, NEW old, NEW new, Stored(old, r, n - 1, left),
         DOMAIN new = DOMAIN old \cup {r.header[n].field}, \A g \in DOMAIN old : new[g] = old[g]
  PROVE  Awaiting(new, r, n, left)
<1>1. DOMAIN new = Named(r, n) \cup DOMAIN left
  BY NamedGrows DEF Stored
<1>2. Holds(new, r, n - 1, left)
  <2>1. Holds(old, r, n - 1, left)
    BY DEF Stored
  <2> QED
    BY <2>1 DEF Holds
<1> QED
  BY <1>1, <1>2 DEF Awaiting

(* Storing the value of the nth field after those before it.               *)
LEMMA StoredGrows ==
  ASSUME NEW r, NEW n \in Nat \ {0}, NEW left, NEW old, NEW new, NEW f, NEW v,
         Awaiting(old, r, n, left), f = r.header[n].field, v = r.header[n].value,
         DOMAIN new = DOMAIN old,
         \A g \in DOMAIN old : new[g] = IF g = f THEN v ELSE old[g]
  PROVE  Stored(new, r, n, left)
<1>1. Holds(old, r, n - 1, left) /\ f \in DOMAIN old /\ DOMAIN new = Named(r, n) \cup DOMAIN left
  BY DEF Awaiting
<1>2. ASSUME NEW m \in 1..n, \A l \in (m + 1)..n : r.header[l].field # r.header[m].field
      PROVE  r.header[m].field \in DOMAIN new /\ new[r.header[m].field] = r.header[m].value
  <2>1. CASE m = n
    BY <1>1, <2>1
  <2>2. CASE m # n
    <3>1. m \in 1..(n - 1) /\ n \in (m + 1)..n /\ \A l \in (m + 1)..(n - 1) : l \in (m + 1)..n
      BY <2>2
    <3>2. r.header[m].field \in DOMAIN old /\ old[r.header[m].field] = r.header[m].value
      BY <1>1, <1>2, <3>1 DEF Holds
    <3>3. r.header[m].field # f
      BY <1>2, <3>1
    <3> QED
      BY <3>2, <3>3
  <2> QED
    BY <2>1, <2>2
<1>3. ASSUME NEW g \in DOMAIN left \ Named(r, n)
      PROVE  g \in DOMAIN new /\ new[g] = left[g]
  <2>1. g \in DOMAIN left \ Named(r, n - 1) /\ g # f
    BY NamedGrows
  <2>2. g \in DOMAIN old /\ old[g] = left[g]
    BY <1>1, <2>1 DEF Holds
  <2> QED
    BY <2>1, <2>2
<1> QED
  BY <1>1, <1>2, <1>3 DEF Stored, Holds

(* Before its first field the header is what was left.                     *)
LEMMA NothingStored ==
  ASSUME NEW r, NEW left PROVE Stored(left, r, 0, left)
<1>1. \A m \in 1..0 : FALSE
  OBVIOUS
<1>2. Named(r, 0) = {}
  BY <1>1 DEF Named
<1> QED
  BY <1>1, <1>2 DEF Stored, Holds

(* The end of the header hands over what is left and takes the version.    *)
LEMMA HeaderCompleteIs ==
  ASSUME NEW d \in ParserSet, NEW v
  PROVE  LET e == onHeaderComplete(d, v) f == Flush(d)
         IN /\ e \in ParserSet /\ e.data = f.data /\ e.out = d.out
            /\ e.request.url = f.request.url /\ e.request.method = f.request.method
            /\ e.request.header = f.request.header
            /\ v \in Versions => e.request.version = v /\ e.state = "Body" /\ e.lib = d.lib
            /\ v \notin Versions => e.lib = "end"
<1>1. PICK f \in ParserSet : f = Flush(d) /\ f.lib = d.lib /\ f.out = d.out
  BY FlushGood
<1>2. CASE v \in Versions
  <2> DEFINE R == [f.request EXCEPT !.version = v]
  <2>1. R \in GotSet /\ R.url = f.request.url /\ R.method = f.request.method
        /\ R.header = f.request.header /\ R.version = v
    BY <1>2 DEF ParserSet, GotSet
  <2>2. onHeaderComplete(d, v) = [f EXCEPT !.request = R, !.state = "Body"]
    BY <1>1, <1>2 DEF onHeaderComplete, ParserSet
  <2> HIDE DEF R
  <2>3. PICK e : e = onHeaderComplete(d, v)
    OBVIOUS
  <2>4. e \in ParserSet /\ e.request = R /\ e.state = "Body" /\ e.lib = f.lib /\ e.data = f.data
        /\ e.out = f.out
    BY <2>1, <2>2, <2>3 DEF ParserSet
  <2> QED
    BY <1>1, <1>2, <2>1, <2>3, <2>4
<1>3. CASE v \notin Versions
  <2>1. onHeaderComplete(d, v) = [f EXCEPT !.lib = "end"] /\ "end" \in Kinds
    BY <1>1, <1>3 DEF onHeaderComplete, Kinds
  <2>2. PICK e \in ParserSet : /\ e = onHeaderComplete(d, v) /\ e.lib = "end" /\ e.data = f.data
                               /\ e.out = f.out /\ e.request = f.request
    BY <2>1, SetLib
  <2> QED
    BY <1>1, <1>3, <2>2
<1> QED
  BY <1>2, <1>3

(* The end of a message puts the request out.                              *)
LEMMA MessageCompleteIs ==
  ASSUME NEW c \in ParserSet
  PROVE  LET e == onMessageComplete(c)
         IN /\ e.out = Append(c.out, c.request) /\ e.request = c.request /\ e.data = c.data
            /\ e.state = "Complete" /\ e.lib = "end"
BY DEF onMessageComplete, ParserSet

(* The library's own state is not what the callbacks collect.              *)
LEMMA DataIs ==
  ASSUME NEW c \in ParserSet, NEW l \in Kinds
  PROVE  LET d == [c EXCEPT !.lib = l]
         IN /\ d \in ParserSet /\ d.lib = l /\ d.iter = c.iter
            /\ d.state = c.state /\ d.data = c.data /\ d.out = c.out /\ d.request = c.request
<1>1. PICK d : d = [c EXCEPT !.lib = l]
  OBVIOUS
<1>2. d \in ParserSet /\ d.lib = l /\ d.iter = c.iter
      /\ d.state = c.state /\ d.data = c.data /\ d.out = c.out /\ d.request = c.request
  BY <1>1 DEF ParserSet
<1> QED
  BY <1>1, <1>2

(* A piece takes the parser one piece further in its request, or to the    *)
(* end of it; the body of a request whose version is not understood is     *)
(* left over.                                                              *)
GoesOn(c, e, r, j, left) ==
  /\ e.out = c.out /\ e.lib \notin {"end", "error"}
  /\ j \in 1..(Len(Pieces(r)) - 1) /\ Progress(e, r, j, left)

(* The piece is the last of its request, which comes out as it was sent.   *)
Completes(c, e, r, j, left) ==
  /\ e.out = Append(c.out, e.request) /\ e.lib = "end" /\ Fresh(e)
  /\ SameRequest(e.request, r, left)
  /\ \/ j = Len(Pieces(r))
     \/ j + 1 = Len(Pieces(r)) /\ Pieces(r)[j + 1].k = "body"

(* n fields are stored as soon as what has been collected is handed over. *)
Flushed(c, r, n, left) ==
  \A l \in Kinds :
    LET e == Flush([c EXCEPT !.lib = l])
    IN /\ e.data = <<>> /\ e.request.url = r.url /\ e.request.method = Guess(r.method)
       /\ Stored(e.request.header, r, n, left)

(* A prefix and the element behind it.                                     *)
LEMMA PrefixGrows ==
  ASSUME NEW S, NEW s \in Seq(S), NEW m \in Nat, m < Len(s)
  PROVE  /\ Append(SubSeq(s, 1, m), s[m + 1]) = SubSeq(s, 1, m + 1)
         /\ SubSeq(s, 1, 0) = <<>> /\ SubSeq(s, 1, Len(s)) = s
<1>1. PICK L \in Nat : L = Len(s) /\ m < L /\ DOMAIN s = 1..L
  BY LenProperties
<1>0. ASSUME NEW x \in 0..L
      PROVE  /\ SubSeq(s, 1, x) \in Seq(S) /\ Len(SubSeq(s, 1, x)) = x
             /\ \A i \in 1..x : SubSeq(s, 1, x)[i] = s[i]
  <2>1. 1 \in 1..(L + 1) /\ x \in (1 - 1)..L /\ (x - 1) + 1 = x
        /\ \A i \in 1..x : 1 + i - 1 = i
    BY <1>0
  <2>2. s \in Seq(S) /\ 1 \in 1..(Len(s) + 1) /\ x \in (1 - 1)..Len(s)
    BY <1>1, <2>1
  <2>3. SubSeq(s, 1, x) \in Seq(S) /\ Len(SubSeq(s, 1, x)) = x - 1 + 1
        /\ \A i \in 1..(x - 1 + 1) : SubSeq(s, 1, x)[i] = s[1 + i - 1]
    BY <2>2, SubSeqProperties
  <2> QED
    BY <2>1, <2>3
<1>2. PICK a \in Seq(S) : a = SubSeq(s, 1, m) /\ Len(a) = m /\ \A i \in 1..m : a[i] = s[i]
  <2>1. m \in 0..L
    BY <1>1
  <2> QED
    BY <1>0, <2>1
<1>3. PICK b \in Seq(S) : b = SubSeq(s, 1, m + 1) /\ Len(b) = m + 1 /\ \A i \in 1..(m + 1) : b[i] = s[i]
  <2>1. m + 1 \in 0..L
    BY <1>1
  <2> QED
    BY <1>0, <2>1
<1>4. s[m + 1] \in S
  BY <1>1
<1>5. /\ Append(a, s[m + 1]) \in Seq(S) /\ Len(Append(a, s[m + 1])) = m + 1
      /\ \A i \in 1..(m + 1) : Append(a, s[m + 1])[i] = b[i]
  <2>1. Append(a, s[m + 1]) \in Seq(S) /\ Len(Append(a, s[m + 1])) = m + 1
        /\ Append(a, s[m + 1])[m + 1] = s[m + 1]
        /\ \A i \in 1..m : Append(a, s[m + 1])[i] = a[i]
    BY <1>2, <1>4
  <2>2. \A i \in 1..(m + 1) : i \in 1..m \/ i = m + 1
    OBVIOUS
  <2> QED
    BY <1>2, <1>3, <2>1, <2>2
<1>6. Append(a, s[m + 1]) = b
  BY <1>3, <1>5, SeqEqual
<1>7. SubSeq(s, 1, 0) = <<>>
  BY <1>1
<1>8. SubSeq(s, 1, Len(s)) = s
  BY <1>1
<1> QED
  BY <1>2, <1>3, <1>6, <1>7, <1>8

(* Behind the URL or a value: the next field begins, or the header ends.   *)
LEMMA NextField ==
  ASSUME NEW c, GoodParser(c), NEW r \in Requests, NEW left, NEW n \in 0..Len(r.header),
         c.lib \in {"url", "value"}, c.state \in {"Url", "HeaderValue"}, Flushed(c, r, n, left),
         NEW e, e = OnPiece(c, Pieces(r)[Starts(r)[n + 1] + 1])
  PROVE  GoesOn(c, e, r, Starts(r)[n + 1] + 1, left) \/ Completes(c, e, r, Starts(r)[n + 1] + 1, left)
<1>0. PICK H \in Nat : H = Len(r.header) /\ n \in 0..H
  <2>1. Len(r.header) \in Nat
    BY RequestIs
  <2> QED
    BY <2>1
<1> DEFINE all == Pieces(r)
           hs == Starts(r)
<1>1. /\ all = Pieces(r) /\ hs = Starts(r) /\ hs \in [1..(H + 1) -> Nat]
      /\ Len(all) = hs[H + 1] + (IF r.body THEN 2 ELSE 1)
      /\ \A m \in 1..H :
           /\ hs[m + 1] = hs[m] + Len(r.header[m].field) + Len(r.header[m].value)
           /\ \A x \in 1..Len(r.header[m].field) :
                all[hs[m] + x] = [k |-> "field", v |-> r.header[m].field[x]]
      /\ all[hs[H + 1] + 1] = [k |-> IF r.body THEN "headers" ELSE "last", v |-> r.version]
      /\ r.body => all[hs[H + 1] + 2] = [k |-> "body", v |-> ""]
      /\ \A m \in 1..(H + 1) : hs[m] <= hs[H + 1]
  <2>1. Layout(r, hs)
    BY PiecesLayout
  <2>2. all = Pieces(r) /\ hs = Starts(r)
    OBVIOUS
  <2> HIDE DEF all, hs
  <2> QED
    BY <1>0, <2>1, <2>2 DEF Layout
<1> HIDE DEF all, hs
<1>2. /\ c \in ParserSet /\ c.lib # "error" /\ n \in Nat /\ n + 1 \in 1..(H + 1)
      /\ H + 1 \in 1..(H + 1)
  <2>1. n \in 0..H
    BY <1>0
  <2>2. n \in Nat /\ n + 1 \in 1..(H + 1) /\ H + 1 \in 1..(H + 1)
    BY <2>1
  <2> QED
    BY <2>2 DEF GoodParser
<1>3. CASE n # H
  <2> DEFINE v == r.header[n + 1].field[1]
             d == [c EXCEPT !.lib = "field"]
             f == Flush(d)
  <2>1. n + 1 \in 1..H /\ n + 2 \in 1..(H + 1) /\ (n + 1) + 1 = n + 2 /\ (n + 1) - 1 = n
    <3>1. n \in 0..H
      BY <1>0
    <3> QED
      BY <1>3, <3>1
  <2>a. PICK F \in Seq(Texts), g \in Nat : /\ F = r.header[n + 1].field /\ g = Len(F) /\ 0 < g
                                           /\ 1 \in 1..g
    <3>1. PICK F \in Seq(Texts), g \in Nat \ {0} : F = r.header[n + 1].field /\ g = Len(F)
      BY <1>0, <2>1, RequestIs
    <3>2. 0 < g /\ 1 \in 1..g
      OBVIOUS
    <3> QED
      BY <3>1, <3>2
  <2>2. v \in AllTexts /\ "field" \in Kinds
    BY <2>a, ElementOfSeq DEF AllTexts, Kinds
  <2>3. d \in ParserSet /\ d.state = c.state /\ d.lib = "field" /\ d.out = c.out
    BY <1>2, <2>2, DataIs
  <2>4. e = CollectNew(d, "HeaderField", v)
    <3>0. all[hs[n + 1] + 1] = [k |-> "field", v |-> v]
      BY <1>1, <2>1, <2>a
    <3>1. PICK p : p = all[hs[n + 1] + 1] /\ p.k = "field" /\ p.v = v
      BY <3>0
    <3>2. e = OnPiece(c, p)
      BY <1>1, <3>1
    <3>3. "field" \in Follows(c.lib)
      BY DEF Follows
    <3> HIDE DEF v
    <3> QED
      BY <3>1, <3>2, <3>3 DEF OnPiece
  <2> HIDE DEF d, v
  <2>5. e = Collect(f, "HeaderField", v)
    BY <2>3, <2>4 DEF CollectNew
  <2>6. f \in ParserSet /\ f.lib = d.lib /\ f.out = d.out
    BY <2>3, FlushGood
  <2>7. /\ f.data = <<>> /\ f.request.url = r.url /\ f.request.method = Guess(r.method)
        /\ Stored(f.request.header, r, n, left)
    BY <2>2 DEF Flushed, d
  <2> HIDE DEF f
  <2>8. /\ e.state = "HeaderField" /\ e.data = Append(f.data, v) /\ e.lib = "field"
        /\ e.request = f.request /\ e.out = c.out
    BY <2>2, <2>3, <2>5, <2>6, CollectIs
  <2>9. e.data = SubSeq(r.header[n + 1].field, 1, 1)
    <3>1. Append(SubSeq(F, 1, 0), F[0 + 1]) = SubSeq(F, 1, 0 + 1) /\ SubSeq(F, 1, 0) = <<>> /\ 0 + 1 = 1
      BY <2>a, PrefixGrows
    <3> QED
      BY <2>7, <2>8, <2>a, <3>1 DEF v
  <2>10. Progress(e, r, hs[n + 1] + 1, left)
    <3>1. InField(e, r, hs[n + 1] + 1, left)
      <4>1. n + 1 \in 1..Len(r.header) /\ 1 \in 1..Len(r.header[n + 1].field)
        BY <1>0, <2>1, <2>a
      <4> QED
        BY <1>1, <2>1, <2>7, <2>8, <2>9, <4>1 DEF InField
    <3> QED
      BY <2>7, <2>8, <3>1 DEF Progress
  <2>11. hs[n + 1] + 1 \in 1..(Len(all) - 1)
    <3>1. PICK x \in Nat, y \in Nat, z \in Nat, w \in Nat :
            /\ x = hs[n + 1] /\ y = hs[n + 2] /\ z = hs[H + 1] /\ w = Len(r.header[n + 1].value)
      BY <1>0, <1>1, <1>2, <2>1, RequestIs
    <3>2. y = x + g + w /\ y <= z
      BY <1>1, <2>1, <2>a, <3>1
    <3>3. Len(all) \in {z + 1, z + 2}
      BY <1>1, <3>1
    <3>4. x + 1 \in 1..z /\ x + 1 \in 1..(z + 1)
      <4>1. 0 < g /\ g \in Nat /\ x \in Nat /\ w \in Nat /\ z \in Nat /\ y = x + g + w /\ y <= z
        BY <2>a, <3>2
      <4>2. 1 <= x + 1 /\ x + 1 <= z
        BY <4>1
      <4> QED
        BY <4>1, <4>2
    <3>5. (z + 1) - 1 = z /\ (z + 2) - 1 = z + 1
      BY <3>1
    <3> QED
      BY <3>1, <3>3, <3>4, <3>5
  <2> QED
    BY <1>1, <2>8, <2>10, <2>11 DEF GoesOn
<1>4. CASE n = H
  <2> DEFINE kind == IF r.body THEN "headers" ELSE "last"
             d == [c EXCEPT !.lib = kind]
             f == Flush(d)
             g == onHeaderComplete(d, r.version)
  <2>1. kind \in Kinds /\ kind # "end"
    BY DEF Kinds
  <2>2. d \in ParserSet /\ d.state = c.state /\ d.lib = kind /\ d.out = c.out
    <3> HIDE DEF kind
    <3> QED
      BY <1>2, <2>1, DataIs
  <2>3. PICK x \in Nat : x = hs[H + 1]
    BY <1>1, <1>2
  <2>4. e = OnPiece(c, [k |-> kind, v |-> r.version])
    BY <1>1, <1>4
  <2>5. kind \in Follows(c.lib)
    BY DEF Follows
  <2>6. e = IF r.body /\ g.lib # "end" THEN g ELSE onMessageComplete(g)
    <3>1. CASE r.body
      BY <2>4, <2>5, <3>1 DEF OnPiece
    <3>2. CASE ~r.body
      BY <2>4, <2>5, <3>2 DEF OnPiece
    <3> QED
      BY <3>1, <3>2
  <2>7. /\ f.data = <<>> /\ f.request.url = r.url /\ f.request.method = Guess(r.method)
        /\ Stored(f.request.header, r, H, left)
    BY <1>4, <2>1 DEF Flushed
  <2> HIDE DEF d, kind
  <2>8. /\ g \in ParserSet /\ g.data = f.data /\ g.out = c.out
        /\ g.request.url = f.request.url /\ g.request.method = f.request.method
        /\ g.request.header = f.request.header
        /\ r.version \in Versions => g.request.version = r.version /\ g.state = "Body" /\ g.lib = kind
        /\ r.version \notin Versions => g.lib = "end"
    BY <2>2, HeaderCompleteIs
  <2> HIDE DEF f, g
  <2>9. CASE r.body /\ g.lib # "end"
    <3>1. e = g /\ r.version \in Versions /\ kind = "headers"
      BY <2>6, <2>8, <2>9 DEF kind
    <3>2. InBody(e, r, x + 1, left)
      BY <1>0, <1>1, <2>3, <2>7, <2>8, <2>9, <3>1 DEF InBody
    <3>3. Progress(e, r, x + 1, left)
      BY <2>7, <2>8, <3>1, <3>2 DEF Progress
    <3>4. x + 1 \in 1..(Len(all) - 1)
      <4>1. Len(all) = x + 2
        BY <1>1, <2>3, <2>9
      <4> QED
        BY <2>3, <4>1
    <3> QED
      BY <1>1, <1>4, <2>3, <2>8, <3>1, <3>3, <3>4 DEF GoesOn
  <2>10. CASE ~(r.body /\ g.lib # "end")
    <3>1. e = onMessageComplete(g)
      BY <2>6, <2>10
    <3>2. /\ e.out = Append(c.out, e.request) /\ e.request = g.request /\ e.data = g.data
          /\ e.state = "Complete" /\ e.lib = "end"
      BY <2>8, <3>1, MessageCompleteIs
    <3>3. Fresh(e)
      BY <2>7, <2>8, <3>2 DEF Fresh
    <3>4. SameRequest(e.request, r, left)
      BY <1>0, <2>7, <2>8, <3>2 DEF SameRequest
    <3>5. x + 1 = Len(all) \/ (x + 2 = Len(all) /\ all[x + 2].k = "body")
      <4>1. CASE r.body
        <5>1. Len(all) = x + 2 /\ all[x + 2] = [k |-> "body", v |-> ""]
          BY <1>1, <2>3, <4>1
        <5>2. PICK p : p = all[x + 2]
          OBVIOUS
        <5>3. p.k = "body"
          <6>1. PICK y : p = [k |-> "body", v |-> y]
            BY <5>1, <5>2, Zenon
          <6> QED
            BY <6>1
        <5> QED
          BY <5>1, <5>2, <5>3, Zenon
      <4>2. CASE ~r.body
        BY <1>1, <2>3, <4>2
      <4> QED
        BY <4>1, <4>2
    <3>6. (x + 1) + 1 = x + 2
      OBVIOUS
    <3> QED
      BY <1>1, <1>4, <2>3, <3>2, <3>3, <3>4, <3>5, <3>6 DEF Completes
  <2> QED
    BY <2>9, <2>10
<1> QED
  BY <1>3, <1>4

(* A part of the URL.                                                      *)
LEMMA UrlStep ==
  ASSUME NEW c, GoodParser(c), NEW r \in Requests, NEW left, NEW m \in Nat, m < Len(r.url),
         c.lib \in {"begin", "url"}, c.data = SubSeq(r.url, 1, m),
         c.request.method = Guess(r.method), c.request.header = left,
         NEW e, e = OnPiece(c, Pieces(r)[1 + m + 1])
  PROVE  GoesOn(c, e, r, 1 + m + 1, left)
<1>1. PICK U \in Nat, H \in Nat : U = Len(r.url) /\ H = Len(r.header) /\ m < U
  BY RequestIs
<1>2. PICK p : p = Pieces(r)[1 + (m + 1)] /\ p = [k |-> "url", v |-> r.url[m + 1]]
  <2>1. \A i \in 1..U : Pieces(r)[1 + i] = [k |-> "url", v |-> r.url[i]]
    BY <1>1, PiecesLayout DEF Layout
  <2>2. m + 1 \in 1..U
    BY <1>1
  <2> QED
    BY <2>1, <2>2
<1>3. r.url \in Seq(Texts) /\ r.url[m + 1] \in AllTexts
  <2>1. m + 1 \in 1..U
    BY <1>1
  <2> QED
    BY <1>1, <2>1, RequestIs, ElementOfSeq DEF AllTexts
<1> DEFINE v == r.url[m + 1]
           d == [c EXCEPT !.lib = "url"]
<1>4. "url" \in Kinds /\ "url" \in Follows(c.lib)
  BY DEF Kinds, Follows
<1>5. d \in ParserSet /\ d.lib = "url" /\ d.data = c.data /\ d.out = c.out /\ d.request = c.request
  BY <1>4, DataIs DEF GoodParser
<1>6. 1 + m + 1 = 1 + (m + 1)
  OBVIOUS
<1> HIDE DEF v
<1>7. p.k = "url" /\ p.v = v /\ e = OnPiece(c, p)
  <2>1. p = [k |-> "url", v |-> v]
    BY <1>2 DEF v
  <2>2. e = OnPiece(c, p)
    BY <1>2, <1>6
  <2> QED
    BY <2>1, <2>2
<1>8. e = Collect(d, "Url", v)
  BY <1>4, <1>7 DEF OnPiece
<1> HIDE DEF d
<1>9. /\ e.state = "Url" /\ e.data = Append(c.data, v) /\ e.lib = "url"
      /\ e.request = c.request /\ e.out = c.out
  <2>1. v \in AllTexts
    BY <1>3 DEF v
  <2>2. d \in ParserSet
    BY <1>5
  <2>3. /\ Collect(d, "Url", v).state = "Url" /\ Collect(d, "Url", v).data = Append(d.data, v)
        /\ Collect(d, "Url", v).lib = d.lib /\ Collect(d, "Url", v).request = d.request
        /\ Collect(d, "Url", v).out = d.out
    BY <2>1, <2>2, CollectIs
  <2> QED
    BY <1>5, <1>8, <2>3
<1>10. e.data = SubSeq(r.url, 1, m + 1)
  <2>1. Append(SubSeq(r.url, 1, m), r.url[m + 1]) = SubSeq(r.url, 1, m + 1)
    BY <1>3, PrefixGrows
  <2> QED
    BY <1>9, <2>1 DEF v
<1>11. InUrl(e, r, 1 + (m + 1), left)
  <2>1. m + 1 \in 1..U
    BY <1>1
  <2> QED
    BY <1>1, <1>9, <1>10, <2>1 DEF InUrl
<1>12. 1 + (m + 1) \in 1..(Len(Pieces(r)) - 1)
  <2>1. /\ Starts(r) \in [1..(H + 1) -> Nat] /\ Starts(r)[1] = 1 + U
        /\ \A n \in 1..(H + 1) : Starts(r)[n] <= Starts(r)[H + 1]
        /\ Len(Pieces(r)) = Starts(r)[H + 1] + (IF r.body THEN 2 ELSE 1)
    BY <1>1, PiecesLayout DEF Layout
  <2>2. 1 \in 1..(H + 1) /\ H + 1 \in 1..(H + 1)
    OBVIOUS
  <2>3. PICK z \in Nat : z = Starts(r)[H + 1]
    BY <2>1, <2>2
  <2>4. 1 + U <= z
    BY <2>1, <2>2, <2>3
  <2>5. Len(Pieces(r)) = z + 1 \/ Len(Pieces(r)) = z + 2
    BY <2>1, <2>3
  <2>6. 1 + (m + 1) \in 1..z /\ 1 + (m + 1) \in 1..(z + 1) /\ (z + 1) - 1 = z /\ (z + 2) - 1 = z + 1
    BY <1>1, <2>4
  <2> QED
    BY <2>5, <2>6
<1> QED
  BY <1>6, <1>9, <1>11, <1>12 DEF GoesOn, Progress

(* The part of the name or the value of field n behind m others.           *)
LEMMA PieceOfField ==
  ASSUME NEW r \in Requests, NEW n \in 1..Len(r.header), NEW m \in Nat
  PROVE  /\ r.header[n].field \in Seq(Texts) /\ r.header[n].value \in Seq(Texts)
         /\ m < Len(r.header[n].field) =>
              LET j == Starts(r)[n] + (m + 1)
              IN /\ Pieces(r)[j] = [k |-> "field", v |-> r.header[n].field[m + 1]]
                 /\ r.header[n].field[m + 1] \in AllTexts
                 /\ m + 1 \in 1..Len(r.header[n].field)
                 /\ j \in 1..(Len(Pieces(r)) - 1)
         /\ m < Len(r.header[n].value) =>
              LET j == Starts(r)[n] + Len(r.header[n].field) + (m + 1)
              IN /\ Pieces(r)[j] = [k |-> "value", v |-> r.header[n].value[m + 1]]
                 /\ r.header[n].value[m + 1] \in AllTexts
                 /\ m + 1 \in 1..Len(r.header[n].value)
                 /\ j \in 1..(Len(Pieces(r)) - 1)
<1>1. PICK H \in Nat, g \in Nat, w \in Nat : /\ H = Len(r.header) /\ n \in 1..H
                                            /\ g = Len(r.header[n].field) /\ w = Len(r.header[n].value)
  BY RequestIs
<1>2. r.header[n].field \in Seq(Texts) /\ r.header[n].value \in Seq(Texts)
  BY RequestIs
<1>3. /\ Starts(r) \in [1..(H + 1) -> Nat] /\ Starts(r)[n + 1] = Starts(r)[n] + g + w
      /\ \A i \in 1..(H + 1) : Starts(r)[i] <= Starts(r)[H + 1]
      /\ Len(Pieces(r)) = Starts(r)[H + 1] + (IF r.body THEN 2 ELSE 1)
      /\ \A i \in 1..g : Pieces(r)[Starts(r)[n] + i] = [k |-> "field", v |-> r.header[n].field[i]]
      /\ \A i \in 1..w : Pieces(r)[Starts(r)[n] + g + i] = [k |-> "value", v |-> r.header[n].value[i]]
  BY <1>1, PiecesLayout DEF Layout
<1>4. n \in 1..(H + 1) /\ n + 1 \in 1..(H + 1) /\ H + 1 \in 1..(H + 1)
  <2>1. n \in 1..H
    BY <1>1
  <2> QED
    BY <2>1
<1>5. PICK x \in Nat, z \in Nat : x = Starts(r)[n] /\ z = Starts(r)[H + 1]
  BY <1>3, <1>4
<1>6. x + g + w <= z
  BY <1>3, <1>4, <1>5
<1>7. Len(Pieces(r)) = z + 1 \/ Len(Pieces(r)) = z + 2
  BY <1>3, <1>5
<1>8. ASSUME NEW i \in Nat, i + 1 <= g + w PROVE x + (i + 1) \in 1..(Len(Pieces(r)) - 1)
  <2>1. x + (i + 1) \in 1..z /\ x + (i + 1) \in 1..(z + 1) /\ (z + 1) - 1 = z /\ (z + 2) - 1 = z + 1
    BY <1>6, <1>8
  <2> QED
    BY <1>7, <2>1
<1>9. ASSUME m < g
      PROVE  /\ Pieces(r)[x + (m + 1)] = [k |-> "field", v |-> r.header[n].field[m + 1]]
             /\ r.header[n].field[m + 1] \in AllTexts /\ m + 1 \in 1..g
             /\ x + (m + 1) \in 1..(Len(Pieces(r)) - 1)
  <2>1. m + 1 \in 1..g /\ m + 1 <= g + w
    BY <1>9
  <2>2. r.header[n].field[m + 1] \in AllTexts
    BY <1>1, <1>2, <2>1, ElementOfSeq DEF AllTexts
  <2> QED
    BY <1>3, <1>5, <1>8, <2>1, <2>2
<1>10. ASSUME m < w
       PROVE  /\ Pieces(r)[x + g + (m + 1)] = [k |-> "value", v |-> r.header[n].value[m + 1]]
              /\ r.header[n].value[m + 1] \in AllTexts /\ m + 1 \in 1..w
              /\ x + g + (m + 1) \in 1..(Len(Pieces(r)) - 1)
  <2>1. m + 1 \in 1..w /\ g + m \in Nat /\ (g + m) + 1 <= g + w /\ x + ((g + m) + 1) = x + g + (m + 1)
    BY <1>10
  <2>2. r.header[n].value[m + 1] \in AllTexts
    BY <1>1, <1>2, <2>1, ElementOfSeq DEF AllTexts
  <2>3. x + ((g + m) + 1) \in 1..(Len(Pieces(r)) - 1)
    BY <1>8, <2>1
  <2> QED
    BY <1>3, <1>5, <2>1, <2>2, <2>3
<1> QED
  BY <1>1, <1>2, <1>5, <1>9, <1>10

(* A further part of a name.                                               *)
LEMMA NameStep ==
  ASSUME NEW c, GoodParser(c), NEW r \in Requests, NEW left, NEW n \in 1..Len(r.header),
         NEW m \in Nat, m < Len(r.header[n].field),
         c.lib = "field", c.state = "HeaderField", c.data = SubSeq(r.header[n].field, 1, m),
         c.request.url = r.url, c.request.method = Guess(r.method),
         Stored(c.request.header, r, n - 1, left),
         NEW e, e = OnPiece(c, Pieces(r)[Starts(r)[n] + (m + 1)])
  PROVE  GoesOn(c, e, r, Starts(r)[n] + (m + 1), left)
<1> DEFINE j == Starts(r)[n] + (m + 1)
           v == r.header[n].field[m + 1]
           d == [c EXCEPT !.lib = "field"]
<1>1. /\ Pieces(r)[j] = [k |-> "field", v |-> v] /\ v \in AllTexts
      /\ m + 1 \in 1..Len(r.header[n].field) /\ r.header[n].field \in Seq(Texts)
      /\ j \in 1..(Len(Pieces(r)) - 1)
  BY PieceOfField
<1>2. "field" \in Kinds /\ "field" \in Follows(c.lib)
  BY DEF Kinds, Follows
<1>3. d \in ParserSet /\ d.lib = "field" /\ d.data = c.data /\ d.out = c.out /\ d.request = c.request
      /\ d.state = c.state
  BY <1>2, DataIs DEF GoodParser
<1>4. PICK p : p = Pieces(r)[j] /\ p.k = "field" /\ p.v = v /\ e = OnPiece(c, p)
  <2> HIDE DEF v
  <2>1. PICK p : p = [k |-> "field", v |-> v]
    OBVIOUS
  <2>2. p.k = "field" /\ p.v = v
    BY <2>1
  <2> QED
    BY <1>1, <2>1, <2>2
<1> HIDE DEF v, j
<1>5. e = CollectNew(d, "HeaderField", v)
  BY <1>2, <1>4 DEF OnPiece
<1> HIDE DEF d
<1>6. e = Collect(d, "HeaderField", v)
  BY <1>3, <1>5 DEF CollectNew
<1>7. /\ e.state = "HeaderField" /\ e.data = Append(c.data, v) /\ e.lib = "field"
      /\ e.request = c.request /\ e.out = c.out
  <2>1. v \in AllTexts
    BY <1>1
  <2>2. /\ e.state = "HeaderField" /\ e.data = Append(d.data, v) /\ e.lib = d.lib
        /\ e.request = d.request /\ e.out = d.out
    <3>1. d \in ParserSet /\ "HeaderField" \in {"Url", "HeaderField", "HeaderValue"}
      BY <1>3
    <3>2. /\ Collect(d, "HeaderField", v).state = "HeaderField"
          /\ Collect(d, "HeaderField", v).data = Append(d.data, v)
          /\ Collect(d, "HeaderField", v).lib = d.lib /\ Collect(d, "HeaderField", v).request = d.request
          /\ Collect(d, "HeaderField", v).out = d.out /\ Collect(d, "HeaderField", v).iter = d.iter
      BY <2>1, <3>1, CollectIs
    <3> QED
      BY <1>6, <3>2
  <2> QED
    BY <1>3, <2>2
<1>8. e.data = SubSeq(r.header[n].field, 1, m + 1)
  <2>1. Append(SubSeq(r.header[n].field, 1, m), r.header[n].field[m + 1]) = SubSeq(r.header[n].field, 1, m + 1)
    BY <1>1, PrefixGrows
  <2> QED
    BY <1>7, <2>1 DEF v
<1>9. InField(e, r, j, left)
  BY <1>1, <1>7, <1>8 DEF InField, j
<1>10. GoesOn(c, e, r, j, left)
  BY <1>1, <1>7, <1>9 DEF GoesOn, Progress
<1> QED
  BY <1>10 DEF j

(* The first part of a value, behind the name of its field.                *)
LEMMA FieldStep ==
  ASSUME NEW c, GoodParser(c), NEW r \in Requests, NEW left, NEW n \in 1..Len(r.header),
         c.lib = "field", c.state = "HeaderField", c.data = r.header[n].field,
         c.request.url = r.url, c.request.method = Guess(r.method),
         Stored(c.request.header, r, n - 1, left),
         NEW e, e = OnPiece(c, Pieces(r)[Starts(r)[n] + Len(r.header[n].field) + (0 + 1)])
  PROVE  GoesOn(c, e, r, Starts(r)[n] + Len(r.header[n].field) + (0 + 1), left)
<1> DEFINE j == Starts(r)[n] + Len(r.header[n].field) + (0 + 1)
           v == r.header[n].value[0 + 1]
           d == [c EXCEPT !.lib = "value"]
           f == Flush(d)
<1>1. 0 \in Nat /\ 0 < Len(r.header[n].value) /\ n \in Nat \ {0}
  <2>1. Len(r.header[n].value) \in Nat \ {0} /\ Len(r.header) \in Nat
    BY RequestIs
  <2>2. n \in Nat /\ n # 0
    BY <2>1
  <2> QED
    BY <2>1, <2>2
<1>2. /\ Pieces(r)[j] = [k |-> "value", v |-> v] /\ v \in AllTexts
      /\ 0 + 1 \in 1..Len(r.header[n].value) /\ r.header[n].value \in Seq(Texts)
      /\ j \in 1..(Len(Pieces(r)) - 1)
  BY <1>1, PieceOfField
<1>3. "value" \in Kinds /\ "value" \in Follows(c.lib)
  BY DEF Kinds, Follows
<1>4. d \in ParserSet /\ d.lib = "value" /\ d.data = c.data /\ d.out = c.out /\ d.request = c.request
      /\ d.state = c.state
  BY <1>3, DataIs DEF GoodParser
<1>5. PICK p : p = Pieces(r)[j] /\ p.k = "value" /\ p.v = v /\ e = OnPiece(c, p)
  <2> HIDE DEF v
  <2>1. PICK p : p = [k |-> "value", v |-> v]
    OBVIOUS
  <2>2. p.k = "value" /\ p.v = v
    BY <2>1
  <2> QED
    BY <1>2, <2>1, <2>2
<1> HIDE DEF v, j
<1>6. e = CollectNew(d, "HeaderValue", v)
  BY <1>3, <1>5 DEF OnPiece
<1>7. e = Collect(f, "HeaderValue", v)
  <2> HIDE DEF d
  <2> QED
    BY <1>4, <1>6 DEF CollectNew
<1> HIDE DEF d
<1>8. f \in ParserSet /\ f.lib = "value" /\ f.out = c.out
  BY <1>4, FlushGood
<1>9. /\ f.data = <<>> /\ f.iter = c.data
      /\ DOMAIN f.request.header = DOMAIN c.request.header \cup {c.data}
      /\ f.request.method = c.request.method /\ f.request.url = c.request.url
      /\ \A g \in DOMAIN c.request.header : f.request.header[g] = c.request.header[g]
  <2>1. d.state = "HeaderField" /\ d \in ParserSet
    BY <1>4
  <2> QED
    BY <1>4, <2>1, FlushField
<1> HIDE DEF f
<1>10. Awaiting(f.request.header, r, n, left)
  BY <1>1, <1>9, StoredStays
<1>11. /\ e.state = "HeaderValue" /\ e.data = Append(f.data, v) /\ e.lib = "value"
       /\ e.request = f.request /\ e.out = c.out /\ e.iter = f.iter
  BY <1>2, <1>7, <1>8, CollectIs
<1>12. e.data = SubSeq(r.header[n].value, 1, 0 + 1)
  <2>1. Append(SubSeq(r.header[n].value, 1, 0), r.header[n].value[0 + 1]) = SubSeq(r.header[n].value, 1, 0 + 1)
        /\ SubSeq(r.header[n].value, 1, 0) = <<>>
    BY <1>1, <1>2, PrefixGrows
  <2> QED
    BY <1>9, <1>11, <2>1 DEF v
<1>13. InValue(e, r, j, left)
  BY <1>2, <1>9, <1>10, <1>11, <1>12 DEF InValue, j
<1>14. GoesOn(c, e, r, j, left)
  BY <1>2, <1>9, <1>11, <1>13 DEF GoesOn, Progress
<1> QED
  BY <1>14 DEF j

(* A further part of a value.                                              *)
LEMMA ValueStep ==
  ASSUME NEW c, GoodParser(c), NEW r \in Requests, NEW left, NEW n \in 1..Len(r.header),
         NEW m \in Nat, m < Len(r.header[n].value),
         c.lib = "value", c.state = "HeaderValue", c.data = SubSeq(r.header[n].value, 1, m),
         c.iter = r.header[n].field,
         c.request.url = r.url, c.request.method = Guess(r.method),
         Awaiting(c.request.header, r, n, left),
         NEW e, e = OnPiece(c, Pieces(r)[Starts(r)[n] + Len(r.header[n].field) + (m + 1)])
  PROVE  GoesOn(c, e, r, Starts(r)[n] + Len(r.header[n].field) + (m + 1), left)
<1> DEFINE j == Starts(r)[n] + Len(r.header[n].field) + (m + 1)
           v == r.header[n].value[m + 1]
           d == [c EXCEPT !.lib = "value"]
<1>1. /\ Pieces(r)[j] = [k |-> "value", v |-> v] /\ v \in AllTexts
      /\ m + 1 \in 1..Len(r.header[n].value) /\ r.header[n].value \in Seq(Texts)
      /\ j \in 1..(Len(Pieces(r)) - 1)
  BY PieceOfField
<1>2. "value" \in Kinds /\ "value" \in Follows(c.lib)
  BY DEF Kinds, Follows
<1>3. d \in ParserSet /\ d.lib = "value" /\ d.data = c.data /\ d.out = c.out /\ d.request = c.request
      /\ d.state = c.state /\ d.iter = c.iter
  BY <1>2, DataIs DEF GoodParser
<1>4. PICK p : p = Pieces(r)[j] /\ p.k = "value" /\ p.v = v /\ e = OnPiece(c, p)
  <2> HIDE DEF v
  <2>1. PICK p : p = [k |-> "value", v |-> v]
    OBVIOUS
  <2>2. p.k = "value" /\ p.v = v
    BY <2>1
  <2> QED
    BY <1>1, <2>1, <2>2
<1> HIDE DEF v, j
<1>5. e = CollectNew(d, "HeaderValue", v)
  BY <1>2, <1>4 DEF OnPiece
<1> HIDE DEF d
<1>6. e = Collect(d, "HeaderValue", v)
  BY <1>3, <1>5 DEF CollectNew
<1>7. /\ e.state = "HeaderValue" /\ e.data = Append(c.data, v) /\ e.lib = "value"
      /\ e.request = c.request /\ e.out = c.out /\ e.iter = c.iter
  <2>1. v \in AllTexts
    BY <1>1
  <2>2. /\ e.state = "HeaderValue" /\ e.data = Append(d.data, v) /\ e.lib = d.lib
        /\ e.request = d.request /\ e.out = d.out /\ e.iter = d.iter
    <3>1. d \in ParserSet /\ "HeaderValue" \in {"Url", "HeaderField", "HeaderValue"}
      BY <1>3
    <3>2. /\ Collect(d, "HeaderValue", v).state = "HeaderValue"
          /\ Collect(d, "HeaderValue", v).data = Append(d.data, v)
          /\ Collect(d, "HeaderValue", v).lib = d.lib /\ Collect(d, "HeaderValue", v).request = d.request
          /\ Collect(d, "HeaderValue", v).out = d.out /\ Collect(d, "HeaderValue", v).iter = d.iter
      BY <2>1, <3>1, CollectIs
    <3> QED
      BY <1>6, <3>2
  <2> QED
    BY <1>3, <2>2
<1>8. e.data = SubSeq(r.header[n].value, 1, m + 1)
  <2>1. Append(SubSeq(r.header[n].value, 1, m), r.header[n].value[m + 1]) = SubSeq(r.header[n].value, 1, m + 1)
    BY <1>1, PrefixGrows
  <2> QED
    BY <1>7, <2>1 DEF v
<1>9. InValue(e, r, j, left)
  BY <1>1, <1>7, <1>8 DEF InValue, j
<1>10. GoesOn(c, e, r, j, left)
  BY <1>1, <1>7, <1>9 DEF GoesOn, Progress
<1> QED
  BY <1>10 DEF j

(* The URL is whole: handing it over stores it.                            *)
LEMMA UrlEnd ==
  ASSUME NEW c, GoodParser(c), NEW r \in Requests, NEW left, c.state = "Url", c.data = r.url,
         c.request.method = Guess(r.method), c.request.header = left
  PROVE  Flushed(c, r, 0, left)
<1> SUFFICES ASSUME NEW l \in Kinds, NEW d, d = [c EXCEPT !.lib = l]
             PROVE  LET e == Flush(d)
                    IN /\ e.data = <<>> /\ e.request.url = r.url /\ e.request.method = Guess(r.method)
                       /\ Stored(e.request.header, r, 0, left)
  BY DEF Flushed
<1>1. d \in ParserSet /\ d.data = c.data /\ d.request = c.request /\ d.state = c.state
  BY DataIs DEF GoodParser
<1>2. Flush(d).data = <<>> /\ Flush(d).request.url = d.data
      /\ Flush(d).request.method = d.request.method /\ Flush(d).request.header = d.request.header
  BY <1>1, FlushUrl
<1> QED
  BY <1>1, <1>2, NothingStored

(* A value is whole: handing it over stores its field.                     *)
LEMMA ValueEnd ==
  ASSUME NEW c, GoodParser(c), NEW r \in Requests, NEW left, NEW n \in 1..Len(r.header),
         c.state = "HeaderValue", c.data = r.header[n].value, c.iter = r.header[n].field,
         c.request.url = r.url, c.request.method = Guess(r.method),
         Awaiting(c.request.header, r, n, left)
  PROVE  Flushed(c, r, n, left)
<1> SUFFICES ASSUME NEW l \in Kinds, NEW d, d = [c EXCEPT !.lib = l]
             PROVE  LET e == Flush(d)
                    IN /\ e.data = <<>> /\ e.request.url = r.url /\ e.request.method = Guess(r.method)
                       /\ Stored(e.request.header, r, n, left)
  BY DEF Flushed
<1>1. d \in ParserSet /\ d.data = c.data /\ d.request = c.request /\ d.state = c.state /\ d.iter = c.iter
  BY DataIs DEF GoodParser
<1>2. PICK f, new, old :
        /\ f = Flush(d) /\ new = f.request.header /\ old = c.request.header /\ f.data = <<>>
        /\ f.request.method = d.request.method /\ f.request.url = d.request.url
        /\ DOMAIN new = DOMAIN old
        /\ \A g \in DOMAIN old : new[g] = IF g = r.header[n].field THEN r.header[n].value ELSE old[g]
  <2>1. d \in ParserSet /\ d.state = "HeaderValue" /\ d.iter \in DOMAIN d.request.header
    BY <1>1 DEF Awaiting
  <2>2. LET e == Flush(d)
        IN /\ e.data = <<>>
           /\ e.request.method = d.request.method /\ e.request.url = d.request.url
           /\ DOMAIN e.request.header = DOMAIN d.request.header
           /\ \A g \in DOMAIN d.request.header :
                e.request.header[g] = IF g = d.iter THEN d.data ELSE d.request.header[g]
    BY <2>1, FlushValue
  <2> QED
    BY <1>1, <2>2
<1>3. n \in Nat \ {0}
  <2>1. Len(r.header) \in Nat
    BY RequestIs
  <2> QED
    BY <2>1
<1>4. Stored(new, r, n, left)
  BY <1>2, <1>3, StoredGrows
<1> QED
  BY <1>1, <1>2, <1>4

(* The end of the body ends the request.                                   *)
LEMMA BodyStep ==
  ASSUME NEW c, GoodParser(c), NEW r \in Requests, NEW left, NEW j \in Nat, InBody(c, r, j, left),
         c.request.method = Guess(r.method), NEW e, e = OnPiece(c, Pieces(r)[j + 1])
  PROVE  Completes(c, e, r, j + 1, left)
<1>1. PICK x \in Nat : /\ x = Starts(r)[Len(r.header) + 1] /\ j = x + 1
                       /\ Len(Pieces(r)) = x + 2 /\ Pieces(r)[x + 2] = [k |-> "body", v |-> ""]
  <2>1. PICK H \in Nat : H = Len(r.header)
    BY RequestIs
  <2>2. /\ Starts(r) \in [1..(H + 1) -> Nat] /\ r.body
        /\ Len(Pieces(r)) = Starts(r)[H + 1] + (IF r.body THEN 2 ELSE 1)
        /\ r.body => Pieces(r)[Starts(r)[H + 1] + 2] = [k |-> "body", v |-> ""]
    BY <2>1, PiecesLayout DEF Layout, InBody
  <2>3. H + 1 \in 1..(H + 1)
    OBVIOUS
  <2>4. PICK x \in Nat : x = Starts(r)[H + 1]
    BY <2>2, <2>3
  <2>5. Len(Pieces(r)) = x + 2 /\ Pieces(r)[x + 2] = [k |-> "body", v |-> ""]
    BY <2>2, <2>4, Zenon
  <2> QED
    BY <2>1, <2>4, <2>5 DEF InBody
<1>2. j + 1 = x + 2
  <2>1. j = x + 1
    BY <1>1
  <2> QED
    BY <2>1
<1>3. PICK p : p = Pieces(r)[j + 1] /\ p.k = "body"
  <2>1. PICK p, y : p = Pieces(r)[j + 1] /\ p = [k |-> "body", v |-> y]
    BY <1>1, <1>2, Zenon
  <2> QED
    BY <2>1
<1> DEFINE d == [c EXCEPT !.lib = "body"]
<1>4. "body" \in Kinds /\ "body" \in Follows(c.lib)
  BY DEF Kinds, Follows, InBody
<1>5. e = onMessageComplete(d)
  BY <1>3, <1>4 DEF OnPiece
<1>6. d \in ParserSet /\ d.data = c.data /\ d.out = c.out /\ d.request = c.request
  BY <1>4, DataIs DEF GoodParser
<1> HIDE DEF d
<1>7. /\ e.out = Append(c.out, e.request) /\ e.request = c.request /\ e.data = c.data
      /\ e.state = "Complete" /\ e.lib = "end"
  <2>1. d \in ParserSet
    BY <1>6
  <2> QED
    BY <1>5, <1>6, <2>1, MessageCompleteIs
<1>8. Fresh(e)
  BY <1>7 DEF Fresh, InBody
<1>9. SameRequest(e.request, r, left)
  BY <1>7 DEF SameRequest, InBody
<1> QED
  BY <1>1, <1>2, <1>7, <1>8, <1>9 DEF Completes

(* The next piece of a request. *)
LEMMA RequestStep ==
  ASSUME NEW c, GoodParser(c), NEW r \in Requests, NEW left, NEW j \in Nat, Progress(c, r, j, left),
         NEW e, e = OnPiece(c, Pieces(r)[j + 1])
  PROVE  GoesOn(c, e, r, j + 1, left) \/ Completes(c, e, r, j + 1, left)
<1>0. c.request.method = Guess(r.method)
  BY DEF Progress
<1>1. PICK U \in Nat, H \in Nat :
        /\ U = Len(r.url) /\ U # 0 /\ H = Len(r.header) /\ r.url \in Seq(Texts)
        /\ Starts(r) \in [1..(H + 1) -> Nat] /\ Starts(r)[1] = 1 + U
        /\ \A n \in 1..H :
             Starts(r)[n + 1] = Starts(r)[n] + Len(r.header[n].field) + Len(r.header[n].value)
  <2>1. PICK U \in Nat, H \in Nat : U = Len(r.url) /\ U # 0 /\ H = Len(r.header) /\ r.url \in Seq(Texts)
    BY RequestIs
  <2>2. /\ Starts(r) \in [1..(H + 1) -> Nat] /\ Starts(r)[1] = 1 + U
        /\ \A n \in 1..H :
             Starts(r)[n + 1] = Starts(r)[n] + Len(r.header[n].field) + Len(r.header[n].value)
    BY <2>1, PiecesLayout DEF Layout
  <2> QED
    BY <2>1, <2>2
<1>2. CASE j = 1 /\ c.lib = "begin" /\ Fresh(c) /\ c.request.header = left
  <2>1. 0 < U /\ j + 1 = 1 + 0 + 1
    BY <1>1, <1>2
  <2>2. 0 < Len(r.url) /\ 0 \in Nat
    BY <1>1, <2>1
  <2>3. c.data = SubSeq(r.url, 1, 0)
    BY <1>1, <1>2, <2>2, PrefixGrows DEF Fresh
  <2>4. e = OnPiece(c, Pieces(r)[1 + 0 + 1])
    BY <2>1
  <2>5. GoesOn(c, e, r, 1 + 0 + 1, left)
    BY <1>0, <1>2, <2>2, <2>3, <2>4, UrlStep
  <2> QED
    BY <2>1, <2>5
<1>3. CASE InUrl(c, r, j, left)
  <2>1. PICK m \in 1..U : /\ j = 1 + m /\ c.lib = "url" /\ c.state = "Url" /\ c.data = SubSeq(r.url, 1, m)
                          /\ c.request.header = left
    BY <1>1, <1>3 DEF InUrl
  <2>2. m \in Nat /\ j + 1 = 1 + m + 1
    BY <2>1
  <2>3. CASE m # U
    <3>1. m < U
      BY <2>1, <2>3
    <3>2. m < Len(r.url)
      BY <1>1, <3>1
    <3>3. e = OnPiece(c, Pieces(r)[1 + m + 1])
      BY <2>2
    <3>4. GoesOn(c, e, r, 1 + m + 1, left)
      BY <1>0, <2>1, <2>2, <3>2, <3>3, UrlStep
    <3> QED
      BY <2>2, <3>4
  <2>4. CASE m = U
    <3>1. 0 < U /\ 0 \in Nat
      BY <1>1
    <3>2. 0 < Len(r.url)
      BY <1>1, <3>1
    <3>3. c.data = r.url
      BY <1>1, <2>1, <2>4, <3>1, <3>2, PrefixGrows
    <3>4. Flushed(c, r, 0, left)
      BY <1>0, <2>1, <3>3, UrlEnd
    <3>5. 0 \in 0..H /\ 0 + 1 = 1
      OBVIOUS
    <3>6. j = Starts(r)[0 + 1]
      BY <1>1, <2>1, <2>4, <3>5
    <3>7. e = OnPiece(c, Pieces(r)[Starts(r)[0 + 1] + 1]) /\ 0 \in 0..Len(r.header)
      BY <1>1, <3>5, <3>6
    <3>8. GoesOn(c, e, r, Starts(r)[0 + 1] + 1, left) \/ Completes(c, e, r, Starts(r)[0 + 1] + 1, left)
      BY <2>1, <3>4, <3>7, NextField
    <3> QED
      BY <3>6, <3>8
  <2> QED
    BY <2>3, <2>4
<1>4. CASE InField(c, r, j, left)
  <2>1. PICK n \in 1..H : \E m \in 1..Len(r.header[n].field) :
    /\ j = Starts(r)[n] + m /\ c.lib = "field" /\ c.state = "HeaderField"
    /\ c.data = SubSeq(r.header[n].field, 1, m)
    /\ c.request.url = r.url /\ Stored(c.request.header, r, n - 1, left)
    BY <1>1, <1>4 DEF InField
  <2>2. PICK g \in Nat : g = Len(r.header[n].field) /\ g # 0 /\ r.header[n].field \in Seq(Texts)
    BY <1>1, RequestIs
  <2>3. PICK m \in 1..g :
    /\ j = Starts(r)[n] + m /\ c.lib = "field" /\ c.state = "HeaderField"
    /\ c.data = SubSeq(r.header[n].field, 1, m)
    /\ c.request.url = r.url /\ Stored(c.request.header, r, n - 1, left)
    BY <2>1, <2>2
  <2>4. n \in 1..Len(r.header) /\ n \in 1..(H + 1) /\ m \in Nat
    <3>1. n \in 1..(H + 1) /\ m \in Nat
      BY <2>3
    <3> QED
      BY <1>1, <3>1
  <2>5. PICK x \in Nat : x = Starts(r)[n] /\ j = x + m
    BY <1>1, <2>3, <2>4
  <2>6. CASE m # g
    <3>1. m < g /\ j + 1 = x + (m + 1)
      <4>1. m \in 1..g /\ j = x + m
        BY <2>3, <2>5
      <4> QED
        BY <2>6, <4>1
    <3>2. m < Len(r.header[n].field) /\ j + 1 = Starts(r)[n] + (m + 1)
      BY <2>2, <2>5, <3>1
    <3>3. e = OnPiece(c, Pieces(r)[Starts(r)[n] + (m + 1)])
      BY <3>2
    <3>4. GoesOn(c, e, r, Starts(r)[n] + (m + 1), left)
      BY <1>0, <2>3, <2>4, <3>2, <3>3, NameStep
    <3> QED
      BY <3>2, <3>4
  <2>7. CASE m = g
    <3>1. 0 < g /\ 0 \in Nat
      BY <2>2
    <3>2. 0 < Len(r.header[n].field)
      BY <2>2, <3>1
    <3>3. c.data = r.header[n].field
      BY <2>2, <2>3, <2>7, <3>1, <3>2, PrefixGrows
    <3>4. j + 1 = Starts(r)[n] + Len(r.header[n].field) + (0 + 1)
      BY <2>2, <2>5, <2>7
    <3>5. e = OnPiece(c, Pieces(r)[Starts(r)[n] + Len(r.header[n].field) + (0 + 1)])
      BY <3>4
    <3>6. GoesOn(c, e, r, Starts(r)[n] + Len(r.header[n].field) + (0 + 1), left)
      BY <1>0, <2>3, <2>4, <3>3, <3>5, FieldStep
    <3> QED
      BY <3>4, <3>6
  <2> QED
    BY <2>6, <2>7
<1>5. CASE InValue(c, r, j, left)
  <2>1. PICK n \in 1..H : \E m \in 1..Len(r.header[n].value) :
    /\ j = Starts(r)[n] + Len(r.header[n].field) + m /\ c.lib = "value" /\ c.state = "HeaderValue"
    /\ c.data = SubSeq(r.header[n].value, 1, m) /\ c.iter = r.header[n].field
    /\ c.request.url = r.url /\ Awaiting(c.request.header, r, n, left)
    BY <1>1, <1>5 DEF InValue
  <2>2. PICK g \in Nat, w \in Nat : /\ g = Len(r.header[n].field) /\ w = Len(r.header[n].value) /\ w # 0
                                    /\ r.header[n].value \in Seq(Texts)
    BY <1>1, RequestIs
  <2>3. PICK m \in 1..w :
    /\ j = Starts(r)[n] + g + m /\ c.lib = "value" /\ c.state = "HeaderValue"
    /\ c.data = SubSeq(r.header[n].value, 1, m) /\ c.iter = r.header[n].field
    /\ c.request.url = r.url /\ Awaiting(c.request.header, r, n, left)
    BY <2>1, <2>2
  <2>4. n \in 1..Len(r.header) /\ n \in 1..(H + 1) /\ m \in Nat
    <3>1. n \in 1..(H + 1) /\ m \in Nat
      BY <2>3
    <3> QED
      BY <1>1, <3>1
  <2>5. PICK x \in Nat : x = Starts(r)[n] /\ j = x + g + m
    BY <1>1, <2>3, <2>4
  <2>6. CASE m # w
    <3>1. m < w /\ j + 1 = x + g + (m + 1)
      <4>1. m \in 1..w /\ j = x + g + m
        BY <2>3, <2>5
      <4> QED
        BY <2>6, <4>1
    <3>2. m < Len(r.header[n].value) /\ j + 1 = Starts(r)[n] + Len(r.header[n].field) + (m + 1)
      BY <2>2, <2>5, <3>1
    <3>3. e = OnPiece(c, Pieces(r)[Starts(r)[n] + Len(r.header[n].field) + (m + 1)])
      BY <3>2
    <3>4. GoesOn(c, e, r, Starts(r)[n] + Len(r.header[n].field) + (m + 1), left)
      BY <1>0, <2>3, <2>4, <3>2, <3>3, ValueStep
    <3> QED
      BY <3>2, <3>4
  <2>7. CASE m = w
    <3>1. 0 < w /\ 0 \in Nat
      BY <2>2
    <3>2. 0 < Len(r.header[n].value)
      BY <2>2, <3>1
    <3>3. c.data = r.header[n].value
      BY <2>2, <2>3, <2>7, <3>1, <3>2, PrefixGrows
    <3>4. Flushed(c, r, n, left)
      BY <1>0, <2>3, <2>4, <3>3, ValueEnd
    <3>5. j = Starts(r)[n + 1]
      BY <1>1, <2>2, <2>5, <2>7
    <3>6. n \in 0..H
      OBVIOUS
    <3>7. e = OnPiece(c, Pieces(r)[Starts(r)[n + 1] + 1]) /\ n \in 0..Len(r.header)
      BY <1>1, <3>5, <3>6
    <3>8. GoesOn(c, e, r, Starts(r)[n + 1] + 1, left) \/ Completes(c, e, r, Starts(r)[n + 1] + 1, left)
      BY <2>3, <3>4, <3>7, NextField
    <3> QED
      BY <3>5, <3>8
  <2> QED
    BY <2>6, <2>7
<1>6. CASE InBody(c, r, j, left)
  BY <1>0, <1>6, BodyStep
<1> QED
  BY <1>2, <1>3, <1>4, <1>5, <1>6 DEF Progress

(* The first piece of a request; the method may be refused. *)
LEMMA BeginStep ==
  ASSUME NEW c, GoodParser(c), NEW r \in Requests, NEW left, c.lib = "end", Fresh(c),
         c.request.header = left,
         NEW e, e = OnPiece(c, Pieces(r)[0 + 1])
  PROVE  e.out = c.out /\ (e.lib = "error" \/ GoesOn(c, e, r, 0 + 1, left))
<1>1. PICK p : p = Pieces(r)[0 + 1] /\ p.k = "begin" /\ p.v = r.method
  <2>0. Layout(r, Starts(r))
    BY PiecesLayout
  <2>1. Pieces(r)[1] = [k |-> "begin", v |-> r.method]
    BY <2>0, Zenon DEF Layout
  <2>3. 0 + 1 = 1
    OBVIOUS
  <2>2. PICK p : p = [k |-> "begin", v |-> r.method]
    OBVIOUS
  <2> QED
    BY <2>1, <2>2, <2>3
<1> DEFINE d == [c EXCEPT !.lib = "begin"]
<1>2. "begin" \in Kinds /\ "begin" \in Follows(c.lib)
  BY DEF Kinds, Follows
<1>3. e = onMessageBegin(d, r.method)
  BY <1>1, <1>2 DEF OnPiece
<1>4. d \in ParserSet /\ d.data = c.data /\ d.out = c.out /\ d.request = c.request
      /\ d.state = c.state /\ d.lib = "begin"
  BY <1>2, DataIs DEF GoodParser
<1> HIDE DEF d
<1>5. CASE Guess(r.method) \in {"GET", "POST"}
  <2> DEFINE R == [d.request EXCEPT !.method = Guess(r.method)]
  <2>1. R \in GotSet /\ R.method = Guess(r.method) /\ R.header = left
    BY <1>4, <1>5 DEF ParserSet, GotSet
  <2>2. e = [d EXCEPT !.request = R]
    BY <1>3, <1>4, <1>5 DEF onMessageBegin, ParserSet
  <2> HIDE DEF R
  <2>3. e.request = R /\ e.state = d.state /\ e.data = d.data /\ e.lib = "begin" /\ e.out = c.out
    BY <1>4, <2>1, <2>2 DEF ParserSet
  <2>4. Fresh(e)
    BY <1>4, <2>3 DEF Fresh
  <2>5. Progress(e, r, 0 + 1, left)
    BY <2>1, <2>3, <2>4 DEF Progress
  <2>6. 0 + 1 \in 1..(Len(Pieces(r)) - 1)
    <3>1. PICK U \in Nat, H \in Nat : U = Len(r.url) /\ U # 0 /\ H = Len(r.header)
      BY RequestIs
    <3>2. /\ Starts(r) \in [1..(H + 1) -> Nat] /\ Starts(r)[1] = 1 + U
          /\ \A n \in 1..(H + 1) : Starts(r)[n] <= Starts(r)[H + 1]
          /\ Len(Pieces(r)) = Starts(r)[H + 1] + (IF r.body THEN 2 ELSE 1)
      BY <3>1, PiecesLayout DEF Layout
    <3>3. 1 \in 1..(H + 1) /\ H + 1 \in 1..(H + 1)
      OBVIOUS
    <3>4. PICK z \in Nat : z = Starts(r)[H + 1]
      BY <3>2, <3>3
    <3>5. 1 + U <= z
      BY <3>2, <3>3, <3>4
    <3>6. Len(Pieces(r)) = z + 1 \/ Len(Pieces(r)) = z + 2
      BY <3>2, <3>4
    <3>7. 0 + 1 \in 1..z /\ 0 + 1 \in 1..(z + 1) /\ (z + 1) - 1 = z /\ (z + 2) - 1 = z + 1
      BY <3>5
    <3> QED
      BY <3>6, <3>7
  <2> QED
    BY <2>3, <2>5, <2>6 DEF GoesOn
<1>6. CASE Guess(r.method) \notin {"GET", "POST"}
  <2>1. e = [d EXCEPT !.lib = "error"]
    BY <1>3, <1>6 DEF onMessageBegin
  <2>2. e.lib = "error" /\ e.out = d.out
    BY <1>4, <2>1 DEF ParserSet
  <2> QED
    BY <1>4, <2>2
<1> QED
  BY <1>5, <1>6

-----------------------------------------------------------------------------
(* The pieces W of the requests q, and where each request begins. *)
SentAs(q, W, st) ==
  /\ W \in Seq(PieceSet) /\ st \in [1..(Len(q) + 1) -> Nat]
  /\ st[1] = 0 /\ st[Len(q) + 1] = Len(W)
  /\ \A i \in 1..(Len(q) + 1) : st[i] <= Len(W)
  /\ \A i \in 1..Len(q) :
       /\ st[i + 1] = st[i] + Len(Pieces(q[i]))
       /\ \A m \in 1..Len(Pieces(q[i])) : W[st[i] + m] = Pieces(q[i])[m]

(* T requests are complete, the last of them with the header `left', and   *)
(* the parser has seen the first P pieces.                                 *)
Where(c, T, P, q, W, st, left) ==
  c.lib # "error" =>
    \/ /\ c.lib = "end" /\ Fresh(c) /\ c.request.header = left
       /\ P = st[T + 1] \/ (P + 1 = st[T + 1] /\ W[P + 1].k = "body")
    \/ /\ c.lib # "end" /\ T < Len(q)
       /\ \E j \in 1..(Len(Pieces(q[T + 1])) - 1) :
            P = st[T + 1] + j /\ Progress(c, q[T + 1], j, left)

(* What is read and what is on its way is the rest of the pieces.          *)
StillToCome(P, W) ==
  /\ P + Len(readBuf) + Len(stream) = Len(W)
  /\ \A i \in 1..Len(readBuf) : readBuf[i] = W[P + i]
  /\ \A i \in 1..Len(stream) : stream[i] = W[P + Len(readBuf) + i]

(* At most one read waits for its handler, and it filled the buffer.       *)
OneRead ==
  \/ arrived = <<>> /\ readBuf = <<>>
  \/ arrived = <<Len(readBuf)>>

(* What is in the header when the ith request begins, if it was `left'     *)
(* when the first did.                                                     *)
Left(got, i, left) == IF i = 1 THEN left ELSE got[i - 1].header

(* The requests handed over are the first of those sent.                   *)
Matched(got, q) ==
  /\ Len(got) <= Len(q)
  /\ \A i \in 1..Len(got) : SameRequest(got[i], q[i], LeftBy(got, i))

(* The inductive invariant: until a read overtakes the handler of another, *)
(* the requests handed over are the first of those sent, and the parser,   *)
(* what was read and what is on its way are one place in their pieces.     *)
ParsedInv ==
  /\ sent \in Seq(Requests)
  /\ ~overlapped =>
       /\ OneRead /\ Matched(answered, sent)
       /\ \E W, st, P : /\ SentAs(sent, W, st) /\ P \in Nat /\ StillToCome(P, W)
                        /\ Where(parser, Len(answered), P, sent, W, st,
                                 LeftBy(answered, Len(answered) + 1))

(* A piece of the stream takes the parser on, to the end of a request or   *)
(* to an error.                                                            *)
LEMMA PieceStep ==
  ASSUME NEW q \in Seq(Requests), NEW W, NEW st, SentAs(q, W, st),
         NEW c, GoodParser(c), NEW T \in 0..Len(q), NEW P \in Nat, P < Len(W),
         NEW left, Where(c, T, P, q, W, st, left), NEW e, e = OnPiece(c, W[P + 1])
  PROVE  \/ e.out = c.out /\ Where(e, T, P + 1, q, W, st, left)
         \/ /\ T < Len(q) /\ e.out = Append(c.out, e.request)
            /\ SameRequest(e.request, q[T + 1], left)
            /\ Where(e, T + 1, P + 1, q, W, st, e.request.header)
<1>1. PICK N \in Nat, B \in Nat :
        /\ N = Len(q) /\ B = Len(W) /\ st \in [1..(N + 1) -> Nat] /\ st[N + 1] = B
        /\ \A i \in 1..(N + 1) : st[i] <= B
        /\ \A i \in 1..N :
             /\ q[i] \in Requests
             /\ st[i + 1] = st[i] + Len(Pieces(q[i]))
             /\ \A m \in 1..Len(Pieces(q[i])) : W[st[i] + m] = Pieces(q[i])[m]
  <2>1. PICK N \in Nat : N = Len(q) /\ \A i \in 1..N : q[i] \in Requests
    BY LenProperties, ElementOfSeq
  <2>2. PICK B \in Nat : B = Len(W)
    <3>1. W \in Seq(PieceSet)
      BY DEF SentAs
    <3> QED
      BY <3>1, LenProperties
  <2> QED
    BY <2>1, <2>2 DEF SentAs
<1>2. T \in 0..N /\ P < B /\ T \in Nat /\ T + 1 \in 1..(N + 1)
  <2>1. T \in 0..N /\ P < B
    BY <1>1
  <2> QED
    BY <2>1
<1>3. ASSUME NEW p, p.k \notin Follows(c.lib), e = OnPiece(c, p)
      PROVE  e.out = c.out /\ Where(e, T, P + 1, q, W, st, left)
  <2>1. e = [c EXCEPT !.lib = "error"]
    BY <1>3 DEF OnPiece
  <2>2. e.lib = "error" /\ e.out = c.out
    BY <2>1 DEF GoodParser, ParserSet
  <2> QED
    BY <2>2 DEF Where
<1>4. CASE c.lib = "error"
  <2>1. W[P + 1].k \notin Follows(c.lib)
    BY <1>4 DEF Follows
  <2> QED
    BY <1>3, <2>1
<1>5. CASE c.lib = "end"
  <2>1. Fresh(c) /\ c.request.header = left /\ (P = st[T + 1] \/ (P + 1 = st[T + 1] /\ W[P + 1].k = "body"))
    BY <1>5 DEF Where
  <2>2. CASE P = st[T + 1]
    <3>1. T # N
      BY <1>1, <1>2, <2>2
    <3>2. T + 1 \in 1..N /\ T < N
      BY <1>2, <3>1
    <3>3. PICK r \in Requests : r = q[T + 1]
      BY <1>1, <3>2
    <3>4. PICK L \in Nat : L = Len(Pieces(r)) /\ L >= 2
      <4>1. Len(Pieces(r)) \in Nat
        BY PiecesAre, LenProperties
      <4>2. PICK L \in Nat : L = Len(Pieces(r))
        BY <4>1
      <4>3. L >= 2
        <5>1. PICK U \in Nat, H \in Nat : U = Len(r.url) /\ U # 0 /\ H = Len(r.header)
          BY RequestIs
        <5>2. /\ Starts(r) \in [1..(H + 1) -> Nat] /\ Starts(r)[1] = 1 + U
              /\ \A n \in 1..(H + 1) : Starts(r)[n] <= Starts(r)[H + 1]
              /\ L = Starts(r)[H + 1] + (IF r.body THEN 2 ELSE 1)
          BY <4>2, <5>1, PiecesLayout DEF Layout
        <5>3. 1 \in 1..(H + 1) /\ H + 1 \in 1..(H + 1)
          OBVIOUS
        <5>4. PICK z \in Nat : z = Starts(r)[H + 1]
          BY <5>2, <5>3
        <5>5. 1 + U <= z
          BY <5>2, <5>3, <5>4
        <5>6. L = z + 1 \/ L = z + 2
          BY <5>2, <5>4
        <5> QED
          BY <5>1, <5>5, <5>6
      <4> QED
        BY <4>2, <4>3
    <3>5. W[P + 1] = Pieces(r)[0 + 1]
      <4>1. 1 \in 1..L /\ 0 + 1 = 1
        BY <3>4
      <4> QED
        BY <1>1, <2>2, <3>2, <3>3, <3>4, <4>1
    <3>6. e.out = c.out /\ (e.lib = "error" \/ GoesOn(c, e, r, 0 + 1, left))
      BY <1>5, <2>1, <3>5, BeginStep
    <3>7. CASE e.lib = "error"
      BY <3>6, <3>7 DEF Where
    <3>8. CASE GoesOn(c, e, r, 0 + 1, left)
      <4>1. /\ e.lib # "end" /\ 0 + 1 \in 1..(Len(Pieces(r)) - 1) /\ Progress(e, r, 0 + 1, left)
        BY <3>8 DEF GoesOn
      <4>2. P + 1 = st[T + 1] + (0 + 1)
        BY <2>2
      <4> QED
        BY <1>1, <3>2, <3>3, <3>6, <4>1, <4>2 DEF Where
    <3> QED
      BY <3>6, <3>7, <3>8
  <2>3. CASE W[P + 1].k = "body"
    <3>1. W[P + 1].k \notin Follows(c.lib)
      BY <1>5, <2>3 DEF Follows
    <3> QED
      BY <1>3, <3>1
  <2> QED
    BY <2>1, <2>2, <2>3
<1>6. CASE c.lib \notin {"error", "end"}
  <2>1. /\ T < Len(q)
        /\ \E j \in 1..(Len(Pieces(q[T + 1])) - 1) : P = st[T + 1] + j /\ Progress(c, q[T + 1], j, left)
    BY <1>6 DEF Where
  <2>2. T < N
    BY <1>1, <2>1
  <2>3. T + 1 \in 1..N /\ (T + 1) + 1 \in 1..(N + 1)
    BY <1>2, <2>2
  <2>4. PICK r \in Requests : r = q[T + 1]
    BY <1>1, <2>3
  <2>5. PICK L \in Nat : L = Len(Pieces(r))
    <3>1. Len(Pieces(r)) \in Nat
      BY PiecesAre, LenProperties
    <3> QED
      BY <3>1
  <2>6. PICK j \in 1..(L - 1) : P = st[T + 1] + j /\ Progress(c, r, j, left)
    BY <2>1, <2>4, <2>5
  <2>7. PICK s \in Nat : /\ s = st[T + 1] /\ st[(T + 1) + 1] = s + L /\ P = s + j
                         /\ \A m \in 1..L : W[s + m] = Pieces(r)[m]
    <3>1. st[T + 1] \in Nat
      BY <1>1, <1>2
    <3> QED
      BY <1>1, <2>3, <2>4, <2>5, <2>6, <3>1
  <2>8. j \in Nat /\ j + 1 \in 1..L /\ P + 1 = s + (j + 1)
    <3>1. j \in 1..(L - 1) /\ P = s + j
      BY <2>6, <2>7
    <3> QED
      BY <3>1
  <2>9. W[P + 1] = Pieces(r)[j + 1]
    BY <2>7, <2>8
  <2>10. GoesOn(c, e, r, j + 1, left) \/ Completes(c, e, r, j + 1, left)
    BY <2>6, <2>8, <2>9, RequestStep
  <2>11. CASE GoesOn(c, e, r, j + 1, left)
    <3>1. /\ e.out = c.out /\ e.lib # "end" /\ Progress(e, r, j + 1, left)
          /\ j + 1 \in 1..(Len(Pieces(r)) - 1)
      BY <2>11 DEF GoesOn
    <3> QED
      BY <2>1, <2>4, <2>7, <2>8, <3>1 DEF Where
  <2>12. CASE Completes(c, e, r, j + 1, left)
    <3>1. /\ e.out = Append(c.out, e.request) /\ e.lib = "end" /\ Fresh(e)
          /\ SameRequest(e.request, r, left)
          /\ j + 1 = L \/ ((j + 1) + 1 = L /\ Pieces(r)[(j + 1) + 1].k = "body")
      BY <2>5, <2>12 DEF Completes
    <3>2. P + 1 = st[(T + 1) + 1] \/ ((P + 1) + 1 = st[(T + 1) + 1] /\ W[(P + 1) + 1].k = "body")
      <4>1. CASE j + 1 = L
        BY <2>7, <2>8, <4>1
      <4>2. CASE (j + 1) + 1 = L /\ Pieces(r)[(j + 1) + 1].k = "body"
        <5>1. (P + 1) + 1 = s + ((j + 1) + 1) /\ (j + 1) + 1 \in 1..L
          BY <2>8, <4>2, SMTT(30)
        <5>2. W[(P + 1) + 1] = Pieces(r)[(j + 1) + 1]
          BY <2>7, <5>1
        <5> QED
          BY <2>7, <4>2, <5>1, <5>2
      <4> QED
        BY <3>1, <4>1, <4>2
    <3> QED
      BY <2>1, <2>4, <3>1, <3>2 DEF Where
  <2> QED
    BY <2>10, <2>11, <2>12
<1> QED
  BY <1>4, <1>5, <1>6


(* What a read brings: the requests it completes are the next ones sent.   *)
LEMMA ParseRead ==
  ASSUME NEW q \in Seq(Requests), NEW W, NEW st, SentAs(q, W, st),
         NEW c, GoodParser(c), c.out = <<>>, NEW T \in 0..Len(q), NEW P \in Nat,
         NEW pieces \in Seq(PieceSet), P + Len(pieces) <= Len(W),
         \A i \in 1..Len(pieces) : pieces[i] = W[P + i],
         NEW left, Where(c, T, P, q, W, st, left), NEW e, e = Parse(c, pieces)
  PROVE  /\ T + Len(e.out) <= Len(q)
         /\ \A i \in 1..Len(e.out) : SameRequest(e.out[i], q[T + i], Left(e.out, i, left))
         /\ Where(e, T + Len(e.out), P + Len(pieces), q, W, st, Left(e.out, Len(e.out) + 1, left))
<1>1. PICK N \in Nat, B \in Nat, L \in Nat : N = Len(q) /\ B = Len(W) /\ L = Len(pieces)
  <2>1. W \in Seq(PieceSet)
    BY DEF SentAs
  <2> QED
    BY <2>1, LenProperties
<1>2. T \in 0..N /\ T \in Nat /\ P + L <= B
  <2>1. T \in 0..N /\ P + L <= B
    BY <1>1
  <2> QED
    BY <2>1
<1>3. PICK f : /\ f[0] = c /\ f[L] = e /\ \A n \in 1..L : f[n] = OnPiece(f[n - 1], pieces[n])
  BY <1>1, ParseIs
<1> DEFINE Reached(x, k) ==
      /\ GoodParser(x) /\ T + Len(x.out) <= N
      /\ \A i \in 1..Len(x.out) : SameRequest(x.out[i], q[T + i], Left(x.out, i, left))
      /\ Where(x, T + Len(x.out), P + k, q, W, st, Left(x.out, Len(x.out) + 1, left))
    A == {k \in 0..L : Reached(f[k], k)}
<1>4. 0 \in A
  <2>1. Len(c.out) = 0 /\ T + 0 = T /\ P + 0 = P /\ T <= N /\ 0 \in 0..L
    BY <1>2
  <2>2. \A i \in 1..0 : FALSE
    OBVIOUS
  <2>a. Left(c.out, Len(c.out) + 1, left) = left
    BY <2>1 DEF Left
  <2>3. Reached(c, 0)
    BY <2>1, <2>2, <2>a
  <2> HIDE DEF Reached
  <2> QED
    BY <1>3, <2>1, <2>3
<1>5. ASSUME NEW k \in 0..(L - 1), k \in A PROVE k + 1 \in A
  <2>1. k + 1 \in 1..L /\ k + 1 \in 0..L /\ (k + 1) - 1 = k /\ k \in Nat /\ P + k \in Nat
        /\ P + k < B /\ P + (k + 1) = (P + k) + 1
    BY <1>2
  <2>2. PICK x : x = f[k] /\ Reached(x, k)
    BY <1>5
  <2>3. x.out \in Seq(GotSet) /\ x.request \in GotSet
    BY <2>2 DEF GoodParser, ParserSet
  <2>4. PICK o \in Nat : o = Len(x.out)
    BY <2>3, LenProperties
  <2>5. T + o \in 0..N /\ T + o \in Nat
    <3>1. T + o <= N
      BY <2>2, <2>4
    <3> QED
      BY <1>2, <3>1
  <2>6. PICK y : y = f[k + 1] /\ y = OnPiece(x, W[(P + k) + 1])
    <3>1. f[k + 1] = OnPiece(x, pieces[k + 1])
      BY <1>3, <2>1, <2>2
    <3>2. pieces[k + 1] = W[P + (k + 1)]
      BY <1>1, <2>1
    <3> QED
      BY <2>1, <3>1, <3>2
  <2>7. GoodParser(y)
    <3>1. pieces[k + 1] \in PieceSet
      BY <1>1, <2>1, ElementOfSeq
    <3>2. f[k + 1] = OnPiece(x, pieces[k + 1])
      BY <1>3, <2>1, <2>2
    <3> QED
      BY <2>2, <2>6, <3>1, <3>2, OnPieceGood
  <2>a. PICK now : now = Left(x.out, o + 1, left)
    OBVIOUS
  <2>8. \/ y.out = x.out /\ Where(y, T + o, (P + k) + 1, q, W, st, now)
        \/ /\ T + o < Len(q) /\ y.out = Append(x.out, y.request)
           /\ SameRequest(y.request, q[(T + o) + 1], now)
           /\ Where(y, (T + o) + 1, (P + k) + 1, q, W, st, y.request.header)
    <3>1. T + o \in 0..Len(q) /\ P + k < Len(W)
      BY <1>1, <2>1, <2>5
    <3>2. Where(x, T + o, P + k, q, W, st, now) /\ GoodParser(x)
      BY <2>2, <2>4, <2>a
    <3>3. y = OnPiece(x, W[(P + k) + 1]) /\ P + k \in Nat /\ T + o \in 0..Len(q)
      BY <2>1, <2>6, <3>1
    <3> QED
      BY <1>1, <3>1, <3>2, <3>3, PieceStep, SMTT(60)
  <2>9. CASE y.out = x.out /\ Where(y, T + o, (P + k) + 1, q, W, st, now)
    <3>1. Reached(y, k + 1)
      BY <2>1, <2>2, <2>4, <2>7, <2>9, <2>a
    <3> HIDE DEF Reached
    <3> QED
      BY <2>1, <2>6, <3>1
  <2>10. CASE /\ T + o < Len(q) /\ y.out = Append(x.out, y.request)
              /\ SameRequest(y.request, q[(T + o) + 1], now)
              /\ Where(y, (T + o) + 1, (P + k) + 1, q, W, st, y.request.header)
    <3>1. /\ Len(y.out) = o + 1 /\ y.out[o + 1] = y.request
          /\ \A i \in 1..o : y.out[i] = x.out[i]
      <4>1. y.request \in GotSet
        BY <2>7 DEF GoodParser, ParserSet
      <4>2. y.out = Append(x.out, y.request)
        BY <2>10
      <4> QED
        BY <2>3, <2>4, <4>1, <4>2, AppendProperties
    <3>2. T + (o + 1) = (T + o) + 1 /\ \A i \in 1..(o + 1) : i \in 1..o \/ i = o + 1
      BY <1>2
    <3>3. T + (o + 1) <= N
      <4>1. T + o < N
        BY <1>1, <2>10
      <4> QED
        BY <1>2, <4>1
    <3>a. /\ \A i \in 1..(o + 1) : Left(y.out, i, left) = Left(x.out, i, left)
          /\ Left(y.out, (o + 1) + 1, left) = y.request.header
      <4>1. \A i \in 1..(o + 1) : i # 1 => i - 1 \in 1..o
        OBVIOUS
      <4>2. (o + 1) + 1 # 1 /\ ((o + 1) + 1) - 1 = o + 1
        OBVIOUS
      <4>3. \A i \in 1..(o + 1) : i # 1 => y.out[i - 1] = x.out[i - 1]
        BY <3>1, <4>1
      <4> QED
        BY <3>1, <4>2, <4>3 DEF Left
    <3>4. ASSUME NEW i \in 1..(o + 1) PROVE SameRequest(y.out[i], q[T + i], Left(y.out, i, left))
      <4>1. CASE i \in 1..o
        <5>1. SameRequest(x.out[i], q[T + i], Left(x.out, i, left))
          BY <2>2, <2>4, <4>1
        <5> QED
          BY <3>1, <3>a, <4>1, <5>1
      <4>2. CASE i = o + 1
        BY <2>10, <2>a, <3>1, <3>2, <3>a, <4>2
      <4> QED
        BY <3>2, <4>1, <4>2
    <3>5. Reached(y, k + 1)
      BY <2>1, <2>7, <2>10, <3>1, <3>2, <3>3, <3>4, <3>a
    <3> HIDE DEF Reached
    <3> QED
      BY <2>1, <2>6, <3>5
  <2> QED
    BY <2>8, <2>9, <2>10
<1>6. L \in A
  <2>1. L \in 0..L
    OBVIOUS
  <2> HIDE DEF A
  <2> QED
    BY <1>4, <1>5, <2>1, UpTo
<1>7. Reached(e, L)
  BY <1>3, <1>6
<1> QED
  BY <1>1, <1>7

-----------------------------------------------------------------------------
(* How the steps of a connection keep the parser in its place.             *)
LEMMA ParsedInit ==
  ASSUME HttpInit PROVE ParsedInv
<1>1. sent = <<>> /\ stream = <<>> /\ readBuf = <<>> /\ arrived = <<>> /\ answered = <<>>
      /\ parser.lib = "end" /\ parser.data = <<>> /\ parser.state = "Start"
      /\ parser.request.header = [f \in {} |-> <<>>]
  BY DEF HttpInit
<1>2. <<>> \in Seq(Requests) /\ <<>> \in Seq(PieceSet) /\ Len(<<>>) = 0
  OBVIOUS
<1>3. PICK W, st : W = <<>> /\ st = [i \in 1..(0 + 1) |-> 0]
  OBVIOUS
<1>4. st \in [1..(0 + 1) -> Nat] /\ st[1] = 0 /\ st[0 + 1] = 0 /\ (\A i \in 1..(0 + 1) : st[i] <= 0)
      /\ \A i \in 1..0 : FALSE
  BY <1>3
<1>5. SentAs(sent, W, st)
  BY <1>1, <1>2, <1>3, <1>4 DEF SentAs
<1>6. StillToCome(0, W)
  BY <1>1, <1>2, <1>3, <1>4 DEF StillToCome
<1>7. Where(parser, Len(answered), 0, sent, W, st, LeftBy(answered, Len(answered) + 1))
  <2>1. LeftBy(answered, Len(answered) + 1) = parser.request.header
    <3>1. Len(answered) + 1 = 1
      BY <1>1, <1>2
    <3> QED
      BY <1>1, <3>1 DEF LeftBy
  <2> QED
    BY <1>1, <1>2, <1>4, <2>1 DEF Where, Fresh
<1>8. OneRead /\ Matched(answered, sent)
  BY <1>1, <1>2, <1>4 DEF OneRead, Matched
<1>9. 0 \in Nat
  OBVIOUS
<1> QED
  BY <1>1, <1>2, <1>5, <1>6, <1>7, <1>8, <1>9 DEF ParsedInv

(* A request that is sent joins the others at the end. *)
LEMMA SentGrows ==
  ASSUME NEW q \in Seq(Requests), NEW W, NEW st, SentAs(q, W, st), NEW r \in Requests
  PROVE  \E ts : /\ SentAs(Append(q, r), W \o Pieces(r), ts)
                 /\ \A i \in 1..(Len(q) + 1) : ts[i] = st[i]
<1>0. PICK V : V = W \o Pieces(r)
  OBVIOUS
<1>1. PICK N \in Nat, B \in Nat, L \in Nat, s \in Seq(PieceSet) :
        /\ N = Len(q) /\ B = Len(W) /\ s = Pieces(r) /\ L = Len(s) /\ W \in Seq(PieceSet)
  <2>1. W \in Seq(PieceSet) /\ Pieces(r) \in Seq(PieceSet)
    BY PiecesAre DEF SentAs
  <2> QED
    BY <2>1, LenProperties
<1>2. /\ st \in [1..(N + 1) -> Nat] /\ st[1] = 0 /\ st[N + 1] = B
      /\ \A i \in 1..(N + 1) : st[i] <= B
      /\ \A i \in 1..N : /\ st[i + 1] = st[i] + Len(Pieces(q[i]))
                         /\ \A m \in 1..Len(Pieces(q[i])) : W[st[i] + m] = Pieces(q[i])[m]
  BY <1>1 DEF SentAs
<1>3. /\ V \in Seq(PieceSet) /\ Len(V) = B + L
      /\ \A x \in 1..B : V[x] = W[x]
      /\ \A x \in 1..L : V[B + x] = s[x]
  <2>1. W \in Seq(PieceSet) /\ s \in Seq(PieceSet)
    BY <1>1
  <2>2. \A a, b \in Seq(PieceSet) :
          /\ a \o b \in Seq(PieceSet) /\ Len(a \o b) = Len(a) + Len(b)
          /\ \A x \in 1..Len(a) : (a \o b)[x] = a[x]
          /\ \A x \in 1..Len(b) : (a \o b)[Len(a) + x] = b[x]
    BY ConcatIs
  <2>3. V = W \o s
    BY <1>0, <1>1
  <2>4. /\ V \in Seq(PieceSet) /\ Len(V) = Len(W) + Len(s)
        /\ \A x \in 1..Len(W) : V[x] = W[x]
        /\ \A x \in 1..Len(s) : V[Len(W) + x] = s[x]
    <3>1. /\ W \o s \in Seq(PieceSet) /\ Len(W \o s) = Len(W) + Len(s)
          /\ \A x \in 1..Len(W) : (W \o s)[x] = W[x]
          /\ \A x \in 1..Len(s) : (W \o s)[Len(W) + x] = s[x]
      BY <2>1, <2>2, Zenon
    <3> QED
      BY <2>3, <3>1, Zenon
  <2> QED
    BY <1>1, <2>4
<1>4. PICK p \in Seq(Requests) : /\ p = Append(q, r) /\ Len(p) = N + 1 /\ p[N + 1] = r
                                 /\ \A i \in 1..N : p[i] = q[i]
  <2>1. q \in Seq(Requests) /\ r \in Requests
    OBVIOUS
  <2>2. /\ Append(q, r) \in Seq(Requests) /\ Len(Append(q, r)) = Len(q) + 1
        /\ \A i \in 1..Len(q) : Append(q, r)[i] = q[i]
        /\ Append(q, r)[Len(q) + 1] = r
    BY <2>1, AppendProperties
  <2>3. PICK p : p = Append(q, r)
    OBVIOUS
  <2> QED
    BY <1>1, <2>2, <2>3, Zenon
<1> DEFINE ts == [i \in 1..((N + 1) + 1) |-> IF i = N + 2 THEN B + L ELSE st[i]]
<1>5. /\ N + 2 \in 1..((N + 1) + 1) /\ (N + 1) + 1 = N + 2 /\ N + 2 # 1
      /\ \A i \in 1..(N + 1) : i \in 1..((N + 1) + 1) /\ i # N + 2
      /\ \A i \in 1..((N + 1) + 1) : i \in 1..(N + 1) \/ i = N + 2
  OBVIOUS
<1>6. ts[N + 2] = B + L /\ \A i \in 1..(N + 1) : ts[i] = st[i]
  BY <1>5
<1>7. ts \in [1..((N + 1) + 1) -> Nat]
  <2>1. \A i \in 1..(N + 1) : st[i] \in Nat
    BY <1>2
  <2> QED
    BY <1>5, <2>1
<1> HIDE DEF ts
<1>8. ts[1] = 0 /\ ts[(N + 1) + 1] = B + L
  <2>1. 1 \in 1..(N + 1)
    OBVIOUS
  <2> QED
    BY <1>2, <1>5, <1>6, <2>1
<1>9. \A i \in 1..((N + 1) + 1) : ts[i] <= B + L
  <2>1. \A i \in 1..(N + 1) : st[i] <= B + L
    BY <1>2
  <2>2. B + L <= B + L
    OBVIOUS
  <2> QED
    BY <1>5, <1>6, <2>1, <2>2
<1>10. ASSUME NEW i \in 1..(N + 1)
       PROVE  /\ ts[i + 1] = ts[i] + Len(Pieces(p[i]))
              /\ \A m \in 1..Len(Pieces(p[i])) : V[ts[i] + m] = Pieces(p[i])[m]
  <2>1. CASE i = N + 1
    <3>1. ts[i] = B /\ i + 1 = N + 2 /\ Pieces(p[i]) = s
      BY <1>1, <1>2, <1>4, <1>6, <2>1
    <3> QED
      BY <1>1, <1>3, <1>6, <3>1
  <2>2. CASE i # N + 1
    <3>1. i \in 1..N /\ i + 1 \in 1..(N + 1)
      BY <2>2
    <3>2. /\ p[i] = q[i] /\ ts[i] = st[i] /\ ts[i + 1] = st[i + 1]
          /\ st[i] \in Nat /\ st[i + 1] \in Nat /\ st[i + 1] <= B
      BY <1>2, <1>4, <1>6, <3>1
    <3>a. PICK w : w = Len(Pieces(p[i]))
      OBVIOUS
    <3>3. PICK a \in Nat : a = st[i] /\ w = Len(Pieces(p[i])) /\ a + w = st[i + 1]
      BY <1>2, <3>1, <3>2, <3>a
    <3>4. w \in Nat
      <4>1. q[i] \in Requests
        BY <1>1, <3>1, ElementOfSeq
      <4>2. Pieces(q[i]) \in Seq(PieceSet)
        BY <4>1, PiecesAre
      <4> QED
        BY <3>2, <3>3, <4>2, LenProperties
    <3>5. a + w <= B
      BY <3>2, <3>3
    <3>6. \A m \in 1..w : a + m \in 1..B
      BY <3>4, <3>5
    <3>7. \A m \in 1..w : W[a + m] = Pieces(p[i])[m]
      BY <1>2, <3>1, <3>2, <3>3
    <3> QED
      BY <1>3, <3>2, <3>3, <3>6, <3>7
  <2> QED
    BY <2>1, <2>2
<1>11. SentAs(p, V, ts)
  BY <1>3, <1>4, <1>7, <1>8, <1>9, <1>10 DEF SentAs
<1> QED
  BY <1>0, <1>1, <1>4, <1>6, <1>11


(* A further request of the peer leaves the parser where it is.            *)
LEMMA WhereStays ==
  ASSUME NEW q \in Seq(Requests), NEW W, NEW st, SentAs(q, W, st), NEW r \in Requests,
         NEW ts, \A i \in 1..(Len(q) + 1) : ts[i] = st[i],
         NEW c, NEW T \in 0..Len(q), NEW P \in Nat, NEW left,
         Where(c, T, P, q, W, st, left)
  PROVE  Where(c, T, P, Append(q, r), W \o Pieces(r), ts, left)
<1>1. PICK N \in Nat, B \in Nat : N = Len(q) /\ B = Len(W) /\ W \in Seq(PieceSet)
  <2>1. W \in Seq(PieceSet)
    BY DEF SentAs
  <2> QED
    BY <2>1, LenProperties
<1>2. T \in Nat /\ T + 1 \in 1..(N + 1) /\ (T < N => T + 1 \in 1..N)
  <2>1. T \in 0..N
    BY <1>1
  <2> QED
    BY <2>1
<1>3. ts[T + 1] = st[T + 1] /\ st[T + 1] \in Nat /\ st[T + 1] <= B
  BY <1>1, <1>2 DEF SentAs
<1>4. PICK p : p = Append(q, r) /\ Len(p) = N + 1 /\ \A i \in 1..N : p[i] = q[i]
  <2>1. /\ Len(Append(q, r)) = Len(q) + 1 /\ \A i \in 1..Len(q) : Append(q, r)[i] = q[i]
    BY AppendProperties
  <2>2. PICK p : p = Append(q, r)
    OBVIOUS
  <2> QED
    BY <1>1, <2>1, <2>2, Zenon
<1>5. PICK V : V = W \o Pieces(r) /\ \A x \in 1..B : V[x] = W[x]
  <2>1. W \in Seq(PieceSet) /\ Pieces(r) \in Seq(PieceSet)
    BY <1>1, PiecesAre
  <2>2. \A x \in 1..Len(W) : (W \o Pieces(r))[x] = W[x]
    BY <2>1, ConcatIs
  <2> QED
    BY <1>1, <2>2
<1>6. SUFFICES ASSUME c.lib # "error" PROVE Where(c, T, P, p, V, ts, left)
  BY <1>4, <1>5 DEF Where
<1>7. CASE c.lib = "end"
  <2>1. Fresh(c) /\ c.request.header = left /\ (P = st[T + 1] \/ (P + 1 = st[T + 1] /\ W[P + 1].k = "body"))
    BY <1>6, <1>7 DEF Where
  <2>2. P + 1 = st[T + 1] => V[P + 1] = W[P + 1]
    <3>1. ASSUME P + 1 = st[T + 1] PROVE P + 1 \in 1..B
      BY <1>3, <3>1
    <3> QED
      BY <1>5, <3>1
  <2> QED
    BY <1>3, <1>7, <2>1, <2>2 DEF Where
<1>8. CASE c.lib # "end"
  <2>1. /\ T < Len(q)
        /\ \E j \in 1..(Len(Pieces(q[T + 1])) - 1) : P = st[T + 1] + j /\ Progress(c, q[T + 1], j, left)
    BY <1>6, <1>8 DEF Where
  <2>2. T < N /\ T < N + 1
    <3>1. T < N
      BY <1>1, <2>1
    <3> QED
      BY <1>2, <3>1
  <2>3. p[T + 1] = q[T + 1] /\ T < Len(p)
    BY <1>2, <1>4, <2>2
  <2> QED
    BY <1>3, <1>8, <2>1, <2>3 DEF Where
<1> QED
  BY <1>7, <1>8

(* One lemma for each action that changes what is parsed: the peer sends.  *)
LEMMA PeerSendParsed ==
  ASSUME HttpInv, ParsedInv, NEW r \in Requests, PeerSend(r)
  PROVE  ParsedInv'
<1>1. /\ sent' = Append(sent, r) /\ stream' = stream \o Pieces(r)
      /\ UNCHANGED <<readBuf, arrived, parser, answered, overlapped>>
  BY DEF PeerSend
<1>2. sent \in Seq(Requests) /\ sent' \in Seq(Requests)
  BY <1>1, AppendProperties DEF ParsedInv
<1>3. ASSUME ~overlapped'
      PROVE  /\ OneRead' /\ Matched(answered', sent')
             /\ \E W, st, P : /\ SentAs(sent', W, st) /\ P \in Nat /\ StillToCome(P, W)'
                              /\ Where(parser', Len(answered'), P, sent', W, st,
                                       LeftBy(answered', Len(answered') + 1))
  <2>1. PICK W, st, P : /\ SentAs(sent, W, st) /\ P \in Nat /\ StillToCome(P, W)
                        /\ Where(parser, Len(answered), P, sent, W, st,
                                 LeftBy(answered, Len(answered) + 1))
    BY <1>1, <1>3 DEF ParsedInv
  <2>2. OneRead /\ Matched(answered, sent)
    BY <1>1, <1>3 DEF ParsedInv
  <2>3. PICK N \in Nat, A \in Nat : N = Len(sent) /\ A = Len(answered) /\ A <= N
    <3>1. answered \in Seq(GotSet)
      BY DEF HttpInv, HttpTypes
    <3>2. PICK N \in Nat, A \in Nat : N = Len(sent) /\ A = Len(answered)
      BY <1>2, <3>1, LenProperties
    <3> QED
      BY <2>2, <3>2 DEF Matched
  <2>4. OneRead'
    BY <1>1, <2>2 DEF OneRead
  <2>5. Matched(answered', sent')
    <3>1. Len(sent') = N + 1 /\ \A i \in 1..N : sent'[i] = sent[i]
      <4>1. /\ Len(Append(sent, r)) = Len(sent) + 1
            /\ \A i \in 1..Len(sent) : Append(sent, r)[i] = sent[i]
        BY <1>2, AppendProperties
      <4> QED
        BY <1>1, <2>3, <4>1
    <3>2. A <= N + 1 /\ \A i \in 1..A : i \in 1..N
      BY <2>3
    <3> QED
      BY <1>1, <2>2, <2>3, <3>1, <3>2 DEF Matched
  <2> DEFINE V == W \o Pieces(r)
  <2>6. PICK ts : SentAs(sent', V, ts) /\ \A i \in 1..(Len(sent) + 1) : ts[i] = st[i]
    BY <1>1, <1>2, <2>1, SentGrows
  <2>7. Where(parser', Len(answered'), P, sent', V, ts, LeftBy(answered', Len(answered') + 1))
    <3>1. A \in 0..Len(sent)
      BY <2>3
    <3>2. Where(parser, A, P, sent, W, st, LeftBy(answered, A + 1)) /\ SentAs(sent, W, st) /\ P \in Nat
      BY <2>1, <2>3
    <3>3. Where(parser, A, P, Append(sent, r), V, ts, LeftBy(answered, A + 1))
      BY <1>2, <2>6, <3>1, <3>2, WhereStays
    <3> QED
      BY <1>1, <2>3, <3>3
  <2>8. StillToCome(P, V)'
    <3>1. /\ W \in Seq(PieceSet) /\ Pieces(r) \in Seq(PieceSet) /\ stream \in Seq(PieceSet)
          /\ readBuf \in Seq(PieceSet)
      BY <2>1, PiecesAre DEF SentAs, HttpInv, HttpTypes
    <3>a. PICK s : s = Pieces(r)
      OBVIOUS
    <3>b. PICK B \in Nat, S \in Nat, L \in Nat, D \in Nat :
            B = Len(W) /\ S = Len(stream) /\ L = Len(s) /\ D = Len(readBuf)
      BY <3>1, <3>a, LenProperties
    <3>2. /\ B = Len(W) /\ S = Len(stream) /\ L = Len(Pieces(r)) /\ D = Len(readBuf)
          /\ s = Pieces(r)
      BY <3>a, <3>b
    <3>3. /\ Len(V) = B + L /\ \A x \in 1..B : V[x] = W[x]
          /\ \A x \in 1..L : V[B + x] = s[x]
      <4>1. /\ Len(W \o Pieces(r)) = Len(W) + Len(Pieces(r))
            /\ \A x \in 1..Len(W) : (W \o Pieces(r))[x] = W[x]
            /\ \A x \in 1..Len(Pieces(r)) : (W \o Pieces(r))[Len(W) + x] = Pieces(r)[x]
        BY <3>1, ConcatIs
      <4> QED
        BY <3>2, <4>1
    <3>4. /\ Len(stream') = S + L /\ \A x \in 1..S : stream'[x] = stream[x]
          /\ \A x \in 1..L : stream'[S + x] = s[x]
      <4>1. /\ Len(stream \o Pieces(r)) = Len(stream) + Len(Pieces(r))
            /\ \A x \in 1..Len(stream) : (stream \o Pieces(r))[x] = stream[x]
            /\ \A x \in 1..Len(Pieces(r)) : (stream \o Pieces(r))[Len(stream) + x] = Pieces(r)[x]
        BY <3>1, ConcatIs
      <4> QED
        BY <1>1, <3>2, <4>1
    <3> HIDE DEF V
    <3>5. /\ P + D + S = B /\ \A i \in 1..D : readBuf[i] = W[P + i]
          /\ \A i \in 1..S : stream[i] = W[P + D + i]
      BY <2>1, <3>2 DEF StillToCome
    <3>6. P \in Nat
      BY <2>1
    <3>7. P + D + (S + L) = B + L
      BY <3>5, <3>6
    <3>8. \A i \in 1..D : readBuf[i] = V[P + i]
      <4>1. \A i \in 1..D : P + i \in 1..B
        BY <3>5, <3>6
      <4> QED
        BY <3>3, <3>5, <4>1
    <3>9. ASSUME NEW i \in 1..(S + L) PROVE stream'[i] = V[P + D + i]
      <4>1. CASE i \in 1..S
        <5>1. P + D + i \in 1..B
          BY <3>5, <3>6, <4>1
        <5> QED
          BY <3>3, <3>4, <3>5, <4>1, <5>1
      <4>2. CASE i \notin 1..S
        <5>1. PICK x \in 1..L : i = S + x
          <6>1. i - S \in 1..L /\ i = S + (i - S)
            BY <4>2
          <6> QED
            BY <6>1
        <5>2. P + D + i = B + x
          BY <3>5, <3>6, <5>1
        <5> QED
          BY <3>3, <3>4, <5>1, <5>2
      <4> QED
        BY <4>1, <4>2
    <3>10. readBuf' = readBuf
      BY <1>1
    <3> QED
      BY <3>2, <3>3, <3>4, <3>7, <3>8, <3>9, <3>10 DEF StillToCome
  <2> HIDE DEF V
  <2> QED
    BY <2>1, <2>4, <2>5, <2>6, <2>7, <2>8
<1> QED
  BY <1>2, <1>3 DEF ParsedInv

(* A read moves pieces from the way into the buffer.                       *)
LEMMA ReadParsed ==
  ASSUME HttpInv, ParsedInv, NEW n \in 1..BufSize, Read(n)
  PROVE  ParsedInv'
<1>1. /\ UNCHANGED <<sent, parser, answered>> /\ n \in 1..Len(stream)
      /\ readBuf' = SubSeq(stream, 1, n) \o SubSeq(readBuf, n + 1, Len(readBuf))
      /\ stream' = SubSeq(stream, n + 1, Len(stream))
      /\ arrived' = Append(arrived, n)
      /\ overlapped' = (overlapped \/ arrived # <<>>)
  BY DEF Read
<1>2. ASSUME ~overlapped'
      PROVE  /\ OneRead' /\ Matched(answered', sent')
             /\ \E W, st, P : /\ SentAs(sent', W, st) /\ P \in Nat /\ StillToCome(P, W)'
                              /\ Where(parser', Len(answered'), P, sent', W, st,
                                       LeftBy(answered', Len(answered') + 1))
  <2>1. ~overlapped /\ arrived = <<>>
    BY <1>1, <1>2
  <2>2. PICK W, st, P : /\ SentAs(sent, W, st) /\ P \in Nat /\ StillToCome(P, W)
                        /\ Where(parser, Len(answered), P, sent, W, st,
                                 LeftBy(answered, Len(answered) + 1))
    BY <2>1 DEF ParsedInv
  <2>3. readBuf = <<>> /\ Matched(answered, sent)
    <3>1. OneRead /\ Matched(answered, sent)
      BY <2>1 DEF ParsedInv
    <3>2. arrived # <<Len(readBuf)>>
      BY <2>1
    <3> QED
      BY <3>1, <3>2 DEF OneRead
  <2>4. stream \in Seq(PieceSet)
    BY DEF HttpInv, HttpTypes
  <2>5. PICK S \in Nat, m \in Nat : S = Len(stream) /\ n = m /\ m \in 1..S
    <3>1. PICK S \in Nat : S = Len(stream)
      BY <2>4, LenProperties
    <3>2. n \in 1..S
      BY <1>1, <3>1
    <3>3. n \in Nat
      BY <3>2
    <3> QED
      BY <3>1, <3>2, <3>3
  <2>6. PICK a \in Seq(PieceSet), b \in Seq(PieceSet) :
          /\ a = SubSeq(stream, 1, m) /\ Len(a) = m /\ b = SubSeq(stream, m + 1, S)
          /\ Len(b) = S - m /\ \A i \in 1..m : a[i] = stream[i]
          /\ \A i \in 1..(S - m) : b[i] = stream[m + i]
    <3>1. \A i \in 1..S : stream[i] \in PieceSet
      BY <2>4, <2>5, ElementOfSeq
    <3>2. /\ 1 \in Int /\ m \in Int /\ m + 1 \in Int /\ S \in Int /\ m <= S /\ 1 <= m
          /\ \A i \in 1..m : i \in 1..S
          /\ \A i \in (m + 1)..S : i \in 1..S
      BY <2>5
    <3>3. /\ SubSeq(stream, 1, m) \in Seq(PieceSet)
          /\ Len(SubSeq(stream, 1, m)) = IF 1 <= m THEN m - 1 + 1 ELSE 0
          /\ \A i \in 1..(m - 1 + 1) : SubSeq(stream, 1, m)[i] = stream[1 + i - 1]
      BY <3>1, <3>2, SubSeqProperties
    <3>4. /\ SubSeq(stream, m + 1, S) \in Seq(PieceSet)
          /\ Len(SubSeq(stream, m + 1, S)) = IF m + 1 <= S THEN S - (m + 1) + 1 ELSE 0
          /\ \A i \in 1..(S - (m + 1) + 1) : SubSeq(stream, m + 1, S)[i] = stream[m + 1 + i - 1]
      BY <3>1, <3>2, SubSeqProperties
    <3>5. /\ (IF 1 <= m THEN m - 1 + 1 ELSE 0) = m /\ (m - 1 + 1) = m
          /\ (IF m + 1 <= S THEN S - (m + 1) + 1 ELSE 0) = S - m /\ S - (m + 1) + 1 = S - m
          /\ \A i \in 1..m : 1 + i - 1 = i
          /\ \A i \in 1..(S - m) : m + 1 + i - 1 = m + i
      BY <2>5
    <3>6. PICK a, b : a = SubSeq(stream, 1, m) /\ b = SubSeq(stream, m + 1, S)
      OBVIOUS
    <3>7. a \in Seq(PieceSet) /\ Len(a) = m /\ \A i \in 1..m : a[i] = stream[i]
      BY <3>3, <3>5, <3>6
    <3>8. b \in Seq(PieceSet) /\ Len(b) = S - m /\ \A i \in 1..(S - m) : b[i] = stream[m + i]
      BY <3>4, <3>5, <3>6
    <3> QED
      BY <3>6, <3>7, <3>8
  <2>7. readBuf' = a /\ stream' = b
    <3>1. SubSeq(readBuf, n + 1, Len(readBuf)) = <<>>
      <4>1. Len(readBuf) = 0 /\ n + 1 \in Int /\ 0 \in Int /\ 0 < n + 1
        BY <2>3, <2>5
      <4> QED
        BY <4>1, SubSeqEmpty
    <3>2. a \o <<>> = a
      BY ConcatEmptySeq
    <3> QED
      BY <1>1, <2>5, <2>6, <3>1, <3>2
  <2>8. OneRead'
    <3>1. arrived' = <<m>>
      <4>1. Append(<<>>, m) = <<m>>
        OBVIOUS
      <4> QED
        BY <1>1, <2>1, <2>5, <4>1
    <3>2. Len(readBuf') = m
      BY <2>6, <2>7
    <3> QED
      BY <3>1, <3>2 DEF OneRead
  <2>9. StillToCome(P, W)'
    <3>1. PICK B : B = Len(W) /\ P + 0 + S = B /\ \A i \in 1..S : stream[i] = W[P + 0 + i]
      <4>1. Len(readBuf) = 0
        BY <2>3
      <4> QED
        BY <2>2, <2>5, <4>1 DEF StillToCome
    <3>2. P \in Nat
      BY <2>2
    <3>3. P + m + (S - m) = B
      <4>1. P + 0 + S = B
        BY <3>1
      <4> QED
        BY <3>2, <4>1
    <3>4. \A i \in 1..m : a[i] = W[P + i]
      <4>1. \A i \in 1..m : i \in 1..S /\ P + 0 + i = P + i
        BY <2>5, <3>2
      <4> QED
        BY <2>6, <3>1, <4>1
    <3>5. \A i \in 1..(S - m) : b[i] = W[P + m + i]
      <4>1. \A i \in 1..(S - m) : m + i \in 1..S /\ P + 0 + (m + i) = P + m + i
        BY <2>5, <3>2
      <4> QED
        BY <2>6, <3>1, <4>1
    <3> QED
      BY <2>6, <2>7, <3>1, <3>3, <3>4, <3>5 DEF StillToCome
  <2> QED
    BY <1>1, <2>2, <2>3, <2>8, <2>9
<1> QED
  BY <1>1, <1>2 DEF ParsedInv


(* Taking the requests out of the parser, or making it ready for the next  *)
(* one, leaves it where it is.                                             *)
LEMMA WhereKept ==
  ASSUME NEW c \in ParserSet, NEW T, NEW P, NEW q, NEW W, NEW st, NEW left,
         Where(c, T, P, q, W, st, left),
         NEW x, \/ x = Reset(c) /\ c.state = "Complete"
                \/ x = [c EXCEPT !.out = <<>>]
  PROVE  Where(x, T, P, q, W, st, left)
<1>1. CASE x = [c EXCEPT !.out = <<>>]
  <2>1. /\ x.lib = c.lib /\ x.state = c.state /\ x.data = c.data /\ x.request = c.request
        /\ x.iter = c.iter
    BY <1>1 DEF ParserSet
  <2>2. Fresh(c) => Fresh(x)
    BY <2>1 DEF Fresh
  <2>3. ASSUME NEW r, NEW j, Progress(c, r, j, left) PROVE Progress(x, r, j, left)
    BY <2>1, <2>2, <2>3 DEF Progress, InUrl, InField, InValue, InBody
  <2> QED
    BY <2>1, <2>2, <2>3 DEF Where
<1>2. CASE x = Reset(c) /\ c.state = "Complete"
  <2>1. x.lib = c.lib /\ x.state = "Start" /\ x.data = <<>> /\ x.request = c.request
    BY <1>2 DEF Reset, ParserSet
  <2>2. Fresh(x)
    BY <2>1 DEF Fresh
  <2>3. ASSUME NEW r, NEW j, Progress(c, r, j, left) PROVE Progress(x, r, j, left)
    <3>1. ~InUrl(c, r, j, left) /\ ~InField(c, r, j, left) /\ ~InValue(c, r, j, left) /\ ~InBody(c, r, j, left)
      BY <1>2 DEF InUrl, InField, InValue, InBody
    <3> QED
      BY <2>1, <2>2, <2>3, <3>1 DEF Progress
  <2> QED
    BY <2>1, <2>2, <2>3 DEF Where
<1> QED
  BY <1>1, <1>2

(* The handler of a read parses the buffer and answers its requests.       *)
LEMMA HandleReadParsed ==
  ASSUME HttpInv, ParsedInv, NEW taken \in 0..(2 * MaxRequests), HandleRead(taken)
  PROVE  ParsedInv'
<1>1. sent \in Seq(Requests) /\ sent' = sent /\ overlapped' = overlapped
  BY DEF ParsedInv, HandleRead
<1>2. ASSUME ~overlapped'
      PROVE  /\ OneRead' /\ Matched(answered', sent')
             /\ \E W, st, P : /\ SentAs(sent', W, st) /\ P \in Nat /\ StillToCome(P, W)'
                              /\ Where(parser', Len(answered'), P, sent', W, st,
                                       LeftBy(answered', Len(answered') + 1))
  <2>1. PICK W, st, P : /\ SentAs(sent, W, st) /\ P \in Nat /\ StillToCome(P, W)
                        /\ Where(parser, Len(answered), P, sent, W, st,
                                 LeftBy(answered, Len(answered) + 1))
    BY <1>1, <1>2 DEF ParsedInv
  <2>2. OneRead /\ Matched(answered, sent)
    BY <1>1, <1>2 DEF ParsedInv
  <2>3. /\ GoodParser(parser) /\ parser.out = <<>> /\ readBuf \in Seq(PieceSet)
        /\ stream \in Seq(PieceSet) /\ answered \in Seq(GotSet)
    BY DEF HttpInv, HttpTypes
  <2>4. W \in Seq(PieceSet)
    BY <2>1 DEF SentAs
  <2>5. PICK D \in Nat, S \in Nat, A \in Nat, N \in Nat, B \in Nat :
          /\ D = Len(readBuf) /\ S = Len(stream) /\ A = Len(answered) /\ N = Len(sent)
          /\ B = Len(W)
    BY <1>1, <2>3, <2>4, LenProperties
  <2>6. arrived = <<D>>
    BY <2>2, <2>5 DEF OneRead, HandleRead
  <2>7. Head(arrived) = D /\ Tail(arrived) = <<>>
    BY <2>6
  <2>8. SubSeq(readBuf, 1, D) = readBuf
    <3>1. CASE D = 0
      <4>1. readBuf = <<>>
        BY <2>3, <2>5, <3>1, EmptySeq
      <4>2. SubSeq(readBuf, 1, 0) = <<>>
        BY SubSeqEmpty
      <4> QED
        BY <3>1, <4>1, <4>2
    <3>2. CASE D # 0
      <4>1. 0 < D /\ 0 \in Nat
        BY <3>2
      <4>2. 0 < Len(readBuf)
        BY <2>5, <4>1
      <4> QED
        BY <2>3, <2>5, <4>1, <4>2, PrefixGrows
    <3> QED
      BY <3>1, <3>2
  <2>9. PICK c : c = Parse(parser, readBuf) /\ GoodParser(c)
    BY <2>3, ParseGood
  <2>10. /\ arrived' = <<>> /\ readBuf' = <<>> /\ stream' = stream /\ answered' = answered \o c.out
         /\ parser' = IF c.lib # "error" /\ c.state = "Complete" THEN Reset(c)
                      ELSE [c EXCEPT !.out = <<>>]
    <3>1. c = Parse(parser, SubSeq(readBuf, 1, Head(arrived)))
      BY <2>7, <2>8, <2>9
    <3> QED
      BY <2>7, <3>1 DEF HandleRead
  <2>11. c \in ParserSet /\ c.out \in Seq(GotSet)
    BY <2>9 DEF GoodParser, ParserSet
  <2>12. PICK o \in Nat : o = Len(c.out)
    BY <2>11, LenProperties
  <2>13. /\ P \in Nat /\ P + D + S = B /\ \A i \in 1..D : readBuf[i] = W[P + i]
         /\ \A i \in 1..S : stream[i] = W[P + D + i]
    BY <2>1, <2>5 DEF StillToCome
  <2>14. A <= N /\ \A i \in 1..A : SameRequest(answered[i], sent[i], LeftBy(answered, i))
    BY <2>2, <2>5 DEF Matched
  <2>a. PICK left : left = LeftBy(answered, A + 1)
    OBVIOUS
  <2>15. /\ A + o <= N /\ \A i \in 1..o : SameRequest(c.out[i], sent[A + i], Left(c.out, i, left))
         /\ Where(c, A + o, P + D, sent, W, st, Left(c.out, o + 1, left))
    <3>1. A \in 0..N /\ P + D <= B
      BY <2>13, <2>14
    <3>2. A \in 0..Len(sent) /\ P + Len(readBuf) <= Len(W)
          /\ \A i \in 1..Len(readBuf) : readBuf[i] = W[P + i]
      BY <2>5, <2>13, <3>1
    <3>3. Where(parser, A, P, sent, W, st, left) /\ SentAs(sent, W, st) /\ P \in Nat
      BY <2>1, <2>5, <2>a
    <3>4. /\ A + Len(c.out) <= Len(sent)
          /\ \A i \in 1..Len(c.out) : SameRequest(c.out[i], sent[A + i], Left(c.out, i, left))
          /\ Where(c, A + Len(c.out), P + Len(readBuf), sent, W, st, Left(c.out, Len(c.out) + 1, left))
      BY <1>1, <2>3, <2>9, <3>2, <3>3, ParseRead
    <3> QED
      BY <2>5, <2>12, <3>4
  <2>16. /\ Len(answered') = A + o /\ \A i \in 1..A : answered'[i] = answered[i]
         /\ \A i \in 1..o : answered'[A + i] = c.out[i]
    <3>1. /\ Len(answered \o c.out) = Len(answered) + Len(c.out)
          /\ \A x \in 1..Len(answered) : (answered \o c.out)[x] = answered[x]
          /\ \A x \in 1..Len(c.out) : (answered \o c.out)[Len(answered) + x] = c.out[x]
      BY <2>3, <2>11, ConcatIs
    <3> QED
      BY <2>5, <2>10, <2>12, <3>1
  <2>b. /\ \A i \in 1..A : LeftBy(answered', i) = LeftBy(answered, i)
        /\ \A x \in 1..(o + 1) : LeftBy(answered', A + x) = Left(c.out, x, left)
    <3>1. ASSUME NEW i \in 1..(A + 1) PROVE LeftBy(answered', i) = LeftBy(answered, i)
      <4>1. i # 1 => i - 1 \in 1..A
        OBVIOUS
      <4> QED
        BY <2>16, <4>1 DEF LeftBy
    <3>2. ASSUME NEW x \in 1..(o + 1), x # 1 PROVE LeftBy(answered', A + x) = Left(c.out, x, left)
      <4>1. x - 1 \in 1..o /\ A + x # 1 /\ (A + x) - 1 = A + (x - 1)
        BY <3>2
      <4>2. answered'[A + (x - 1)] = c.out[x - 1]
        BY <2>16, <4>1
      <4> QED
        BY <3>2, <4>1, <4>2 DEF LeftBy, Left
    <3>3. LeftBy(answered', A + 1) = Left(c.out, 1, left)
      <4>1. A + 1 \in 1..(A + 1)
        OBVIOUS
      <4> QED
        BY <2>a, <3>1, <4>1 DEF Left
    <3>4. \A i \in 1..A : i \in 1..(A + 1)
      OBVIOUS
    <3> QED
      BY <3>1, <3>2, <3>3, <3>4
  <2>17. Matched(answered', sent')
    <3>1. ASSUME NEW i \in 1..(A + o) PROVE SameRequest(answered'[i], sent[i], LeftBy(answered', i))
      <4>1. CASE i \in 1..A
        BY <2>14, <2>16, <2>b, <4>1
      <4>2. CASE i \notin 1..A
        <5>1. PICK x \in 1..o : i = A + x
          <6>1. i - A \in 1..o /\ i = A + (i - A)
            BY <4>2
          <6> QED
            BY <6>1
        <5>2. x \in 1..(o + 1)
          BY <5>1
        <5> QED
          BY <2>15, <2>16, <2>b, <5>1, <5>2
      <4> QED
        BY <4>1, <4>2
    <3> QED
      BY <1>1, <2>5, <2>15, <2>16, <3>1 DEF Matched
  <2>18. Where(parser', Len(answered'), P + D, sent', W, st, LeftBy(answered', Len(answered') + 1))
    <3>1. Where(parser', A + o, P + D, sent, W, st, Left(c.out, o + 1, left))
      <4>1. (parser' = Reset(c) /\ c.state = "Complete") \/ parser' = [c EXCEPT !.out = <<>>]
        BY <2>10
      <4> QED
        BY <2>11, <2>15, <4>1, WhereKept
    <3>2. (A + o) + 1 = A + (o + 1) /\ o + 1 \in 1..(o + 1)
      OBVIOUS
    <3>3. LeftBy(answered', (A + o) + 1) = Left(c.out, o + 1, left)
      BY <2>b, <3>2
    <3> QED
      BY <1>1, <2>16, <3>1, <3>3
  <2>19. OneRead'
    BY <2>10 DEF OneRead
  <2>20. StillToCome(P + D, W)' /\ P + D \in Nat
    <3>1. Len(readBuf') = 0 /\ Len(stream') = S /\ stream' = stream
      BY <2>5, <2>10
    <3>2. (P + D) + 0 + S = B /\ P + D \in Nat /\ (\A i \in 1..0 : FALSE)
          /\ \A i \in 1..S : (P + D) + 0 + i = P + D + i
      BY <2>13
    <3>3. \A i \in 1..S : stream[i] = W[(P + D) + 0 + i]
      BY <2>13, <3>2
    <3> QED
      BY <2>5, <3>1, <3>2, <3>3 DEF StillToCome
  <2> QED
    BY <1>1, <2>1, <2>17, <2>18, <2>19, <2>20
<1> QED
  BY <1>1, <1>2 DEF ParsedInv

(* The other actions leave alone what is parsed.                           *)
LEMMA OthersParsed ==
  ASSUME ParsedInv,
         UNCHANGED <<sent, stream, readBuf, arrived, parser, answered, overlapped>>
  PROVE  ParsedInv'
<1>1. OneRead' = OneRead
  BY DEF OneRead
<1>2. \A P, W : StillToCome(P, W)' = StillToCome(P, W)
  BY DEF StillToCome
<1> QED
  BY <1>1, <1>2 DEF ParsedInv

(* Every step keeps the invariant.                                         *)
LEMMA ParsedNext ==
  ASSUME HttpInv, ParsedInv, [HttpNext]_httpVars
  PROVE  ParsedInv'
<1>1. CASE \E r \in Requests : PeerSend(r)
  BY <1>1, PeerSendParsed
<1>2. CASE \E n \in 1..BufSize : Read(n)
  BY <1>2, ReadParsed
<1>3. CASE \E taken \in 0..(2 * MaxRequests) : HandleRead(taken)
  BY <1>3, HandleReadParsed
<1>4. CASE PeerClose \/ ReadError \/ WriteError \/ Write \/ WriteDone \/ UNCHANGED httpVars
  <2>1. UNCHANGED <<sent, stream, readBuf, arrived, parser, answered, overlapped>>
    BY <1>4 DEF PeerClose, ReadError, WriteError, Write, WriteDone, httpVars
  <2> QED
    BY <2>1, OthersParsed
<1> QED
  BY <1>1, <1>2, <1>3, <1>4 DEF HttpNext, HttpStep

(* The invariant implies what the runs check.                              *)
LEMMA MatchedIsParsed ==
  ASSUME HttpInv, ParsedInv PROVE ParsedAsSent
<1> SUFFICES ASSUME ~overlapped
             PROVE  /\ Len(answered) <= Len(sent)
                    /\ \A i \in DOMAIN answered :
                         LET got == answered[i] want == sent[i]
                         IN /\ got.url = want.url
                            /\ got.method = Guess(want.method)
                            /\ SentOrLeft(got.header, want.header, LeftBy(answered, i))
                            /\ want.version \in Versions => got.version = want.version
  BY DEF ParsedAsSent
<1>1. Matched(answered, sent) /\ sent \in Seq(Requests)
  BY DEF ParsedInv
<1>2. answered \in Seq(GotSet)
  BY DEF HttpInv, HttpTypes
<1>3. PICK A \in Nat, N \in Nat : A = Len(answered) /\ N = Len(sent) /\ DOMAIN answered = 1..A
  BY <1>1, <1>2, LenProperties
<1>4. A <= N
  BY <1>1, <1>3 DEF Matched
<1>5. ASSUME NEW i \in 1..A, NEW got, NEW want, got = answered[i], want = sent[i]
      PROVE  /\ got.url = want.url
             /\ got.method = Guess(want.method)
             /\ SentOrLeft(got.header, want.header, LeftBy(answered, i))
             /\ want.version \in Versions => got.version = want.version
  <2>0. PICK left : left = LeftBy(answered, i)
    OBVIOUS
  <2>1. SameRequest(got, want, left)
    BY <1>1, <1>3, <1>5, <2>0 DEF Matched
  <2>2. want \in Requests
    <3>1. i \in 1..N
      BY <1>4
    <3> QED
      BY <1>1, <1>3, <1>5, <3>1, ElementOfSeq
  <2>3. PICK H \in Nat : H = Len(want.header) /\ DOMAIN want.header = 1..H
    BY <2>2, RequestIs, LenProperties
  <2>4. Stored(got.header, want, H, left) /\ Names(want.header) = Named(want, H)
    BY <2>1, <2>3 DEF SameRequest, Names, Named
  <2>5. ASSUME NEW n \in 1..H, LastOfName(want.header, n)
        PROVE  got.header[want.header[n].field] = want.header[n].value
    <3>1. \A l \in (n + 1)..H : l \in 1..H /\ l > n
      OBVIOUS
    <3>2. \A l \in (n + 1)..H : want.header[l].field # want.header[n].field
      BY <2>3, <2>5, <3>1 DEF LastOfName
    <3> QED
      BY <2>4, <3>2 DEF Stored, Holds
  <2>6. SentOrLeft(got.header, want.header, left)
    BY <2>3, <2>4, <2>5 DEF SentOrLeft, Stored, Holds
  <2> QED
    BY <2>0, <2>1, <2>6 DEF SameRequest
<1> QED
  BY <1>3, <1>4, <1>5

(* Wherever the reads cut the bytes of the peer, also within the name of a *)
(* field, HttpParser hands Connection the requests as they were sent and   *)
(* in their order (http_parser.cpp:131-227), each with exactly its own     *)
(* header fields and those it did not name as the request before left them *)
(* (connection.h:113-124), for any requests and any size of the buffer.    *)
THEOREM RequestsAreParsedAsSent == HttpSpec => []ParsedAsSent
<1>1. HttpInit => HttpInv /\ ParsedInv
  BY HttpInitInv, ParsedInit
<1>2. HttpInv /\ ParsedInv /\ [HttpNext]_httpVars => (HttpInv /\ ParsedInv)'
  BY HttpNextInv, ParsedNext
<1>3. HttpInv /\ ParsedInv => ParsedAsSent
  BY MatchedIsParsed
<1> QED
  BY <1>1, <1>2, <1>3, PTL DEF HttpSpec
=============================================================================
