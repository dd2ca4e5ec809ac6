---------------------------- MODULE Broker_proofs ----------------------------
(***************************************************************************)
(* Proofs about Broker, for any number of connections and clients.         *)
(***************************************************************************)
EXTENDS Broker, TLAPS

(* What the processors and the session table know of each other: a held    *)
(* session is one the connection asked for and was given; a processor that *)
(* has seen no CONNECT has none; a destructor only runs after the read     *)
(* loop; a session has a handler; a PUBLISH being sent has a session.      *)
Bookkeeping ==
  /\ \A c \in Conns :
       /\ current[c] # None =>
            /\ current[c] \in sessions
            /\ c \in granted
            /\ current[c] = ClientOf[c]
       /\ status[c] = "None" => current[c] = None
       /\ link[c] # "closed" => dtor[c] = "no"
       /\ link[c] \in {"subscribing", "publishing", "locking", "sending"}
            => status[c] = "Connected"
       /\ link[c] \in {"locking", "sending"} => serving[c] # None
       /\ link[c] = "locking" => block[c] # None
  /\ \A k \in sessions : handler[k] # None

IInv ==
  /\ TypeOK
  /\ Bookkeeping
  /\ SessionOwned
  /\ ConnectedHasSession
  /\ PublishToOwner

(* The invariant holds at the start.                                       *)
LEMMA InitInv == Init => IInv
<1> SUFFICES ASSUME Init PROVE IInv
  OBVIOUS
<1> USE BrokerAssumption DEF BrokerAssumption, Init
<1>1. TypeOK
  BY DEF TypeOK, Link
<1>2. Bookkeeping
  BY DEF Bookkeeping
<1>3. SessionOwned
  BY DEF SessionOwned, Holds
<1>4. ConnectedHasSession
  BY DEF ConnectedHasSession
<1>5. PublishToOwner
  BY DEF PublishToOwner
<1> QED
  BY <1>1, <1>2, <1>3, <1>4, <1>5 DEF IInv

(* Only a connection without a status accepts CONNECT, and only a connected *)
(* one anything else.                                                      *)
LEMMA Admission ==
  ASSUME TypeOK, NEW c \in Conns, NEW type \in PacketType, Admitted(c, type)
  PROVE  status[c] = IF type = "Connect" THEN "None" ELSE "Connected"
BY DEF TypeOK, Admitted

(* Queueing a packet keeps the type of the send side.                      *)
LEMMA QueuedType ==
  ASSUME TypeOK, NEW c \in Conns, Queued(c)
  PROVE  out' \in [Conns -> {"idle", "sending", "stuck"}]
BY DEF TypeOK, Queued

LEMMA CrashInv ==
  ASSUME IInv, NEW p \in Pointer, Crash(p)
  PROVE  IInv'
BY DEF Crash, IInv, TypeOK, Bookkeeping, SessionOwned, Holds, ConnectedHasSession, PublishToOwner, readVars, sessionVars, subVars, pubVars, history

LEMMA ConnectInv ==
  ASSUME IInv, NEW c \in Conns, Connect(c)
  PROVE  IInv'
<1> DEFINE k == ClientOf[c]
<1> k \in ClientIds /\ k # None
  BY BrokerAssumption DEF BrokerAssumption
<1>a. status[c] = "None" /\ link[c] = "reading"
  BY Admission DEF IInv, Connect, Receives, PacketType
<1>b. out' \in [Conns -> {"idle", "sending", "stuck"}]
  BY QueuedType DEF IInv, Connect
<1>c. current[c] = None /\ dtor[c] = "no"
  BY <1>a DEF IInv, Bookkeeping
<1> HIDE DEF k
<1> USE DEF IInv, TypeOK
<1>1. CASE GetSession(c, k)
  <2> USE <1>1 DEF Connect, GetSession, subVars, pubVars
  <2>1. TypeOK'
    BY <1>b
  <2>2. Bookkeeping'
    BY <1>a, <1>c, BrokerAssumption DEF BrokerAssumption, Bookkeeping, k
  <2>3. SessionOwned'
    BY <1>a, <1>c, BrokerAssumption DEF BrokerAssumption, SessionOwned, Holds
  <2>4. ConnectedHasSession'
    BY <1>a, <1>c DEF ConnectedHasSession
  <2>5. PublishToOwner'
    BY DEF PublishToOwner
  <2> QED
    BY <2>1, <2>2, <2>3, <2>4, <2>5
<1>2. CASE SessionInUse(c, k)
  <2> USE <1>2 DEF Connect, SessionInUse, sessionVars, subVars, pubVars
  <2>1. TypeOK'
    BY <1>b DEF Link
  <2>2. Bookkeeping'
    BY <1>a, <1>c DEF Bookkeeping
  <2>3. SessionOwned'
    BY <1>a, <1>c DEF SessionOwned, Holds
  <2>4. ConnectedHasSession'
    BY DEF ConnectedHasSession
  <2>5. PublishToOwner'
    BY DEF PublishToOwner
  <2> QED
    BY <2>1, <2>2, <2>3, <2>4, <2>5
<1> QED
  BY <1>1, <1>2 DEF Connect, k

LEMMA SubscribeInv ==
  ASSUME IInv, NEW c \in Conns, NEW F \in SUBSET Filters, Subscribe(c, F)
  PROVE  IInv'
<1>1. status[c] = "Connected" /\ link[c] = "reading"
  BY Admission DEF IInv, Subscribe, Receives, PacketType
<1>2. CASE Crash("session")
  BY <1>2, CrashInv DEF Pointer
<1>3. CASE ~Crash("session")
  <2> USE <1>3 DEF IInv, TypeOK, Subscribe, sessionVars, pubVars, history
  <2>1. PICK res \in SUBSET F :
          /\ adding' = [adding EXCEPT ![c] = res]
          /\ subs' = [subs EXCEPT ![current[c]] = @ \cup res]
    OBVIOUS
  <2>2. current[c] # None
    OBVIOUS
  <2>3. TypeOK'
    BY <2>1, <2>2 DEF Link
  <2>4. Bookkeeping'
    BY <1>1 DEF Bookkeeping
  <2>5. SessionOwned'
    BY <1>1 DEF SessionOwned, Holds
  <2>6. ConnectedHasSession'
    BY <1>1 DEF ConnectedHasSession
  <2>7. PublishToOwner'
    BY DEF PublishToOwner
  <2> QED
    BY <2>3, <2>4, <2>5, <2>6, <2>7
<1> QED
  BY <1>2, <1>3

LEMMA PublishInv ==
  ASSUME IInv, NEW c \in Conns, NEW t \in Topics, Publish(c, t)
  PROVE  IInv'
<1>1. status[c] = "Connected" /\ link[c] = "reading"
  BY Admission DEF IInv, Publish, Receives, PacketType
<1> DEFINE matched == {e[2] : e \in {x \in tree : <<x[1], t>> \in Matches}}
<1>2. CASE None \in matched
  BY <1>2, CrashInv DEF Publish, Pointer
<1>3. CASE None \notin matched
  <2>1. matched \in SUBSET ClientIds
    BY <1>3 DEF IInv, TypeOK
  <2>2. /\ todo' = [todo EXCEPT ![c] = matched]
        /\ link' = [link EXCEPT ![c] = "publishing"]
        /\ UNCHANGED <<status, current, out, dtor, sessionVars, subVars,
                       serving, block, hold, crashed, history>>
    BY <1>3 DEF Publish
  <2> HIDE DEF matched
  <2> USE <2>2 DEF IInv, TypeOK, sessionVars, subVars, history
  <2>3. TypeOK'
    BY <2>1 DEF Link
  <2>4. Bookkeeping'
    BY <1>1 DEF Bookkeeping
  <2>5. SessionOwned'
    BY <1>1 DEF SessionOwned, Holds
  <2>6. ConnectedHasSession'
    BY <1>1 DEF ConnectedHasSession
  <2>7. PublishToOwner'
    BY DEF PublishToOwner
  <2> QED
    BY <2>3, <2>4, <2>5, <2>6, <2>7
<1> QED
  BY <1>2, <1>3

LEMMA AddSubscriptionsInv ==
  ASSUME IInv, NEW c \in Conns, AddSubscriptions(c)
  PROVE  IInv'
<1>1. CASE Crash("handler")
  BY <1>1, CrashInv DEF Pointer
<1>2. CASE ~Crash("handler")
  <2> DEFINE h == handler[current[c]]
  <2>1. h \in Conns /\ link[c] = "subscribing"
    BY DEF AddSubscriptions, IInv, TypeOK, Bookkeeping, ConnectedHasSession
  <2>2. PICK s \in ClientIds \cup {None} :
          /\ tree' = tree \cup (adding[c] \X {s})
          /\ adding' = [adding EXCEPT ![c] = {}]
          /\ link' = [link EXCEPT ![c] = "reading"]
          /\ Queued(c)
          /\ UNCHANGED <<status, current, dtor, sessionVars, subs, pubVars,
                         history>>
    <3>1. current[h] \in ClientIds \cup {None}
      BY <2>1 DEF IInv, TypeOK
    <3>2. CASE dtor[h] = "freed"
      BY <1>2, <3>2 DEF AddSubscriptions, CrashOr
    <3>3. CASE dtor[h] # "freed"
      BY <3>1, <3>3 DEF AddSubscriptions
    <3> QED
      BY <3>2, <3>3
  <2>3. out' \in [Conns -> {"idle", "sending", "stuck"}]
    BY <2>2, QueuedType DEF IInv
  <2>4. crashed' = crashed
    BY <1>2 DEF AddSubscriptions, CrashOr
  <2> HIDE DEF h
  <2> USE <2>1, <2>2 DEF IInv, TypeOK, sessionVars, pubVars, history
  <2>5. TypeOK'
    <3>1. tree' \subseteq Filters \X (ClientIds \cup {None})
      OBVIOUS
    <3> QED
      BY <2>3, <2>4, <3>1 DEF Link
  <2>6. Bookkeeping'
    BY DEF Bookkeeping
  <2>7. SessionOwned'
    BY DEF SessionOwned, Holds
  <2>8. ConnectedHasSession'
    BY DEF ConnectedHasSession
  <2>9. PublishToOwner'
    BY DEF PublishToOwner
  <2> QED
    BY <2>5, <2>6, <2>7, <2>8, <2>9
<1> QED
  BY <1>1, <1>2

LEMMA SendPublishInv ==
  ASSUME IInv, NEW c \in Conns, SendPublish(c)
  PROVE  IInv'
<1>1. CASE Crash("object")
  BY <1>1, CrashInv DEF Pointer
<1>2. CASE ~Crash("object")
  <2> DEFINE k == serving[c]
             target == sender[k]
  <2>1. k \in ClientIds /\ link[c] = "sending" /\ target \in Conns \cup {None}
    BY DEF SendPublish, IInv, TypeOK, Bookkeeping
  <2>2. /\ hold' = [hold EXCEPT ![c] = None]
        /\ serving' = [serving EXCEPT ![c] = None]
        /\ link' = [link EXCEPT ![c] = IF todo[c] = {} THEN "reading"
                                                       ELSE "publishing"]
        /\ UNCHANGED <<status, current, dtor, sessionVars, subVars, todo,
                       block, granted, crashed>>
    BY <1>2 DEF SendPublish, CrashOr
  <2>3. \/ UNCHANGED <<out, received>>
        \/ /\ target \in Conns
           /\ Queued(target)
           /\ received' = [received EXCEPT ![target] = @ \cup {k}]
    BY <1>2, <2>1 DEF SendPublish, CrashOr
  <2>4. out' \in [Conns -> {"idle", "sending", "stuck"}]
    BY <2>3, QueuedType DEF IInv, TypeOK
  <2>5. target \in Conns => target \in granted /\ ClientOf[target] = k
    BY <2>1, BrokerAssumption
       DEF BrokerAssumption, IInv, SessionOwned, Holds, Bookkeeping
  <2> HIDE DEF k, target
  <2> USE <2>1, <2>2 DEF IInv, TypeOK, sessionVars, subVars
  <2>6. TypeOK'
    <3>1. received' \in [Conns -> SUBSET ClientIds]
      BY <2>3
    <3> QED
      BY <2>4, <3>1 DEF Link
  <2>7. Bookkeeping'
    BY DEF Bookkeeping
  <2>8. SessionOwned'
    BY DEF SessionOwned, Holds
  <2>9. ConnectedHasSession'
    BY DEF ConnectedHasSession
  <2>10. PublishToOwner'
    BY <2>3, <2>5 DEF PublishToOwner
  <2> QED
    BY <2>6, <2>7, <2>8, <2>9, <2>10
<1> QED
  BY <1>1, <1>2

LEMMA DisconnectInv ==
  ASSUME IInv, NEW c \in Conns, Disconnect(c)
  PROVE  IInv'
<1> USE DEF IInv, TypeOK, Disconnect, Receives, Admitted, returnSession,
            sessionVars, subVars, pubVars, history
<1>1. TypeOK'
  BY DEF Link
<1>2. Bookkeeping'
  BY BrokerAssumption DEF BrokerAssumption, Bookkeeping
<1>3. SessionOwned'
  BY BrokerAssumption DEF BrokerAssumption, Bookkeeping, SessionOwned, Holds
<1>4. ConnectedHasSession'
  BY DEF Bookkeeping, ConnectedHasSession
<1>5. PublishToOwner'
  BY DEF PublishToOwner
<1> QED
  BY <1>1, <1>2, <1>3, <1>4, <1>5

LEMMA ReadSenderInv ==
  ASSUME IInv, NEW c \in Conns, NEW k \in ClientIds, ReadSender(c, k)
  PROVE  IInv'
<1> USE DEF IInv, TypeOK, ReadSender,
            sessionVars, subVars, pubVars, history
<1>1. TypeOK'
  BY DEF Link
<1>2. Bookkeeping'
  BY BrokerAssumption DEF BrokerAssumption, Bookkeeping
<1>3. SessionOwned'
  BY BrokerAssumption DEF BrokerAssumption, Bookkeeping, SessionOwned, Holds
<1>4. ConnectedHasSession'
  BY DEF Bookkeeping, ConnectedHasSession
<1>5. PublishToOwner'
  BY DEF PublishToOwner
<1> QED
  BY <1>1, <1>2, <1>3, <1>4, <1>5

(* What lock() does to the state if the process survives: it gives up, or   *)
(* has locked a block, the loaded one unless that was freed.                *)
LockOutcome(c) ==
  /\ link[c] = "locking"
  /\ block' = [block EXCEPT ![c] = None]
  /\ UNCHANGED <<status, current, out, dtor, sessions, inUse, sender, handler,
                 subs, adding, tree, todo, crashed, granted, received>>
  /\ \/ /\ link' = [link EXCEPT ![c] = IF todo[c] = {} THEN "reading"
                                                       ELSE "publishing"]
        /\ serving' = [serving EXCEPT ![c] = None]
        /\ UNCHANGED hold
     \/ /\ link' = [link EXCEPT ![c] = "sending"]
        /\ \E e \in Conns :
             /\ hold' = [hold EXCEPT ![c] = e]
             /\ BlockFreed(block[c]) \/ e = block[c]
        /\ UNCHANGED serving

LEMMA LockSenderOutcome ==
  ASSUME IInv, NEW c \in Conns, LockSender(c)
  PROVE  LockOutcome(c) \/ (Crash("block") /\ BlockFreed(block[c]))
<1>1. block[c] \in Conns /\ link[c] = "locking"
  BY DEF LockSender, IInv, TypeOK, Bookkeeping
<1> USE <1>1 DEF LockSender, LockOutcome, CrashOr, sessionVars, subVars, history
<1>2. CASE BlockFreed(block[c])
  BY <1>2
<1>3. CASE ~BlockFreed(block[c])
  BY <1>3
<1> QED
  BY <1>2, <1>3

LEMMA LockSenderInv ==
  ASSUME IInv, NEW c \in Conns, LockSender(c)
  PROVE  IInv'
<1>1. CASE Crash("block")
  BY <1>1, CrashInv DEF Pointer
<1>2. CASE LockOutcome(c)
  <2> USE <1>2 DEF IInv, TypeOK, LockOutcome
  <2>1. TypeOK'
    BY DEF Link
  <2>2. Bookkeeping'
    BY DEF Bookkeeping
  <2>3. SessionOwned'
    BY DEF SessionOwned, Holds
  <2>4. ConnectedHasSession'
    BY DEF ConnectedHasSession
  <2>5. PublishToOwner'
    BY DEF PublishToOwner
  <2> QED
    BY <2>1, <2>2, <2>3, <2>4, <2>5
<1> QED
  BY <1>1, <1>2, LockSenderOutcome

LEMMA DestroyInv ==
  ASSUME IInv, NEW c \in Conns, Destroy(c)
  PROVE  IInv'
<1> USE DEF IInv, TypeOK, Destroy, returnSession, readVars,
            sessionVars, subVars, pubVars, history
<1>1. TypeOK'
  BY DEF Link
<1>2. Bookkeeping'
  BY BrokerAssumption DEF BrokerAssumption, Bookkeeping
<1>3. SessionOwned'
  BY BrokerAssumption DEF BrokerAssumption, Bookkeeping, SessionOwned, Holds
<1>4. ConnectedHasSession'
  BY DEF Bookkeeping, ConnectedHasSession
<1>5. PublishToOwner'
  BY DEF PublishToOwner
<1> QED
  BY <1>1, <1>2, <1>3, <1>4, <1>5

(* Steps that only move a read loop, a write or a finished destructor. *)
LEMMA LocalInv ==
  ASSUME IInv, NEW c \in Conns,
         \/ Start(c) \/ Drop(c) \/ Pingreq(c)
         \/ ResetSession(c) \/ WriteDone(c) \/ Free(c)
  PROVE  IInv'
<1> USE DEF IInv, TypeOK, Link, Bookkeeping, SessionOwned, Holds,
            ConnectedHasSession, PublishToOwner, readVars, sessionVars,
            subVars, pubVars, history
<1>1. CASE Start(c)
  BY <1>1 DEF Start
<1>2. CASE Drop(c)
  BY <1>2 DEF Drop
<1>3. CASE Pingreq(c)
  BY <1>3 DEF Pingreq, Queued
<1>4. CASE ResetSession(c)
  BY <1>4, BrokerAssumption DEF BrokerAssumption, ResetSession
<1>5. CASE WriteDone(c)
  BY <1>5 DEF WriteDone
<1>6. CASE Free(c)
  BY <1>6, BrokerAssumption DEF BrokerAssumption, Free
<1> QED
  BY <1>1, <1>2, <1>3, <1>4, <1>5, <1>6

(* Every step keeps the invariant.                                         *)
LEMMA NextInv == IInv /\ [Next]_vars => IInv'
<1> SUFFICES ASSUME IInv, [Next]_vars PROVE IInv'
  OBVIOUS
<1>1. CASE UNCHANGED vars
  BY <1>1 DEF IInv, TypeOK, Bookkeeping, SessionOwned, Holds,
     ConnectedHasSession, PublishToOwner, vars, readVars, sessionVars,
     subVars, pubVars, history
<1>2. CASE Next
  BY <1>2, ConnectInv, SubscribeInv, PublishInv, AddSubscriptionsInv,
     ReadSenderInv, LockSenderInv, SendPublishInv, DisconnectInv, DestroyInv, LocalInv
     DEF Next, Proceed
<1> QED
  BY <1>1, <1>2

(* Every variable keeps its type, whatever the connections do. *)
THEOREM TypeCorrect == Spec => []TypeOK
<1>1. IInv => TypeOK
  BY DEF IInv
<1> QED
  BY InitInv, NextInv, <1>1, PTL DEF Spec

(* SessionManager keeps a session in use exactly while one processor holds  *)
(* it, for any number of connections and clients: getSession, returnSession *)
(* from DISCONNECT and returnSession from ~Processor never disturb the      *)
(* session of another connection.                                           *)
THEOREM SessionIsOwned == Spec => []SessionOwned
<1>1. IInv => SessionOwned
  BY DEF IInv
<1> QED
  BY InitInv, NextInv, <1>1, PTL DEF Spec

(* handle_read never passes SUBSCRIBE to a processor that is connected but  *)
(* was refused its session.                                                 *)
THEOREM ConnectedSession == Spec => []ConnectedHasSession
<1>1. IInv => ConnectedHasSession
  BY DEF IInv
<1> QED
  BY InitInv, NextInv, <1>1, PTL DEF Spec

(* A PUBLISH for a session reaches only connections this session was given  *)
(* to, although currentSender() reads _sender without a lock.               *)
THEOREM PublishOwner == Spec => []PublishToOwner
<1>1. IInv => PublishToOwner
  BY DEF IInv
<1> QED
  BY InitInv, NextInv, <1>1, PTL DEF Spec

-----------------------------------------------------------------------------
(* Clients that do not return: no two connections name the same client.    *)
OneConnectionPerClient ==
  \A c, d \in Conns : ClientOf[c] = ClientOf[d] => c = d

(* A session is known to the processor of its one connection only: that     *)
(* processor is its handler, the tree has no null session, what a           *)
(* subscriber is passing on is in nobody else's hands, and a publisher has  *)
(* loaded the control block of the connection of the session it serves.  It *)
(* holds this connection, or whatever it found in its place when that one   *)
(* was destroyed.                                                           *)
OnceKnown ==
  /\ \A k \in sessions : handler[k] \in Conns /\ ClientOf[handler[k]] = k
  /\ \A e \in tree : e[2] # None
  /\ \A c \in Conns :
       /\ adding[c] # {} => link[c] = "subscribing"
       /\ link[c] = "locking" => ClientOf[block[c]] = serving[c]
       /\ link[c] = "sending" =>
            \/ hold[c] \in Conns /\ ClientOf[hold[c]] = serving[c]
            \/ \E d \in Conns : ClientOf[d] = serving[c] /\ dtor[d] = "freed"

OnceInv == IInv /\ CrashOnlyInLock /\ SubscribedInTree /\ OnceKnown

(* The invariant holds at the start.                                       *)
LEMMA OnceInit == Init => OnceInv
<1> SUFFICES ASSUME Init PROVE OnceInv
  OBVIOUS
<1>1. IInv
  BY InitInv
<1>2. CrashOnlyInLock /\ SubscribedInTree
  BY DEF Init, CrashOnlyInLock, SubscribedInTree
<1>3. OnceKnown
  BY DEF Init, OnceKnown
<1> QED
  BY <1>1, <1>2, <1>3 DEF OnceInv

(* The session of a connection has the processor of this connection as its  *)
(* handler, so addSubscriptions puts the calling session into the tree.     *)
LEMMA HandlerIsOwn ==
  ASSUME OneConnectionPerClient, OnceInv, NEW c \in Conns, current[c] # None
  PROVE  handler[current[c]] = c
<1>1. current[c] \in sessions /\ current[c] = ClientOf[c]
  BY DEF OnceInv, IInv, Bookkeeping
<1> QED
  BY <1>1 DEF OnceInv, OnceKnown, OneConnectionPerClient

(* Tree and subscriptions unchanged, and no session forgotten that is still *)
(* passing filters on.                                                      *)
LEMMA SubscribedKept ==
  ASSUME SubscribedInTree, UNCHANGED <<subs, adding, tree>>,
         \A d \in Conns : adding[d] # {} => current'[d] = current[d]
  PROVE  SubscribedInTree'
<1> SUFFICES ASSUME NEW k \in ClientIds, NEW f \in subs[k], <<f, k>> \notin tree
             PROVE  \E d \in Conns : current'[d] = k /\ f \in adding[d]
  BY DEF SubscribedInTree
<1>1. PICK d \in Conns : current[d] = k /\ f \in adding[d]
  BY DEF SubscribedInTree
<1> QED
  BY <1>1

LEMMA SubscribeOnce ==
  ASSUME OnceInv, NEW c \in Conns, NEW F \in SUBSET Filters, Subscribe(c, F)
  PROVE  crashed' = "no" /\ SubscribedInTree' /\ OnceKnown'
<1>1. status[c] = "Connected" /\ link[c] = "reading"
  BY Admission DEF OnceInv, IInv, Subscribe, Receives, PacketType
<1>2. current[c] \in ClientIds /\ current[c] # None
  BY <1>1 DEF OnceInv, IInv, TypeOK, ConnectedHasSession
<1>3. PICK res \in SUBSET F :
        /\ adding' = [adding EXCEPT ![c] = res]
        /\ subs' = [subs EXCEPT ![current[c]] = @ \cup res]
  BY <1>2 DEF Subscribe
<1>4. /\ link' = [link EXCEPT ![c] = "subscribing"]
      /\ UNCHANGED <<status, current, out, dtor, sessions, handler, tree,
                     serving, block, hold>>
      /\ crashed' = "no"
  BY <1>2 DEF Subscribe, Receives, sessionVars, pubVars
<1>5. adding[c] = {}
  BY <1>1 DEF OnceInv, OnceKnown
<1> USE DEF OnceInv, IInv, TypeOK
<1>6. crashed' = "no"
  BY <1>4
<1>7. SubscribedInTree'
  <2> SUFFICES ASSUME NEW k \in ClientIds, NEW f \in subs'[k]
               PROVE  \/ <<f, k>> \in tree
                      \/ \E d \in Conns : current[d] = k /\ f \in adding'[d]
    BY <1>4, ZenonT(40) DEF SubscribedInTree
  <2>1. CASE k = current[c] /\ f \in res
    BY <1>3, <2>1
  <2>2. CASE ~(k = current[c] /\ f \in res)
    <3>1. f \in subs[k]
      BY <1>2, <1>3, <2>2
    <3>2. \A d \in Conns : adding[d] # {} => adding'[d] = adding[d]
      BY <1>3, <1>5
    <3> QED
      BY <3>1, <3>2 DEF SubscribedInTree
  <2> QED
    BY <2>1, <2>2
<1>8. OnceKnown'
  BY <1>3, <1>4 DEF OnceKnown
<1> QED
  BY <1>6, <1>7, <1>8

LEMMA AddSubscriptionsOnce ==
  ASSUME OneConnectionPerClient, OnceInv, NEW c \in Conns, AddSubscriptions(c)
  PROVE  crashed' = "no" /\ SubscribedInTree' /\ OnceKnown'
<1>1. link[c] = "subscribing" /\ dtor[c] = "no"
  BY DEF AddSubscriptions, OnceInv, IInv, Bookkeeping
<1>2. current[c] \in ClientIds /\ current[c] # None
  BY <1>1 DEF OnceInv, IInv, TypeOK, Bookkeeping, ConnectedHasSession
<1>3. handler[current[c]] = c
  BY <1>2, HandlerIsOwn
<1>4. /\ tree' = tree \cup (adding[c] \X {current[c]})
      /\ adding' = [adding EXCEPT ![c] = {}]
      /\ link' = [link EXCEPT ![c] = "reading"]
      /\ UNCHANGED <<current, sessions, handler, subs, serving, block, hold,
                     dtor>>
      /\ crashed' = "no"
  BY <1>1, <1>3 DEF AddSubscriptions, sessionVars, pubVars
<1> USE DEF OnceInv, IInv, TypeOK
<1>5. crashed' = "no"
  BY <1>4
<1>6. SubscribedInTree'
  <2> SUFFICES ASSUME NEW k \in ClientIds, NEW f \in subs[k]
               PROVE  \/ <<f, k>> \in tree'
                      \/ \E d \in Conns : current[d] = k /\ f \in adding'[d]
    BY <1>4, ZenonT(40) DEF SubscribedInTree
  <2>1. CASE <<f, k>> \in tree
    BY <1>4, <2>1
  <2>2. ASSUME NEW d \in Conns, current[d] = k, f \in adding[d]
        PROVE  \/ <<f, k>> \in tree'
               \/ \E e \in Conns : current[e] = k /\ f \in adding'[e]
    <3>1. CASE d = c
      BY <1>4, <2>2, <3>1
    <3>2. CASE d # c
      BY <1>4, <2>2, <3>2
    <3> QED
      BY <3>1, <3>2
  <2> QED
    BY <2>1, <2>2 DEF SubscribedInTree
<1>7. OnceKnown'
  <2>1. \A e \in tree' : e[2] # None
    BY <1>2, <1>4 DEF OnceKnown
  <2> QED
    BY <1>4, <2>1 DEF OnceKnown
<1> QED
  BY <1>5, <1>6, <1>7

LEMMA PublishOnce ==
  ASSUME OnceInv, NEW c \in Conns, NEW t \in Topics, Publish(c, t)
  PROVE  crashed' = "no" /\ SubscribedInTree' /\ OnceKnown'
<1>1. None \notin {e[2] : e \in {x \in tree : <<x[1], t>> \in Matches}}
  BY DEF OnceInv, OnceKnown
<1>2. /\ link' = [link EXCEPT ![c] = "publishing"]
      /\ link[c] = "reading"
      /\ UNCHANGED <<current, sessions, handler, subs, adding, tree, serving,
                     block, hold, dtor>>
      /\ crashed' = "no"
  BY <1>1 DEF Publish, Receives, sessionVars, subVars
<1>3. SubscribedInTree'
  BY <1>2 DEF OnceInv, SubscribedInTree
<1>4. OnceKnown'
  BY <1>2 DEF OnceInv, IInv, TypeOK, OnceKnown
<1> QED
  BY <1>2, <1>3, <1>4

(* The session of a connection that has it is the one the connection asked  *)
(* for, and the connection has not begun to be destroyed.                   *)
LEMMA SenderIsOwn ==
  ASSUME IInv, NEW k \in ClientIds, sender[k] # None
  PROVE  /\ sender[k] \in Conns
         /\ ClientOf[sender[k]] = k
         /\ dtor[sender[k]] = "no"
<1>1. sender[k] \in Conns /\ k # None /\ inUse[k]
  BY BrokerAssumption DEF BrokerAssumption, IInv, TypeOK, SessionOwned
<1>2. current[sender[k]] = k /\ dtor[sender[k]] = "no"
  BY <1>1 DEF IInv, SessionOwned, Holds
<1> QED
  BY <1>1, <1>2 DEF IInv, Bookkeeping

(* The connection a publisher has locked is the only one the session can    *)
(* have, so the object pointer read after the lock is kept alive by it.  If *)
(* it was destroyed before, the object pointer is null.                     *)
LEMMA SendPublishOnce ==
  ASSUME OneConnectionPerClient, OnceInv, NEW c \in Conns, SendPublish(c)
  PROVE  crashed' = "no" /\ SubscribedInTree' /\ OnceKnown'
<1> DEFINE k == serving[c]
           target == sender[k]
<1>1. /\ link[c] = "sending" /\ k \in ClientIds
      /\ \/ hold[c] \in Conns /\ ClientOf[hold[c]] = k
         \/ \E d \in Conns : ClientOf[d] = k /\ dtor[d] = "freed"
  BY DEF SendPublish, OnceInv, OnceKnown, IInv, TypeOK, Bookkeeping
<1>2. target # None => Referenced(target)
  <2> SUFFICES ASSUME target # None PROVE hold[c] = target
    BY DEF Referenced
  <2>1. target \in Conns /\ ClientOf[target] = k /\ dtor[target] = "no"
    BY <1>1, SenderIsOwn DEF OnceInv
  <2>2. \A d \in Conns : ClientOf[d] = k => d = target
    BY <2>1 DEF OneConnectionPerClient
  <2> QED
    BY <1>1, <2>1, <2>2
<1>3. /\ hold' = [hold EXCEPT ![c] = None]
      /\ serving' = [serving EXCEPT ![c] = None]
      /\ link' = [link EXCEPT ![c] = IF todo[c] = {} THEN "reading"
                                                     ELSE "publishing"]
      /\ UNCHANGED <<current, sessions, handler, subs, adding, tree, block,
                     dtor>>
      /\ crashed' = "no"
  BY <1>2 DEF SendPublish, sessionVars, subVars
<1>4. SubscribedInTree'
  BY <1>3 DEF OnceInv, SubscribedInTree
<1>5. OnceKnown'
  BY <1>1, <1>3 DEF OnceInv, IInv, TypeOK, OnceKnown
<1> QED
  BY <1>3, <1>4, <1>5

LEMMA ReadSenderOnce ==
  ASSUME OnceInv, NEW c \in Conns, NEW k \in ClientIds, ReadSender(c, k)
  PROVE  crashed' = "no" /\ SubscribedInTree' /\ OnceKnown'
<1>1. /\ link[c] = "publishing"
      /\ UNCHANGED <<current, sessions, handler, subs, adding, tree, hold,
                     dtor>>
      /\ crashed' = "no"
  BY DEF ReadSender, sessionVars, subVars
<1>2. SubscribedInTree'
  BY <1>1 DEF OnceInv, SubscribedInTree
<1>3. sender[k] # None => ClientOf[sender[k]] = k
  BY SenderIsOwn DEF OnceInv
<1>4. \/ /\ block' = [block EXCEPT ![c] = sender[k]]
         /\ serving' = [serving EXCEPT ![c] = k]
         /\ link' = [link EXCEPT ![c] = "locking"]
         /\ sender[k] # None
      \/ /\ link' = [link EXCEPT ![c] = IF todo[c] = {k} THEN "reading" ELSE @]
         /\ UNCHANGED <<block, serving>>
  BY DEF ReadSender
<1>5. OnceKnown'
  <2> USE DEF OnceInv, IInv, TypeOK, OnceKnown
  <2>1. \A d \in Conns : adding'[d] # {} => link'[d] = "subscribing"
    BY <1>1, <1>4
  <2>2. \A d \in Conns : link'[d] = "locking" =>
          ClientOf[block'[d]] = serving'[d]
    BY <1>1, <1>3, <1>4
  <2>3. \A d \in Conns : link'[d] = "sending" =>
          link[d] = "sending" /\ serving'[d] = serving[d]
    BY <1>1, <1>4
  <2> QED
    BY <1>1, <2>1, <2>2, <2>3
<1> QED
  BY <1>1, <1>2, <1>5

(* lock() locks the connection of the session it serves, or gives up, or    *)
(* has come too late: then the process may die, and if it does not, the     *)
(* connection of this session is gone for good.                             *)
LEMMA LockSenderOnce ==
  ASSUME OnceInv, NEW c \in Conns, LockSender(c)
  PROVE  CrashOnlyInLock' /\ SubscribedInTree' /\ OnceKnown'
<1> USE DEF OnceInv, IInv, TypeOK
<1>1. /\ link[c] = "locking" /\ block[c] \in Conns /\ crashed = "no"
      /\ ClientOf[block[c]] = serving[c]
  BY DEF LockSender, Bookkeeping, OnceKnown
<1>2. CASE Crash("block") /\ BlockFreed(block[c])
  <2>1. /\ crashed' = "block"
        /\ UNCHANGED <<link, current, dtor, sessions, handler, sender, subs,
                       adding, tree, serving, block, hold>>
    BY <1>2 DEF Crash, readVars, sessionVars, subVars, pubVars
  <2>2. CrashOnlyInLock'
    BY <1>1, <1>2, <2>1 DEF CrashOnlyInLock, BlockFreed
  <2>3. SubscribedInTree' /\ OnceKnown'
    BY <2>1 DEF SubscribedInTree, OnceKnown
  <2> QED
    BY <2>2, <2>3
<1>3. CASE LockOutcome(c)
  <2>1. CrashOnlyInLock'
    <3>1. crashed' = "no"
      BY <1>1, <1>3 DEF LockOutcome
    <3> QED
      BY <3>1 DEF CrashOnlyInLock
  <2>2. SubscribedInTree'
    <3>1. UNCHANGED <<subs, adding, tree, current>>
      BY <1>3 DEF LockOutcome
    <3> QED
      BY <3>1, SubscribedKept
  <2>3. OnceKnown'
    <3> USE <1>1, <1>3 DEF LockOutcome, OnceKnown
    <3>1. \A d \in Conns : adding'[d] # {} => link'[d] = "subscribing"
      OBVIOUS
    <3>2. \A d \in Conns : link'[d] = "locking" =>
            ClientOf[block'[d]] = serving'[d]
      OBVIOUS
    <3>3. ASSUME NEW d \in Conns, link'[d] = "sending"
          PROVE  \/ hold'[d] \in Conns /\ ClientOf[hold'[d]] = serving'[d]
                 \/ \E e \in Conns :
                      ClientOf[e] = serving'[d] /\ dtor'[e] = "freed"
      <4>1. CASE d = c
        <5>1. PICK e \in Conns :
                /\ hold' = [hold EXCEPT ![c] = e]
                /\ BlockFreed(block[c]) \/ e = block[c]
          BY <3>3, <4>1
        <5>2. hold'[d] = e /\ serving'[d] = serving[c]
          BY <3>3, <4>1, <5>1
        <5> QED
          BY <5>1, <5>2 DEF BlockFreed
      <4>2. CASE d # c
        <5>1. /\ link[d] = "sending" /\ hold'[d] = hold[d]
              /\ serving'[d] = serving[d] /\ dtor' = dtor
          BY <3>3, <4>2
        <5> QED
          BY <5>1
      <4> QED
        BY <4>1, <4>2
    <3> QED
      BY <3>1, <3>2, <3>3
  <2> QED
    BY <2>1, <2>2, <2>3
<1> QED
  BY <1>2, <1>3, LockSenderOutcome

(* getSession makes the processor of the asking connection the handler.     *)
LEMMA ConnectOnce ==
  ASSUME OnceInv, NEW c \in Conns, Connect(c)
  PROVE  crashed' = "no" /\ SubscribedInTree' /\ OnceKnown'
<1> DEFINE k == ClientOf[c]
<1>1. k \in ClientIds
  BY BrokerAssumption DEF BrokerAssumption
<1>2. status[c] = "None" /\ link[c] = "reading"
  BY Admission DEF OnceInv, IInv, Connect, Receives, PacketType
<1>3. current[c] = None /\ adding[c] = {}
  BY <1>2 DEF OnceInv, IInv, Bookkeeping, OnceKnown
<1>4. /\ UNCHANGED <<subs, adding, tree, serving, block, hold, dtor>>
      /\ crashed' = "no"
      /\ current' \in {current, [current EXCEPT ![c] = k]}
      /\ link' \in {link, [link EXCEPT ![c] = "closed"]}
  BY DEF Connect, Receives, GetSession, SessionInUse, subVars, pubVars
<1>5. \/ UNCHANGED <<sessions, handler>>
      \/ /\ sessions' = sessions \cup {k}
         /\ handler' = IF k \in sessions THEN handler
                                         ELSE [handler EXCEPT ![k] = c]
  BY DEF Connect, GetSession, SessionInUse, sessionVars
<1> HIDE DEF k
<1> USE DEF OnceInv, IInv, TypeOK
<1>6. crashed' = "no"
  BY <1>4
<1>7. SubscribedInTree'
  <2>1. \A d \in Conns : adding[d] # {} => current'[d] = current[d]
    BY <1>3, <1>4
  <2> QED
    BY <1>4, <2>1, SubscribedKept
<1>8. OnceKnown'
  <2>1. \A j \in sessions' : handler'[j] \in Conns /\ ClientOf[handler'[j]] = j
    BY <1>1, <1>5 DEF OnceKnown, k
  <2>2. \A d \in Conns : link'[d] # link[d] => link[d] = "reading" /\ link'[d] = "closed"
    BY <1>2, <1>4
  <2> QED
    BY <1>4, <2>1, <2>2 DEF OnceKnown
<1> QED
  BY <1>6, <1>7, <1>8

(* The other steps touch neither tree nor subscriptions, and forget a       *)
(* session only when its connection passes nothing on.                      *)
LEMMA OtherOnce ==
  ASSUME OnceInv, NEW c \in Conns,
         \/ Start(c) \/ Drop(c) \/ Pingreq(c) \/ Disconnect(c)
         \/ ResetSession(c) \/ WriteDone(c) \/ Destroy(c) \/ Free(c)
  PROVE  crashed' = "no" /\ SubscribedInTree' /\ OnceKnown'
<1>1. /\ UNCHANGED <<sessions, handler, subs, adding, tree, serving, block,
                     hold>>
      /\ crashed' = "no"
      /\ \A d \in Conns : dtor[d] = "freed" => dtor'[d] = "freed"
      /\ \/ UNCHANGED current
         \/ /\ current' = [current EXCEPT ![c] = None]
            /\ link[c] # "subscribing"
      /\ \/ UNCHANGED link
         \/ /\ link[c] \notin {"subscribing", "locking", "sending"}
            /\ \E l \in {"reading", "resetting", "closed"} :
                 link' = [link EXCEPT ![c] = l]
  BY DEF OnceInv, IInv, TypeOK, Bookkeeping, Start, Drop, Pingreq, Disconnect,
     Receives, returnSession, ResetSession, WriteDone, Destroy, Free,
     readVars, sessionVars, subVars, pubVars
<1> USE DEF OnceInv, IInv, TypeOK
<1>2. crashed' = "no"
  BY <1>1
<1>3. SubscribedInTree'
  <2>1. \A d \in Conns : adding[d] # {} => current'[d] = current[d]
    BY <1>1 DEF OnceKnown
  <2> QED
    BY <1>1, <2>1, SubscribedKept
<1>4. OnceKnown'
  <2>1. \A d \in Conns : link[d] = "subscribing" => link'[d] = "subscribing"
    BY <1>1
  <2>2. \A d \in Conns : link'[d] \in {"locking", "sending"} =>
          link[d] = link'[d]
    BY <1>1
  <2> QED
    BY <1>1, <2>1, <2>2 DEF OnceKnown
<1> QED
  BY <1>2, <1>3, <1>4

(* Every step keeps the invariant.                                         *)
LEMMA OnceNext ==
  ASSUME OneConnectionPerClient
  PROVE  OnceInv /\ [Next]_vars => OnceInv'
<1> SUFFICES ASSUME OnceInv, [Next]_vars PROVE OnceInv'
  OBVIOUS
<1>1. IInv'
  BY NextInv DEF OnceInv
<1>2. CASE UNCHANGED vars
  BY <1>1, <1>2 DEF OnceInv, CrashOnlyInLock, BlockFreed, SubscribedInTree,
     OnceKnown, vars, readVars, sessionVars, subVars, pubVars
<1>3. CASE Next
  <2>1. CrashOnlyInLock' \/ crashed' = "no"
    BY <1>3, SubscribeOnce, AddSubscriptionsOnce, PublishOnce, ReadSenderOnce,
       SendPublishOnce, LockSenderOnce, ConnectOnce, OtherOnce DEF Next, Proceed
  <2>2. SubscribedInTree' /\ OnceKnown'
    BY <1>3, SubscribeOnce, AddSubscriptionsOnce, PublishOnce, ReadSenderOnce,
       SendPublishOnce, LockSenderOnce, ConnectOnce, OtherOnce DEF Next, Proceed
  <2>3. CrashOnlyInLock'
    BY <2>1 DEF CrashOnlyInLock
  <2> QED
    BY <1>1, <2>2, <2>3 DEF OnceInv
<1> QED
  BY <1>2, <1>3

(* As long as no client returns, the broker follows no null session, no     *)
(* handler that is gone and no connection nothing keeps alive, whatever its *)
(* connections do and in whatever order: these crashes need a reconnect.    *)
(* What is left is the unlocked read in Session::currentSender: weak_ptr::  *)
(* lock can meet the control block of the session's own connection after    *)
(* that connection was destroyed.                                           *)
THEOREM CrashesInLockWithoutReconnect ==
  ASSUME OneConnectionPerClient
  PROVE  Spec => []CrashOnlyInLock
<1>1. OnceInv => CrashOnlyInLock
  BY DEF OnceInv
<1> QED
  BY OnceInit, OnceNext, <1>1, PTL DEF Spec

(* As long as no client returns, every subscription of a session is in the  *)
(* tree under this session, or still on its way in addSubscriptions.        *)
THEOREM SubscribedWithoutReconnect ==
  ASSUME OneConnectionPerClient
  PROVE  Spec => []SubscribedInTree
<1>1. OnceInv => SubscribedInTree
  BY DEF OnceInv
<1> QED
  BY OnceInit, OnceNext, <1>1, PTL DEF Spec
=============================================================================
