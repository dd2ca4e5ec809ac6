------------------------------- MODULE Broker -------------------------------
(***************************************************************************)
(* The sessions of the MQTT broker: SessionManager, Session, the Processor *)
(* of every connection and the lifetime of the Connection object that owns *)
(* it.  Every connection runs its handlers on the thread of its own        *)
(* io_context, so the handlers of different connections interleave; what   *)
(* they share are the session table (under _sessionsMutex), the Session    *)
(* objects and the subscription tree.                                      *)
(*                                                                         *)
(* The tree is used through its atomic operations (SubscriptionTreeManager *)
(* is shown to provide them), the outgoing queue of a connection through   *)
(* the state of its write (SendQueue has the detail).                      *)
(***************************************************************************)
EXTENDS Naturals, FiniteSets

CONSTANTS
  Conns,      \* the connections accepted in the lifetime of the broker
  ClientIds,  \* the client identifiers
  ClientOf,   \* the identifier the peer of a connection puts into CONNECT
  Filters,    \* topic filters
  Topics,     \* topic names
  Matches,    \* the pairs <<filter, topic>> that match
  None        \* the null pointer

ASSUME BrokerAssumption ==
  /\ ClientOf \in [Conns -> ClientIds]
  /\ Matches \subseteq Filters \X Topics
  /\ None \notin Conns \cup ClientIds

(* processPacket refuses these whatever the status of the connection. *)
NotAllowed     == {"Connack", "Pingresp", "Suback", "Unsuback"}
NotImplemented == {"Puback", "Pubrec", "Pubcomp", "Pubrel", "Unsubscribe"}
PacketType     == {"Connect", "Subscribe", "Publish", "Pingreq", "Disconnect"}
                    \cup NotAllowed \cup NotImplemented

VARIABLES
  link,      \* where the read handler of a connection is
  status,    \* Processor::_status
  current,   \* Processor::_currentSession
  out,       \* the write side: "idle", "sending", or "stuck" after an error
  dtor,      \* progress of ~Processor: "no", "returned", "freed"
  sessions,  \* the keys of SessionManager::_sessions
  inUse,     \* SessionWrapper::_inUse
  sender,    \* Session::_sender
  handler,   \* Session::_subscriptionHandler: the connection of that Processor
  subs,      \* Session::_subscriptions
  adding,    \* the filters addSubscriptions passes on to the handler
  tree,      \* the subscription tree: pairs <<filter, session>>
  todo,      \* the matched sessions a PUBLISH has still to serve
  serving,   \* the session of that PUBLISH whose currentSender() is running
  block,     \* the connection whose control block currentSender() has loaded
  hold,      \* the connection whose control block it has locked
  crashed,   \* "no", or the null or dangling pointer the process died of
  granted,   \* history: the connections that got their session
  received   \* history: the sessions on whose behalf a PUBLISH was queued

readVars    == <<link, status, current>>
sessionVars == <<sessions, inUse, sender, handler>>
subVars     == <<subs, adding, tree>>
pubVars     == <<todo, serving, block, hold>>
history     == <<granted, received>>
vars == <<readVars, out, dtor, sessionVars, subVars, pubVars, crashed, history>>

Link   == {"new", "reading", "subscribing", "publishing", "locking",
           "sending", "resetting", "closed"}

(* A null session, the Processor a session keeps as its handler, a control  *)
(* block in weak_ptr::lock, and the connection its object pointer names.    *)
Pointer == {"session", "handler", "block", "object"}

TypeOK ==
  /\ link \in [Conns -> Link]
  /\ status \in [Conns -> {"None", "Connected", "Disconnected"}]
  /\ current \in [Conns -> ClientIds \cup {None}]
  /\ out \in [Conns -> {"idle", "sending", "stuck"}]
  /\ dtor \in [Conns -> {"no", "returned", "freed"}]
  /\ sessions \subseteq ClientIds
  /\ inUse \in [ClientIds -> BOOLEAN]
  /\ sender \in [ClientIds -> Conns \cup {None}]
  /\ handler \in [ClientIds -> Conns \cup {None}]
  /\ subs \in [ClientIds -> SUBSET Filters]
  /\ adding \in [Conns -> SUBSET Filters]
  /\ tree \subseteq Filters \X (ClientIds \cup {None})
  /\ todo \in [Conns -> SUBSET ClientIds]
  /\ serving \in [Conns -> ClientIds \cup {None}]
  /\ block \in [Conns -> Conns \cup {None}]
  /\ hold \in [Conns -> Conns \cup {None}]
  /\ crashed \in Pointer \cup {"no"}
  /\ granted \subseteq Conns
  /\ received \in [Conns -> SUBSET ClientIds]

Init ==
  /\ link = [c \in Conns |-> "new"]
  /\ status = [c \in Conns |-> "None"]
  /\ current = [c \in Conns |-> None]
  /\ out = [c \in Conns |-> "idle"]
  /\ dtor = [c \in Conns |-> "no"]
  /\ sessions = {}
  /\ inUse = [k \in ClientIds |-> FALSE]
  /\ sender = [k \in ClientIds |-> None]
  /\ handler = [k \in ClientIds |-> None]
  /\ subs = [k \in ClientIds |-> {}]
  /\ adding = [c \in Conns |-> {}]
  /\ tree = {}
  /\ todo = [c \in Conns |-> {}]
  /\ serving = [c \in Conns |-> None]
  /\ block = [c \in Conns |-> None]
  /\ hold = [c \in Conns |-> None]
  /\ crashed = "no"
  /\ granted = {}
  /\ received = [c \in Conns |-> {}]

-----------------------------------------------------------------------------
(* Mutant of Referenced: currentSender hands out a bare pointer, and the    *)
(* publisher keeps nothing alive.                                           *)
ReferencedByIo(c) ==
  \/ link[c] \notin {"new", "closed"}
  \/ out[c] = "sending"

(* References to a Connection are held by its read handler, by the write in *)
(* flight and by the publishers that locked the weak pointer.               *)
Referenced(c) ==
  \/ link[c] \notin {"new", "closed"}
  \/ out[c] = "sending"
  \/ \E p \in Conns : hold[p] = c

(* addSendPacket: the packet is queued, and written at once if no write is  *)
(* in flight.  After a failed write _isSending stays set and nothing is     *)
(* written any more.  The serializer knows all packets of the broker.       *)
Queued(c) == out' = [out EXCEPT ![c] = IF @ = "idle" THEN "sending" ELSE @]

(* The process is gone, following pointer p. *)
Crash(p) ==
  /\ crashed' = p
  /\ UNCHANGED <<readVars, out, dtor, sessionVars, subVars, pubVars, history>>

(* What a dangling pointer can give: the process dies, or it goes on with   *)
(* what the memory holds.                                                   *)
CrashOr(p, A) == Crash(p) \/ (A /\ UNCHANGED crashed)

(* The control block of c goes with the last weak reference to it: those of *)
(* the connection and its processor, and Session::_sender.                  *)
BlockFreed(c) == dtor[c] = "freed" /\ \A k \in ClientIds : sender[k] # c

(* SessionManager::returnSession; a null session changes nothing. *)
returnSession(k) ==
  /\ IF k \in sessions
       THEN /\ sender' = [sender EXCEPT ![k] = None]
            /\ inUse' = [inUse EXCEPT ![k] = FALSE]
       ELSE UNCHANGED <<sender, inUse>>
  /\ UNCHANGED <<sessions, handler>>

(* Mutant of Admitted: packets are handled before CONNECT, too. *)
AdmittedBeforeConnect(c, type) ==
  /\ CASE status[c] = "None"         -> TRUE
       [] status[c] = "Connected"    -> type # "Connect"
       [] status[c] = "Disconnected" -> FALSE
  /\ type \notin NotAllowed \cup NotImplemented

(* The checks of processPacket that precede the handlers. *)
Admitted(c, type) ==
  /\ CASE status[c] = "None"         -> type = "Connect"
       [] status[c] = "Connected"    -> type # "Connect"
       [] status[c] = "Disconnected" -> FALSE
  /\ type \notin NotAllowed \cup NotImplemented

(* A whole packet has been read by connection c. *)
Receives(c, type) ==
  /\ crashed = "no"
  /\ link[c] = "reading"
  /\ Admitted(c, type)

-----------------------------------------------------------------------------
(* Connection::start *)
Start(c) ==
  /\ crashed = "no"
  /\ link[c] = "new"
  /\ link' = [link EXCEPT ![c] = "reading"]
  /\ UNCHANGED <<status, current, out, dtor, sessionVars, subVars, pubVars,
                 crashed, history>>

(* A read error, a parse error or a packet processPacket refuses ends the   *)
(* read loop: handle_read returns without another do_read.                  *)
Drop(c) ==
  /\ crashed = "no"
  /\ link[c] = "reading"
  /\ link' = [link EXCEPT ![c] = "closed"]
  /\ UNCHANGED <<status, current, out, dtor, sessionVars, subVars, pubVars,
                 crashed, history>>

(* SessionManager::getSession gives connection c a free or a new session.   *)
(* A new one keeps the Processor of c as its subscription handler for ever. *)
GetSession(c, k) ==
  /\ ~inUse[k]
  /\ sessions' = sessions \cup {k}
  /\ handler' = IF k \in sessions THEN handler
                                  ELSE [handler EXCEPT ![k] = c]
  /\ sender' = [sender EXCEPT ![k] = c]
  /\ inUse' = [inUse EXCEPT ![k] = TRUE]
  /\ current' = [current EXCEPT ![c] = k]
  /\ granted' = granted \cup {c}
  /\ link' = link

(* Mutants of SessionInUse: the read loop goes on after the error, and      *)
(* setSender is called before _inUse is tested.                             *)
RefusedKeepsReading(c, k) ==
  /\ inUse[k]
  /\ link' = link
  /\ UNCHANGED <<sessionVars, current, granted>>
RefusedSetsSender(c, k) ==
  /\ inUse[k]
  /\ sender' = [sender EXCEPT ![k] = c]
  /\ link' = [link EXCEPT ![c] = "closed"]
  /\ UNCHANGED <<sessions, inUse, handler, current, granted>>

(* getSession refuses a session in use; the CONNACK is queued all the same, *)
(* and the error code ends the read loop.                                   *)
SessionInUse(c, k) ==
  /\ inUse[k]
  /\ link' = [link EXCEPT ![c] = "closed"]
  /\ UNCHANGED <<sessionVars, current, granted>>

Connect(c) ==
  /\ Receives(c, "Connect")
  /\ status' = [status EXCEPT ![c] = "Connected"]
  /\ GetSession(c, ClientOf[c]) \/ SessionInUse(c, ClientOf[c])
  /\ Queued(c)
  /\ UNCHANGED <<dtor, subVars, pubVars, crashed, received>>

Pingreq(c) ==
  /\ Receives(c, "Pingreq")
  /\ Queued(c)
  /\ UNCHANGED <<readVars, dtor, sessionVars, subVars, pubVars, crashed,
                 history>>

(* Session::addSubscriptions up to the call of the handler.  findDifference *)
(* keeps every filter the session does not have yet; it may also keep some  *)
(* it has, because std::set_difference is applied to an unsorted list.      *)
Subscribe(c, F) ==
  /\ Receives(c, "Subscribe")
  /\ IF current[c] = None
       THEN Crash("session")
       ELSE /\ \E res \in SUBSET F :
                 /\ F \ subs[current[c]] \subseteq res
                 /\ adding' = [adding EXCEPT ![c] = res]
                 /\ subs' = [subs EXCEPT ![current[c]] = @ \cup res]
            /\ link' = [link EXCEPT ![c] = "subscribing"]
            /\ UNCHANGED <<status, current, out, dtor, sessionVars, tree,
                           pubVars, crashed, history>>

(* Mutant of AddSubscriptions: the new tree has only the new filters. *)
AddSubscriptionsOverwrites(c) ==
  /\ crashed = "no"
  /\ link[c] = "subscribing"
  /\ tree' = adding[c] \X {current[handler[current[c]]]}
  /\ adding' = [adding EXCEPT ![c] = {}]
  /\ link' = [link EXCEPT ![c] = "reading"]
  /\ Queued(c)
  /\ UNCHANGED <<status, current, dtor, sessionVars, subs, pubVars, crashed,
                 history>>

(* Processor::addSubscriptions of the session's handler, then the SUBACK.   *)
(* The tree gets the handler's own session.  If the handler is destroyed,   *)
(* its freed memory yields any session, a null pointer, or a crash.         *)
AddSubscriptions(c) ==
  /\ crashed = "no"
  /\ link[c] = "subscribing"
  /\ LET h == handler[current[c]]
         Install(s) ==
           /\ tree' = tree \cup (adding[c] \X {s})
           /\ adding' = [adding EXCEPT ![c] = {}]
           /\ link' = [link EXCEPT ![c] = "reading"]
           /\ Queued(c)
           /\ UNCHANGED <<status, current, dtor, sessionVars, subs, pubVars,
                          history>>
     IN  IF dtor[h] = "freed"
           THEN CrashOr("handler", \E s \in ClientIds \cup {None} : Install(s))
           ELSE Install(current[h]) /\ UNCHANGED crashed

(* doProcess(Publish): match the current tree.  A null session in the       *)
(* result is dereferenced.                                                  *)
Publish(c, t) ==
  /\ Receives(c, "Publish")
  /\ LET matched == {e[2] : e \in {x \in tree : <<x[1], t>> \in Matches}}
     IN  IF None \in matched
           THEN Crash("session")
           ELSE /\ matched # {}
                /\ todo' = [todo EXCEPT ![c] = matched]
                /\ link' = [link EXCEPT ![c] = "publishing"]
                /\ UNCHANGED <<status, current, out, dtor, sessionVars,
                               subVars, serving, block, hold, crashed,
                               history>>

(* Session::currentSender is _sender.lock() without a lock on _sender.  The *)
(* first step loads the pointer to the control block; without one the       *)
(* result is null and the next session is served.                           *)
ReadSender(c, k) ==
  /\ crashed = "no"
  /\ link[c] = "publishing"
  /\ k \in todo[c]
  /\ todo' = [todo EXCEPT ![c] = @ \ {k}]
  /\ IF sender[k] # None
       THEN /\ block' = [block EXCEPT ![c] = sender[k]]
            /\ serving' = [serving EXCEPT ![c] = k]
            /\ link' = [link EXCEPT ![c] = "locking"]
       ELSE /\ link' = [link EXCEPT ![c] = IF todo[c] = {k} THEN "reading"
                                                            ELSE @]
            /\ UNCHANGED <<block, serving>>
  /\ UNCHANGED <<status, current, out, dtor, sessionVars, subVars, hold,
                 crashed, history>>

(* The second step increments the use count in that block, unless it is     *)
(* zero.  setSender may have dropped the last weak reference to the block   *)
(* since it was loaded.  Freed memory faults, shows no owner, or is by now  *)
(* the block of another connection.  (setSender itself writes two words,    *)
(* the object pointer first; a reader that meets it half-way gets what it   *)
(* gets when the whole of setSender runs between these steps.)              *)
LockSender(c) ==
  /\ crashed = "no"
  /\ link[c] = "locking"
  /\ LET d == block[c]
         Locked(e) ==
           /\ Referenced(e)
           /\ hold' = [hold EXCEPT ![c] = e]
           /\ link' = [link EXCEPT ![c] = "sending"]
           /\ block' = [block EXCEPT ![c] = None]
           /\ UNCHANGED <<serving, status, current, out, dtor, sessionVars,
                          subVars, todo, history>>
         Expired ==
           /\ link' = [link EXCEPT ![c] = IF todo[c] = {} THEN "reading"
                                                          ELSE "publishing"]
           /\ serving' = [serving EXCEPT ![c] = None]
           /\ block' = [block EXCEPT ![c] = None]
           /\ UNCHANGED <<hold, status, current, out, dtor, sessionVars,
                          subVars, todo, history>>
     IN  IF BlockFreed(d)
           THEN CrashOr("block", Expired \/ \E e \in Conns : Locked(e))
           ELSE /\ Locked(d) \/ (~Referenced(d) /\ Expired)
                /\ UNCHANGED crashed

(* The third step loads the object pointer, which may by now be the one of  *)
(* a later connection that nothing keeps alive.  The reference is dropped   *)
(* when the packet is queued.                                               *)
SendPublish(c) ==
  /\ crashed = "no"
  /\ link[c] = "sending"
  /\ LET k == serving[c]
         target == sender[k]
         Continue ==
           /\ hold' = [hold EXCEPT ![c] = None]
           /\ serving' = [serving EXCEPT ![c] = None]
           /\ link' = [link EXCEPT ![c] = IF todo[c] = {} THEN "reading"
                                                          ELSE "publishing"]
           /\ UNCHANGED <<status, current, dtor, sessionVars, subVars, todo,
                          block, granted>>
     IN  \/ /\ target # None /\ Referenced(target)
            /\ Queued(target)
            /\ received' = [received EXCEPT ![target] = @ \cup {k}]
            /\ Continue /\ UNCHANGED crashed
         \/ /\ target = None
            /\ Continue /\ UNCHANGED <<out, received, crashed>>
         \/ /\ target # None /\ ~Referenced(target)
            /\ CrashOr("object", Continue /\ UNCHANGED <<out, received>>)

(* doProcess(Disconnect): the session goes back to the manager ...          *)
Disconnect(c) ==
  /\ Receives(c, "Disconnect")
  /\ status' = [status EXCEPT ![c] = "Disconnected"]
  /\ returnSession(current[c])
  /\ link' = [link EXCEPT ![c] = "resetting"]
  /\ UNCHANGED <<current, out, dtor, subVars, pubVars, crashed, history>>

(* Mutant of ResetSession: the returned session is not forgotten. *)
ResetKeepsSession(c) ==
  /\ crashed = "no"
  /\ link[c] = "resetting"
  /\ link' = [link EXCEPT ![c] = "closed"]
  /\ UNCHANGED <<status, current, out, dtor, sessionVars, subVars, pubVars,
                 crashed, history>>

(* ... and then the pointer of the processor is reset; ConnectionState is   *)
(* Close, so the read loop ends.                                            *)
ResetSession(c) ==
  /\ crashed = "no"
  /\ link[c] = "resetting"
  /\ current' = [current EXCEPT ![c] = None]
  /\ link' = [link EXCEPT ![c] = "closed"]
  /\ UNCHANGED <<status, out, dtor, sessionVars, subVars, pubVars, crashed,
                 history>>

(* The queue of c has been written, or the write has failed. *)
WriteDone(c) ==
  /\ crashed = "no"
  /\ out[c] = "sending"
  /\ \E o \in {"idle", "stuck"} : out' = [out EXCEPT ![c] = o]
  /\ UNCHANGED <<readVars, dtor, sessionVars, subVars, pubVars, crashed,
                 history>>

(* Mutant of Destroy: ~Processor does not return the session. *)
DestroyKeepsSession(c) ==
  /\ crashed = "no"
  /\ link[c] = "closed" /\ ~Referenced(c)
  /\ dtor[c] = "no"
  /\ dtor' = [dtor EXCEPT ![c] = "returned"]
  /\ UNCHANGED <<readVars, out, sessionVars, subVars, pubVars, crashed, history>>

(* ~Processor, run by whoever dropped the last reference: the session goes  *)
(* back to the manager, then the members are destroyed.                     *)
Destroy(c) ==
  /\ crashed = "no"
  /\ link[c] = "closed" /\ ~Referenced(c)
  /\ dtor[c] = "no"
  /\ returnSession(current[c])
  /\ dtor' = [dtor EXCEPT ![c] = "returned"]
  /\ UNCHANGED <<readVars, out, subVars, pubVars, crashed, history>>

Free(c) ==
  /\ crashed = "no"
  /\ dtor[c] = "returned"
  /\ dtor' = [dtor EXCEPT ![c] = "freed"]
  /\ current' = [current EXCEPT ![c] = None]
  /\ UNCHANGED <<link, status, out, sessionVars, subVars, pubVars, crashed,
                 history>>

-----------------------------------------------------------------------------
(* The steps a thread takes on its own once a packet is being handled. *)
Proceed(c) ==
  \/ AddSubscriptions(c)
  \/ \E k \in ClientIds : ReadSender(c, k)
  \/ LockSender(c)
  \/ SendPublish(c)
  \/ ResetSession(c)
  \/ WriteDone(c)
  \/ Destroy(c)
  \/ Free(c)

Next ==
  \E c \in Conns :
    \/ Start(c)
    \/ Drop(c)
    \/ Connect(c)
    \/ Pingreq(c)
    \/ \E F \in (SUBSET Filters) \ {{}} : Subscribe(c, F)
    \/ \E t \in Topics : Publish(c, t)
    \/ Disconnect(c)
    \/ Proceed(c)

(* The io threads keep running, and a write ends, in success or in error.   *)
(* Nothing obliges a peer to connect or to send anything.                   *)
Fairness == \A c \in Conns : WF_vars(Proceed(c))

Spec == Init /\ [][Next]_vars

FairSpec == Spec /\ Fairness

-----------------------------------------------------------------------------
(* The processor of c has a session it has not yet given back. *)
Holds(c, k) == current[c] = k /\ link[c] # "resetting" /\ dtor[c] = "no"

(* A session is in use exactly while one processor holds it, and its        *)
(* packets go to that processor's connection: no disconnect, destructor or  *)
(* refused reconnect ever frees or redirects the session of another         *)
(* connection (SessionManager::getSession, returnSession, ~Processor).      *)
SessionOwned ==
  \A k \in ClientIds :
    /\ \A c \in Conns : Holds(c, k) <=> inUse[k] /\ sender[k] = c
    /\ inUse[k] <=> sender[k] # None

(* A connection that still reads packets after its CONNECT has a session,   *)
(* so doProcess(Subscribe) never dereferences a null _currentSession: the   *)
(* error of getSession ends the read loop although CONNACK says accepted.   *)
ConnectedHasSession ==
  \A c \in Conns :
    status[c] = "Connected" /\ link[c] # "closed" => current[c] # None

(* A PUBLISH matched for a session is only ever queued on a connection that *)
(* was given this session; a refused CONNECT gets no packet of the session  *)
(* it asked for, not even through the unlocked read of _sender.             *)
PublishToOwner ==
  \A c \in Conns :
    received[c] \subseteq (IF c \in granted THEN {ClientOf[c]} ELSE {})

(* Every subscription of a session is in the tree under this session,       *)
(* except while addSubscriptions is still passing it on.                    *)
SubscribedInTree ==
  \A k \in ClientIds : \A f \in subs[k] :
    \/ <<f, k>> \in tree
    \/ \E c \in Conns : current[c] = k /\ f \in adding[c]

(* If the process dies of a pointer, it does so in weak_ptr::lock, of the   *)
(* control block of the connection the session had when the publisher       *)
(* loaded it, and that connection was destroyed since.  This race           *)
(* (mqtt_session.h: currentSender against setSender and ~Connection) is     *)
(* there with every client connecting once; no null session, no handler     *)
(* that is gone and no foreign connection is ever followed then.            *)
CrashOnlyInLock ==
  crashed # "no" =>
    /\ crashed = "block"
    /\ \E c, d \in Conns :
         /\ link[c] = "locking" /\ block[c] = d
         /\ ClientOf[d] = serving[c] /\ BlockFreed(d)

(* The session of a connection that has stopped reading is given back in    *)
(* the end, or the process crashes: ~Processor runs once no write and no    *)
(* publisher keeps the connection alive.  Only publishers that never stop   *)
(* serving this connection can delay it for ever, each taking a reference   *)
(* before the last write has ended.                                         *)
SessionReleased ==
  \A c \in Conns :
    \/ link[c] = "closed" ~>
         crashed # "no" \/ \A k \in ClientIds : ~(inUse[k] /\ sender[k] = c)
    \/ []<>(\E p \in Conns : hold[p] = c)

(* "we use here the _currentSession, which should always be the calling     *)
(* Session" (mqtt_processor.h): whenever a Session calls its handler, that  *)
(* processor is not destroyed and its current session is the caller.        *)
HandlerIsCaller ==
  \A c \in Conns :
    link[c] = "subscribing" =>
      LET h == handler[current[c]]
      IN  dtor[h] # "freed" /\ current[h] = current[c]
=============================================================================
