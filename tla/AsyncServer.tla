----------------------------- MODULE AsyncServer -----------------------------
(***************************************************************************)
(* IoContextPool and the AsyncServers of doRun: contexts are handed out in *)
(* turn to the signal set, the acceptors and the sockets, each context is  *)
(* run by one thread, and an exception in a handler ends that thread.      *)
(***************************************************************************)
EXTENDS Integers, Sequences, FiniteSets

CONSTANTS Servers,         \* the plain and the secure server
          Secure,          \* those with a handshake
          Number,          \* threads of the pool
          MaxConnections,  \* bound: connections that are made
          MaxWaiting,      \* bound: peers that wait to be handled at a time
          MaxFailures      \* bound: accepts that fail

ASSUME ServerAssumption ==
  Number \in Nat \ {0} /\ Secure \subseteq Servers /\ IsFiniteSet(Servers)

Contexts == 0..(Number - 1)
Unbound == -1

VARIABLES main,            \* where doRun is: "setup", "run" or "returned"
          nextContext,     \* _nextContext, modulo the size of the pool
          thread,          \* the thread of each context: "none", "running" or "ended"
          stopped,         \* io_context::stop was called
          signals,         \* the context of the signal set
          signalled,       \* SIGINT or SIGTERM arrived
          acceptor,        \* the context of each server's acceptor
          socket,          \* the context of the socket the next connection gets
          armed,           \* async_accept is waiting
          conns,           \* connections: their context, how far they are, and
                           \* whether the peer has sent what waits to be handled
          died,            \* history: contexts whose thread ended with an exception
          failures         \* history: accepts that failed

serverVars == <<main, nextContext, thread, stopped, signals, signalled, acceptor,
                socket, armed, conns, died, failures>>

ServerInit ==
  /\ main = "setup"
  /\ nextContext = 0
  /\ thread = [c \in Contexts |-> "none"]
  /\ stopped = [c \in Contexts |-> FALSE]
  /\ signals = Unbound /\ signalled = FALSE
  /\ acceptor = [s \in Servers |-> Unbound]
  /\ socket = [s \in Servers |-> Unbound]
  /\ armed = [s \in Servers |-> FALSE]
  /\ conns = <<>>
  /\ died = {} /\ failures = 0

(* IoContextPool::get, n calls after the next one. *)
Get(n) == (nextContext + n) % Number

-----------------------------------------------------------------------------
MakeSignalSet ==
  /\ main = "setup" /\ signals = Unbound
  /\ signals' = Get(0)
  /\ nextContext' = Get(1)
  /\ UNCHANGED <<main, thread, stopped, signalled, acceptor, socket, armed, conns, died, failures>>

(* The constructor of AsyncServer takes a context for the acceptor, a      *)
(* socket and the resolver, and do_accept one for a new socket.            *)
MakeServer(s) ==
  /\ main = "setup" /\ signals # Unbound /\ acceptor[s] = Unbound
  /\ acceptor' = [acceptor EXCEPT ![s] = Get(0)]
  /\ socket' = [socket EXCEPT ![s] = Get(3)]
  /\ armed' = [armed EXCEPT ![s] = TRUE]
  /\ nextContext' = Get(4)
  /\ UNCHANGED <<main, thread, stopped, signals, signalled, conns, died, failures>>

(* bind, listen or a certificate fails: the exception leaves doRun, and    *)
(* the destructor of the pool stops the contexts.                          *)
MakeServerFails ==
  /\ main = "setup" /\ signals # Unbound /\ \E s \in Servers : acceptor[s] = Unbound
  /\ main' = "returned"
  /\ stopped' = [c \in Contexts |-> TRUE]
  /\ UNCHANGED <<nextContext, thread, signals, signalled, acceptor, socket, armed, conns, died, failures>>

Run ==
  /\ main = "setup" /\ \A s \in Servers : acceptor[s] # Unbound
  /\ main' = "run"
  /\ thread' = [c \in Contexts |-> "running"]
  /\ UNCHANGED <<nextContext, stopped, signals, signalled, acceptor, socket, armed, conns, died, failures>>

Runs(c) == thread[c] = "running" /\ ~stopped[c]

DoAccept_same(s) == UNCHANGED <<socket, nextContext>>  \* mutant: the same context again

(* Accepting goes on with a socket on the next context. *)
DoAccept(s) ==
  /\ socket' = [socket EXCEPT ![s] = Get(0)]
  /\ nextContext' = Get(1)

(* handshake of Socket is done at once, that of SecureSocket later. *)
Handshake(s) == IF s \in Secure THEN "handshake" ELSE "started"

Accept(s) ==
  /\ armed[s] /\ Runs(acceptor[s]) /\ Len(conns) < MaxConnections
  /\ conns' = Append(conns, [at |-> socket[s], state |-> Handshake(s), input |-> FALSE])
  /\ DoAccept(s)
  /\ UNCHANGED <<main, thread, stopped, signals, signalled, acceptor, armed, died, failures>>

AcceptError(s) ==
  /\ armed[s] /\ Runs(acceptor[s]) /\ failures < MaxFailures
  /\ failures' = failures + 1
  /\ DoAccept(s)
  /\ UNCHANGED <<main, thread, stopped, signals, signalled, acceptor, armed, conns, died>>

Dies(c) ==
  /\ thread' = [thread EXCEPT ![c] = "ended"]
  /\ died' = died \cup {c}

(* The peer is gone before remote_endpoint() is logged, which throws:      *)
(* nothing is accepted any more, and the thread of the context ends.       *)
AcceptThrows(s) ==
  /\ armed[s] /\ Runs(acceptor[s])
  /\ armed' = [armed EXCEPT ![s] = FALSE]
  /\ Dies(acceptor[s])
  /\ UNCHANGED <<main, nextContext, stopped, signals, signalled, acceptor, socket, conns, failures>>

(* The peer goes on with the handshake, sends a request or leaves. Nothing *)
(* makes it do so, and no timer of the server ends the wait for it.        *)
PeerActs(i) ==
  /\ conns[i].state # "over" /\ ~conns[i].input
  /\ Cardinality({j \in DOMAIN conns : conns[j].input}) < MaxWaiting
  /\ conns' = [conns EXCEPT ![i].input = TRUE]
  /\ UNCHANGED <<main, nextContext, thread, stopped, signals, signalled, acceptor, socket,
                 armed, died, failures>>

(* What may follow on it: the end of the handshake, good or bad, or of the *)
(* connection, whose requests count as one.                                *)
After_handshake(state) ==  \* mutant: the handshake is not started
  [handshake |-> {}, started |-> {"over"}, over |-> {}][state]

After(state) ==
  [handshake |-> {"started", "over"}, started |-> {"over"}, over |-> {}][state]

Handled(i, state) ==
  /\ Runs(conns[i].at) /\ conns[i].input
  /\ state \in After(conns[i].state)
  /\ conns' = [conns EXCEPT ![i] = [at |-> conns[i].at, state |-> state, input |-> FALSE]]

(* A step of a connection on the thread of its context.                    *)
ConnectionStep(i, state) ==
  /\ Handled(i, state)
  /\ UNCHANGED <<main, nextContext, thread, stopped, signals, signalled, acceptor, socket,
                 armed, died, failures>>

ConnectionThrows(i) ==
  /\ conns[i].state = "started" /\ Handled(i, "over")
  /\ Dies(conns[i].at)
  /\ UNCHANGED <<main, nextContext, stopped, signals, signalled, acceptor, socket, armed, failures>>

Signal ==
  /\ signals # Unbound /\ ~signalled
  /\ signalled' = TRUE
  /\ UNCHANGED <<main, nextContext, thread, stopped, signals, acceptor, socket, armed, conns, died, failures>>

StopPool_own ==  \* mutant: only the context of the handler is stopped
  /\ signalled /\ Runs(signals)
  /\ stopped' = [stopped EXCEPT ![signals] = TRUE]
  /\ UNCHANGED <<main, nextContext, thread, signals, signalled, acceptor, socket, armed, conns, died, failures>>

(* The handler of the signal set: IoContextPool::stop. *)
StopPool ==
  /\ signalled /\ Runs(signals)
  /\ stopped' = [c \in Contexts |-> TRUE]
  /\ UNCHANGED <<main, nextContext, thread, signals, signalled, acceptor, socket, armed, conns, died, failures>>

ThreadEnds(c) ==
  /\ thread[c] = "running" /\ stopped[c]
  /\ thread' = [thread EXCEPT ![c] = "ended"]
  /\ UNCHANGED <<main, nextContext, stopped, signals, signalled, acceptor, socket, armed, conns, died, failures>>

(* run() has joined all threads. *)
RunReturns ==
  /\ main = "run" /\ \A c \in Contexts : thread[c] = "ended"
  /\ main' = "returned"
  /\ UNCHANGED <<nextContext, thread, stopped, signals, signalled, acceptor, socket, armed, conns, died, failures>>

ServerStep ==
  \/ StopPool \/ RunReturns
  \/ \E c \in Contexts : ThreadEnds(c)
  \/ \E i \in DOMAIN conns : \E st \in {"started", "over"} : ConnectionStep(i, st)

ServerNext ==
  \/ MakeSignalSet \/ MakeServerFails \/ Run \/ Signal
  \/ \E s \in Servers : MakeServer(s) \/ Accept(s) \/ AcceptError(s) \/ AcceptThrows(s)
  \/ \E i \in DOMAIN conns : PeerActs(i) \/ ConnectionThrows(i)
  \/ ServerStep

ServerSpec == ServerInit /\ [][ServerNext]_serverVars

-----------------------------------------------------------------------------
(* A server goes on accepting, whatever connections and accepts fail, as   *)
(* long as the thread of its acceptor is alive.                            *)
AcceptGoesOn ==
  main = "run" => \A s \in Servers : armed[s] \/ acceptor[s] \in died

(* As long as no accept fails the connections are spread evenly, although  *)
(* the servers take contexts for other things and at different times: each *)
(* server can make one context too busy with its first connection, and     *)
(* leave another one idle with the socket it keeps.                        *)
Load(c) == Cardinality({i \in DOMAIN conns : conns[i].at = c})
Balanced ==
  failures = 0 /\ conns # <<>> =>
    \A c, d \in Contexts : Load(c) <= Load(d) + 2 * Cardinality(Servers) - 1

(* Whatever fails, the servers go on accepting and use the whole pool      *)
(* (async_server.h:98-117, io_context_pool.h:104-110).                      *)
ServersGoOn == AcceptGoesOn /\ Balanced

(* A signal ends the program, unless the thread that would handle it died. *)
SignalEndsRun ==
  signalled /\ main = "run" ~> (main = "returned" \/ signals \in died)

(* What a peer sends is handled, whatever happens to other connections, to *)
(* accepting and to other threads, unless its connection was given to a    *)
(* context whose thread has died, which the pool goes on handing out. A    *)
(* peer that sends nothing is waited for: there is no timeout              *)
(* (io_context_pool.h:62-70, async_server.h:76-96).                        *)
ConnectionsServed ==
  \A i \in 1..MaxConnections :
    (Len(conns) >= i /\ conns[i].input)
      ~> \/ main = "returned" \/ \E c \in Contexts : stopped[c]
         \/ Len(conns) >= i /\ (~conns[i].input \/ conns[i].at \in died)
=============================================================================
