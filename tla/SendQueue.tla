----------------------------- MODULE SendQueue -----------------------------
(***************************************************************************)
(* The send side of one broker connection.  Any io thread may call         *)
(* addSendPacket, the thread of the connection itself with a reply and the *)
(* other ones with a PUBLISH; the completion handler of async_write sends  *)
(* the next packet.  _sendMutex guards _sendPackets and _isSending, but it *)
(* is released between queueing a packet, claiming _isSending and starting *)
(* to send; _writeBuf and the socket are guarded by _isSending alone.      *)
(***************************************************************************)
EXTENDS Naturals, Sequences

CONSTANTS
  Senders,    \* the threads that call addSendPacket
  Io,         \* the thread that runs the completion handler
  Packets,
  Bad,        \* the packets Serializer::serialize refuses
  MaxPackets  \* bound on the packets ever queued

ASSUME SendAssumption ==
  /\ Io \notin Senders
  /\ Bad \subseteq Packets
  /\ MaxPackets \in Nat

Actors == Senders \cup {Io}

VARIABLES
  sendPackets,  \* _sendPackets
  isSending,    \* _isSending
  inFlight,     \* the packet in _writeBuf that async_write is writing
  pc,           \* where an actor is in addSendPacket
  wire,         \* history: the packets written, in order
  broken,       \* a write has failed
  accepted      \* number of packets queued so far

queueVars == <<sendPackets, isSending, inFlight, pc, wire, broken, accepted>>

QueueTypeOK ==
  /\ sendPackets \in Seq(Packets)
  /\ isSending \in BOOLEAN
  /\ inFlight \in Seq(Packets)
  /\ pc \in [Actors -> {"idle", "queued", "sending"}]
  /\ wire \in Seq(Packets)
  /\ broken \in BOOLEAN
  /\ accepted \in Nat

QueueInit ==
  /\ sendPackets = <<>>
  /\ isSending = FALSE
  /\ inFlight = <<>>
  /\ pc = [a \in Actors |-> "idle"]
  /\ wire = <<>>
  /\ broken = FALSE
  /\ accepted = 0

-----------------------------------------------------------------------------
(* addSendPacket: the packet is pushed under the mutex. *)
AddSendPacket(a, m) ==
  /\ accepted < MaxPackets
  /\ pc[a] = "idle"
  /\ sendPackets' = Append(sendPackets, m)
  /\ pc' = [pc EXCEPT ![a] = "queued"]
  /\ accepted' = accepted + 1
  /\ UNCHANGED <<isSending, inFlight, wire, broken>>

(* Mutant of SendPackages: _isSending is not looked at. *)
SendPackagesUnchecked(a) ==
  /\ pc[a] = "queued"
  /\ isSending' = TRUE
  /\ pc' = [pc EXCEPT ![a] = "sending"]
  /\ UNCHANGED <<sendPackets, inFlight, wire, broken, accepted>>

(* sendPackages: return if somebody is sending, else claim the role. *)
SendPackages(a) ==
  /\ pc[a] = "queued"
  /\ isSending' = TRUE
  /\ pc' = [pc EXCEPT ![a] = IF isSending THEN "idle" ELSE "sending"]
  /\ UNCHANGED <<sendPackets, inFlight, wire, broken, accepted>>

(* Mutants of DoSendPackages: the role is not given up when the queue is    *)
(* empty, and the newest packet is sent first.                              *)
DoSendKeepsRole(a) ==
  /\ pc[a] = "sending"
  /\ pc' = [pc EXCEPT ![a] = "idle"]
  /\ IF sendPackets = <<>>
       THEN UNCHANGED <<isSending, sendPackets, inFlight>>
       ELSE /\ sendPackets' = Tail(sendPackets)
            /\ IF Head(sendPackets) \in Bad
                 THEN isSending' = FALSE /\ UNCHANGED inFlight
                 ELSE inFlight' = <<Head(sendPackets)>> /\ UNCHANGED isSending
  /\ UNCHANGED <<wire, broken, accepted>>
DoSendNewest(a) ==
  /\ pc[a] = "sending"
  /\ pc' = [pc EXCEPT ![a] = "idle"]
  /\ LET n == Len(sendPackets)
     IN  IF n = 0 \/ sendPackets[n] \in Bad
           THEN /\ isSending' = FALSE
                /\ sendPackets' = SubSeq(sendPackets, 1, n - 1)
                /\ UNCHANGED inFlight
           ELSE /\ inFlight' = <<sendPackets[n]>>
                /\ sendPackets' = SubSeq(sendPackets, 1, n - 1)
                /\ UNCHANGED isSending
  /\ UNCHANGED <<wire, broken, accepted>>

(* doSendPackages, under the mutex: with nothing left, or with a packet     *)
(* that cannot be serialized, the role is given up; otherwise the packet is *)
(* serialized into _writeBuf and async_write is started.                    *)
DoSendPackages(a) ==
  /\ pc[a] = "sending"
  /\ pc' = [pc EXCEPT ![a] = "idle"]
  /\ IF sendPackets = <<>>
       THEN /\ isSending' = FALSE
            /\ UNCHANGED <<sendPackets, inFlight>>
       ELSE /\ sendPackets' = Tail(sendPackets)
            /\ IF Head(sendPackets) \in Bad
                 THEN isSending' = FALSE /\ UNCHANGED inFlight
                 ELSE inFlight' = <<Head(sendPackets)>> /\ UNCHANGED isSending
  /\ UNCHANGED <<wire, broken, accepted>>

(* Mutant of Written: the completion handler gives up the role instead of   *)
(* looking for the next packet.                                             *)
WrittenAndDone ==
  /\ inFlight # <<>>
  /\ pc[Io] = "idle"
  /\ wire' = wire \o inFlight
  /\ inFlight' = <<>>
  /\ isSending' = FALSE
  /\ UNCHANGED <<sendPackets, pc, broken, accepted>>

(* The completion handler: after a write it sends the next packet.          *)
Written ==
  /\ inFlight # <<>>
  /\ pc[Io] = "idle"
  /\ wire' = wire \o inFlight
  /\ inFlight' = <<>>
  /\ pc' = [pc EXCEPT ![Io] = "sending"]
  /\ UNCHANGED <<sendPackets, isSending, broken, accepted>>

(* After an error it only logs: _isSending stays set. *)
WriteError ==
  /\ inFlight # <<>>
  /\ pc[Io] = "idle"
  /\ inFlight' = <<>>
  /\ broken' = TRUE
  /\ UNCHANGED <<sendPackets, isSending, pc, wire, accepted>>

-----------------------------------------------------------------------------
QueueNext ==
  \/ \E a \in Senders, m \in Packets : AddSendPacket(a, m)
  \/ \E a \in Senders : SendPackages(a)
  \/ \E a \in Actors : DoSendPackages(a)
  \/ Written
  \/ WriteError

QueueSpec == QueueInit /\ [][QueueNext]_queueVars

(* A thread inside addSendPacket or the handler goes on, and async_write    *)
(* ends.  It does not matter which of them goes first.                      *)
QueueStep ==
  \/ \E a \in Senders : SendPackages(a)
  \/ \E a \in Actors : DoSendPackages(a)
  \/ Written \/ WriteError

QueueFairness == WF_queueVars(QueueStep)

-----------------------------------------------------------------------------
(* At most one thread is in doSendPackages, and none while a write is in    *)
(* flight: _writeBuf is never overwritten under an async_write, and two     *)
(* packets never interleave on the socket.                                  *)
OneWriter ==
  /\ \A a, b \in Actors : pc[a] = "sending" /\ pc[b] = "sending" => a = b
  /\ inFlight # <<>> => \A a \in Actors : pc[a] # "sending"

(* The send side is the queue its callers think of: in order, nothing       *)
(* duplicated, nothing lost but what cannot be serialized.                  *)
Fifo == INSTANCE PacketFifo WITH waiting <- inFlight \o sendPackets
FifoOrder == Fifo!Spec

Dropped == accepted > Len(wire) + Len(inFlight) + Len(sendPackets)

(* No lost wakeup: unless a write fails or a packet that cannot be          *)
(* serialized is dropped, every packet that is queued is written in the     *)
(* end, although the mutex is released between the push, the test of        *)
(* _isSending and the send.                                                 *)
AllWritten ==
  \A n \in 1..MaxPackets : accepted >= n ~> broken \/ Dropped \/ Len(wire) >= n

(* Even when a packet could not be serialized, what is queued is never left *)
(* behind by a claimed role nobody has: _isSending is set exactly while a   *)
(* thread or a write is at work, or a write has failed.                     *)
RoleIsTaken ==
  isSending <=> \/ broken
                \/ inFlight # <<>>
                \/ \E a \in Actors : pc[a] = "sending"
=============================================================================
