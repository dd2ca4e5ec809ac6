-------------------------- MODULE SendQueue_proofs --------------------------
(***************************************************************************)
(* Proofs about SendQueue, for any number of threads, packets and calls.   *)
(***************************************************************************)
EXTENDS SendQueue, SequenceTheorems, TLAPS

(* One packet fits into _writeBuf, and after a write error nobody sends. *)
Role ==
  /\ inFlight = <<>> \/ \E m \in Packets \ Bad : inFlight = <<m>>
  /\ broken => inFlight = <<>> /\ \A a \in Actors : pc[a] # "sending"
  /\ pc[Io] # "queued"

Inv == QueueTypeOK /\ OneWriter /\ RoleIsTaken /\ Role

(* A sequence of one element.                                              *)
LEMMA Singleton ==
  ASSUME NEW m \in Packets
  PROVE  <<m>> \in Seq(Packets) /\ <<m>> # <<>>
<1>1. <<m>> \in Seq(Packets) /\ Len(<<m>>) = 1
  OBVIOUS
<1> QED
  BY <1>1, EmptySeq

(* The invariant holds at the start.                                       *)
LEMMA InitInv == QueueInit => Inv
<1> SUFFICES ASSUME QueueInit PROVE Inv
  OBVIOUS
<1> USE DEF QueueInit, Actors
<1>1. QueueTypeOK
  BY EmptySeq DEF QueueTypeOK
<1>2. OneWriter /\ Role
  BY DEF OneWriter, Role
<1>3. RoleIsTaken
  BY DEF RoleIsTaken
<1> QED
  BY <1>1, <1>2, <1>3 DEF Inv

(* Every step keeps the invariant.                                         *)
LEMMA NextInv == Inv /\ [QueueNext]_queueVars => Inv'
<1> SUFFICES ASSUME Inv, [QueueNext]_queueVars PROVE Inv'
  OBVIOUS
<1> USE SendAssumption DEF SendAssumption, Inv, QueueTypeOK, Actors
<1>1. ASSUME NEW a \in Senders, NEW m \in Packets, AddSendPacket(a, m)
      PROVE  Inv'
  <2> USE <1>1 DEF AddSendPacket
  <2>1. QueueTypeOK'
    OBVIOUS
  <2>2. OneWriter' /\ RoleIsTaken' /\ Role'
    BY DEF OneWriter, RoleIsTaken, Role
  <2> QED
    BY <2>1, <2>2
<1>2. ASSUME NEW a \in Senders, SendPackages(a)
      PROVE  Inv'
  <2> USE <1>2 DEF SendPackages
  <2>1. QueueTypeOK'
    OBVIOUS
  <2>2. OneWriter' /\ RoleIsTaken' /\ Role'
    BY DEF OneWriter, RoleIsTaken, Role
  <2> QED
    BY <2>1, <2>2
<1>3. ASSUME NEW a \in Actors, DoSendPackages(a)
      PROVE  Inv'
  <2> USE <1>3 DEF DoSendPackages
  <2>1. CASE sendPackets = <<>>
    BY <2>1 DEF OneWriter, RoleIsTaken, Role
  <2>2. CASE sendPackets # <<>>
    <3>1. Head(sendPackets) \in Packets /\ Tail(sendPackets) \in Seq(Packets)
      BY <2>2
    <3>2. CASE Head(sendPackets) \in Bad
      BY <2>2, <3>1, <3>2 DEF OneWriter, RoleIsTaken, Role
    <3>3. CASE Head(sendPackets) \notin Bad
      <4>1. inFlight' = <<Head(sendPackets)>> /\ inFlight' # <<>>
        BY <2>2, <3>1, <3>3, Singleton
      <4>2. QueueTypeOK'
        BY <2>2, <3>1, <3>3, <4>1, Singleton
      <4>3. OneWriter' /\ Role'
        BY <2>2, <3>1, <3>3, <4>1 DEF OneWriter, RoleIsTaken, Role
      <4>4. RoleIsTaken'
        BY <2>2, <3>3, <4>1 DEF RoleIsTaken
      <4> QED
        BY <4>2, <4>3, <4>4
    <3> QED
      BY <3>2, <3>3
  <2> QED
    BY <2>1, <2>2
<1>4. CASE Written
  <2> USE <1>4 DEF Written
  <2>1. QueueTypeOK'
    OBVIOUS
  <2>2. OneWriter' /\ RoleIsTaken' /\ Role'
    BY DEF OneWriter, RoleIsTaken, Role
  <2> QED
    BY <2>1, <2>2
<1>5. CASE WriteError
  BY <1>5 DEF WriteError, OneWriter, RoleIsTaken, Role
<1>6. CASE UNCHANGED queueVars
  BY <1>6 DEF queueVars, OneWriter, RoleIsTaken, Role
<1> QED
  BY <1>1, <1>2, <1>3, <1>4, <1>5, <1>6 DEF QueueNext

(* Every variable keeps its type. *)
THEOREM TypeCorrect == QueueSpec => []QueueTypeOK
<1>1. Inv => QueueTypeOK
  BY DEF Inv
<1> QED
  BY InitInv, NextInv, <1>1, PTL DEF QueueSpec

(* _isSending makes the send side exclusive: one thread serializes into     *)
(* _writeBuf at a time, and none while async_write reads it.                *)
THEOREM WriteExclusion == QueueSpec => []OneWriter
<1>1. Inv => OneWriter
  BY DEF Inv
<1> QED
  BY InitInv, NextInv, <1>1, PTL DEF QueueSpec

(* _isSending is never left set without a thread or a write to clear it,    *)
(* except by a write error.                                                 *)
THEOREM RoleTaken == QueueSpec => []RoleIsTaken
<1>1. Inv => RoleIsTaken
  BY DEF Inv
<1> QED
  BY InitInv, NextInv, <1>1, PTL DEF QueueSpec

(* A step of the send side is a step of the fifo or invisible to it. *)
LEMMA StepSimulation == Inv /\ [QueueNext]_queueVars => [Fifo!Next]_(Fifo!fvars)
<1> SUFFICES ASSUME Inv, [QueueNext]_queueVars PROVE [Fifo!Next]_(Fifo!fvars)
  OBVIOUS
<1> DEFINE waiting == inFlight \o sendPackets
<1> USE SendAssumption DEF SendAssumption, Inv, QueueTypeOK, Actors
<1>1. ASSUME NEW a \in Senders, NEW m \in Packets, AddSendPacket(a, m)
      PROVE  [Fifo!Next]_(Fifo!fvars)
  <2>1. waiting' = Append(waiting, m)
    BY <1>1 DEF AddSendPacket
  <2>2. Fifo!Accept(m)
    BY <1>1, <2>1 DEF AddSendPacket, Fifo!Accept
  <2> QED
    BY <2>2 DEF Fifo!Next
<1>2. ASSUME NEW a \in Senders, SendPackages(a)
      PROVE  [Fifo!Next]_(Fifo!fvars)
  BY <1>2 DEF SendPackages, Fifo!fvars
<1>3. ASSUME NEW a \in Actors, DoSendPackages(a)
      PROVE  [Fifo!Next]_(Fifo!fvars)
  <2>1. inFlight = <<>> /\ ~broken
    BY <1>3 DEF DoSendPackages, OneWriter, Role
  <2>2. waiting = sendPackets
    BY <2>1
  <2>3. CASE sendPackets = <<>>
    BY <1>3, <2>3 DEF DoSendPackages, Fifo!fvars
  <2>4. CASE sendPackets # <<>> /\ Head(sendPackets) \in Bad
    <3>1. waiting' = Tail(waiting)
      BY <1>3, <2>1, <2>2, <2>4 DEF DoSendPackages
    <3>2. Fifo!Skip
      BY <1>3, <2>1, <2>2, <2>4, <3>1 DEF DoSendPackages, Fifo!Skip
    <3> QED
      BY <3>2 DEF Fifo!Next
  <2>5. CASE sendPackets # <<>> /\ Head(sendPackets) \notin Bad
    <3>1. /\ inFlight' = <<Head(sendPackets)>>
          /\ sendPackets' = Tail(sendPackets)
          /\ UNCHANGED <<wire, broken>>
      BY <1>3, <2>5 DEF DoSendPackages
    <3>2. waiting' = <<Head(sendPackets)>> \o Tail(sendPackets)
      BY <3>1
    <3>3. <<Head(sendPackets)>> \o Tail(sendPackets) = sendPackets
      BY <2>5
    <3> QED
      BY <2>2, <3>1, <3>2, <3>3 DEF Fifo!fvars
  <2> QED
    BY <2>3, <2>4, <2>5
<1>4. ASSUME inFlight # <<>>, inFlight' = <<>>, UNCHANGED sendPackets
      PROVE  /\ waiting # <<>>
             /\ <<Head(waiting)>> = inFlight
             /\ Head(waiting) \notin Bad
             /\ waiting' = Tail(waiting)
  <2>1. PICK m \in Packets \ Bad : inFlight = <<m>>
    BY <1>4 DEF Role
  <2>2. waiting = <<m>> \o sendPackets /\ waiting' = <<>> \o sendPackets
    BY <1>4, <2>1
  <2> HIDE DEF waiting
  <2> QED
    BY <2>1, <2>2
<1>5. CASE Written
  <2>1. wire' = wire \o <<Head(waiting)>> /\ ~broken /\ UNCHANGED broken
    BY <1>4, <1>5 DEF Written, Role
  <2>2. Head(waiting) \in Packets
    BY <1>5 DEF Written, Role
  <2>3. wire' = Append(wire, Head(waiting))
    BY <2>1, <2>2, AppendIsConcat
  <2>4. Fifo!Transmit
    BY <1>4, <1>5, <2>1, <2>3 DEF Written, Fifo!Transmit
  <2> QED
    BY <2>4 DEF Fifo!Next
<1>6. CASE WriteError
  <2>1. Fifo!Break
    BY <1>4, <1>6 DEF WriteError, Role, Fifo!Break
  <2> QED
    BY <2>1 DEF Fifo!Next
<1>7. CASE UNCHANGED queueVars
  BY <1>7 DEF queueVars, Fifo!fvars
<1> QED
  BY <1>1, <1>2, <1>3, <1>5, <1>6, <1>7 DEF QueueNext

(* The send side of a connection implements the packet fifo: what is        *)
(* written is what was queued, in order and without duplicates.             *)
THEOREM SendsInOrder == QueueSpec => FifoOrder
<1>1. QueueInit => Fifo!Init
  BY DEF QueueInit, Fifo!Init
<1> QED
  BY InitInv, NextInv, StepSimulation, <1>1, PTL
     DEF QueueSpec, FifoOrder, Fifo!Spec
=============================================================================
