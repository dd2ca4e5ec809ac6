----------------------------- MODULE PacketFifo -----------------------------
(***************************************************************************)
(* What the send side of a connection promises: packets leave the broker   *)
(* one at a time, whole, and in the order in which addSendPacket accepted  *)
(* them.  A packet that cannot be serialized is skipped, and after a write *)
(* error nothing leaves any more.                                          *)
(***************************************************************************)
EXTENDS Sequences

CONSTANTS Packets, Bad

VARIABLES
  waiting,  \* accepted and not yet completely written
  wire,     \* what has been written to the socket
  broken    \* a write has failed

fvars == <<waiting, wire, broken>>

Init == waiting = <<>> /\ wire = <<>> /\ broken = FALSE

Accept(m) ==
  /\ waiting' = Append(waiting, m)
  /\ UNCHANGED <<wire, broken>>

Transmit ==
  /\ ~broken
  /\ waiting # <<>> /\ Head(waiting) \notin Bad
  /\ waiting' = Tail(waiting)
  /\ wire' = Append(wire, Head(waiting))
  /\ UNCHANGED broken

Skip ==
  /\ ~broken
  /\ waiting # <<>> /\ Head(waiting) \in Bad
  /\ waiting' = Tail(waiting)
  /\ UNCHANGED <<wire, broken>>

Break ==
  /\ ~broken
  /\ waiting # <<>>
  /\ waiting' = Tail(waiting)
  /\ broken' = TRUE
  /\ UNCHANGED wire

Next == (\E m \in Packets : Accept(m)) \/ Transmit \/ Skip \/ Break

Spec == Init /\ [][Next]_fvars
=============================================================================
