------------------------------ MODULE MQTTStream ------------------------------
(***************************************************************************)
(* A stream of packets from a peer to the parser of a connection.  Packets *)
(* the library can write are written by its Serializer into a buffer that  *)
(* is used again, the others as the MQTT standard has them.                *)
(*                                                                         *)
(* The parser takes one byte at a time, so it does not matter how the      *)
(* bytes are cut into reads, and a packet is put on the wire when the last *)
(* one has been read.                                                      *)
(***************************************************************************)
EXTENDS MQTTParser

CONSTANTS
  PeerPackets,   \* what a peer sends
  MaxSends,      \* bound on the packets of a run
  Malformed,     \* bytes a peer may send in the place of the right ones
  BufferStart    \* the size of _writeBuf in Connection

VARIABLES
  sent,          \* history: the packets put on the wire
  input,         \* bytes on the wire
  malformed,     \* history: a byte was not the right one
  size,          \* the size of the buffer of the serializer
  written        \* the bytes of the last packet it wrote

streamVars == <<parser, sent, input, malformed, size, written>>

StreamAssumption ==
  /\ Garbage # {} /\ Garbage \subseteq 0..65535
  /\ Malformed \subseteq 0..255

ASSUME StreamAssumption

-----------------------------------------------------------------------------
BySerializer(p) ==
  p.type \in Serializable /\ (p.type = "Publish" => p.qos = 0)

(* A packet of a peer that the Serializer cannot write. *)
PeerBytes(p) ==
  LET content == IF p.type = "Publish"
                   THEN EncodeString(p.topic) \o EncodeShort(p.id) \o p.payload
                   ELSE <<>>
      flags   == IF p.type = "Publish" THEN 2 * p.qos
                 ELSE Flag(p.type \in {"Pubrel", "Unsubscribe"}, 2)
  IN  <<TypeCode(p.type) + flags>> \o EncodeLength[Len(content)] \o content

StreamInit ==
  /\ ParserInit
  /\ sent = <<>>
  /\ input = <<>>
  /\ malformed = FALSE
  /\ size = BufferStart
  /\ written = 0

Send(p) ==
  /\ open /\ input = <<>> /\ Len(sent) < MaxSends
  /\ sent' = Append(sent, p)
  /\ IF BySerializer(p)
       THEN /\ input' = Serialize(p)
            /\ size' = BufferSize(p, size)
            /\ written' = Len(Serialize(p))
       ELSE input' = PeerBytes(p) /\ UNCHANGED <<size, written>>
  /\ UNCHANGED <<parser, malformed>>

(* A byte is read: the one on the wire, or another one if the peer gets it  *)
(* wrong.                                                                   *)
Read(b) ==
  /\ input # <<>>
  /\ Parse(b)
  /\ input' = Tail(input)
  /\ malformed' = (malformed \/ b # Head(input))
  /\ UNCHANGED <<sent, size, written>>

ReadByte == input # <<>> /\ Read(Head(input))

ReadMalformed(b) == ~malformed /\ input # <<>> /\ b # Head(input) /\ Read(b)

StreamNext ==
  \/ \E p \in PeerPackets : Send(p)
  \/ ReadByte
  \/ \E b \in Malformed : ReadMalformed(b)

-----------------------------------------------------------------------------
(* The parser is in a state of the type it is parsing, and its counters are *)
(* in the range of their C++ types.                                         *)
StreamTypeOK ==
  /\ open \in BOOLEAN /\ malformed \in BOOLEAN
  /\ status \in {"Start", "Connack"} \cup Lengthy
  /\ hdr.length \in 0..(128 * 128 * 128 * 128 - 1)
  /\ hdr.multiplier \in {1, 128, 128 * 128, 128 * 128 * 128, 128 * 128 * 128 * 128}
  /\ status \in Lengthy => left \in 0..hdr.length
  /\ str.length \in 0..65535
  /\ Len(ident) <= 2

(* The standard allows these, but the parsers do not finish them: an empty  *)
(* payload with QoS 0, a user name without a password.  The others are      *)
(* errors of the peer, or not implemented.                                  *)
Understood(p) ==
  CASE p.type = "Connect" ->
         /\ p.clientId = <<>> => p.cleanSession
         /\ p.userNameFlag = p.passwordFlag
    [] p.type = "Publish" ->
         ValidTopic(p.topic) /\ (p.qos = 0 => p.payload # <<>>)
    [] p.type = "Subscribe" ->
         p.filters # <<>> /\ \A f \in Range(p.filters) : ValidFilter(f.filter)
    [] OTHER -> p.type \in Serializable \cup {"Pingreq"}

(* The packets of the type among the first i that were sent. *)
SentUpTo(i, type) == SelectSeq(SubSeq(sent, 1, i), LAMBDA p : p.type = type)

(* The packet q is what the peer meant by the i-th one it sent.  Only the   *)
(* two low will QoS levels survive; filters and levels of earlier packets   *)
(* of the connection are still there.                                       *)
SameConnect(p, q) ==
  /\ \A f \in {"cleanSession", "willFlag", "willRetain", "passwordFlag",
               "userNameFlag", "keepAlive"} : p[f] = q[f]
  /\ q.clientId = IF p.clientId = <<>> THEN Uuid ELSE p.clientId
  /\ p.willQoS # 2 => q.willQoS = p.willQoS
  /\ p.willFlag => p.willTopic = q.willTopic /\ p.willMessage = q.willMessage
  /\ p.userNameFlag => p.userName = q.userName /\ p.password = q.password

SameAs(i, q) ==
  LET p == sent[i]
  IN  /\ p.type = q.type
      /\ CASE p.type = "Connect" -> SameConnect(p, q)
           [] p.type = "Publish" ->
                /\ p.topic = q.topic /\ p.payload = q.payload
                /\ p.qos > 0 => p.id = q.id
           [] p.type = "Subscribe" ->
                /\ p.id = q.id
                /\ Range(p.filters) \subseteq Range(q.filters)
                /\ Range(q.filters) \subseteq
                     UNION {Range(r.filters) : r \in Range(SentUpTo(i, p.type))}
           [] p.type = "Suback" -> p.id = q.id /\ IsSuffix(p.qos, q.qos)
           [] OTHER -> p = q

(* What a peer sends arrives: the processor gets the packets that were      *)
(* sent, in their order and with their contents, up to the first one that   *)
(* is not understood, whatever was parsed on the connection before.         *)
Delivered ==
  ~malformed =>
    /\ Len(packets) <= Len(sent)
    /\ \A i \in DOMAIN packets : SameAs(i, packets[i])
    /\ input = <<>> \/ ~open =>
         \E n \in 0..Len(sent) :
           /\ Len(packets) = n
           /\ \A i \in 1..n : Understood(sent[i])
           /\ n < Len(sent) => ~Understood(sent[n + 1])

(* The buffer is long enough for the packet the Serializer writes into it,  *)
(* if the remaining length takes one byte and a SUBACK does not reach the   *)
(* end of the buffer the connection starts with.                            *)
ShortPacket(p) ==
  /\ Len(Content(p)) < 128
  /\ p.type = "Suback" => Len(Serialize(p)) <= BufferStart

BufferHoldsPacket ==
  sent # <<>> /\ BySerializer(Last(sent)) /\ ShortPacket(Last(sent))
    => written <= size

(* Packets arrive as they were sent, from the buffer they are written to    *)
(* through the counters of the parser.                                      *)
PacketsArrive == StreamTypeOK /\ Delivered /\ BufferHoldsPacket
=============================================================================
