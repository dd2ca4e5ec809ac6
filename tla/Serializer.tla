------------------------------ MODULE Serializer ------------------------------
(***************************************************************************)
(* acatl::mqtt::Serializer and the encoders of mqtt_utils.h.  A packet is a *)
(* record with its type; strings and payloads are sequences of bytes.      *)
(***************************************************************************)
EXTENDS Naturals, Sequences, SequencesExt

(* The control packet types in the order of their codes 1..14. *)
PacketTypes ==
  <<"Connect", "Connack", "Publish", "Puback", "Pubrec", "Pubrel", "Pubcomp",
    "Subscribe", "Suback", "Unsubscribe", "Unsuback", "Pingreq", "Pingresp",
    "Disconnect">>

TypeCode(type) == 16 * CHOOSE n \in DOMAIN PacketTypes : PacketTypes[n] = type

ProtocolName == <<77, 81, 84, 84>>

Flag(set, value) == IF set THEN value ELSE 0

(* RunlengthEncoder::encode *)
EncodeLength[n \in Nat] ==
  IF n < 128 THEN <<n>> ELSE <<(n % 128) + 128>> \o EncodeLength[n \div 128]

(* Two bytes, the high one first; what does not fit 16 bits is cut off. *)
EncodeShort(n) == <<(n \div 256) % 256, n % 256>>

(* StringEncoder::encode *)
EncodeString(s) == EncodeShort(Len(s)) \o s

-----------------------------------------------------------------------------
ConnectFlags(p) ==
  Flag(p.userNameFlag, 128) + Flag(p.passwordFlag, 64) + Flag(p.willRetain, 32)
    + 8 * (p.willQoS % 4) + Flag(p.willFlag, 4) + Flag(p.cleanSession, 2)

ConnectStrings(p) ==
  EncodeString(p.clientId)
    \o (IF p.willFlag THEN EncodeString(p.willTopic) \o EncodeString(p.willMessage)
                      ELSE <<>>)
    \o (IF p.userNameFlag THEN EncodeString(p.userName) ELSE <<>>)
    \o (IF p.passwordFlag THEN EncodeString(p.password) ELSE <<>>)

(* What follows the remaining length.  A PUBLISH is always written without  *)
(* flags and packet identifier.                                             *)
Content(p) ==
  CASE p.type = "Connect" ->
         EncodeString(ProtocolName) \o <<4, ConnectFlags(p)>>
           \o EncodeShort(p.keepAlive) \o ConnectStrings(p)
    [] p.type = "Connack" -> <<p.flag, p.code>>
    [] p.type = "Publish" -> EncodeString(p.topic) \o p.payload
    [] p.type = "Subscribe" ->
         FoldLeft(LAMBDA s, f : s \o EncodeString(f.filter) \o <<f.qos>>,
                  EncodeShort(p.id), p.filters)
    [] p.type = "Suback" -> EncodeShort(p.id) \o p.qos
    [] OTHER -> <<>>

Serializable ==
  {"Connect", "Connack", "Publish", "Subscribe", "Suback", "Pingresp",
   "Disconnect"}

(* Serializer::serialize for the types it knows.  The length of a SUBACK is *)
(* written into a single byte.                                              *)
Serialize(p) ==
  LET n == Len(Content(p))
  IN  <<TypeCode(p.type) + Flag(p.type = "Subscribe", 2)>>
        \o (IF p.type = "Suback" THEN <<n % 256>> ELSE EncodeLength[n])
        \o Content(p)

(* The size the buffer has when the packet is written. *)
BufferSize(p, size) ==
  LET needed == IF p.type = "Suback" THEN Len(p.qos) + 2
                                     ELSE Len(Content(p)) + 2
  IN  IF size < needed THEN needed ELSE size
=============================================================================
