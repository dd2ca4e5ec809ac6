------------------------------ MODULE MQTTParser ------------------------------
(***************************************************************************)
(* The MQTT parser of a connection, fed with one byte at a time by         *)
(* Connection::handle_read, which consumes a packet as soon as it is       *)
(* complete and gives up the connection at the first error.                *)
(*                                                                         *)
(* The parsers of the packet types are members of MQTTParser: what their   *)
(* reset leaves alone is still there when the next packet of the type is   *)
(* parsed.  Their string and identifier parsers are reset before each use. *)
(***************************************************************************)
EXTENDS Serializer, FiniteSetsExt

CONSTANTS
  Uuid,     \* a generated client identifier
  Garbage   \* what an uninitialized identifier may contain

VARIABLES
  open,     \* no error so far
  status,   \* MQTTParser::_status: "Start" or the type being parsed
  hdr,      \* the fixed header parser with its length decoder
  field,    \* _status of the parser of the type
  left,     \* _length of the parser of the type
  str,      \* its string parser
  ident,    \* its identifier parser: the bytes read
  pkt,      \* the packets the parsers of the types fill
  packets,  \* history: the packets handed to the processor
  body      \* history: bytes read since the fixed header

parser == <<open, status, hdr, field, left, str, ident, pkt, packets, body>>

Lengthy == {"Connect", "Publish", "Subscribe", "Suback"}

FreshHeader == [st |-> "Start", type |-> "None", flags |-> 0, length |-> 0,
                multiplier |-> 1]
FreshString == [st |-> "Start", length |-> 0, text |-> <<>>]

FreshPackets(garbage) ==
  [Connect   |-> [type |-> "Connect", cleanSession |-> FALSE,
                  willFlag |-> FALSE, willQoS |-> 0, willRetain |-> FALSE,
                  passwordFlag |-> FALSE, userNameFlag |-> FALSE,
                  keepAlive |-> garbage, clientId |-> <<>>, willTopic |-> <<>>,
                  willMessage |-> <<>>, userName |-> <<>>, password |-> <<>>],
   Connack   |-> [type |-> "Connack", flag |-> 0, code |-> 0],
   Publish   |-> [type |-> "Publish", topic |-> <<>>, id |-> garbage,
                  payload |-> <<>>],
   Subscribe |-> [type |-> "Subscribe", id |-> garbage, filters |-> <<>>],
   Suback    |-> [type |-> "Suback", id |-> garbage, qos |-> <<>>]]

ParserInit ==
  /\ open = TRUE
  /\ status = "Start"
  /\ hdr = FreshHeader
  /\ field = "None"
  /\ left = 0
  /\ str = FreshString
  /\ ident = <<>>
  /\ pkt \in {FreshPackets(g) : g \in Garbage}
  /\ packets = <<>>
  /\ body = 0

-----------------------------------------------------------------------------
Bit(b, value) == (b \div value) % 2 = 1

(* FixedHeader::validate *)
Validate(code, flags) ==
  /\ code \in DOMAIN PacketTypes
  /\ CASE PacketTypes[code] = "Publish" ->
            LET qos == (flags \div 2) % 4 IN qos # 3 /\ (Bit(flags, 8) => qos # 0)
       [] PacketTypes[code] \in {"Pubrel", "Subscribe", "Unsubscribe"} -> flags = 2
       [] OTHER -> flags = 0

(* TopicName::validate: no "+" and no "#". *)
ValidTopic(t) == ~Contains(t, 43) /\ ~Contains(t, 35)

(* TopicFilter::validate: "+" is a whole level, "#" the whole last one. *)
ValidFilter(f) ==
  \A i \in DOMAIN f :
    LET previous == IF i = 1 THEN 0 ELSE f[i - 1]
        next     == IF i = Len(f) THEN 47 ELSE f[i + 1]
    IN  /\ f[i] = 43 => previous \in {0, 47} /\ next = 47
        /\ f[i] = 35 => previous \in {0, 47} /\ i = Len(f)

(* StringParser::parse *)
StringParse(s, b) ==
  CASE s.st = "Start" ->
         [s EXCEPT !.st = "ReadLength", !.length = 256 * b]
    [] s.st = "ReadLength" ->
         [s EXCEPT !.length = @ + b,
                   !.st = IF s.length + b = 0 THEN "Ready" ELSE "Stringdata"]
    [] s.st = "Stringdata" ->
         [s EXCEPT !.text = Append(@, b),
                   !.length = @ - 1,
                   !.st = IF s.length = 1 THEN "Ready" ELSE @]

-----------------------------------------------------------------------------
(* The outcomes of a byte: the connection is given up and nothing of the    *)
(* parser is used any more, ...                                             *)
Reject == open' = FALSE /\ UNCHANGED <<status, hdr, field, packets>>

(* ... more bytes are needed, ... *)
More(f) == field' = f /\ UNCHANGED <<open, status, hdr, packets>>

(* ... or the packet is complete: consumePacket resets the parser and the   *)
(* packet goes to the processor.                                            *)
Consume(p) ==
  /\ packets' = Append(packets, p)
  /\ status' = "Start"
  /\ hdr' = FreshHeader
  /\ UNCHANGED <<open, field>>

(* Mutant of Complete: the rest of the packet is left in the stream. *)
CompleteEarly == Consume(pkt'[status])

(* A parser that has a length also insists on having used all of it. *)
Complete == IF left = 1 THEN Consume(pkt'[status]) ELSE Reject

(* The string that ends with byte b, and what Then does with it. *)
Text(b) == StringParse(str, b).text

ReadString(b, Then) ==
  LET s == StringParse(str, b)
  IN  /\ UNCHANGED ident
      /\ IF s.st = "Ready"
           THEN str' = FreshString /\ Then
           ELSE str' = s /\ More(field) /\ UNCHANGED pkt

(* The same for a packet identifier. *)
Identifier(b) == 256 * ident[1] + b

ReadIdentifier(b, Then) ==
  /\ UNCHANGED str
  /\ ident' = Append(ident, b)
  /\ IF Len(ident) = 1
       THEN Then
       ELSE More(field) /\ UNCHANGED pkt

-----------------------------------------------------------------------------
(* FixedHeaderParser: the first byte ... *)
ParseType(b) ==
  /\ hdr.st = "Start"
  /\ IF Validate(b \div 16, b % 16)
       THEN /\ hdr' = [hdr EXCEPT !.st = "ReadLength",
                                  !.type = PacketTypes[b \div 16],
                                  !.flags = b % 16]
            /\ UNCHANGED <<open, status, field, packets>>
       ELSE Reject
  /\ UNCHANGED <<left, str, ident, pkt>>

(* The first state of the parser of a type. *)
FirstField(type) ==
  CASE type = "Connect"               -> "ProtocolName"
    [] type = "Connack"               -> "ConnectAcknowledgeFlag"
    [] type = "Publish"               -> "TopicName"
    [] type \in {"Subscribe", "Suback"} -> "PacketIdentifier"

(* Mutant of StartPacket: the payload of the last PUBLISH is kept. *)
StartPacketDirty(type, length) ==
  /\ status' = type
  /\ field' = FirstField(type)
  /\ left' = length
  /\ str' = FreshString
  /\ ident' = <<>>
  /\ hdr' = [hdr EXCEPT !.st = "Ready", !.length = length]
  /\ UNCHANGED <<pkt, open, packets>>

(* The parser of the type is reset.  Only PUBLISH forgets its last payload; *)
(* SUBSCRIBE keeps its filters and SUBACK its levels.                       *)
StartPacket(type, length) ==
  /\ status' = type
  /\ field' = FirstField(type)
  /\ left' = length
  /\ str' = FreshString
  /\ ident' = <<>>
  /\ pkt' = IF type = "Publish" THEN [pkt EXCEPT !.Publish.payload = <<>>]
                                ELSE pkt
  /\ hdr' = [hdr EXCEPT !.st = "Ready", !.length = length]
  /\ UNCHANGED <<open, packets>>

(* ... and the remaining length, at most four bytes.  A PINGREQ, PINGRESP   *)
(* or DISCONNECT is complete whatever its length says.                      *)
ParseLength(b) ==
  /\ hdr.st = "ReadLength"
  /\ LET length == hdr.length + (b % 128) * hdr.multiplier
     IN  \/ /\ hdr.multiplier > 128 * 128 * 128
            /\ Reject
            /\ UNCHANGED <<left, str, ident, pkt>>
         \/ /\ hdr.multiplier <= 128 * 128 * 128 /\ b >= 128
            /\ hdr' = [hdr EXCEPT !.length = length, !.multiplier = @ * 128]
            /\ UNCHANGED <<open, status, field, left, str, ident, pkt, packets>>
         \/ /\ hdr.multiplier <= 128 * 128 * 128 /\ b < 128
            /\ IF hdr.type \in Lengthy \cup {"Connack"}
                 THEN StartPacket(hdr.type, length)
                 ELSE /\ IF hdr.type \in {"Pingreq", "Pingresp", "Disconnect"}
                           THEN Consume([type |-> hdr.type])
                           ELSE Reject
                      /\ UNCHANGED <<left, str, ident, pkt>>

ParseHeader(b) == status = "Start" /\ (ParseType(b) \/ ParseLength(b))

-----------------------------------------------------------------------------
(* ConnectParser: the bytes between protocol name and client identifier.    *)
(* Only the low bit of the will QoS level survives the cast to uint8_t.     *)
ConnectByte(b) ==
  /\ \/ /\ field = "ProtocolLevel"
        /\ IF b = 4 THEN More("ConnectFlags") ELSE Reject
        /\ UNCHANGED pkt
     \/ /\ field = "ConnectFlags" /\ Bit(b, 1)
        /\ Reject
        /\ UNCHANGED pkt
     \/ /\ field = "ConnectFlags" /\ ~Bit(b, 1)
        /\ pkt' = [pkt EXCEPT !.Connect.cleanSession = Bit(b, 2),
                              !.Connect.willFlag = Bit(b, 4),
                              !.Connect.willQoS = (b \div 8) % 2,
                              !.Connect.willRetain = Bit(b, 32),
                              !.Connect.passwordFlag = Bit(b, 64),
                              !.Connect.userNameFlag = Bit(b, 128)]
        /\ More("KeepAliveMsb")
     \/ /\ field = "KeepAliveMsb"
        /\ pkt' = [pkt EXCEPT !.Connect.keepAlive = 256 * b]
        /\ More("KeepAliveLsb")
     \/ /\ field = "KeepAliveLsb"
        /\ pkt' = [pkt EXCEPT !.Connect.keepAlive = @ + b]
        /\ More("ClientId")
  /\ UNCHANGED <<str, ident>>

(* The packet with string t stored in the field that has just been read. *)
StoreString(f, t) ==
  CASE f = "ProtocolName" -> pkt
    [] f = "ClientId"     -> [pkt EXCEPT !.Connect.clientId =
                                           IF t = <<>> THEN Uuid ELSE t]
    [] f = "WillTopic"    -> [pkt EXCEPT !.Connect.willTopic = t]
    [] f = "WillMessage"  -> [pkt EXCEPT !.Connect.willMessage = t]
    [] f = "Username"     -> [pkt EXCEPT !.Connect.userName = t]
    [] f = "Password"     -> [pkt EXCEPT !.Connect.password = t]

(* The field that follows a string; a user name is followed by a password,  *)
(* whatever the password flag says.                                         *)
AfterString(f) ==
  CASE f = "ProtocolName" -> "ProtocolLevel"
    [] f = "WillTopic"    -> "WillMessage"
    [] f = "Username"     -> "Password"
    [] f = "Password"     -> "Ready"
    [] f \in {"ClientId", "WillMessage"} ->
         IF f = "ClientId" /\ pkt.Connect.willFlag THEN "WillTopic"
         ELSE IF pkt.Connect.userNameFlag THEN "Username" ELSE "Ready"

ConnectString(b) ==
  /\ field \in {"ProtocolName", "ClientId", "WillTopic", "WillMessage", "Username",
                "Password"}
  /\ ReadString(b,
       /\ pkt' = StoreString(field, Text(b))
       /\ IF \/ field = "ProtocolName" /\ Text(b) # ProtocolName
             \/ field = "ClientId" /\ Text(b) = <<>> /\ ~pkt.Connect.cleanSession
            THEN Reject
          ELSE IF AfterString(field) = "Ready" THEN Complete
          ELSE More(AfterString(field)))

ParseConnect(b) == status = "Connect" /\ (ConnectByte(b) \/ ConnectString(b))

(* ConnectAckParser, which does not look at the remaining length. *)
ParseConnack(b) ==
  /\ status = "Connack"
  /\ IF field = "ConnectAcknowledgeFlag"
       THEN IF b > 1
              THEN Reject /\ UNCHANGED pkt
              ELSE /\ pkt' = [pkt EXCEPT !.Connack.flag = b]
                   /\ More("ConnectReturnCode")
       ELSE IF b > 5
              THEN Reject /\ UNCHANGED pkt
              ELSE /\ pkt' = [pkt EXCEPT !.Connack.code = b]
                   /\ Consume(pkt'.Connack)
  /\ UNCHANGED <<left, str, ident>>

(* PublishParser; the QoS level of the header says whether there is a       *)
(* packet identifier.  A payload has at least one byte.                     *)
ParsePublish(b) ==
  /\ status = "Publish"
  /\ \/ /\ field = "TopicName"
        /\ ReadString(b,
             /\ pkt' = [pkt EXCEPT !.Publish.topic = Text(b)]
             /\ IF ~ValidTopic(Text(b)) THEN Reject
                ELSE More(IF (hdr.flags \div 2) % 4 > 0 THEN "PacketIdentifier"
                                                        ELSE "Payload"))
     \/ /\ field = "PacketIdentifier"
        /\ ReadIdentifier(b,
             /\ pkt' = [pkt EXCEPT !.Publish.id = Identifier(b)]
             /\ IF left > 1 THEN More("Payload") ELSE Complete)
     \/ /\ field = "Payload"
        /\ pkt' = [pkt EXCEPT !.Publish.payload = Append(@, b)]
        /\ IF left > 1 THEN More("Payload") ELSE Complete
        /\ UNCHANGED <<str, ident>>

-----------------------------------------------------------------------------
(* TopicFilter::operator<, which is no ordering. *)
LexLess(s, t) ==
  \/ IsStrictPrefix(s, t)
  \/ \E i \in DOMAIN s \cap DOMAIN t :
       s[i] < t[i] /\ \A j \in 1..(i - 1) : s[j] = t[j]

Less(x, y) == LexLess(x.filter, y.filter) \/ x.qos < y.qos

(* Mutant of Sort: the list is left as it was received. *)
SortForgotten(s) == s

(* std::sort of up to 16 elements: insertion, to the front if the element   *)
(* is less than the first one, else behind the last one it is not less than *)
Sort(s) ==
  FoldLeft(LAMBDA r, x :
             LET stop == {i \in DOMAIN r : ~Less(x, r[i])}
                 at   == IF 1 \in stop THEN Max(stop) + 1 ELSE 1
             IN  InsertAt(r, at, x),
           <<>>, s)

(* std::unique: equal neighbours are removed. *)
Unique(s) ==
  FoldLeft(LAMBDA r, x : IF r # <<>> /\ Last(r) = x THEN r ELSE Append(r, x),
           <<>>, s)

(* SubscribeParser; the filter is valid or not once its QoS level is read,  *)
(* and the list is sorted to remove duplicates when it is complete.         *)
SubscribeQoS(b) ==
  /\ field = "QoS"
  /\ LET all   == Append(pkt.Subscribe.filters, [filter |-> str.text, qos |-> b])
         valid == b <= 2 /\ ValidFilter(str.text)
     IN  \/ /\ ~valid
            /\ Reject
            /\ UNCHANGED pkt
         \/ /\ valid /\ left > 1
            /\ pkt' = [pkt EXCEPT !.Subscribe.filters = all]
            /\ More("TopicFilter")
         \/ /\ valid /\ left = 1
            /\ pkt' = [pkt EXCEPT !.Subscribe.filters = Unique(Sort(all))]
            /\ Complete
  /\ str' = FreshString
  /\ UNCHANGED ident

ParseSubscribe(b) ==
  /\ status = "Subscribe"
  /\ \/ /\ field = "PacketIdentifier"
        /\ ReadIdentifier(b,
             /\ pkt' = [pkt EXCEPT !.Subscribe.id = Identifier(b)]
             /\ More("TopicFilter"))
     \/ /\ field = "TopicFilter"
        /\ str' = StringParse(str, b)
        /\ More(IF str'.st = "Ready" THEN "QoS" ELSE field)
        /\ UNCHANGED <<ident, pkt>>
     \/ SubscribeQoS(b)

(* SubAckParser *)
ParseSuback(b) ==
  /\ status = "Suback"
  /\ \/ /\ field = "PacketIdentifier"
        /\ ReadIdentifier(b,
             /\ pkt' = [pkt EXCEPT !.Suback.id = Identifier(b)]
             /\ IF left > 1 THEN More("QoS") ELSE Complete)
     \/ /\ field = "QoS" /\ b > 2
        /\ Reject
        /\ UNCHANGED <<str, ident, pkt>>
     \/ /\ field = "QoS" /\ b <= 2
        /\ pkt' = [pkt EXCEPT !.Suback.qos = Append(@, b)]
        /\ IF left > 1 THEN More("QoS") ELSE Complete
        /\ UNCHANGED <<str, ident>>

-----------------------------------------------------------------------------
ParseBody(b) ==
  ParseConnect(b) \/ ParsePublish(b) \/ ParseSubscribe(b) \/ ParseSuback(b)

(* A parser with a length refuses a byte when nothing of it is left. *)
ParseContent(b) ==
  \/ /\ status \in Lengthy /\ left = 0
     /\ Reject
     /\ UNCHANGED <<left, str, ident, pkt>>
  \/ /\ left > 0
     /\ left' = left - 1
     /\ ParseBody(b)

(* MQTTParser::parse, called by Connection::handle_read. *)
Parse(b) ==
  /\ open
  /\ body' = IF status = "Start" THEN 0 ELSE body + 1
  /\ ParseHeader(b) \/ ParseConnack(b) \/ ParseContent(b)

(* A peer that sends whatever bytes it likes. *)
ParserSpec == ParserInit /\ [][\E b \in 0..255 : Parse(b)]_parser

-----------------------------------------------------------------------------
(* A CONNECT, PUBLISH, SUBSCRIBE or SUBACK ends where its remaining length  *)
(* says, also if a peer sends wrong bytes: no byte of it is taken for the   *)
(* next fixed header, and none of the next packet for a part of this one.   *)
FramedByLength ==
  [][packets' # packets /\ hdr.type \in Lengthy => body' = hdr.length]_parser

(* "remove duplicate topics" (mqtt_subscribe_parser.h:127): no filter of a   *)
(* SUBSCRIBE is handed over twice.  As operator< of TopicFilter is no order  *)
(* on filters of different QoS, this holds when they all have the same.      *)
NoDuplicates ==
  \A p \in Range(packets) :
    /\ p.type = "Subscribe"
    /\ \A i, j \in DOMAIN p.filters : p.filters[i].qos = p.filters[j].qos
    => IsInjective(p.filters)
=============================================================================
