------------------------------ MODULE MQTT_proofs ------------------------------
(***************************************************************************)
(* The framing of the MQTT parser and the filters it hands over, for any   *)
(* bytes a peer sends, and what the subscription tree matches, for any     *)
(* filters and topics.                                                     *)
(***************************************************************************)
EXTENDS MQTTParser, SubscriptionTree, SequenceTheorems, NaturalsInduction,
        WellFoundedInduction, TLAPS

(* The fixed header is a record with numbers where it is calculated with. *)
HeaderShape ==
  /\ hdr = [st |-> hdr.st, type |-> hdr.type, flags |-> hdr.flags,
            length |-> hdr.length, multiplier |-> hdr.multiplier]
  /\ hdr.length \in Nat
  /\ hdr.multiplier \in Nat

(* Until an error, the parser of a type counts down what is left of the      *)
(* length while the bytes are counted.                                      *)
Framing ==
  open /\ status \in Lengthy =>
    body \in Nat /\ left \in Nat /\ body + left = hdr.length

(* CONNACK has no length, which its header tells. *)
ConnackHeader == status = "Connack" => hdr.type = "Connack"

FrameInv == HeaderShape /\ Framing /\ ConnackHeader

(* What a byte of the body does to the frame: the packet goes on or is      *)
(* given up, or this is its last byte.                                      *)
BodyStep ==
  \/ UNCHANGED <<status, hdr, packets>>
  \/ left = 1 /\ status' = "Start" /\ hdr' = FreshHeader

-----------------------------------------------------------------------------
(* Complete insists on the last byte, and otherwise gives up. *)
LEMMA CompleteStep == Complete => BodyStep
  BY DEF Complete, Consume, Reject, BodyStep

(* A byte of a CONNECT goes on, gives up or completes the packet. *)
LEMMA ConnectStep == ASSUME NEW b, ParseConnect(b) PROVE BodyStep
<1>1. CASE ConnectByte(b)
  BY <1>1 DEF ConnectByte, More, Reject, BodyStep
<1>2. CASE ConnectString(b)
  BY <1>2, CompleteStep DEF ConnectString, ReadString, More, Reject, BodyStep
<1> QED
  BY <1>1, <1>2 DEF ParseConnect

(* The same for a byte of a PUBLISH, ... *)
LEMMA PublishStep == ASSUME NEW b, ParsePublish(b) PROVE BodyStep
  BY CompleteStep
  DEF ParsePublish, ReadString, ReadIdentifier, More, Reject, BodyStep

(* ... of a SUBSCRIBE ... *)
LEMMA SubscribeStep == ASSUME NEW b, ParseSubscribe(b) PROVE BodyStep
  BY CompleteStep
  DEF ParseSubscribe, SubscribeQoS, ReadIdentifier, More, Reject, BodyStep

(* ... and of a SUBACK. *)
LEMMA SubackStep == ASSUME NEW b, ParseSuback(b) PROVE BodyStep
  BY CompleteStep DEF ParseSuback, ReadIdentifier, More, Reject, BodyStep

(* A byte of the body is counted on both sides of the frame. *)
LEMMA ContentStep ==
  ASSUME NEW b, FrameInv, open, ParseContent(b),
         body' = IF status = "Start" THEN 0 ELSE body + 1
  PROVE  /\ FrameInv'
         /\ packets' # packets => body' = hdr.length
<1>1. status \in Lengthy
  BY DEF ParseContent, ParseBody, ParseConnect, ParsePublish, ParseSubscribe,
         ParseSuback, Lengthy
<1>2. CASE left = 0 /\ Reject /\ UNCHANGED left
  BY <1>1, <1>2
  DEF Reject, FrameInv, HeaderShape, Framing, ConnackHeader, Lengthy
<1>3. CASE left > 0 /\ left' = left - 1 /\ ParseBody(b)
  <2>1. BodyStep
    BY <1>3, ConnectStep, PublishStep, SubscribeStep, SubackStep DEF ParseBody
  <2>2. body' = body + 1
    BY <1>1 DEF Lengthy
  <2>3. CASE UNCHANGED <<status, hdr, packets>>
    BY <1>1, <1>3, <2>2, <2>3
    DEF FrameInv, HeaderShape, Framing, ConnackHeader, Lengthy
  <2>4. CASE left = 1 /\ status' = "Start" /\ hdr' = FreshHeader
    BY <1>1, <2>2, <2>4
    DEF FrameInv, HeaderShape, Framing, ConnackHeader, FreshHeader, Lengthy
  <2> QED
    BY <2>1, <2>3, <2>4 DEF BodyStep
<1> QED
  BY <1>2, <1>3 DEF ParseContent

(* A header byte starts a frame with as many bytes left as its length. *)
LEMMA HeaderStep ==
  ASSUME NEW b \in 0..255, FrameInv, ParseHeader(b), body' = 0
  PROVE  /\ FrameInv'
         /\ packets' # packets => hdr.type \notin Lengthy
<1>1. status = "Start"
  BY DEF ParseHeader
<1>2. CASE ParseType(b)
  BY <1>1, <1>2
  DEF ParseType, Reject, FrameInv, HeaderShape, Framing, ConnackHeader, Lengthy
<1>3. CASE ParseLength(b)
  <2> DEFINE length == hdr.length + (b % 128) * hdr.multiplier
  <2>1. length \in Nat /\ hdr.multiplier * 128 \in Nat
    <3>1. b % 128 \in Nat
      OBVIOUS
    <3>2. \A m, n \in Nat : m * n \in Nat
      OBVIOUS
    <3> QED
      BY <3>1, <3>2 DEF FrameInv, HeaderShape
  <2> HIDE DEF length
  <2>2. CASE Reject
    BY <1>1, <2>2
    DEF Reject, FrameInv, HeaderShape, Framing, ConnackHeader, Lengthy
  <2>3. CASE /\ hdr' = [hdr EXCEPT !.length = length, !.multiplier = @ * 128]
             /\ UNCHANGED <<status, packets>>
    BY <1>1, <2>1, <2>3
    DEF FrameInv, HeaderShape, Framing, ConnackHeader, Lengthy
  <2>4. CASE StartPacket(hdr.type, length)
    <3>1. status' = hdr.type /\ left' = length /\ packets' = packets
      BY <2>4 DEF StartPacket
    <3>2. hdr' = [st |-> "Ready", type |-> hdr.type, flags |-> hdr.flags,
                  length |-> length, multiplier |-> hdr.multiplier]
      BY <2>4 DEF StartPacket, FrameInv, HeaderShape
    <3>3. HeaderShape' /\ ConnackHeader'
      BY <2>1, <3>1, <3>2 DEF FrameInv, HeaderShape, ConnackHeader
    <3>4. Framing'
      BY <2>1, <3>1, <3>2 DEF Framing
    <3> QED
      BY <3>1, <3>3, <3>4 DEF FrameInv
  <2>5. CASE /\ hdr.type \notin Lengthy
             /\ Consume([type |-> hdr.type])
    BY <2>5
    DEF Consume, FrameInv, HeaderShape, Framing, ConnackHeader, FreshHeader,
        Lengthy
  <2> QED
    BY <1>3, <2>2, <2>3, <2>4, <2>5 DEF ParseLength, length, Lengthy
<1> QED
  BY <1>2, <1>3 DEF ParseHeader

(* A byte of a CONNACK does not touch a frame. *)
LEMMA ConnackStep ==
  ASSUME NEW b, FrameInv, ParseConnack(b)
  PROVE  FrameInv' /\ hdr.type \notin Lengthy
<1>1. status = "Connack" /\ hdr.type = "Connack"
  BY DEF ParseConnack, FrameInv, ConnackHeader
<1>2. \/ UNCHANGED <<status, hdr>>
      \/ status' = "Start" /\ hdr' = FreshHeader
  BY DEF ParseConnack, Reject, More, Consume
<1> QED
  BY <1>1, <1>2
  DEF FrameInv, HeaderShape, Framing, ConnackHeader, FreshHeader, Lengthy

-----------------------------------------------------------------------------
(* MQTTParser::parse keeps the frame, and a packet that has a length is     *)
(* handed over with the last byte of it.                                    *)
LEMMA ParseStep ==
  ASSUME NEW b \in 0..255, FrameInv, Parse(b)
  PROVE  /\ FrameInv'
         /\ packets' # packets /\ hdr.type \in Lengthy => body' = hdr.length
<1>1. CASE ParseHeader(b)
  <2>1. body' = 0
    BY <1>1 DEF Parse, ParseHeader
  <2> QED
    BY <1>1, <2>1, HeaderStep
<1>2. CASE ParseConnack(b)
  BY <1>2, ConnackStep
<1>3. CASE ParseContent(b)
  BY <1>3, ContentStep DEF Parse
<1> QED
  BY <1>1, <1>2, <1>3 DEF Parse

(* Whatever bytes a peer sends, the parser of MQTTParser hands over a       *)
(* CONNECT, PUBLISH, SUBSCRIBE or SUBACK exactly when as many bytes as its  *)
(* fixed header announced have been read.                                   *)
THEOREM PacketsAreFramed == ParserSpec => FramedByLength
<1>1. ParserInit => FrameInv
  BY DEF ParserInit, FreshHeader, FrameInv, HeaderShape, Framing, ConnackHeader,
         Lengthy
<1>2. FrameInv /\ [\E b \in 0..255 : Parse(b)]_parser => FrameInv'
  <2>1. ASSUME FrameInv, NEW b \in 0..255, Parse(b) PROVE FrameInv'
    BY <2>1, ParseStep
  <2>2. ASSUME FrameInv, UNCHANGED parser PROVE FrameInv'
    BY <2>2 DEF parser, FrameInv, HeaderShape, Framing, ConnackHeader
  <2> QED
    BY <2>1, <2>2
<1>3. FrameInv /\ [\E b \in 0..255 : Parse(b)]_parser
        => [packets' # packets /\ hdr.type \in Lengthy => body' = hdr.length]_parser
  BY ParseStep
<1> QED
  BY <1>1, <1>2, <1>3, PTL DEF ParserSpec, FramedByLength

-----------------------------------------------------------------------------
(***************************************************************************)
(* The subscription tree.                                                  *)
(***************************************************************************)

(* The paths of the tree are filters.                                      *)
TreeInv == tree \in SUBSET (Filters \X Sessions)

(* What Match computes on one level, and on all of them.                   *)
Level(t, h, below) ==
  [path \in Paths |-> [pos \in 1..Len(t) |-> [end \in BOOLEAN |->
     IF h = 0 THEN Result(SessionsAt(path), pos)
              ELSE Visit(t, below, path, pos, end)]]]

IsMatch(t, f) ==
  \A path \in Paths, pos \in 1..Len(t), end \in BOOLEAN :
    /\ f[0][path][pos][end] = Result(SessionsAt(path), pos)
    /\ \A h \in 1..Len(t) : f[h][path][pos][end] = Visit(t, f[h - 1], path, pos, end)

-----------------------------------------------------------------------------
(* A set of natural numbers that is not empty has a least one.             *)
LEMMA LeastNat ==
  ASSUME NEW S \in SUBSET Nat, S # {}
  PROVE  \E n \in S : \A m \in S : n <= m
<1> DEFINE R == OpToRel(<, Nat)
<1>1. IsWellFoundedOn(R, Nat)
  BY NatLessThanWellFounded
<1>2. \A m, n \in Nat : <<m, n>> \in R <=> m < n
  BY DEF OpToRel
<1> HIDE DEF R
<1>3. PICK n \in S : \A m \in S : ~(<<m, n>> \in R)
  BY <1>1, WFMin
<1>4. \A m \in S : ~(m < n)
  BY <1>2, <1>3
<1>5. \A m \in S : n <= m
  BY <1>4
<1> QED
  BY <1>5

(* A set that contains 0 and with n the next number contains 0..b. *)
LEMMA UpTo ==
  ASSUME NEW b \in Nat, NEW S, 0 \in S, \A n \in 0..(b - 1) : n \in S => n + 1 \in S
  PROVE  \A n \in 0..b : n \in S
<1> DEFINE T == {n \in 0..b : n \notin S}
<1>1. SUFFICES ASSUME T # {} PROVE FALSE
  OBVIOUS
<1>2. T \in SUBSET Nat
  OBVIOUS
<1>3. PICK n \in T : \A m \in T : n <= m
  BY <1>1, <1>2, LeastNat
<1>4. n - 1 \in 0..(b - 1) /\ n - 1 \notin T /\ (n - 1) + 1 = n
  BY <1>3
<1>5. n - 1 \in S
  BY <1>4
<1> QED
  BY <1>3, <1>4, <1>5

(* A prefix has the same elements. *)
LEMMA PrefixIn ==
  ASSUME NEW S, NEW p \in Seq(S), NEW g \in Seq(S)
  PROVE  IsPrefix(p, g) <=> Len(p) <= Len(g) /\ \A i \in 1..Len(p) : p[i] = g[i]
<1>1. PICK m \in Nat, n \in Nat : m = Len(p) /\ n = Len(g)
  BY LenProperties
<1>2. SubSeq(p, 1, m) = [i \in 1..m |-> p[i]]
  BY <1>1
<1>3. m <= n => SubSeq(g, 1, m) = [i \in 1..m |-> g[i]]
  BY <1>1
<1>4. [i \in 1..m |-> p[i]] = [i \in 1..m |-> g[i]] <=> \A i \in 1..m : p[i] = g[i]
  OBVIOUS
<1> QED
  BY <1>1, <1>2, <1>3, <1>4 DEF IsPrefix

(* The recursive function of Match exists, and computes level by level.    *)
LEMMA MatchIs ==
  ASSUME NEW t, Len(t) \in Nat
  PROVE  \E f : IsMatch(t, f) /\ Match(t) = f[Len(t)]
<1> DEFINE Is(m, f) == f = [h \in 0..m |-> Level(t, h, f[h - 1])]
           A == {m \in Nat : \E f : Is(m, f)}
<1>1. \A x, y : Level(t, 0, x) = Level(t, 0, y)
  BY DEF Level
<1>2. 0 \in A
  <2> DEFINE g == [h \in 0..0 |-> Level(t, 0, 0)]
  <2>1. g = [h \in 0..0 |-> Level(t, h, g[h - 1])]
    <3>1. \A h \in 0..0 : h = 0 /\ Level(t, h, g[h - 1]) = Level(t, 0, 0)
      BY <1>1
    <3> HIDE DEF Level
    <3> QED
      BY <3>1
  <2> QED
    BY <2>1
<1>3. ASSUME NEW n \in Nat, n \in A PROVE n + 1 \in A
  <2>1. PICK f : Is(n, f)
    BY <1>3
  <2> DEFINE g == [h \in 0..(n + 1) |-> IF h = n + 1 THEN Level(t, n + 1, f[n]) ELSE f[h]]
  <2>2. ASSUME NEW h \in 0..(n + 1) PROVE g[h] = Level(t, h, g[h - 1])
    <3>1. CASE h = n + 1
      <4>1. h - 1 \in 0..(n + 1) /\ h - 1 # n + 1 /\ h - 1 = n
        BY <3>1
      <4> QED
        BY <3>1, <4>1
    <3>2. CASE h # n + 1
      <4>1. h \in 0..n /\ g[h] = f[h]
        BY <3>2
      <4>2. f[h] = Level(t, h, f[h - 1])
        BY <2>1, <4>1
      <4>3. CASE h = 0
        BY <1>1, <4>1, <4>2, <4>3
      <4>4. CASE h # 0
        <5>1. h - 1 \in 0..(n + 1) /\ h - 1 # n + 1
          BY <3>2, <4>4
        <5>2. g[h - 1] = f[h - 1]
          BY <5>1
        <5> QED
          BY <4>1, <4>2, <5>2
      <4> QED
        BY <4>3, <4>4
    <3> QED
      BY <3>1, <3>2
  <2>3. Is(n + 1, g)
    BY <2>2
  <2> HIDE DEF g
  <2>4. \E x : Is(n + 1, x)
    BY <2>3
  <2> QED
    BY <2>4
<1>4. \E f : Is(Len(t), f)
  <2>1. \A n \in 0..(Len(t) - 1) : n \in A => n + 1 \in A
    <3> HIDE DEF A
    <3> QED
      BY <1>3
  <2>2. Len(t) \in A
    <3> HIDE DEF A
    <3>1. Len(t) \in 0..Len(t)
      OBVIOUS
    <3> QED
      BY <1>2, <2>1, <3>1, UpTo
  <2> QED
    BY <2>2
<1> DEFINE f == CHOOSE f : Is(Len(t), f)
<1>5. Is(Len(t), f)
  BY <1>4
<1>6. Match(t) = f[Len(t)]
  BY DEF Match, Level
<1> HIDE DEF f
<1>7. \A h \in 0..Len(t) : f[h] = Level(t, h, f[h - 1])
  BY <1>5
<1>8. ASSUME NEW path \in Paths, NEW pos \in 1..Len(t), NEW end \in BOOLEAN, NEW h \in 0..Len(t)
      PROVE  f[h][path][pos][end] =
               IF h = 0 THEN Result(SessionsAt(path), pos) ELSE Visit(t, f[h - 1], path, pos, end)
  <2> DEFINE B(p, k, e) == IF h = 0 THEN Result(SessionsAt(p), k) ELSE Visit(t, f[h - 1], p, k, e)
  <2>1. f[h] = [p \in Paths |-> [k \in 1..Len(t) |-> [e \in BOOLEAN |-> B(p, k, e)]]]
    BY <1>7 DEF Level
  <2> HIDE DEF B
  <2>2. f[h][path] = [k \in 1..Len(t) |-> [e \in BOOLEAN |-> B(path, k, e)]]
    BY <2>1
  <2>3. f[h][path][pos][end] = B(path, pos, end)
    BY <2>2
  <2> QED
    BY <2>3 DEF B
<1>9. 0 \in 0..Len(t) /\ \A h \in 1..Len(t) : h \in 0..Len(t) /\ h # 0
  OBVIOUS
<1>10. IsMatch(t, f)
  BY <1>8, <1>9 DEF IsMatch
<1> QED
  BY <1>6, <1>10

-----------------------------------------------------------------------------
(* Paths and the nodes on them.                                            *)
LEMMA PrefixIs ==
  ASSUME NEW p \in Paths, NEW g \in Paths
  PROVE  IsPrefix(p, g) <=> Len(p) <= Len(g) /\ \A i \in 1..Len(p) : p[i] = g[i]
BY PrefixIn DEF Paths

(* The paths of the tree are filters: not empty, and with # at the end      *)
(* only.                                                                    *)
LEMMA PathsOfTree ==
  ASSUME TreeInv, NEW e \in tree
  PROVE  /\ e[1] \in Paths /\ e[2] \in Sessions /\ e = <<e[1], e[2]>>
         /\ Len(e[1]) \in Nat \ {0} /\ DOMAIN e[1] = 1..Len(e[1])
         /\ \A i \in 1..Len(e[1]) : i # Len(e[1]) => e[1][i] # "#"
<1>1. e[1] \in Filters /\ e[2] \in Sessions /\ e = <<e[1], e[2]>>
  BY DEF TreeInv
<1>2. PICK n \in 1..MaxLevels : e[1] \in [1..n -> Names \cup {"+", "#"}]
  BY <1>1 DEF Filters
<1>3. e[1] \in Paths /\ Len(e[1]) = n /\ n \in Nat \ {0} /\ DOMAIN e[1] = 1..n
  BY <1>2, SubscriptionTreeAssumption DEF Paths
<1>4. \A i \in 1..(Len(e[1]) - 1) : e[1][i] # "#"
  BY <1>1 DEF Filters
<1> QED
  BY <1>1, <1>3, <1>4

(* The path of a child. *)
LEMMA AppendIs ==
  ASSUME NEW p \in Paths, NEW x \in Names \cup {"+", "#"}
  PROVE  /\ Append(p, x) \in Paths /\ Append(p, x) # <<>> /\ Last(Append(p, x)) = x
         /\ Len(p) \in Nat /\ Len(Append(p, x)) = Len(p) + 1 /\ Append(p, x)[Len(p) + 1] = x
         /\ \A i \in 1..Len(p) : Append(p, x)[i] = p[i]
BY AppendProperties, LenProperties DEF Paths, Last

(* A node is a prefix of an entry; without one there are no sessions. *)
LEMMA NodeIs ==
  ASSUME TreeInv, NEW p \in Paths
  PROVE  /\ Node(p) <=> \E e \in tree : Len(p) <= Len(e[1]) /\ \A i \in 1..Len(p) : p[i] = e[1][i]
         /\ ~Node(p) => SessionsAt(p) = {}
<1>1. \A e \in tree : IsPrefix(p, e[1]) <=> Len(p) <= Len(e[1]) /\ \A i \in 1..Len(p) : p[i] = e[1][i]
  BY PrefixIs, PathsOfTree
<1>2. IsPrefix(p, p)
  BY PrefixIs, LenProperties DEF Paths
<1> QED
  BY <1>1, <1>2 DEF Node, SessionsAt

(* A child has a parent.                                                   *)
LEMMA ParentIs ==
  ASSUME TreeInv, NEW p \in Paths, NEW x \in Names \cup {"+", "#"}, ~Node(p)
  PROVE  ~Node(Append(p, x)) /\ SessionsAt(Append(p, x)) = {}
<1>1. PICK q \in Paths : q = Append(p, x)
  BY AppendIs
<1>2. PICK n \in Nat : n = Len(p) /\ Len(q) = n + 1 /\ \A i \in 1..n : q[i] = p[i]
  BY <1>1, AppendIs
<1>3. ASSUME Node(q) PROVE FALSE
  <2>1. PICK e \in tree : Len(q) <= Len(e[1]) /\ \A i \in 1..Len(q) : q[i] = e[1][i]
    BY <1>3, NodeIs
  <2>2. PICK m \in Nat : m = Len(e[1])
    BY PathsOfTree
  <2>3. n <= m /\ \A i \in 1..n : p[i] = e[1][i]
    BY <1>2, <2>1, <2>2
  <2> QED
    BY <1>2, <2>2, <2>3, NodeIs
<1> QED
  BY <1>1, <1>3, NodeIs

-----------------------------------------------------------------------------
(* The visits that do not go deeper.                                       *)
LEMMA VisitsThatEnd ==
  ASSUME TreeInv, NEW t \in Seq(Names), NEW f, IsMatch(t, f), NEW h \in 0..Len(t),
         NEW path \in Paths, NEW pos \in 1..Len(t)
  PROVE  /\ f[h][path][pos][TRUE] = Result(SessionsAt(path), pos)
         /\ (path # <<>> /\ Last(path) = "#") \/ ~Node(path) =>
              f[h][path][pos][FALSE] = Result(SessionsAt(path), pos)
<1> SUFFICES ASSUME NEW end \in BOOLEAN, end \/ (path # <<>> /\ Last(path) = "#") \/ ~Node(path)
             PROVE  f[h][path][pos][end] = Result(SessionsAt(path), pos)
  OBVIOUS
<1>1. CASE h = 0
  BY <1>1 DEF IsMatch
<1>2. CASE h # 0
  <2>1. h \in 1..Len(t)
    BY <1>2
  <2>2. f[h][path][pos][end] = Visit(t, f[h - 1], path, pos, end)
    BY <2>1 DEF IsMatch
  <2>3. Visit(t, f[h - 1], path, pos, end) = Result(SessionsAt(path), pos)
    BY NodeIs DEF Visit
  <2> QED
    BY <2>2, <2>3
<1> QED
  BY <1>1, <1>2

(* The visits of children, where the position is before the last level and *)
(* at it.                                                                  *)
LEMMA PositionStays ==
  ASSUME TreeInv, NEW t \in Seq(Names), NEW f, IsMatch(t, f), NEW h \in 0..Len(t),
         NEW path \in Paths, NEW pos \in 1..Len(t), NEW end \in BOOLEAN
  PROVE  f[h][path][pos][end].pos \in 1..Len(t)
<1>1. PICK N \in Nat : N = Len(t)
  BY LenProperties
<1> DEFINE A == {n \in 0..N : \A p \in Paths, k \in 1..N, e \in BOOLEAN : f[n][p][k][e].pos \in 1..N}
<1>2. 0 \in A
  <2>1. \A p \in Paths, k \in 1..N, e \in BOOLEAN : f[0][p][k][e] = Result(SessionsAt(p), k)
    BY <1>1 DEF IsMatch
  <2>2. \A p \in Paths, k \in 1..N, e \in BOOLEAN : f[0][p][k][e].pos = k
    <3> TAKE p \in Paths, k \in 1..N, e \in BOOLEAN
    <3>1. f[0][p][k][e] = Result(SessionsAt(p), k)
      BY <2>1
    <3> QED
      BY <3>1 DEF Result
  <2>3. 0 \in 0..N
    BY <1>1
  <2> QED
    BY <2>2, <2>3
<1>3. ASSUME NEW n \in 0..(N - 1), n \in A PROVE n + 1 \in A
  <2> SUFFICES ASSUME NEW p \in Paths, NEW k \in 1..N, NEW e \in BOOLEAN PROVE f[n + 1][p][k][e].pos \in 1..N
    OBVIOUS
  <2>1. n + 1 \in 1..N /\ (n + 1) - 1 = n
    OBVIOUS
  <2>2. f[n + 1][p][k][e] = Visit(t, f[n], p, k, e)
    BY <1>1, <2>1 DEF IsMatch
  <2>3. t[k] \in Names
    BY <1>1, ElementOfSeq
  <2>4. \A x \in Names \cup {"+", "#"} : Append(p, x) \in Paths
    BY AppendIs
  <2>5. \A q \in Paths, j \in 1..N, b \in BOOLEAN : f[n][q][j][b].pos \in 1..N
    BY <1>3
  <2>6. Visit(t, f[n], p, k, e).pos \in 1..N
    <3>1. CASE ~Node(p) \/ e \/ (p # <<>> /\ Last(p) = "#")
      BY <3>1 DEF Visit, Result
    <3>2. CASE ~(~Node(p) \/ e \/ (p # <<>> /\ Last(p) = "#"))
      <4>0. PICK b \in BOOLEAN : b = (k = N)
        OBVIOUS
      <4>1. PICK j \in 1..N : j = (IF k = N THEN k ELSE k + 1)
        OBVIOUS
      <4>2. PICK exact : exact = f[n][Append(p, t[k])][j][b] /\ exact.pos \in 1..N
        BY <2>3, <2>4, <2>5
      <4>3. PICK multi : multi = f[n][Append(p, "#")][exact.pos][b] /\ multi.pos \in 1..N
        BY <2>4, <2>5, <4>2
      <4>4. PICK plus : plus = f[n][Append(p, "+")][multi.pos][b] /\ plus.pos \in 1..N
        BY <2>4, <2>5, <4>3
      <4>5. Visit(t, f[n], p, k, e) = Result(exact.found \cup multi.found \cup plus.found, plus.pos)
        BY <1>1, <3>2, <4>0, <4>1, <4>2, <4>3, <4>4, Zenon DEF Visit
      <4> QED
        BY <4>4, <4>5 DEF Result
    <3> QED
      BY <3>1, <3>2
  <2> QED
    BY <2>2, <2>6
<1>4. \A n \in 0..N : n \in A
  <2> HIDE DEF A
  <2> QED
    BY <1>2, <1>3, UpTo
<1> QED
  BY <1>1, <1>4

(* A visit at the last level takes the sessions of the three children. *)
LEMMA LastVisit ==
  ASSUME TreeInv, NEW t \in Seq(Names), NEW f, IsMatch(t, f), NEW h \in 1..Len(t),
         NEW path \in Paths, path = <<>> \/ Last(path) # "#"
  PROVE  f[h][path][Len(t)][FALSE] =
           Result(SessionsAt(Append(path, t[Len(t)])) \cup SessionsAt(Append(path, "#"))
                    \cup SessionsAt(Append(path, "+")), Len(t))
<1>1. PICK N \in Nat : N = Len(t) /\ N \in 1..N /\ h \in 1..N /\ h - 1 \in 0..N
  BY LenProperties
<1>2. t[N] \in Names \cup {"+", "#"}
  BY <1>1, ElementOfSeq
<1>3. f[h][path][N][FALSE] = Visit(t, f[h - 1], path, N, FALSE)
  BY <1>1 DEF IsMatch
<1>4. CASE ~Node(path)
  <2>1. \A x \in Names \cup {"+", "#"} : SessionsAt(Append(path, x)) = {}
    BY <1>4, ParentIs
  <2>2. Visit(t, f[h - 1], path, N, FALSE) = Result({}, N)
    BY <1>4 DEF Visit
  <2>3. SessionsAt(Append(path, t[N])) \cup SessionsAt(Append(path, "#")) \cup SessionsAt(Append(path, "+")) = {}
    BY <1>2, <2>1
  <2> QED
    BY <1>1, <1>3, <2>2, <2>3
<1>5. CASE Node(path)
  <2>1. ASSUME NEW x \in Names \cup {"+", "#"}
        PROVE  f[h - 1][Append(path, x)][N][TRUE] = Result(SessionsAt(Append(path, x)), N)
    <3>1. PICK q \in Paths, j \in 0..N : q = Append(path, x) /\ j = h - 1
      BY <1>1, AppendIs
    <3>2. f[j][q][N][TRUE] = Result(SessionsAt(q), N)
      <4>1. j \in 0..Len(t) /\ N \in 1..Len(t) /\ Len(t) \in Nat
        BY <1>1
      <4> QED
        BY <4>1, VisitsThatEnd
    <3> QED
      BY <3>1, <3>2
  <2>2. \A S : Result(S, N).found = S /\ Result(S, N).pos = N
    BY DEF Result
  <2>3. PICK exact : exact = f[h - 1][Append(path, t[N])][N][TRUE] /\ exact.pos = N
                     /\ exact.found = SessionsAt(Append(path, t[N]))
    BY <1>2, <2>1, <2>2
  <2>4. PICK multi : multi = f[h - 1][Append(path, "#")][N][TRUE] /\ multi.pos = N
                     /\ multi.found = SessionsAt(Append(path, "#"))
    BY <2>1, <2>2
  <2>5. PICK plus : plus = f[h - 1][Append(path, "+")][N][TRUE] /\ plus.pos = N
                    /\ plus.found = SessionsAt(Append(path, "+"))
    BY <2>1, <2>2
  <2>6. (N = Len(t)) = TRUE
    BY <1>1
  <2>7. Visit(t, f[h - 1], path, N, FALSE) = Result(exact.found \cup multi.found \cup plus.found, plus.pos)
    BY <1>1, <1>5, <2>3, <2>4, <2>5, <2>6, Zenon DEF Visit
  <2> QED
    BY <1>1, <1>3, <2>3, <2>4, <2>5, <2>7
<1> QED
  BY <1>4, <1>5

(* What the children of a node find, if the next level of the topic is x.  *)
Gathered(below, path, x, pos) ==
  LET exact == below[Append(path, x)][pos][FALSE]
      plus == below[Append(path, "+")][exact.pos][FALSE]
  IN  exact.found \cup SessionsAt(Append(path, "#")) \cup plus.found

(* A visit above the last level: the exact child moves the position the +   *)
(* child starts from.                                                       *)
LEMMA InnerVisit ==
  ASSUME TreeInv, NEW t \in Seq(Names), NEW f, IsMatch(t, f), NEW h \in 1..Len(t),
         NEW path \in Paths, path = <<>> \/ Last(path) # "#", Node(path), NEW k \in 1..Len(t), k # Len(t)
  PROVE  f[h][path][k][FALSE].found = Gathered(f[h - 1], path, t[k], k + 1)
<1>1. PICK N \in Nat : /\ N = Len(t) /\ h \in 1..N /\ h - 1 \in 0..N
                       /\ k \in 1..N /\ k # N /\ k + 1 \in 1..N
  BY LenProperties
<1>2. t[k] \in Names \cup {"+", "#"}
  BY <1>1, ElementOfSeq
<1>3. f[h][path][k][FALSE] = Visit(t, f[h - 1], path, k, FALSE)
  BY <1>1 DEF IsMatch
<1>4. PICK exact : exact = f[h - 1][Append(path, t[k])][k + 1][FALSE] /\ exact.pos \in 1..N
  <2>1. Append(path, t[k]) \in Paths
    BY <1>2, AppendIs
  <2> QED
    BY <1>1, <2>1, PositionStays
<1>5. PICK multi : multi = f[h - 1][Append(path, "#")][exact.pos][FALSE] /\ multi.pos = exact.pos
                   /\ multi.found = SessionsAt(Append(path, "#"))
  <2>1. Append(path, "#") \in Paths /\ Append(path, "#") # <<>> /\ Last(Append(path, "#")) = "#"
    BY AppendIs
  <2>2. f[h - 1][Append(path, "#")][exact.pos][FALSE] = Result(SessionsAt(Append(path, "#")), exact.pos)
    <3>1. PICK q \in Paths, j \in 0..N, x \in 1..N :
            q = Append(path, "#") /\ j = h - 1 /\ x = exact.pos /\ q # <<>> /\ Last(q) = "#"
      BY <1>1, <1>4, <2>1
    <3>2. f[j][q][x][FALSE] = Result(SessionsAt(q), x)
      <4>1. j \in 0..Len(t) /\ x \in 1..Len(t) /\ Len(t) \in Nat
        BY <1>1
      <4>2. q # <<>> /\ Last(q) = "#"
        BY <3>1
      <4> QED
        BY <4>1, <4>2, VisitsThatEnd
    <3> QED
      BY <3>1, <3>2
  <2>3. \A S, x : Result(S, x).found = S /\ Result(S, x).pos = x
    BY DEF Result
  <2> QED
    BY <2>2, <2>3
<1>6. PICK plus : plus = f[h - 1][Append(path, "+")][multi.pos][FALSE]
  OBVIOUS
<1>7. (k = Len(t)) = FALSE
  BY <1>1
<1>8. Visit(t, f[h - 1], path, k, FALSE) = Result(exact.found \cup multi.found \cup plus.found, plus.pos)
  BY <1>1, <1>4, <1>5, <1>6, <1>7, Zenon DEF Visit
<1>9. f[h][path][k][FALSE].found = exact.found \cup multi.found \cup plus.found
  <2>1. \A S, x : Result(S, x).found = S
    BY DEF Result
  <2> QED
    BY <1>3, <1>8, <2>1
<1> QED
  BY <1>1, <1>4, <1>5, <1>6, <1>9 DEF Gathered

(* The nodes on the path of a filter.                                      *)
LEMMA CutIs ==
  ASSUME NEW g \in Paths, NEW k \in 1..Len(g)
  PROVE  /\ SubSeq(g, 1, k - 1) \in Paths /\ Len(SubSeq(g, 1, k - 1)) = k - 1
         /\ \A i \in 1..(k - 1) : SubSeq(g, 1, k - 1)[i] = g[i]
         /\ Append(SubSeq(g, 1, k - 1), g[k]) = SubSeq(g, 1, k)
         /\ SubSeq(g, 1, Len(g)) = g
         /\ SubSeq(g, 1, 1 - 1) = <<>>
<1>1. PICK n \in Nat : n = Len(g) /\ k \in 1..n /\ g \in [1..n -> Names \cup {"+", "#"}]
  BY LenProperties DEF Paths
<1>2. /\ SubSeq(g, 1, k - 1) \in Paths /\ Len(SubSeq(g, 1, k - 1)) = k - 1
      /\ \A i \in 1..(k - 1) : SubSeq(g, 1, k - 1)[i] = g[i]
  BY <1>1, SubSeqProperties DEF Paths
<1>3. SubSeq(g, 1, n) = g
  BY <1>1 DEF Paths
<1>4. SubSeq(g, 1, 1 - 1) = <<>>
  BY <1>1 DEF Paths
<1>5. Append(SubSeq(g, 1, k - 1), g[k]) = SubSeq(g, 1, k)
  BY <1>1 DEF Paths
<1> QED
  BY <1>1, <1>2, <1>3, <1>4, <1>5

-----------------------------------------------------------------------------
(* A filter that covers the topic is found if nothing beside its "+" can   *)
(* move the position.                                                      *)
Undisturbed(e, t) ==
  \A g \in tree : \A n \in 1..Len(e[1]) :
    e[1][n] = "+" /\ IsPrefix(SubSeq(e[1], 1, n - 1), g[1])
      => Len(g[1]) < n \/ g[1][n] \in {"+", "#"} \/ g[1][n] # t[n]

(* The position is then where the children of "+" expect it.               *)
OnTime(f, e, t, k) ==
  k < Len(t) /\ e[1][k] = "+" =>
    f[Len(t) - k][Append(SubSeq(e[1], 1, k - 1), t[k])][k + 1][FALSE].pos = k + 1

(* One level of its path.                                                  *)
LEMMA FoundBelow ==
  ASSUME TreeInv, NEW t \in Seq(Names), NEW f, IsMatch(t, f), NEW e \in tree, Covers(e[1], t),
         NEW k \in 1..Len(e[1]), k <= Len(t), OnTime(f, e, t, k), NEW h \in 1..Len(t), h - 1 = Len(t) - k,
         k < Len(t) /\ k < Len(e[1]) => e[2] \in f[h - 1][SubSeq(e[1], 1, k)][k + 1][FALSE].found
  PROVE  e[2] \in f[h][SubSeq(e[1], 1, k - 1)][k][FALSE].found
<1>1. PICK N \in Nat, L \in Nat : N = Len(t) /\ L = Len(e[1]) /\ k \in 1..L /\ k \in 1..N
  BY LenProperties, PathsOfTree
<1>2. PICK g \in Paths : g = e[1]
  BY PathsOfTree
<1>3. PICK p \in Paths : p = SubSeq(g, 1, k - 1) /\ Len(p) = k - 1 /\ \A i \in 1..(k - 1) : p[i] = g[i]
  BY <1>1, <1>2, CutIs
<1>a. Len(p) = k - 1 /\ \A i \in 1..(k - 1) : p[i] = g[i]
  BY <1>3
<1>4. Append(p, g[k]) = SubSeq(g, 1, k) /\ (k = L => Append(p, g[k]) = g)
  BY <1>1, <1>2, <1>3, CutIs
<1>5. /\ L <= N /\ (L # N => g[L] = "#") /\ g[k] \in {"#", "+", t[k]}
      /\ \A i \in 1..L : i # L => g[i] # "#"
  BY <1>1, <1>2, PathsOfTree DEF Covers, Last
<1>6. t[k] \in Names /\ t[k] # "#" /\ t[k] # "+"
  BY <1>1, ElementOfSeq, SubscriptionTreeAssumption
<1>7. p = <<>> \/ Last(p) # "#"
  <2>1. CASE k = 1
    BY <1>3, <2>1, EmptySeq DEF Paths
  <2>2. CASE k # 1
    <3>1. k - 1 \in 1..(k - 1) /\ k - 1 \in 1..L /\ k - 1 # L
      BY <1>1, <2>2
    <3> QED
      BY <1>3, <1>5, <3>1 DEF Last
  <2> QED
    BY <2>1, <2>2
<1>8. Node(p)
  <2>1. Len(p) <= Len(e[1]) /\ \A i \in 1..Len(p) : p[i] = e[1][i]
    BY <1>1, <1>2, <1>a
  <2> QED
    BY <2>1, NodeIs
<1>9. k = L => e[2] \in SessionsAt(Append(p, g[k]))
  BY <1>2, <1>4 DEF SessionsAt
<1>10. CASE k = N
  <2>1. k = L
    BY <1>1, <1>5, <1>10
  <2>2. f[h][p][N][FALSE].found =
          SessionsAt(Append(p, t[N])) \cup SessionsAt(Append(p, "#")) \cup SessionsAt(Append(p, "+"))
    <3>1. f[h][p][Len(t)][FALSE] =
            Result(SessionsAt(Append(p, t[Len(t)])) \cup SessionsAt(Append(p, "#"))
                     \cup SessionsAt(Append(p, "+")), Len(t))
      BY <1>7, LastVisit
    <3>2. \A S, x : Result(S, x).found = S
      BY DEF Result
    <3> QED
      BY <1>1, <3>1, <3>2
  <2> QED
    BY <1>2, <1>3, <1>5, <1>9, <1>10, <2>1, <2>2
<1>11. CASE k # N
  <2>1. k \in 1..(N - 1)
    BY <1>1, <1>11
  <2>2. PICK x :
           /\ x = f[h - 1][Append(p, t[k])][k + 1][FALSE].pos
           /\ f[h][p][k][FALSE].found =
                f[h - 1][Append(p, t[k])][k + 1][FALSE].found
                  \cup SessionsAt(Append(p, "#")) \cup f[h - 1][Append(p, "+")][x][FALSE].found
    <3>1. k \in 1..Len(t) /\ k # Len(t)
      BY <1>1, <1>11
    <3>2. f[h][p][k][FALSE].found = Gathered(f[h - 1], p, t[k], k + 1)
      BY <1>7, <1>8, <3>1, InnerVisit
    <3> QED
      BY <3>2 DEF Gathered
  <2>3. g[k] # "#" => k < L /\ e[2] \in f[h - 1][Append(p, g[k])][k + 1][FALSE].found
    <3>1. g[k] # "#" => k < L /\ k < N
      BY <1>1, <1>5, <1>11
    <3>2. k < N /\ k < L => e[2] \in f[h - 1][SubSeq(e[1], 1, k)][k + 1][FALSE].found
      BY <1>1
    <3>3. SubSeq(e[1], 1, k) = Append(p, g[k])
      BY <1>2, <1>4
    <3> QED
      BY <3>1, <3>2, <3>3
  <2>4. CASE g[k] = "#"
    <3>1. k = L
      BY <1>1, <1>5, <2>4
    <3> QED
      BY <1>2, <1>3, <1>9, <2>2, <2>4, <3>1
  <2>5. CASE g[k] = t[k]
    BY <1>2, <1>3, <1>6, <2>2, <2>3, <2>5
  <2>6. CASE g[k] = "+"
    <3>4. x = k + 1
      <4>1. f[Len(t) - k][Append(p, t[k])][k + 1][FALSE].pos = k + 1
        <5>1. k < Len(t) /\ e[1][k] = "+"
          BY <1>1, <1>2, <2>1, <2>6
        <5>2. f[Len(t) - k][Append(SubSeq(e[1], 1, k - 1), t[k])][k + 1][FALSE].pos = k + 1
          BY <5>1 DEF OnTime
        <5> QED
          BY <1>2, <1>3, <5>2
      <4> QED
        BY <2>2, <4>1
    <3> QED
      BY <1>2, <1>3, <2>2, <2>3, <2>6, <3>4
  <2> QED
    BY <1>5, <2>4, <2>5, <2>6
<1> QED
  BY <1>10, <1>11

(* A filter that covers the topic is found if every + on its path is        *)
(* reached on time.                                                         *)
LEMMA FoundAll ==
  ASSUME TreeInv, NEW t \in Seq(Names), NEW f, IsMatch(t, f), NEW e \in tree, Covers(e[1], t),
         \A k \in 1..Len(e[1]) : OnTime(f, e, t, k)
  PROVE  e[2] \in f[Len(t)][<<>>][1][FALSE].found
<1>1. PICK N \in Nat, L \in Nat \ {0} : N = Len(t) /\ L = Len(e[1]) /\ L <= N /\ e[1] \in Paths
  BY LenProperties, PathsOfTree DEF Covers
<1> DEFINE In(n) == e[2] \in f[n][SubSeq(e[1], 1, N - n)][N - n + 1][FALSE].found
           A == {n \in 0..N : n # 0 /\ N - n + 1 <= L => In(n)}
<1>2. 0 \in A
  BY <1>1
<1>3. ASSUME NEW n \in 0..(N - 1), n \in A PROVE n + 1 \in A
  <2> HIDE DEF In
  <2>0. n + 1 \in 0..N /\ (N - (n + 1) + 1 <= L => N - n <= L)
    BY <1>1
  <2> SUFFICES ASSUME N - n <= L PROVE In(n + 1)
    BY <2>0
  <2>1. PICK k \in 1..N, h \in 1..N :
          /\ k = N - n /\ h = n + 1 /\ h - 1 = n /\ k \in 1..L
          /\ N - (n + 1) = k - 1 /\ N - (n + 1) + 1 = k /\ N - n + 1 = k + 1
          /\ n # 0 <=> k < N
    <3>1. N - n \in 1..N /\ n + 1 \in 1..N /\ (n + 1) - 1 = n /\ N - n \in 1..L
      BY <1>1
    <3>2. N - (n + 1) = (N - n) - 1 /\ N - (n + 1) + 1 = N - n /\ (n # 0 <=> N - n < N)
      BY <1>1
    <3> QED
      BY <3>1, <3>2
  <2>2. k < N /\ k < L => In(n)
    <3>1. k < N /\ k < L => n # 0 /\ N - n + 1 <= L
      BY <1>1, <2>1
    <3> QED
      BY <1>3, <3>1
  <2>3. k < N /\ k < L => e[2] \in f[h - 1][SubSeq(e[1], 1, k)][k + 1][FALSE].found
    BY <2>1, <2>2 DEF In
  <2>4. e[2] \in f[h][SubSeq(e[1], 1, k - 1)][k][FALSE].found
    <3>1. k \in 1..Len(e[1]) /\ k <= Len(t) /\ h \in 1..Len(t) /\ h - 1 = Len(t) - k /\ OnTime(f, e, t, k)
      BY <1>1, <2>1
    <3>2. k < Len(t) /\ k < Len(e[1]) => e[2] \in f[h - 1][SubSeq(e[1], 1, k)][k + 1][FALSE].found
      BY <1>1, <2>3, Zenon
    <3> QED
      BY <3>1, <3>2, FoundBelow
  <2> QED
    BY <2>1, <2>4 DEF In
<1>4. \A n \in 0..N : n \in A
  <2> HIDE DEF A
  <2> QED
    BY <1>2, <1>3, UpTo
<1>5. In(N)
  <2> HIDE DEF In
  <2>1. N \in 0..N /\ N # 0 /\ N - N + 1 <= L
    BY <1>1
  <2> QED
    BY <1>4, <2>1
<1>6. N - N = 1 - 1 /\ N - N + 1 = 1 /\ SubSeq(e[1], 1, 1 - 1) = <<>>
  BY <1>1, CutIs
<1> QED
  BY <1>1, <1>5, <1>6

(* It is, if nothing beside a "+" is a child that the topic can descend    *)
(* into, and for the last level but one.                                   *)
LEMMA UndisturbedIsOnTime ==
  ASSUME TreeInv, NEW t \in Seq(Names), NEW f, IsMatch(t, f), NEW e \in tree, Undisturbed(e, t),
         NEW k \in 1..Len(e[1])
  PROVE  OnTime(f, e, t, k)
<1> SUFFICES ASSUME k < Len(t), e[1][k] = "+"
             PROVE  f[Len(t) - k][Append(SubSeq(e[1], 1, k - 1), t[k])][k + 1][FALSE].pos = k + 1
  BY DEF OnTime
<1>1. PICK N \in Nat, L \in Nat : N = Len(t) /\ L = Len(e[1]) /\ k \in 1..L /\ k \in 1..N /\ k # N
  BY LenProperties, PathsOfTree
<1>2. PICK g \in Paths : g = e[1]
  BY PathsOfTree
<1>3. PICK p \in Paths : p = SubSeq(g, 1, k - 1) /\ Len(p) = k - 1
  BY <1>1, <1>2, CutIs
<1>a. Len(p) = k - 1
  BY <1>3
<1>6. t[k] \in Names /\ t[k] # "#" /\ t[k] # "+"
  BY <1>1, ElementOfSeq, SubscriptionTreeAssumption
<1>4. PICK q \in Paths : /\ q = Append(p, t[k]) /\ Len(q) = k /\ q[k] = t[k]
                         /\ \A i \in 1..(k - 1) : q[i] = p[i]
  <2>1. PICK q : q = Append(p, t[k])
    OBVIOUS
  <2>2. q \in Paths /\ Len(q) = Len(p) + 1 /\ q[Len(p) + 1] = t[k] /\ \A i \in 1..Len(p) : q[i] = p[i]
    BY <1>6, <2>1, AppendIs, ZenonT(40)
  <2>3. Len(p) = k - 1 /\ (k - 1) + 1 = k
    BY <1>1, <1>a
  <2> QED
    BY <2>1, <2>2, <2>3
<1>5. ASSUME Node(q) PROVE FALSE
  <2>1. PICK d \in tree : Len(q) <= Len(d[1]) /\ \A i \in 1..Len(q) : q[i] = d[1][i]
    BY <1>5, NodeIs
  <2>2. d[1] \in Paths /\ Len(d[1]) \in Nat
    BY PathsOfTree
  <2>3. k <= Len(d[1]) /\ d[1][k] = t[k] /\ \A i \in 1..(k - 1) : p[i] = d[1][i]
    BY <1>1, <1>4, <2>1
  <2>4. IsPrefix(p, d[1])
    <3>1. PICK r \in Paths : r = d[1]
      BY <2>2
    <3>2. Len(p) <= Len(r) /\ \A i \in 1..Len(p) : p[i] = r[i]
      BY <1>1, <1>a, <2>2, <2>3, <3>1
    <3> QED
      BY <3>1, <3>2, PrefixIs
  <2>5. Len(d[1]) < k \/ d[1][k] \in {"+", "#"} \/ d[1][k] # t[k]
    BY <1>1, <1>2, <1>3, <2>4 DEF Undisturbed
  <2> QED
    BY <1>1, <1>6, <2>2, <2>3, <2>5
<1>7. PICK j \in 0..Len(t), m \in 1..Len(t) : j = Len(t) - k /\ m = k + 1
  BY <1>1
<1>8. f[j][q][m][FALSE] = Result(SessionsAt(q), m)
  BY <1>5, VisitsThatEnd
<1>9. Result(SessionsAt(q), m).pos = m
  BY DEF Result
<1> QED
  BY <1>2, <1>3, <1>4, <1>7, <1>8, <1>9

(* With two levels the position cannot be too far yet. *)
LEMMA ShortIsOnTime ==
  ASSUME TreeInv, NEW t \in Seq(Names), Len(t) <= 2, NEW f, IsMatch(t, f), NEW e \in tree,
         NEW k \in 1..Len(e[1])
  PROVE  OnTime(f, e, t, k)
<1> SUFFICES ASSUME k < Len(t), e[1][k] = "+"
             PROVE  f[Len(t) - k][Append(SubSeq(e[1], 1, k - 1), t[k])][k + 1][FALSE].pos = k + 1
  BY DEF OnTime
<1>1. Len(t) \in Nat /\ Len(e[1]) \in Nat /\ e[1] \in Paths
  BY LenProperties, PathsOfTree
<1>2. k = 1 /\ Len(t) = 2 /\ Len(t) - k = 1 /\ k + 1 = Len(t) /\ 1 \in 1..Len(e[1]) /\ 1 \in 1..Len(t)
  <2>1. PICK N \in Nat, L \in Nat : N = Len(t) /\ L = Len(e[1]) /\ k \in 1..L /\ k < N /\ N <= 2
    BY <1>1
  <2>2. k = 1 /\ N = 2 /\ L >= 1
    BY <2>1
  <2> QED
    BY <2>1, <2>2
<1>3. t[1] \in Names /\ t[1] # "#"
  BY <1>2, ElementOfSeq, SubscriptionTreeAssumption
<1>4. SubSeq(e[1], 1, 1 - 1) = <<>> /\ <<>> \in Paths
  BY <1>1, <1>2, CutIs DEF Paths
<1>5. PICK q \in Paths : q = Append(<<>>, t[1]) /\ Last(q) = t[1]
  BY <1>3, <1>4, AppendIs
<1>6. Last(q) # "#"
  BY <1>3, <1>5
<1>7. f[1][q][Len(t)][FALSE] =
        Result(SessionsAt(Append(q, t[Len(t)])) \cup SessionsAt(Append(q, "#"))
                 \cup SessionsAt(Append(q, "+")), Len(t))
  BY <1>2, <1>6, LastVisit, ZenonT(40)
<1>8. f[1][q][Len(t)][FALSE].pos = Len(t)
  <2>1. \A S, x : Result(S, x).pos = x
    BY DEF Result
  <2> QED
    BY <1>7, <2>1
<1>9. f[1][Append(SubSeq(e[1], 1, 1 - 1), t[1])][Len(t)][FALSE].pos = Len(t)
  BY <1>4, <1>5, <1>8
<1> QED
  BY <1>2, <1>9

-----------------------------------------------------------------------------
(* The sessions that should be found.                                      *)
Covering(t) == {e[2] : e \in {x \in tree : Covers(x[1], t)}}

(* Only they are at the children of the nodes that fit the topic.          *)
LEMMA ChildCovers ==
  ASSUME TreeInv, NEW t \in Seq(Names), NEW p \in Paths, Len(p) < Len(t),
         \A i \in 1..Len(p) : p[i] \in {"+", t[i]},
         NEW x \in {"#", "+", t[Len(p) + 1]}, x = "#" \/ Len(p) + 1 = Len(t)
  PROVE  SessionsAt(Append(p, x)) \subseteq Covering(t)
<1>1. PICK N \in Nat, m \in Nat : N = Len(t) /\ m = Len(p) /\ m < N /\ m + 1 \in 1..N
  BY LenProperties DEF Paths
<1>2. t[m + 1] \in Names /\ x \in Names \cup {"+", "#"} /\ t[m + 1] # "#"
  BY <1>1, ElementOfSeq, SubscriptionTreeAssumption
<1>3. PICK q \in Paths : /\ q = Append(p, x) /\ Len(q) = m + 1 /\ q[m + 1] = x
                         /\ \A i \in 1..m : q[i] = p[i]
  <2>1. PICK q : q = Append(p, x)
    OBVIOUS
  <2>2. q \in Paths /\ Len(q) = Len(p) + 1 /\ q[Len(p) + 1] = x /\ \A i \in 1..Len(p) : q[i] = p[i]
    BY <1>2, <2>1, AppendIs
  <2> QED
    BY <1>1, <2>1, <2>2
<1>4. Last(q) = x
  BY <1>3 DEF Last
<1>5. IF Last(q) = "#" THEN Len(t) >= Len(q) ELSE Len(t) = Len(q)
  BY <1>1, <1>3, <1>4
<1>6. \A i \in 1..Len(q) : q[i] \in {"#", "+", t[i]}
  <2> TAKE i \in 1..Len(q)
  <2>1. CASE i = m + 1
    BY <1>1, <1>3, <2>1
  <2>2. CASE i # m + 1
    <3>1. i \in 1..m
      BY <1>1, <1>3, <2>2
    <3> QED
      BY <1>1, <1>3, <3>1
  <2> QED
    BY <2>1, <2>2
<1>7. Covers(q, t)
  BY <1>5, <1>6 DEF Covers
<1> QED
  BY <1>3, <1>7 DEF SessionsAt, Covering

(* What a visit at the last level takes covers the topic. *)
LEMMA LastCovers ==
  ASSUME TreeInv, NEW t \in Seq(Names), NEW f, IsMatch(t, f), NEW h \in 1..Len(t),
         NEW p \in Paths, Len(p) + 1 = Len(t), \A i \in 1..Len(p) : p[i] \in {"+", t[i]}
  PROVE  /\ f[h][p][Len(t)][FALSE].found \subseteq Covering(t)
         /\ f[h][p][Len(t)][FALSE].pos = Len(t)
<1>1. p = <<>> \/ Last(p) # "#"
  <2>1. CASE Len(p) = 0
    BY <2>1, EmptySeq DEF Paths
  <2>2. CASE Len(p) # 0
    <3>1. Len(p) \in 1..Len(p) /\ Len(p) \in 1..Len(t)
      BY <2>2, LenProperties DEF Paths
    <3>2. t[Len(p)] # "#"
      BY <3>1, ElementOfSeq, SubscriptionTreeAssumption
    <3> QED
      BY <3>1, <3>2 DEF Last
  <2> QED
    BY <2>1, <2>2
<1>2. PICK S : S = SessionsAt(Append(p, t[Len(t)])) \cup SessionsAt(Append(p, "#")) \cup SessionsAt(Append(p, "+"))
  OBVIOUS
<1>3. f[h][p][Len(t)][FALSE] = Result(S, Len(t))
  <2>1. f[h][p][Len(t)][FALSE] =
          Result(SessionsAt(Append(p, t[Len(t)])) \cup SessionsAt(Append(p, "#"))
                   \cup SessionsAt(Append(p, "+")), Len(t))
    BY <1>1, LastVisit
  <2> QED
    BY <1>2, <2>1
<1>4. \A x \in {"#", "+", t[Len(p) + 1]} : SessionsAt(Append(p, x)) \subseteq Covering(t)
  <2>1. Len(p) < Len(t)
    BY LenProperties DEF Paths
  <2> QED
    BY <2>1, ChildCovers
<1>5. S \subseteq Covering(t)
  <2>1. /\ SessionsAt(Append(p, t[Len(t)])) \subseteq Covering(t)
        /\ SessionsAt(Append(p, "#")) \subseteq Covering(t)
        /\ SessionsAt(Append(p, "+")) \subseteq Covering(t)
    BY <1>4
  <2> QED
    BY <1>2, <2>1
<1>6. Result(S, Len(t)).found = S /\ Result(S, Len(t)).pos = Len(t)
  BY DEF Result
<1> QED
  BY <1>3, <1>5, <1>6

(* Topics of one and two levels.                                           *)
LEMMA ShortCovers ==
  ASSUME TreeInv, NEW t \in Seq(Names), Len(t) \in {1, 2}, NEW f, IsMatch(t, f)
  PROVE  f[Len(t)][<<>>][1][FALSE].found \subseteq Covering(t)
<1>1. <<>> \in Paths /\ Len(<<>>) = 0
  BY DEF Paths
<1>2. CASE Len(t) = 1
  <2>1. PICK p \in Paths : p = <<>> /\ Len(p) + 1 = Len(t) /\ \A i \in 1..Len(p) : p[i] \in {"+", t[i]}
    BY <1>1, <1>2
  <2>2. Len(t) \in 1..Len(t)
    BY <1>2
  <2>3. f[Len(t)][p][Len(t)][FALSE].found \subseteq Covering(t)
    BY <2>1, <2>2, LastCovers
  <2> QED
    BY <1>2, <2>1, <2>3
<1>3. CASE Len(t) = 2
  <2>1. 1 \in 1..Len(t) /\ 2 \in 1..Len(t) /\ 1 # Len(t) /\ 2 - 1 = 1 /\ 1 + 1 = 2 /\ 2 \in 0..Len(t)
    BY <1>3
  <2>2. PICK r \in Paths : r = <<>>
    BY <1>1
  <2>3. CASE ~Node(r)
    <3>1. f[2][r][1][FALSE] = Result(SessionsAt(r), 1)
      BY <2>1, <2>3, VisitsThatEnd
    <3>2. SessionsAt(r) = {}
      BY <2>3, NodeIs
    <3>3. Result({}, 1).found = {}
      BY DEF Result
    <3> QED
      BY <1>3, <2>2, <3>1, <3>2, <3>3
  <2>4. CASE Node(r)
    <3>1. ASSUME NEW x \in {"+", t[1]}
          PROVE  /\ f[1][Append(r, x)][2][FALSE].found \subseteq Covering(t)
                 /\ f[1][Append(r, x)][2][FALSE].pos = 2
      <4>1. x \in Names \cup {"+", "#"}
        BY <2>1, ElementOfSeq
      <4>2. PICK p \in Paths : p = Append(r, x) /\ Len(p) = 1 /\ p[1] = x
        <5>1. PICK p : p = Append(r, x)
          OBVIOUS
        <5>2. p \in Paths /\ Len(p) = Len(r) + 1 /\ p[Len(r) + 1] = x
          BY <4>1, <5>1, AppendIs
        <5>3. Len(r) + 1 = 1
          BY <1>1, <2>2
        <5> QED
          BY <5>1, <5>2, <5>3
      <4>3. Len(p) + 1 = Len(t) /\ \A i \in 1..Len(p) : p[i] \in {"+", t[i]}
        BY <1>3, <4>2
      <4>4. /\ f[1][p][Len(t)][FALSE].found \subseteq Covering(t)
            /\ f[1][p][Len(t)][FALSE].pos = Len(t)
        BY <2>1, <4>3, LastCovers
      <4> QED
        BY <1>3, <4>2, <4>4
    <3>2. f[2][r][1][FALSE].found = Gathered(f[2 - 1], r, t[1], 1 + 1)
      BY <2>1, <2>2, <2>4, InnerVisit, ZenonT(40)
    <3>3. SessionsAt(Append(r, "#")) \subseteq Covering(t)
      <4>1. Len(r) < Len(t) /\ \A i \in 1..Len(r) : r[i] \in {"+", t[i]}
        BY <1>1, <1>3, <2>2
      <4> QED
        BY <4>1, ChildCovers
    <3>4. Gathered(f[1], r, t[1], 2) \subseteq Covering(t)
      <4>1. PICK exact : exact = f[1][Append(r, t[1])][2][FALSE] /\ exact.pos = 2 /\ exact.found \subseteq Covering(t)
        BY <3>1
      <4>2. PICK plus : plus = f[1][Append(r, "+")][exact.pos][FALSE] /\ plus.found \subseteq Covering(t)
        BY <3>1, <4>1
      <4>3. Gathered(f[1], r, t[1], 2) = exact.found \cup SessionsAt(Append(r, "#")) \cup plus.found
        BY <4>1, <4>2 DEF Gathered
      <4> QED
        BY <3>3, <4>1, <4>2, <4>3
    <3> QED
      BY <1>3, <2>1, <2>2, <3>2, <3>4
  <2> QED
    BY <2>3, <2>4
<1> QED
  BY <1>2, <1>3

(* Trees without "+", one level of the topic.                              *)
LEMMA ExactBelow ==
  ASSUME TreeInv, NEW t \in Seq(Names), NEW f, IsMatch(t, f), \A e \in tree : ~Contains(e[1], "+"),
         NEW k \in 1..Len(t), NEW h \in 1..Len(t),
         k # Len(t) => f[h - 1][SubSeq(t, 1, k)][k + 1][FALSE].found \subseteq Covering(t)
  PROVE  f[h][SubSeq(t, 1, k - 1)][k][FALSE].found \subseteq Covering(t)
<1>1. PICK N \in Nat : N = Len(t) /\ k \in 1..N /\ h \in 1..N
  BY LenProperties
<1>2. t \in Paths /\ t[k] \in Names /\ t[k] # "+"
  BY <1>1, ElementOfSeq, SubscriptionTreeAssumption DEF Paths
<1>3. PICK p \in Paths : /\ p = SubSeq(t, 1, k - 1) /\ Len(p) = k - 1
                         /\ \A i \in 1..(k - 1) : p[i] = t[i]
                         /\ Append(p, t[k]) = SubSeq(t, 1, k)
  BY <1>1, <1>2, CutIs
<1>a. Len(p) = k - 1 /\ Len(p) + 1 = k /\ Len(p) < Len(t) /\ \A i \in 1..Len(p) : p[i] \in {"+", t[i]}
  <2>1. Len(p) = k - 1 /\ \A i \in 1..(k - 1) : p[i] = t[i]
    BY <1>3
  <2> QED
    BY <1>1, <2>1
<1>4. CASE k = Len(t)
  <2>1. f[h][p][Len(t)][FALSE].found \subseteq Covering(t)
    BY <1>4, <1>a, LastCovers
  <2> QED
    BY <1>3, <1>4, <2>1
<1>5. CASE k # Len(t) /\ ~Node(p)
  <2>1. h \in 0..Len(t)
    BY <1>1
  <2>2. f[h][p][k][FALSE] = Result(SessionsAt(p), k)
    BY <1>5, <2>1, VisitsThatEnd
  <2>3. SessionsAt(p) = {} /\ Result({}, k).found = {}
    BY <1>5, NodeIs DEF Result
  <2> QED
    BY <1>3, <2>2, <2>3
<1>6. CASE k # Len(t) /\ Node(p)
  <2>1. p = <<>> \/ Last(p) # "#"
    <3>1. CASE k = 1
      BY <1>a, <3>1, EmptySeq DEF Paths
    <3>2. CASE k # 1
      <4>1. k - 1 \in 1..Len(p) /\ k - 1 \in 1..Len(t)
        BY <1>1, <1>a, <3>2
      <4>2. t[k - 1] # "#"
        BY <4>1, ElementOfSeq, SubscriptionTreeAssumption
      <4> QED
        BY <1>a, <4>1, <4>2 DEF Last
    <3> QED
      BY <3>1, <3>2
  <2>2. f[h][p][k][FALSE].found = Gathered(f[h - 1], p, t[k], k + 1)
    BY <1>6, <2>1, InnerVisit
  <2>3. PICK j \in 0..Len(t), m \in 1..Len(t) : j = h - 1 /\ m = k + 1
    BY <1>1, <1>6
  <2>4. PICK exact : /\ exact = f[j][Append(p, t[k])][m][FALSE] /\ exact.pos \in 1..Len(t)
                     /\ exact.found \subseteq Covering(t)
    <3>1. PICK q \in Paths : q = Append(p, t[k])
      BY <1>2, AppendIs
    <3>2. f[j][q][m][FALSE].pos \in 1..Len(t)
      BY PositionStays
    <3>3. f[j][SubSeq(t, 1, k)][m][FALSE].found \subseteq Covering(t)
      BY <1>6, <2>3
    <3> QED
      BY <1>3, <3>1, <3>2, <3>3
  <2>5. SessionsAt(Append(p, "#")) \subseteq Covering(t)
    BY <1>a, ChildCovers
  <2>6. PICK plus : plus = f[j][Append(p, "+")][exact.pos][FALSE] /\ plus.found = {}
    <3>1. PICK q \in Paths : /\ q = Append(p, "+") /\ Len(q) = Len(p) + 1 /\ q[Len(p) + 1] = "+"
      BY AppendIs
    <3>2. Len(q) = k /\ q[k] = "+"
      BY <1>a, <3>1
    <3>3. ASSUME Node(q) PROVE FALSE
      <4>1. PICK d \in tree : Len(q) <= Len(d[1]) /\ \A i \in 1..Len(q) : q[i] = d[1][i]
        BY <3>3, NodeIs
      <4>2. k \in 1..Len(d[1]) /\ d[1][k] = "+"
        <5>1. Len(d[1]) \in Nat
          BY PathsOfTree
        <5> QED
          BY <1>1, <3>2, <4>1, <5>1
      <4> QED
        BY <4>2 DEF Contains
    <3>4. PICK x \in 1..Len(t) : x = exact.pos
      BY <2>4
    <3>5. f[j][q][x][FALSE] = Result(SessionsAt(q), x)
      BY <3>3, VisitsThatEnd, ZenonT(40)
    <3>6. SessionsAt(q) = {} /\ Result({}, x).found = {}
      BY <3>3, NodeIs DEF Result
    <3> QED
      BY <3>1, <3>4, <3>5, <3>6
  <2>7. Gathered(f[j], p, t[k], m) = exact.found \cup SessionsAt(Append(p, "#")) \cup plus.found
    BY <2>4, <2>6 DEF Gathered
  <2>8. Gathered(f[j], p, t[k], m) \subseteq Covering(t)
    BY <2>4, <2>5, <2>6, <2>7
  <2> QED
    BY <1>3, <2>2, <2>3, <2>8
<1> QED
  BY <1>4, <1>5, <1>6

(* Without + only filters that cover the topic are found. *)
LEMMA ExactCovers ==
  ASSUME TreeInv, NEW t \in Seq(Names), Len(t) # 0, NEW f, IsMatch(t, f),
         \A e \in tree : ~Contains(e[1], "+")
  PROVE  f[Len(t)][<<>>][1][FALSE].found \subseteq Covering(t)
<1>1. PICK N \in Nat \ {0} : N = Len(t)
  BY LenProperties
<1> DEFINE In(n) == f[n][SubSeq(t, 1, N - n)][N - n + 1][FALSE].found \subseteq Covering(t)
           A == {n \in 0..N : n # 0 => In(n)}
<1>2. 0 \in A
  BY <1>1
<1>3. ASSUME NEW n \in 0..(N - 1), n \in A PROVE n + 1 \in A
  <2> HIDE DEF In
  <2>0. n + 1 \in 0..N
    BY <1>1
  <2> SUFFICES In(n + 1)
    BY <2>0
  <2>1. PICK k \in 1..N, h \in 1..N :
          /\ k = N - n /\ h = n + 1 /\ h - 1 = n
          /\ N - (n + 1) = k - 1 /\ N - (n + 1) + 1 = k /\ N - n + 1 = k + 1
          /\ n # 0 <=> k # N
    <3>1. N - n \in 1..N /\ n + 1 \in 1..N /\ (n + 1) - 1 = n
      BY <1>1
    <3>2. N - (n + 1) = (N - n) - 1 /\ N - (n + 1) + 1 = N - n /\ (n # 0 <=> N - n # N)
      BY <1>1
    <3> QED
      BY <3>1, <3>2
  <2>2. k # N => In(n)
    BY <1>3, <2>1
  <2>3. k # Len(t) => f[h - 1][SubSeq(t, 1, k)][k + 1][FALSE].found \subseteq Covering(t)
    BY <1>1, <2>1, <2>2 DEF In
  <2>4. f[h][SubSeq(t, 1, k - 1)][k][FALSE].found \subseteq Covering(t)
    <3>1. k \in 1..Len(t) /\ h \in 1..Len(t)
      BY <1>1
    <3> QED
      BY <2>3, <3>1, ExactBelow
  <2> QED
    BY <2>1, <2>4 DEF In
<1>4. \A n \in 0..N : n \in A
  <2> HIDE DEF A
  <2> QED
    BY <1>2, <1>3, UpTo
<1>5. In(N)
  <2> HIDE DEF In
  <2>1. N \in 0..N /\ N # 0
    BY <1>1
  <2> QED
    BY <1>4, <2>1
<1>6. N - N = 1 - 1 /\ N - N + 1 = 1 /\ SubSeq(t, 1, 1 - 1) = <<>>
  <2>1. t \in Paths /\ 1 \in 1..Len(t)
    BY <1>1 DEF Paths
  <2> QED
    BY <1>1, <2>1, CutIs
<1> QED
  BY <1>1, <1>5, <1>6

-----------------------------------------------------------------------------
(* The levels of a filter are a filter, those of a topic a topic.          *)
LEMMA LevelsIs ==
  ASSUME NEW S, NEW n \in Nat \ {0}, NEW g \in [1..n -> S]
  PROVE  /\ g \in Seq(S) /\ Len(g) = n
         /\ Levels(g) \in [1..Len(Levels(g)) -> S] /\ Len(Levels(g)) \in 1..n
         /\ \A i \in 1..Len(Levels(g)) : Levels(g)[i] = g[i]
<1>1. g \in Seq(S) /\ Len(g) = n
  OBVIOUS
<1>2. CASE n > 1 /\ Last(g) = ""
  <2>0. n > 1
    BY <1>2
  <2>1. PICK m \in 1..n : m = n - 1
    BY <2>0
  <2>2. SubSeq(g, 1, m) \in [1..m -> S] /\ Len(SubSeq(g, 1, m)) = m /\ \A i \in 1..m : SubSeq(g, 1, m)[i] = g[i]
    <3>1. 1 \in 1..(Len(g) + 1) /\ m \in (1 - 1)..Len(g) /\ (m - 1) + 1 = m
      BY <1>1
    <3>2. SubSeq(g, 1, m) \in Seq(S) /\ Len(SubSeq(g, 1, m)) = m /\ \A i \in 1..m : SubSeq(g, 1, m)[i] = g[i]
      BY <1>1, <3>1, SubSeqProperties
    <3>3. PICK q \in Seq(S) : q = SubSeq(g, 1, m) /\ Len(q) = m
      BY <3>2
    <3>4. q \in [1..Len(q) -> S]
      OBVIOUS
    <3> QED
      BY <3>2, <3>3, <3>4
  <2>3. Levels(g) = SubSeq(g, 1, m)
    BY <1>1, <1>2, <2>1 DEF Levels, Front
  <2> QED
    BY <1>1, <2>2, <2>3
<1>3. CASE ~(n > 1 /\ Last(g) = "")
  <2>1. Levels(g) = g
    BY <1>1, <1>3 DEF Levels
  <2>2. n \in 1..n
    OBVIOUS
  <2> QED
    BY <1>1, <2>1, <2>2
<1> QED
  BY <1>2, <1>3

(* The empty tree. *)
LEMMA TreeInitInv == TreeInit => TreeInv
BY DEF TreeInit, TreeInv

(* A filter that is added is stored by its levels. *)
LEMMA TreeNextInv == TreeInv /\ [TreeNext]_tree => TreeInv'
<1> SUFFICES ASSUME TreeInv, TreeNext PROVE TreeInv'
  BY DEF TreeInv
<1>1. PICK g \in Filters, s \in Sessions : tree' = tree \cup {<<Levels(g), s>>}
  BY DEF TreeNext, AddFilter
<1>2. PICK n \in 1..MaxLevels : g \in [1..n -> Names \cup {"+", "#"}] /\ \A i \in 1..(Len(g) - 1) : g[i] # "#"
  BY DEF Filters
<1>3. n \in Nat \ {0} /\ \A m \in 1..n : m \in 1..MaxLevels
  BY SubscriptionTreeAssumption
<1>4. PICK m \in 1..n : /\ Levels(g) \in [1..m -> Names \cup {"+", "#"}] /\ Len(Levels(g)) = m /\ Len(g) = n
                        /\ \A i \in 1..m : Levels(g)[i] = g[i]
  <2>1. PICK S : S = Names \cup {"+", "#"}
    OBVIOUS
  <2>2. g \in [1..n -> S]
    BY <1>2, <2>1
  <2>3. /\ Len(g) = n /\ Levels(g) \in [1..Len(Levels(g)) -> S] /\ Len(Levels(g)) \in 1..n
        /\ \A i \in 1..Len(Levels(g)) : Levels(g)[i] = g[i]
    BY <1>3, <2>2, LevelsIs
  <2> QED
    BY <2>1, <2>3
<1>5. \A i \in 1..(m - 1) : Levels(g)[i] # "#"
  BY <1>2, <1>3, <1>4
<1>6. Levels(g) \in Filters
  BY <1>3, <1>4, <1>5 DEF Filters
<1> QED
  BY <1>1, <1>6 DEF TreeInv

(* What match finds, for the levels of a topic.                            *)
LEMMA MatchTopicIs ==
  ASSUME TreeInv, NEW t \in Topics
  PROVE  /\ Levels(t) \in Seq(Names) /\ Len(Levels(t)) \in Nat \ {0}
         /\ Expected(t) = Covering(Levels(t))
         /\ \E f : IsMatch(Levels(t), f) /\ MatchTopic(t) = f[Len(Levels(t))][<<>>][1][FALSE].found
<1>1. PICK n \in 1..MaxLevels : t \in [1..n -> Names]
  BY DEF Topics
<1>2. n \in Nat \ {0}
  BY SubscriptionTreeAssumption
<1>3. PICK m \in 1..n : Levels(t) \in [1..m -> Names] /\ Len(Levels(t)) = m
  <2>1. Levels(t) \in [1..Len(Levels(t)) -> Names] /\ Len(Levels(t)) \in 1..n
    BY <1>1, <1>2, LevelsIs
  <2> QED
    BY <2>1
<1>4. Levels(t) \in Seq(Names) /\ Len(Levels(t)) \in Nat \ {0}
  BY <1>2, <1>3
<1>5. Expected(t) = Covering(Levels(t))
  BY DEF Expected, Covering
<1>6. PICK f : IsMatch(Levels(t), f) /\ Match(Levels(t)) = f[Len(Levels(t))]
  BY <1>4, MatchIs
<1>7. MatchTopic(t) = f[Len(Levels(t))][<<>>][1][FALSE].found
  BY <1>6 DEF MatchTopic
<1> QED
  BY <1>4, <1>5, <1>6, <1>7

(* The three promises of match.                                            *)
LEMMA ShortIsMatched == TreeInv => ShortTopicsMatch
<1> SUFFICES ASSUME TreeInv, NEW t \in Topics, Len(Levels(t)) <= 2
             PROVE  MatchTopic(t) = Expected(t)
  BY DEF ShortTopicsMatch
<1>1. PICK u \in Seq(Names) : u = Levels(t) /\ Len(u) \in {1, 2} /\ Len(u) <= 2 /\ Expected(t) = Covering(u)
  <2>1. Levels(t) \in Seq(Names) /\ Len(Levels(t)) \in Nat \ {0} /\ Expected(t) = Covering(Levels(t))
    BY MatchTopicIs
  <2>2. Len(Levels(t)) \in {1, 2}
    <3>1. PICK n \in Nat \ {0} : n = Len(Levels(t)) /\ n <= 2
      BY <2>1
    <3>2. n = 1 \/ n = 2
      BY <3>1
    <3> QED
      BY <3>1, <3>2
  <2> QED
    BY <2>1, <2>2
<1>2. PICK f : IsMatch(u, f) /\ MatchTopic(t) = f[Len(u)][<<>>][1][FALSE].found
  BY <1>1, MatchTopicIs
<1>3. f[Len(u)][<<>>][1][FALSE].found \subseteq Covering(u)
  BY <1>1, <1>2, ShortCovers
<1>a. MatchTopic(t) = f[Len(u)][<<>>][1][FALSE].found /\ Expected(t) = Covering(u)
  BY <1>1, <1>2
<1>4. ASSUME NEW e \in tree, Covers(e[1], u) PROVE e[2] \in f[Len(u)][<<>>][1][FALSE].found
  <2>1. \A k \in 1..Len(e[1]) : OnTime(f, e, u, k)
    BY <1>1, <1>2, ShortIsOnTime
  <2> QED
    BY <1>2, <1>4, <2>1, FoundAll
<1>5. Covering(u) \subseteq f[Len(u)][<<>>][1][FALSE].found
  BY <1>4 DEF Covering
<1> QED
  <2>1. PICK F, C : F = f[Len(u)][<<>>][1][FALSE].found /\ C = Covering(u)
    OBVIOUS
  <2>2. F \subseteq C /\ C \subseteq F
    BY <1>3, <1>5, <2>1, Zenon
  <2>3. F = C
    BY <2>2
  <2> QED
    BY <1>a, <2>1, <2>3, Zenon

(* If no + of a covering filter has a sibling on the topic's way, all of    *)
(* them are found.                                                          *)
LEMMA UndisturbedIsFound ==
  ASSUME TreeInv, NEW u \in Seq(Names), NEW f, IsMatch(u, f),
         \A e \in tree : Covers(e[1], u) => Undisturbed(e, u)
  PROVE  Covering(u) \subseteq f[Len(u)][<<>>][1][FALSE].found
<1>1. ASSUME NEW e \in tree, Covers(e[1], u) PROVE e[2] \in f[Len(u)][<<>>][1][FALSE].found
  <2>1. Undisturbed(e, u)
    BY <1>1
  <2>2. \A k \in 1..Len(e[1]) : OnTime(f, e, u, k)
    BY <2>1, UndisturbedIsOnTime
  <2> QED
    BY <1>1, <2>2, FoundAll
<1> QED
  BY <1>1 DEF Covering

(* Trees without +. *)
LEMMA ExactIsMatched == TreeInv => MatchWithoutPlus
<1> SUFFICES ASSUME TreeInv, \A e \in tree : ~Contains(e[1], "+"), NEW t \in Topics
             PROVE  MatchTopic(t) = Expected(t)
  BY DEF MatchWithoutPlus
<1>1. PICK u \in Seq(Names) : u = Levels(t) /\ Len(u) # 0 /\ Expected(t) = Covering(u)
  BY MatchTopicIs
<1>2. PICK f : IsMatch(u, f) /\ MatchTopic(t) = f[Len(u)][<<>>][1][FALSE].found
  BY <1>1, MatchTopicIs
<1>3. f[Len(u)][<<>>][1][FALSE].found \subseteq Covering(u)
  BY <1>1, <1>2, ExactCovers
<1>a. MatchTopic(t) = f[Len(u)][<<>>][1][FALSE].found /\ Expected(t) = Covering(u)
  BY <1>1, <1>2
<1>4. \A e \in tree : Undisturbed(e, u)
  BY DEF Contains, Undisturbed
<1>5. Covering(u) \subseteq f[Len(u)][<<>>][1][FALSE].found
  BY <1>2, <1>4, UndisturbedIsFound
<1> QED
  <2>1. PICK F, C : F = f[Len(u)][<<>>][1][FALSE].found /\ C = Covering(u)
    OBVIOUS
  <2>2. F \subseteq C /\ C \subseteq F
    BY <1>3, <1>5, <2>1, Zenon
  <2>3. F = C
    BY <2>2
  <2> QED
    BY <1>a, <2>1, <2>3, Zenon

(* Trees in which a + has no sibling the topic descends into. *)
LEMMA AloneIsMatched == TreeInv => MatchAlone
<1> SUFFICES ASSUME TreeInv, NEW t \in Topics,
                    \A e, g \in tree : Covers(e[1], Levels(t)) =>
                      \A n \in 1..Len(e[1]) :
                        e[1][n] = "+" /\ IsPrefix(SubSeq(e[1], 1, n - 1), g[1])
                          => Len(g[1]) < n \/ g[1][n] \in {"+", "#"} \/ g[1][n] # Levels(t)[n]
             PROVE  Expected(t) \subseteq MatchTopic(t)
  BY DEF MatchAlone
<1>1. PICK u \in Seq(Names) : u = Levels(t) /\ Expected(t) = Covering(u)
  BY MatchTopicIs
<1>2. PICK f : IsMatch(u, f) /\ MatchTopic(t) = f[Len(u)][<<>>][1][FALSE].found
  BY <1>1, MatchTopicIs
<1>3. \A e \in tree : Covers(e[1], u) => Undisturbed(e, u)
  BY <1>1 DEF Undisturbed
<1>4. Covering(u) \subseteq f[Len(u)][<<>>][1][FALSE].found
  BY <1>2, <1>3, UndisturbedIsFound
<1> QED
  BY <1>1, <1>2, <1>4

(* For any names, levels and number of subscriptions: topics of at most    *)
(* two levels are matched exactly, so are all topics in a tree without     *)
(* "+", and a filter is found if nothing beside its "+" can move the       *)
(* position that copies of the iterator share.                             *)
THEOREM SimpleTreesAreMatched == TreeSpec => []MatchesSimpleTrees
<1>1. TreeInv => MatchesSimpleTrees
  BY ShortIsMatched, ExactIsMatched, AloneIsMatched DEF MatchesSimpleTrees
<1> QED
  BY TreeInitInv, TreeNextInv, <1>1, PTL DEF TreeSpec

-----------------------------------------------------------------------------
(* The filters of a SUBSCRIBE: operator< on strings, std::sort, std::unique *)
(* and the lists the parser collects.                                      *)
Bytes == 0..255
Strings == Seq(Bytes)

(* The elements of a string are numbers. *)
LEMMA ByteIs == ASSUME NEW s \in Strings PROVE \A i \in 1..Len(s) : s[i] \in Int
<1>1. \A i \in 1..Len(s) : s[i] \in Bytes
  BY ElementOfSeq DEF Strings
<1>2. \A x \in Bytes : x \in Int
  BY DEF Bytes
<1> QED
  BY <1>1, <1>2

(* s comes before t because of what follows their first k bytes. *)
Before(s, t, k) ==
  /\ k < Len(t) /\ k <= Len(s)
  /\ \A j \in 1..k : s[j] = t[j]
  /\ k = Len(s) \/ s[k + 1] < t[k + 1]

(* The comparison of strings looks for the first difference. *)
LEMMA LexLessIs ==
  ASSUME NEW s \in Strings, NEW t \in Strings
  PROVE  LexLess(s, t) <=> \E k \in Nat : Before(s, t, k)
<1>1. PICK m \in Nat, n \in Nat : /\ m = Len(s) /\ n = Len(t)
                                  /\ DOMAIN s = 1..m /\ DOMAIN t = 1..n
  BY LenProperties DEF Strings
<1>2. IsPrefix(s, t) <=> m <= n /\ \A j \in 1..m : s[j] = t[j]
  BY <1>1, PrefixIn DEF Strings
<1>3. s # t <=> m # n \/ \E j \in 1..m : s[j] # t[j]
  BY <1>1, SeqEqual DEF Strings
<1>4. IsStrictPrefix(s, t) <=> m < n /\ \A j \in 1..m : s[j] = t[j]
  BY <1>2, <1>3 DEF IsStrictPrefix
<1>5. ASSUME LexLess(s, t) PROVE \E k \in Nat : Before(s, t, k)
  <2>1. CASE IsStrictPrefix(s, t)
    BY <1>1, <1>4, <2>1 DEF Before
  <2>2. CASE ~IsStrictPrefix(s, t)
    <3>1. PICK i \in 1..m : i \in 1..n /\ s[i] < t[i] /\ \A j \in 1..(i - 1) : s[j] = t[j]
      BY <1>1, <1>5, <2>2 DEF LexLess
    <3>2. i - 1 \in Nat /\ Before(s, t, i - 1)
      BY <1>1, <3>1 DEF Before
    <3> QED
      BY <3>2
  <2> QED
    BY <2>1, <2>2
<1>6. ASSUME NEW k \in Nat, Before(s, t, k) PROVE LexLess(s, t)
  <2>1. CASE k = m
    BY <1>1, <1>4, <1>6, <2>1 DEF LexLess, Before
  <2>2. CASE k # m
    <3>1. k + 1 \in 1..m /\ k + 1 \in 1..n /\ s[k + 1] < t[k + 1]
          /\ \A j \in 1..((k + 1) - 1) : s[j] = t[j]
      BY <1>1, <1>6, <2>2 DEF Before
    <3> QED
      BY <1>1, <3>1 DEF LexLess
  <2> QED
    BY <2>1, <2>2
<1> QED
  BY <1>5, <1>6

(* It is a strict order on strings ... *)
LEMMA LexIsStrict ==
  ASSUME NEW s \in Strings, NEW t \in Strings, LexLess(s, t)
  PROVE  ~LexLess(t, s)
<1> SUFFICES ASSUME LexLess(t, s) PROVE FALSE
  OBVIOUS
<1>1. PICK m \in Nat, n \in Nat : /\ m = Len(s) /\ n = Len(t)
  BY LenProperties DEF Strings
<1>2. PICK k \in Nat : Before(s, t, k)
  BY LexLessIs
<1>3. PICK l \in Nat : Before(t, s, l)
  BY LexLessIs
<1>4. /\ \A i \in 1..m : s[i] \in Int
      /\ \A i \in 1..n : t[i] \in Int
  BY <1>1, ByteIs
<1>5. k < n /\ k <= m /\ l < m /\ l <= n
  BY <1>1, <1>2, <1>3 DEF Before
<1>6. CASE k < l
  <2>1. k + 1 \in 1..l /\ k # m /\ k + 1 \in 1..m
    BY <1>5, <1>6
  <2> QED
    BY <1>1, <1>2, <1>3, <1>4, <2>1 DEF Before
<1>7. CASE l < k
  <2>1. l + 1 \in 1..k /\ l # n /\ l + 1 \in 1..m
    BY <1>5, <1>7
  <2> QED
    BY <1>1, <1>2, <1>3, <1>4, <2>1 DEF Before
<1>8. CASE k = l
  <2>1. k # m /\ k # n /\ k + 1 \in 1..m /\ k + 1 \in 1..n
    BY <1>5, <1>8
  <2> QED
    BY <1>1, <1>2, <1>3, <1>4, <1>8, <2>1 DEF Before
<1> QED
  BY <1>6, <1>7, <1>8

(* ... that is transitive ... *)
LEMMA LexIsTransitive ==
  ASSUME NEW s \in Strings, NEW t \in Strings, NEW u \in Strings, LexLess(s, t), LexLess(t, u)
  PROVE  LexLess(s, u)
<1>1. PICK m \in Nat, n \in Nat, o \in Nat : m = Len(s) /\ n = Len(t) /\ o = Len(u)
  BY LenProperties DEF Strings
<1>2. PICK k \in Nat : Before(s, t, k)
  BY LexLessIs
<1>3. PICK l \in Nat : Before(t, u, l)
  BY LexLessIs
<1>4. /\ \A i \in 1..m : s[i] \in Int
      /\ \A i \in 1..n : t[i] \in Int
      /\ \A i \in 1..o : u[i] \in Int
  BY <1>1, ByteIs
<1>5. k < n /\ k <= m /\ l < o /\ l <= n
  BY <1>1, <1>2, <1>3 DEF Before
<1>6. CASE k < l
  <2>1. k + 1 \in 1..l /\ k + 1 \in 1..o /\ k < o /\ 1..k \subseteq 1..l
    BY <1>5, <1>6
  <2>2. \A j \in 1..k : s[j] = u[j]
    BY <1>2, <1>3, <2>1 DEF Before
  <2>3. k = m \/ s[k + 1] < u[k + 1]
    BY <1>1, <1>2, <1>3, <2>1 DEF Before
  <2>4. Before(s, u, k)
    BY <1>1, <1>5, <2>1, <2>2, <2>3 DEF Before
  <2> QED
    BY <2>4, LexLessIs
<1>7. CASE l < k
  <2>1. l + 1 \in 1..k /\ l # n /\ l # m /\ l <= m /\ 1..l \subseteq 1..k
    BY <1>5, <1>7
  <2>2. \A j \in 1..l : s[j] = u[j]
    BY <1>2, <1>3, <2>1 DEF Before
  <2>3. s[l + 1] < u[l + 1]
    BY <1>1, <1>2, <1>3, <2>1 DEF Before
  <2>4. Before(s, u, l)
    BY <1>1, <1>5, <2>1, <2>2, <2>3 DEF Before
  <2> QED
    BY <2>4, LexLessIs
<1>8. CASE k = l
  <2>1. k # n /\ k + 1 \in 1..n /\ k + 1 \in 1..o /\ (k # m => k + 1 \in 1..m)
    BY <1>5, <1>8
  <2>2. \A j \in 1..k : s[j] = u[j]
    BY <1>2, <1>3, <1>8 DEF Before
  <2>3. k = m \/ s[k + 1] < u[k + 1]
    BY <1>1, <1>2, <1>3, <1>4, <1>8, <2>1 DEF Before
  <2>4. Before(s, u, k)
    BY <1>1, <1>5, <1>8, <2>1, <2>2, <2>3 DEF Before
  <2> QED
    BY <2>4, LexLessIs
<1> QED
  BY <1>6, <1>7, <1>8

(* ... and total. *)
LEMMA LexIsTotal ==
  ASSUME NEW s \in Strings, NEW t \in Strings, ~LexLess(s, t), ~LexLess(t, s)
  PROVE  s = t
<1>1. PICK m \in Nat, n \in Nat : /\ m = Len(s) /\ n = Len(t)
  BY LenProperties DEF Strings
<1> DEFINE D == {i \in Nat : i >= m \/ i >= n \/ s[i + 1] # t[i + 1]}
<1>2. PICK k \in D : \A j \in D : k <= j
  <2>1. D \subseteq Nat /\ m \in D
    OBVIOUS
  <2> HIDE DEF D
  <2> QED
    BY <2>1, LeastNat
<1>3. k \in Nat /\ \A i \in Nat : i < k => i \notin D
  BY <1>2
<1>4. k <= m /\ k <= n
  BY <1>3, <1>1
<1>5. \A j \in 1..k : s[j] = t[j]
  <2>1. \A j \in 1..k : j - 1 \in Nat /\ j - 1 < k /\ (j - 1) + 1 = j
    BY <1>3
  <2> QED
    BY <2>1, <1>3
<1>6. k >= m \/ k >= n \/ s[k + 1] # t[k + 1]
  BY <1>2
<1>7. ~Before(s, t, k) /\ ~Before(t, s, k)
  BY <1>3, LexLessIs
<1>8. CASE k = m /\ k = n
  BY <1>1, <1>5, <1>8, SeqEqual DEF Strings
<1>9. CASE k = m /\ k # n
  BY <1>1, <1>3, <1>4, <1>5, <1>7, <1>9 DEF Before
<1>10. CASE k = n /\ k # m
  BY <1>1, <1>3, <1>4, <1>5, <1>7, <1>10 DEF Before
<1>11. CASE k # n /\ k # m
  <2>1. k + 1 \in 1..m /\ k + 1 \in 1..n
    BY <1>3, <1>4, <1>11
  <2>2. s[k + 1] \in Int /\ t[k + 1] \in Int
    BY <1>1, <2>1, ByteIs
  <2> QED
    BY <1>1, <1>3, <1>4, <1>5, <1>6, <1>7, <1>11, <2>2 DEF Before
<1> QED
  BY <1>8, <1>9, <1>10, <1>11

-----------------------------------------------------------------------------
(* The lists of filters.                                                   *)
FilterSet == [filter : Strings, qos : Bytes]
Lists == Seq(FilterSet)
OneLevel(l) == \A i, j \in DOMAIN l : l[i].qos = l[j].qos

(* The order of the strings, for filters of one level. *)
Ordered(l) == \A i, j \in DOMAIN l : i < j => ~LexLess(l[j].filter, l[i].filter)
Strictly(l) == \A i, j \in DOMAIN l : i < j => LexLess(l[i].filter, l[j].filter)

(* One step of the sort: x is put behind k elements. *)
Behind(l, x, k) ==
  \/ k = 0 /\ (1 \in DOMAIN l => Less(x, l[1]))
  \/ k \in DOMAIN l /\ ~Less(x, l[k]) /\ \A i \in DOMAIN l : i > k => Less(x, l[i])

Insert(l, x) ==
  LET stop == {i \in DOMAIN l : ~Less(x, l[i])}
      at   == IF 1 \in stop THEN Max(stop) + 1 ELSE 1
  IN  InsertAt(l, at, x)

(* A bounded set of numbers that is not empty has a greatest one. *)
LEMMA MaxIs ==
  ASSUME NEW n \in Nat, NEW S \in SUBSET (1..n), S # {}
  PROVE  Max(S) \in S /\ \A y \in S : y <= Max(S)
<1> DEFINE T == {n - i : i \in S}
<1>1. T \in SUBSET Nat /\ T # {}
  OBVIOUS
<1>2. PICK m \in T : \A j \in T : m <= j
  BY <1>1, LeastNat
<1>3. PICK x \in S : m = n - x
  BY <1>2
<1>4. \A y \in S : n - y \in T
  OBVIOUS
<1>5. ASSUME NEW y \in S PROVE x >= y
  <2>1. x \in Nat /\ y \in Nat /\ m <= n - y
    BY <1>2, <1>4
  <2> QED
    BY <1>3, <2>1
<1>6. Max(S) \in S /\ \A y \in S : Max(S) >= y
  BY <1>3, <1>5 DEF Max
<1> QED
  BY <1>6

(* Inserting puts x behind k elements and keeps the order of the others. *)
LEMMA InsertIs ==
  ASSUME NEW l \in Lists, NEW x \in FilterSet
  PROVE  \E k \in 0..Len(l) :
           /\ Behind(l, x, k)
           /\ Insert(l, x) \in Lists
           /\ Len(Insert(l, x)) = Len(l) + 1
           /\ Insert(l, x)[k + 1] = x
           /\ \A i \in 1..k : Insert(l, x)[i] = l[i]
           /\ \A i \in (k + 1)..Len(l) : Insert(l, x)[i + 1] = l[i]
<1>1. PICK n \in Nat : n = Len(l) /\ DOMAIN l = 1..n
  BY LenProperties DEF Lists
<1> DEFINE stop == {i \in 1..n : ~Less(x, l[i])}
<1>2. stop \in SUBSET (1..n)
  OBVIOUS
<1>3. PICK k \in 0..n : Behind(l, x, k) /\ (IF 1 \in stop THEN Max(stop) + 1 ELSE 1) = k + 1
  <2>1. CASE 1 \in stop
    <3>1. Max(stop) \in stop /\ \A y \in stop : y <= Max(stop)
      <4> HIDE DEF stop
      <4> QED
        BY <1>2, <2>1, MaxIs
    <3>2. PICK k \in 1..n : k = Max(stop) /\ k \in stop /\ \A y \in stop : y <= k
      BY <3>1
    <3>3. ~Less(x, l[k]) /\ k \in DOMAIN l
      BY <1>1, <3>2
    <3>4. ASSUME NEW i \in DOMAIN l, i > k PROVE Less(x, l[i])
      BY <1>1, <3>2, <3>4
    <3>5. Behind(l, x, k)
      BY <3>3, <3>4 DEF Behind
    <3>6. (IF 1 \in stop THEN Max(stop) + 1 ELSE 1) = k + 1 /\ k \in 0..n
      <4> HIDE DEF stop
      <4> QED
        BY <2>1, <3>2
    <3> QED
      BY <3>5, <3>6
  <2>2. CASE 1 \notin stop
    BY <1>1, <2>2 DEF Behind
  <2> QED
    BY <2>1, <2>2
<1>4. Insert(l, x) = SubSeq(l, 1, k) \o <<x>> \o SubSeq(l, k + 1, n)
  <2>1. Insert(l, x) = InsertAt(l, k + 1, x)
    BY <1>1, <1>3 DEF Insert
  <2>2. (k + 1) - 1 = k
    BY <1>3
  <2> QED
    BY <1>1, <2>1, <2>2 DEF InsertAt
<1>5. PICK a : a = SubSeq(l, 1, k)
  OBVIOUS
<1>6. PICK b : b = SubSeq(l, k + 1, n)
  OBVIOUS
<1>7. a \in Lists /\ Len(a) = k /\ \A i \in 1..k : a[i] = l[i]
  BY <1>1, <1>3, <1>5 DEF Lists
<1>8. b \in Lists /\ Len(b) = n - k /\ \A i \in 1..(n - k) : b[i] = l[k + i]
  BY <1>1, <1>3, <1>6 DEF Lists
<1>9. PICK c : c = a \o <<x>>
  OBVIOUS
<1>10. c = Append(a, x)
  BY <1>7, <1>9 DEF Lists
<1>11. c \in Lists /\ Len(c) = k + 1 /\ c[k + 1] = x /\ \A i \in 1..k : c[i] = a[i]
  BY <1>7, <1>10, AppendProperties DEF Lists
<1>12. PICK d : d = c \o b
  OBVIOUS
<1>13. /\ d \in Lists /\ Len(d) = n + 1
       /\ \A i \in 1..(n + 1) : d[i] = IF i <= k + 1 THEN c[i] ELSE b[i - (k + 1)]
  <2>1. (k + 1) + (n - k) = n + 1
    BY <1>3
  <2>2. /\ d \in Lists /\ Len(d) = Len(c) + Len(b)
        /\ \A i \in 1..(Len(c) + Len(b)) : d[i] = IF i <= Len(c) THEN c[i] ELSE b[i - Len(c)]
    BY <1>8, <1>11, <1>12, ConcatProperties DEF Lists
  <2> QED
    BY <1>8, <1>11, <2>1, <2>2
<1>14. \A i \in 1..k : d[i] = l[i]
  BY <1>3, <1>7, <1>11, <1>13
<1>15. \A i \in (k + 1)..n : d[i + 1] = l[i]
  <2>1. ASSUME NEW i \in (k + 1)..n PROVE d[i + 1] = l[i]
    <3>1. i + 1 \in 1..(n + 1) /\ ~(i + 1 <= k + 1) /\ (i + 1) - (k + 1) = i - k
          /\ i - k \in 1..(n - k) /\ k + (i - k) = i
      BY <1>3
    <3> QED
      BY <1>8, <1>13, <3>1
  <2> QED
    BY <2>1
<1>16. d[k + 1] = x
  BY <1>3, <1>11, <1>13
<1>17. d = Insert(l, x)
  BY <1>4, <1>5, <1>6, <1>9, <1>12
<1> QED
  BY <1>1, <1>3, <1>13, <1>14, <1>15, <1>16, <1>17

(* A list without its equal neighbours, one step. *)
Extend(r, x) == IF r # <<>> /\ Last(r) = x THEN r ELSE Append(r, x)

(* The last element is then x. *)
LEMMA ExtendIs ==
  ASSUME NEW r \in Lists, NEW x \in FilterSet
  PROVE  /\ Extend(r, x) \in Lists /\ Len(Extend(r, x)) \in Nat \ {0}
         /\ Extend(r, x)[Len(Extend(r, x))] = x
         /\ \/ Extend(r, x) = r
            \/ /\ Extend(r, x) = Append(r, x)
               /\ Len(r) # 0 => r[Len(r)] # x
BY LenProperties, AppendProperties, EmptySeq DEF Extend, Lists, Last

(* g folds the elements of l at the positions of a set, the last one last. *)
IsFold(F, l, n, g) ==
  \A S \in SUBSET (1..n) :
    g[S] = IF S = {} THEN <<>> ELSE F[<<l[Max(S)], g[S \ {Max(S)}]>>]

(* The fold of a list exists: over the positions up to m for every m. *)
LEMMA FoldExists ==
  ASSUME NEW F \in [FilterSet \X Lists -> Lists], NEW n \in Nat, NEW l,
         \A i \in 1..n : l[i] \in FilterSet
  PROVE  \E g \in [SUBSET (1..n) -> Lists] : IsFold(F, l, n, g)
<1> DEFINE Step(g, S) == IF S = {} THEN <<>> ELSE F[<<l[Max(S)], g[S \ {Max(S)}]>>]
           Is(m, g) == g \in [SUBSET (1..m) -> Lists] /\ \A S \in SUBSET (1..m) : g[S] = Step(g, S)
           A == {m \in 0..n : \E g : Is(m, g)}
<1>1. 0 \in A
  <2> DEFINE g == [S \in SUBSET (1..0) |-> <<>>]
  <2>1. \A S \in SUBSET (1..0) : S = {}
    OBVIOUS
  <2>2. <<>> \in Lists
    BY EmptySeq DEF Lists
  <2>3. Is(0, g) /\ 0 \in 0..n
    BY <2>1, <2>2
  <2> HIDE DEF g, Is
  <2> QED
    BY <2>3
<1>2. ASSUME NEW m \in 0..(n - 1), m \in A PROVE m + 1 \in A
  <2>1. PICK g : Is(m, g)
    BY <1>2
  <2> DEFINE T == 1..(m + 1)
             h == [S \in SUBSET T |-> IF m + 1 \in S THEN F[<<l[m + 1], g[S \ {m + 1}]>>] ELSE g[S]]
  <2>2. m + 1 \in 1..n /\ m + 1 \in 0..n /\ m + 1 \in Nat /\ l[m + 1] \in FilterSet
    OBVIOUS
  <2>3. \A S \in SUBSET T : /\ S \ {m + 1} \in SUBSET (1..m)
                            /\ m + 1 \notin S => S \in SUBSET (1..m)
    OBVIOUS
  <2>4. h \in [SUBSET T -> Lists]
    <3>1. ASSUME NEW S \in SUBSET T
          PROVE  (IF m + 1 \in S THEN F[<<l[m + 1], g[S \ {m + 1}]>>] ELSE g[S]) \in Lists
      <4>1. g[S \ {m + 1}] \in Lists
        BY <2>1, <2>3
      <4>2. <<l[m + 1], g[S \ {m + 1}]>> \in FilterSet \X Lists
        BY <2>2, <4>1
      <4>3. m + 1 \notin S => g[S] \in Lists
        BY <2>1, <2>3
      <4> QED
        BY <4>2, <4>3
    <3> QED
      BY <3>1
  <2>5. ASSUME NEW S \in SUBSET T PROVE h[S] = Step(h, S)
    <3>1. CASE m + 1 \in S
      <4>1. Max(S) = m + 1
        <5>1. PICK x : x = Max(S)
          OBVIOUS
        <5>2. x \in S /\ \A y \in S : y <= x
          BY <2>2, <3>1, <5>1, MaxIs
        <5> QED
          BY <2>2, <3>1, <5>1, <5>2
      <4>2. S \ {m + 1} \in SUBSET T /\ m + 1 \notin S \ {m + 1}
        OBVIOUS
      <4>3. h[S \ {m + 1}] = g[S \ {m + 1}]
        BY <4>2
      <4>4. h[S] = F[<<l[m + 1], g[S \ {m + 1}]>>]
        BY <3>1
      <4> HIDE DEF h
      <4> QED
        BY <3>1, <4>1, <4>3, <4>4
    <3>2. CASE m + 1 \notin S
      <4>1. S \in SUBSET (1..m) /\ h[S] = g[S]
        BY <2>3, <3>2
      <4>2. g[S] = Step(g, S)
        BY <2>1, <4>1
      <4>3. CASE S = {}
        BY <4>1, <4>2, <4>3
      <4>4. CASE S # {}
        <5>1. PICK R : R = S \ {Max(S)}
          OBVIOUS
        <5>2. R \in SUBSET T /\ m + 1 \notin R
          BY <3>2, <5>1
        <5>3. h[R] = g[R]
          BY <5>2
        <5> HIDE DEF h
        <5> QED
          BY <4>1, <4>2, <4>4, <5>1, <5>3
      <4> QED
        BY <4>3, <4>4
    <3> QED
      BY <3>1, <3>2
  <2>6. Is(m + 1, h)
    <3> HIDE DEF h
    <3> QED
      BY <2>4, <2>5
  <2> HIDE DEF h, Is
  <2> QED
    BY <2>2, <2>6
<1>3. n \in A
  <2> HIDE DEF A
  <2>1. n \in 0..n
    OBVIOUS
  <2> QED
    BY <1>1, <1>2, <2>1, UpTo
<1> QED
  BY <1>3 DEF IsFold

(* std::sort inserts the elements one after the other. *)
LEMMA SortIs ==
  ASSUME NEW l \in Lists
  PROVE  \E f : /\ f[0] = <<>> /\ Sort(l) = f[Len(l)]
                /\ \A k \in 1..Len(l) : f[k] = Insert(f[k - 1], l[k])
<1>1. PICK n \in Nat : n = Len(l) /\ DOMAIN l = 1..n /\ \A i \in 1..n : l[i] \in FilterSet
  BY LenProperties, ElementOfSeq DEF Lists
<1> DEFINE F == [p \in FilterSet \X Lists |-> Insert(p[2], p[1])]
           Is(g) == g = [S \in SUBSET (1..n) |->
                           IF S = {} THEN <<>> ELSE Insert(g[S \ {Max(S)}], l[Max(S)])]
<1>2. F \in [FilterSet \X Lists -> Lists]
  BY InsertIs
<1>3. \A x \in FilterSet, r \in Lists : F[<<x, r>>] = Insert(r, x)
  OBVIOUS
<1>4. \E g : Is(g)
  <2> HIDE DEF F
  <2>1. PICK g \in [SUBSET (1..n) -> Lists] : IsFold(F, l, n, g)
    BY <1>1, <1>2, FoldExists
  <2>2. \A S \in SUBSET (1..n) : g[S] = IF S = {} THEN <<>> ELSE F[<<l[Max(S)], g[S \ {Max(S)}]>>]
    BY <2>1 DEF IsFold
  <2>3. ASSUME NEW S \in SUBSET (1..n), S # {} PROVE g[S] = Insert(g[S \ {Max(S)}], l[Max(S)])
    <3>1. PICK x : x = Max(S)
      OBVIOUS
    <3>2. x \in 1..n /\ S \ {x} \in SUBSET (1..n)
      BY <2>3, <3>1, MaxIs
    <3>3. l[x] \in FilterSet /\ g[S \ {x}] \in Lists
      BY <1>1, <3>2
    <3>4. g[S] = F[<<l[x], g[S \ {x}]>>]
      BY <2>2, <2>3, <3>1
    <3> QED
      BY <1>3, <3>1, <3>3, <3>4
  <2>4. {} \in SUBSET (1..n) /\ g[{}] = <<>>
    BY <2>2
  <2>5. \A S \in SUBSET (1..n) : g[S] = IF S = {} THEN <<>> ELSE Insert(g[S \ {Max(S)}], l[Max(S)])
    BY <2>3, <2>4
  <2>6. Is(g)
    <3> DEFINE B(S) == IF S = {} THEN <<>> ELSE Insert(g[S \ {Max(S)}], l[Max(S)])
    <3>1. \A S \in SUBSET (1..n) : g[S] = B(S)
      BY <2>5
    <3> HIDE DEF B
    <3>2. g = [S \in SUBSET (1..n) |-> B(S)]
      BY <3>1
    <3> QED
      BY <3>2 DEF B
  <2> QED
    BY <2>6
<1> DEFINE g == CHOOSE g : Is(g)
<1>5. Is(g)
  BY <1>4
<1>6. Sort(l) = g[1..n]
  BY <1>1, Zenon DEF Sort, FoldLeft, MapThenFoldSet, Insert
<1> HIDE DEF g
<1>7. \A S \in SUBSET (1..n) : g[S] = IF S = {} THEN <<>> ELSE Insert(g[S \ {Max(S)}], l[Max(S)])
  BY <1>5
<1> HIDE DEF Is
<1>8. ASSUME NEW k \in 1..n PROVE g[1..k] = Insert(g[1..(k - 1)], l[k])
  <2>1. (1..k) \in SUBSET (1..n) /\ (1..k) # {} /\ (1..k) \ {k} = 1..(k - 1)
    OBVIOUS
  <2>2. Max(1..k) = k
    <3>1. PICK x : x = Max(1..k)
      OBVIOUS
    <3>2. x \in 1..k /\ \A y \in 1..k : y <= x
      BY <2>1, <3>1, MaxIs
    <3> QED
      BY <3>1, <3>2
  <2>3. g[1..k] = Insert(g[(1..k) \ {k}], l[k])
    BY <1>7, <2>1, <2>2
  <2> QED
    BY <2>1, <2>3
<1>9. g[1..0] = <<>>
  <2>1. 1..0 = {} /\ {} \in SUBSET (1..n)
    OBVIOUS
  <2> QED
    BY <1>7, <2>1
<1> DEFINE f == [k \in 0..n |-> g[1..k]]
<1>10. /\ 0 \in 0..n /\ n \in 0..n
       /\ \A k \in 1..n : k \in 0..n /\ k - 1 \in 0..n
  OBVIOUS
<1>11. \A k \in 0..n : f[k] = g[1..k]
  OBVIOUS
<1> HIDE DEF f
<1>12. f[0] = <<>> /\ Sort(l) = f[n] /\ \A k \in 1..n : f[k] = Insert(f[k - 1], l[k])
  BY <1>6, <1>8, <1>9, <1>10, <1>11
<1> QED
  BY <1>1, <1>12

(* std::unique takes the elements one after the other. *)
LEMMA UniqueIs ==
  ASSUME NEW l \in Lists
  PROVE  \E f : /\ f[0] = <<>> /\ Unique(l) = f[Len(l)]
                /\ \A k \in 1..Len(l) : f[k] = Extend(f[k - 1], l[k])
<1>1. PICK n \in Nat : n = Len(l) /\ DOMAIN l = 1..n /\ \A i \in 1..n : l[i] \in FilterSet
  BY LenProperties, ElementOfSeq DEF Lists
<1> DEFINE F == [p \in FilterSet \X Lists |-> Extend(p[2], p[1])]
           Is(g) == g = [S \in SUBSET (1..n) |->
                           IF S = {} THEN <<>> ELSE Extend(g[S \ {Max(S)}], l[Max(S)])]
<1>2. F \in [FilterSet \X Lists -> Lists]
  BY ExtendIs
<1>3. \A x \in FilterSet, r \in Lists : F[<<x, r>>] = Extend(r, x)
  OBVIOUS
<1>4. \E g : Is(g)
  <2> HIDE DEF F
  <2>1. PICK g \in [SUBSET (1..n) -> Lists] : IsFold(F, l, n, g)
    BY <1>1, <1>2, FoldExists
  <2>2. \A S \in SUBSET (1..n) : g[S] = IF S = {} THEN <<>> ELSE F[<<l[Max(S)], g[S \ {Max(S)}]>>]
    BY <2>1 DEF IsFold
  <2>3. ASSUME NEW S \in SUBSET (1..n), S # {} PROVE g[S] = Extend(g[S \ {Max(S)}], l[Max(S)])
    <3>1. PICK x : x = Max(S)
      OBVIOUS
    <3>2. x \in 1..n /\ S \ {x} \in SUBSET (1..n)
      BY <2>3, <3>1, MaxIs
    <3>3. l[x] \in FilterSet /\ g[S \ {x}] \in Lists
      BY <1>1, <3>2
    <3>4. g[S] = F[<<l[x], g[S \ {x}]>>]
      BY <2>2, <2>3, <3>1
    <3> QED
      BY <1>3, <3>1, <3>3, <3>4
  <2>4. {} \in SUBSET (1..n) /\ g[{}] = <<>>
    BY <2>2
  <2>5. \A S \in SUBSET (1..n) : g[S] = IF S = {} THEN <<>> ELSE Extend(g[S \ {Max(S)}], l[Max(S)])
    BY <2>3, <2>4
  <2>6. Is(g)
    <3> DEFINE B(S) == IF S = {} THEN <<>> ELSE Extend(g[S \ {Max(S)}], l[Max(S)])
    <3>1. \A S \in SUBSET (1..n) : g[S] = B(S)
      BY <2>5
    <3> HIDE DEF B
    <3>2. g = [S \in SUBSET (1..n) |-> B(S)]
      BY <3>1
    <3> QED
      BY <3>2 DEF B
  <2> QED
    BY <2>6
<1> DEFINE g == CHOOSE g : Is(g)
<1>5. Is(g)
  BY <1>4
<1>6. Unique(l) = g[1..n]
  BY <1>1, Zenon DEF Unique, FoldLeft, MapThenFoldSet, Extend
<1> HIDE DEF g
<1>7. \A S \in SUBSET (1..n) : g[S] = IF S = {} THEN <<>> ELSE Extend(g[S \ {Max(S)}], l[Max(S)])
  BY <1>5
<1> HIDE DEF Is
<1>8. ASSUME NEW k \in 1..n PROVE g[1..k] = Extend(g[1..(k - 1)], l[k])
  <2>1. (1..k) \in SUBSET (1..n) /\ (1..k) # {} /\ (1..k) \ {k} = 1..(k - 1)
    OBVIOUS
  <2>2. Max(1..k) = k
    <3>1. PICK x : x = Max(1..k)
      OBVIOUS
    <3>2. x \in 1..k /\ \A y \in 1..k : y <= x
      BY <2>1, <3>1, MaxIs
    <3> QED
      BY <3>1, <3>2
  <2>3. g[1..k] = Extend(g[(1..k) \ {k}], l[k])
    BY <1>7, <2>1, <2>2
  <2> QED
    BY <2>1, <2>3
<1>9. g[1..0] = <<>>
  <2>1. 1..0 = {} /\ {} \in SUBSET (1..n)
    OBVIOUS
  <2> QED
    BY <1>7, <2>1
<1> DEFINE f == [k \in 0..n |-> g[1..k]]
<1>10. /\ 0 \in 0..n /\ n \in 0..n
       /\ \A k \in 1..n : k \in 0..n /\ k - 1 \in 0..n
  OBVIOUS
<1>11. \A k \in 0..n : f[k] = g[1..k]
  OBVIOUS
<1> HIDE DEF f
<1>12. f[0] = <<>> /\ Unique(l) = f[n] /\ \A k \in 1..n : f[k] = Extend(f[k - 1], l[k])
  BY <1>6, <1>8, <1>9, <1>10, <1>11
<1> QED
  BY <1>1, <1>12

(* What the order gives for "not after". *)
LEMMA LexNotAfter ==
  ASSUME NEW s \in Strings, NEW t \in Strings, NEW u \in Strings, ~LexLess(u, t)
  PROVE  /\ ~LexLess(t, s) => ~LexLess(u, s)
         /\ LexLess(s, t) => LexLess(s, u)
<1>1. LexLess(t, u) \/ t = u
  BY LexIsTotal
<1>2. LexLess(s, t) => LexLess(s, u)
  BY <1>1, LexIsTransitive
<1>3. ASSUME ~LexLess(t, s), LexLess(u, s) PROVE FALSE
  BY <1>1, <1>3, LexIsTransitive
<1> QED
  BY <1>2, <1>3

(* The filter and the level of an element. *)
LEMMA ElementIs ==
  ASSUME NEW l \in Lists
  PROVE  /\ Len(l) \in Nat /\ DOMAIN l = 1..Len(l)
         /\ \A i \in 1..Len(l) : l[i] \in FilterSet /\ l[i].filter \in Strings /\ l[i].qos \in Bytes
<1>1. Len(l) \in Nat /\ DOMAIN l = 1..Len(l)
  BY LenProperties DEF Lists
<1>2. \A i \in 1..Len(l) : l[i] \in FilterSet
  BY ElementOfSeq DEF Lists
<1>3. \A x \in FilterSet : x.filter \in Strings /\ x.qos \in Bytes
  BY DEF FilterSet
<1> QED
  BY <1>1, <1>2, <1>3

(* With one level operator< is the order of the strings. *)
LEMMA LessIs ==
  ASSUME NEW x \in FilterSet, NEW y \in FilterSet, x.qos = y.qos
  PROVE  Less(x, y) <=> LexLess(x.filter, y.filter)
<1>1. x.qos \in Int
  BY DEF FilterSet, Bytes
<1>2. ~(x.qos < y.qos)
  BY <1>1
<1> QED
  BY <1>2 DEF Less

(* An ordered list of one level stays ordered. *)
LEMMA InsertOrdered ==
  ASSUME NEW l \in Lists, NEW x \in FilterSet, Ordered(l), \A i \in 1..Len(l) : l[i].qos = x.qos
  PROVE  Ordered(Insert(l, x))
<1>1. PICK n \in Nat : n = Len(l) /\ DOMAIN l = 1..n
  BY ElementIs
<1>2. PICK r : r = Insert(l, x)
  OBVIOUS
<1>3. PICK k \in 0..n : /\ Behind(l, x, k) /\ r \in Lists /\ Len(r) = n + 1 /\ r[k + 1] = x
                        /\ \A i \in 1..k : r[i] = l[i]
                        /\ \A i \in (k + 1)..n : r[i + 1] = l[i]
  BY <1>1, <1>2, InsertIs
<1>4. \A i \in 1..n : l[i] \in FilterSet /\ l[i].filter \in Strings
  BY <1>1, ElementIs
<1>5. x.filter \in Strings
  BY DEF FilterSet
<1>6. \A i \in 1..n : Less(x, l[i]) <=> LexLess(x.filter, l[i].filter)
  <2>1. ASSUME NEW i \in 1..n PROVE Less(x, l[i]) <=> LexLess(x.filter, l[i].filter)
    <3>1. PICK y \in FilterSet : y = l[i] /\ x.qos = y.qos
      BY <1>1, <1>4
    <3> QED
      BY <3>1, LessIs
  <2> QED
    BY <2>1
<1>7. \A i \in 1..n, j \in 1..n : i <= j => ~LexLess(l[j].filter, l[i].filter)
  <2>1. ASSUME NEW i \in 1..n PROVE ~LexLess(l[i].filter, l[i].filter)
    <3>1. PICK y \in Strings : y = l[i].filter
      BY <1>4
    <3> QED
      BY <3>1, LexIsStrict
  <2> QED
    BY <1>1, <2>1 DEF Ordered
<1>8. ASSUME NEW i \in 1..k PROVE ~LexLess(x.filter, l[i].filter)
  <2>1. k \in 1..n /\ i \in 1..n /\ i <= k /\ k # 0
    BY <1>3
  <2>2. ~LexLess(x.filter, l[k].filter)
    BY <1>3, <1>6, <2>1 DEF Behind
  <2>3. ~LexLess(l[k].filter, l[i].filter)
    BY <1>7, <2>1
  <2>4. PICK y \in Strings, z \in Strings : y = l[k].filter /\ z = l[i].filter
    BY <1>4, <2>1
  <2> QED
    BY <1>5, <2>2, <2>3, <2>4, LexNotAfter
<1>9. ASSUME NEW i \in (k + 1)..n PROVE ~LexLess(l[i].filter, x.filter)
  <2>1. i \in 1..n /\ i > k /\ 1 \in 1..n /\ 1 <= i
    BY <1>3
  <2>2. LexLess(x.filter, l[i].filter)
    <3>1. CASE k = 0
      <4>1. LexLess(x.filter, l[1].filter)
        BY <1>1, <1>3, <1>6, <2>1, <3>1 DEF Behind
      <4>2. ~LexLess(l[i].filter, l[1].filter)
        BY <1>7, <2>1
      <4>3. PICK y \in Strings, z \in Strings : y = l[1].filter /\ z = l[i].filter
        BY <1>4, <2>1
      <4> QED
        BY <1>5, <4>1, <4>2, <4>3, LexNotAfter
    <3>2. CASE k # 0
      BY <1>1, <1>3, <1>6, <2>1, <3>2 DEF Behind
    <3> QED
      BY <3>1, <3>2
  <2>3. PICK z \in Strings : z = l[i].filter
    BY <1>4, <2>1
  <2> QED
    BY <1>5, <2>2, <2>3, LexIsStrict
<1>10. ASSUME NEW i \in 1..(n + 1), NEW j \in 1..(n + 1), i < j
       PROVE  ~LexLess(r[j].filter, r[i].filter)
  <2>1. CASE j <= k
    <3>1. i \in 1..k /\ j \in 1..k /\ i \in 1..n /\ j \in 1..n /\ i <= j
      BY <1>3, <1>10, <2>1
    <3> QED
      BY <1>3, <1>7, <3>1
  <2>2. CASE j = k + 1
    <3>1. i \in 1..k
      BY <1>3, <1>10, <2>2
    <3> QED
      BY <1>3, <1>8, <2>2, <3>1
  <2>3. CASE j > k + 1
    <3>1. j - 1 \in (k + 1)..n /\ (j - 1) + 1 = j /\ j - 1 \in 1..n
      BY <1>3, <2>3
    <3>2. r[j] = l[j - 1]
      BY <1>3, <3>1
    <3>3. CASE i <= k
      <4>1. i \in 1..k /\ i \in 1..n /\ i <= j - 1
        BY <1>3, <2>3, <3>3
      <4> QED
        BY <1>3, <1>7, <3>1, <3>2, <4>1
    <3>4. CASE i = k + 1
      BY <1>3, <1>9, <3>1, <3>2, <3>4
    <3>5. CASE i > k + 1
      <4>1. i - 1 \in (k + 1)..n /\ (i - 1) + 1 = i /\ i - 1 \in 1..n /\ i - 1 <= j - 1
        BY <1>3, <1>10, <3>5
      <4>2. r[i] = l[i - 1]
        BY <1>3, <4>1
      <4> QED
        BY <1>7, <3>1, <3>2, <4>1, <4>2
    <3> QED
      BY <1>3, <3>3, <3>4, <3>5
  <2> QED
    BY <1>3, <2>1, <2>2, <2>3
<1>11. DOMAIN r = 1..(n + 1)
  BY <1>3, LenProperties DEF Lists
<1> QED
  BY <1>2, <1>10, <1>11 DEF Ordered

(* r has the first k elements of l and no other. *)
SameElements(r, l, k) ==
  /\ \A i \in 1..k : \E j \in 1..Len(r) : r[j] = l[i]
  /\ \A j \in 1..Len(r) : \E i \in 1..k : r[j] = l[i]

(* Inserting adds one element. *)
LEMMA InsertSame ==
  ASSUME NEW r \in Lists, NEW l, NEW k \in Nat, l[k + 1] \in FilterSet, SameElements(r, l, k)
  PROVE  SameElements(Insert(r, l[k + 1]), l, k + 1)
<1>1. PICK x \in FilterSet : x = l[k + 1]
  OBVIOUS
<1>2. PICK s : s = Insert(r, x)
  OBVIOUS
<1>3. PICK n \in Nat : n = Len(r)
  BY ElementIs
<1>4. PICK m \in 0..n : /\ Len(s) = n + 1 /\ s[m + 1] = x
                        /\ \A i \in 1..m : s[i] = r[i]
                        /\ \A i \in (m + 1)..n : s[i + 1] = r[i]
  BY <1>2, <1>3, InsertIs
<1>5. ASSUME NEW i \in 1..(k + 1) PROVE \E j \in 1..(n + 1) : s[j] = l[i]
  <2>1. CASE i = k + 1
    <3>1. m + 1 \in 1..(n + 1)
      BY <1>4
    <3> QED
      BY <1>1, <1>4, <2>1, <3>1
  <2>2. CASE i # k + 1
    <3>1. PICK j \in 1..n : r[j] = l[i]
      <4>1. i \in 1..k
        BY <2>2
      <4> QED
        BY <1>3, <4>1 DEF SameElements
    <3>2. CASE j <= m
      BY <1>4, <3>1, <3>2
    <3>3. CASE j > m
      <4>1. j \in (m + 1)..n /\ j + 1 \in 1..(n + 1)
        BY <1>4, <3>3
      <4> QED
        BY <1>4, <3>1, <4>1
    <3> QED
      BY <1>4, <3>2, <3>3
  <2> QED
    BY <2>1, <2>2
<1>6. ASSUME NEW j \in 1..(n + 1) PROVE \E i \in 1..(k + 1) : s[j] = l[i]
  <2>1. s[j] = x \/ \E i \in 1..n : s[j] = r[i]
    <3>1. CASE j <= m
      BY <1>4, <3>1
    <3>2. CASE j = m + 1
      BY <1>4, <3>2
    <3>3. CASE j > m + 1
      <4>1. j - 1 \in (m + 1)..n /\ (j - 1) + 1 = j /\ j - 1 \in 1..n
        BY <1>4, <3>3
      <4> QED
        BY <1>4, <4>1
    <3> QED
      BY <1>4, <3>1, <3>2, <3>3
  <2>2. \A i \in 1..n : \E h \in 1..k : r[i] = l[h]
    BY <1>3 DEF SameElements
  <2>3. k + 1 \in 1..(k + 1) /\ \A h \in 1..k : h \in 1..(k + 1)
    OBVIOUS
  <2> QED
    BY <1>1, <2>1, <2>2, <2>3
<1> QED
  BY <1>1, <1>2, <1>4, <1>5, <1>6 DEF SameElements

(* The sorted list has the same elements, in order if they are of one level. *)
LEMMA SortSorts ==
  ASSUME NEW l \in Lists
  PROVE  /\ Sort(l) \in Lists /\ SameElements(Sort(l), l, Len(l))
         /\ OneLevel(l) => Ordered(Sort(l))
<1>1. PICK n \in Nat : n = Len(l) /\ DOMAIN l = 1..n /\ \A i \in 1..n : l[i] \in FilterSet
  BY ElementIs
<1>2. PICK f : f[0] = <<>> /\ Sort(l) = f[n] /\ \A k \in 1..n : f[k] = Insert(f[k - 1], l[k])
  BY <1>1, SortIs
<1> DEFINE In(k) == f[k] \in Lists /\ SameElements(f[k], l, k) /\ (OneLevel(l) => Ordered(f[k]))
           A == {k \in 0..n : In(k)}
<1>3. 0 \in A
  <2>1. <<>> \in Lists /\ Len(<<>>) = 0 /\ DOMAIN <<>> = {}
    BY EmptySeq DEF Lists
  <2>2. SameElements(<<>>, l, 0) /\ Ordered(<<>>)
    BY <2>1 DEF SameElements, Ordered
  <2> QED
    BY <1>2, <2>1, <2>2
<1>4. ASSUME NEW k \in 0..(n - 1), k \in A PROVE k + 1 \in A
  <2>1. k \in Nat /\ k + 1 \in 1..n /\ k + 1 \in 0..n /\ (k + 1) - 1 = k
    OBVIOUS
  <2>2. PICK r \in Lists : r = f[k] /\ SameElements(r, l, k) /\ (OneLevel(l) => Ordered(r))
    BY <1>4
  <2>3. PICK x \in FilterSet : x = l[k + 1]
    BY <1>1, <2>1
  <2>4. PICK s : s = Insert(r, x)
    OBVIOUS
  <2>5. f[k + 1] = s
    BY <1>2, <2>1, <2>2, <2>3, <2>4
  <2>6. s \in Lists
    BY <2>4, InsertIs
  <2>7. SameElements(s, l, k + 1)
    BY <2>1, <2>2, <2>3, <2>4, InsertSame
  <2>8. ASSUME OneLevel(l) PROVE Ordered(s)
    <3>1. \A j \in 1..Len(r) : r[j].qos = x.qos
      <4>1. ASSUME NEW j \in 1..Len(r) PROVE r[j].qos = x.qos
        <5>1. PICK i \in 1..k : r[j] = l[i]
          BY <2>2 DEF SameElements
        <5>2. i \in DOMAIN l /\ k + 1 \in DOMAIN l
          BY <1>1, <2>1, <5>1
        <5> QED
          BY <2>3, <2>8, <5>1, <5>2 DEF OneLevel
      <4> QED
        BY <4>1
    <3> QED
      BY <2>2, <2>4, <2>8, <3>1, InsertOrdered
  <2> QED
    BY <2>1, <2>5, <2>6, <2>7, <2>8
<1>5. n \in A
  <2> HIDE DEF A
  <2>1. n \in 0..n
    OBVIOUS
  <2> QED
    BY <1>3, <1>4, <2>1, UpTo
<1> QED
  BY <1>1, <1>2, <1>5

(* std::unique leaves an ordered list of one level without duplicates. *)
LEMMA UniqueIsStrict ==
  ASSUME NEW l \in Lists
  PROVE  /\ Unique(l) \in Lists /\ SameElements(Unique(l), l, Len(l))
         /\ OneLevel(l) /\ Ordered(l) => Strictly(Unique(l))
<1>1. PICK n \in Nat : n = Len(l) /\ DOMAIN l = 1..n /\ \A i \in 1..n : l[i] \in FilterSet
  BY ElementIs
<1>2. PICK f : f[0] = <<>> /\ Unique(l) = f[n] /\ \A k \in 1..n : f[k] = Extend(f[k - 1], l[k])
  BY <1>1, UniqueIs
<1> DEFINE In(k) == /\ f[k] \in Lists /\ SameElements(f[k], l, k)
                    /\ k # 0 => f[k][Len(f[k])] = l[k]
                    /\ OneLevel(l) /\ Ordered(l) => Strictly(f[k])
           A == {k \in 0..n : In(k)}
<1>3. 0 \in A
  <2>1. <<>> \in Lists /\ Len(<<>>) = 0 /\ DOMAIN <<>> = {}
    BY EmptySeq DEF Lists
  <2>2. SameElements(<<>>, l, 0) /\ Strictly(<<>>)
    BY <2>1 DEF SameElements, Strictly
  <2> QED
    BY <1>2, <2>1, <2>2
<1>4. ASSUME NEW k \in 0..(n - 1), k \in A PROVE k + 1 \in A
  <2>1. k \in Nat /\ k + 1 \in 1..n /\ k + 1 \in 0..n /\ (k + 1) - 1 = k /\ k + 1 # 0
    OBVIOUS
  <2>2. PICK r \in Lists : /\ r = f[k] /\ SameElements(r, l, k) /\ (k # 0 => r[Len(r)] = l[k])
                           /\ (OneLevel(l) /\ Ordered(l) => Strictly(r))
    BY <1>4
  <2>3. PICK x \in FilterSet : x = l[k + 1]
    BY <1>1, <2>1
  <2>4. PICK s : s = Extend(r, x)
    OBVIOUS
  <2>5. f[k + 1] = s
    BY <1>2, <2>1, <2>2, <2>3, <2>4
  <2>6. /\ s \in Lists /\ Len(s) \in Nat \ {0} /\ s[Len(s)] = x
        /\ s = r \/ (s = Append(r, x) /\ (Len(r) # 0 => r[Len(r)] # x))
    BY <2>4, ExtendIs
  <2>7. PICK m \in Nat : m = Len(r) /\ DOMAIN r = 1..m /\ \A i \in 1..m : r[i] \in FilterSet
    BY ElementIs
  <2>8. /\ \A i \in 1..k : \E j \in 1..m : r[j] = l[i]
        /\ \A j \in 1..m : \E i \in 1..k : r[j] = l[i]
    BY <2>2, <2>7 DEF SameElements
  <2>9. \A i \in 1..k : i \in 1..(k + 1) /\ i \in 1..n
    BY <2>1
  <2>10. CASE s = r
    <3>1. r[m] = x /\ m \in 1..m
      BY <2>6, <2>7, <2>10
    <3>2. \A i \in 1..(k + 1) : i \in 1..k \/ i = k + 1
      BY <2>1
    <3>3. SameElements(s, l, k + 1)
      BY <2>3, <2>7, <2>8, <2>9, <2>10, <3>1, <3>2 DEF SameElements
    <3> QED
      BY <2>1, <2>2, <2>3, <2>5, <2>6, <2>10, <3>3
  <2>11. CASE s = Append(r, x) /\ (m # 0 => r[m] # x)
    <3>1. /\ Len(s) = m + 1 /\ DOMAIN s = 1..(m + 1) /\ s[m + 1] = x
          /\ \A i \in 1..m : s[i] = r[i]
      BY <2>7, <2>11, AppendProperties, LenProperties DEF Lists
    <3>2. m + 1 \in 1..(m + 1) /\ \A i \in 1..m : i \in 1..(m + 1)
      BY <2>7
    <3>3. /\ \A i \in 1..(k + 1) : i \in 1..k \/ i = k + 1
          /\ k + 1 \in 1..(k + 1) /\ \A i \in 1..(m + 1) : i \in 1..m \/ i = m + 1
      BY <2>1, <2>7
    <3>4. SameElements(s, l, k + 1)
      BY <2>3, <2>8, <2>9, <3>1, <3>2, <3>3, ZenonT(40) DEF SameElements
    <3>5. ASSUME OneLevel(l), Ordered(l) PROVE Strictly(s)
      <4>1. Strictly(r)
        BY <2>2, <3>5
      <4>2. ASSUME NEW i \in 1..m PROVE LexLess(r[i].filter, x.filter)
        <5>1. m # 0 /\ m \in 1..m /\ k # 0 /\ k \in 1..n
          BY <2>1, <2>8
        <5>2. r[m] = l[k] /\ r[m] # x
          BY <2>2, <2>7, <2>11, <5>1
        <5>3. PICK y \in FilterSet : y = r[m] /\ y = l[k]
          BY <2>7, <5>1, <5>2
        <5>4. y.qos = x.qos /\ ~LexLess(x.filter, y.filter)
          BY <1>1, <2>1, <2>3, <3>5, <5>1, <5>3 DEF OneLevel, Ordered
        <5>5. y.filter # x.filter
          <6>1. \A a, b \in FilterSet : a.filter = b.filter /\ a.qos = b.qos => a = b
            BY DEF FilterSet
          <6> QED
            BY <5>2, <5>3, <5>4, <6>1
        <5>6. y.filter \in Strings /\ x.filter \in Strings
          BY DEF FilterSet
        <5>7. LexLess(y.filter, x.filter)
          BY <5>4, <5>5, <5>6, LexIsTotal
        <5>8. i = m \/ LexLess(r[i].filter, y.filter)
          <6>1. i = m \/ i < m
            BY <4>2, <5>1
          <6>2. i \in DOMAIN r /\ m \in DOMAIN r
            BY <2>7, <4>2, <5>1
          <6>3. i < m => LexLess(r[i].filter, r[m].filter)
            BY <4>1, <6>2 DEF Strictly
          <6> QED
            BY <5>3, <6>1, <6>3
        <5>9. PICK z \in Strings : z = r[i].filter
          <6>1. \A a \in FilterSet : a.filter \in Strings
            BY DEF FilterSet
          <6> QED
            BY <2>7, <6>1
        <5> QED
          BY <5>3, <5>6, <5>7, <5>8, <5>9, LexIsTransitive
      <4>3. ASSUME NEW i \in 1..(m + 1), NEW j \in 1..(m + 1), i < j
            PROVE  LexLess(s[i].filter, s[j].filter)
        <5>1. i \in 1..m /\ s[i] = r[i]
          BY <2>7, <3>1, <4>3
        <5>2. CASE j = m + 1
          BY <3>1, <4>2, <5>1, <5>2
        <5>3. CASE j # m + 1
          <6>1. j \in 1..m
            BY <2>7, <5>3
          <6> QED
            BY <2>7, <3>1, <4>1, <4>3, <5>1, <6>1 DEF Strictly
        <5> QED
          BY <5>2, <5>3
      <4> QED
        BY <3>1, <4>3 DEF Strictly
    <3> QED
      BY <2>1, <2>3, <2>5, <2>6, <3>4, <3>5
  <2> QED
    BY <2>6, <2>7, <2>10, <2>11
<1>5. n \in A
  <2> HIDE DEF A
  <2>1. n \in 0..n
    OBVIOUS
  <2> QED
    BY <1>3, <1>4, <2>1, UpTo
<1> QED
  BY <1>1, <1>2, <1>5

(* If all elements of r are of one level, so are those of l. *)
LEMMA SameLevel ==
  ASSUME NEW r \in Lists, NEW l \in Lists, SameElements(r, l, Len(l)), OneLevel(r)
  PROVE  OneLevel(l)
<1>1. DOMAIN l = 1..Len(l) /\ DOMAIN r = 1..Len(r)
  BY ElementIs
<1>2. ASSUME NEW i \in 1..Len(l), NEW j \in 1..Len(l) PROVE l[i].qos = l[j].qos
  <2>1. PICK a \in 1..Len(r) : r[a] = l[i]
    BY DEF SameElements
  <2>2. PICK b \in 1..Len(r) : r[b] = l[j]
    BY DEF SameElements
  <2>3. r[a].qos = r[b].qos
    BY <1>1 DEF OneLevel
  <2> QED
    BY <2>1, <2>2, <2>3
<1> QED
  BY <1>1, <1>2 DEF OneLevel

(* What the parser makes of the list of a SUBSCRIBE has no duplicates if     *)
(* all its filters are of one level.                                        *)
LEMMA NoneTwice ==
  ASSUME NEW l \in Lists
  PROVE  /\ Unique(Sort(l)) \in Lists
         /\ OneLevel(Unique(Sort(l))) => IsInjective(Unique(Sort(l)))
<1>1. PICK s \in Lists : /\ s = Sort(l) /\ SameElements(s, l, Len(l))
                         /\ (OneLevel(l) => Ordered(s))
  BY SortSorts
<1>2. PICK u \in Lists : /\ u = Unique(s) /\ SameElements(u, s, Len(s))
                         /\ (OneLevel(s) /\ Ordered(s) => Strictly(u))
  BY UniqueIsStrict
<1>3. DOMAIN l = 1..Len(l) /\ DOMAIN s = 1..Len(s) /\ DOMAIN u = 1..Len(u) /\ Len(u) \in Nat
  BY ElementIs
<1>4. ASSUME OneLevel(u) PROVE IsInjective(u)
  <2>1. OneLevel(s)
    BY <1>2, <1>4, SameLevel
  <2>2. OneLevel(l)
    BY <1>1, <2>1, SameLevel
  <2>3. Strictly(u)
    BY <1>1, <1>2, <2>1, <2>2
  <2>4. ASSUME NEW i \in DOMAIN u, NEW j \in DOMAIN u, i < j PROVE u[i] # u[j]
    <3>1. LexLess(u[i].filter, u[j].filter)
      BY <2>3, <2>4 DEF Strictly
    <3>2. PICK x \in Strings, y \in Strings : x = u[i].filter /\ y = u[j].filter
      BY <1>3, ElementIs
    <3> QED
      BY <3>1, <3>2, LexIsStrict
  <2> QED
    BY <1>3, <2>4 DEF IsInjective
<1> QED
  BY <1>1, <1>2, <1>4

-----------------------------------------------------------------------------
(* The lists a parser collects, and what it hands over.                     *)
Kinds == {"Connect", "Connack", "Publish", "Subscribe", "Suback"}

StringSet == [st : {"Start", "ReadLength", "Stringdata", "Ready"}, length : Int, text : Strings]

(* A string is left complete only while a SUBSCRIBE waits for its level. *)
StringShape ==
  /\ str \in StringSet
  /\ str.st = "Ready" => status = "Subscribe" /\ field = "QoS"

(* The packets of the parsers keep their types, and a SUBSCRIBE its list. *)
PacketShape ==
  /\ pkt = [k \in Kinds |-> pkt[k]]
  /\ \A k \in Kinds : "type" \in DOMAIN pkt[k] /\ pkt[k].type = k
  /\ "filters" \in DOMAIN pkt.Subscribe /\ pkt.Subscribe.filters \in Lists

(* What NoDuplicates says of one packet. *)
Fine(p) == p.type = "Subscribe" /\ OneLevel(p.filters) => IsInjective(p.filters)

HandedOver == packets \in Seq(Range(packets)) /\ \A p \in Range(packets) : Fine(p)

ListInv == StringShape /\ PacketShape /\ HandedOver

(* A byte of a string. *)
LEMMA StringByte ==
  ASSUME NEW s \in StringSet, s.st # "Ready", NEW b \in Bytes
  PROVE  StringParse(s, b) \in StringSet
<1>1. /\ s = [st |-> s.st, length |-> s.length, text |-> s.text]
      /\ s.st \in {"Start", "ReadLength", "Stringdata"} /\ s.length \in Int /\ s.text \in Strings
  BY DEF StringSet
<1>2. PICK x, n, t : x = s.st /\ n = s.length /\ t = s.text
  OBVIOUS
<1>3. s = [st |-> x, length |-> n, text |-> t] /\ x \in {"Start", "ReadLength", "Stringdata"}
  BY <1>1, <1>2
<1>4. n \in Int /\ t \in Strings
  BY <1>1, <1>2
<1>5. PICK a \in Strings : a = Append(t, b)
  BY <1>4, AppendProperties DEF Strings
<1>6. b \in Int /\ 256 * b \in Int /\ n + b \in Int /\ n - 1 \in Int
  BY <1>4 DEF Bytes
<1>7. \A y \in {"Start", "ReadLength", "Stringdata", "Ready"}, k \in Int, u \in Strings :
        [st |-> y, length |-> k, text |-> u] \in StringSet
  BY DEF StringSet
<1>8. CASE x = "Start"
  <2>1. StringParse(s, b) = [st |-> "ReadLength", length |-> 256 * b, text |-> t]
    BY <1>3, <1>8 DEF StringParse
  <2> QED
    BY <1>4, <1>6, <1>7, <2>1
<1>9. CASE x = "ReadLength"
  <2>1. StringParse(s, b) = [st |-> IF n + b = 0 THEN "Ready" ELSE "Stringdata",
                             length |-> n + b, text |-> t]
    BY <1>3, <1>9 DEF StringParse
  <2> QED
    BY <1>4, <1>6, <1>7, <2>1
<1>10. CASE x = "Stringdata"
  <2>1. StringParse(s, b) = [st |-> IF n = 1 THEN "Ready" ELSE "Stringdata",
                             length |-> n - 1, text |-> a]
    BY <1>3, <1>5, <1>10 DEF StringParse
  <2> QED
    BY <1>4, <1>6, <1>7, <2>1
<1> QED
  BY <1>3, <1>8, <1>9, <1>10

(* A packet that is handed over joins the others. *)
LEMMA HandOver ==
  ASSUME HandedOver, NEW p, Fine(p), packets' = Append(packets, p)
  PROVE  HandedOver'
<1>1. PICK R : R = Range(packets)
  OBVIOUS
<1>2. packets \in Seq(R) /\ packets \in Seq(R \cup {p})
  <2>1. packets \in Seq(R) /\ R \subseteq R \cup {p}
    BY <1>1 DEF HandedOver
  <2> QED
    BY <2>1, SeqMonotonic
<1>3. PICK n \in Nat : n = Len(packets) /\ DOMAIN packets = 1..n
  BY <1>2, LenProperties
<1>4. /\ packets' \in Seq(R \cup {p}) /\ DOMAIN packets' = 1..(n + 1) /\ packets'[n + 1] = p
      /\ \A i \in 1..n : packets'[i] = packets[i]
  <2>1. p \in R \cup {p}
    OBVIOUS
  <2>2. PICK q : q = Append(packets, p)
    OBVIOUS
  <2>3. q \in Seq(R \cup {p}) /\ Len(q) = n + 1 /\ q[n + 1] = p /\ \A i \in 1..n : q[i] = packets[i]
    BY <1>2, <1>3, <2>1, <2>2, AppendProperties
  <2>4. DOMAIN q = 1..(n + 1)
    BY <2>3, LenProperties
  <2> QED
    BY <2>2, <2>3, <2>4
<1>5. n + 1 \in 1..(n + 1) /\ \A i \in 1..n : i \in 1..(n + 1)
  OBVIOUS
<1>6. \A i \in 1..(n + 1) : i \in 1..n \/ i = n + 1
  OBVIOUS
<1>7. Range(packets') = R \cup {p}
  BY <1>1, <1>3, <1>4, <1>5, <1>6 DEF Range
<1> QED
  BY <1>1, <1>4, <1>7 DEF HandedOver

(* The packet of a type is replaced by one with the same type. *)
LEMMA Replaced ==
  ASSUME PacketShape, NEW k \in Kinds, NEW q, "type" \in DOMAIN q, q.type = k,
         k = "Subscribe" => "filters" \in DOMAIN q /\ q.filters \in Lists,
         pkt' = [pkt EXCEPT ![k] = q]
  PROVE  PacketShape' /\ pkt'[k] = q
BY DEF PacketShape, Kinds

(* A field of a packet is changed. *)
LEMMA Changed ==
  ASSUME PacketShape, NEW k \in Kinds, NEW f, f # "type", NEW v,
         k = "Subscribe" /\ f = "filters" => v \in Lists, pkt' = [pkt EXCEPT ![k][f] = v]
  PROVE  PacketShape'
<1>1. PICK q : q = [pkt[k] EXCEPT ![f] = v]
  OBVIOUS
<1>2. pkt' = [pkt EXCEPT ![k] = q]
  BY <1>1
<1>3. "type" \in DOMAIN q /\ q.type = k
  BY <1>1 DEF PacketShape
<1>4. k = "Subscribe" => "filters" \in DOMAIN q /\ q.filters \in Lists
  BY <1>1 DEF PacketShape
<1> QED
  BY <1>2, <1>3, <1>4, Replaced

(* What a byte hands over, if anything, is the packet being filled. *)
Outcome == packets' = packets \/ packets' = Append(packets, pkt'[status])

(* A packet of another type has no filters to look at. *)
LEMMA OtherHandOver ==
  ASSUME HandedOver, PacketShape', status \in Kinds, status # "Subscribe", Outcome
  PROVE  HandedOver'
<1>1. PICK p : p = pkt'[status]
  OBVIOUS
<1>2. p.type # "Subscribe"
  BY <1>1 DEF PacketShape
<1>3. Fine(p)
  BY <1>2 DEF Fine
<1>4. CASE packets' = packets
  BY <1>4 DEF HandedOver
<1>5. CASE packets' = Append(packets, p)
  BY <1>3, <1>5, HandOver
<1> QED
  BY <1>1, <1>4, <1>5 DEF Outcome

(* Complete gives up or hands over. *)
LEMMA CompleteOutcome == (Complete => Outcome) /\ (Reject => Outcome) /\ \A f : More(f) => Outcome
  BY DEF Complete, Consume, Reject, More, Outcome

(* A string that was read leaves a fresh parser, or goes on. *)
LEMMA ReadStringShape ==
  ASSUME StringShape, str.st # "Ready", NEW b \in Bytes,
         \/ StringParse(str, b).st = "Ready" /\ str' = FreshString
         \/ StringParse(str, b).st # "Ready" /\ str' = StringParse(str, b)
  PROVE  StringShape'
<1>1. FreshString \in StringSet /\ FreshString.st # "Ready"
  BY EmptySeq DEF FreshString, StringSet, Strings
<1>2. StringParse(str, b) \in StringSet
  BY StringByte DEF StringShape
<1> QED
  BY <1>1, <1>2 DEF StringShape

(* A byte of a CONNECT keeps the lists. *)
LEMMA ConnectLists ==
  ASSUME ListInv, NEW b \in Bytes, ParseConnect(b)
  PROVE  ListInv'
<1>1. status = "Connect" /\ "Connect" \in Kinds /\ str.st # "Ready" /\ PacketShape /\ StringShape /\ HandedOver
  BY DEF ParseConnect, ListInv, StringShape, Kinds
<1>2. CASE ConnectByte(b)
  <2>1. str' = str /\ packets' = packets
    BY <1>2 DEF ConnectByte, Reject, More
  <2>2. StringShape'
    BY <1>1, <2>1 DEF StringShape
  <2>3. CASE pkt' = pkt
    BY <1>1, <2>1, <2>2, <2>3 DEF ListInv, PacketShape, HandedOver
  <2>4. CASE pkt' = [pkt EXCEPT !.Connect.cleanSession = Bit(b, 2),
                              !.Connect.willFlag = Bit(b, 4),
                              !.Connect.willQoS = (b \div 8) % 2,
                              !.Connect.willRetain = Bit(b, 32),
                              !.Connect.passwordFlag = Bit(b, 64),
                              !.Connect.userNameFlag = Bit(b, 128)]
    <3>1. PICK q : q = pkt'["Connect"]
      OBVIOUS
    <3>2. q = [pkt["Connect"] EXCEPT !.cleanSession = Bit(b, 2), !.willFlag = Bit(b, 4),
                 !.willQoS = (b \div 8) % 2, !.willRetain = Bit(b, 32),
                 !.passwordFlag = Bit(b, 64), !.userNameFlag = Bit(b, 128)]
      BY <1>1, <2>4, <3>1 DEF PacketShape, Kinds
    <3>3. "type" \in DOMAIN q /\ q.type = "Connect"
      BY <1>1, <3>2 DEF PacketShape
    <3>4. pkt' = [pkt EXCEPT !["Connect"] = q]
      BY <1>1, <2>4, <3>1, ZenonT(40) DEF PacketShape, Kinds
    <3>5. PacketShape'
      BY <1>1, <3>3, <3>4, Replaced
    <3> QED
      BY <1>1, <2>1, <2>2, <3>5 DEF ListInv, HandedOver
  <2>5. CASE pkt' = [pkt EXCEPT !.Connect.keepAlive = 256 * b]
    <3>1. PacketShape'
      BY <1>1, <2>5, Changed
    <3> QED
      BY <1>1, <2>1, <2>2, <3>1 DEF ListInv, HandedOver
  <2>6. CASE pkt' = [pkt EXCEPT !.Connect.keepAlive = @ + b]
    <3>1. PICK v : v = pkt.Connect.keepAlive + b
      OBVIOUS
    <3>2. pkt' = [pkt EXCEPT !["Connect"]["keepAlive"] = v]
      BY <2>6, <3>1
    <3>3. PacketShape'
      BY <1>1, <3>2, Changed
    <3> QED
      BY <1>1, <2>1, <2>2, <3>3 DEF ListInv, HandedOver
  <2> QED
    BY <1>2, <2>3, <2>4, <2>5, <2>6 DEF ConnectByte
<1>3. CASE ConnectString(b)
  <2>1. StringShape'
    BY <1>1, <1>3, ReadStringShape DEF ConnectString, ReadString
  <2>2. Outcome
    BY <1>3, CompleteOutcome DEF ConnectString, ReadString
  <2>3. PacketShape'
    <3>1. CASE pkt' = pkt
      BY <1>1, <3>1 DEF PacketShape
    <3>2. CASE pkt' = StoreString(field, Text(b))
      <4>1. PICK t, u : t = Text(b) /\ u = IF t = <<>> THEN Uuid ELSE t
        OBVIOUS
      <4>2. CASE field = "ProtocolName"
        BY <1>1, <3>2, <4>2 DEF StoreString, PacketShape
      <4>3. CASE field = "ClientId"
        <5>1. pkt' = [pkt EXCEPT !["Connect"]["clientId"] = u]
          BY <3>2, <4>1, <4>3 DEF StoreString
        <5> QED
          BY <1>1, <5>1, Changed
      <4>4. CASE field = "WillTopic"
        <5>1. pkt' = [pkt EXCEPT !["Connect"]["willTopic"] = t]
          BY <3>2, <4>1, <4>4 DEF StoreString
        <5> QED
          BY <1>1, <5>1, Changed
      <4>5. CASE field = "WillMessage"
        <5>1. pkt' = [pkt EXCEPT !["Connect"]["willMessage"] = t]
          BY <3>2, <4>1, <4>5 DEF StoreString
        <5> QED
          BY <1>1, <5>1, Changed
      <4>6. CASE field = "Username"
        <5>1. pkt' = [pkt EXCEPT !["Connect"]["userName"] = t]
          BY <3>2, <4>1, <4>6 DEF StoreString
        <5> QED
          BY <1>1, <5>1, Changed
      <4>7. CASE field = "Password"
        <5>1. pkt' = [pkt EXCEPT !["Connect"]["password"] = t]
          BY <3>2, <4>1, <4>7 DEF StoreString
        <5> QED
          BY <1>1, <5>1, Changed
      <4> QED
        BY <1>3, <4>2, <4>3, <4>4, <4>5, <4>6, <4>7 DEF ConnectString
    <3> QED
      BY <1>3, <3>1, <3>2 DEF ConnectString, ReadString
  <2>4. HandedOver'
    BY <1>1, <2>2, <2>3, OtherHandOver
  <2> QED
    BY <2>1, <2>3, <2>4 DEF ListInv
<1> QED
  BY <1>2, <1>3 DEF ParseConnect

(* Nothing but the string parser is at hand for these. *)
LEMMA StringUntouched ==
  ASSUME StringShape, status # "Subscribe", str' = str
  PROVE  StringShape'
BY DEF StringShape

(* The same for a CONNACK, ... *)
LEMMA ConnackLists ==
  ASSUME ListInv, NEW b \in Bytes, ParseConnack(b)
  PROVE  ListInv'
<1>1. status = "Connack" /\ "Connack" \in Kinds /\ PacketShape /\ StringShape /\ HandedOver
  BY DEF ParseConnack, ListInv, Kinds
<1>2. StringShape'
  BY <1>1, StringUntouched DEF ParseConnack
<1>3. Outcome
  BY <1>1 DEF ParseConnack, Outcome, Reject, More, Consume
<1>4. PacketShape'
  <2>1. CASE pkt' = pkt
    BY <1>1, <2>1 DEF PacketShape
  <2>2. CASE pkt' = [pkt EXCEPT !.Connack.flag = b]
    BY <1>1, <2>2, Changed
  <2>3. CASE pkt' = [pkt EXCEPT !.Connack.code = b]
    BY <1>1, <2>3, Changed
  <2> QED
    BY <2>1, <2>2, <2>3 DEF ParseConnack
<1>5. HandedOver'
  BY <1>1, <1>3, <1>4, OtherHandOver
<1> QED
  BY <1>2, <1>4, <1>5 DEF ListInv

(* ... a PUBLISH ... *)
LEMMA PublishLists ==
  ASSUME ListInv, NEW b \in Bytes, ParsePublish(b)
  PROVE  ListInv'
<1>1. /\ status = "Publish" /\ "Publish" \in Kinds /\ PacketShape /\ StringShape /\ HandedOver
      /\ str.st # "Ready"
  BY DEF ParsePublish, ListInv, StringShape, Kinds
<1>2. StringShape'
  <2>1. CASE field = "TopicName"
    BY <1>1, <2>1, ReadStringShape DEF ParsePublish, ReadString
  <2>2. CASE field # "TopicName"
    <3>1. str' = str
      BY <2>2 DEF ParsePublish, ReadIdentifier
    <3> QED
      BY <1>1, <3>1, StringUntouched
  <2> QED
    BY <2>1, <2>2
<1>3. Outcome
  BY CompleteOutcome DEF ParsePublish, ReadString, ReadIdentifier
<1>4. PacketShape'
  <2>1. CASE pkt' = pkt
    BY <1>1, <2>1 DEF PacketShape
  <2>2. CASE pkt' = [pkt EXCEPT !.Publish.topic = Text(b)]
    BY <1>1, <2>2, Changed
  <2>3. CASE pkt' = [pkt EXCEPT !.Publish.id = Identifier(b)]
    BY <1>1, <2>3, Changed
  <2>4. CASE pkt' = [pkt EXCEPT !.Publish.payload = Append(@, b)]
    <3>1. PICK v : v = Append(pkt.Publish.payload, b)
      OBVIOUS
    <3>2. pkt' = [pkt EXCEPT !["Publish"]["payload"] = v]
      BY <2>4, <3>1
    <3> QED
      BY <1>1, <3>2, Changed
  <2> QED
    BY <2>1, <2>2, <2>3, <2>4 DEF ParsePublish, ReadString, ReadIdentifier
<1>5. HandedOver'
  BY <1>1, <1>3, <1>4, OtherHandOver
<1> QED
  BY <1>2, <1>4, <1>5 DEF ListInv

(* ... and a SUBACK. *)
LEMMA SubackLists ==
  ASSUME ListInv, NEW b \in Bytes, ParseSuback(b)
  PROVE  ListInv'
<1>1. status = "Suback" /\ "Suback" \in Kinds /\ PacketShape /\ StringShape /\ HandedOver
  BY DEF ParseSuback, ListInv, Kinds
<1>2. StringShape'
  <2>1. str' = str
    BY DEF ParseSuback, ReadIdentifier
  <2> QED
    BY <1>1, <2>1, StringUntouched
<1>3. Outcome
  BY CompleteOutcome DEF ParseSuback, ReadIdentifier
<1>4. PacketShape'
  <2>1. CASE pkt' = pkt
    BY <1>1, <2>1 DEF PacketShape
  <2>2. CASE pkt' = [pkt EXCEPT !.Suback.id = Identifier(b)]
    BY <1>1, <2>2, Changed
  <2>3. CASE pkt' = [pkt EXCEPT !.Suback.qos = Append(@, b)]
    <3>1. PICK v : v = Append(pkt.Suback.qos, b)
      OBVIOUS
    <3>2. pkt' = [pkt EXCEPT !["Suback"]["qos"] = v]
      BY <2>3, <3>1
    <3> QED
      BY <1>1, <3>2, Changed
  <2> QED
    BY <2>1, <2>2, <2>3 DEF ParseSuback, ReadIdentifier
<1>5. HandedOver'
  BY <1>1, <1>3, <1>4, OtherHandOver
<1> QED
  BY <1>2, <1>4, <1>5 DEF ListInv

(* A SUBSCRIBE collects its filters, and is sorted when it is handed over. *)
LEMMA SubscribeLists ==
  ASSUME ListInv, NEW b \in Bytes, ParseSubscribe(b)
  PROVE  ListInv'
<1>1. status = "Subscribe" /\ "Subscribe" \in Kinds /\ PacketShape /\ StringShape /\ HandedOver
  BY DEF ParseSubscribe, ListInv, Kinds
<1>2. CASE field = "PacketIdentifier" /\ ~SubscribeQoS(b)
  <2>1. str' = str /\ str.st # "Ready" /\ packets' = packets
    BY <1>1, <1>2 DEF ParseSubscribe, ReadIdentifier, More, StringShape
  <2>2. StringShape'
    BY <1>1, <2>1 DEF StringShape
  <2>3. PacketShape'
    <3>1. CASE pkt' = pkt
      BY <1>1, <3>1 DEF PacketShape
    <3>2. CASE pkt' = [pkt EXCEPT !.Subscribe.id = Identifier(b)]
      BY <1>1, <3>2, Changed
    <3> QED
      BY <1>2, <3>1, <3>2 DEF ParseSubscribe, ReadIdentifier
  <2> QED
    BY <1>1, <2>1, <2>2, <2>3 DEF ListInv, HandedOver
<1>3. CASE field = "TopicFilter" /\ ~SubscribeQoS(b)
  <2>1. /\ str' = StringParse(str, b) /\ pkt' = pkt /\ packets' = packets /\ status' = status
        /\ field' = IF str'.st = "Ready" THEN "QoS" ELSE field
    BY <1>3 DEF ParseSubscribe, More
  <2>2. str.st # "Ready"
    BY <1>1, <1>3 DEF StringShape
  <2>3. str' \in StringSet
    BY <1>1, <2>1, <2>2, StringByte DEF StringShape
  <2>4. StringShape'
    BY <1>1, <2>1, <2>3 DEF StringShape
  <2> QED
    BY <1>1, <2>1, <2>4 DEF ListInv, PacketShape, HandedOver
<1>4. CASE SubscribeQoS(b)
  <2>1. StringShape'
    <3>1. FreshString \in StringSet /\ FreshString.st # "Ready" /\ str' = FreshString
      BY <1>4, EmptySeq DEF FreshString, StringSet, Strings, SubscribeQoS
    <3> QED
      BY <3>1 DEF StringShape
  <2>2. PICK all : all = Append(pkt.Subscribe.filters, [filter |-> str.text, qos |-> b])
    OBVIOUS
  <2>3. all \in Lists
    <3>1. [filter |-> str.text, qos |-> b] \in FilterSet
      BY <1>1 DEF FilterSet, StringShape, StringSet
    <3>2. pkt.Subscribe.filters \in Lists
      BY <1>1 DEF PacketShape
    <3> QED
      BY <2>2, <3>1, <3>2, AppendProperties DEF Lists
  <2>4. \/ Reject /\ pkt' = pkt
        \/ pkt' = [pkt EXCEPT !.Subscribe.filters = all] /\ packets' = packets
        \/ pkt' = [pkt EXCEPT !.Subscribe.filters = Unique(Sort(all))] /\ Complete
    BY <1>4, <2>2 DEF SubscribeQoS, More
  <2>5. CASE Reject /\ pkt' = pkt
    BY <1>1, <2>1, <2>5 DEF ListInv, PacketShape, HandedOver, Reject
  <2>6. CASE pkt' = [pkt EXCEPT !.Subscribe.filters = all] /\ packets' = packets
    <3>1. PacketShape'
      BY <1>1, <2>3, <2>6, Changed
    <3> QED
      BY <1>1, <2>1, <2>6, <3>1 DEF ListInv, HandedOver
  <2>7. CASE pkt' = [pkt EXCEPT !.Subscribe.filters = Unique(Sort(all))] /\ Complete
    <3>1. PICK u : u = Unique(Sort(all))
      OBVIOUS
    <3>2. u \in Lists /\ (OneLevel(u) => IsInjective(u))
      BY <2>3, <3>1, NoneTwice
    <3>3. pkt' = [pkt EXCEPT !["Subscribe"]["filters"] = u]
      BY <2>7, <3>1
    <3>4. PacketShape'
      BY <1>1, <3>2, <3>3, Changed
    <3>5. pkt'["Subscribe"].filters = u
      BY <1>1, <3>3 DEF PacketShape
    <3>6. PICK p : p = pkt'["Subscribe"]
      OBVIOUS
    <3>7. Fine(p)
      BY <3>2, <3>5, <3>6 DEF Fine
    <3>8. packets' = packets \/ packets' = Append(packets, p)
      BY <1>1, <2>7, <3>6, CompleteOutcome DEF Outcome
    <3>9. HandedOver'
      <4>1. CASE packets' = packets
        BY <1>1, <4>1 DEF HandedOver
      <4>2. CASE packets' = Append(packets, p)
        BY <1>1, <3>7, <4>2, HandOver
      <4> QED
        BY <3>8, <4>1, <4>2
    <3> QED
      BY <2>1, <3>4, <3>9 DEF ListInv
  <2> QED
    BY <2>4, <2>5, <2>6, <2>7
<1> QED
  BY <1>2, <1>3, <1>4 DEF ParseSubscribe

(* The fixed header does not touch the lists. *)
LEMMA HeaderLists ==
  ASSUME ListInv, NEW b \in Bytes, ParseHeader(b)
  PROVE  ListInv'
<1>1. status = "Start" /\ PacketShape /\ StringShape /\ HandedOver
  BY DEF ParseHeader, ListInv
<1>2. CASE str' = str /\ pkt' = pkt /\ packets' = packets
  <2>1. StringShape'
    BY <1>1, <1>2, StringUntouched
  <2> QED
    BY <1>1, <1>2, <2>1 DEF ListInv, PacketShape, HandedOver
<1>3. CASE \E type, length : StartPacket(type, length)
  <2>1. PICK type, length : StartPacket(type, length)
    BY <1>3
  <2>2. StringShape'
    <3>1. FreshString \in StringSet /\ FreshString.st # "Ready" /\ str' = FreshString
      BY <2>1, EmptySeq DEF FreshString, StringSet, Strings, StartPacket
    <3> QED
      BY <3>1 DEF StringShape
  <2>3. PacketShape'
    <3>1. CASE pkt' = pkt
      BY <1>1, <3>1 DEF PacketShape
    <3>2. CASE pkt' = [pkt EXCEPT !.Publish.payload = <<>>]
      <4>1. "Publish" \in Kinds
        BY DEF Kinds
      <4> QED
        BY <1>1, <3>2, <4>1, Changed
    <3> QED
      BY <2>1, <3>1, <3>2 DEF StartPacket
  <2> QED
    BY <1>1, <2>1, <2>2, <2>3 DEF ListInv, HandedOver, StartPacket
<1>4. CASE /\ str' = str /\ pkt' = pkt
           /\ hdr.type \in {"Pingreq", "Pingresp", "Disconnect"} /\ Consume([type |-> hdr.type])
  <2>1. StringShape'
    BY <1>1, <1>4, StringUntouched
  <2>2. PICK p : p = [type |-> hdr.type]
    OBVIOUS
  <2>3. p.type # "Subscribe"
    BY <1>4, <2>2
  <2>4. Fine(p)
    BY <2>3 DEF Fine
  <2>5. packets' = Append(packets, p)
    BY <1>4, <2>2 DEF Consume
  <2>6. HandedOver'
    BY <1>1, <2>4, <2>5, HandOver
  <2> QED
    BY <1>1, <1>4, <2>1, <2>6 DEF ListInv, PacketShape
<1>5. CASE ParseType(b)
  BY <1>2, <1>5 DEF ParseType, Reject
<1>6. CASE ParseLength(b)
  BY <1>2, <1>3, <1>4, <1>6 DEF ParseLength, Reject
<1> QED
  BY <1>5, <1>6 DEF ParseHeader

(* Every byte keeps the lists. *)
LEMMA ParseLists ==
  ASSUME ListInv, NEW b \in 0..255, Parse(b)
  PROVE  ListInv'
<1>1. b \in Bytes
  BY DEF Bytes
<1>2. CASE ParseHeader(b)
  BY <1>1, <1>2, HeaderLists
<1>3. CASE ParseConnack(b)
  BY <1>1, <1>3, ConnackLists
<1>4. CASE Reject /\ UNCHANGED <<left, str, ident, pkt>>
  BY <1>4 DEF ListInv, StringShape, PacketShape, HandedOver, Reject
<1>5. CASE ParseBody(b)
  BY <1>1, <1>5, ConnectLists, PublishLists, SubscribeLists, SubackLists DEF ParseBody
<1> QED
  BY <1>2, <1>3, <1>4, <1>5 DEF Parse, ParseContent

(* Whatever bytes a peer sends, a SUBSCRIBE with filters of one QoS level   *)
(* reaches the processor without duplicates (SubscribeParser::parse), also   *)
(* if it brings the filters of earlier ones.                                *)
THEOREM SubscribesHaveNoDuplicates == ParserSpec => []NoDuplicates
<1>1. ParserInit => ListInv
  <2> SUFFICES ASSUME ParserInit PROVE ListInv
    OBVIOUS
  <2>1. FreshString \in StringSet /\ FreshString.st # "Ready"
    BY EmptySeq DEF FreshString, StringSet, Strings
  <2>2. StringShape
    BY <2>1 DEF ParserInit, StringShape
  <2>3. PICK g \in Garbage : pkt = FreshPackets(g)
    BY DEF ParserInit
  <2>4. <<>> \in Lists
    BY EmptySeq DEF Lists
  <2>5. PacketShape
    BY <2>3, <2>4 DEF FreshPackets, PacketShape, Kinds
  <2>6. HandedOver
    BY EmptySeq DEF ParserInit, HandedOver, Range
  <2> QED
    BY <2>2, <2>5, <2>6 DEF ListInv
<1>2. ListInv /\ [\E b \in 0..255 : Parse(b)]_parser => ListInv'
  <2>1. ASSUME ListInv, NEW b \in 0..255, Parse(b) PROVE ListInv'
    BY <2>1, ParseLists
  <2>2. ASSUME ListInv, UNCHANGED parser PROVE ListInv'
    BY <2>2 DEF parser, ListInv, StringShape, PacketShape, HandedOver
  <2> QED
    BY <2>1, <2>2
<1>3. ListInv => NoDuplicates
  BY DEF ListInv, HandedOver, Fine, OneLevel, NoDuplicates
<1> QED
  BY <1>1, <1>2, <1>3, PTL DEF ParserSpec
=============================================================================
