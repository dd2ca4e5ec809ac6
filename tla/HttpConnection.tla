--------------------------- MODULE HttpConnection ---------------------------
(***************************************************************************)
(* One connection of the HTTP server: the peer's bytes are cut into reads  *)
(* anywhere, HttpParser::Impl puts the pieces the http_parser library      *)
(* reports together, Connection answers each request with a header and a   *)
(* body from one write buffer, and every finished write starts a read.     *)
(* A text is the sequence of its smallest parts.  Each is a piece of its   *)
(* own: what the parser puts together does not depend on how many of them  *)
(* the library reports in one callback.                                    *)
(***************************************************************************)
EXTENDS Integers, Sequences, SequencesExt

CONSTANTS Texts,        \* the smallest parts of a text
          Requests,     \* requests a peer may send
          BufSize,      \* bound: pieces one read may bring
          MaxRequests   \* bound: requests on the connection

ASSUME HttpAssumption ==
  /\ BufSize \in Nat /\ MaxRequests \in Nat
  /\ Requests \subseteq [method : Texts, url : Seq(Texts), version : Texts, body : BOOLEAN,
                         header : Seq([field : Seq(Texts), value : Seq(Texts)])]
  \* The library reports a URL, a name and a value at least once, an empty value too.
  /\ \A r \in Requests :
       /\ r.url # <<>>
       /\ \A n \in DOMAIN r.header : r.header[n].field # <<>> /\ r.header[n].value # <<>>

VARIABLES sent,         \* the requests of the peer
          stream,       \* pieces on their way
          closed,       \* the peer has closed its side
          reads,        \* async_read_some operations that wait
          readBuf,      \* _readBuf, as long as a handler will look at it
          arrived,      \* lengths of finished reads whose handler has not run
          parser,       \* HttpParser::Impl with the library's state and _request
          writeBuf,     \* _writeBuf
          writes,       \* async_write operations that wait for the socket
          written,      \* finished writes whose handler has not run
          wire,         \* what the peer gets
          answered,     \* history: requests as they were when they were answered
          overlapped,   \* history: a read overwrote what no handler had seen
          overwritten   \* history: a write was overtaken by the next one's bytes

httpVars == <<sent, stream, closed, reads, readBuf, arrived, parser, writeBuf,
              writes, written, wire, answered, overlapped, overwritten>>

Versions == {"HTTP/1.0", "HTTP/1.1"}
NoBody == [part |-> "none", of |-> 0, version |-> "", status |-> ""]

(* _request._version is not initialized. *)
HttpInit ==
  /\ sent = <<>> /\ stream = <<>> /\ closed = FALSE
  /\ reads = 1                       \* Connection::start
  /\ readBuf = <<>> /\ arrived = <<>>
  /\ \E v \in Versions :
       parser = [state |-> "Start", data |-> <<>>, lib |-> "end", iter |-> <<>>,
                 request |-> [method |-> "GET", url |-> <<>>, version |-> v,
                              header |-> [f \in {} |-> <<>>]],
                 out |-> <<>>]
  /\ writeBuf = NoBody /\ writes = <<>> /\ written = 0 /\ wire = <<>>
  /\ answered = <<>> /\ overlapped = FALSE /\ overwritten = FALSE

-----------------------------------------------------------------------------
(* The library: the pieces of a request, and which piece may follow which. *)
(* The last piece of the headers carries the version; it or the body       *)
(* completes the message.                                                  *)
TextPieces(k, text) == [i \in DOMAIN text |-> [k |-> k, v |-> text[i]]]

FieldPieces(h) == TextPieces("field", h.field) \o TextPieces("value", h.value)

Pieces(r) ==
  <<[k |-> "begin", v |-> r.method]>>
  \o TextPieces("url", r.url)
  \o FlattenSeq([n \in DOMAIN r.header |-> FieldPieces(r.header[n])])
  \o <<[k |-> IF r.body THEN "headers" ELSE "last", v |-> r.version]>>
  \o (IF r.body THEN <<[k |-> "body", v |-> ""]>> ELSE <<>>)

Follows(k) ==
  [end |-> {"begin"}, begin |-> {"url"}, url |-> {"url", "field", "headers", "last"},
   field |-> {"field", "value"}, value |-> {"value", "field", "headers", "last"},
   headers |-> {"body"}, error |-> {}][k]

(* The method is reported when its first letter has been read. *)
Guess(m) == IF m \in {"PUT", "PATCH"} THEN "POST" ELSE m

-----------------------------------------------------------------------------
(* HttpParser::Impl and the callbacks of Connection.                       *)
onUrl(c) == [c EXCEPT !.request.url = c.data]

(* The member _request lives as long as the connection, and emplace        *)
(* changes nothing when a request before has left a field of that name.    *)
onHeaderField(c) ==
  [c EXCEPT !.iter = c.data,
            !.request.header =
              [f \in DOMAIN @ \cup {c.data} |-> IF f \in DOMAIN @ THEN @[f] ELSE <<>>]]

onHeaderValue(c) == [c EXCEPT !.request.header[c.iter] = c.data]

CallCallback(c) ==
  CASE c.state = "Url" -> onUrl(c)
    [] c.state = "HeaderField" -> onHeaderField(c)
    [] c.state = "HeaderValue" -> onHeaderValue(c)
    [] OTHER -> c

(* What onUrl and onStatus do with a piece, and what onHeaderField and     *)
(* onHeaderValue do, which first hand over what has been collected.        *)
Collect(c, state, v) == [c EXCEPT !.state = state, !.data = Append(@, v)]
Flush_keeps(c) == CallCallback(c)  \* mutant: what was handed over is not cleared

Flush(c) == [CallCallback(c) EXCEPT !.data = <<>>]

CollectNew(c, state, v) ==
  IF c.state = state THEN Collect(c, state, v) ELSE Collect(Flush(c), state, v)

onMessageBegin(c, m) ==
  IF Guess(m) \in {"GET", "POST"} THEN [c EXCEPT !.request.method = Guess(m)]
  ELSE [c EXCEPT !.lib = "error"]

(* Another version is answered with the one of the request before, and the *)
(* library is told to expect no body.                                      *)
onHeaderComplete(c, v) ==
  IF v \in Versions THEN [Flush(c) EXCEPT !.request.version = v, !.state = "Body"]
  ELSE [Flush(c) EXCEPT !.lib = "end"]

onMessageComplete(c) ==
  [c EXCEPT !.out = Append(@, c.request), !.state = "Complete", !.lib = "end"]

OnPiece(c, p) ==
  LET d == [c EXCEPT !.lib = p.k]
  IN IF p.k \notin Follows(c.lib) THEN [c EXCEPT !.lib = "error"]
     ELSE CASE p.k = "begin" -> onMessageBegin(d, p.v)
            [] p.k = "url"   -> Collect(d, "Url", p.v)
            [] p.k = "field" -> CollectNew(d, "HeaderField", p.v)
            [] p.k = "value" -> CollectNew(d, "HeaderValue", p.v)
            [] p.k = "last"  -> onMessageComplete(onHeaderComplete(d, p.v))
            [] p.k = "body"  -> onMessageComplete(d)
            [] p.k = "headers" ->
                 LET e == onHeaderComplete(d, p.v)
                 IN IF e.lib = "end" THEN onMessageComplete(e) ELSE e

Parse(c, pieces) ==
  LET parsed[n \in 0..Len(pieces)] ==
        IF n = 0 THEN c ELSE OnPiece(parsed[n - 1], pieces[n])
  IN parsed[Len(pieces)]

Reset(c) == [c EXCEPT !.state = "Start", !.data = <<>>, !.out = <<>>]

(* Connection::onMessageComplete: what is written for a request.  A page   *)
(* that vanishes between exists and load_file is a missing one.            *)
Status(r) ==
  CASE Head(r.url) = "bad" -> "BAD_REQUEST"
    [] Head(r.url) = "missing" -> "NOT_FOUND"
    [] OTHER -> "OK"

(* do_write starts no write of length 0.                                   *)
NoContent(r) == Status(r) = "BAD_REQUEST" \/ Head(r.url) = "empty"

sendResponseHeader(i, r) == [part |-> "header", of |-> i, version |-> r.version, status |-> Status(r)]

Response_swapped(i, r) ==  \* mutant: the body is written first
  LET m == sendResponseHeader(i, r)
  IN IF NoContent(r) THEN <<m>> ELSE <<[m EXCEPT !.part = "body"], m>>

Response(i, r) ==
  LET m == sendResponseHeader(i, r)
  IN IF NoContent(r) THEN <<m>> ELSE <<m, [m EXCEPT !.part = "body"]>>

(* The answers to the requests of one read, after n earlier ones. *)
Answers(n, out) == FlattenSeq([i \in DOMAIN out |-> Response(n + i, out[i])])

-----------------------------------------------------------------------------
(* The peer sends a request, and nothing more after HTTP/1.0. *)
PeerSend(r) ==
  /\ ~closed /\ Len(sent) < MaxRequests
  /\ \A i \in DOMAIN sent : sent[i].version # "HTTP/1.0"
  /\ sent' = Append(sent, r)
  /\ stream' = stream \o Pieces(r)
  /\ UNCHANGED <<closed, reads, readBuf, arrived, parser, writeBuf, writes, written,
                 wire, answered, overlapped, overwritten>>

PeerClose ==
  /\ ~closed /\ stream = <<>>
  /\ closed' = TRUE
  /\ UNCHANGED <<sent, stream, reads, readBuf, arrived, parser, writeBuf, writes,
                 written, wire, answered, overlapped, overwritten>>

(* The socket fills the buffer of a waiting read; the handler runs later. *)
Read(n) ==
  /\ reads > 0 /\ n \in 1..Len(stream) /\ n <= BufSize
  /\ reads' = reads - 1
  /\ readBuf' = SubSeq(stream, 1, n) \o SubSeq(readBuf, n + 1, Len(readBuf))
  /\ stream' = SubSeq(stream, n + 1, Len(stream))
  /\ arrived' = Append(arrived, n)
  /\ overlapped' = (overlapped \/ arrived # <<>>)
  /\ UNCHANGED <<sent, closed, parser, writeBuf, writes, written, wire, answered, overwritten>>

ReadError ==
  /\ closed /\ stream = <<>> /\ reads > 0
  /\ reads' = reads - 1
  /\ UNCHANGED <<sent, stream, closed, readBuf, arrived, parser, writeBuf, writes,
                 written, wire, answered, overlapped, overwritten>>

(* handle_read: the writes of the answers are started one after the other; *)
(* the socket takes the first `taken' at once, the others wait with        *)
(* nothing but a reference to the buffer.                                  *)
HandleRead(taken) ==
  LET c   == Parse(parser, SubSeq(readBuf, 1, Head(arrived)))
      new == Answers(Len(answered), c.out)
  IN /\ arrived # <<>>
     /\ taken \in IF writes = <<>> THEN 0..Len(new) ELSE {0}
     /\ arrived' = Tail(arrived)
     /\ answered' = answered \o c.out
     /\ wire' = wire \o SubSeq(new, 1, taken)
     /\ written' = written + taken
     /\ writes' = writes \o SubSeq(new, taken + 1, Len(new))
     /\ writeBuf' = IF new = <<>> THEN writeBuf ELSE Last(new)
     /\ overwritten' = (overwritten \/ Len(writes') > 1)
     /\ reads' = IF c.lib # "error" /\ c.state # "Complete" THEN reads + 1 ELSE reads
     /\ parser' = IF c.lib # "error" /\ c.state = "Complete" THEN Reset(c)
                  ELSE [c EXCEPT !.out = <<>>]
     /\ readBuf' = IF arrived' = <<>> THEN <<>> ELSE readBuf
     /\ UNCHANGED <<sent, stream, closed, overlapped>>

(* The socket takes the bytes of the first waiting write. *)
Write ==
  /\ writes # <<>>
  /\ wire' = Append(wire, writeBuf)
  /\ writes' = Tail(writes)
  /\ written' = written + 1
  /\ UNCHANGED <<sent, stream, closed, reads, readBuf, arrived, parser, writeBuf,
                 answered, overlapped, overwritten>>

WriteDone_deaf ==  \* mutant: no read follows a write
  /\ written > 0
  /\ written' = written - 1
  /\ UNCHANGED <<sent, stream, closed, reads, readBuf, arrived, parser, writeBuf, writes,
                 wire, answered, overlapped, overwritten>>

(* The handler of do_write. *)
WriteDone ==
  /\ written > 0
  /\ written' = written - 1
  /\ reads' = reads + 1
  /\ UNCHANGED <<sent, stream, closed, readBuf, arrived, parser, writeBuf, writes,
                 wire, answered, overlapped, overwritten>>

WriteError ==
  /\ closed /\ writes # <<>>
  /\ writes' = Tail(writes)
  /\ UNCHANGED <<sent, stream, closed, reads, readBuf, arrived, parser, writeBuf,
                 written, wire, answered, overlapped, overwritten>>

HttpStep ==
  \/ \E n \in 1..BufSize : Read(n)
  \/ \E taken \in 0..(2 * MaxRequests) : HandleRead(taken)
  \/ Write \/ WriteDone

HttpNext ==
  \/ \E r \in Requests : PeerSend(r)
  \/ PeerClose \/ ReadError \/ WriteError
  \/ HttpStep

HttpSpec == HttpInit /\ [][HttpNext]_httpVars

(* When HttpStep is enabled.  It is taken with weak fairness: the thread   *)
(* of the connection's io_context goes on running handlers, and the socket *)
(* takes and delivers bytes.                                               *)
SomethingToDo == (reads > 0 /\ stream # <<>>) \/ arrived # <<>> \/ writes # <<>> \/ written > 0

-----------------------------------------------------------------------------
(* Wherever the reads cut the bytes, the requests are answered in the      *)
(* order they were sent, with the URL, the method as the code guesses it   *)
(* and, if the server knows it, the version they were sent with.  The      *)
(* header is exactly this: each field of the request with its last value,  *)
(* and every field the request does not name as the request before left    *)
(* it, for _request._header is never cleared (connection.h:113-124).  All  *)
(* this as long as no read overtakes the handler of another.               *)
Names(header) == {header[n].field : n \in DOMAIN header}
LastOfName(header, n) ==
  \A m \in DOMAIN header : m > n => header[m].field # header[n].field

LeftBy(got, i) == IF i = 1 THEN [f \in {} |-> <<>>] ELSE got[i - 1].header

SentOrLeft(header, want, left) ==
  /\ DOMAIN header = Names(want) \cup DOMAIN left
  /\ \A n \in DOMAIN want : LastOfName(want, n) => header[want[n].field] = want[n].value
  /\ \A f \in DOMAIN left \ Names(want) : header[f] = left[f]

ParsedAsSent ==
  ~overlapped =>
    /\ Len(answered) <= Len(sent)
    /\ \A i \in DOMAIN answered :
         LET got == answered[i] want == sent[i]
         IN /\ got.url = want.url
            /\ got.method = Guess(want.method)
            /\ SentOrLeft(got.header, want.header, LeftBy(answered, i))
            /\ want.version \in Versions => got.version = want.version

(* The peer gets each header and behind it its body, in the order of the   *)
(* requests, unless the socket is slower than the next answer.             *)
AnswersInOrder ==
  LET all == wire \o writes
  IN ~overwritten =>
       \A i \in DOMAIN all :
         /\ i > 1 => all[i].of >= all[i - 1].of
         /\ all[i].part = "body" => i > 1 /\ all[i - 1] = [all[i] EXCEPT !.part = "header"]
         /\ all[i].version = answered[all[i].of].version

(* Something is always outstanding that keeps the connection alive.  An    *)
(* answer leaves behind up to two reads more than it consumed, so that     *)
(* operations do pile up with the answers; but no faster than that, and    *)
(* before the first answer there is never more than one, and so no read    *)
(* that could overtake another.                                            *)
Outstanding == reads + Len(arrived) + Len(writes) + written
KeepsListening ==
  /\ Outstanding <= 1 + 2 * Len(answered)
  /\ overlapped => answered # <<>>
  /\ ~closed /\ parser.lib # "error" => Outstanding >= 1

(* The operations a connection has started answer its peer in order and    *)
(* keep it alive, and each answer adds at most two of them                 *)
(* (connection.h:188-227).                                                 *)
OperationsAreSound == AnswersInOrder /\ KeepsListening

(* Every request the peer completes is answered, unless the peer leaves or *)
(* the bytes are no longer understood.                                     *)
EveryRequestAnswered ==
  \A n \in 1..MaxRequests :
    Len(sent) >= n ~> (Len(answered) >= n \/ closed \/ overlapped \/ parser.lib = "error")
=============================================================================
