# acatl: a verification project

TLA+ models of the [acatl](../src/README.md) libraries and of the programs
built from them (an MQTT broker, an HTTP server, a calendar), TLC
configurations that check them on small instances, and TLAPS proofs of the
main results for all instances.  Paths are relative to `src/`.

## 1. The system

| Component | State | Operations | Interaction |
|---|---|---|---|
| `acatl_mqtt/mqtt_session_manager.h`, `mqtt_session.h` | table client id -> session, `_inUse`; per session the sender (weak), the subscription handler (a reference), the subscriptions | `getSession`, `returnSession`, `removeSession`; `setSender`, `currentSender`, `addSubscriptions` | one instance for all connections, the table under `_sessionsMutex`; `currentSender` takes no lock |
| `acatl_mqtt/mqtt_processor.h` | `_status`, `_currentSession` | `processPacket` and one `doProcess` per packet, `addSubscriptions`, destructor | one per connection; called by its connection, and by *any* session it created |
| `acatl_mqtt/mqtt_subscription_tree_manager.h` | the current tree, `_writeMutex`, `_readMutex` | `getWritableTree`, `~WritableTree`, `getCurrentSubscriptionTree` | writers copy, edit, install; readers take a pointer |
| `acatl_mqtt/mqtt_subscription_tree.h`, `mqtt_topic.h` | tree of level nodes with sessions | `addFilter`, `match` | read concurrently, never changed once installed |
| `examples/mqtt_broker/connection.h` | read buffer, parser, `_sendPackets`, `_isSending`, write buffer | read loop, `addSendPacket`, `sendPackages`, `doSendPackages`, `do_write` | handlers run on the connection's own io thread; `addSendPacket` is called from all io threads |
| `acatl_mqtt/*_parser.h`, `mqtt_serializer.h` | one parser per connection, fed byte by byte | `parse`, `reset`, `consumePacket`; `serialize` | called by the connection |
| `acatl/thread_pool.h` | task queue, `_stop`, workers | worker loop, `enqueue`, destructor | mutex and condition variable |
| `acatl_network/io_context_pool.h`, `async_server.h` | contexts, one thread each, the next one to hand out; per server an acceptor and the socket of the next connection | `run`, `stop`, `get`; `do_accept`, handshake | the signal set, the acceptors and all connections share the contexts |
| `acatl_network/http_session_manager.cpp`, `http_session.cpp` | table id -> session with time stamp, validity and values | `createSession`, `sessionForId`, `invalidate`, `value` | the table under a mutex; sessions are handed out by reference, and their values have no lock |
| `acatl_network/http_parser.cpp`, `examples/http_server/connection.h` | state and text of the field at hand, the request; read and write buffer | callbacks of the tokenizer, `parse`, `reset`; read and write loop | handlers run on the connection's io thread; several reads and writes may be outstanding |
| `acatl_network/http_cookie.cpp`, `http_query_parameter.cpp`, `acatl/numeric_cast.h`, `string_helper.cpp` | none | conversions | pure |
| `acatl/filesystem.cpp`, `detail/posix/filesystem.cpp` | paths and iterators; the directory tree of the system | `remove_all`, `create_directories`, iteration, `TemporaryDirectoryGuard`; parts of a path | threads and processes share the tree and the current directory |
| `acatl/lexer.cpp` | position, line and start of the line | `setInput`, `nextToken` | single threaded |
| `acatl/logging.*` | levels of the classes, a once flag for them and one per log statement, a mutex for the output | `init`, log statements | all threads |
| `acatl_application`, `examples/*/main.cpp` | option groups with their tables, configuration | `parse`, `count`, `option`; `setUp`, `doRun`, `tearDown` | single threaded |
| `examples/calendar/main.cpp`, `acatl/date_helper.h` | date, holidays | the sheet of a month or a year | single threaded |

What is hard in this code: the io threads of the broker share sessions and
tree; objects are kept alive by whatever callback still refers to them; four
places (`currentSender`, `clone`, `_stop`, the values of an `HttpSession`)
touch shared state outside a lock; the send side releases its mutex between testing
and using `_isSending`; the destructor of the thread pool races its workers;
iterator copies share their position; HTTP sessions are erased while others
hold references to them; an exception ends the only thread of a context; file
system operations are sequences of system calls with other threads in
between.  `PROJECT.json` lists these hazards at
their lines, with the properties that are about them.

## 2. The modules

| Module | Models | Kind |
|---|---|---|
| `Broker` | sessions, processors, lifetime of connections | component and composition |
| `Broker_proofs` | | proofs |
| `MCBroker` | | constants for TLC |
| `AtomicTree` | what the tree manager promises | abstract specification |
| `SubscriptionTreeManager` | the copy-on-write protocol | refines `AtomicTree` |
| `SubscriptionTreeManager_proofs` | | proofs |
| `PacketFifo` | what the send side promises | abstract specification |
| `SendQueue` | the send side of a connection | refines `PacketFifo` |
| `SendQueue_proofs` | | proofs |
| `ThreadPool` | `acatl::Threadpool` | component |
| `ThreadPool_proofs` | | proofs |
| `MCThreads` | `SendQueue`, `SubscriptionTreeManager` or `ThreadPool`, one behaviour each | constants for TLC |
| `SubscriptionTree` | filters, levels and matching | recursive function against a reference |
| `Serializer` | the serializer and the encoders | operators |
| `MQTTParser` | the parser of a connection | component |
| `MQTT_proofs` | | proofs about the parser and the tree |
| `MQTTStream` | a peer, the bytes on the wire and the parser | composition of `Serializer` and `MQTTParser` |
| `MCMQTT` | `MQTTStream` or `SubscriptionTree`, one behaviour each | constants for TLC |
| `HttpConnection` | HTTP parser and connection | component |
| `HttpSessions` | session manager and sessions | component |
| `Http_proofs` | | proofs about both |
| `AsyncServer` | io_context pool and servers | component |
| `Options` | command line options | component |
| `Calendar` | the calendar | component |
| `Programs` | `Application::run` of the three programs | composition of `Options` and `Calendar` |
| `Logging` | levels and output of the log | component |
| `Application_proofs` | | proofs about the servers, the log and the programs' options |
| `MCNetwork` | the modules from `HttpConnection` to here, one behaviour each | constants for TLC |
| `Filesystem` | operations and iterators of the file system | component |
| `Path` | paths and their iterator | component against a reference |
| `Lexer` | the lexer | component against a reference |
| `Lexer_proofs` | | proofs |
| `Texts` | queries, cookies, numeric casts | operators against references |
| `MCLibrary` | the modules from `Filesystem` to here, one behaviour each | constants for TLC |

### Broker

A connection (`Conns`) is an object that is accepted once; its peer uses the
client identifier `ClientOf[c]`.  Two connections with the same identifier are
a client that connects again, before or after its first connection is gone.

`link[c]` says where the read handler is: `new`, `reading` (waiting for a
packet), in the middle of a handler (`subscribing`, `publishing`, `sending`,
`resetting`), or `closed`.  A handler is one action where it touches nothing
another thread can see in between, and several where it does:

* `Connect` = `processPacket` + `doProcess(Connect)`, with `GetSession` or
  `SessionInUse` for the two outcomes of `SessionManager::getSession` (one
  critical section), and the reply queued in either case.
* `Subscribe` computes the new filters under the session's own mutex,
  `AddSubscriptions` is the call of the handler: the Processor that *created*
  the session, wherever that is by now.
* `Publish` matches the current tree; then for each session `ReadSender`,
  `LockSender` and `SendPublish` are the three parts of `currentSender`, a
  `weak_ptr::lock` without synchronisation: the control block is loaded, the
  block is locked, and the object pointer is loaded.  In between `setSender`
  may assign another connection, and the control block is freed when its
  connection is destroyed and no session refers to it any more (`BlockFreed`).
* `Disconnect` / `ResetSession` and `Destroy` / `Free` are the two halves of
  returning a session and forgetting it, in `doProcess(Disconnect)` and in the
  destructor.  A connection is destroyed when nobody refers to it
  (`Referenced`): not its read handler, not its write, no publisher.

Undefined behaviour is a choice: a null pointer that is followed ends in
`crashed`, which says what was followed; reading a destroyed Processor gives any
session, none, or a crash (`CrashOr`), and locking a control block that was
freed a null pointer, any connection that is alive, or a crash.
A `shared_ptr` copied while it is reset is null or not; both are covered by
the order of `AddSubscriptions` and `ResetSession`, because the manager keeps
all sessions alive.

`findDifference` runs `std::set_difference` on lists that need not be sorted.
Two filters are equivalent under `operator<` only if they are equal, so no
filter the session lacks is dropped, but filters it has may be kept: `res` in
`Subscribe` is any such set.

### SubscriptionTreeManager, AtomicTree

One action per lock, copy, edit, assignment and unlock.  The refinement maps
the abstract set to the current tree; the abstract commit is the assignment in
`setTree`.  `BeginSetTree` has both outcomes of `try_lock`; the first cannot
happen while writers hold the mutex, which is part of the invariant.

### SendQueue, PacketFifo

`AddSendPacket`, `SendPackages`, `DoSendPackages` are the three critical
sections of a send, `Written` and `WriteError` the completion handler.  The
abstract queue is the packet in flight followed by `_sendPackets`.

### ThreadPool

`NothingToDo` and `Wait` separate the evaluation of the predicate from the
wait; the mutex is held in between, but the destructor does not take it.

### SubscriptionTree

`Visit` is `match` and `doMatch` of one node, with the position as an explicit
argument and result, because the copies of the iterator share it; `Match`
gives the visits of all nodes, by the number of levels of the topic that are
still to go.  The reference is `Covers`, the meaning of a filter.

### Serializer, MQTTParser, MQTTStream

A packet is a record; strings and payloads are sequences of bytes.  `Serialize`
gives the bytes of a packet, `BufferSize` the size its buffer then has.

`Parse(b)` is one call of `MQTTParser::parse` from the loop in `handle_read`.
`status` and `hdr` are the state of `MQTTParser` and its fixed header parser;
`field`, `left`, `str` and `ident` are the state of the parser of the type at
hand.  All parsers of types are reset before they are used, so one copy of
these is enough, except for the packets they fill (`pkt`): a reset leaves them
as they are, but for the payload of a PUBLISH.  A byte has one of three outcomes:
`Reject` (an error; `handle_read` returns and nothing is read any more),
`More`, or `Consume` (`consumePacket` and the call of the processor, of which
only the order of the packets is kept here; `Broker` has the rest).
`Complete` is the test of the length at the end of a `parse`.

`Sort` follows libstdc++ for up to 16 elements, because `operator<` of
`TopicFilter` does not meet the requirements of `std::sort`.  Members that
the code does not initialize start with any value of `Garbage`.

In `MQTTStream` a peer sends packets through `Serializer` where it can
write them; it cannot write PINGREQ, and not a PUBLISH with a QoS level, which
are `PeerBytes`.  A byte may be read as another one, once (`ReadMalformed`).
The parser is fed byte by byte, so the cutting into reads does not matter.

`Delivered` says what arrives.  It has exceptions because the code has them:

* a QoS 0 PUBLISH without payload, and a CONNECT with a user name and no
  password or the reverse, are never complete (`Understood`);
* a will QoS level of 2 arrives as 0, because the bit is shifted out of a
  `uint8_t` (`SameConnect`);
* a SUBSCRIBE may also bring filters of earlier ones, a SUBACK starts with the
  levels of earlier ones (`SameAs`).

`BufferHoldsPacket` is restricted to remaining lengths of one byte: the
serializer makes its buffer two bytes longer than the content, which is too
short for the two to four length bytes of contents from 128 bytes on.  For a
SUBACK it forgets the packet identifier, which the 64 bytes the connection
starts with hide up to 60 levels.

PINGREQ, PINGRESP, DISCONNECT and CONNACK are complete whatever their
remaining length says; `FramedByLength` is about the other types.

### HttpConnection

The bytes of the peer are a sequence of *pieces*, a piece being what nodejs
http-parser reports in one callback: a text may come in several pieces, and a
read brings any number of them up to `BufSize`.  `OnPiece` is the callback of
`HttpParser::Impl` for a piece; it collects the text of the field at hand, and
`Flush` is the part of a callback that hands over the field before it.
`HandleRead` is the completion handler of a read with everything it calls: it
parses what arrived, answers each complete request with a header and a body
(two `async_write`s from one buffer), and starts the next read where nothing
was written.  `do_write` starts no write of length 0, so an empty page and a
bad request are answered by a header alone (`NoContent`).  `Write` and
`WriteDone` are the transfer and the handler of a write, which starts a read.

A field name may be cut as well as a value (`FieldPieces`).  A request may name
a header field twice; the table then has the last value (`LastOfName`).
`_request._header` is never cleared between requests: `ParsedAsSent` says that a
header is exactly the fields of its request and, for every name it does not
give, what the request before left (`SentOrLeft`).

Two answers at a time, and two reads on one buffer, are possible: `overwritten`
and `overlapped` remember that the one buffer was written while an operation on
it was outstanding.  The properties say what holds until then.  Operations do
pile up: an answer leaves up to two more outstanding than there were.
`KeepsListening` says that it is never more than these two, and that nothing
overtakes anything before the first answer.

### HttpSessions

`sessionForId` has its three outcomes; a handler keeps the reference it got
(`held`) until its request is done, while others look the same session up.
`HttpSession::value` inserts into an `unordered_map` without a lock, so it is two
actions, `BeginValue` and `EndValue`; what two handlers leave in the map of a
session both are in at once is any map (`Race`, `Outcome`).  `insert` does not
replace a value that is there (`Inserted`).  The
history variables remember which sessions were invalidated, when each was last
asked for and what was stored first under each key, so `HandedOutAlive` can
compare.  A reference
can dangle; `DanglingIsShared` says that it takes *another* handler with the
same id to get there.

### AsyncServer

`main` is `doRun`: it builds the signal set and the servers, runs the pool and
returns when all threads have ended.  `Accept`, `AcceptError`, `AcceptThrows`,
`ConnectionStep` and `ConnectionThrows` are the handlers; one that throws ends
the thread of its context (`Dies`), which `get` nevertheless goes on handing
out.  Properties about progress therefore except what died.  `PeerActs` is the
peer, which goes on when it likes: `ConnectionsServed` says that what it sends is
handled.  Nothing ends the wait for a peer that sends nothing.

### Options, Calendar, Programs

`Options` has the objects and their tables: groups are made, copied into the
list and into a vector that grows (`MakeGroup`, `PushBack`, `Constructed`), and
each destructor frees a table.  `ParseArgs` tries the groups in their order.
Which arguments a group accepts is argtable3 and external (`Matches`).
`Programs` is `Application::run`: options, `setUp` of the three programs from
their command lines and files, then `doRun` and `tearDown`.  A member that has
no initializer (`_showYear`) starts with any value.  For the calendar, `doRun`
is the printing, one line of weeks a step, and with the last line the list of
holidays (`listed`).  `SheetIsRight` says what comes out with the two mistakes
named, `ShowsTheMonth` and `ShowsItsHolidays` what the usage says.

### Logging

`EnterInit` and `doInitLogging` separate the call of `call_once` from the
entries it makes one by one; a statement decides once (`Decided`), and
`BeginLine` and `EndLine` are the two ends of a line under the mutex.

### Filesystem

One action is one system call and the code up to the next one; `job[t]` is the
activation of thread `t`, with a stack for `remove_all` and for the recursive
iterator.  The tree has directories, files and symbolic links; a directory may
refuse to be read.  `disturbed` remembers that another thread changed the tree
during a call: what a call promises alone, and what it promises in any case,
are different parts of the properties.  An entry's `status` swallows its
errors, as `directory_entry` does.  An exception that leaves the destructor of
`TemporaryDirectoryGuard` ends the program (`terminate`).  The user of a guard
stays where it is, enters the temporary directory, or a directory it makes
below it (`GuardUse`).  In the last case `remove_all` removes the current
directory, and the next `current_path()` throws: `GuardCleansUp` says that only
then, and only another guard, ends the program.

### Path, Lexer, Texts

A path is a sequence of characters, with the decompositions as operators and
the modifiers and the iterator as actions.  `SamePlace` is the reference: where
the operating system would go.  It holds with the exceptions the properties
name: a first name of one character is taken for the root by `parent_path` and
by `operator--`, and `//` is neither a root name nor a directory.

The lexer is checked against the positions one gets by counting newlines; the
column is kept in a type of `Width` values.  Columns are right unless a token
before spans lines and ends in the same line; `StartingColumns` is what the
header promises of all.
`Texts` compares a query with splitting before decoding, cookies with what is
read back, the attributes of a header with the text between two cookies, and
casts with the ranges of the types.  `QueryParameters` and `CookiesReadBack`
describe the code where it does not do what one would want: an encoded separator
separates, and the attributes of several cookies in one `Set-Cookie` all go to
the first.

### Properties that are conjunctions

A run checks one name for the parts of one promise:

| Property | Parts |
|---|---|
| `NoTaskLost` | `TakenInOrder`, `JoinedAfterAllTasks` |
| `MatchesSimpleTrees` | `ShortTopicsMatch`, `MatchWithoutPlus`, `MatchAlone` |
| `PacketsArrive` | `TypeOK`, `Delivered`, `BufferHoldsPacket` |
| `OperationsAreSound` | `AnswersInOrder`, `KeepsListening` |
| `ServersGoOn` | `AcceptGoesOn`, `Balanced` |
| `OptionsReachProgram` | `NoFreedTable`, `ReportsTheArguments`, `CommandLineWins` |
| `SheetIsRight` | `ColumnsLineUp`, `EasterIsRight`, `SheetAsAsked`, `HolidaysOfToday` |
| `LogIsRight` | `DecidedOnAllLevels`, `LinesWhole` |
| `RemovesAndCounts` | `CountIsRight`, `RemovesBelow` |
| `PartsMeanThePath` | `ElementsMeanThePath`, `ParentAndFilename`, `AbsoluteBelowBase`, `ExtensionReplaced` |
| `TokensAreRight` | `TokenPositions`, `TokensTile` |
| `ConversionsAreRight` | `QueryParameters`, `CookiesReadBack`, `AttributesStay`, `CastsAreExact` |

### Mutants

Next to a definition there are variants of it with a plausible mistake
(a missing guard, a forgotten reset, a wrong order).  They are used by no
specification: replacing the definition by the variant must make TLC find a
violation of the property `PROJECT.json` names with it.

## 3. The runs

| Run | Question | Bounds |
|---|---|---|
| `broker_shared` | who owns a session, who gets its packets, when a client connects again while another one is there | 3 connections, 2 identifiers, 1 filter, 1 topic |
| `broker_once` | are pointers valid, subscriptions in the tree and sessions given back in the end, if no client returns | 2 connections, 2 identifiers, 2 filters, 2 topics |
| `broker_handler` | is the handler of a session the processor that uses it (no) | 2 connections, 1 identifier |
| `mqtt` | does what is sent arrive, does a packet end where its length says, where is matching exact | all pairs out of 20 packets of all types, one of 4 wrong bytes at any place; 3 levels, 3 level names with the empty one, 2 filters, 2 sessions |
| `threads` | the send side: exclusion, order, the `_isSending` role, is everything written; the tree: atomicity of updates and reads, progress of writers; the pool: order, exactly once, every task runs | 3 senders, 3 packets of which one cannot be serialized, 4 sends; 3 threads, 2 entries, 1 call each; 2 workers, 2 callers, 3 tasks |
| `thread_pool_destroy` | does the destructor return (no) | 2 workers, 2 callers, 3 tasks |
| `tree_match_exact` | is matching exact everywhere (no) | 3 levels, 2 names |
| `network` | HTTP connection, HTTP sessions, servers, programs and log | 2 requests out of 6 in pieces, reads of up to 4 pieces; 2 handlers, 1 session id, 1 key, 2 values, 2 ticks with a timeout of 2; 2 servers, 2 contexts, 4 connections of which 2 have something to read at a time, 1 failed accept; the command lines and files of `MCNetwork`, 2 parses, 10 years; 2 threads, 3 statements, 3 configurations |
| `calendar_month`, `calendar_holidays` | does the calendar show the month, and the holidays of the year, it is asked for (no) | the calendar of `network` |
| `library` | file system, paths, lexer, conversions | 2 threads, 13 calls, 3 trees with links and a forbidden directory, 1 link deep; paths of up to 6 out of 3 characters; inputs of up to 5 out of 5 signs, columns modulo 4; queries of up to 5 characters and escapes out of 9, lists of one or two cookies out of 72 each, headers of up to 4 out of 7 parts, types of 3 to 5 bits |
| `columns` | is the column of a token the one it starts in (no) | the lexer of `library` |

The bounds are enough for the cases that matter: a session that is taken over
needs two connections, and a third one to observe it; a lost update needs two
writers and a reader; a lost wakeup of the send queue needs one sender in each
of its windows; the shared position shows with a topic of three levels and two
filters; what a parser keeps from the last packet of its type shows with
two packets.  In `network` two requests are what one read needs to start two
writes, two handlers what a dangling reference needs, and two contexts what a
dead one next to a living one needs; the years are the ends of the range, a leap
year, the latest Easter and the two exceptions of its computation.  In `library`
two threads are enough for every window between two system calls, and the trees
have a link out of the directory, a link back to it and a directory that
cannot be read.  The theorems below remove the bounds for safety.

Deadlock is not checked where the system may stop: peers need not send
anything, a crashed process does nothing, all bounded packets or tasks may
have been handled, and a program or a conversion ends.  That nobody is stuck
in `threads` is what its liveness properties say.

Fairness: io threads, workers and writers that can take a step do
(`WF` on the steps inside a handler); a write ends, successfully or not; a
task returns.  In `network` and `library` weak fairness of the io threads and
of the threads in a call is written with the state in which their steps are
enabled spelt out (`[]<>~Pending \/ []<><<Going>>_vars`, and `Busy` in
`library`), because their parts share a specification; in `threads` each part
asks for fairness of its own steps only.  Peers, callers of `enqueue` and the
decision to destroy a pool have no fairness, nor do spurious wakeups: a peer may
stop in the middle of a handshake or of a request.

### What the violations show

* `broker_handler`: the comment in `mqtt_processor.h` ("should always be the
  calling Session") does not hold after a reconnect: the session calls the
  Processor of the old connection, so the filter is stored under a null or a
  foreign session, or the Processor is already destroyed.
* `thread_pool_destroy`: `~Threadpool` can wait for ever, contrary to its
  comment, because `_stop` is set without the mutex.
* `tree_match_exact`: with three levels and a `+` next to a name, filters are
  missed or found wrongly, contrary to what the tests of the tree expect.
* `columns`: the column of a token is not where it starts, as `lexer.h` says,
  if a token before it spans lines and ends in the same line.
* `calendar_month`: `_showYear` is not initialized, so `-m` may print a year.
* `calendar_holidays`: with `-y` and `-h` the holidays are those of the current
  year.

The runs that pass also record, as parts of their properties, what the code does
otherwise than one might expect:

* the control block of a session's sender may be freed between the load and the
  lock in `currentSender`, also when every client connects once
  (`CrashOnlyInLock`);
* duplicate filters with different QoS levels in one SUBSCRIBE stay, because
  `operator<` is true both ways for some filters;
* the header of an HTTP request has the fields of earlier requests on the same
  connection that it does not name itself, and operations on a connection pile
  up by two an answer;
* `HttpSession::value` does not replace a value, and two handlers that use it at
  once leave anything in the map;
* `--doc-root-path` is ignored;
* a parent of a path with a one-letter first name is missing;
* `remove_all` follows links to directories;
* a temporary directory guard removes the current directory if that is below its
  own, and the next guard then ends the program;
* an encoded separator in a query separates, so the value it is in is cut off,
  and an escape that breaks off before a `&` swallows it (not in the property);
* a cookie that is read back is always `Secure`; one that is `HttpOnly` is
  refused, although the code writes it (left open in the property); of several
  in one header the first has the attributes of all.

## 4. The proofs

All proofs are for arbitrary constants under the named assumptions of the
modules: `BrokerAssumption`, `TreeAssumption`, `SendAssumption`,
`PoolAssumption`, `SubscriptionTreeAssumption`, `ServerAssumption`,
`SessionAssumption`, `LoggingAssumption`, `LexerAssumption`,
`HttpAssumption`, `OptionsAssumption` and `ProgramsAssumption`.  They give the
constants their types and keep special values apart from ordinary ones.  Three
say more.  `HttpAssumption`: the tokenizer reports a URL and the value of a
field at least once each.  `OptionsAssumption`: no two options of one group
have a name in common, and no option object is in a group twice; this is so in
every program of the repository, and in a group where it were not, only the
first option of a name could be found.  `ProgramsAssumption`: the options of
`http_server` are the ones its source declares.  One hypothesis is about the environment and not about a
type, `OneConnectionPerClient` below.

* `Broker_proofs`: `TypeOK`, `SessionOwned`, `ConnectedHasSession` and
  `PublishToOwner` are invariants.  `SessionOwned` alone is not inductive: one
  has to know that a processor's session is the one its peer asked for, that a
  processor without status has none, that a session in use is in the table and
  that the destructor has not run while the object is referenced
  (`Bookkeeping`).  The proof has one step per action.

  `CrashOnlyInLock` and `SubscribedInTree` hold if no two connections use the
  same client identifier (`OneConnectionPerClient`), which is what `broker_once`
  checks; `broker_handler` shows that this is needed: both go wrong when a
  client connects again, because a session calls the processor that created it
  for ever, and its sender is assigned while a publisher reads it.  What is left
  with one connection a client is the control block in `weak_ptr::lock`.  Without a
  second connection the processor that created a session is the one that uses
  it, and the sender a publisher has locked is the connection of the client it
  serves (`OnceKnown`, `OnceInv`).
* `SubscriptionTreeManager_proofs`: the writer that is between `lock` and
  `unlock` owns `_writeMutex`, so at most one thread is; its copy contains the
  tree and what it has added so far, so the installed tree is the old one
  with the whole request.  From this follow `NoRaceOnTree` and the refinement
  of `AtomicTree`.
* `SendQueue_proofs`: at most one actor has the sending role, and it is free
  exactly if `_isSending` is false; from this `OneWriter`, `RoleIsTaken` and
  the refinement of `PacketFifo`.
* `MQTT_proofs`, `FramedByLength`: it holds for any bytes.  The invariant is
  that what was read and what is left of a body are its length, as long as
  there was no error (`Framing`; the byte that is refused is counted, too);
  every parser of a type either leaves the frame alone or ends it at its last
  byte (`BodyStep`), and the header byte that starts a frame sets it up.
* `MQTT_proofs`, `MatchesSimpleTrees`: by induction over the levels that are to
  go.  A filter that covers the topic is found if at each of its `+` the
  position is still where the siblings started (`OnTime`, `FoundAll`): that is
  so if nothing next to the `+` can be descended into (`Undisturbed`), and for
  topics of at most two levels always, because a visit of the last level does
  not move the position.  That nothing else is found (`ExactCovers`,
  `ShortCovers`) takes a tree without `+` or such a short topic;
  `tree_match_exact` shows that this is needed.
* `MQTT_proofs`, `NoDuplicates`: comparing strings is a strict total order
  (`LexIsStrict`, `LexIsTransitive`, `LexIsTotal`), so on filters of one QoS
  level so is `operator<` (`LessIs`).  The insertions of `Sort` then keep the
  list in order and lose nothing (`InsertOrdered`, `InsertSame`, `SortSorts`),
  and `Unique` leaves a strictly increasing list (`UniqueIsStrict`, `NoneTwice`).
  That the packets handed over are such lists is the invariant `ListInv`, with
  one lemma per type of packet; it holds for any bytes, and with what an earlier
  SUBSCRIBE left in the list.  `Sort` is the insertion sort that libstdc++ uses
  up to 16 elements; the theorem does not bound the length.
* `ThreadPool_proofs`: `NoTaskLost`.  The tasks taken and those in the queue
  are numbered through, and what was taken has returned or is being run; a
  worker ends only with the mutex free, `_stop` set and the queue empty, so no
  caller is between its test of `_stop` and its push, and none can come there
  any more (`Ending`).  It takes a pool with at least one worker.
* `Http_proofs`, sessions: `DanglingIsShared` and `HandedOutAlive`.  A session
  in the table has the time stamp, the validity and, unless two handlers were in
  it at once, the values of its history;
  an id that is gone was erased by a lookup, and the handler that did so holds
  the static invalid session or another one from then on.
* `Http_proofs`, `OperationsAreSound`: until a write is overtaken there is at
  most one, and the buffer holds what it writes (`BufferIsWrite`), so what is on
  the wire and what is being written are the answers in order, each header
  before its body (`InOrder`).  `KeepsListening` is inductive with the types,
  because a complete request in the parser means that there is one to answer
  (`GoodParser`).
* `Http_proofs`, `ParsedAsSent`: lay the pieces of all requests sent out end to
  end (`SentAs`; `Layout` for one request).  Until a read overtakes the handler
  of another, the parser is at one place in them: between two requests, or
  after so many pieces of the next one with just those parts of it collected
  and stored (`Where`, `Progress`), and the buffer and what is on its way are
  the rest (`StillToCome`).  The table of fields is what the fields named so far
  make of what the request before left (`Stored`).  There is a lemma for every
  kind of piece (`UrlStep` to `BodyStep`), `RequestStep` puts them together, and
  a read of any length follows by induction over its pieces (`ParseRead`).  A
  request whose version is not understood ends with its header, so its body is
  left over; it is the one place where the parser is not at the border of a
  request.
* `Application_proofs`, `ServersGoOn`: a server that was made is accepting, or
  the thread of its acceptor is dead (`Goes`).  `Balanced` counts the contexts
  that were handed out for sockets (`Handed`).  From the first connection on
  they are handed out in turn, so each context came up equally often but for
  one (`Turns`).  A context has more connections than that by the servers that
  began with a socket on it, and less by those whose next socket is on it
  (`Having`), at most one each per server.  That alone gives a difference of two
  per server and one more.  But the turns begin behind a context some server
  began with and end with one a server keeps, so not all of these can come
  together (`TurnsAreEven`), and the bound is `2 * Cardinality(Servers) - 1`.
* `Application_proofs`: `LogIsRight`.  A level that is set is the one of the
  first configuration that names its class (`First`); a statement is past its
  initialisation only if all are set (`Phases`, `Entered`), and whoever writes
  has the mutex (`Writing`).
* `Application_proofs`: `OptionsReachProgram`, for any programs, option groups,
  command lines, files and number of parses.  `NoFreedTable` is not inductive:
  when the list's tables are freed, or those the vector leaves behind, one has
  to know where each option object points.  It points to the table of a group
  in the vector as soon as one of its groups is there, and into the list only
  before (`PointsTo`); the tables of both are alive and different (`Alive`).
  Growing copies all groups at once; that fold is taken one copy at a time
  (`CopiesAre`, `CopyStep`, `CopiesMade`).  `Answered` says that the table of
  the active group holds what the latest arguments give.  From these follow
  that an object of one group alone has the values given for it
  (`ValuesAreGiven`) and is found by name and by index (`FoundByName`,
  `FoundByIndex`); for `http_server`, that `setUp` goes on only with the second
  group (`NoHelp`) and overrides the file with what was given (`SetUpWins`).
* `Lexer_proofs`: `TokensAreRight`.  Line and start of line count the newlines
  behind the position (`Counters`), the tokens and the blanks between them tile
  what was read (`Tiling`); the columns count from the last token that spans
  lines (`ColumnBase`), which needs a lemma on how that changes with each token,
  and where there is none in the line from the start of it
  (`PositionsAreRight`).

The library's induction theorems take an operator and cannot be used here.
Where a proof needs induction it takes the least natural number that fails
(`LeastNat`, from `WFMin` and `NatLessThanWellFounded`); that a recursive
function in a `LET` exists and satisfies its equation is proved the same way
(`FlattenIs`, `ParseIs`, `MatchIs`), and so is that a fold over a sequence has
a value at every position (`FoldExists`).

Only model-checked:

* the liveness properties: the prover has no fairness;
* the properties of `Filesystem`: the module has recursive operators, which the
  prover cannot work with;
* `PacketsArrive`: it compares what a parser has collected with what the
  serializer wrote, for all packet types byte by byte; the framing, which it
  rests on, is proved;
* `SheetIsRight`, `PartsMeanThePath` and `ConversionsAreRight`: computations
  compared with a reference over all inputs of a bounded set.

## 5. Not modelled, and the plan

Next, in this order:

1. `std::set_difference` with the `operator<` of filters, in place of its
   guarantee in `Broker`;
2. the remaining file system calls (`canonical`, copying attributes), as far
   as they take more than one system call.

Left out for good: value types, formatting, enumerations and their names, the
vendored JSON library, usage texts, MIME types, syslog, the console (an input
and output loop around linenoise), globbing and the URL parser (one library call
each), and file system calls that are a single system call and are used by
nothing else here.  argtable3, linenoise, asio and nodejs http-parser are not
in the repository; what the code relies on is modelled where it is used, and
marked external in `PROJECT.json`.  The response side of the HTTP parser is
used by no program of the repository.
