------------------------------ MODULE MCNetwork ------------------------------
(***************************************************************************)
(* The servers and programs, in parts that do not share state, checked     *)
(* side by side: a behaviour is one of a connection, of the session        *)
(* manager, of the pool with its servers, of a program that is set up and  *)
(* run, or of threads that log.                                            *)
(***************************************************************************)
EXTENDS HttpConnection, HttpSessions, AsyncServer, Programs, Logging, TLC

VARIABLE part

networkVars == <<part, httpVars, sessionVars, serverVars, programVars, loggingVars>>

Request(m, u, h, v, b) == [method |-> m, url |-> u, header |-> h, version |-> v, body |-> b]
Field(f, v) == [field |-> f, value |-> v]

(* Texts in one and in two parts, a field that comes again with another    *)
(* value, in one request and in the next, fields one request names and     *)
(* the next does not, a method that is guessed wrong and one that is       *)
(* refused, a URL that is no URL, an empty page, a version that is not     *)
(* known, with and without a body.                                         *)
SomeRequests ==
  {Request("GET", <<"x", "y">>, <<Field(<<"f", "g">>, <<"1">>)>>, "HTTP/1.1", FALSE),
   Request("PUT", <<"empty">>, <<Field(<<"f">>, <<"2", "1">>), Field(<<"f">>, <<"2">>)>>, "HTTP/1.0", FALSE),
   Request("GET", <<"bad">>, <<>>, "HTTP/1.1", FALSE),
   Request("POST", <<"missing">>, <<Field(<<"f", "g">>, <<"2">>)>>, "HTTP/1.1", TRUE),
   Request("POST", <<"x">>, <<>>, "HTTP/2.0", TRUE),
   Request("DELETE", <<"x">>, <<>>, "HTTP/1.1", FALSE)}

SomeTexts == {"", "GET", "PUT", "POST", "DELETE", "x", "y", "bad", "missing", "empty",
              "f", "g", "1", "2", "HTTP/1.0", "HTTP/1.1", "HTTP/2.0"}

Arg(n, v) == [name |-> n, value |-> v]
Flag(n) == Arg(n, None)
Argv0 == Arg("", 0)

(* Groups that share an option object, and untagged options.               *)
LibraryOptions ==
  <<<<LiteralOption("v", "verbose", 0, 2), TypedOption("a", "", 1, 1)>>,
    <<LiteralOption("v", "verbose", 0, 2) @@ [same |-> <<1, 1>>],
      TypedOption("", "", 1, 1), TypedOption("", "", 0, 2)>>,
    <<TypedOption("b", "bb", 1, 2), LiteralOption("v", "", 0, 1)>>>>

SomeDeclared ==
  [http_server |-> HttpServerOptions, calendar |-> CalendarOptions,
   library |-> LibraryOptions, mqtt_broker |-> <<>>]

(* The ends of the range of years, a leap year, one with the latest Easter *)
(* and those with the exceptions of the computation.                       *)
SomeYears == {1900, 1943, 1954, 1981, 2000, 2049, 2099}

SomeCommandLines ==
  LET ArgsOf(given) == <<Argv0>> \o given IN
  [http_server |->
     {<<>>, ArgsOf(<<>>), ArgsOf(<<Flag("help")>>), ArgsOf(<<Flag("help"), Arg("port", 1)>>),
      ArgsOf(<<Arg("p", 65617), Arg("config-path", 1)>>), ArgsOf(<<Arg("p", 81), Arg("port", 82)>>),
      ArgsOf(<<Arg("host", 7), Arg("cert-path", 8), Arg("ca-path", 9)>>), ArgsOf(<<Arg("key-path", 3)>>),
      ArgsOf(<<Arg("c", 1), Arg("secure-port", 444), Arg("d", 5), Arg("threads", 0)>>)},
   calendar |->
     {ArgsOf(<<Flag("help")>>), ArgsOf(<<>>), ArgsOf(<<Flag("h")>>), ArgsOf(<<Flag("j"), Flag("holidays")>>),
      ArgsOf(<<Arg("y", 1999), Arg("m", 2)>>)}
     \cup {ArgsOf(<<Arg("m", m), Flag("h")>>) : m \in {1, 2, 4, 12}}
     \cup {ArgsOf(<<Arg("year", y), Flag("h")>>) : y \in SomeYears},
   library |->
     {<<>>, ArgsOf(<<>>), ArgsOf(<<Arg("a", 1), Flag("v"), Flag("verbose")>>), ArgsOf(<<Arg("a", None)>>),
      ArgsOf(<<Arg("", 1), Arg("", 2), Arg("", 3)>>), ArgsOf(<<Arg("", 1), Arg("", 2), Arg("", 3), Arg("", 4)>>),
      ArgsOf(<<Arg("b", 1), Arg("bb", 2), Flag("v")>>), ArgsOf(<<Flag("v"), Flag("v"), Arg("b", 2)>>)},
   mqtt_broker |-> {}]

FileOf(state, sections) == [state |-> state, sections |-> sections]
Json(sections) == FileOf("json", sections)
Missing == FileOf("missing", <<>>)
Closed == FileOf("closed", <<>>)
Malformed == FileOf("malformed", <<>>)

SomeFiles ==
  [http_server |->
     {(0 :> a) @@ (1 :> b) :
        a \in {Missing, Closed, Malformed, Json([top |-> <<>>, http |-> [port |-> 65546, host |-> 5]])},
        b \in {Missing, Json([top |-> <<>>, https |-> [port |-> 443, host |-> 6]])}},
   mqtt_broker |->
     {0 :> f : f \in {Missing, Closed, Malformed, Json(<<>>), Json([mqtt |-> <<>>]),
                      Json([mqtt |-> [port |-> 0]]), Json("secure-mqtt" :> [port |-> 1])}},
   calendar |-> {0 :> Missing},
   library |-> {0 :> Missing}]

SomeToday == [year |-> 2024, month |-> 2]

SomeStatements ==
  [s1 |-> [class |-> "A", level |-> 2], s2 |-> [class |-> "B", level |-> 1],
   s3 |-> [class |-> "A", level |-> 0]]

SomeLevels == {[A |-> 2, B |-> 0], [B |-> 1], [A |-> 1, B |-> 1]}

Init ==
  /\ part \in {"connection", "sessions", "servers", "programs", "logging"}
  /\ HttpInit /\ SessionsInit /\ ServerInit /\ ProgramsInit /\ LoggingInit
  /\ part # "connection" => parser.request.version = "HTTP/1.1"
  /\ part # "programs" => program = "library"

Next ==
  /\ UNCHANGED part
  /\ \/ /\ part = "connection" /\ HttpNext
        /\ UNCHANGED <<sessionVars, serverVars, programVars, loggingVars>>
     \/ /\ part = "sessions" /\ SessionsNext
        /\ UNCHANGED <<httpVars, serverVars, programVars, loggingVars>>
     \/ /\ part = "servers" /\ ServerNext
        /\ UNCHANGED <<httpVars, sessionVars, programVars, loggingVars>>
     \/ /\ part = "programs" /\ ProgramsNext
        /\ UNCHANGED <<httpVars, sessionVars, serverVars, loggingVars>>
     \/ /\ part = "logging" /\ LoggingNext
        /\ UNCHANGED <<httpVars, sessionVars, serverVars, programVars>>

(* The calendar alone. *)
CalendarSpec ==
  /\ part = "programs" /\ program = "calendar" /\ Init
  /\ [][Next]_networkVars

(* Weak fairness of the threads that run handlers, with the state in which *)
(* their steps are enabled spelt out.                                      *)
Pending ==
  \/ SomethingToDo
  \/ part = "servers" /\ ENABLED <<ServerStep>>_serverVars

Going == HttpStep \/ ServerStep

Spec ==
  /\ Init /\ [][Next]_networkVars
  /\ []<>~Pending \/ []<><<Going>>_networkVars
=============================================================================
