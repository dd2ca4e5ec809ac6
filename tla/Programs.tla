------------------------------ MODULE Programs ------------------------------
(***************************************************************************)
(* Application::run and the setUp of the programs built on it: the options *)
(* they declare, and what http_server and mqtt_broker take from their      *)
(* configuration files and from the command line.  Texts are numbers.      *)
(***************************************************************************)
EXTENDS Options, Calendar

CONSTANTS Files,     \* the configuration files there may be
          Hardware   \* what hardware_concurrency may report

VARIABLES
  stage,   \* "start", "running", "ended"
  ret,     \* what run returns; -1 unless doRun came to its end
  torn,    \* tearDown was called
  files,   \* path -> file; the path 0 is next to the program
  config   \* the members setUp assigns

programVars == <<optionsVars, calendarVars, stage, ret, torn, files, config>>

HttpServerOptions ==
  <<<<LiteralOption("", "help", 1, 1)>>,
    <<TypedOption("p", "port", 0, 1), TypedOption("s", "secure-port", 0, 1),
      TypedOption("h", "host", 0, 1), TypedOption("d", "doc-root-path", 0, 1),
      TypedOption("", "ca-path", 0, 1), TypedOption("", "cert-path", 0, 1),
      TypedOption("c", "config-path", 0, 1), TypedOption("n", "threads", 0, 1)>>>>

ASSUME ProgramsAssumption ==
  /\ "http_server" \in DOMAIN Declared => Declared["http_server"] = HttpServerOptions
  /\ Hardware \subseteq Nat

CalendarOptions ==
  <<<<LiteralOption("", "help", 1, 1)>>,
    <<TypedOption("y", "year", 0, 1), LiteralOption("j", "", 0, 1),
      LiteralOption("h", "holidays", 0, 1)>>,
    <<TypedOption("m", "month", 0, 1), LiteralOption("h", "holidays", 0, 1)>>>>

uint16(n) == n % 65536

(***************************************************************************)
(* A configuration file is missing, cannot be opened, is no JSON, or has   *)
(* sections, each giving some of its keys a value.                         *)
(***************************************************************************)
IsJson(file) == file.state = "json"

From(file, section, key, default) ==
  IF key \in DOMAIN file.sections[section] THEN file.sections[section][key] ELSE default

(* The members' initializers, then the sections of the file: a section     *)
(* that is there sets all of its members, to defaults where it is silent.  *)
HttpDefaults ==
  [port |-> 8080, host |-> 127, securePort |-> 8443, secureHost |-> 127,
   ca |-> 0, key |-> 1, cert |-> 2, docroot |-> 0, threads |-> 1]

HttpFromFile(file) ==
  LET there == DOMAIN file.sections
      H(key, default) == From(file, "http", key, default)
      S(key, default) == From(file, "https", key, default)
  IN [HttpDefaults EXCEPT
        !.docroot = From(file, "top", "docroot-path", 10),
        !.host = IF "http" \in there THEN H("host", 127) ELSE @,
        !.port = IF "http" \in there THEN uint16(H("port", 8080)) ELSE @,
        !.secureHost = IF "https" \in there THEN S("host", 127) ELSE @,
        !.securePort = IF "https" \in there THEN uint16(S("port", 8443)) ELSE @,
        !.ca = IF "https" \in there THEN S("ca-file-path", 11) ELSE @,
        !.key = IF "https" \in there THEN S("key-file-path", 1) ELSE @,
        !.cert = IF "https" \in there THEN S("ca-cert-file-path", 2) ELSE @]

(* The options are asked for by the names that setUp uses: two of them are *)
(* not the names of any option that is declared.                           *)
Override(name, old) == IF Count(name) > 0 THEN ValueOf(name) ELSE old

HttpFromOptions(c, hardware) ==
  [c EXCEPT
     !.port = uint16(Override("port", @)),
     !.host = Override("host", @),
     !.secureHost = Override("host", @),
     !.docroot = Override("docroot-path", @),
     !.securePort = uint16(Override("secure-port", @)),
     !.ca = Override("ca-path", @),
     !.key = Override("key-path", @),
     !.cert = Override("cert-path", @),
     !.threads = LET n == Override("threads", hardware) IN IF n = 0 THEN 1 ELSE n]

HelpOrNoMatch == active # 0 => Count("help") > 0

ConfigFile == files[Override("config-path", 0)]

(* The outcome of run so far: setUp returned, threw, or said no.           *)
Proceeds(c) == stage' = "running" /\ config' = c /\ UNCHANGED <<ret, torn>>

GivesUp == stage' = "ended" /\ UNCHANGED <<config, ret, torn>>

HttpSetUp ==
  /\ program = "http_server" /\ stage = "start" /\ parses = 1
  /\ \/ HelpOrNoMatch /\ GivesUp
     \/ ~HelpOrNoMatch /\ ~IsJson(ConfigFile) /\ GivesUp
     \/ /\ ~HelpOrNoMatch /\ IsJson(ConfigFile)
        /\ \E hardware \in Hardware : Proceeds(HttpFromOptions(HttpFromFile(ConfigFile), hardware))
  /\ UNCHANGED <<optionsVars, calendarVars, files>>

(***************************************************************************)
(* The broker has no options: without a file it takes all the defaults,    *)
(* with a file a port stays 0 when its section is not there.               *)
(***************************************************************************)
BrokerFromFile(file) ==
  [port |-> IF "mqtt" \in DOMAIN file.sections THEN uint16(From(file, "mqtt", "port", 1883)) ELSE 0,
   securePort |-> IF "secure-mqtt" \in DOMAIN file.sections
                    THEN uint16(From(file, "secure-mqtt", "port", 8883)) ELSE 0]

BrokerSetUp ==
  /\ program = "mqtt_broker" /\ stage = "start"
  /\ \/ files[0].state = "missing" /\ Proceeds([port |-> 1883, securePort |-> 8883])
     \/ files[0].state \in {"closed", "malformed"} /\ GivesUp
     \/ IsJson(files[0]) /\ Proceeds(BrokerFromFile(files[0]))
  /\ UNCHANGED <<optionsVars, calendarVars, files>>

(* Calendar::setUp.  _showYear has no initializer.                         *)
CalendarSetUp ==
  /\ program = "calendar" /\ stage = "start" /\ parses = 1
  /\ \/ HelpOrNoMatch /\ GivesUp /\ UNCHANGED cal
     \/ /\ ~HelpOrNoMatch
        /\ Proceeds(config)
        /\ \E uninitialised \in BOOLEAN :
             cal' = [showYear |-> uninitialised \/ Count("j") > 0 \/ Count("year") > 0,
                     year |-> Override("year", cal.year),
                     month |-> IF Count("month") > 0 THEN ValueOf("month")
                               ELSE IF Count("year") > 0 THEN 1 ELSE cal.month,
                     showHolidays |-> Count("holidays") > 0]
  /\ UNCHANGED <<optionsVars, files, cursor, sheet, first, listed>>

(***************************************************************************)
(* The rest of run: doRun ends or throws, and tearDown follows.            *)
(***************************************************************************)
Ends(code) == stage' = "ended" /\ ret' = code /\ torn' = TRUE /\ UNCHANGED <<files, config>>

(* Servers may fail to start: a certificate, an address.  The broker also  *)
(* throws when no server is configured.                                    *)
NoServer == program = "mqtt_broker" /\ config.port = 0 /\ config.securePort = 0

ServeAndEnd ==
  /\ stage = "running" /\ program \in {"http_server", "mqtt_broker"}
  /\ \E code \in IF NoServer THEN {-1} ELSE {0, -1} : Ends(code)
  /\ UNCHANGED <<optionsVars, calendarVars>>

PrintAndEnd ==
  /\ stage = "running" /\ program = "calendar"
  /\ UNCHANGED optionsVars
  /\ \/ sheet = <<>> /\ Begin /\ UNCHANGED <<stage, ret, torn, files, config>>
     \/ sheet # <<>> /\ Line /\ UNCHANGED <<stage, ret, torn, files, config>>
     \/ sheet # <<>> /\ first = 0 /\ Ends(0) /\ UNCHANGED calendarVars

ProgramsInit ==
  /\ OptionsInit
  /\ stage = "start" /\ ret = -1 /\ torn = FALSE
  /\ files \in Files[program]
  /\ config = HttpDefaults
  /\ cal = [showYear |-> FALSE, year |-> Today.year, month |-> Today.month, showHolidays |-> FALSE]
  /\ cursor = <<>> /\ sheet = <<>> /\ first = 0 /\ listed = {}

OptionsStep ==
  /\ stage = "start" /\ program # "mqtt_broker"
  /\ program # "library" => parses = 0
  /\ OptionsNext
  /\ UNCHANGED <<calendarVars, stage, ret, torn, files, config>>

ProgramsNext ==
  \/ OptionsStep
  \/ HttpSetUp
  \/ BrokerSetUp
  \/ CalendarSetUp
  \/ ServeAndEnd
  \/ PrintAndEnd

ProgramsSpec == ProgramsInit /\ [][ProgramsNext]_programVars

(***************************************************************************)
(* Properties                                                              *)
(***************************************************************************)

(* What an option on the command line of http_server is for.  The value of *)
(* --doc-root-path is in no list: setUp asks for another name.             *)
MemberOf == [port |-> {"p", "port"}, securePort |-> {"s", "secure-port"}, host |-> {"h", "host"},
             secureHost |-> {"h", "host"}, ca |-> {"ca-path"}, cert |-> {"cert-path"}]

(* A value given on the command line is the one the server starts with,    *)
(* whatever the file says and whichever name of the option was used, ports *)
(* modulo 2^16; and there is a thread to run on (main.cpp:177-206).        *)
CommandLineWins ==
  program = "http_server" /\ stage = "running" =>
    /\ \A member \in DOMAIN MemberOf : \A i \in 2..Len(argv) :
         argv[i].name \in MemberOf[member] =>
           config[member] = IF member \in {"port", "securePort"} THEN argv[i].value % 65536
                            ELSE argv[i].value
    /\ config.threads > 0

(* From the command line to the member of the configuration: the option    *)
(* objects are alive, report what was given, and win over the file.        *)
OptionsReachProgram == NoFreedTable /\ ReportsTheArguments /\ CommandLineWins

Printed == program = "calendar" /\ stage = "ended" /\ torn

YearAsked == Count("j") > 0 \/ Count("year") > 0

MonthAsked == IF Count("month") > 0 THEN ValueOf("month") ELSE Today.month

(* The sheet is the one the command line asks for, with or without the     *)
(* holidays, except that a month may come as the whole of its year, for    *)
(* _showYear is not initialized (main.cpp:94-105, 313).                    *)
SheetAsAsked ==
  Printed =>
    /\ \/ Shows(1..12)
       \/ ~YearAsked /\ Shows({MonthAsked})
    /\ cal.year = Override("year", Today.year)
    /\ cal.showHolidays <=> Count("holidays") > 0

(* What the program prints in the end, line for line and day for day: the  *)
(* columns, the months, the holidays and Easter, the loop over three months *)
(* not stopping while one of them has weeks left (calendar/main.cpp and    *)
(* date_helper.h:123-134).                                                 *)
SheetIsRight ==
  /\ ColumnsLineUp /\ EasterIsRight /\ SheetAsAsked
  /\ Printed => HolidaysOfToday

(* "show the specified month [1..12]" (main.cpp:73).                       *)
ShowsTheMonth == Printed /\ Count("month") > 0 => Shows({ValueOf("month")})

(* "show the complete year" and "show the holidays", which may be given    *)
(* together: the holidays are those of the year shown (main.cpp:66-68).    *)
ShowsItsHolidays ==
  Printed /\ Count("holidays") > 0 => listed = HolidaysOf(cal.year, MonthsShown)
=============================================================================
