------------------------------- MODULE Logging -------------------------------
(***************************************************************************)
(* Logging: the levels are set once, by the first caller of init, and each *)
(* log statement asks for the level of its class once, when it is executed *)
(* first.  Threads initialise before they log, as the programs' setUp does.*)
(***************************************************************************)
EXTENDS Naturals, Sequences, FiniteSets, SequencesExt

CONSTANTS Loggers,     \* threads
          Levels,      \* the configurations: functions from classes to levels
          Statements,  \* statement -> [class, level]
          Nobody,
          MaxLines,    \* bound on the lines written
          MaxForced    \* bound on the forced initialisations

(* Where a thread is: at a statement it is to log, or at one of these.     *)
Places == {"start", "init", "ready", "writing"}

ASSUME LoggingAssumption ==
  Nobody \notin Loggers /\ DOMAIN Statements \cap Places = {}

VARIABLES
  classLevel,  \* _classLevel
  once,        \* _initFlag: "new", "running", "done"
  applied,     \* the configurations init has begun to apply, oldest first
  test,        \* statement -> XX_test__; the statements whose flag is set
  at,          \* thread -> where it is
  todo,        \* thread -> the classes doInitLogging has still to enter
  mutex,       \* s_mutex
  out          \* what was written: the begin and the end of a line

loggingVars == <<classLevel, once, applied, test, at, todo, mutex, out>>

LoggingInit ==
  /\ classLevel = <<>> /\ once = "new" /\ applied = <<>> /\ test = <<>>
  /\ at = [t \in Loggers |-> "start"]
  /\ todo = [t \in Loggers |-> {}]
  /\ mutex = Nobody /\ out = <<>>

(* Logging::level: 0 for a class without an entry.                         *)
level(class) == IF class \in DOMAIN classLevel THEN classLevel[class] ELSE 0

(* map::emplace: an entry that is there stays.                             *)
Emplace(map, class, n) ==
  [c \in DOMAIN map \cup {class} |-> IF c \in DOMAIN map THEN map[c] ELSE n]

(***************************************************************************)
(* init: call_once runs doInitLogging in the first caller, and every other *)
(* caller waits until it has returned.                                     *)
(***************************************************************************)
OthersMayPass_early == once # "new"   \* callers do not wait for the first one

OthersMayPass == once = "done"

EnterInit(t) ==
  /\ at[t] = "start"
  /\ \/ /\ once = "new"
        /\ \E c \in Levels :
             /\ applied' = Append(applied, c)
             /\ todo' = [todo EXCEPT ![t] = DOMAIN c]
        /\ once' = "running"
        /\ at' = [at EXCEPT ![t] = "init"]
     \/ /\ OthersMayPass
        /\ at' = [at EXCEPT ![t] = "ready"]
        /\ UNCHANGED <<applied, todo, once>>
  /\ UNCHANGED <<classLevel, test, mutex, out>>

(* doInitLogging: the loop over the levels, then the flag is set.          *)
doInitLogging(t) ==
  /\ at[t] = "init"
  /\ \/ \E c \in todo[t] :
          /\ classLevel' = Emplace(classLevel, c, Last(applied)[c])
          /\ todo' = [todo EXCEPT ![t] = @ \ {c}]
          /\ UNCHANGED <<once, at>>
     \/ /\ todo[t] = {}
        /\ once' = "done"
        /\ at' = [at EXCEPT ![t] = "ready"]
        /\ UNCHANGED <<classLevel, todo>>
  /\ UNCHANGED <<applied, test, mutex, out>>

(* init with force, which the header warns not to use beside other threads *)
(* (logging.h:85-86): the others have not started.                         *)
ForceInit(t) ==
  /\ at[t] \in {"start", "ready"} /\ once # "running"
  /\ \A u \in Loggers \ {t} : at[u] = "start"
  /\ Len(applied) < MaxForced
  /\ \E c \in Levels :
       /\ classLevel' = [k \in DOMAIN classLevel \cup DOMAIN c |->
                           Emplace(classLevel, k, IF k \in DOMAIN c THEN c[k] ELSE 0)[k]]
       /\ applied' = Append(applied, c)
  /\ once' = "done"
  /\ at' = [at EXCEPT ![t] = "ready"]
  /\ UNCHANGED <<test, todo, mutex, out>>

(***************************************************************************)
(* ACATL_CLASSLOG and ACATL_DEBUGLOG: the first execution of a statement   *)
(* decides whether it logs, under its own once_flag.                       *)
(***************************************************************************)
Decided(s) ==
  IF s \in DOMAIN test THEN test
  ELSE [r \in DOMAIN test \cup {s} |->
          IF r = s THEN level(Statements[s].class) >= Statements[s].level ELSE test[r]]

Statement(t, s) ==
  /\ at[t] = "ready" /\ Len(out) < 2 * MaxLines
  /\ test' = Decided(s)
  /\ at' = [at EXCEPT ![t] = IF Decided(s)[s] THEN s ELSE "ready"]
  /\ UNCHANGED <<classLevel, once, applied, todo, mutex, out>>

(* log: the line is composed on the thread's own stream and written under  *)
(* the mutex.                                                              *)
BeginLine(t) ==
  /\ at[t] \in DOMAIN Statements
  /\ mutex = Nobody
  /\ mutex' = t
  /\ out' = Append(out, <<t, at[t], "begin">>)
  /\ at' = [at EXCEPT ![t] = "writing"]
  /\ UNCHANGED <<classLevel, once, applied, test, todo>>

EndLine(t) ==
  /\ at[t] = "writing"
  /\ LET mine == {i \in DOMAIN out : out[i][1] = t}
         begun == CHOOSE i \in mine : \A j \in mine : j <= i
     IN out' = Append(out, <<t, out[begun][2], "end">>)
  /\ mutex' = Nobody
  /\ at' = [at EXCEPT ![t] = "ready"]
  /\ UNCHANGED <<classLevel, once, applied, test, todo>>

LoggingNext ==
  \E t \in Loggers :
    \/ EnterInit(t)
    \/ doInitLogging(t)
    \/ ForceInit(t)
    \/ \E s \in DOMAIN Statements : Statement(t, s)
    \/ BeginLine(t)
    \/ EndLine(t)

LoggingSpec == LoggingInit /\ [][LoggingNext]_loggingVars

(***************************************************************************)
(* Properties                                                              *)
(***************************************************************************)

(* The level a class has after some configurations: what the first of them *)
(* that names it says.                                                     *)
ConfiguredLevel(configs, class) ==
  LET naming == {i \in DOMAIN configs : class \in DOMAIN configs[i]}
      first == CHOOSE i \in naming : \A j \in naming : i <= j
  IN IF naming = {} THEN 0 ELSE configs[first][class]

(* No statement is decided, for good, on levels that are only partly       *)
(* entered: by the time any thread logs, the first initialisation has run  *)
(* to its end, whichever thread runs it.  A statement decided with one     *)
(* configuration keeps its decision when a later, forced one names its     *)
(* class first (logging.cpp:70-79, logging.h:122-129).                     *)
DecidedOnAllLevels ==
  \A s \in DOMAIN test :
    LET class == Statements[s].class
    IN \/ test[s] = (ConfiguredLevel(applied, class) >= Statements[s].level)
       \/ /\ Len(applied) > 1 /\ class \notin DOMAIN applied[1]
          /\ test[s] = (0 >= Statements[s].level)

(* Lines are written whole: between the beginning and the end of a line    *)
(* nothing of another line is written (logging.cpp:115-120).               *)
LinesWhole ==
  \A i \in DOMAIN out :
    IF i % 2 = 1 THEN out[i][3] = "begin"
    ELSE out[i][3] = "end" /\ out[i][1] = out[i - 1][1] /\ out[i][2] = out[i - 1][2]

(* What is in the log: the lines the configured levels call for, each in   *)
(* one piece, whichever threads log while the levels are being entered.    *)
LogIsRight == DecidedOnAllLevels /\ LinesWhole
=============================================================================
