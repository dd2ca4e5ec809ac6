-------------------------- MODULE Application_proofs --------------------------
(***************************************************************************)
(* Proofs about Logging, for any number of threads, statements, classes    *)
(* and configurations, about AsyncServer, for any number of servers,       *)
(* threads of the pool, connections and failures, and about Programs, for  *)
(* any options, command lines, configuration files and number of parses.   *)
(***************************************************************************)
EXTENDS Logging, AsyncServer, Programs, FiniteSetTheorems, SequenceTheorems,
        NaturalsInduction, WellFoundedInduction, TLAPS

Types ==
  /\ once \in {"new", "running", "done"}
  /\ applied \in Seq(Levels)
  /\ at \in [Loggers -> Places \cup DOMAIN Statements]
  /\ DOMAIN todo = Loggers
  /\ out \in Seq(Loggers \X (DOMAIN Statements) \X {"begin", "end"})
  /\ mutex \in Loggers \cup {Nobody}

(* How far the initialisation is, and what that says of the threads: nobody *)
(* logs and nothing is decided before it is done, and one thread runs it.   *)
Phases ==
  /\ once = "new" => /\ applied = <<>> /\ DOMAIN classLevel = {}
                     /\ \A t \in Loggers : at[t] = "start"
  /\ once # "done" => /\ DOMAIN test = {}
                      /\ \A t \in Loggers : at[t] \in {"start", "init"}
  /\ once = "running" => Len(applied) = 1
  /\ once = "done" => applied # <<>>
  /\ \A t \in Loggers : at[t] = "init" => once = "running"
  /\ \A t, u \in Loggers : at[t] = "init" /\ at[u] = "init" => t = u

(* The first configuration that names a class. *)
First(configs, i, class) ==
  /\ i \in DOMAIN configs /\ class \in DOMAIN configs[i]
  /\ \A j \in 1..(i - 1) : class \notin DOMAIN configs[j]

(* What has been entered: every entry is the one of the first configuration *)
(* that names its class; all classes are entered once the initialisation is *)
(* done, and until then those the initialising thread has not to do.        *)
Entered ==
  /\ \A k \in DOMAIN classLevel :
       \E i \in DOMAIN applied : First(applied, i, k) /\ classLevel[k] = applied[i][k]
  /\ once = "done" =>
       \A i \in DOMAIN applied : DOMAIN applied[i] \subseteq DOMAIN classLevel
  /\ \A t \in Loggers : at[t] = "init" =>
       /\ todo[t] \subseteq DOMAIN applied[1]
       /\ DOMAIN applied[1] \subseteq DOMAIN classLevel \cup todo[t]

(* The line that is being written is the last one, and its thread has the   *)
(* mutex.                                                                   *)
Writing ==
  /\ \A t \in Loggers : at[t] = "writing" <=> mutex = t
  /\ mutex = Nobody => Len(out) % 2 = 0
  /\ mutex # Nobody => /\ Len(out) % 2 = 1
                       /\ out[Len(out)][1] = mutex

LogInv ==
  /\ Types
  /\ Phases
  /\ Entered
  /\ Writing
  /\ DecidedOnAllLevels
  /\ LinesWhole

-----------------------------------------------------------------------------
(* ConfiguredLevel, by the first configuration that names the class or, if  *)
(* none does, 0; a later configuration does not change it.                  *)
LEMMA LevelOfFirst ==
  ASSUME NEW configs \in Seq(Levels), NEW k, NEW i, First(configs, i, k)
  PROVE  ConfiguredLevel(configs, k) = configs[i][k]
<1> DEFINE naming == {j \in DOMAIN configs : k \in DOMAIN configs[j]}
<1>1. i \in naming /\ \A j \in naming : i <= j
  BY DEF First
<1>2. \A j \in naming : (\A l \in naming : j <= l) => j = i
  BY <1>1
<1>3. (CHOOSE j \in naming : \A l \in naming : j <= l) = i
  BY <1>1, <1>2
<1> QED
  BY <1>1, <1>3 DEF ConfiguredLevel

(* A logger no configuration names has no level.                           *)
LEMMA LevelOfNone ==
  ASSUME NEW configs \in Seq(Levels), NEW k,
         \A i \in DOMAIN configs : k \notin DOMAIN configs[i]
  PROVE  ConfiguredLevel(configs, k) = 0
BY DEF ConfiguredLevel

(* A later configuration does not change which is the first.               *)
LEMMA FirstKept ==
  ASSUME NEW configs \in Seq(Levels), NEW c \in Levels, NEW k, NEW i,
         First(configs, i, k)
  PROVE  /\ First(Append(configs, c), i, k)
         /\ Append(configs, c)[i] = configs[i]
BY DEF First

(* Odd and even alternate.                                                 *)
LEMMA Parity ==
  ASSUME NEW n \in Nat
  PROVE  /\ n % 2 \in {0, 1}
         /\ (n + 1) % 2 = 1 - (n % 2)
OBVIOUS

(* The invariant holds at the start.                                       *)
LEMMA LogInit == LoggingInit => LogInv
<1> SUFFICES ASSUME LoggingInit PROVE LogInv
  OBVIOUS
<1> USE DEF LoggingInit
<1>1. Types
  BY DEF Types, Places
<1>2. Phases /\ Entered
  BY DEF Phases, Entered
<1>3. Writing
  BY LoggingAssumption DEF LoggingAssumption, Writing
<1>4. DecidedOnAllLevels /\ LinesWhole
  BY DEF DecidedOnAllLevels, LinesWhole
<1> QED
  BY <1>1, <1>2, <1>3, <1>4 DEF LogInv

(* Of all classes the level function answers with the configured level,     *)
(* once the initialisation is done.                                         *)
LEMMA LevelIsConfigured ==
  ASSUME Types, Entered, once = "done", NEW k
  PROVE  level(k) = ConfiguredLevel(applied, k)
<1>1. CASE k \in DOMAIN classLevel
  <2>1. PICK i \in DOMAIN applied : First(applied, i, k) /\ classLevel[k] = applied[i][k]
    BY <1>1 DEF Entered
  <2> QED
    BY <1>1, <2>1, LevelOfFirst DEF level, Types
<1>2. CASE k \notin DOMAIN classLevel
  BY <1>2, LevelOfNone DEF level, Types, Entered
<1> QED
  BY <1>1, <1>2

-----------------------------------------------------------------------------
(* The writer's view of a step that writes nothing. *)
LEMMA WritingKept ==
  ASSUME LogInv, UNCHANGED <<mutex, out>>, NEW t \in Loggers,
         at[t] # "writing", NEW p, p # "writing", at' = [at EXCEPT ![t] = p]
  PROVE  Writing' /\ LinesWhole'
<1>1. \A u \in Loggers : at'[u] = "writing" <=> at[u] = "writing"
  BY DEF LogInv, Types
<1> QED
  BY <1>1 DEF LogInv, Writing, LinesWhole

(* A thread comes to the initialisation of its logger.                      *)
LEMMA EnterInitInv ==
  ASSUME LogInv, NEW t \in Loggers, EnterInit(t)
  PROVE  LogInv'
<1>a. at[t] = "start" /\ UNCHANGED <<classLevel, test, mutex, out>>
  BY DEF EnterInit
<1>1. CASE OthersMayPass /\ at' = [at EXCEPT ![t] = "ready"] /\ UNCHANGED <<applied, todo, once>>
  <2>1. once = "done"
    BY <1>1 DEF OthersMayPass
  <2>2. Types'
    BY <1>a, <1>1 DEF LogInv, Types, Places
  <2>3. Phases'
    BY <1>a, <1>1, <2>1 DEF LogInv, Types, Phases
  <2>4. Entered'
    BY <1>a, <1>1 DEF LogInv, Types, Entered
  <2>5. Writing' /\ LinesWhole'
    BY <1>a, <1>1, WritingKept
  <2>6. DecidedOnAllLevels'
    BY <1>a, <1>1 DEF LogInv, DecidedOnAllLevels
  <2> QED
    BY <2>2, <2>3, <2>4, <2>5, <2>6 DEF LogInv
<1>2. ASSUME once = "new", NEW c \in Levels, applied' = Append(applied, c),
             todo' = [todo EXCEPT ![t] = DOMAIN c], once' = "running",
             at' = [at EXCEPT ![t] = "init"]
      PROVE  LogInv'
  <2>1. /\ applied = <<>> /\ DOMAIN classLevel = {} /\ DOMAIN test = {}
        /\ \A u \in Loggers : at[u] = "start"
    BY <1>2 DEF LogInv, Phases
  <2>2. applied' = <<c>> /\ Len(applied') = 1 /\ applied'[1] = c
    BY <1>2, <2>1
  <2>3. at'[t] = "init" /\ \A u \in Loggers \ {t} : at'[u] = "start"
    BY <1>2, <2>1 DEF LogInv, Types
  <2>4. Types'
    BY <1>a, <1>2, <2>2 DEF LogInv, Types, Places
  <2>5. Phases'
    BY <1>a, <1>2, <2>1, <2>2, <2>3 DEF Phases
  <2>6. Entered'
    <3>1. todo'[t] = DOMAIN c
      BY <1>2 DEF LogInv, Types
    <3> QED
      BY <1>a, <1>2, <2>1, <2>2, <2>3, <3>1 DEF Entered
  <2>7. Writing' /\ LinesWhole'
    BY <1>a, <1>2, WritingKept
  <2>8. DecidedOnAllLevels'
    BY <1>a, <2>1 DEF DecidedOnAllLevels
  <2> QED
    BY <2>4, <2>5, <2>6, <2>7, <2>8 DEF LogInv
<1> QED
  BY <1>1, <1>2 DEF EnterInit

(* The emplace of one level: an entry that is there stays, a new one is the *)
(* one of the configuration being entered.                                  *)
LEMMA DoInitInv ==
  ASSUME LogInv, NEW t \in Loggers, doInitLogging(t)
  PROVE  LogInv'
<1>a. at[t] = "init" /\ UNCHANGED <<applied, test, mutex, out>>
  BY DEF doInitLogging
<1>b. /\ once = "running" /\ Len(applied) = 1 /\ DOMAIN test = {}
      /\ \A u \in Loggers \ {t} : at[u] = "start"
  BY <1>a DEF LogInv, Phases
<1>c. DecidedOnAllLevels'
  BY <1>a, <1>b DEF DecidedOnAllLevels
<1>d. /\ todo[t] \subseteq DOMAIN applied[1]
      /\ DOMAIN applied[1] \subseteq DOMAIN classLevel \cup todo[t]
  BY <1>a DEF LogInv, Entered
<1>1. ASSUME NEW c \in todo[t],
             classLevel' = Emplace(classLevel, c, Last(applied)[c]),
             todo' = [todo EXCEPT ![t] = @ \ {c}], UNCHANGED <<once, at>>
      PROVE  LogInv'
  <2>1. Last(applied) = applied[1] /\ DOMAIN applied = {1}
    BY <1>b DEF Last, LogInv, Types
  <2>2. /\ DOMAIN classLevel' = DOMAIN classLevel \cup {c}
        /\ \A k \in DOMAIN classLevel : classLevel'[k] = classLevel[k]
        /\ c \notin DOMAIN classLevel => classLevel'[c] = applied[1][c]
    BY <1>1, <2>1 DEF Emplace
  <2>3. todo'[t] = todo[t] \ {c}
    BY <1>1 DEF LogInv, Types
  <2>4. First(applied, 1, c)
    BY <1>d, <2>1 DEF First
  <2>5. Types'
    BY <1>a, <1>1 DEF LogInv, Types
  <2>6. Phases'
    BY <1>a, <1>b, <1>1 DEF LogInv, Phases
  <2>7. Entered'
    <3>1. \A k \in DOMAIN classLevel' :
            \E i \in DOMAIN applied : First(applied, i, k) /\ classLevel'[k] = applied[i][k]
      BY <2>1, <2>2, <2>4 DEF LogInv, Entered
    <3>2. \A u \in Loggers : at[u] = "init" => u = t
      BY <1>b
    <3> QED
      BY <1>a, <1>b, <1>d, <1>1, <2>2, <2>3, <3>1, <3>2 DEF Entered
  <2>8. Writing' /\ LinesWhole'
    BY <1>a, <1>1 DEF LogInv, Writing, LinesWhole
  <2> QED
    BY <1>c, <2>5, <2>6, <2>7, <2>8 DEF LogInv
<1>2. CASE /\ todo[t] = {} /\ once' = "done"
           /\ at' = [at EXCEPT ![t] = "ready"] /\ UNCHANGED <<classLevel, todo>>
  <2>1. at'[t] = "ready" /\ \A u \in Loggers \ {t} : at'[u] = "start"
    BY <1>b, <1>2 DEF LogInv, Types
  <2>2. Types'
    BY <1>a, <1>2 DEF LogInv, Types, Places
  <2>3. Phases'
    BY <1>a, <1>b, <1>2, <2>1 DEF Phases
  <2>4. Entered'
    <3>1. DOMAIN applied = {1}
      BY <1>b DEF LogInv, Types
    <3> QED
      BY <1>a, <1>d, <1>2, <2>1, <3>1 DEF LogInv, Entered
  <2>5. Writing' /\ LinesWhole'
    BY <1>a, <1>2, WritingKept
  <2> QED
    BY <1>c, <2>2, <2>3, <2>4, <2>5 DEF LogInv
<1> QED
  BY <1>1, <1>2 DEF doInitLogging

(* A later configuration only adds levels for classes no earlier one names. *)
LEMMA ForceInitInv ==
  ASSUME LogInv, NEW t \in Loggers, ForceInit(t)
  PROVE  LogInv'
<1>1. PICK c \in Levels :
        /\ classLevel' = [k \in DOMAIN classLevel \cup DOMAIN c |->
             Emplace(classLevel, k, IF k \in DOMAIN c THEN c[k] ELSE 0)[k]]
        /\ applied' = Append(applied, c)
  BY DEF ForceInit
<1>2. /\ at[t] \in {"start", "ready"} /\ once # "running" /\ once' = "done"
      /\ at' = [at EXCEPT ![t] = "ready"]
      /\ UNCHANGED <<test, todo, mutex, out>>
  BY DEF ForceInit
<1>3. /\ DOMAIN classLevel' = DOMAIN classLevel \cup DOMAIN c
      /\ \A k \in DOMAIN classLevel : classLevel'[k] = classLevel[k]
      /\ \A k \in DOMAIN c \ DOMAIN classLevel : classLevel'[k] = c[k]
  BY <1>1 DEF Emplace
<1> DEFINE n == Len(applied)
<1>4. /\ n \in Nat /\ DOMAIN applied = 1..n /\ DOMAIN applied' = 1..(n + 1)
      /\ applied'[n + 1] = c /\ Len(applied') = n + 1
      /\ \A i \in 1..n : applied'[i] = applied[i]
  BY <1>1 DEF LogInv, Types
<1>5. \A i \in DOMAIN applied : DOMAIN applied[i] \subseteq DOMAIN classLevel
  BY <1>2 DEF LogInv, Types, Phases, Entered
<1>6. \A u \in Loggers : at[u] # "init"
  BY <1>2 DEF LogInv, Phases
<1>7. \A u \in Loggers : at'[u] # "init"
  BY <1>2, <1>6 DEF LogInv, Types
<1> HIDE DEF n
<1>8. Types'
  BY <1>1, <1>2 DEF LogInv, Types, Places
<1>9. Phases'
  BY <1>2, <1>4, <1>7 DEF Phases
<1>10. Entered'
  <2>1. ASSUME NEW k \in DOMAIN classLevel'
        PROVE  \E i \in DOMAIN applied' :
                 First(applied', i, k) /\ classLevel'[k] = applied'[i][k]
    <3>1. CASE k \in DOMAIN classLevel
      <4>1. PICK i \in DOMAIN applied :
              First(applied, i, k) /\ classLevel[k] = applied[i][k]
        BY <3>1 DEF LogInv, Entered
      <4>2. First(applied', i, k) /\ applied'[i] = applied[i]
        BY <1>1, <4>1, FirstKept DEF LogInv, Types
      <4> QED
        BY <1>3, <1>4, <3>1, <4>1, <4>2
    <3>2. CASE k \notin DOMAIN classLevel
      <4>1. First(applied', n + 1, k)
        BY <1>3, <1>4, <1>5, <2>1, <3>2 DEF First
      <4> QED
        BY <1>3, <1>4, <2>1, <3>2, <4>1
    <3> QED
      BY <3>1, <3>2
  <2>2. \A i \in DOMAIN applied' : DOMAIN applied'[i] \subseteq DOMAIN classLevel'
    BY <1>3, <1>4, <1>5
  <2> QED
    BY <1>7, <2>1, <2>2 DEF Entered
<1>11. Writing' /\ LinesWhole'
  BY <1>2, WritingKept
<1>12. DecidedOnAllLevels'
  <2> SUFFICES ASSUME NEW s \in DOMAIN test
               PROVE  LET class == Statements[s].class
                      IN \/ test[s] = (ConfiguredLevel(applied', class) >= Statements[s].level)
                         \/ /\ Len(applied') > 1 /\ class \notin DOMAIN applied'[1]
                            /\ test[s] = (0 >= Statements[s].level)
    BY <1>2 DEF DecidedOnAllLevels
  <2> DEFINE class == Statements[s].class
  <2>1. n > 0
    BY <1>2, <1>4 DEF LogInv, Types, Phases
  <2>2. CASE /\ Len(applied) > 1 /\ class \notin DOMAIN applied[1]
             /\ test[s] = (0 >= Statements[s].level)
    BY <1>4, <2>1, <2>2
  <2>3. CASE test[s] = (ConfiguredLevel(applied, class) >= Statements[s].level)
    <3>1. CASE class \in DOMAIN classLevel
      <4>1. PICK i \in DOMAIN applied : First(applied, i, class)
        BY <3>1 DEF LogInv, Entered
      <4>2. First(applied', i, class) /\ applied'[i] = applied[i]
        BY <1>1, <4>1, FirstKept DEF LogInv, Types
      <4>3. applied' \in Seq(Levels) /\ applied \in Seq(Levels)
        BY <1>8 DEF LogInv, Types
      <4>4. ConfiguredLevel(applied', class) = ConfiguredLevel(applied, class)
        BY <4>1, <4>2, <4>3, LevelOfFirst
      <4> QED
        BY <2>3, <4>4
    <3>2. CASE class \notin DOMAIN classLevel
      <4>1. ConfiguredLevel(applied, class) = 0
        BY <1>5, <3>2, LevelOfNone DEF LogInv, Types
      <4>2. class \notin DOMAIN applied'[1] /\ Len(applied') > 1
        BY <1>4, <1>5, <2>1, <3>2
      <4> QED
        BY <2>3, <4>1, <4>2
    <3> QED
      BY <3>1, <3>2
  <2> QED
    BY <2>2, <2>3 DEF LogInv, DecidedOnAllLevels
<1> QED
  BY <1>8, <1>9, <1>10, <1>11, <1>12 DEF LogInv

(* A statement runs.                                                       *)
LEMMA StatementInv ==
  ASSUME LogInv, NEW t \in Loggers, NEW s \in DOMAIN Statements, Statement(t, s)
  PROVE  LogInv'
<1>1. /\ at[t] = "ready" /\ test' = Decided(s)
      /\ UNCHANGED <<classLevel, once, applied, todo, mutex, out>>
  BY DEF Statement
<1>2. PICK p \in {s, "ready"} : at' = [at EXCEPT ![t] = p]
  BY DEF Statement
<1>3. s \notin Places
  BY LoggingAssumption DEF LoggingAssumption
<1>4. once = "done"
  BY <1>1 DEF LogInv, Types, Phases
<1>5. \A u \in Loggers : at'[u] = "init" => at[u] = "init"
  BY <1>2, <1>3 DEF LogInv, Types, Places
<1>6. Types'
  BY <1>1, <1>2 DEF LogInv, Types, Places
<1>7. Phases'
  BY <1>1, <1>4, <1>5 DEF LogInv, Phases
<1>8. Entered'
  BY <1>1, <1>5 DEF LogInv, Entered
<1>9. Writing' /\ LinesWhole'
  BY <1>1, <1>2, <1>3, WritingKept DEF Places
<1>10. DecidedOnAllLevels'
  <2>1. \A k : level(k) = ConfiguredLevel(applied, k)
    BY <1>4, LevelIsConfigured DEF LogInv
  <2>2. CASE s \in DOMAIN test
    BY <1>1, <2>2 DEF Decided, LogInv, DecidedOnAllLevels
  <2>3. CASE s \notin DOMAIN test
    <3>1. /\ DOMAIN test' = DOMAIN test \cup {s}
          /\ test'[s] = (level(Statements[s].class) >= Statements[s].level)
          /\ \A r \in DOMAIN test : test'[r] = test[r]
      BY <1>1, <2>3 DEF Decided
    <3>2. test'[s] = (ConfiguredLevel(applied, Statements[s].class) >= Statements[s].level)
      BY <2>1, <3>1
    <3> QED
      BY <1>1, <3>1, <3>2 DEF LogInv, DecidedOnAllLevels
  <2> QED
    BY <2>2, <2>3
<1> QED
  BY <1>6, <1>7, <1>8, <1>9, <1>10 DEF LogInv

(* What a step of a writer leaves as it is. *)
LEMMA LevelsKept ==
  ASSUME LogInv, UNCHANGED <<classLevel, once, applied, test, todo>>,
         NEW t \in Loggers, at[t] \notin {"start", "init"},
         NEW p \in {"ready", "writing"}, at' = [at EXCEPT ![t] = p]
  PROVE  Phases' /\ Entered' /\ DecidedOnAllLevels'
<1>1. /\ once = "done"
      /\ \A u \in Loggers : at'[u] = "init" => at[u] = "init"
  BY DEF LogInv, Types, Phases
<1>2. Phases'
  BY <1>1 DEF LogInv, Phases
<1>3. Entered'
  BY <1>1 DEF LogInv, Entered
<1>4. DecidedOnAllLevels'
  BY DEF LogInv, DecidedOnAllLevels
<1> QED
  BY <1>2, <1>3, <1>4

(* A line is begun.                                                        *)
LEMMA BeginLineInv ==
  ASSUME LogInv, NEW t \in Loggers, BeginLine(t)
  PROVE  LogInv'
<1> DEFINE entry == <<t, at[t], "begin">>
<1>1. /\ at[t] \in DOMAIN Statements /\ at[t] \notin Places
      /\ mutex = Nobody /\ mutex' = t /\ t # Nobody
      /\ out' = Append(out, entry)
      /\ at' = [at EXCEPT ![t] = "writing"]
      /\ UNCHANGED <<classLevel, once, applied, test, todo>>
  BY LoggingAssumption DEF LoggingAssumption, BeginLine
<1>2. entry \in Loggers \X (DOMAIN Statements) \X {"begin", "end"}
  BY <1>1
<1>3. entry[1] = t /\ entry[3] = "begin"
  OBVIOUS
<1> HIDE DEF entry
<1> DEFINE n == Len(out)
<1>4. /\ n \in Nat /\ DOMAIN out = 1..n /\ DOMAIN out' = 1..(n + 1)
      /\ out'[n + 1] = entry /\ Len(out') = n + 1
      /\ \A i \in 1..n : out'[i] = out[i]
  BY <1>1 DEF LogInv, Types
<1>5. n % 2 = 0 /\ (n + 1) % 2 = 1
  BY <1>1, <1>4, Parity DEF LogInv, Writing
<1> HIDE DEF n
<1>6. Types'
  BY <1>1, <1>2 DEF LogInv, Types, Places
<1>7. Phases' /\ Entered' /\ DecidedOnAllLevels'
  BY <1>1, LevelsKept DEF Places
<1>8. Writing'
  <2>1. \A u \in Loggers : at[u] # "writing"
    BY <1>1, LoggingAssumption DEF LoggingAssumption, LogInv, Writing
  <2>2. \A u \in Loggers : at'[u] = "writing" <=> u = t
    BY <1>1, <2>1 DEF LogInv, Types
  <2> QED
    BY <1>1, <1>3, <1>4, <1>5, <2>2 DEF Writing
<1>9. LinesWhole'
  <2> SUFFICES ASSUME NEW i \in 1..(n + 1)
               PROVE  IF i % 2 = 1 THEN out'[i][3] = "begin"
                      ELSE out'[i][3] = "end" /\ out'[i][1] = out'[i - 1][1] /\ out'[i][2] = out'[i - 1][2]
    BY <1>4 DEF LinesWhole
  <2>1. CASE i = n + 1
    BY <1>3, <1>4, <1>5, <2>1
  <2>2. CASE i \in 1..n
    <3>1. i % 2 # 1 => i - 1 \in 1..n
      BY <1>4, <2>2
    <3> QED
      BY <1>4, <2>2, <3>1 DEF LogInv, LinesWhole
  <2> QED
    BY <1>4, <2>1, <2>2
<1> QED
  BY <1>6, <1>7, <1>8, <1>9 DEF LogInv

(* The line a thread ends is the one it began: it is the last one. *)
LEMMA EndLineInv ==
  ASSUME LogInv, NEW t \in Loggers, EndLine(t)
  PROVE  LogInv'
<1> DEFINE n == Len(out)
           mine == {i \in DOMAIN out : out[i][1] = t}
           begun == CHOOSE i \in mine : \A j \in mine : j <= i
           entry == <<t, out[n][2], "end">>
<1>1. /\ at[t] = "writing" /\ mutex' = Nobody
      /\ out' = Append(out, <<t, out[begun][2], "end">>)
      /\ at' = [at EXCEPT ![t] = "ready"]
      /\ UNCHANGED <<classLevel, once, applied, test, todo>>
  BY DEF EndLine
<1>2. mutex = t /\ t # Nobody
  BY <1>1, LoggingAssumption DEF LoggingAssumption, LogInv, Writing
<1>3. n \in Nat /\ DOMAIN out = 1..n /\ n % 2 = 1 /\ out[n][1] = t
  <2>1. n \in Nat /\ DOMAIN out = 1..n
    BY DEF LogInv, Types
  <2>2. n % 2 = 1 /\ out[n][1] = t
    BY <1>2 DEF LogInv, Writing
  <2> QED
    BY <2>1, <2>2
<1>4. n \in 1..n
  BY <1>3
<1>5. begun = n
  <2>1. n \in mine /\ \A j \in mine : j <= n
    BY <1>3, <1>4
  <2>2. \A i \in mine : (\A j \in mine : j <= i) => i = n
    BY <1>3, <2>1
  <2> QED
    BY <2>1, <2>2
<1>6. /\ entry \in Loggers \X (DOMAIN Statements) \X {"begin", "end"}
      /\ entry[1] = out[n][1] /\ entry[2] = out[n][2] /\ entry[3] = "end"
  BY <1>3, <1>4 DEF LogInv, Types
<1>7. out' = Append(out, entry)
  BY <1>1, <1>5
<1> HIDE DEF entry, begun, mine
<1>8. /\ DOMAIN out' = 1..(n + 1) /\ out'[n + 1] = entry /\ Len(out') = n + 1
      /\ \A i \in 1..n : out'[i] = out[i]
  BY <1>3, <1>7 DEF LogInv, Types
<1>9. (n + 1) % 2 = 0
  BY <1>3, Parity
<1> HIDE DEF n
<1>10. Types'
  BY <1>1, <1>6, <1>7 DEF LogInv, Types, Places
<1>11. Phases' /\ Entered' /\ DecidedOnAllLevels'
  BY <1>1, LevelsKept
<1>12. Writing'
  <2>1. \A u \in Loggers : at'[u] # "writing"
    BY <1>1, <1>2 DEF LogInv, Types, Writing
  <2> QED
    BY <1>1, <1>8, <1>9, <2>1, LoggingAssumption
       DEF LoggingAssumption, Writing
<1>13. LinesWhole'
  <2> SUFFICES ASSUME NEW i \in 1..(n + 1)
               PROVE  IF i % 2 = 1 THEN out'[i][3] = "begin"
                      ELSE out'[i][3] = "end" /\ out'[i][1] = out'[i - 1][1] /\ out'[i][2] = out'[i - 1][2]
    BY <1>8 DEF LinesWhole
  <2>1. CASE i = n + 1
    BY <1>3, <1>4, <1>6, <1>8, <1>9, <2>1
  <2>2. CASE i \in 1..n
    <3>1. i % 2 # 1 => i - 1 \in 1..n
      BY <1>3, <2>2
    <3> QED
      BY <1>3, <1>8, <2>2, <3>1 DEF LogInv, LinesWhole
  <2> QED
    BY <1>3, <2>1, <2>2
<1> QED
  BY <1>10, <1>11, <1>12, <1>13 DEF LogInv

(* Every step keeps the invariant.                                         *)
LEMMA LogNext == LogInv /\ [LoggingNext]_loggingVars => LogInv'
<1> SUFFICES ASSUME LogInv, [LoggingNext]_loggingVars PROVE LogInv'
  OBVIOUS
<1>1. CASE UNCHANGED loggingVars
  BY <1>1 DEF LogInv, Types, Phases, Entered, Writing, DecidedOnAllLevels,
     LinesWhole, loggingVars
<1>2. CASE LoggingNext
  BY <1>2, EnterInitInv, DoInitInv, ForceInitInv, StatementInv,
     BeginLineInv, EndLineInv DEF LoggingNext
<1> QED
  BY <1>1, <1>2

(* Whatever threads initialise and log, and however their steps interleave, *)
(* every statement is decided on the levels configured for it and every     *)
(* line is written whole (logging.cpp:70-79 and 115-120): call_once makes   *)
(* the other callers of init wait until all levels are entered, and s_mutex *)
(* is held from the beginning of a line to its end.                         *)
THEOREM LogIsAlwaysRight == LoggingSpec => []LogIsRight
<1>1. LogInv => LogIsRight
  BY DEF LogInv, LogIsRight
<1> QED
  BY LogInit, LogNext, <1>1, PTL DEF LoggingSpec

-----------------------------------------------------------------------------
(***************************************************************************)
(* The servers and the pool of contexts.                                   *)
(***************************************************************************)

(* What the variables of the servers are made of.                          *)
ConnSet == [at : Contexts, state : {"handshake", "started", "over"}, input : BOOLEAN]
ServerTypes ==
  /\ main \in {"setup", "run", "returned"}
  /\ nextContext \in Contexts
  /\ thread \in [Contexts -> {"none", "running", "ended"}]
  /\ stopped \in [Contexts -> BOOLEAN]
  /\ signals \in Contexts \cup {Unbound} /\ signalled \in BOOLEAN
  /\ acceptor \in [Servers -> Contexts \cup {Unbound}]
  /\ socket \in [Servers -> Contexts \cup {Unbound}]
  /\ armed \in [Servers -> BOOLEAN]
  /\ conns \in Seq(ConnSet)
  /\ died \in SUBSET Contexts /\ failures \in Nat

Made(s) == acceptor[s] # Unbound
AllMade == \A s \in Servers : Made(s)

(* A server that is made has a socket and goes on accepting, and nothing   *)
(* is accepted before all of them are made.                                *)
Goes ==
  /\ \A s \in Servers : /\ Made(s) => socket[s] \in Contexts /\ (armed[s] \/ acceptor[s] \in died)
                        /\ armed[s] => Made(s)
  /\ main = "setup" => conns = <<>> /\ failures = 0 /\ \A c \in Contexts : thread[c] = "none"
  /\ main = "run" => AllMade
  /\ ~AllMade => conns = <<>> /\ \A c \in Contexts : thread[c] = "none"
  /\ signals = Unbound => \A s \in Servers : ~Made(s)

(* The context behind c, and how far c is behind b.                        *)
Following(c) == IF c = Number - 1 THEN 0 ELSE c + 1
Rank(b, c) == IF c >= b THEN c - b ELSE c - b + Number

(* How often c was handed out, in turns that began with b, before x.       *)
Turns(q, b, x, c) == IF Rank(b, c) < Rank(b, x) THEN q + 1 ELSE q

(* The servers of the set S whose context in f is c.                       *)
Having(S, f, c) == {s \in S : f[s] = c}

(* All contexts that were handed out for sockets: the servers started with *)
(* those of init, of which the one of last was the last; since then they   *)
(* came in turn.  The servers in old have accepted, and keep a socket.     *)
Handed(old, init, last, q) ==
  /\ old \in SUBSET Servers /\ init \in [Servers -> Contexts] /\ last \in Servers /\ q \in Nat
  /\ \A s \in Servers \ old : socket[s] = init[s]
  /\ conns # <<>> => \E s \in old : nextContext = Following(socket[s])
  /\ \A c \in Contexts :
       Load(c) + Cardinality(Having(old, socket, c)) =
         Cardinality(Having(old, init, c)) + Turns(q, Following(init[last]), nextContext, c)

LastMade ==
  failures = 0 /\ conns = <<>> /\ (\E s \in Servers : Made(s)) =>
    \E s \in Servers : Made(s) /\ nextContext = Following(socket[s])

Spread ==
  failures = 0 /\ conns # <<>> =>
    \E old, init, last, q : Handed(old, init, last, q)

(* The inductive invariant.                                                *)
ServerInv == ServerTypes /\ Goes /\ LastMade /\ Spread

-----------------------------------------------------------------------------
(* The contexts and their successors.                                      *)
LEMMA GetIs ==
  ASSUME ServerTypes, NEW n \in Nat
  PROVE  Get(n) \in Contexts /\ Get(1) = Following(nextContext) /\ Get(0) = nextContext
<1>1. PICK x \in Nat, m \in Nat \ {0} : x = nextContext /\ m = Number /\ x < m
  BY ServerAssumption DEF ServerTypes, Contexts
<1>2. (x + n) % m \in 0..(m - 1) /\ (x + 0) % m = x
  BY <1>1
<1>3. (x + 1) % m = IF x = m - 1 THEN 0 ELSE x + 1
  BY <1>1
<1> QED
  BY <1>1, <1>2, <1>3 DEF Get, Contexts, Following

(* The remainder of the next number.                                       *)
LEMMA NextRemainder ==
  ASSUME NEW m \in Nat \ {0}, NEW y \in Nat
  PROVE  (y + 1) % m = IF y % m = m - 1 THEN 0 ELSE (y % m) + 1
<1>1. PICK q \in Nat, r \in 0..(m - 1) : y = m * q + r /\ r = y % m
  <2>1. y % m \in 0..(m - 1) /\ y \div m \in Nat /\ y = m * (y \div m) + (y % m)
    OBVIOUS
  <2> QED
    BY <2>1
<1>2. ASSUME NEW k \in Nat, NEW s \in 0..(m - 1) PROVE (m * k + s) % m = s
  OBVIOUS
<1>3. y + 1 = m * (q + 1) + 0 \/ r # m - 1
  BY <1>1
<1> QED
  BY <1>1, <1>2, <1>3

(* The fourth context taken follows the third one. *)
LEMMA GetAfter ==
  ASSUME ServerTypes
  PROVE  Get(4) = Following(Get(3))
<1>1. PICK x \in Nat, m \in Nat \ {0} : x = nextContext /\ m = Number /\ x < m
  BY ServerAssumption DEF ServerTypes, Contexts
<1>2. PICK y \in Nat : y = x + 3
  OBVIOUS
<1>3. (y + 1) % m = IF y % m = m - 1 THEN 0 ELSE (y % m) + 1
  BY NextRemainder
<1>4. x + 4 = y + 1
  BY <1>2
<1> QED
  BY <1>1, <1>2, <1>3, <1>4 DEF Get, Following

(* A turn of the pool.                                                     *)
LEMMA TurnsGrow ==
  ASSUME NEW b \in Contexts, NEW x \in Contexts, NEW q \in Nat
  PROVE  \E r \in Nat : \A c \in Contexts :
           Turns(r, b, Following(x), c) = Turns(q, b, x, c) + (IF c = x THEN 1 ELSE 0)
<1>1. PICK m \in Nat \ {0} : m = Number /\ b \in 0..(m - 1) /\ x \in 0..(m - 1) /\ Contexts = 0..(m - 1)
  BY ServerAssumption DEF Contexts
<1>2. CASE Rank(b, x) = m - 1
  <2>1. \A c \in 0..(m - 1) :
          Turns(q + 1, b, Following(x), c) = Turns(q, b, x, c) + (IF c = x THEN 1 ELSE 0)
    BY <1>1, <1>2 DEF Turns, Rank, Following
  <2> QED
    BY <1>1, <2>1
<1>3. CASE Rank(b, x) # m - 1
  <2>1. \A c \in 0..(m - 1) :
          Turns(q, b, Following(x), c) = Turns(q, b, x, c) + (IF c = x THEN 1 ELSE 0)
    BY <1>1, <1>3 DEF Turns, Rank, Following
  <2> QED
    BY <1>1, <2>1
<1> QED
  BY <1>2, <1>3

(* How evenly turns are spread, best behind the place where they began and *)
(* at the place that came last.                                            *)
LEMMA TurnsAreEven ==
  ASSUME NEW a \in Contexts, NEW l \in Contexts, NEW q \in Nat, NEW c \in Contexts, NEW d \in Contexts
  PROVE  LET T(e) == Turns(q, Following(a), Following(l), e)
         IN /\ T(c) \in Nat /\ T(d) \in Nat
            /\ T(c) <= T(d) + 1
            /\ l = d => T(c) <= T(d)
            /\ a = c => T(c) <= T(d)
            /\ a = c /\ l = d /\ c # d => T(c) < T(d)
<1>1. PICK m \in Nat \ {0} : m = Number /\ Contexts = 0..(m - 1)
  BY ServerAssumption DEF Contexts
<1> QED
  BY <1>1 DEF Turns, Rank, Following

(* Counting the connections of a context, and the servers with a context.  *)
LEMMA LoadType ==
  ASSUME conns \in Seq(ConnSet), NEW c
  PROVE  IsFiniteSet({i \in DOMAIN conns : conns[i].at = c}) /\ Load(c) \in Nat
<1>1. PICK n \in Nat : DOMAIN conns = 1..n
  BY LenProperties
<1>2. IsFiniteSet(1..n)
  BY FS_Interval
<1>3. IsFiniteSet({i \in DOMAIN conns : conns[i].at = c})
  BY <1>1, <1>2, FS_Subset
<1> QED
  BY <1>3, FS_CardinalityType DEF Load

(* A new connection counts for the context it is on, and for no other. *)
LEMMA LoadGrows ==
  ASSUME conns \in Seq(ConnSet), NEW e \in ConnSet, conns' = Append(conns, e), NEW c \in Contexts
  PROVE  Load(c)' = Load(c) + (IF e.at = c THEN 1 ELSE 0)
<1> DEFINE L == {i \in DOMAIN conns : conns[i].at = c}
<1>1. PICK n \in Nat : n = Len(conns) /\ DOMAIN conns = 1..n
  BY LenProperties
<1>2. DOMAIN conns' = 1..(n + 1) /\ conns'[n + 1] = e /\ \A i \in 1..n : conns'[i] = conns[i]
  BY <1>1, AppendProperties
<1>3. n + 1 \notin 1..n /\ 1..(n + 1) = (1..n) \cup {n + 1}
  BY <1>1
<1>4. {i \in DOMAIN conns' : conns'[i].at = c} = IF e.at = c THEN L \cup {n + 1} ELSE L
  BY <1>1, <1>2, <1>3
<1>5. IsFiniteSet(L) /\ Cardinality(L) \in Nat /\ n + 1 \notin L
  BY <1>1, <1>3, LoadType DEF Load
<1>6. Cardinality(L \cup {n + 1}) = Cardinality(L) + 1
  BY <1>5, FS_AddElement
<1> HIDE DEF L
<1>7. CASE e.at = c
  BY <1>4, <1>6, <1>7 DEF Load, L
<1>8. CASE e.at # c
  <2>1. Load(c)' = Load(c) /\ Load(c) \in Nat
    BY <1>4, <1>8, LoadType DEF Load, L
  <2> QED
    BY <2>1, <1>8
<1> QED
  BY <1>7, <1>8

(* The servers with a socket on c are finitely many, and fewer than all if  *)
(* one has its socket elsewhere.                                            *)
LEMMA HavingType ==
  ASSUME NEW S \in SUBSET Servers, NEW f, NEW c
  PROVE  /\ IsFiniteSet(S) /\ Cardinality(S) \in Nat
         /\ IsFiniteSet(Having(S, f, c)) /\ Cardinality(Having(S, f, c)) \in Nat
         /\ Cardinality(Having(S, f, c)) <= Cardinality(S)
         /\ \A s \in S : f[s] # c => Cardinality(Having(S, f, c)) <= Cardinality(S) - 1
<1>1. IsFiniteSet(S) /\ Cardinality(S) \in Nat
  BY ServerAssumption, FS_Subset, FS_CardinalityType
<1>2. Having(S, f, c) \in SUBSET S
  BY DEF Having
<1>3. /\ IsFiniteSet(Having(S, f, c)) /\ Cardinality(Having(S, f, c)) \in Nat
      /\ Cardinality(Having(S, f, c)) <= Cardinality(S)
  BY <1>1, <1>2, FS_Subset, FS_CardinalityType
<1>4. ASSUME NEW s \in S, f[s] # c PROVE Cardinality(Having(S, f, c)) <= Cardinality(S) - 1
  <2>1. Having(S, f, c) \in SUBSET (S \ {s})
    BY <1>4 DEF Having
  <2>2. IsFiniteSet(S \ {s}) /\ Cardinality(S \ {s}) = Cardinality(S) - 1
    BY <1>1, FS_RemoveElement
  <2> QED
    BY <2>1, <2>2, FS_Subset
<1> QED
  BY <1>1, <1>3, <1>4

(* One more server, or another context for one.                            *)
LEMMA HavingGrows ==
  ASSUME NEW S \in SUBSET Servers, NEW s \in Servers, s \notin S, NEW f, NEW c
  PROVE  Cardinality(Having(S \cup {s}, f, c)) =
           Cardinality(Having(S, f, c)) + (IF f[s] = c THEN 1 ELSE 0)
<1>1. Having(S \cup {s}, f, c) = IF f[s] = c THEN Having(S, f, c) \cup {s} ELSE Having(S, f, c)
  BY DEF Having
<1>2. s \notin Having(S, f, c) /\ IsFiniteSet(Having(S, f, c)) /\ Cardinality(Having(S, f, c)) \in Nat
  BY HavingType DEF Having
<1>3. Cardinality(Having(S, f, c) \cup {s}) = Cardinality(Having(S, f, c)) + 1
  BY <1>2, FS_AddElement
<1> QED
  BY <1>1, <1>2, <1>3

(* One server counted apart. *)
LEMMA HavingAt ==
  ASSUME NEW S \in SUBSET Servers, NEW s \in S, NEW f, NEW c
  PROVE  Cardinality(Having(S, f, c)) =
           Cardinality(Having(S \ {s}, f, c)) + (IF f[s] = c THEN 1 ELSE 0)
<1>1. S \ {s} \in SUBSET Servers /\ s \notin S \ {s} /\ s \in Servers /\ (S \ {s}) \cup {s} = S
  OBVIOUS
<1>2. Cardinality(Having((S \ {s}) \cup {s}, f, c)) =
        Cardinality(Having(S \ {s}, f, c)) + (IF f[s] = c THEN 1 ELSE 0)
  BY <1>1, HavingGrows
<1> QED
  BY <1>1, <1>2

(* The bound on the load.                                                  *)
LEMMA SpreadIsBalanced ==
  ASSUME ServerTypes, Goes, Spread
  PROVE  Balanced
<1> SUFFICES ASSUME failures = 0, conns # <<>>, NEW c \in Contexts, NEW d \in Contexts
             PROVE  Load(c) <= Load(d) + 2 * Cardinality(Servers) - 1
  BY DEF Balanced
<1>1. PICK old, init, last, q : Handed(old, init, last, q)
  BY DEF Spread
<1>2. /\ old \in SUBSET Servers /\ init \in [Servers -> Contexts] /\ last \in Servers /\ q \in Nat
      /\ \E s \in old : nextContext = Following(socket[s])
  BY <1>1 DEF Handed
<1>3. PICK s0 \in old : nextContext = Following(socket[s0])
  BY <1>2
<1>4. PICK l \in Contexts : l = socket[s0] /\ nextContext = Following(l)
  <2>1. AllMade
    BY DEF Goes
  <2> QED
    BY <1>2, <1>3, <2>1 DEF AllMade, Goes
<1>5. PICK a \in Contexts : a = init[last]
  BY <1>2
<1> DEFINE T(e) == Turns(q, Following(a), Following(l), e)
<1>b. /\ T(c) \in Nat /\ T(d) \in Nat
      /\ T(c) <= T(d) + 1
      /\ l = d => T(c) <= T(d)
      /\ a = c => T(c) <= T(d)
      /\ a = c /\ l = d /\ c # d => T(c) < T(d)
  BY <1>2, TurnsAreEven, Zenon
<1> HIDE DEF T
<1>6. PICK tc \in Nat, td \in Nat :
        /\ tc = T(c) /\ td = T(d) /\ tc <= td + 1
        /\ l = d => tc <= td
        /\ a = c => tc <= td
        /\ a = c /\ l = d /\ c # d => tc < td
  BY <1>b
<1>7. PICK k \in Nat, p \in Nat :
        /\ k = Cardinality(Servers) /\ p = Cardinality(old) /\ p <= k
        /\ p = k => old = Servers
  BY <1>2, ServerAssumption, FS_Subset, FS_CardinalityType
<1>8. PICK ac \in Nat, pd \in Nat, ad \in Nat, pc \in Nat :
        /\ ac = Cardinality(Having(old, init, c)) /\ ad = Cardinality(Having(old, init, d))
        /\ pc = Cardinality(Having(old, socket, c)) /\ pd = Cardinality(Having(old, socket, d))
        /\ ac <= p /\ pd <= p
        /\ l # d => pd <= p - 1
        /\ last \in old /\ a # c => ac <= p - 1
  <2>1. l # d => Cardinality(Having(old, socket, d)) <= p - 1
    BY <1>2, <1>4, <1>7, HavingType
  <2>2. last \in old /\ a # c => Cardinality(Having(old, init, c)) <= p - 1
    BY <1>2, <1>5, <1>7, HavingType
  <2> QED
    BY <1>2, <1>7, <2>1, <2>2, HavingType
<1>9. PICK lc \in Nat, ld \in Nat : lc = Load(c) /\ ld = Load(d)
  BY LoadType DEF ServerTypes
<1>10. lc + pc = ac + tc /\ ld + pd = ad + td
  BY <1>1, <1>4, <1>5, <1>6, <1>8, <1>9 DEF Handed, T
<1>11. CASE c = d
  <2>1. k >= 1
    <3>1. old # {}
      BY <1>3
    <3>2. p # 0
      BY <1>2, <1>7, <3>1, HavingType, FS_EmptySet
    <3> QED
      BY <1>7, <3>2
  <2> QED
    BY <1>7, <1>9, <1>11, <2>1
<1>12. CASE c # d
  <2>1. p = k => last \in old
    BY <1>2, <1>7
  <2>a. /\ tc <= td + 1 /\ ac <= p /\ pd <= p /\ p <= k
        /\ lc + pc = ac + tc /\ ld + pd = ad + td
    BY <1>6, <1>7, <1>8, <1>10
  <2>b. /\ l = d => tc <= td
        /\ l # d => pd <= p - 1
    BY <1>6, <1>8
  <2>c. p = k => \/ ac <= p - 1
                 \/ tc <= td /\ (l = d => tc < td)
    BY <1>6, <1>8, <1>12, <2>1
  <2>2. lc <= ld + 2 * k - 1
    BY <2>a, <2>b, <2>c
  <2> QED
    BY <1>7, <1>9, <2>2
<1> QED
  BY <1>11, <1>12

-----------------------------------------------------------------------------
(* Before the first connection.                                            *)
LEMMA HandedFirst ==
  ASSUME ServerTypes, Goes, AllMade, conns = <<>>,
         NEW last \in Servers, nextContext = Following(socket[last])
  PROVE  Handed({}, socket, last, 0)
<1>1. socket \in [Servers -> Contexts] /\ nextContext \in Contexts
  BY DEF ServerTypes, Goes, AllMade
<1>2. ASSUME NEW c \in Contexts
      PROVE  Load(c) = 0 /\ Turns(0, Following(socket[last]), nextContext, c) = 0
  <2>1. Load(c) = 0
    <3>1. {i \in DOMAIN conns : conns[i].at = c} = {}
      OBVIOUS
    <3> QED
      BY <3>1, FS_EmptySet DEF Load
  <2>2. PICK m \in Nat \ {0} : m = Number /\ c \in 0..(m - 1) /\ nextContext \in 0..(m - 1)
    BY <1>1, ServerAssumption DEF Contexts
  <2>3. Turns(0, nextContext, nextContext, c) = 0
    BY <2>2 DEF Turns, Rank
  <2> QED
    BY <2>1, <2>3
<1>3. \A c \in Contexts : /\ Cardinality(Having({}, socket, c)) = 0
                          /\ Having({}, socket, c) = {}
  BY FS_EmptySet DEF Having
<1> QED
  BY <1>1, <1>2, <1>3 DEF Handed

(* A connection takes the socket of its server, which gets the context     *)
(* that is next.                                                           *)
LEMMA HandedOn ==
  ASSUME ServerTypes, Goes, AllMade, ServerTypes', NEW s \in Servers, NEW e \in ConnSet,
         NEW old, NEW init, NEW last, NEW q, Handed(old, init, last, q),
         e.at = socket[s], conns' = Append(conns, e),
         socket' = [socket EXCEPT ![s] = nextContext], nextContext' = Following(nextContext)
  PROVE  \E r : Handed(old \cup {s}, init, last, r)'
<1>1. /\ old \in SUBSET Servers /\ init \in [Servers -> Contexts] /\ last \in Servers /\ q \in Nat
      /\ \A t \in Servers \ old : socket[t] = init[t]
      /\ socket \in [Servers -> Contexts] /\ nextContext \in Contexts
  BY DEF Handed, ServerTypes, Goes, AllMade
<1>2. PICK b \in Contexts : b = Following(init[last])
  <2>1. init[last] \in Contexts
    BY <1>1
  <2> QED
    BY <2>1, ServerAssumption DEF Contexts, Following
<1>3. PICK r \in Nat : \A c \in Contexts :
        Turns(r, b, Following(nextContext), c) =
          Turns(q, b, nextContext, c) + (IF c = nextContext THEN 1 ELSE 0)
  BY <1>1, <1>2, TurnsGrow
<1>4. /\ socket'[s] = nextContext /\ \A t \in Servers : t # s => socket'[t] = socket[t]
  BY <1>1
<1>5. ASSUME NEW c \in Contexts
      PROVE  Load(c)' + Cardinality(Having(old \cup {s}, socket', c)) =
               Cardinality(Having(old \cup {s}, init, c)) + Turns(r, b, nextContext', c)
  <2> DEFINE one(x) == IF x = c THEN 1 ELSE 0
  <2>1. old \cup {s} \in SUBSET Servers /\ old \ {s} \in SUBSET Servers
        /\ (old \cup {s}) \ {s} = old \ {s} /\ s \in old \cup {s}
    BY <1>1
  <2>a. Cardinality(Having(old \cup {s}, init, c)) = Cardinality(Having(old \ {s}, init, c)) + one(init[s])
    <3>1. PICK H : H = Having(old \ {s}, init, c)
      OBVIOUS
    <3>2. IsFiniteSet(H) /\ s \notin H /\ Cardinality(H) \in Nat
      BY <2>1, <3>1, HavingType DEF Having
    <3>3. Cardinality(H \cup {s}) = Cardinality(H) + 1
      BY <3>2, FS_AddElement
    <3>4. Having(old \cup {s}, init, c) = IF init[s] = c THEN H \cup {s} ELSE H
      BY <3>1 DEF Having
    <3> QED
      BY <3>1, <3>2, <3>3, <3>4
  <2>b. Cardinality(Having(old \cup {s}, socket', c)) =
          Cardinality(Having(old \ {s}, socket, c)) + one(nextContext)
    <3>1. PICK H : H = Having(old \ {s}, socket, c)
      OBVIOUS
    <3>2. IsFiniteSet(H) /\ s \notin H /\ Cardinality(H) \in Nat
      BY <2>1, <3>1, HavingType DEF Having
    <3>3. Cardinality(H \cup {s}) = Cardinality(H) + 1
      BY <3>2, FS_AddElement
    <3>4. PICK g : g = socket'
      OBVIOUS
    <3>5. g[s] = nextContext /\ \A t \in old : t # s => g[t] = socket[t]
      BY <1>1, <1>4, <3>4
    <3>6. Having(old \cup {s}, g, c) = IF nextContext = c THEN H \cup {s} ELSE H
      BY <3>1, <3>5 DEF Having
    <3> QED
      BY <3>1, <3>2, <3>3, <3>4, <3>6
  <2>2. PICK n \in Nat, m \in Nat, t \in Nat, l \in Nat :
          /\ n = Cardinality(Having(old \ {s}, socket, c))
          /\ m = Cardinality(Having(old \ {s}, init, c))
          /\ t = Turns(q, b, nextContext, c) /\ l = Load(c)
    <3>1. Turns(q, b, nextContext, c) \in Nat
      BY <1>1 DEF Turns
    <3>2. Cardinality(Having(old \ {s}, socket, c)) \in Nat /\ Cardinality(Having(old \ {s}, init, c)) \in Nat
      BY <2>1, HavingType
    <3> QED
      BY <3>1, <3>2, LoadType DEF ServerTypes
  <2>3. Cardinality(Having(old \cup {s}, socket', c)) = n + one(nextContext)
    BY <2>2, <2>b
  <2>4. Cardinality(Having(old \cup {s}, init, c)) = m + one(init[s])
    BY <2>2, <2>a
  <2>5. Load(c)' = l + one(socket[s])
    BY <2>2, LoadGrows DEF ServerTypes
  <2>6. Turns(r, b, nextContext', c) = t + one(nextContext)
    BY <1>3, <2>2
  <2>7. Load(c) + Cardinality(Having(old, socket, c)) =
          Cardinality(Having(old, init, c)) + Turns(q, b, nextContext, c)
    BY <1>2 DEF Handed
  <2>8. CASE s \in old
    <3>1. Cardinality(Having(old, socket, c)) = n + one(socket[s])
      BY <1>1, <2>2, <2>8, HavingAt
    <3>2. Cardinality(Having(old, init, c)) = m + one(init[s])
      BY <1>1, <2>2, <2>8, HavingAt
    <3>3. l + (n + one(socket[s])) = (m + one(init[s])) + t
      BY <2>2, <2>7, <3>1, <3>2
    <3>4. PICK x \in Nat, y \in Nat, z \in Nat : x = one(socket[s]) /\ y = one(init[s]) /\ z = one(nextContext)
      OBVIOUS
    <3> HIDE DEF one
    <3>6. l + (n + x) = (m + y) + t
      BY <3>3, <3>4, Zenon
    <3>5. (l + x) + (n + z) = (m + y) + (t + z)
      BY <3>6
    <3> QED
      BY <2>3, <2>4, <2>5, <2>6, <3>4, <3>5
  <2>9. CASE s \notin old
    <3>1. old \ {s} = old /\ socket[s] = init[s]
      BY <1>1, <2>9
    <3>2. l + n = m + t
      BY <2>2, <2>7, <3>1
    <3>3. PICK x \in Nat, z \in Nat : x = one(socket[s]) /\ z = one(nextContext)
      OBVIOUS
    <3>4. one(init[s]) = x
      BY <3>1, <3>3
    <3> HIDE DEF one
    <3>5. (l + x) + (n + z) = (m + x) + (t + z)
      BY <3>2
    <3> QED
      BY <2>3, <2>4, <2>5, <2>6, <3>3, <3>4, <3>5
  <2> QED
    BY <2>8, <2>9
<1>6. nextContext' = Following(socket'[s])
  BY <1>4
<1>7. \A t \in Servers \ (old \cup {s}) : socket'[t] = init[t]
  BY <1>1, <1>4
<1> QED
  BY <1>1, <1>2, <1>5, <1>6, <1>7 DEF Handed

-----------------------------------------------------------------------------
(* The invariant holds at the start.                                       *)
LEMMA ServerInitInv == ServerInit => ServerInv
<1> SUFFICES ASSUME ServerInit PROVE ServerInv
  OBVIOUS
<1>1. ServerTypes
  <2>1. 0 \in Contexts
    BY ServerAssumption DEF Contexts
  <2> QED
    BY <2>1 DEF ServerInit, ServerTypes
<1>2. Goes
  BY DEF ServerInit, Goes, Made
<1>3. LastMade /\ Spread
  BY DEF ServerInit, LastMade, Spread, Made
<1> QED
  BY <1>1, <1>2, <1>3 DEF ServerInv

(* Making the signal set and the servers.                                  *)
LEMMA MakeSignalSetInv ==
  ASSUME ServerInv, MakeSignalSet
  PROVE  ServerInv'
<1> USE DEF MakeSignalSet
<1>1. ServerTypes'
  BY GetIs DEF ServerInv, ServerTypes
<1>2. Goes'
  <2>1. Unbound \notin Contexts /\ Get(0) \in Contexts
    BY GetIs, ServerAssumption DEF Unbound, Contexts, ServerInv
  <2> QED
    BY <2>1 DEF ServerInv, Goes, Made, AllMade
<1>3. LastMade' /\ Spread'
  BY DEF ServerInv, Goes, LastMade, Spread, Made
<1> QED
  BY <1>1, <1>2, <1>3 DEF ServerInv

(* A server is made: acceptor, socket, resolver and the first socket to     *)
(* accept on.                                                               *)
LEMMA MakeServerInv ==
  ASSUME ServerInv, NEW s \in Servers, MakeServer(s)
  PROVE  ServerInv'
<1> USE DEF MakeServer
<1>1. ServerTypes /\ Get(0) \in Contexts /\ Get(3) \in Contexts /\ Get(4) \in Contexts
      /\ Get(4) = Following(Get(3))
  BY GetIs, GetAfter DEF ServerInv
<1>2. ServerTypes'
  BY <1>1 DEF ServerTypes
<1>3. Unbound \notin Contexts
  BY ServerAssumption DEF Unbound, Contexts
<1>4. Made(s)' /\ socket'[s] = Get(3) /\ armed'[s]
      /\ \A t \in Servers : t # s => Made(t)' = Made(t) /\ socket'[t] = socket[t] /\ armed'[t] = armed[t]
                                     /\ acceptor'[t] = acceptor[t]
  BY <1>1, <1>3 DEF ServerTypes, Made
<1>5. Goes'
  BY <1>1, <1>4 DEF ServerInv, Goes, AllMade
<1>6. LastMade'
  BY <1>1, <1>4 DEF LastMade
<1>7. Spread'
  BY DEF ServerInv, Goes, Spread
<1> QED
  BY <1>2, <1>5, <1>6, <1>7 DEF ServerInv

(* A step that accepts nothing and takes no context.                       *)
LEMMA SpreadKept ==
  ASSUME LastMade, Spread, UNCHANGED <<nextContext, socket, acceptor, failures>>,
         DOMAIN conns' = DOMAIN conns, \A i \in DOMAIN conns : conns'[i].at = conns[i].at,
         conns' = <<>> <=> conns = <<>>
  PROVE  LastMade' /\ Spread'
<1>1. LastMade'
  BY DEF LastMade, Made
<1>2. \A c : Load(c)' = Load(c)
  <2> TAKE c
  <2>1. {i \in DOMAIN conns' : conns'[i].at = c} = {i \in DOMAIN conns : conns[i].at = c}
    OBVIOUS
  <2> QED
    BY <2>1 DEF Load
<1>3. ASSUME failures' = 0, conns' # <<>> PROVE \E old, init, last, q : Handed(old, init, last, q)'
  <2>1. PICK old, init, last, q : Handed(old, init, last, q)
    BY <1>3 DEF Spread
  <2>2. Handed(old, init, last, q)'
    BY <1>2, <2>1 DEF Handed
  <2> QED
    BY <2>2
<1> QED
  BY <1>1, <1>3 DEF Spread

(* The steps of doRun and of the signal.                                   *)
LEMMA DoRunInv ==
  ASSUME ServerInv, MakeServerFails \/ Run \/ Signal \/ StopPool \/ RunReturns
  PROVE  ServerInv'
<1>1. ServerTypes'
  BY DEF ServerInv, ServerTypes, MakeServerFails, Run, Signal, StopPool, RunReturns
<1>2. Goes'
  <2>1. CASE MakeServerFails \/ Signal \/ StopPool \/ RunReturns
    BY <2>1 DEF ServerInv, Goes, Made, AllMade, MakeServerFails, Signal, StopPool, RunReturns
  <2>2. CASE Run
    <3>1. AllMade /\ AllMade'
      BY <2>2 DEF Run, AllMade, Made
    <3> QED
      BY <2>2, <3>1 DEF ServerInv, Goes, Made, Run
  <2> QED
    BY <2>1, <2>2
<1>3. LastMade' /\ Spread'
  BY SpreadKept DEF ServerInv, MakeServerFails, Run, Signal, StopPool, RunReturns
<1> QED
  BY <1>1, <1>2, <1>3 DEF ServerInv

(* A thread that runs shows that all servers were made.                    *)
LEMMA RunningAllMade ==
  ASSUME Goes, NEW c \in Contexts, Runs(c)
  PROVE  AllMade /\ main # "setup"
BY DEF Goes, Runs

(* A thread ends, with an exception or because its context was stopped.    *)
LEMMA ThreadsInv ==
  ASSUME ServerInv,
         \/ \E c \in Contexts : ThreadEnds(c)
         \/ \E s \in Servers : AcceptThrows(s)
  PROVE  ServerInv'
<1>1. CASE \E c \in Contexts : ThreadEnds(c)
  <2>1. PICK c \in Contexts : ThreadEnds(c)
    BY <1>1
  <2>2. ServerTypes'
    BY <2>1 DEF ServerInv, ServerTypes, ThreadEnds
  <2>3. AllMade /\ main # "setup"
    BY <2>1 DEF ServerInv, Goes, ThreadEnds
  <2>4. Goes'
    BY <2>1, <2>3 DEF ServerInv, Goes, Made, AllMade, ThreadEnds
  <2>5. LastMade' /\ Spread'
    BY <2>1, SpreadKept DEF ServerInv, ThreadEnds
  <2> QED
    BY <2>2, <2>4, <2>5 DEF ServerInv
<1>2. CASE \E s \in Servers : AcceptThrows(s)
  <2>1. PICK s \in Servers : AcceptThrows(s)
    BY <1>2
  <2>2. PICK c \in Contexts : c = acceptor[s]
    BY <2>1 DEF ServerInv, ServerTypes, Goes, Made, AcceptThrows
  <2>3. AllMade /\ main # "setup"
    BY <2>1, <2>2, RunningAllMade DEF ServerInv, AcceptThrows
  <2>4. ServerTypes'
    BY <2>1, <2>2 DEF ServerInv, ServerTypes, AcceptThrows, Dies
  <2>5. AllMade' /\ acceptor' = acceptor /\ socket' = socket /\ main' = main /\ signals' = signals
        /\ died' = died \cup {acceptor[s]} /\ armed' = [armed EXCEPT ![s] = FALSE]
    BY <2>1, <2>3 DEF AllMade, Made, AcceptThrows, Dies
  <2>6. \A t \in Servers : armed'[t] = armed[t] \/ acceptor'[t] \in died'
    BY <2>5 DEF ServerInv, ServerTypes
  <2>7. Goes'
    BY <2>3, <2>5, <2>6 DEF ServerInv, Goes, Made, AllMade
  <2>8. LastMade' /\ Spread'
    BY <2>1, SpreadKept DEF ServerInv, AcceptThrows
  <2> QED
    BY <2>4, <2>7, <2>8 DEF ServerInv
<1> QED
  BY <1>1, <1>2

(* The steps of a connection and its peer leave its context as it is.      *)
LEMMA ConnectionInv ==
  ASSUME ServerInv, NEW i \in DOMAIN conns,
         \/ PeerActs(i) \/ ConnectionThrows(i)
         \/ \E st \in {"started", "over"} : ConnectionStep(i, st)
  PROVE  ServerInv'
<1>1. conns \in Seq(ConnSet) /\ conns[i] \in ConnSet /\ conns # <<>>
  BY ElementOfSeq DEF ServerInv, ServerTypes
<1>2. PICK c \in Contexts : c = conns[i].at
  BY <1>1 DEF ConnSet
<1>3. PICK e \in ConnSet : conns' = [conns EXCEPT ![i] = e] /\ e.at = conns[i].at
  <2>1. CASE PeerActs(i)
    <3>1. conns' = [conns EXCEPT ![i] = [conns[i] EXCEPT !.input = TRUE]]
      BY <2>1 DEF PeerActs
    <3>2. /\ [conns[i] EXCEPT !.input = TRUE] \in ConnSet
          /\ [conns[i] EXCEPT !.input = TRUE].at = conns[i].at
      BY <1>1 DEF ConnSet
    <3> QED
      BY <3>1, <3>2
  <2>2. CASE \E st \in {"started", "over"} : Handled(i, st)
    BY <1>1, <2>2 DEF Handled, ConnSet
  <2> QED
    BY <2>1, <2>2 DEF ConnectionStep, ConnectionThrows
<1>4. AllMade /\ main # "setup"
  BY <1>1 DEF ServerInv, Goes
<1>5. /\ UNCHANGED <<main, nextContext, stopped, signals, signalled, acceptor, socket, armed, failures>>
      /\ \/ thread' = thread /\ died' = died
         \/ thread' = [thread EXCEPT ![c] = "ended"] /\ died' = died \cup {c}
  BY <1>2 DEF PeerActs, ConnectionStep, ConnectionThrows, Dies
<1>6. conns' \in Seq(ConnSet) /\ DOMAIN conns' = DOMAIN conns
  BY <1>1, <1>3, ExceptSeq
<1>7. \A j \in DOMAIN conns : conns'[j].at = conns[j].at
  BY <1>1, <1>3
<1>8. conns' = <<>> <=> conns = <<>>
  BY <1>1, <1>6, EmptySeq
<1>9. ServerTypes'
  BY <1>5, <1>6 DEF ServerInv, ServerTypes
<1>10. Goes'
  BY <1>4, <1>5, <1>8 DEF ServerInv, Goes, Made, AllMade
<1>11. LastMade' /\ Spread'
  BY <1>5, <1>6, <1>7, <1>8, SpreadKept DEF ServerInv
<1> QED
  BY <1>9, <1>10, <1>11 DEF ServerInv

(* Accepting, and failing to.                                              *)
LEMMA AcceptInv ==
  ASSUME ServerInv, NEW s \in Servers, Accept(s)
  PROVE  ServerInv'
<1>1. /\ conns' = Append(conns, [at |-> socket[s], state |-> Handshake(s), input |-> FALSE])
      /\ armed[s] /\ Runs(acceptor[s]) /\ DoAccept(s)
      /\ UNCHANGED <<main, thread, stopped, signals, signalled, acceptor, armed, died, failures>>
  BY DEF Accept
<1>2. acceptor[s] \in Contexts
  BY <1>1 DEF ServerInv, ServerTypes, Goes, Made
<1>3. AllMade /\ main # "setup"
  BY <1>1, <1>2, RunningAllMade DEF ServerInv
<1>4. socket \in [Servers -> Contexts] /\ nextContext \in Contexts
  BY <1>3 DEF ServerInv, ServerTypes, Goes, AllMade
<1>5. PICK e \in ConnSet : e = [at |-> socket[s], state |-> Handshake(s), input |-> FALSE] /\ e.at = socket[s]
  <2>1. PICK c \in Contexts, h \in {"handshake", "started", "over"} : c = socket[s] /\ h = Handshake(s)
    BY <1>4 DEF Handshake
  <2>2. [at |-> c, state |-> h, input |-> FALSE] \in ConnSet /\ [at |-> c, state |-> h, input |-> FALSE].at = c
    BY DEF ConnSet
  <2> QED
    BY <2>1, <2>2
<1>6. Get(0) = nextContext /\ Get(1) = Following(nextContext) /\ Get(1) \in Contexts
  BY GetIs DEF ServerInv
<1>7. socket' = [socket EXCEPT ![s] = nextContext] /\ nextContext' = Following(nextContext)
  BY <1>1, <1>6 DEF DoAccept
<1>8. conns' = Append(conns, e) /\ conns \in Seq(ConnSet)
  BY <1>1, <1>5 DEF ServerInv, ServerTypes
<1>9. conns' \in Seq(ConnSet) /\ conns' # <<>>
  BY <1>8, AppendProperties
<1>10. ServerTypes'
  BY <1>1, <1>4, <1>6, <1>7, <1>9 DEF ServerInv, ServerTypes
<1>11. Goes'
  BY <1>1, <1>3, <1>4, <1>7 DEF ServerInv, Goes, Made, AllMade
<1>12. LastMade'
  BY <1>9 DEF LastMade
<1>13. ASSUME failures' = 0 PROVE \E old, init, last, q : Handed(old, init, last, q)'
  <2>1. PICK old, init, last, q : Handed(old, init, last, q)
    <3>1. CASE conns = <<>>
      <4>1. PICK t \in Servers : nextContext = Following(socket[t])
        BY <1>1, <1>3, <1>13, <3>1 DEF ServerInv, LastMade, AllMade
      <4>2. Handed({}, socket, t, 0)
        BY <1>3, <3>1, <4>1, HandedFirst DEF ServerInv
      <4> QED
        BY <4>2
    <3>2. CASE conns # <<>>
      BY <1>1, <1>13, <3>2 DEF ServerInv, Spread
    <3> QED
      BY <3>1, <3>2
  <2>2. \E r : Handed(old \cup {s}, init, last, r)'
    BY <1>3, <1>5, <1>7, <1>8, <1>10, <2>1, HandedOn DEF ServerInv
  <2> QED
    BY <2>2
<1>14. Spread'
  BY <1>13 DEF Spread
<1> QED
  BY <1>10, <1>11, <1>12, <1>14 DEF ServerInv

(* An accept fails and the next one is started. *)
LEMMA AcceptErrorInv ==
  ASSUME ServerInv, NEW s \in Servers, AcceptError(s)
  PROVE  ServerInv'
<1>1. /\ armed[s] /\ Runs(acceptor[s]) /\ DoAccept(s) /\ failures' = failures + 1
      /\ UNCHANGED <<main, thread, stopped, signals, signalled, acceptor, armed, conns, died>>
  BY DEF AcceptError
<1>2. acceptor[s] \in Contexts
  BY <1>1 DEF ServerInv, ServerTypes, Goes, Made
<1>3. AllMade /\ main # "setup"
  BY <1>1, <1>2, RunningAllMade DEF ServerInv
<1>4. Get(0) \in Contexts /\ Get(1) \in Contexts
  BY GetIs DEF ServerInv
<1>5. ServerTypes'
  BY <1>1, <1>4 DEF ServerInv, ServerTypes, DoAccept
<1>6. Goes'
  <2>1. \A t \in Servers : socket'[t] \in Contexts
    BY <1>1, <1>3, <1>4 DEF ServerInv, ServerTypes, Goes, AllMade, DoAccept
  <2> QED
    BY <1>1, <1>3, <2>1 DEF ServerInv, Goes, Made, AllMade
<1>7. failures' # 0
  BY <1>1 DEF ServerInv, ServerTypes
<1> QED
  BY <1>5, <1>6, <1>7 DEF ServerInv, LastMade, Spread

(* Every step.                                                             *)
LEMMA ServerNextInv ==
  ASSUME ServerInv, [ServerNext]_serverVars
  PROVE  ServerInv'
<1>1. CASE UNCHANGED serverVars
  <2>1. ServerTypes' /\ Goes'
    BY <1>1 DEF serverVars, ServerInv, ServerTypes, Goes, Made, AllMade
  <2>2. LastMade' /\ Spread'
    BY <1>1, SpreadKept DEF serverVars, ServerInv
  <2> QED
    BY <2>1, <2>2 DEF ServerInv
<1>2. CASE ServerNext
  <2>1. CASE MakeSignalSet
    BY <2>1, MakeSignalSetInv
  <2>2. CASE MakeServerFails \/ Run \/ Signal \/ StopPool \/ RunReturns
    BY <2>2, DoRunInv
  <2>3. CASE (\E c \in Contexts : ThreadEnds(c)) \/ (\E s \in Servers : AcceptThrows(s))
    BY <2>3, ThreadsInv
  <2>4. CASE \E s \in Servers : MakeServer(s) \/ Accept(s) \/ AcceptError(s)
    BY <2>4, MakeServerInv, AcceptInv, AcceptErrorInv
  <2>5. CASE \E i \in DOMAIN conns : \/ PeerActs(i) \/ ConnectionThrows(i)
                                    \/ \E st \in {"started", "over"} : ConnectionStep(i, st)
    BY <2>5, ConnectionInv
  <2> QED
    BY <1>2, <2>1, <2>2, <2>3, <2>4, <2>5 DEF ServerNext, ServerStep
<1> QED
  BY <1>1, <1>2

(* Whatever fails, every server goes on accepting as long as the thread of *)
(* its acceptor lives, and the connections are spread over the pool, for   *)
(* any number of servers, threads and connections.                         *)
THEOREM ServersAlwaysGoOn == ServerSpec => []ServersGoOn
<1>1. ServerInv => ServersGoOn
  <2> SUFFICES ASSUME ServerInv PROVE ServersGoOn
    OBVIOUS
  <2>1. AcceptGoesOn
    BY DEF ServerInv, Goes, AllMade, AcceptGoesOn
  <2>2. Balanced
    BY SpreadIsBalanced DEF ServerInv
  <2> QED
    BY <2>1, <2>2 DEF ServersGoOn
<1> QED
  BY ServerInitInv, ServerNextInv, <1>1, PTL DEF ServerSpec

(***************************************************************************)
(* The command line options and the programs.  Three folds are looked at   *)
(* one element at a time: the copies that a growing vector makes of its    *)
(* groups, the values of an option, and the room before an untagged one.   *)
(***************************************************************************)

(* A set of natural numbers that is not empty has a least one.             *)
LEMMA LeastNat ==
  ASSUME NEW S \in SUBSET Nat, S # {}
  PROVE  \E n \in S : \A m \in S : n <= m
<1> DEFINE R == OpToRel(<, Nat)
<1>1. IsWellFoundedOn(R, Nat)
  BY NatLessThanWellFounded
<1>2. \A m, n \in Nat : <<m, n>> \in R <=> m < n
  BY DEF OpToRel
<1> HIDE DEF R
<1>3. PICK n \in S : \A m \in S : ~(<<m, n>> \in R)
  BY <1>1, WFMin
<1>4. \A m \in S : ~(m < n)
  BY <1>2, <1>3
<1>5. \A m \in S : n <= m
  BY <1>4
<1> QED
  BY <1>5

(* A set that contains 0 and with n the next number contains 0..b. *)
LEMMA UpTo ==
  ASSUME NEW b \in Nat, NEW S, 0 \in S, \A n \in 0..(b - 1) : n \in S => n + 1 \in S
  PROVE  \A n \in 0..b : n \in S
<1> DEFINE T == {n \in 0..b : n \notin S}
<1>1. SUFFICES ASSUME T # {} PROVE FALSE
  OBVIOUS
<1>2. T \in SUBSET Nat
  OBVIOUS
<1>3. PICK n \in T : \A m \in T : n <= m
  BY <1>1, <1>2, LeastNat
<1>4. n - 1 \in 0..(b - 1) /\ n - 1 \notin T /\ (n - 1) + 1 = n
  BY <1>3
<1>5. n - 1 \in S
  BY <1>4
<1> QED
  BY <1>3, <1>4, <1>5

(* A bounded set of numbers that is not empty has a greatest one. *)
LEMMA MaxIs ==
  ASSUME NEW n \in Nat, NEW S \in SUBSET (1..n), S # {}
  PROVE  Max(S) \in S /\ \A y \in S : y <= Max(S)
<1> DEFINE T == {n - i : i \in S}
<1>1. T \in SUBSET Nat /\ T # {}
  <2>1. \A i \in S : n - i \in Nat
    OBVIOUS
  <2> QED
    BY <2>1
<1>2. PICK m \in T : \A j \in T : m <= j
  BY <1>1, LeastNat
<1>3. PICK x \in S : m = n - x
  BY <1>2
<1>4. \A y \in S : n - y \in T
  OBVIOUS
<1>5. ASSUME NEW y \in S PROVE x >= y
  <2>1. x \in Nat /\ y \in Nat /\ m <= n - y
    BY <1>2, <1>4
  <2> QED
    BY <1>3, <2>1
<1>6. Max(S) \in S /\ \A y \in S : Max(S) >= y
  BY <1>3, <1>5 DEF Max
<1> QED
  BY <1>6

(* g folds the elements of l at the positions of a set, the last one last. *)
IsFold(F, base, l, n, g) ==
  \A S \in SUBSET (1..n) :
    g[S] = IF S = {} THEN base ELSE F[<<l[Max(S)], g[S \ {Max(S)}]>>]

(* The fold of a list exists: over the positions up to m for every m. *)
LEMMA FoldExists ==
  ASSUME NEW X, NEW R, NEW F \in [X \X R -> R], NEW base \in R, NEW n \in Nat, NEW l,
         \A i \in 1..n : l[i] \in X
  PROVE  \E g \in [SUBSET (1..n) -> R] : IsFold(F, base, l, n, g)
<1> DEFINE Step(g, S) == IF S = {} THEN base ELSE F[<<l[Max(S)], g[S \ {Max(S)}]>>]
           Is(m, g) == g \in [SUBSET (1..m) -> R] /\ \A S \in SUBSET (1..m) : g[S] = Step(g, S)
           A == {m \in 0..n : \E g : Is(m, g)}
<1>1. 0 \in A
  <2> DEFINE g == [S \in SUBSET (1..0) |-> base]
  <2>1. \A S \in SUBSET (1..0) : S = {}
    OBVIOUS
  <2>3. Is(0, g) /\ 0 \in 0..n
    BY <2>1
  <2> HIDE DEF g, Is
  <2> QED
    BY <2>3
<1>2. ASSUME NEW m \in 0..(n - 1), m \in A PROVE m + 1 \in A
  <2>1. PICK g : Is(m, g)
    BY <1>2
  <2> DEFINE T == 1..(m + 1)
             h == [S \in SUBSET T |-> IF m + 1 \in S THEN F[<<l[m + 1], g[S \ {m + 1}]>>] ELSE g[S]]
  <2>2. m + 1 \in 1..n /\ m + 1 \in 0..n /\ m + 1 \in Nat /\ l[m + 1] \in X
    OBVIOUS
  <2>3. \A S \in SUBSET T : /\ S \ {m + 1} \in SUBSET (1..m)
                            /\ m + 1 \notin S => S \in SUBSET (1..m)
    OBVIOUS
  <2>4. h \in [SUBSET T -> R]
    <3>1. ASSUME NEW S \in SUBSET T
          PROVE  (IF m + 1 \in S THEN F[<<l[m + 1], g[S \ {m + 1}]>>] ELSE g[S]) \in R
      <4>1. g[S \ {m + 1}] \in R
        BY <2>1, <2>3
      <4>2. <<l[m + 1], g[S \ {m + 1}]>> \in X \X R
        BY <2>2, <4>1
      <4>3. m + 1 \notin S => g[S] \in R
        BY <2>1, <2>3
      <4> QED
        BY <4>2, <4>3
    <3> QED
      BY <3>1
  <2>5. ASSUME NEW S \in SUBSET T PROVE h[S] = Step(h, S)
    <3>1. CASE m + 1 \in S
      <4>1. Max(S) = m + 1
        <5>1. PICK x : x = Max(S)
          OBVIOUS
        <5>2. x \in S /\ \A y \in S : y <= x
          BY <2>2, <3>1, <5>1, MaxIs
        <5> QED
          BY <2>2, <3>1, <5>1, <5>2
      <4>2. S \ {m + 1} \in SUBSET T /\ m + 1 \notin S \ {m + 1}
        OBVIOUS
      <4>3. h[S \ {m + 1}] = g[S \ {m + 1}]
        BY <4>2
      <4>4. h[S] = F[<<l[m + 1], g[S \ {m + 1}]>>]
        BY <3>1
      <4> HIDE DEF h
      <4> QED
        BY <3>1, <4>1, <4>3, <4>4
    <3>2. CASE m + 1 \notin S
      <4>1. S \in SUBSET (1..m) /\ h[S] = g[S]
        BY <2>3, <3>2
      <4>2. g[S] = Step(g, S)
        BY <2>1, <4>1
      <4>3. CASE S = {}
        BY <4>1, <4>2, <4>3
      <4>4. CASE S # {}
        <5>1. PICK W : W = S \ {Max(S)}
          OBVIOUS
        <5>2. W \in SUBSET T /\ m + 1 \notin W
          BY <3>2, <5>1
        <5>3. h[W] = g[W]
          BY <5>2
        <5> HIDE DEF h
        <5> QED
          BY <4>1, <4>2, <4>4, <5>1, <5>3
      <4> QED
        BY <4>3, <4>4
    <3> QED
      BY <3>1, <3>2
  <2>6. Is(m + 1, h)
    <3> HIDE DEF h
    <3> QED
      BY <2>4, <2>5
  <2> HIDE DEF h, Is
  <2> QED
    BY <2>2, <2>6
<1>3. n \in A
  <2> HIDE DEF A
  <2>1. n \in 0..n
    OBVIOUS
  <2> QED
    BY <1>1, <1>2, <2>1, UpTo
<1> QED
  BY <1>3 DEF IsFold

(* One step of ValuesOf and of RoomBefore. *)
Named(names, r, a) == IF a.name \in names THEN Append(r, a.value) ELSE r
Roomier(n, opt) == IF Tagged(opt) THEN n ELSE n + opt.max

(* What an argument may be given. *)
ValueSet == Nat \cup {None}

(* The values are collected argument by argument. *)
LEMMA ValuesIs ==
  ASSUME NEW names, NEW args \in Seq(ArgumentSet), args # <<>>
  PROVE  \E f : /\ f[0] = <<>> /\ ValuesOf(names, args) = f[(Len(args) - 1)]
                /\ \A k \in 1..(Len(args) - 1) : f[k] = Named(names, f[k - 1], Arguments(args)[k])
<1>0. PICK n \in Nat : \E l : /\ n = (Len(args) - 1) /\ l = Arguments(args) /\ DOMAIN l = 1..n
                              /\ \A i \in 1..n : l[i] \in ArgumentSet
  <2>1. Len(args) \in Nat \ {0} /\ \A i \in 1..Len(args) : args[i] \in ArgumentSet
    BY LenProperties, ElementOfSeq, EmptySeq
  <2>2. DOMAIN Arguments(args) = 1..(Len(args) - 1) /\ \A i \in 1..(Len(args) - 1) : Arguments(args)[i] = args[i + 1]
    BY DEF Arguments
  <2>3. \A i \in 1..(Len(args) - 1) : Arguments(args)[i] \in ArgumentSet
    BY <2>1, <2>2
  <2>4. Len(args) - 1 \in Nat
    BY <2>1
  <2> QED
    BY <2>2, <2>3, <2>4
<1>1. PICK l : /\ n = (Len(args) - 1) /\ l = Arguments(args) /\ DOMAIN l = 1..n
               /\ \A i \in 1..n : l[i] \in ArgumentSet
  BY <1>0
<1> DEFINE F == [p \in ArgumentSet \X Seq(ValueSet) |-> Named(names, p[2], p[1])]
           Is(g) == g = [S \in SUBSET (1..n) |->
                           IF S = {} THEN <<>> ELSE Named(names, g[S \ {Max(S)}], l[Max(S)])]
<1>2. F \in [ArgumentSet \X Seq(ValueSet) -> Seq(ValueSet)] /\ <<>> \in Seq(ValueSet)
  BY EmptySeq, AppendProperties DEF Named, ArgumentSet, ValueSet
<1>3. \A x \in ArgumentSet, r \in Seq(ValueSet) : F[<<x, r>>] = Named(names, r, x)
  OBVIOUS
<1>4. \E g : Is(g)
  <2> HIDE DEF F
  <2>1. PICK g \in [SUBSET (1..n) -> Seq(ValueSet)] : IsFold(F, <<>>, l, n, g)
    <3>1. \A i \in 1..n : l[i] \in ArgumentSet
      BY <1>1
    <3> QED
      BY <1>2, <3>1, FoldExists, Zenon
  <2>2. \A S \in SUBSET (1..n) : g[S] = IF S = {} THEN <<>> ELSE F[<<l[Max(S)], g[S \ {Max(S)}]>>]
    BY <2>1 DEF IsFold
  <2>3. ASSUME NEW S \in SUBSET (1..n), S # {} PROVE g[S] = Named(names, g[S \ {Max(S)}], l[Max(S)])
    <3>1. PICK x : x = Max(S)
      OBVIOUS
    <3>2. x \in 1..n /\ S \ {x} \in SUBSET (1..n)
      BY <2>3, <3>1, MaxIs
    <3>3. l[x] \in ArgumentSet /\ g[S \ {x}] \in Seq(ValueSet)
      BY <1>1, <3>2
    <3>4. g[S] = F[<<l[x], g[S \ {x}]>>]
      BY <2>2, <2>3, <3>1
    <3> QED
      BY <1>3, <3>1, <3>3, <3>4
  <2>4. {} \in SUBSET (1..n) /\ g[{}] = <<>>
    BY <2>2
  <2> DEFINE B(S) == IF S = {} THEN <<>> ELSE Named(names, g[S \ {Max(S)}], l[Max(S)])
  <2>5. \A S \in SUBSET (1..n) : g[S] = B(S)
    BY <2>3, <2>4
  <2>6. Is(g)
    <3> HIDE DEF B
    <3>1. g = [S \in SUBSET (1..n) |-> B(S)]
      BY <2>5
    <3> QED
      BY <3>1 DEF B
  <2> QED
    BY <2>6
<1> DEFINE g == CHOOSE g : Is(g)
<1>5. Is(g)
  BY <1>4
<1>6. ValuesOf(names, args) = g[1..n]
  BY <1>1, Zenon DEF ValuesOf, FoldLeft, MapThenFoldSet, Named
<1> HIDE DEF g
<1>7. \A S \in SUBSET (1..n) : g[S] = IF S = {} THEN <<>> ELSE Named(names, g[S \ {Max(S)}], l[Max(S)])
  BY <1>5
<1> HIDE DEF Is
<1>8. ASSUME NEW k \in 1..n PROVE g[1..k] = Named(names, g[1..(k - 1)], l[k])
  <2>1. (1..k) \in SUBSET (1..n) /\ (1..k) # {} /\ (1..k) \ {k} = 1..(k - 1)
    <3>1. n \in Nat /\ k \in Nat /\ 1 <= k /\ k <= n
      OBVIOUS
    <3>2. k \in 1..k /\ \A i \in 1..k : i \in 1..n
      BY <3>1
    <3>3. \A i : i \in (1..k) \ {k} <=> i \in 1..(k - 1)
      BY <3>1
    <3> QED
      BY <3>2, <3>3
  <2>2. Max(1..k) = k
    <3>1. PICK x : x = Max(1..k)
      OBVIOUS
    <3>2. x \in 1..k /\ \A y \in 1..k : y <= x
      BY <2>1, <3>1, MaxIs
    <3> QED
      BY <3>1, <3>2
  <2> QED
    BY <1>7, <2>1, <2>2
<1>9. 1..0 = {} /\ g[1..0] = <<>>
  <2>1. 1..0 = {} /\ {} \in SUBSET (1..n)
    OBVIOUS
  <2> QED
    BY <1>7, <2>1
<1> DEFINE f == [k \in 0..n |-> g[1..k]]
<1>10. /\ 0 \in 0..n /\ n \in 0..n
       /\ \A k \in 1..n : k \in 0..n /\ k - 1 \in 0..n
  OBVIOUS
<1>11. \A k \in 0..n : f[k] = g[1..k]
  OBVIOUS
<1> HIDE DEF f
<1>12. f[0] = <<>> /\ ValuesOf(names, args) = f[n] /\ \A k \in 1..n : f[k] = Named(names, f[k - 1], l[k])
  BY <1>6, <1>8, <1>9, <1>10, <1>11
<1> QED
  BY <1>1, <1>12

(* The room is added up option by option. *)
LEMMA RoomIs ==
  ASSUME NEW group \in Seq(OptionSet), NEW m \in 1..(Len(group) + 1)
  PROVE  \E f : /\ f[0] = 0 /\ RoomBefore(group, m) = f[(m - 1)]
                /\ \A k \in 1..(m - 1) : f[k] = Roomier(f[k - 1], SubSeq(group, 1, m - 1)[k])
<1>0. PICK n \in Nat : \E l : /\ n = (m - 1) /\ l = SubSeq(group, 1, m - 1) /\ DOMAIN l = 1..n
                              /\ \A i \in 1..n : l[i] \in OptionSet
  <2>1. /\ Len(group) \in Nat /\ m - 1 \in Nat /\ m - 1 <= Len(group)
        /\ \A i \in 1..Len(group) : group[i] \in OptionSet
    BY LenProperties, ElementOfSeq
  <2>2. DOMAIN SubSeq(group, 1, m - 1) = 1..(m - 1) /\ \A i \in 1..(m - 1) : SubSeq(group, 1, m - 1)[i] = group[i]
    BY <2>1, SubSeqProperties
  <2>3. \A i \in 1..(m - 1) : SubSeq(group, 1, m - 1)[i] \in OptionSet
    BY <2>1, <2>2
  <2> QED
    BY <2>1, <2>2, <2>3
<1>1. PICK l : /\ n = (m - 1) /\ l = SubSeq(group, 1, m - 1) /\ DOMAIN l = 1..n
               /\ \A i \in 1..n : l[i] \in OptionSet
  BY <1>0
<1> DEFINE F == [p \in OptionSet \X Nat |-> Roomier(p[2], p[1])]
           Is(g) == g = [S \in SUBSET (1..n) |->
                           IF S = {} THEN 0 ELSE Roomier(g[S \ {Max(S)}], l[Max(S)])]
<1>2. F \in [OptionSet \X Nat -> Nat] /\ 0 \in Nat
  <2>1. \A opt \in OptionSet : opt.max \in Nat
    BY DEF OptionSet
  <2> QED
    BY <2>1 DEF Roomier
<1>3. \A x \in OptionSet, r \in Nat : F[<<x, r>>] = Roomier(r, x)
  OBVIOUS
<1>4. \E g : Is(g)
  <2> HIDE DEF F
  <2>1. PICK g \in [SUBSET (1..n) -> Nat] : IsFold(F, 0, l, n, g)
    <3>1. \A i \in 1..n : l[i] \in OptionSet
      BY <1>1
    <3> QED
      BY <1>2, <3>1, FoldExists, Zenon
  <2>2. \A S \in SUBSET (1..n) : g[S] = IF S = {} THEN 0 ELSE F[<<l[Max(S)], g[S \ {Max(S)}]>>]
    BY <2>1 DEF IsFold
  <2>3. ASSUME NEW S \in SUBSET (1..n), S # {} PROVE g[S] = Roomier(g[S \ {Max(S)}], l[Max(S)])
    <3>1. PICK x : x = Max(S)
      OBVIOUS
    <3>2. x \in 1..n /\ S \ {x} \in SUBSET (1..n)
      BY <2>3, <3>1, MaxIs
    <3>3. l[x] \in OptionSet /\ g[S \ {x}] \in Nat
      BY <1>1, <3>2
    <3>4. g[S] = F[<<l[x], g[S \ {x}]>>]
      BY <2>2, <2>3, <3>1
    <3> QED
      BY <1>3, <3>1, <3>3, <3>4
  <2>4. {} \in SUBSET (1..n) /\ g[{}] = 0
    BY <2>2
  <2> DEFINE B(S) == IF S = {} THEN 0 ELSE Roomier(g[S \ {Max(S)}], l[Max(S)])
  <2>5. \A S \in SUBSET (1..n) : g[S] = B(S)
    BY <2>3, <2>4
  <2>6. Is(g)
    <3> HIDE DEF B
    <3>1. g = [S \in SUBSET (1..n) |-> B(S)]
      BY <2>5
    <3> QED
      BY <3>1 DEF B
  <2> QED
    BY <2>6
<1> DEFINE g == CHOOSE g : Is(g)
<1>5. Is(g)
  BY <1>4
<1>6. RoomBefore(group, m) = g[1..n]
  BY <1>1, Zenon DEF RoomBefore, FoldLeft, MapThenFoldSet, Roomier
<1> HIDE DEF g
<1>7. \A S \in SUBSET (1..n) : g[S] = IF S = {} THEN 0 ELSE Roomier(g[S \ {Max(S)}], l[Max(S)])
  BY <1>5
<1> HIDE DEF Is
<1>8. ASSUME NEW k \in 1..n PROVE g[1..k] = Roomier(g[1..(k - 1)], l[k])
  <2>1. (1..k) \in SUBSET (1..n) /\ (1..k) # {} /\ (1..k) \ {k} = 1..(k - 1)
    <3>1. n \in Nat /\ k \in Nat /\ 1 <= k /\ k <= n
      OBVIOUS
    <3>2. k \in 1..k /\ \A i \in 1..k : i \in 1..n
      BY <3>1
    <3>3. \A i : i \in (1..k) \ {k} <=> i \in 1..(k - 1)
      BY <3>1
    <3> QED
      BY <3>2, <3>3
  <2>2. Max(1..k) = k
    <3>1. PICK x : x = Max(1..k)
      OBVIOUS
    <3>2. x \in 1..k /\ \A y \in 1..k : y <= x
      BY <2>1, <3>1, MaxIs
    <3> QED
      BY <3>1, <3>2
  <2> QED
    BY <1>7, <2>1, <2>2
<1>9. 1..0 = {} /\ g[1..0] = 0
  <2>1. 1..0 = {} /\ {} \in SUBSET (1..n)
    OBVIOUS
  <2> QED
    BY <1>7, <2>1
<1> DEFINE f == [k \in 0..n |-> g[1..k]]
<1>10. /\ 0 \in 0..n /\ n \in 0..n
       /\ \A k \in 1..n : k \in 0..n /\ k - 1 \in 0..n
  OBVIOUS
<1>11. \A k \in 0..n : f[k] = g[1..k]
  OBVIOUS
<1> HIDE DEF f
<1>12. f[0] = 0 /\ RoomBefore(group, m) = f[n] /\ \A k \in 1..n : f[k] = Roomier(f[k - 1], l[k])
  BY <1>6, <1>8, <1>9, <1>10, <1>11
<1> QED
  BY <1>1, <1>12

(* What is given for some names: the values of all arguments so named. *)
LEMMA ValuesType ==
  ASSUME NEW names, NEW args \in Seq(ArgumentSet), args # <<>>
  PROVE  /\ ValuesOf(names, args) \in Seq(ValueSet)
         /\ \A i \in 2..Len(args) : args[i].name \in names =>
              \E j \in 1..Len(ValuesOf(names, args)) : ValuesOf(names, args)[j] = args[i].value
<1>1. PICK n \in Nat : n = Len(args) - 1 /\ \A i \in 1..(n + 1) : args[i] \in ArgumentSet
  <2>1. Len(args) \in Nat \ {0} /\ \A i \in 1..Len(args) : args[i] \in ArgumentSet
    BY LenProperties, ElementOfSeq, EmptySeq
  <2>2. PICK m : m = Len(args) - 1
    OBVIOUS
  <2>3. m \in Nat /\ Len(args) = m + 1
    BY <2>1, <2>2
  <2> QED
    BY <2>1, <2>2, <2>3
<1>2. PICK f : /\ f[0] = <<>> /\ ValuesOf(names, args) = f[n]
               /\ \A k \in 1..n : f[k] = Named(names, f[k - 1], Arguments(args)[k])
  <2>1. PICK f : /\ f[0] = <<>> /\ ValuesOf(names, args) = f[Len(args) - 1]
                 /\ \A k \in 1..(Len(args) - 1) : f[k] = Named(names, f[k - 1], Arguments(args)[k])
    BY ValuesIs, Zenon
  <2> QED
    BY <1>1, <2>1
<1>3. \A k \in 1..n : Arguments(args)[k] = args[k + 1]
  BY <1>1 DEF Arguments
<1> DEFINE Has(k, i) == \E j \in 1..Len(f[k]) : f[k][j] = args[i + 1].value
           In(k) == /\ f[k] \in Seq(ValueSet)
                    /\ \A i \in 1..k : args[i + 1].name \in names => Has(k, i)
           A == {k \in 0..n : In(k)}
<1>4. 0 \in A
  <2>1. f[0] \in Seq(ValueSet) /\ 0 \in 0..n
    BY <1>2, EmptySeq
  <2>2. \A i \in 1..0 : FALSE
    OBVIOUS
  <2> QED
    BY <2>1, <2>2
<1>5. ASSUME NEW k \in 0..(n - 1), k \in A PROVE k + 1 \in A
  <2>1. PICK m \in 1..n : m = k + 1 /\ m - 1 = k /\ m \in 0..n /\ m + 1 \in 1..(n + 1)
    BY <1>1
  <2>2. PICK r, a : r = f[k] /\ a = args[m + 1]
    OBVIOUS
  <2>3. /\ r \in Seq(ValueSet) /\ \A i \in 1..k : args[i + 1].name \in names => Has(k, i)
    BY <1>5, <2>2
  <2>4. a.value \in ValueSet
    BY <1>1, <2>1, <2>2 DEF ArgumentSet, ValueSet
  <2>5. f[m] = Named(names, r, a)
    BY <1>2, <1>3, <2>1, <2>2
  <2>6. CASE a.name \in names
    <3>1. f[m] = Append(r, a.value)
      BY <2>5, <2>6 DEF Named
    <3>2. /\ f[m] \in Seq(ValueSet) /\ Len(f[m]) = Len(r) + 1 /\ f[m][Len(r) + 1] = a.value /\ Len(r) \in Nat
          /\ \A j \in 1..Len(r) : f[m][j] = r[j]
      BY <2>3, <2>4, <3>1, AppendProperties, LenProperties
    <3>3. Has(m, m)
      <4>1. Len(r) + 1 \in 1..Len(f[m])
        BY <3>2
      <4> QED
        BY <2>2, <3>2, <4>1
    <3>4. ASSUME NEW i \in 1..k, Has(k, i) PROVE Has(m, i)
      <4>1. PICK j \in 1..Len(r) : r[j] = args[i + 1].value
        BY <2>2, <3>4
      <4>2. j \in 1..Len(f[m]) /\ f[m][j] = r[j]
        BY <3>2
      <4> QED
        BY <4>1, <4>2
    <3>5. \A i \in 1..m : i = m \/ i \in 1..k
      BY <2>1
    <3> HIDE DEF Has
    <3> QED
      BY <2>1, <2>3, <3>2, <3>3, <3>4, <3>5
  <2>7. CASE a.name \notin names
    <3>1. f[m] = r
      BY <2>5, <2>7 DEF Named
    <3>2. \A i \in 1..m : args[i + 1].name \in names => i \in 1..k
      BY <2>1, <2>2, <2>7
    <3>3. \A i \in 1..k : Has(k, i) => Has(m, i)
      BY <2>2, <3>1
    <3> HIDE DEF Has
    <3> QED
      BY <2>1, <2>3, <3>1, <3>2, <3>3
  <2> QED
    BY <2>6, <2>7
<1>6. In(n)
  <2> HIDE DEF A
  <2>1. \A k \in 0..n : k \in A
    BY <1>4, <1>5, UpTo
  <2> QED
    BY <2>1 DEF A
<1>7. ASSUME NEW i \in 2..Len(args) PROVE \E m \in 1..n : i = m + 1
  <2>1. i - 1 \in 1..n /\ i = (i - 1) + 1
    BY <1>1
  <2> QED
    BY <2>1
<1> QED
  BY <1>2, <1>6, <1>7

(* The room for untagged arguments is a number. *)
LEMMA RoomType ==
  ASSUME NEW group \in Seq(OptionSet), NEW m \in 1..(Len(group) + 1)
  PROVE  RoomBefore(group, m) \in Nat
<1>1. PICK n \in Nat : n = m - 1 /\ n <= Len(group)
  <2>1. Len(group) \in Nat
    BY LenProperties
  <2> QED
    BY <2>1
<1>2. PICK f : /\ f[0] = 0 /\ RoomBefore(group, m) = f[n]
               /\ \A k \in 1..n : f[k] = Roomier(f[k - 1], SubSeq(group, 1, n)[k])
  BY <1>1, RoomIs
<1>3. ASSUME NEW k \in 1..n PROVE SubSeq(group, 1, n)[k].max \in Nat
  <2>1. Len(group) \in Nat /\ k \in 1..Len(group) /\ SubSeq(group, 1, n)[k] = group[k]
    BY <1>1, LenProperties, SubSeqProperties
  <2>2. group[k] \in OptionSet
    BY <2>1, ElementOfSeq
  <2> QED
    BY <2>1, <2>2 DEF OptionSet
<1> DEFINE A == {k \in 0..n : f[k] \in Nat}
<1>4. 0 \in A
  BY <1>1, <1>2
<1>5. ASSUME NEW k \in 0..(n - 1), k \in A PROVE k + 1 \in A
  <2>1. PICK j \in 1..n : j = k + 1 /\ j - 1 = k /\ j \in 0..n
    BY <1>1
  <2>2. f[j] = Roomier(f[k], SubSeq(group, 1, n)[j]) /\ SubSeq(group, 1, n)[j].max \in Nat
    BY <1>2, <1>3, <2>1
  <2> QED
    BY <1>5, <2>1, <2>2, SMTT(40) DEF Roomier
<1>6. \A k \in 0..n : k \in A
  <2> HIDE DEF A
  <2> QED
    BY <1>4, <1>5, UpTo
<1> QED
  BY <1>1, <1>2, <1>6

(* A piece of a sequence is a sequence. *)
LEMMA PieceType ==
  ASSUME NEW S, NEW s \in Seq(S), NEW a \in Nat, NEW b \in Nat, b <= Len(s)
  PROVE  SubSeq(s, a + 1, b) \in Seq(S)
<1>1. Len(s) \in Nat /\ \A i \in 1..Len(s) : s[i] \in S
  BY LenProperties, ElementOfSeq
<1>2. CASE a <= b
  BY <1>1, <1>2, SubSeqProperties
<1>3. CASE b < a
  BY <1>1, <1>3
<1> QED
  BY <1>2, <1>3

(* What is given for an option is a sequence of values. *)
LEMMA GivenType ==
  ASSUME NEW group \in Seq(OptionSet), NEW args \in Seq(ArgumentSet), args # <<>>, NEW k \in DOMAIN group
  PROVE  Given(group, k, args) \in Seq(ValueSet)
<1>1. /\ Len(group) \in Nat /\ k \in 1..(Len(group) + 1) /\ group[k] \in OptionSet
  BY LenProperties, ElementOfSeq
<1>2. PICK u : u = ValuesOf({""}, args) /\ u \in Seq(ValueSet)
  BY ValuesType
<1>3. PICK r \in Nat, m \in Nat : r = RoomBefore(group, k) /\ m = group[k].max
  BY <1>1, RoomType DEF OptionSet
<1>4. PICK b : b = IF r + m < Len(u) THEN r + m ELSE Len(u)
  OBVIOUS
<1>5. b \in Nat /\ b <= Len(u)
  <2>1. Len(u) \in Nat
    BY <1>2, LenProperties
  <2> QED
    BY <1>3, <1>4, <2>1
<1>6. SubSeq(u, r + 1, b) \in Seq(ValueSet)
  BY <1>2, <1>3, <1>5, PieceType
<1>7. ValuesOf(NamesOf(group[k]), args) \in Seq(ValueSet)
  BY ValuesType
<1> QED
  BY <1>2, <1>3, <1>4, <1>6, <1>7 DEF Given

(* An option has room for what is given in a group that matches. *)
LEMMA SeenIsGiven ==
  ASSUME NEW group \in Seq(OptionSet), NEW args \in Seq(ArgumentSet), args # <<>>, NEW k \in DOMAIN group,
         Matches(group, args)
  PROVE  Seen(group, k, args) = Given(group, k, args)
<1>1. PICK given : given = Given(group, k, args) /\ given \in Seq(ValueSet)
  BY GivenType
<1>2. Len(given) \in group[k].min..group[k].max
  BY <1>1 DEF Matches
<1>3. group[k].min \in Nat /\ group[k].max \in Nat
  <2>1. group[k] \in OptionSet
    BY LenProperties, ElementOfSeq
  <2> QED
    BY <2>1 DEF OptionSet
<1>4. Len(given) \in Nat /\ (IF Len(given) < group[k].max THEN Len(given) ELSE group[k].max) = Len(given)
  BY <1>1, <1>2, <1>3, LenProperties
<1>5. SubSeq(given, 1, Len(given)) = given
  BY <1>1, <1>4
<1> QED
  BY <1>1, <1>4, <1>5 DEF Seen

-----------------------------------------------------------------------------
(* All option objects, and the table of a group that was just made.        *)
ObjSet == UNION {Objects(g) : g \in DOMAIN groups}

Fresh(g) == [group |-> g, seen |-> [k \in DOMAIN groups[g] |-> <<>>]]

(* The type of mem, S being the values that tables may hold.               *)
Blanks == {[k \in DOMAIN groups[g] |-> <<>>] : g \in DOMAIN groups}

TableSet(S) == [group : DOMAIN groups, seen : S]

MemSet(S) == [arg : [ObjSet -> Nat], table : Seq(TableSet(S)), live : SUBSET Nat]

(* Types: a program that is declared, and numbers of tables. *)
OptionTypes ==
  /\ program \in DOMAIN Declared
  /\ \E S : mem \in MemSet(S)
  /\ list \in Seq(Nat) /\ options \in Seq(Nat)
  /\ capacity \in Nat /\ parses \in Nat

(* The groups of the list are made before those of the vector; a table in  *)
(* either is alive, and the vector has the groups in their order.          *)
Alive ==
  /\ Len(list) <= Len(groups) /\ Len(options) <= Len(groups)
  /\ options # <<>> => list = <<>> \/ Len(list) = Len(groups)
  /\ list = <<>> /\ options # <<>> => Len(options) = Len(groups)
  /\ mem.live \subseteq 1..Len(mem.table)
  /\ \A i \in DOMAIN list : list[i] \in mem.live
  /\ \A i \in DOMAIN options :
       /\ options[i] \in mem.live
       /\ mem.table[options[i]].group = i
       /\ DOMAIN mem.table[options[i]].seen = DOMAIN groups[i]
  /\ \A i \in DOMAIN list, j \in DOMAIN options : list[i] # options[j]

(* An option that is an object of a group in the vector points to the      *)
(* table of such a group, another one to a table of the list.              *)
PointsTo(arg, vector, o) ==
  \/ \E g \in DOMAIN vector : o \in Objects(g) /\ arg[o] = vector[g]
  \/ /\ \A g \in DOMAIN vector : o \notin Objects(g)
     /\ arg[o] = 0 \/ \E i \in DOMAIN list : arg[o] = list[i]

(* So does every option. *)
Pointing == \A o \in ObjSet : PointsTo(mem.arg, options, o)

(* The outcome of the latest parse. *)
Answered ==
  parses > 0 =>
    /\ list = <<>> /\ options # <<>>
    /\ argv \in Seq(ArgumentSet) /\ active \in 0..Len(options)
    /\ active = 0 <=> argv = <<>> \/ \A g \in DOMAIN groups : ~Matches(groups[g], argv)
    /\ active # 0 =>
         /\ argv # <<>> /\ Matches(groups[active], argv)
         /\ \A g \in 1..(active - 1) : ~Matches(groups[g], argv)
         /\ mem.table[options[active]].seen =
              [k \in DOMAIN groups[active] |-> Seen(groups[active], k, argv)]

(* The inductive invariant. *)
OptionInv == OptionTypes /\ Alive /\ Pointing /\ Answered

(* The declared groups. *)
LEMMA GroupsAre ==
  ASSUME program \in DOMAIN Declared
  PROVE  /\ groups \in Seq(Seq(OptionSet)) /\ Len(groups) \in Nat /\ DOMAIN groups = 1..Len(groups)
         /\ \A g \in DOMAIN groups : groups[g] \in Seq(OptionSet)
<1>1. groups \in Seq(Seq(OptionSet))
  BY OptionsAssumption DEF groups
<1> QED
  BY <1>1, LenProperties, ElementOfSeq

(* There may be other entries in the tables. *)
LEMMA MoreEntries ==
  ASSUME NEW S, NEW R, S \subseteq R, NEW m \in MemSet(S)
  PROVE  m \in MemSet(R)
<1>1. TableSet(S) \subseteq TableSet(R)
  BY DEF TableSet
<1>2. m.table \in Seq(TableSet(S))
  BY DEF MemSet
<1>3. \A i \in 1..Len(m.table) : m.table[i] \in TableSet(R)
  BY <1>1, <1>2, ElementOfSeq
<1>4. m.table \in Seq(TableSet(R))
  <2>1. PICK n \in Nat : n = Len(m.table) /\ m.table \in [1..n -> TableSet(S)]
    BY <1>2, LenProperties
  <2>2. m.table \in [1..n -> TableSet(R)]
    BY <1>3, <2>1
  <2> QED
    BY <2>2, SeqDef
<1> QED
  BY <1>4 DEF MemSet

(* A group that is made has a new table, to which its options point. *)
LEMMA OptionGroupIs ==
  ASSUME NEW S, Blanks \subseteq S, NEW m \in MemSet(S), NEW g \in DOMAIN groups
  PROVE  /\ OptionGroup(m, g) \in MemSet(S)
         /\ Len(m.table) \in Nat /\ Len(OptionGroup(m, g).table) = Len(m.table) + 1
         /\ \A t \in 1..Len(m.table) : OptionGroup(m, g).table[t] = m.table[t]
         /\ OptionGroup(m, g).table[Len(m.table) + 1] = Fresh(g)
         /\ OptionGroup(m, g).live = m.live \cup {Len(m.table) + 1}
         /\ \A o \in ObjSet :
              OptionGroup(m, g).arg[o] = IF o \in Objects(g) THEN Len(m.table) + 1 ELSE m.arg[o]
<1>1. PICK L, fresh, r : L = Len(m.table) /\ fresh = Fresh(g) /\ r = OptionGroup(m, g)
  OBVIOUS
<1>2. m.arg \in [ObjSet -> Nat] /\ m.table \in Seq(TableSet(S)) /\ m.live \in SUBSET Nat
  BY DEF MemSet
<1>3. fresh \in TableSet(S)
  <2>1. [k \in DOMAIN groups[g] |-> <<>>] \in S
    BY DEF Blanks
  <2> QED
    BY <1>1, <2>1 DEF Fresh, TableSet
<1>4. /\ L \in Nat /\ L + 1 \in Nat
      /\ Append(m.table, fresh) \in Seq(TableSet(S)) /\ Len(Append(m.table, fresh)) = L + 1
      /\ \A t \in 1..L : Append(m.table, fresh)[t] = m.table[t]
      /\ Append(m.table, fresh)[L + 1] = fresh
  BY <1>1, <1>2, <1>3, LenProperties, AppendProperties
<1>5. r = [arg |-> [o \in ObjSet |-> IF o \in Objects(g) THEN L + 1 ELSE m.arg[o]],
           table |-> Append(m.table, fresh), live |-> m.live \cup {L + 1}]
  BY <1>1, <1>2 DEF OptionGroup, Fresh
<1>6. [o \in ObjSet |-> IF o \in Objects(g) THEN L + 1 ELSE m.arg[o]] \in [ObjSet -> Nat]
  BY <1>2, <1>4
<1>7. r \in MemSet(S)
  BY <1>2, <1>4, <1>5, <1>6 DEF MemSet
<1> QED
  BY <1>1, <1>4, <1>5, <1>7

(* The memory after the first n groups have been copied. *)
Copies(b, n) == FoldLeft(OptionGroup, b, [i \in 1..n |-> i])

(* The copies are made one after the other. *)
OneByOne(b, n) ==
  \E f : /\ f[0] = b /\ Copies(b, n) = f[n]
         /\ \A k \in 1..n : f[k] = OptionGroup(f[k - 1], k)

(* A growing vector copies its groups. *)
LEMMA CopiesAre ==
  ASSUME NEW E, Blanks \subseteq E, NEW base \in MemSet(E), NEW m \in 0..Len(groups), groups \in Seq(Seq(OptionSet))
  PROVE  OneByOne(base, m)
<1>0. PICK n \in Nat : \E l : /\ n = m /\ l = [i \in 1..m |-> i] /\ DOMAIN l = 1..n
                              /\ \A i \in 1..n : l[i] \in (DOMAIN groups)
  <2>1. Len(groups) \in Nat /\ DOMAIN groups = 1..Len(groups)
    BY LenProperties
  <2>2. PICK l : l = [i \in 1..m |-> i]
    OBVIOUS
  <2>3. m \in Nat /\ \A i \in 1..m : i \in DOMAIN groups
    BY <2>1
  <2>4. DOMAIN l = 1..m /\ \A i \in 1..m : l[i] = i
    BY <2>2
  <2> QED
    BY <2>2, <2>3, <2>4
<1>1. PICK l : /\ n = m /\ l = [i \in 1..m |-> i] /\ DOMAIN l = 1..n
               /\ \A i \in 1..n : l[i] \in (DOMAIN groups)
  BY <1>0
<1> DEFINE F == [p \in (DOMAIN groups) \X MemSet(E) |-> OptionGroup(p[2], p[1])]
           Is(g) == g = [S \in SUBSET (1..n) |->
                           IF S = {} THEN base ELSE OptionGroup(g[S \ {Max(S)}], l[Max(S)])]
<1>2. F \in [(DOMAIN groups) \X MemSet(E) -> MemSet(E)] /\ base \in MemSet(E)
  BY OptionGroupIs
<1>3. \A x \in (DOMAIN groups), r \in MemSet(E) : F[<<x, r>>] = OptionGroup(r, x)
  OBVIOUS
<1>4. \E g : Is(g)
  <2> HIDE DEF F
  <2>1. PICK g \in [SUBSET (1..n) -> MemSet(E)] : IsFold(F, base, l, n, g)
    <3>1. \A i \in 1..n : l[i] \in (DOMAIN groups)
      BY <1>1
    <3> QED
      BY <1>2, <3>1, FoldExists, Zenon
  <2>2. \A S \in SUBSET (1..n) : g[S] = IF S = {} THEN base ELSE F[<<l[Max(S)], g[S \ {Max(S)}]>>]
    BY <2>1 DEF IsFold
  <2>3. ASSUME NEW S \in SUBSET (1..n), S # {} PROVE g[S] = OptionGroup(g[S \ {Max(S)}], l[Max(S)])
    <3>1. PICK x : x = Max(S)
      OBVIOUS
    <3>2. x \in 1..n /\ S \ {x} \in SUBSET (1..n)
      BY <2>3, <3>1, MaxIs
    <3>3. l[x] \in (DOMAIN groups) /\ g[S \ {x}] \in MemSet(E)
      BY <1>1, <3>2
    <3>4. g[S] = F[<<l[x], g[S \ {x}]>>]
      BY <2>2, <2>3, <3>1
    <3> QED
      BY <1>3, <3>1, <3>3, <3>4
  <2>4. {} \in SUBSET (1..n) /\ g[{}] = base
    BY <2>2
  <2> DEFINE B(S) == IF S = {} THEN base ELSE OptionGroup(g[S \ {Max(S)}], l[Max(S)])
  <2>5. \A S \in SUBSET (1..n) : g[S] = B(S)
    BY <2>3, <2>4
  <2>6. Is(g)
    <3> HIDE DEF B
    <3>1. g = [S \in SUBSET (1..n) |-> B(S)]
      BY <2>5
    <3> QED
      BY <3>1 DEF B
  <2> QED
    BY <2>6
<1> DEFINE g == CHOOSE g : Is(g)
<1>5. Is(g)
  BY <1>4
<1>6. Copies(base, m) = g[1..n]
  BY <1>1, ZenonT(60) DEF Copies, FoldLeft, MapThenFoldSet
<1> HIDE DEF g
<1>7. \A S \in SUBSET (1..n) : g[S] = IF S = {} THEN base ELSE OptionGroup(g[S \ {Max(S)}], l[Max(S)])
  BY <1>5
<1> HIDE DEF Is
<1>8. ASSUME NEW k \in 1..n PROVE g[1..k] = OptionGroup(g[1..(k - 1)], l[k])
  <2>1. (1..k) \in SUBSET (1..n) /\ (1..k) # {} /\ (1..k) \ {k} = 1..(k - 1)
    <3>1. n \in Nat /\ k \in Nat /\ 1 <= k /\ k <= n
      OBVIOUS
    <3>2. k \in 1..k /\ \A i \in 1..k : i \in 1..n
      BY <3>1
    <3>3. \A i : i \in (1..k) \ {k} <=> i \in 1..(k - 1)
      BY <3>1
    <3> QED
      BY <3>2, <3>3
  <2>2. Max(1..k) = k
    <3>1. PICK x : x = Max(1..k)
      OBVIOUS
    <3>2. x \in 1..k /\ \A y \in 1..k : y <= x
      BY <2>1, <3>1, MaxIs
    <3> QED
      BY <3>1, <3>2
  <2> QED
    BY <1>7, <2>1, <2>2
<1>9. 1..0 = {} /\ g[1..0] = base
  <2>1. 1..0 = {} /\ {} \in SUBSET (1..n)
    OBVIOUS
  <2> QED
    BY <1>7, <2>1
<1> DEFINE f == [k \in 0..n |-> g[1..k]]
<1>10. /\ 0 \in 0..n /\ n \in 0..n
       /\ \A k \in 1..n : k \in 0..n /\ k - 1 \in 0..n
  OBVIOUS
<1>11. \A k \in 0..n : f[k] = g[1..k]
  OBVIOUS
<1> HIDE DEF f
<1>12. f[0] = base /\ Copies(base, m) = f[n] /\ \A k \in 1..n : f[k] = OptionGroup(f[k - 1], l[k])
  BY <1>6, <1>8, <1>9, <1>10, <1>11
<1> QED
  BY <1>1, <1>12 DEF OneByOne

(* r is b after the first k groups have been copied. *)
Copied(b, r, k) ==
  /\ Len(r.table) = Len(b.table) + k
  /\ \A t \in 1..Len(b.table) : r.table[t] = b.table[t]
  /\ \A i \in 1..k : r.table[Len(b.table) + i] = Fresh(i)
  /\ r.live = b.live \cup ((Len(b.table) + 1)..(Len(b.table) + k))
  /\ \A o \in ObjSet :
       \/ \E i \in 1..k : o \in Objects(i) /\ r.arg[o] = Len(b.table) + i
       \/ (\A i \in 1..k : o \notin Objects(i)) /\ r.arg[o] = b.arg[o]

(* One more copy. *)
LEMMA CopyStep ==
  ASSUME NEW E, Blanks \subseteq E, NEW b \in MemSet(E), NEW r \in MemSet(E), NEW k \in Nat,
         k + 1 \in DOMAIN groups, Copied(b, r, k)
  PROVE  OptionGroup(r, k + 1) \in MemSet(E) /\ Copied(b, OptionGroup(r, k + 1), k + 1)
<1>1. PICK s, L : s = OptionGroup(r, k + 1) /\ L = Len(b.table)
  OBVIOUS
<1>2. L \in Nat
  BY <1>1, LenProperties DEF MemSet
<1>3. /\ Len(r.table) = L + k
      /\ \A t \in 1..L : r.table[t] = b.table[t]
      /\ \A i \in 1..k : r.table[L + i] = Fresh(i)
      /\ r.live = b.live \cup ((L + 1)..(L + k))
      /\ \A o \in ObjSet : \/ \E i \in 1..k : o \in Objects(i) /\ r.arg[o] = L + i
                           \/ (\A i \in 1..k : o \notin Objects(i)) /\ r.arg[o] = b.arg[o]
  BY <1>1 DEF Copied
<1>4. /\ s \in MemSet(E) /\ Len(s.table) = L + k + 1
      /\ \A t \in 1..(L + k) : s.table[t] = r.table[t]
      /\ s.table[L + k + 1] = Fresh(k + 1)
      /\ s.live = r.live \cup {L + k + 1}
      /\ \A o \in ObjSet : s.arg[o] = IF o \in Objects(k + 1) THEN L + k + 1 ELSE r.arg[o]
  <2>1. PICK g, M : g \in DOMAIN groups /\ g = k + 1 /\ M = Len(r.table)
    OBVIOUS
  <2>2. /\ s \in MemSet(E) /\ Len(s.table) = M + 1
        /\ \A t \in 1..M : s.table[t] = r.table[t]
        /\ s.table[M + 1] = Fresh(g)
        /\ s.live = r.live \cup {M + 1}
        /\ \A o \in ObjSet : s.arg[o] = IF o \in Objects(g) THEN M + 1 ELSE r.arg[o]
    BY <1>1, <2>1, OptionGroupIs
  <2> QED
    BY <1>3, <2>1, <2>2
<1>5. \A t \in 1..L : s.table[t] = b.table[t]
  <2>1. \A t \in 1..L : t \in 1..(L + k)
    BY <1>2
  <2> QED
    BY <1>3, <1>4, <2>1
<1>6. \A i \in 1..(k + 1) : s.table[L + i] = Fresh(i)
  <2>1. ASSUME NEW i \in 1..(k + 1), i # k + 1 PROVE i \in 1..k /\ L + i \in 1..(L + k)
    BY <1>2, <2>1
  <2>2. L + (k + 1) = L + k + 1
    BY <1>2
  <2> QED
    BY <1>3, <1>4, <2>1, <2>2
<1>7. s.live = b.live \cup ((L + 1)..(L + (k + 1)))
  <2>1. (L + 1)..(L + (k + 1)) = ((L + 1)..(L + k)) \cup {L + k + 1}
    BY <1>2
  <2> QED
    BY <1>3, <1>4, <2>1
<1>8. ASSUME NEW o \in ObjSet
      PROVE  \/ \E i \in 1..(k + 1) : o \in Objects(i) /\ s.arg[o] = L + i
             \/ (\A i \in 1..(k + 1) : o \notin Objects(i)) /\ s.arg[o] = b.arg[o]
  <2>1. CASE o \in Objects(k + 1)
    <3>1. k + 1 \in 1..(k + 1) /\ s.arg[o] = L + (k + 1)
      BY <1>2, <1>4, <2>1
    <3> QED
      BY <2>1, <3>1
  <2>2. CASE o \notin Objects(k + 1)
    <3>1. s.arg[o] = r.arg[o] /\ (\A i \in 1..k : i \in 1..(k + 1)) /\ \A i \in 1..(k + 1) : i = k + 1 \/ i \in 1..k
      BY <1>4, <2>2
    <3>2. \/ \E i \in 1..k : o \in Objects(i) /\ r.arg[o] = L + i
          \/ (\A i \in 1..k : o \notin Objects(i)) /\ r.arg[o] = b.arg[o]
      BY <1>3
    <3> QED
      BY <2>2, <3>1, <3>2
  <2> QED
    BY <2>1, <2>2
<1> QED
  <2>1. Len(s.table) = L + (k + 1)
    BY <1>2, <1>4
  <2> QED
    BY <1>1, <1>4, <1>5, <1>6, <1>7, <1>8, <2>1 DEF Copied

(* All of them. *)
LEMMA CopiesMade ==
  ASSUME NEW E, Blanks \subseteq E, NEW b \in MemSet(E), NEW n \in 0..Len(groups), groups \in Seq(Seq(OptionSet))
  PROVE  \E r \in MemSet(E) : r = Copies(b, n) /\ Copied(b, r, n)
<1>1. Len(groups) \in Nat /\ DOMAIN groups = 1..Len(groups) /\ n \in Nat
  BY LenProperties
<1>2. PICK f : /\ f[0] = b /\ Copies(b, n) = f[n]
               /\ \A k \in 1..n : f[k] = OptionGroup(f[k - 1], k)
  <2>1. OneByOne(b, n)
    BY CopiesAre
  <2> QED
    BY <2>1, Zenon DEF OneByOne
<1> DEFINE A == {k \in 0..n : f[k] \in MemSet(E) /\ Copied(b, f[k], k)}
<1>3. 0 \in A
  <2>1. PICK L \in Nat : L = Len(b.table)
    BY LenProperties DEF MemSet
  <2>2. (\A i \in 1..0 : FALSE) /\ (L + 1)..(L + 0) = {} /\ L + 0 = L /\ 0 \in 0..n
    BY <1>1
  <2> QED
    BY <1>2, <2>1, <2>2 DEF Copied
<1>4. ASSUME NEW k \in 0..(n - 1), k \in A PROVE k + 1 \in A
  <2>1. k \in Nat /\ k + 1 \in 1..n /\ (k + 1) - 1 = k /\ k + 1 \in 0..n /\ k + 1 \in DOMAIN groups
    BY <1>1
  <2>2. f[k + 1] = OptionGroup(f[k], k + 1)
    BY <1>2, <2>1
  <2> QED
    BY <1>4, <2>1, <2>2, CopyStep
<1>5. \A k \in 0..n : k \in A
  <2> HIDE DEF A
  <2> QED
    BY <1>1, <1>3, <1>4, UpTo
<1> QED
  BY <1>1, <1>2, <1>5

-----------------------------------------------------------------------------
(* The program, and with it its groups, stays the same. *)
LEMMA SameGroups ==
  ASSUME program' = program
  PROVE  /\ groups' = groups /\ ObjSet' = ObjSet
         /\ \A g : Objects(g)' = Objects(g)
         /\ \A S : MemSet(S)' = MemSet(S)
<1>1. groups' = groups
  BY DEF groups
<1>2. \A g : Objects(g)' = Objects(g)
  BY <1>1 DEF Objects, Object
<1>3. ObjSet' = ObjSet
  BY <1>1, <1>2 DEF ObjSet
<1> QED
  BY <1>1, <1>2, <1>3 DEF MemSet, TableSet

(* The memory with room for new tables. *)
LEMMA MemoryIs ==
  ASSUME OptionTypes
  PROVE  \E E : Blanks \subseteq E /\ mem \in MemSet(E)
<1>1. PICK S : mem \in MemSet(S)
  BY DEF OptionTypes
<1>2. mem \in MemSet(S \cup Blanks)
  BY <1>1, MoreEntries
<1> QED
  BY <1>2

(* At the start. *)
LEMMA OptionsInitInv == OptionsInit => OptionInv
<1> SUFFICES ASSUME OptionsInit PROVE OptionInv
  OBVIOUS
<1> USE DEF OptionsInit
<1>1. /\ list = <<>> /\ options = <<>> /\ parses = 0 /\ capacity = 0 /\ program \in DOMAIN Declared
      /\ Len(groups) \in Nat /\ Len(list) = 0 /\ Len(options) = 0 /\ DOMAIN list = {} /\ DOMAIN options = {}
  BY GroupsAre
<1>2. mem \in MemSet({})
  BY EmptySeq DEF MemSet, ObjSet
<1>3. OptionTypes
  <2>1. <<>> \in Seq(Nat) /\ 0 \in Nat
    BY EmptySeq
  <2>2. \E S : mem \in MemSet(S)
    BY <1>2
  <2> QED
    BY <1>1, <2>1, <2>2 DEF OptionTypes
<1>4. Alive
  BY <1>1 DEF Alive
<1>5. Pointing
  BY <1>1 DEF Pointing, PointsTo, ObjSet
<1>6. Answered
  BY <1>1 DEF Answered
<1> QED
  BY <1>3, <1>4, <1>5, <1>6 DEF OptionInv

(* A group of the initializer list. *)
LEMMA MakeGroupInv ==
  ASSUME OptionInv, MakeGroup
  PROVE  OptionInv'
<1>1. /\ groups \in Seq(Seq(OptionSet)) /\ Len(groups) \in Nat /\ DOMAIN groups = 1..Len(groups)
  BY GroupsAre DEF OptionInv, OptionTypes
<1>2. /\ options = <<>> /\ Len(list) < Len(groups)
      /\ mem' = OptionGroup(mem, Len(list) + 1) /\ list' = Append(list, Len(mem.table) + 1)
      /\ program' = program /\ options' = options /\ capacity' = capacity /\ parses' = parses
  BY DEF MakeGroup
<1>3. /\ groups' = groups /\ ObjSet' = ObjSet
      /\ \A g : Objects(g)' = Objects(g)
      /\ \A S : MemSet(S)' = MemSet(S)
  BY <1>2, SameGroups
<1>4. PICK E : Blanks \subseteq E /\ mem \in MemSet(E)
  BY MemoryIs DEF OptionInv
<1>5. PICK n \in Nat, L \in Nat : n = Len(list) /\ L = Len(mem.table) /\ n < Len(groups) /\ n + 1 \in DOMAIN groups
  BY <1>1, <1>2, <1>4, LenProperties DEF OptionInv, OptionTypes, MemSet
<1>6. /\ mem' \in MemSet(E) /\ Len(mem'.table) = L + 1
      /\ mem'.live = mem.live \cup {L + 1}
      /\ \A o \in ObjSet : mem'.arg[o] = IF o \in Objects(n + 1) THEN L + 1 ELSE mem.arg[o]
  BY <1>2, <1>4, <1>5, OptionGroupIs
<1>7. /\ list' \in Seq(Nat) /\ Len(list') = n + 1 /\ DOMAIN list' = 1..(n + 1) /\ list'[n + 1] = L + 1
      /\ DOMAIN list = 1..n /\ \A i \in 1..n : list'[i] = list[i]
  BY <1>2, <1>5, LenProperties, AppendProperties DEF OptionInv, OptionTypes
<1>8. DOMAIN options = {} /\ Len(options) = 0 /\ options' = <<>>
  BY <1>2
<1>9. OptionTypes'
  BY <1>2, <1>3, <1>6, <1>7 DEF OptionInv, OptionTypes
<1>10. Alive'
  <2>1. mem'.live \subseteq 1..Len(mem'.table)
    BY <1>5, <1>6 DEF OptionInv, Alive
  <2>2. ASSUME NEW i \in 1..(n + 1) PROVE list'[i] \in mem'.live
    <3>1. i = n + 1 \/ i \in 1..n
      BY <1>5
    <3> QED
      BY <1>5, <1>6, <1>7, <3>1 DEF OptionInv, Alive
  <2> QED
    BY <1>1, <1>2, <1>3, <1>5, <1>7, <1>8, <2>1, <2>2 DEF Alive
<1>11. Pointing'
  <2>1. ASSUME NEW o \in ObjSet PROVE mem'.arg[o] = 0 \/ \E i \in 1..(n + 1) : mem'.arg[o] = list'[i]
    <3>1. CASE o \in Objects(n + 1)
      BY <1>5, <1>6, <1>7, <3>1
    <3>2. CASE o \notin Objects(n + 1)
      <4>1. mem'.arg[o] = mem.arg[o]
        BY <1>6, <3>2
      <4>2. mem.arg[o] = 0 \/ \E i \in 1..n : mem.arg[o] = list[i]
        BY <1>7, <1>8 DEF OptionInv, Pointing, PointsTo
      <4>3. \A i \in 1..n : i \in 1..(n + 1)
        BY <1>5
      <4> QED
        BY <1>7, <4>1, <4>2, <4>3
    <3> QED
      BY <3>1, <3>2
  <2> QED
    BY <1>2, <1>3, <1>7, <1>8, <2>1, SMTT(40) DEF Pointing, PointsTo
<1>12. Answered'
  BY <1>2 DEF OptionInv, Answered
<1> QED
  BY <1>9, <1>10, <1>11, <1>12 DEF OptionInv

(* A group is copied into the vector, where there is room. *)
LEMMA PushedInv ==
  ASSUME OptionInv, PushBack, Len(options) < capacity
  PROVE  OptionInv'
<1>1. /\ groups \in Seq(Seq(OptionSet)) /\ Len(groups) \in Nat /\ DOMAIN groups = 1..Len(groups)
  BY GroupsAre DEF OptionInv, OptionTypes
<1>2. /\ Len(list) = Len(groups) /\ Len(options) < Len(groups)
      /\ mem' = OptionGroup(mem, Len(options) + 1) /\ options' = Append(options, Len(mem.table) + 1)
      /\ program' = program /\ list' = list /\ capacity' = capacity /\ parses' = parses
  BY DEF PushBack
<1>3. /\ groups' = groups /\ ObjSet' = ObjSet
      /\ \A g : Objects(g)' = Objects(g)
      /\ \A S : MemSet(S)' = MemSet(S)
  BY <1>2, SameGroups
<1>4. PICK E : Blanks \subseteq E /\ mem \in MemSet(E)
  BY MemoryIs DEF OptionInv
<1>5. PICK n \in Nat, L \in Nat : n = Len(options) /\ L = Len(mem.table) /\ n < Len(groups) /\ n + 1 \in DOMAIN groups
  BY <1>1, <1>2, <1>4, LenProperties DEF OptionInv, OptionTypes, MemSet
<1>6. /\ mem' \in MemSet(E) /\ Len(mem'.table) = L + 1
      /\ \A t \in 1..L : mem'.table[t] = mem.table[t]
      /\ mem'.table[L + 1] = Fresh(n + 1)
      /\ mem'.live = mem.live \cup {L + 1}
      /\ \A o \in ObjSet : mem'.arg[o] = IF o \in Objects(n + 1) THEN L + 1 ELSE mem.arg[o]
  BY <1>2, <1>4, <1>5, OptionGroupIs
<1>7. /\ options' \in Seq(Nat) /\ Len(options') = n + 1 /\ DOMAIN options' = 1..(n + 1) /\ options'[n + 1] = L + 1
      /\ DOMAIN options = 1..n /\ \A i \in 1..n : options'[i] = options[i]
      /\ list # <<>> /\ options' # <<>>
  BY <1>2, <1>5, LenProperties, AppendProperties, SMTT(40) DEF OptionInv, OptionTypes
<1>8. mem.live \subseteq 1..L /\ L + 1 \notin mem.live
  BY <1>5 DEF OptionInv, Alive
<1>9. OptionTypes'
  BY <1>2, <1>3, <1>6, <1>7 DEF OptionInv, OptionTypes
<1>10. Alive'
  <2>1. mem'.live \subseteq 1..Len(mem'.table)
    BY <1>5, <1>6, <1>8
  <2>2. ASSUME NEW i \in 1..(n + 1)
        PROVE  /\ options'[i] \in mem'.live /\ mem'.table[options'[i]].group = i
               /\ DOMAIN mem'.table[options'[i]].seen = DOMAIN groups[i]
               /\ \A j \in DOMAIN list : list[j] # options'[i]
    <3>1. CASE i = n + 1
      <4>1. \A j \in DOMAIN list : list[j] \in mem.live
        BY DEF OptionInv, Alive
      <4> QED
        BY <1>6, <1>7, <1>8, <3>1, <4>1 DEF Fresh
    <3>2. CASE i \in 1..n
      <4>1. /\ options[i] \in mem.live /\ mem.table[options[i]].group = i
            /\ DOMAIN mem.table[options[i]].seen = DOMAIN groups[i]
            /\ \A j \in DOMAIN list : list[j] # options[i]
        BY <1>7, <3>2 DEF OptionInv, Alive
      <4>2. options'[i] = options[i] /\ mem'.table[options[i]] = mem.table[options[i]]
        BY <1>6, <1>7, <1>8, <3>2, <4>1
      <4> QED
        BY <1>6, <4>1, <4>2
    <3> QED
      BY <1>5, <3>1, <3>2
  <2>3. \A i \in DOMAIN list : list[i] \in mem'.live
    BY <1>6 DEF OptionInv, Alive
  <2>4. Len(options') <= Len(groups)
    BY <1>1, <1>5, <1>7
  <2> QED
    BY <1>1, <1>2, <1>3, <1>7, <2>1, <2>2, <2>3, <2>4 DEF OptionInv, Alive
<1>11. Pointing'
  <2>1. ASSUME NEW o \in ObjSet
        PROVE  \/ \E g \in 1..(n + 1) : o \in Objects(g) /\ mem'.arg[o] = options'[g]
               \/ /\ \A g \in 1..(n + 1) : o \notin Objects(g)
                  /\ mem'.arg[o] = 0 \/ \E i \in DOMAIN list : mem'.arg[o] = list[i]
    <3>1. CASE o \in Objects(n + 1)
      <4>1. n + 1 \in 1..(n + 1) /\ mem'.arg[o] = options'[n + 1]
        BY <1>5, <1>6, <1>7, <3>1
      <4> QED
        BY <3>1, <4>1
    <3>2. CASE o \notin Objects(n + 1)
      <4>1. mem'.arg[o] = mem.arg[o]
        BY <1>6, <3>2
      <4>2. \/ \E g \in 1..n : o \in Objects(g) /\ mem.arg[o] = options[g]
            \/ /\ \A g \in 1..n : o \notin Objects(g)
               /\ mem.arg[o] = 0 \/ \E i \in DOMAIN list : mem.arg[o] = list[i]
        BY <1>7 DEF OptionInv, Pointing, PointsTo
      <4>3. (\A i \in 1..n : i \in 1..(n + 1)) /\ \A i \in 1..(n + 1) : i = n + 1 \/ i \in 1..n
        BY <1>5
      <4> QED
        BY <1>7, <3>2, <4>1, <4>2, <4>3
    <3> QED
      BY <3>1, <3>2
  <2> QED
    BY <1>2, <1>3, <1>7, <2>1 DEF Pointing, PointsTo
<1>12. Answered'
  BY <1>2, <1>7 DEF OptionInv, Answered
<1> QED
  BY <1>9, <1>10, <1>11, <1>12 DEF OptionInv

(* The vector is full and moves to new storage. *)
LEMMA GrownInv ==
  ASSUME OptionInv, PushBack, ~(Len(options) < capacity)
  PROVE  OptionInv'
<1>1. /\ groups \in Seq(Seq(OptionSet)) /\ Len(groups) \in Nat /\ DOMAIN groups = 1..Len(groups)
  BY GroupsAre DEF OptionInv, OptionTypes
<1>2. /\ Len(list) = Len(groups) /\ Len(options) < Len(groups) /\ Grow(Len(options))
      /\ program' = program /\ list' = list /\ parses' = parses
  BY DEF PushBack
<1>3. /\ groups' = groups /\ ObjSet' = ObjSet
      /\ \A g : Objects(g)' = Objects(g)
      /\ \A S : MemSet(S)' = MemSet(S)
  BY <1>2, SameGroups
<1>4. PICK E : Blanks \subseteq E /\ mem \in MemSet(E)
  BY MemoryIs DEF OptionInv
<1>5. PICK n \in Nat, L \in Nat : /\ n = Len(options) /\ L = Len(mem.table) /\ n < Len(groups)
                                  /\ n + 1 \in DOMAIN groups /\ n \in 0..Len(groups)
  <2>1. Len(options) \in Nat /\ Len(mem.table) \in Nat
    BY <1>4, LenProperties DEF OptionInv, OptionTypes, MemSet
  <2>2. Len(options) + 1 \in DOMAIN groups /\ Len(options) \in 0..Len(groups)
    BY <1>1, <1>2, <2>1
  <2> QED
    BY <1>2, <2>1, <2>2
<1>6. PICK b \in MemSet(E) :
        /\ b = OptionGroup(mem, n + 1) /\ Len(b.table) = L + 1
        /\ \A t \in 1..L : b.table[t] = mem.table[t]
        /\ b.table[L + 1] = Fresh(n + 1)
        /\ b.live = mem.live \cup {L + 1}
        /\ \A o \in ObjSet : b.arg[o] = IF o \in Objects(n + 1) THEN L + 1 ELSE mem.arg[o]
  <2>1. PICK g \in DOMAIN groups : g = n + 1
    BY <1>5
  <2>2. PICK b : b = OptionGroup(mem, g)
    OBVIOUS
  <2>3. /\ b \in MemSet(E) /\ Len(b.table) = Len(mem.table) + 1
        /\ \A t \in 1..Len(mem.table) : b.table[t] = mem.table[t]
        /\ b.table[Len(mem.table) + 1] = Fresh(g)
        /\ b.live = mem.live \cup {Len(mem.table) + 1}
        /\ \A o \in ObjSet : b.arg[o] = IF o \in Objects(g) THEN Len(mem.table) + 1 ELSE mem.arg[o]
    BY <1>4, <2>2, OptionGroupIs
  <2> QED
    BY <1>5, <2>1, <2>2, <2>3
<1>7. PICK r \in MemSet(E) : r = Copies(b, n) /\ Copied(b, r, n)
  BY <1>1, <1>4, <1>5, CopiesMade
<1>8. /\ Len(r.table) = L + 1 + n
      /\ \A t \in 1..(L + 1) : r.table[t] = b.table[t]
      /\ \A i \in 1..n : r.table[L + 1 + i] = Fresh(i)
      /\ r.live = b.live \cup ((L + 1 + 1)..(L + 1 + n))
      /\ \A o \in ObjSet :
           \/ \E i \in 1..n : o \in Objects(i) /\ r.arg[o] = L + 1 + i
           \/ (\A i \in 1..n : o \notin Objects(i)) /\ r.arg[o] = b.arg[o]
  BY <1>6, <1>7, ZenonT(60) DEF Copied
<1>9. /\ mem' = [r EXCEPT !.live = @ \ Range(options)]
      /\ options' = Append([i \in 1..n |-> L + 1 + i], L + 1)
      /\ capacity' = IF n = 0 THEN 1 ELSE 2 * n
  BY <1>2, <1>5, <1>6, <1>7 DEF Grow, Freed, Copies
<1>10. /\ options' \in Seq(Nat) /\ Len(options') = n + 1 /\ DOMAIN options' = 1..(n + 1)
       /\ options'[n + 1] = L + 1 /\ \A i \in 1..n : options'[i] = L + 1 + i
       /\ list # <<>> /\ options' # <<>>
  <2>1. PICK s : s = [i \in 1..n |-> L + 1 + i]
    OBVIOUS
  <2>2. s \in [1..n -> Nat] /\ \A i \in 1..n : s[i] = L + 1 + i
    BY <1>5, <2>1
  <2>3. s \in Seq(Nat) /\ Len(s) = n
    BY <2>2, SeqDef, LenProperties
  <2>4. L + 1 \in Nat
    BY <1>5
  <2> QED
    BY <1>2, <1>5, <1>9, <2>1, <2>2, <2>3, <2>4, LenProperties, AppendProperties DEF OptionInv, OptionTypes
<1>11. DOMAIN options = 1..n /\ \A x : x \in Range(options) <=> \E i \in 1..n : x = options[i]
  BY <1>5, LenProperties DEF OptionInv, OptionTypes, Range
<1>12. /\ mem' \in MemSet(E) /\ mem'.table = r.table /\ mem'.arg = r.arg
       /\ mem'.live = r.live \ Range(options)
  BY <1>7, <1>9 DEF MemSet
<1>13. /\ mem.live \subseteq 1..L /\ Range(options) \subseteq mem.live
  BY <1>5, <1>11 DEF OptionInv, Alive
<1>14. OptionTypes'
  <2>1. capacity' \in Nat
    BY <1>5, <1>9
  <2> QED
    BY <1>2, <1>3, <1>10, <1>12, <2>1 DEF OptionInv, OptionTypes
<1>15. Alive'
  <2>1. \A x \in mem'.live : x \in 1..(L + 1 + n)
    <3>1. \A x \in 1..L : x \in 1..(L + 1 + n)
      BY <1>5
    <3>2. L + 1 \in 1..(L + 1 + n) /\ \A x \in (L + 1 + 1)..(L + 1 + n) : x \in 1..(L + 1 + n)
      BY <1>5
    <3> QED
      BY <1>6, <1>8, <1>12, <1>13, <3>1, <3>2
  <2>2. ASSUME NEW i \in 1..(n + 1)
        PROVE  /\ options'[i] \in mem'.live /\ mem'.table[options'[i]].group = i
               /\ DOMAIN mem'.table[options'[i]].seen = DOMAIN groups[i]
               /\ options'[i] \notin 1..L
    <3>1. CASE i = n + 1
      <4>1. L + 1 \in 1..(L + 1) /\ L + 1 \notin 1..L
        BY <1>5
      <4> QED
        <5>1. options'[i] = L + 1 /\ mem'.table[L + 1] = Fresh(i)
          BY <1>6, <1>8, <1>10, <1>12, <3>1, <4>1
        <5>2. L + 1 \in mem'.live
          BY <1>6, <1>8, <1>12, <1>13, <4>1
        <5> QED
          BY <4>1, <5>1, <5>2 DEF Fresh
    <3>2. CASE i \in 1..n
      <4>1. L + 1 + i \in (L + 1 + 1)..(L + 1 + n) /\ L + 1 + i \notin 1..L
        BY <1>5, <3>2
      <4> QED
        <5>1. options'[i] = L + 1 + i /\ mem'.table[L + 1 + i] = Fresh(i)
          BY <1>8, <1>10, <1>12, <3>2
        <5>2. L + 1 + i \in mem'.live
          BY <1>8, <1>12, <1>13, <4>1
        <5> QED
          BY <4>1, <5>1, <5>2 DEF Fresh
    <3> QED
      BY <1>5, <3>1, <3>2
  <2>3. ASSUME NEW i \in DOMAIN list PROVE list[i] \in mem'.live /\ list[i] \in 1..L
    <3>1. list[i] \in mem.live /\ list[i] \notin Range(options)
      BY <1>11 DEF OptionInv, Alive
    <3> QED
      BY <1>6, <1>8, <1>12, <1>13, <3>1
  <2>4. Len(options') <= Len(groups) /\ Len(list) <= Len(groups)
    BY <1>1, <1>2, <1>5, <1>10
  <2> QED
    BY <1>2, <1>3, <1>8, <1>10, <1>12, <2>1, <2>2, <2>3, <2>4 DEF Alive
<1>16. Pointing'
  <2>1. ASSUME NEW o \in ObjSet
        PROVE  \/ \E g \in 1..(n + 1) : o \in Objects(g) /\ mem'.arg[o] = options'[g]
               \/ /\ \A g \in 1..(n + 1) : o \notin Objects(g)
                  /\ mem'.arg[o] = 0 \/ \E i \in DOMAIN list : mem'.arg[o] = list[i]
    <3>1. (\A i \in 1..n : i \in 1..(n + 1)) /\ (\A i \in 1..(n + 1) : i = n + 1 \/ i \in 1..n) /\ n + 1 \in 1..(n + 1)
      BY <1>5
    <3>2. CASE \E i \in 1..n : o \in Objects(i) /\ r.arg[o] = L + 1 + i
      BY <1>10, <1>12, <3>1, <3>2
    <3>3. CASE (\A i \in 1..n : o \notin Objects(i)) /\ r.arg[o] = b.arg[o]
      <4>1. CASE o \in Objects(n + 1)
        BY <1>6, <1>10, <1>12, <3>1, <3>3, <4>1
      <4>2. CASE o \notin Objects(n + 1)
        <5>1. mem'.arg[o] = mem.arg[o]
          BY <1>6, <1>12, <3>3, <4>2
        <5>2. mem.arg[o] = 0 \/ \E i \in DOMAIN list : mem.arg[o] = list[i]
          BY <1>11, <3>3 DEF OptionInv, Pointing, PointsTo
        <5> QED
          BY <3>1, <3>3, <4>2, <5>1, <5>2
      <4> QED
        BY <4>1, <4>2
    <3> QED
      BY <1>8, <3>2, <3>3
  <2> QED
    BY <1>2, <1>3, <1>10, <2>1 DEF Pointing, PointsTo
<1>17. Answered'
  BY <1>2, <1>10 DEF OptionInv, Answered
<1> QED
  BY <1>14, <1>15, <1>16, <1>17 DEF OptionInv

(* The list goes out of scope. *)
LEMMA ConstructedInv ==
  ASSUME OptionInv, Constructed
  PROVE  OptionInv'
<1>1. /\ groups \in Seq(Seq(OptionSet)) /\ Len(groups) \in Nat /\ DOMAIN groups = 1..Len(groups)
  BY GroupsAre DEF OptionInv, OptionTypes
<1>2. /\ list # <<>> /\ Len(options) = Len(groups)
      /\ mem' = [mem EXCEPT !.live = @ \ Range(list)] /\ list' = <<>>
      /\ program' = program /\ options' = options /\ capacity' = capacity /\ parses' = parses
  BY DEF Constructed, Freed
<1>3. /\ groups' = groups /\ ObjSet' = ObjSet
      /\ \A g : Objects(g)' = Objects(g)
      /\ \A S : MemSet(S)' = MemSet(S)
  BY <1>2, SameGroups
<1>4. PICK E : mem \in MemSet(E)
  BY MemoryIs DEF OptionInv
<1>5. /\ mem' \in MemSet(E) /\ mem'.table = mem.table /\ mem'.arg = mem.arg
      /\ mem'.live = mem.live \ Range(list)
  BY <1>2, <1>4 DEF MemSet
<1>6. /\ DOMAIN options = DOMAIN groups /\ DOMAIN list' = {} /\ Len(list') = 0 /\ list' \in Seq(Nat)
  BY <1>1, <1>2, LenProperties, EmptySeq DEF OptionInv, OptionTypes
<1>7. \A x : x \in Range(list) => \E i \in DOMAIN list : x = list[i]
  BY DEF Range
<1>8. OptionTypes'
  BY <1>2, <1>3, <1>5, <1>6 DEF OptionInv, OptionTypes
<1>9. Alive'
  <2>1. \A i \in DOMAIN options : options[i] \in mem'.live
    BY <1>5, <1>7 DEF OptionInv, Alive
  <2>2. mem'.live \subseteq 1..Len(mem'.table)
    BY <1>5 DEF OptionInv, Alive
  <2> QED
    BY <1>1, <1>2, <1>3, <1>5, <1>6, <2>1, <2>2 DEF OptionInv, Alive
<1>10. Pointing'
  <2>1. ASSUME NEW o \in ObjSet PROVE \E g \in DOMAIN options : o \in Objects(g) /\ mem'.arg[o] = options[g]
    <3>1. PICK g \in DOMAIN groups : o \in Objects(g)
      BY DEF ObjSet
    <3>2. PointsTo(mem.arg, options, o)
      BY DEF OptionInv, Pointing
    <3> QED
      BY <1>5, <1>6, <3>1, <3>2 DEF PointsTo
  <2> QED
    BY <1>2, <1>3, <2>1 DEF Pointing, PointsTo
<1>11. Answered'
  BY <1>2 DEF OptionInv, Answered
<1> QED
  BY <1>8, <1>9, <1>10, <1>11 DEF OptionInv

(* The arguments are parsed: of the groups up to the first that matches,   *)
(* the tables take what they have seen.                                    *)
LEMMA ParseArgsInv ==
  ASSUME OptionInv, NEW args \in CommandLines[program], ParseArgs(args)
  PROVE  OptionInv'
<1>1. /\ groups \in Seq(Seq(OptionSet)) /\ Len(groups) \in Nat /\ DOMAIN groups = 1..Len(groups)
  BY GroupsAre DEF OptionInv, OptionTypes
<1>2. /\ list = <<>> /\ options # <<>> /\ argv' = args /\ parses' = parses + 1
      /\ program' = program /\ list' = list /\ options' = options /\ capacity' = capacity
  BY DEF ParseArgs, Built
<1>3. /\ groups' = groups /\ ObjSet' = ObjSet
      /\ \A g : Objects(g)' = Objects(g)
      /\ \A S : MemSet(S)' = MemSet(S)
  BY <1>2, SameGroups
<1>4. PICK E : mem \in MemSet(E)
  BY MemoryIs DEF OptionInv
<1>5. args \in Seq(ArgumentSet) /\ parses' \in Nat
  BY <1>2, OptionsAssumption DEF OptionInv, OptionTypes
<1>6. /\ Len(options) = Len(groups) /\ DOMAIN options = 1..Len(groups)
      /\ \A i \in DOMAIN options : /\ options[i] \in DOMAIN mem.table /\ mem.table[options[i]].group = i
                                   /\ DOMAIN mem.table[options[i]].seen = DOMAIN groups[i]
  <2>1. DOMAIN mem.table = 1..Len(mem.table)
    BY <1>4, LenProperties DEF MemSet
  <2> QED
    BY <1>2, <2>1, LenProperties DEF OptionInv, OptionTypes, Alive
<1>7. CASE args = <<>>
  <2>1. active' = 0 /\ mem' = mem
    BY <1>7 DEF ParseArgs
  <2>2. OptionTypes' /\ Alive' /\ Pointing'
    BY <1>2, <1>3, <1>4, <1>5, <2>1 DEF OptionInv, OptionTypes, Alive, Pointing, PointsTo
  <2>3. Answered'
    BY <1>1, <1>2, <1>3, <1>5, <1>6, <1>7, <2>1 DEF Answered
  <2> QED
    BY <2>2, <2>3 DEF OptionInv
<1>8. CASE args # <<>>
  <2> DEFINE M(g) == Matches(groups[g], args)
             tried == {options[i] : i \in Tried(args)}
             hits == {i \in Tried(args) : M(mem.table[options[i]].group)}
             new(t) == IF t \in tried THEN Filled(mem.table[t], args) ELSE mem.table[t]
  <2>1. mem' = [mem EXCEPT !.table = [t \in DOMAIN @ |-> new(t)]] /\ active' = Hit(hits)
    <3>1. ParseGroups(args)
      BY <1>8 DEF ParseArgs
    <3>2. mem' = [mem EXCEPT !.table = [t \in DOMAIN @ |-> new(t)]]
      BY <3>1, Zenon DEF ParseGroups
    <3>3. active' = Hit(hits)
      BY <3>1, Zenon DEF ParseGroups
    <3> QED
      BY <3>2, <3>3, Zenon
  <2>2. Tried(args) = {i \in DOMAIN options : \A j \in 1..(i - 1) : ~M(j)}
    <3>1. \A i \in DOMAIN options : \A j \in 1..(i - 1) : j \in DOMAIN options
      BY <1>1, <1>6
    <3> QED
      BY <1>6, <3>1 DEF Tried
  <2>3. hits = {i \in DOMAIN options : M(i) /\ \A j \in 1..(i - 1) : ~M(j)}
    BY <1>6, <2>2
  <2> DEFINE T == [t \in DOMAIN mem.table |-> new(t)]
             R == E \cup {[k \in DOMAIN mem.table[t].seen |-> Seen(groups[mem.table[t].group], k, args)] : t \in DOMAIN mem.table}
  <2>4. \A t \in DOMAIN mem.table :
          /\ new(t) \in TableSet(R) /\ new(t).group = mem.table[t].group
          /\ DOMAIN new(t).seen = DOMAIN mem.table[t].seen
          /\ t \in tried => new(t).seen = [k \in DOMAIN mem.table[t].seen |-> Seen(groups[mem.table[t].group], k, args)]
    <3> SUFFICES ASSUME NEW t \in DOMAIN mem.table
                 PROVE  /\ new(t) \in TableSet(R) /\ new(t).group = mem.table[t].group
                        /\ DOMAIN new(t).seen = DOMAIN mem.table[t].seen
                        /\ t \in tried => new(t).seen = [k \in DOMAIN mem.table[t].seen |-> Seen(groups[mem.table[t].group], k, args)]
      OBVIOUS
    <3>1. PICK e : e = mem.table[t] /\ e \in TableSet(E)
      BY <1>4, LenProperties, ElementOfSeq DEF MemSet
    <3>2. PICK x : x = [k \in DOMAIN e.seen |-> Seen(groups[e.group], k, args)]
      OBVIOUS
    <3>3. x \in R /\ e.seen \in R /\ e.group \in DOMAIN groups /\ DOMAIN x = DOMAIN e.seen
      BY <3>1, <3>2 DEF TableSet
    <3>4. new(t) = IF t \in tried THEN [group |-> e.group, seen |-> x] ELSE e
      BY <3>1, <3>2 DEF Filled
    <3> HIDE DEF new, R, tried
    <3>5. e = [group |-> e.group, seen |-> e.seen]
      BY <3>1 DEF TableSet
    <3> QED
      BY <3>1, <3>2, <3>3, <3>4, <3>5 DEF TableSet
  <2> HIDE DEF new, R, M
  <2>5. mem'.arg = mem.arg /\ mem'.live = mem.live /\ mem'.table = T /\ mem' \in MemSet(R)
    <3>1. PICK n \in Nat : DOMAIN mem.table = 1..n
      BY <1>4, LenProperties DEF MemSet
    <3>2. T \in [1..n -> TableSet(R)]
      BY <2>4, <3>1
    <3>3. T \in Seq(TableSet(R))
      BY <3>2, SeqDef
    <3> HIDE DEF T
    <3>4. mem' = [mem EXCEPT !.table = T]
      BY <2>1 DEF T
    <3> QED
      BY <1>4, <3>3, <3>4 DEF MemSet
  <2>6. DOMAIN T = DOMAIN mem.table /\ Len(T) = Len(mem.table) /\ \A t \in DOMAIN mem.table : T[t] = new(t)
    <3>1. PICK n \in Nat : DOMAIN mem.table = 1..n /\ Len(mem.table) = n
      BY <1>4, LenProperties DEF MemSet
    <3>2. T \in Seq(TableSet(R)) /\ DOMAIN T = 1..n
      BY <2>5, <3>1 DEF MemSet
    <3>3. Len(T) \in Nat /\ DOMAIN T = 1..Len(T)
      BY <3>2, LenProperties
    <3>4. Len(T) = n
      BY <3>1, <3>2, <3>3
    <3> QED
      BY <3>1, <3>2, <3>4
  <2> HIDE DEF T
  <2>7. OptionTypes'
    <3>1. \E S : mem' \in MemSet(S)
      BY <2>5
    <3> QED
      BY <1>2, <1>3, <1>5, <3>1 DEF OptionInv, OptionTypes
  <2>8. Alive'
    <3>1. \A i \in DOMAIN options : /\ mem'.table[options[i]].group = i
                                    /\ DOMAIN mem'.table[options[i]].seen = DOMAIN groups[i]
      BY <1>6, <2>4, <2>5, <2>6
    <3> QED
      BY <1>2, <1>3, <2>5, <2>6, <3>1 DEF OptionInv, Alive
  <2>9. Pointing'
    BY <1>2, <1>3, <2>5 DEF OptionInv, Pointing, PointsTo
  <2>10. Answered'
    <3>1. CASE hits = {}
      <4>1. active' = 0
        BY <2>1, <3>1 DEF Hit
      <4>2. \A g \in DOMAIN groups : ~M(g)
        <5> DEFINE W == {g \in DOMAIN groups : M(g)}
        <5>1. SUFFICES ASSUME W # {} PROVE FALSE
          OBVIOUS
        <5>2. W \in SUBSET Nat
          BY <1>1
        <5>3. PICK g \in W : \A h \in W : g <= h
          BY <5>1, <5>2, LeastNat
        <5>4. g \in DOMAIN options /\ M(g) /\ \A j \in 1..(g - 1) : ~M(j)
          <6>1. \A j \in 1..(g - 1) : j \in DOMAIN groups /\ ~(g <= j)
            BY <1>1, <5>2
          <6> QED
            BY <1>1, <1>6, <5>3, <6>1
        <5> QED
          BY <2>3, <3>1, <5>4
      <4> QED
        BY <1>1, <1>2, <1>3, <1>5, <1>6, <4>1, <4>2 DEF Answered, M
    <3>2. CASE hits # {}
      <4>1. PICK i : i \in hits /\ active' = i
        BY <2>1, <3>2 DEF Hit
      <4>2. i \in 1..Len(groups) /\ M(i) /\ \A j \in 1..(i - 1) : ~M(j)
        BY <1>6, <2>3, <4>1
      <4>3. options[i] \in tried /\ options[i] \in DOMAIN mem.table
        BY <1>6, <4>1, <4>2
      <4>4. mem'.table[options[i]].seen = [k \in DOMAIN groups[i] |-> Seen(groups[i], k, args)]
        BY <1>6, <2>4, <2>5, <2>6, <4>2, <4>3
      <4>5. active' \in 0..Len(options') /\ active' # 0
        BY <1>1, <1>2, <1>6, <4>1, <4>2
      <4> QED
        BY <1>1, <1>2, <1>3, <1>5, <1>8, <4>1, <4>2, <4>4, <4>5 DEF Answered, M
    <3> QED
      BY <3>1, <3>2
  <2> QED
    BY <2>7, <2>8, <2>9, <2>10 DEF OptionInv
<1> QED
  BY <1>7, <1>8

(* Every step of the options. *)
LEMMA OptionsNextInv ==
  ASSUME OptionInv, OptionsNext
  PROVE  OptionInv'
<1>1. CASE PushBack
  BY <1>1, PushedInv, GrownInv
<1> QED
  BY <1>1, MakeGroupInv, ConstructedInv, ParseArgsInv DEF OptionsNext

(* And of everything else. *)
LEMMA OptionsKept ==
  ASSUME OptionInv, UNCHANGED optionsVars
  PROVE  OptionInv'
<1>1. /\ program' = program /\ mem' = mem /\ list' = list /\ options' = options
      /\ capacity' = capacity /\ active' = active /\ argv' = argv /\ parses' = parses
  BY DEF optionsVars
<1>2. /\ groups' = groups /\ ObjSet' = ObjSet
      /\ \A g : Objects(g)' = Objects(g)
      /\ \A S : MemSet(S)' = MemSet(S)
  BY <1>1, SameGroups
<1>3. OptionTypes'
  BY <1>1, <1>2 DEF OptionInv, OptionTypes
<1>4. Alive' /\ Pointing'
  BY <1>1, <1>2 DEF OptionInv, Alive, Pointing, PointsTo
<1>5. Answered'
  BY <1>1, <1>2 DEF OptionInv, Answered
<1> QED
  BY <1>3, <1>4, <1>5 DEF OptionInv

-----------------------------------------------------------------------------
(* The option objects point to tables that are alive. *)
LEMMA NothingFreed ==
  ASSUME OptionInv
  PROVE  NoFreedTable
<1>1. DOMAIN mem.arg = ObjSet
  BY DEF OptionInv, OptionTypes, MemSet
<1>2. ASSUME NEW o \in ObjSet, mem.arg[o] # 0 PROVE mem.arg[o] \in mem.live
  <2>1. PointsTo(mem.arg, options, o)
    BY DEF OptionInv, Pointing
  <2> QED
    BY <1>2, <2>1 DEF PointsTo, OptionInv, Alive
<1> QED
  BY <1>1, <1>2 DEF NoFreedTable

(* What is declared of two options of a group. *)
LEMMA DeclaredOnce ==
  ASSUME program \in DOMAIN Declared, NEW g \in DOMAIN groups,
         NEW j \in DOMAIN groups[g], NEW k \in DOMAIN groups[g], j # k
  PROVE  /\ NamesOf(groups[g][j]) \cap NamesOf(groups[g][k]) = {}
         /\ Object(g, j) # Object(g, k)
<1>1. PICK a, b : a = groups[g][j] /\ b = groups[g][k]
  OBVIOUS
<1>2. /\ "same" \in DOMAIN a => a.same[1] < g
      /\ "same" \in DOMAIN b => b.same[1] < g
      /\ NamesOf(a) \cap NamesOf(b) = {}
      /\ "same" \in DOMAIN a /\ "same" \in DOMAIN b => a.same # b.same
  BY <1>1, OptionsAssumption DEF groups
<1>3. g \in Nat
  BY GroupsAre
<1>4. Object(g, j) # Object(g, k)
  <2>1. Object(g, j) = IF "same" \in DOMAIN a THEN a.same ELSE <<g, j>>
    BY <1>1 DEF Object
  <2>2. Object(g, k) = IF "same" \in DOMAIN b THEN b.same ELSE <<g, k>>
    BY <1>1 DEF Object
  <2>3. ~(g < g) /\ <<g, j>>[1] = g /\ <<g, k>>[1] = g /\ <<g, j>> # <<g, k>>
    BY <1>3
  <2> QED
    BY <1>2, <2>1, <2>2, <2>3
<1> QED
  BY <1>1, <1>2, <1>4

(* The active group. *)
LEMMA ActiveIs ==
  ASSUME OptionInv, parses > 0, active # 0
  PROVE  /\ ActiveGroup = active /\ active \in DOMAIN groups /\ active \in DOMAIN options
         /\ groups[active] \in Seq(OptionSet) /\ argv \in Seq(ArgumentSet) /\ argv # <<>>
         /\ Matches(groups[active], argv)
         /\ mem.table[options[active]].seen =
              [k \in DOMAIN groups[active] |-> Seen(groups[active], k, argv)]
<1>1. /\ list = <<>> /\ options # <<>> /\ active \in 0..Len(options) /\ argv \in Seq(ArgumentSet) /\ argv # <<>>
      /\ Matches(groups[active], argv)
      /\ mem.table[options[active]].seen = [k \in DOMAIN groups[active] |-> Seen(groups[active], k, argv)]
  BY DEF OptionInv, Answered
<1>2. /\ DOMAIN groups = 1..Len(groups) /\ Len(options) = Len(groups) /\ DOMAIN options = 1..Len(options)
      /\ Len(options) \in Nat
  BY <1>1, GroupsAre, LenProperties DEF OptionInv, OptionTypes, Alive
<1>3. active \in DOMAIN groups /\ active \in DOMAIN options
  BY <1>1, <1>2
<1>4. groups[active] \in Seq(OptionSet)
  BY <1>3, GroupsAre DEF OptionInv, OptionTypes
<1>5. ActiveGroup = active
  BY <1>3 DEF ActiveGroup, OptionInv, Alive
<1> QED
  BY <1>1, <1>3, <1>4, <1>5

(* An object of one group alone has the values given for it. *)
LEMMA ValuesAreGiven ==
  ASSUME OptionInv, parses > 0, active # 0, NEW k \in DOMAIN groups[active], InOneGroup(Object(active, k))
  PROVE  Values(k) = Given(groups[active], k, argv)
<1>1. /\ ActiveGroup = active /\ active \in DOMAIN groups /\ active \in DOMAIN options
      /\ groups[active] \in Seq(OptionSet) /\ argv \in Seq(ArgumentSet) /\ argv # <<>>
      /\ Matches(groups[active], argv)
      /\ mem.table[options[active]].seen = [i \in DOMAIN groups[active] |-> Seen(groups[active], i, argv)]
  BY ActiveIs
<1>2. PICK o : o = Object(active, k)
  OBVIOUS
<1>3. o \in Objects(active) /\ o \in ObjSet
  BY <1>1, <1>2 DEF Objects, ObjSet
<1>4. \A g, h \in DOMAIN groups : o \in Objects(g) /\ o \in Objects(h) => g = h
  <2> DEFINE G == {g \in DOMAIN groups : o \in Objects(g)}
  <2>1. IsFiniteSet(G)
    <3>1. Len(groups) \in Nat /\ DOMAIN groups = 1..Len(groups)
      BY GroupsAre DEF OptionInv, OptionTypes
    <3>2. IsFiniteSet(DOMAIN groups)
      BY <3>1, FS_Interval
    <3> QED
      BY <3>2, FS_Subset
  <2>2. Cardinality(G) = 1
    BY <1>2 DEF InOneGroup
  <2>3. PICK x : G = {x}
    BY <2>1, <2>2, FS_Singleton
  <2> QED
    BY <2>3
<1>5. mem.arg[o] = options[active]
  <2>1. PointsTo(mem.arg, options, o)
    BY <1>3 DEF OptionInv, Pointing
  <2>2. PICK g \in DOMAIN options : o \in Objects(g) /\ mem.arg[o] = options[g]
    BY <1>1, <1>3, <2>1 DEF PointsTo
  <2>3. DOMAIN options \subseteq DOMAIN groups
    <3>1. Len(groups) \in Nat /\ DOMAIN groups = 1..Len(groups)
      BY GroupsAre DEF OptionInv, OptionTypes
    <3>2. Len(options) \in Nat /\ DOMAIN options = 1..Len(options) /\ Len(options) <= Len(groups)
      BY LenProperties DEF OptionInv, OptionTypes, Alive
    <3> QED
      BY <3>1, <3>2
  <2> QED
    BY <1>1, <1>3, <1>4, <2>2, <2>3
<1>6. mem.table[options[active]].group = active
  BY <1>1 DEF OptionInv, Alive
<1>7. (CHOOSE i \in DOMAIN groups[active] : Object(active, i) = o) = k
  <2>1. \A i \in DOMAIN groups[active] : Object(active, i) = o => i = k
    BY <1>1, <1>2, DeclaredOnce DEF OptionInv, OptionTypes
  <2> QED
    BY <1>2, <2>1
<1>8. Values(k) = mem.table[options[active]].seen[k]
  BY <1>1, <1>2, <1>5, <1>6, <1>7 DEF Values
<1>9. Seen(groups[active], k, argv) = Given(groups[active], k, argv)
  BY <1>1, SeenIsGiven
<1> QED
  BY <1>1, <1>8, <1>9

(* An option is found by its name. *)
LEMMA FoundByName ==
  ASSUME OptionInv, parses > 0, active # 0, NEW k \in DOMAIN groups[active],
         NEW name \in NamesOf(groups[active][k])
  PROVE  Count(name) = Len(Values(k)) /\ ValueOf(name) = Values(k)[1]
<1>1. ActiveGroup = active /\ active \in DOMAIN groups /\ groups[active] \in Seq(OptionSet)
  BY ActiveIs
<1>2. \A j \in DOMAIN groups[active] : name \in NamesOf(groups[active][j]) => j = k
  BY <1>1, DeclaredOnce DEF OptionInv, OptionTypes
<1>3. k \in Nat
  BY <1>1, LenProperties
<1>4. k <= k
  BY <1>3
<1>5. Found(name) = {k}
  BY <1>1, <1>2, <1>4 DEF Found
<1>6. (CHOOSE j \in Found(name) : TRUE) = k /\ Found(name) # {}
  BY <1>5
<1> QED
  BY <1>6 DEF Count, ValueOf

(* An untagged option is found by its index, and none beyond the last. *)
LEMMA FoundByIndex ==
  ASSUME OptionInv, parses > 0, active # 0
  PROVE  /\ \A k \in Untagged : CountAt(Cardinality({j \in Untagged : j < k})) = Len(Values(k))
         /\ CountAt(Cardinality(Untagged)) = 0
<1>1. PICK n \in Nat : Untagged \in SUBSET (1..n)
  BY ActiveIs, LenProperties DEF Untagged
<1> DEFINE B(k) == {j \in Untagged : j < k}
<1>2. IsFiniteSet(1..n) /\ IsFiniteSet(Untagged)
  <2>1. IsFiniteSet(1..n)
    BY FS_Interval
  <2> QED
    BY <1>1, <2>1, FS_Subset
<1>3. \A k \in Untagged : IsFiniteSet(B(k)) /\ Cardinality(B(k)) # Cardinality(Untagged)
  <2>1. SUFFICES ASSUME NEW k \in Untagged
                 PROVE  IsFiniteSet(B(k)) /\ Cardinality(B(k)) # Cardinality(Untagged)
    OBVIOUS
  <2>2. k \notin B(k)
    BY <1>1
  <2> QED
    BY <1>2, <2>2, FS_Subset
<1>4. ASSUME NEW j \in Untagged, NEW k \in Untagged, j < k PROVE Cardinality(B(j)) # Cardinality(B(k))
  <2>1. B(j) \in SUBSET B(k) /\ j \in B(k) /\ j \notin B(j)
    <3>1. j \in Nat /\ k \in Nat /\ \A i \in Untagged : i \in Nat
      BY <1>1
    <3>2. \A i \in Untagged : i < j => i < k
      BY <1>4, <3>1
    <3>3. ~(j < j)
      BY <3>1
    <3> QED
      BY <1>4, <3>2, <3>3
  <2>2. IsFiniteSet(B(k))
    BY <1>3
  <2> QED
    BY <2>1, <2>2, FS_Subset
<1>5. \A j, k \in Untagged : Cardinality(B(j)) = Cardinality(B(k)) => j = k
  <2>1. \A j, k \in Untagged : j = k \/ j < k \/ k < j
    BY <1>1
  <2> HIDE DEF B
  <2> QED
    BY <1>4, <2>1
<1>6. ASSUME NEW k \in Untagged PROVE CountAt(Cardinality(B(k))) = Len(Values(k))
  <2>1. PICK i : i = Cardinality(B(k))
    OBVIOUS
  <2>2. UntaggedAt(i) = {j \in Untagged : Cardinality(B(j)) = i}
    BY DEF UntaggedAt
  <2>3. UntaggedAt(i) = {k}
    BY <1>5, <2>1, <2>2
  <2>4. (CHOOSE j \in UntaggedAt(i) : TRUE) = k /\ UntaggedAt(i) # {}
    BY <2>3
  <2> QED
    BY <2>1, <2>4 DEF CountAt
<1>7. CountAt(Cardinality(Untagged)) = 0
  <2>1. UntaggedAt(Cardinality(Untagged)) = {}
    BY <1>3 DEF UntaggedAt
  <2> QED
    BY <2>1 DEF CountAt
<1> QED
  BY <1>6, <1>7

(* The accessors report what was given. *)
LEMMA Reported ==
  ASSUME OptionInv
  PROVE  ReportsTheArguments
<1> SUFFICES ASSUME parses > 0 PROVE ReportsTheArguments
  BY DEF ReportsTheArguments
<1>1. active = 0 <=> argv = <<>> \/ \A g \in DOMAIN groups : ~Matches(groups[g], argv)
  BY DEF OptionInv, Answered
<1>2. ASSUME active # 0
      PROVE  /\ Matches(groups[ActiveGroup], argv)
             /\ \A g \in 1..(ActiveGroup - 1) : ~Matches(groups[g], argv)
             /\ CountAt(Cardinality(Untagged)) = 0
  BY <1>2, ActiveIs, FoundByIndex DEF OptionInv, Answered
<1>3. ASSUME active # 0, NEW k \in DOMAIN groups[ActiveGroup], InOneGroup(Object(ActiveGroup, k))
      PROVE  LET given == Given(groups[ActiveGroup], k, argv)
             IN /\ Values(k) = given
                /\ \A name \in NamesOf(groups[ActiveGroup][k]) : Count(name) = Len(given)
                /\ k \in Untagged => CountAt(Cardinality({j \in Untagged : j < k})) = Len(given)
  <2>1. ActiveGroup = active
    BY <1>3, ActiveIs
  <2>2. Values(k) = Given(groups[active], k, argv)
    BY <1>3, <2>1, ValuesAreGiven
  <2>3. \A name \in NamesOf(groups[active][k]) : Count(name) = Len(Values(k))
    BY <1>3, <2>1, FoundByName
  <2>4. k \in Untagged => CountAt(Cardinality({j \in Untagged : j < k})) = Len(Values(k))
    BY <1>3, FoundByIndex
  <2> QED
    BY <2>1, <2>2, <2>3, <2>4
<1> QED
  BY <1>1, <1>2, <1>3 DEF ReportsTheArguments

-----------------------------------------------------------------------------
(* The options of http_server. *)
LEMMA HttpGroups ==
  ASSUME program = "http_server", program \in DOMAIN Declared
  PROVE  /\ DOMAIN groups = {1, 2}
         /\ DOMAIN groups[1] = {1} /\ groups[1][1] = LiteralOption("", "help", 1, 1)
         /\ DOMAIN groups[2] = 1..8
         /\ groups[2][1] = TypedOption("p", "port", 0, 1)
         /\ groups[2][2] = TypedOption("s", "secure-port", 0, 1)
         /\ groups[2][3] = TypedOption("h", "host", 0, 1)
         /\ groups[2][4] = TypedOption("d", "doc-root-path", 0, 1)
         /\ groups[2][5] = TypedOption("", "ca-path", 0, 1)
         /\ groups[2][6] = TypedOption("", "cert-path", 0, 1)
         /\ groups[2][7] = TypedOption("c", "config-path", 0, 1)
         /\ groups[2][8] = TypedOption("n", "threads", 0, 1)
<1>1. groups = HttpServerOptions
  BY ProgramsAssumption DEF groups
<1>2. PICK a, p, s, h, d, ca, cert, c, n :
        /\ a = LiteralOption("", "help", 1, 1) /\ p = TypedOption("p", "port", 0, 1)
        /\ s = TypedOption("s", "secure-port", 0, 1) /\ h = TypedOption("h", "host", 0, 1)
        /\ d = TypedOption("d", "doc-root-path", 0, 1) /\ ca = TypedOption("", "ca-path", 0, 1)
        /\ cert = TypedOption("", "cert-path", 0, 1) /\ c = TypedOption("c", "config-path", 0, 1)
        /\ n = TypedOption("n", "threads", 0, 1)
  OBVIOUS
<1>3. groups = <<<<a>>, <<p, s, h, d, ca, cert, c, n>>>>
  BY <1>1, <1>2 DEF HttpServerOptions
<1>4. PICK x, y : x = <<a>> /\ y = <<p, s, h, d, ca, cert, c, n>>
  OBVIOUS
<1>5. groups = <<x, y>>
  BY <1>3, <1>4
<1>6. DOMAIN groups = {1, 2} /\ groups[1] = x /\ groups[2] = y
  BY <1>5
<1>7. DOMAIN x = {1} /\ x[1] = a
  BY <1>4
<1>8. DOMAIN y = 1..8
  BY <1>4
<1>9. /\ y[1] = p /\ y[2] = s /\ y[3] = h /\ y[4] = d /\ y[5] = ca
      /\ y[6] = cert /\ y[7] = c /\ y[8] = n
  BY <1>4
<1> QED
  BY <1>2, <1>6, <1>7, <1>8, <1>9, Zenon

(* An option that a constructor makes is not declared to be another. *)
LEMMA NotTheSame ==
  ASSUME NEW short, NEW long, NEW low, NEW high
  PROVE  /\ "same" \notin DOMAIN TypedOption(short, long, low, high)
         /\ "same" \notin DOMAIN LiteralOption(short, long, low, high)
<1>1. PICK r : r = [short |-> short, long |-> long, min |-> low, max |-> high, typed |-> TRUE]
  OBVIOUS
<1>2. PICK q : q = [short |-> short, long |-> long, min |-> low, max |-> high, typed |-> FALSE]
  OBVIOUS
<1>3. "same" \notin DOMAIN r
  BY <1>1
<1>4. "same" \notin DOMAIN q
  BY <1>2
<1> QED
  BY <1>1, <1>2, <1>3, <1>4 DEF TypedOption, LiteralOption

(* Each of them is an object of one group. *)
LEMMA HttpObjects ==
  ASSUME program = "http_server", program \in DOMAIN Declared, NEW g \in DOMAIN groups, NEW k \in DOMAIN groups[g]
  PROVE  InOneGroup(Object(g, k))
<1>1. ASSUME NEW h \in DOMAIN groups, NEW j \in DOMAIN groups[h] PROVE Object(h, j) = <<h, j>>
  <2>1. "same" \notin DOMAIN groups[h][j]
    <3>1. h = 1 \/ h = 2
      BY HttpGroups
    <3>2. CASE h = 1
      <4>1. j = 1
        BY <3>2, HttpGroups
      <4>2. "same" \notin DOMAIN LiteralOption("", "help", 1, 1)
        BY NotTheSame
      <4>3. groups[h][j] = LiteralOption("", "help", 1, 1)
        BY <3>2, <4>1, HttpGroups
      <4> QED
        BY <4>2, <4>3
    <3>3. CASE h = 2
      <4>1. j \in 1..8
        BY <3>3, HttpGroups
      <4>2. j = 1 \/ j = 2 \/ j = 3 \/ j = 4 \/ j = 5 \/ j = 6 \/ j = 7 \/ j = 8
        BY <4>1
      <4>3. \E short, long : groups[h][j] = TypedOption(short, long, 0, 1)
        BY <3>3, <4>2, HttpGroups, Zenon
      <4>4. PICK short, long : groups[h][j] = TypedOption(short, long, 0, 1)
        BY <4>3
      <4>5. "same" \notin DOMAIN TypedOption(short, long, 0, 1)
        BY NotTheSame
      <4> QED
        BY <4>4, <4>5
    <3> QED
      BY <3>1, <3>2, <3>3
  <2> QED
    BY <2>1 DEF Object
<1>2. \A h \in DOMAIN groups : <<g, k>> \in Objects(h) => h = g
  BY <1>1 DEF Objects
<1>3. <<g, k>> \in Objects(g)
  BY <1>1 DEF Objects
<1>4. {h \in DOMAIN groups : Object(g, k) \in Objects(h)} = {g}
  BY <1>1, <1>2, <1>3
<1> QED
  BY <1>4, FS_Singleton DEF InOneGroup

(* A value that was given for an option is the one that is found. *)
LEMMA GivenIsFound ==
  ASSUME OptionInv, program = "http_server", parses > 0, active # 0,
         NEW k \in DOMAIN groups[active], Tagged(groups[active][k]), groups[active][k].max = 1,
         NEW i \in 2..Len(argv), argv[i].name \in NamesOf(groups[active][k]),
         NEW name \in NamesOf(groups[active][k])
  PROVE  Count(name) > 0 /\ ValueOf(name) = argv[i].value
<1>1. /\ active \in DOMAIN groups
      /\ groups[active] \in Seq(OptionSet) /\ argv \in Seq(ArgumentSet) /\ argv # <<>>
      /\ Matches(groups[active], argv)
  BY ActiveIs
<1>2. PICK v : v = Given(groups[active], k, argv) /\ v \in Seq(ValueSet)
  BY <1>1, GivenType
<1>3. v = ValuesOf(NamesOf(groups[active][k]), argv)
  BY <1>2 DEF Given
<1>4. PICK j \in 1..Len(v) : v[j] = argv[i].value
  BY <1>1, <1>3, ValuesType
<1>5. Len(v) \in groups[active][k].min..1 /\ groups[active][k].min \in Nat
  <2>1. groups[active][k] \in OptionSet
    BY <1>1, LenProperties, ElementOfSeq
  <2> QED
    BY <1>1, <1>2, <2>1 DEF Matches, OptionSet
<1>6. Len(v) = 1 /\ j = 1
  <2>1. Len(v) \in Nat
    BY <1>2, LenProperties
  <2>2. PICK n \in Nat, m \in Nat : n = Len(v) /\ m = groups[active][k].min
    BY <1>5, <2>1
  <2>3. n \in m..1 /\ j \in 1..n
    BY <1>4, <1>5, <2>2
  <2>4. n = 1 /\ j = 1
    BY <2>3
  <2> QED
    BY <2>2, <2>4
<1>7. InOneGroup(Object(active, k))
  BY <1>1, HttpObjects DEF OptionInv, OptionTypes
<1>8. Values(k) = v
  BY <1>2, <1>7, ValuesAreGiven
<1> QED
  BY <1>4, <1>6, <1>8, FoundByName

(* The number of threads is a number. *)
LEMMA TypedIsNumber ==
  ASSUME OptionInv, program = "http_server", parses > 0, active # 0,
         NEW k \in DOMAIN groups[active], groups[active][k].typed,
         NEW name \in NamesOf(groups[active][k]), Count(name) > 0
  PROVE  ValueOf(name) \in Nat
<1>1. /\ active \in DOMAIN groups
      /\ groups[active] \in Seq(OptionSet) /\ argv \in Seq(ArgumentSet) /\ argv # <<>>
      /\ Matches(groups[active], argv)
  BY ActiveIs
<1>2. PICK v : v = Given(groups[active], k, argv) /\ v \in Seq(ValueSet)
  BY <1>1, GivenType
<1>3. InOneGroup(Object(active, k))
  BY <1>1, HttpObjects DEF OptionInv, OptionTypes
<1>4. Values(k) = v
  BY <1>2, <1>3, ValuesAreGiven
<1>5. Len(v) > 0 /\ ValueOf(name) = v[1]
  BY <1>4, FoundByName
<1>6. 1 \in 1..Len(v) /\ DOMAIN v = 1..Len(v) /\ v[1] \in ValueSet
  <2>1. Len(v) \in Nat /\ DOMAIN v = 1..Len(v)
    BY <1>2, LenProperties
  <2>2. 1 \in 1..Len(v)
    BY <1>5, <2>1
  <2> QED
    BY <1>2, <2>1, <2>2, ElementOfSeq
<1>7. v[1] # None
  BY <1>1, <1>2, <1>6 DEF Matches
<1> QED
  BY <1>5, <1>6, <1>7 DEF ValueSet

(* setUp goes on only with the second group. *)
LEMMA NoHelp ==
  ASSUME OptionInv, program = "http_server", parses > 0, ~HelpOrNoMatch
  PROVE  active = 2
<1>1. active # 0 /\ ~(Count("help") > 0)
  BY DEF HelpOrNoMatch
<1>2. active \in {1, 2} /\ Matches(groups[active], argv)
  BY <1>1, ActiveIs, HttpGroups DEF OptionInv, OptionTypes
<1>3. CASE active = 1
  <2>1. 1 \in DOMAIN groups[1] /\ groups[1][1] = LiteralOption("", "help", 1, 1)
    BY HttpGroups DEF OptionInv, OptionTypes
  <2>2. "help" \in NamesOf(groups[1][1]) /\ groups[1][1].min = 1 /\ groups[1][1].max = 1
    <3>3. PICK o : o = LiteralOption("", "help", 1, 1)
      OBVIOUS
    <3>4. o.long = "help" /\ o.min = 1 /\ o.max = 1
      BY <3>3 DEF LiteralOption
    <3>1. groups[1][1].long = "help" /\ groups[1][1].min = 1 /\ groups[1][1].max = 1
      BY <2>1, <3>3, <3>4
    <3>2. "help" # ""
      OBVIOUS
    <3> QED
      BY <3>1, <3>2 DEF NamesOf
  <2>3. Len(Given(groups[1], 1, argv)) \in 1..1
    BY <1>2, <1>3, <2>1, <2>2 DEF Matches
  <2>4. InOneGroup(Object(1, 1))
    BY <1>3, <2>1, HttpObjects, ActiveIs, <1>1 DEF OptionInv, OptionTypes
  <2>5. Count("help") = Len(Given(groups[1], 1, argv))
    BY <1>1, <1>3, <2>1, <2>2, <2>4, FoundByName, ValuesAreGiven
  <2> QED
    BY <1>1, <2>3, <2>5
<1> QED
  BY <1>2, <1>3

-----------------------------------------------------------------------------
(* The names of a typed option. *)
LEMMA TypedNames ==
  ASSUME NEW short, NEW long, long # ""
  PROVE  /\ NamesOf(TypedOption(short, long, 0, 1)) = {short, long} \ {""}
         /\ Tagged(TypedOption(short, long, 0, 1)) /\ TypedOption(short, long, 0, 1).max = 1
<1>1. PICK r : r = TypedOption(short, long, 0, 1)
  OBVIOUS
<1>2. r.short = short /\ r.long = long /\ r.max = 1
  BY <1>1 DEF TypedOption
<1> QED
  BY <1>1, <1>2, Zenon DEF NamesOf, Tagged

(* The options that setUp of http_server looks at. *)
LEMMA HttpNames ==
  ASSUME program = "http_server", program \in DOMAIN Declared
  PROVE  /\ \A k \in {1, 2, 3, 5, 6} : Tagged(groups[2][k]) /\ groups[2][k].max = 1
         /\ NamesOf(groups[2][1]) = {"p", "port"} /\ NamesOf(groups[2][2]) = {"s", "secure-port"}
         /\ NamesOf(groups[2][3]) = {"h", "host"}
         /\ NamesOf(groups[2][5]) = {"ca-path"} /\ NamesOf(groups[2][6]) = {"cert-path"}
<1>1. NamesOf(groups[2][1]) = {"p", "port"} /\ Tagged(groups[2][1]) /\ groups[2][1].max = 1
  <2>1. groups[2][1] = TypedOption("p", "port", 0, 1)
    BY HttpGroups
  <2>2. {"p", "port"} \ {""} = {"p", "port"}
    OBVIOUS
  <2>3. "port" # ""
    OBVIOUS
  <2>4. PICK r : r = TypedOption("p", "port", 0, 1)
    OBVIOUS
  <2>5. NamesOf(r) = {"p", "port"} \ {""} /\ Tagged(r) /\ r.max = 1
    BY <2>3, <2>4, TypedNames, Zenon
  <2> QED
    BY <2>1, <2>2, <2>4, <2>5, Zenon
<1>2. NamesOf(groups[2][2]) = {"s", "secure-port"} /\ Tagged(groups[2][2]) /\ groups[2][2].max = 1
  <2>1. groups[2][2] = TypedOption("s", "secure-port", 0, 1)
    BY HttpGroups
  <2>2. {"s", "secure-port"} \ {""} = {"s", "secure-port"}
    OBVIOUS
  <2>3. "secure-port" # ""
    OBVIOUS
  <2>4. PICK r : r = TypedOption("s", "secure-port", 0, 1)
    OBVIOUS
  <2>5. NamesOf(r) = {"s", "secure-port"} \ {""} /\ Tagged(r) /\ r.max = 1
    BY <2>3, <2>4, TypedNames, Zenon
  <2> QED
    BY <2>1, <2>2, <2>4, <2>5, Zenon
<1>3. NamesOf(groups[2][3]) = {"h", "host"} /\ Tagged(groups[2][3]) /\ groups[2][3].max = 1
  <2>1. groups[2][3] = TypedOption("h", "host", 0, 1)
    BY HttpGroups
  <2>2. {"h", "host"} \ {""} = {"h", "host"}
    OBVIOUS
  <2>3. "host" # ""
    OBVIOUS
  <2>4. PICK r : r = TypedOption("h", "host", 0, 1)
    OBVIOUS
  <2>5. NamesOf(r) = {"h", "host"} \ {""} /\ Tagged(r) /\ r.max = 1
    BY <2>3, <2>4, TypedNames, Zenon
  <2> QED
    BY <2>1, <2>2, <2>4, <2>5, Zenon
<1>4. NamesOf(groups[2][5]) = {"ca-path"} /\ Tagged(groups[2][5]) /\ groups[2][5].max = 1
  <2>1. groups[2][5] = TypedOption("", "ca-path", 0, 1)
    BY HttpGroups
  <2>2. {"", "ca-path"} \ {""} = {"ca-path"}
    OBVIOUS
  <2>3. "ca-path" # ""
    OBVIOUS
  <2>4. PICK r : r = TypedOption("", "ca-path", 0, 1)
    OBVIOUS
  <2>5. NamesOf(r) = {"", "ca-path"} \ {""} /\ Tagged(r) /\ r.max = 1
    BY <2>3, <2>4, TypedNames, Zenon
  <2> QED
    BY <2>1, <2>2, <2>4, <2>5, Zenon
<1>5. NamesOf(groups[2][6]) = {"cert-path"} /\ Tagged(groups[2][6]) /\ groups[2][6].max = 1
  <2>1. groups[2][6] = TypedOption("", "cert-path", 0, 1)
    BY HttpGroups
  <2>2. {"", "cert-path"} \ {""} = {"cert-path"}
    OBVIOUS
  <2>3. "cert-path" # ""
    OBVIOUS
  <2>4. PICK r : r = TypedOption("", "cert-path", 0, 1)
    OBVIOUS
  <2>5. NamesOf(r) = {"", "cert-path"} \ {""} /\ Tagged(r) /\ r.max = 1
    BY <2>3, <2>4, TypedNames, Zenon
  <2> QED
    BY <2>1, <2>2, <2>4, <2>5, Zenon
<1>6. \A k \in {1, 2, 3, 5, 6} : Tagged(groups[2][k]) /\ groups[2][k].max = 1
  BY <1>1, <1>2, <1>3, <1>4, <1>5
<1> QED
  BY <1>1, <1>2, <1>3, <1>4, <1>5, <1>6

(* The value of an option of http_server wins over what was there. *)
LEMMA Overridden ==
  ASSUME OptionInv, program = "http_server", parses > 0, ~HelpOrNoMatch,
         NEW k \in {1, 2, 3, 5, 6}, NEW name \in NamesOf(groups[2][k]),
         NEW i \in 2..Len(argv), argv[i].name \in NamesOf(groups[2][k]), NEW old
  PROVE  Override(name, old) = argv[i].value
<1>1. active = 2 /\ program \in DOMAIN Declared
  BY NoHelp DEF OptionInv, OptionTypes
<1>2. k \in DOMAIN groups[active]
  <2>1. DOMAIN groups[active] = 1..8
    BY <1>1, HttpGroups
  <2>2. k \in 1..8
    OBVIOUS
  <2> QED
    BY <2>1, <2>2
<1>3. Tagged(groups[active][k]) /\ groups[active][k].max = 1
  BY <1>1, HttpNames
<1>4. active # 0
  BY <1>1
<1>5. Count(name) > 0 /\ ValueOf(name) = argv[i].value
  BY <1>1, <1>2, <1>3, <1>4, GivenIsFound
<1> QED
  BY <1>5 DEF Override

(* There is a thread. *)
LEMMA SomeThread ==
  ASSUME OptionInv, program = "http_server", parses > 0, ~HelpOrNoMatch, NEW hardware \in Hardware
  PROVE  Override("threads", hardware) \in Nat
<1>1. active = 2
  BY NoHelp
<1>2. DOMAIN groups[2] = 1..8 /\ groups[2][8] = TypedOption("n", "threads", 0, 1)
  BY HttpGroups DEF OptionInv, OptionTypes
<1>3. PICK r : r = groups[active][8]
  OBVIOUS
<1>4. r.short = "n" /\ r.long = "threads" /\ r.typed
  <2>1. r = TypedOption("n", "threads", 0, 1)
    BY <1>1, <1>2, <1>3
  <2> QED
    BY <2>1 DEF TypedOption
<1>5. "threads" \in NamesOf(groups[active][8])
  BY <1>3, <1>4 DEF NamesOf
<1>6. 8 \in DOMAIN groups[active] /\ active # 0 /\ groups[active][8].typed
  BY <1>1, <1>2, <1>3, <1>4
<1>7. Count("threads") > 0 => ValueOf("threads") \in Nat
  BY <1>5, <1>6, TypedIsNumber
<1>8. hardware \in Nat
  BY ProgramsAssumption
<1> QED
  BY <1>7, <1>8 DEF Override

(* The members that the file sets. *)
LEMMA FromFileMembers ==
  ASSUME NEW file
  PROVE  DOMAIN HttpFromFile(file) =
           {"port", "host", "securePort", "secureHost", "ca", "key", "cert", "docroot", "threads"}
<1>1. DOMAIN HttpFromFile(file) = DOMAIN HttpDefaults
  BY DEF HttpFromFile
<1>2. DOMAIN HttpDefaults =
        {"port", "host", "securePort", "secureHost", "ca", "key", "cert", "docroot", "threads"}
  BY DEF HttpDefaults
<1> QED
  BY <1>1, <1>2

(* The members that the options override. *)
LEMMA FromOptionsMembers ==
  ASSUME NEW c, NEW hardware,
         DOMAIN c = {"port", "host", "securePort", "secureHost", "ca", "key", "cert", "docroot", "threads"}
  PROVE  /\ HttpFromOptions(c, hardware).port = uint16(Override("port", c.port))
         /\ HttpFromOptions(c, hardware).securePort = uint16(Override("secure-port", c.securePort))
         /\ HttpFromOptions(c, hardware).host = Override("host", c.host)
         /\ HttpFromOptions(c, hardware).secureHost = Override("host", c.secureHost)
         /\ HttpFromOptions(c, hardware).ca = Override("ca-path", c.ca)
         /\ HttpFromOptions(c, hardware).cert = Override("cert-path", c.cert)
         /\ HttpFromOptions(c, hardware).threads =
              LET n == Override("threads", hardware) IN IF n = 0 THEN 1 ELSE n
BY DEF HttpFromOptions

(* setUp of http_server. *)
LEMMA SetUpWins ==
  ASSUME OptionInv, HttpSetUp
  PROVE  CommandLineWins'
<1> SUFFICES ASSUME stage' = "running" PROVE CommandLineWins'
  BY DEF CommandLineWins
<1>1. /\ program = "http_server" /\ parses = 1 /\ ~HelpOrNoMatch /\ argv' = argv
      /\ \E hardware \in Hardware : config' = HttpFromOptions(HttpFromFile(ConfigFile), hardware)
  BY DEF HttpSetUp, GivesUp, Proceeds, optionsVars
<1>2. PICK hardware \in Hardware : config' = HttpFromOptions(HttpFromFile(ConfigFile), hardware)
  BY <1>1
<1>3. PICK c : c = HttpFromFile(ConfigFile)
  OBVIOUS
<1>4. /\ config'.port = uint16(Override("port", c.port))
      /\ config'.securePort = uint16(Override("secure-port", c.securePort))
      /\ config'.host = Override("host", c.host)
      /\ config'.secureHost = Override("host", c.secureHost)
      /\ config'.ca = Override("ca-path", c.ca)
      /\ config'.cert = Override("cert-path", c.cert)
      /\ config'.threads = LET n == Override("threads", hardware) IN IF n = 0 THEN 1 ELSE n
  <2>1. DOMAIN c = {"port", "host", "securePort", "secureHost", "ca", "key", "cert", "docroot", "threads"}
    BY <1>3, FromFileMembers
  <2>2. config' = HttpFromOptions(c, hardware)
    BY <1>2, <1>3
  <2> QED
    BY <2>1, <2>2, FromOptionsMembers
<1>5. parses > 0
  BY <1>1
<1>6. program \in DOMAIN Declared
  BY DEF OptionInv, OptionTypes
<1>7. config'.threads > 0
  <2>1. PICK n \in Nat : n = Override("threads", hardware)
    BY <1>1, <1>5, SomeThread
  <2>2. config'.threads = IF n = 0 THEN 1 ELSE n
    BY <1>4, <2>1
  <2> QED
    BY <2>1, <2>2
<1>8. ASSUME NEW i \in 2..Len(argv)
      PROVE  /\ argv[i].name \in {"p", "port"} => config'.port = argv[i].value % 65536
             /\ argv[i].name \in {"s", "secure-port"} => config'.securePort = argv[i].value % 65536
             /\ argv[i].name \in {"h", "host"} => config'.host = argv[i].value
             /\ argv[i].name \in {"h", "host"} => config'.secureHost = argv[i].value
             /\ argv[i].name \in {"ca-path"} => config'.ca = argv[i].value
             /\ argv[i].name \in {"cert-path"} => config'.cert = argv[i].value
  <2>1. ASSUME argv[i].name \in {"p", "port"} PROVE config'.port = argv[i].value % 65536
    <3>1. Override("port", c.port) = argv[i].value
      <4>1. "port" \in NamesOf(groups[2][1]) /\ argv[i].name \in NamesOf(groups[2][1])
        BY <1>1, <1>6, <2>1, HttpNames
      <4> QED
        BY <1>1, <1>5, <4>1, Overridden
    <3> QED
      BY <1>4, <3>1 DEF uint16
  <2>2. ASSUME argv[i].name \in {"s", "secure-port"} PROVE config'.securePort = argv[i].value % 65536
    <3>1. Override("secure-port", c.securePort) = argv[i].value
      <4>1. "secure-port" \in NamesOf(groups[2][2]) /\ argv[i].name \in NamesOf(groups[2][2])
        BY <1>1, <1>6, <2>2, HttpNames
      <4> QED
        BY <1>1, <1>5, <4>1, Overridden
    <3> QED
      BY <1>4, <3>1 DEF uint16
  <2>3. ASSUME argv[i].name \in {"h", "host"}
        PROVE  config'.host = argv[i].value /\ config'.secureHost = argv[i].value
    <3>1. Override("host", c.host) = argv[i].value
      <4>1. "host" \in NamesOf(groups[2][3]) /\ argv[i].name \in NamesOf(groups[2][3])
        BY <1>1, <1>6, <2>3, HttpNames
      <4> QED
        BY <1>1, <1>5, <4>1, Overridden
    <3>2. Override("host", c.secureHost) = argv[i].value
      <4>1. "host" \in NamesOf(groups[2][3]) /\ argv[i].name \in NamesOf(groups[2][3])
        BY <1>1, <1>6, <2>3, HttpNames
      <4> QED
        BY <1>1, <1>5, <4>1, Overridden
    <3> QED
      BY <1>4, <3>1, <3>2
  <2>4. ASSUME argv[i].name \in {"ca-path"} PROVE config'.ca = argv[i].value
    <3>1. Override("ca-path", c.ca) = argv[i].value
      <4>1. "ca-path" \in NamesOf(groups[2][5]) /\ argv[i].name \in NamesOf(groups[2][5])
        BY <1>1, <1>6, <2>4, HttpNames
      <4> QED
        BY <1>1, <1>5, <4>1, Overridden
    <3> QED
      BY <1>4, <3>1
  <2>5. ASSUME argv[i].name \in {"cert-path"} PROVE config'.cert = argv[i].value
    <3>1. Override("cert-path", c.cert) = argv[i].value
      <4>1. "cert-path" \in NamesOf(groups[2][6]) /\ argv[i].name \in NamesOf(groups[2][6])
        BY <1>1, <1>6, <2>5, HttpNames
      <4> QED
        BY <1>1, <1>5, <4>1, Overridden
    <3> QED
      BY <1>4, <3>1
  <2> QED
    BY <2>1, <2>2, <2>3, <2>4, <2>5
<1>9. ASSUME NEW member \in DOMAIN MemberOf, NEW i \in 2..Len(argv), argv[i].name \in MemberOf[member]
      PROVE  config'[member] = IF member \in {"port", "securePort"} THEN argv[i].value % 65536
                               ELSE argv[i].value
  <2>1. /\ DOMAIN MemberOf = {"port", "securePort", "host", "secureHost", "ca", "cert"}
        /\ MemberOf["port"] = {"p", "port"} /\ MemberOf["securePort"] = {"s", "secure-port"}
        /\ MemberOf["host"] = {"h", "host"} /\ MemberOf["secureHost"] = {"h", "host"}
        /\ MemberOf["ca"] = {"ca-path"} /\ MemberOf["cert"] = {"cert-path"}
    BY DEF MemberOf
  <2> QED
    BY <1>8, <1>9, <2>1
<1> QED
  BY <1>1, <1>7, <1>9 DEF CommandLineWins

(* Every step of the programs. *)
LEMMA ProgramsStep ==
  ASSUME OptionInv, CommandLineWins, [ProgramsNext]_programVars
  PROVE  OptionInv' /\ CommandLineWins'
<1>1. CASE OptionsStep
  <2>1. OptionInv'
    BY <1>1, OptionsNextInv DEF OptionsStep
  <2>2. stage' # "running"
    BY <1>1 DEF OptionsStep
  <2> QED
    BY <2>1, <2>2 DEF CommandLineWins
<1>2. CASE HttpSetUp
  <2>1. OptionInv'
    BY <1>2, OptionsKept DEF HttpSetUp
  <2> QED
    BY <1>2, <2>1, SetUpWins
<1>3. CASE BrokerSetUp \/ CalendarSetUp
  <2>1. OptionInv'
    BY <1>3, OptionsKept DEF BrokerSetUp, CalendarSetUp
  <2>2. program' # "http_server"
    BY <1>3 DEF BrokerSetUp, CalendarSetUp, optionsVars
  <2> QED
    BY <2>1, <2>2 DEF CommandLineWins
<1>4. CASE ServeAndEnd
  <2>1. OptionInv'
    BY <1>4, OptionsKept DEF ServeAndEnd
  <2>2. stage' # "running"
    BY <1>4 DEF ServeAndEnd, Ends
  <2> QED
    BY <2>1, <2>2 DEF CommandLineWins
<1>5. CASE PrintAndEnd
  <2>1. OptionInv'
    BY <1>5, OptionsKept DEF PrintAndEnd
  <2>2. program' # "http_server"
    BY <1>5 DEF PrintAndEnd, optionsVars
  <2> QED
    BY <2>1, <2>2 DEF CommandLineWins
<1>6. CASE UNCHANGED programVars
  <2>1. UNCHANGED optionsVars /\ stage' = stage /\ config' = config
    BY <1>6 DEF programVars
  <2>2. OptionInv'
    BY <2>1, OptionsKept
  <2>3. program' = program /\ argv' = argv
    BY <2>1 DEF optionsVars
  <2> QED
    BY <2>1, <2>2, <2>3 DEF CommandLineWins
<1> QED
  BY <1>1, <1>2, <1>3, <1>4, <1>5, <1>6 DEF ProgramsNext

(* OptionsReachProgram, for every program, command line and file: the      *)
(* option objects never point into a freed table while groups are copied   *)
(* and the vector grows (command_line_options.cpp:64-154), after every     *)
(* parse the accessors report what the command line says for the first     *)
(* group that matches (:302-322), and what is given to http_server is what *)
(* it starts with, whatever its file says (http_server main.cpp:177-206).  *)
THEOREM OptionsAlwaysReachProgram == ProgramsSpec => []OptionsReachProgram
<1>1. ProgramsInit => OptionInv /\ CommandLineWins
  <2> SUFFICES ASSUME ProgramsInit PROVE OptionInv /\ CommandLineWins
    OBVIOUS
  <2>1. OptionInv
    BY OptionsInitInv DEF ProgramsInit
  <2>2. stage # "running"
    BY DEF ProgramsInit
  <2> QED
    BY <2>1, <2>2 DEF CommandLineWins
<1>2. OptionInv /\ CommandLineWins /\ [ProgramsNext]_programVars => OptionInv' /\ CommandLineWins'
  BY ProgramsStep
<1>3. OptionInv /\ CommandLineWins => OptionsReachProgram
  BY NothingFreed, Reported DEF OptionsReachProgram
<1> QED
  BY <1>1, <1>2, <1>3, PTL DEF ProgramsSpec
=============================================================================
