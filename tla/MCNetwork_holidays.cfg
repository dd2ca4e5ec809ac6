SPECIFICATION CalendarSpec
CONSTANTS
  Texts <- SomeTexts
  Requests <- SomeRequests
  BufSize = 4
  MaxRequests = 2
  Handlers = {h1, h2}
  Ids = {i1}
  NoSession = NoSession
  Invalid = Invalid
  Keys = {k1}
  Data = {v1, v2}
  SessionTimeout = 2
  MaxTime = 2
  Servers = {plain, secure}
  Secure = {secure}
  Number = 2
  MaxConnections = 4
  MaxWaiting = 2
  MaxFailures = 1
  None = None
  CommandLines <- SomeCommandLines
  Declared <- SomeDeclared
  MaxParses = 2
  Files <- SomeFiles
  Hardware = {0, 2}
  Today <- SomeToday
  Loggers = {t1, t2}
  Levels <- SomeLevels
  Statements <- SomeStatements
  Nobody = Nobody
  MaxLines = 2
  MaxForced = 2
INVARIANTS
  ShowsItsHolidays
CHECK_DEADLOCK FALSE
