SPECIFICATION ColumnsSpec
CONSTANTS
  Threads = {1, 2}
  Trees <- SomeTrees
  Calls <- SomeCalls
  Tmp <- SomeTmp
  TmpNames = {"x", "y"}
  MaxLinks = 1
  MaxPops = 1
  Chars = {"/", ".", "a"}
  MaxPath = 6
  Names <- SomeNames
  Signs = {"nl", " ", "a", "q", "!"}
  Rules <- SomeRules
  MaxInput = 5
  Width = 4
  Queries <- SomeQueries
  CookieLists <- SomeCookieLists
  Headers <- SomeHeaders
  Words <- SomeWords
  MaxAge = 15
INVARIANTS
  StartingColumns
CHECK_DEADLOCK FALSE
