SPECIFICATION TreeSpec
CONSTANTS
  Names = {"a", "b"}
  Sessions = {s1, s2}
  MaxLevels = 3
  MaxEntries = 2
INVARIANTS
  MatchIsExact
CHECK_DEADLOCK FALSE
