SPECIFICATION Spec
CONSTANTS
  Uuid <- SomeUuid
  Garbage = {7}
  PeerPackets <- SomePackets
  MaxSends = 2
  Malformed = {0, 2, 43, 255}
  BufferStart = 64
  Names = {"a", "b", ""}
  Sessions = {s1, s2}
  MaxLevels = 3
  MaxEntries = 2
INVARIANTS
  PacketsArrive
  MatchesSimpleTrees
  NoDuplicates
PROPERTIES
  FramedByLength
CHECK_DEADLOCK FALSE
