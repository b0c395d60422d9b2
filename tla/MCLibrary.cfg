\* Some parts stop at their bounds, so deadlock is not an error.
CONSTANTS
  Size = 5
  MaxPut = 12
  MaxTotal = 60
  BlockSize = 2
  MaxBlocks = 3
  PageBytes = 2
  EF_ALIGNMENT = 2
  ChunkPages = 5
  FirstPage = 6
  ChunkPlaces = {1, 11}
  SlotsPerPage = 9
  AskSizes = {0, 3}
  Alignments = {1, 2}
  MaxPage = 15
  MaxMapped = 10
  MaxLive = 2
  Entries = {"a", "b", "c"}
  Heads = {"h", "g"}
  Nodes = {"a", "b", "c"}
  Buckets = {"h", "g"}
  WordBits = 2
  Sizes = {2, 4, 5}
  Block = 8
  WordSize = 32
  MaxPiece = 31
  MaxFed = 40
  ByteValues = {0, 1, 65, 128, 254, 255}
  MaxLength = 4
  SpeckBits = 2
  SpeckRot <- Rotations
  Rounds = 5
  SpeckKeys <- Keys
  NUM_ITEMS = 5
  BUFSIZE = 2
SPECIFICATION LibrarySpec
INVARIANTS
  LastBytes
  PoolConserved
  SlotsRight
  OverrunTraps
  FreedIsInaccessible
  ListsRight
  SafeLoopVisitsAll
  ChainsRight
  BitsRight
  MessageHashed
  CodecsRight
  ThreadsRight
CHECK_DEADLOCK FALSE
