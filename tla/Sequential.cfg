SPECIFICATION SequentialSpec
CONSTANTS
  PageSize = 4
  WordSize = 32
  SlotSizes = {1, 2, 4}
  MinAlign = 1
  Space = 7
  CacheCapacity = 2
  Requests = {0, 2, 5, 11}
  Aligns = {1, 8}
  MaxBlocks = 2
  MaxCalls = 5
  Nodes = {n1, n2, n3, n4}
  Lists = {l1, l2}
  Nil = nil
  RegionBytes = 8
  HeaderBytes = 2
  ByteBits = 2
  Alignments = {1, 2, 4}
  Places = {r1, r2, r3}
  MaxObjects = 5
  Reserve = 7
  Templates <- T3
  Threads = {main, t}
  Main = main
  PageBytes = 2
  WordBits = 3
  BloomBits = 4
  Inputs <- AllInputs
  Starts <- SomeStarts
  NoFunction = nofunction
  CharBits = 2
  ShortBits = 4
  IntBits = 5
  LongBits = 6
  Chunk = 3
  Pointee <- PointeeText
  Calls <- AllCalls
  Lines <- CommandLines
  LongOptions <- Table
  MaxScans = 2
  Null = null
  Directories <- SomeDirectories
  RecordHeaderSize = 2
  NameOffset = 3
  Capacity = 11
  MaxOpens = 2
  MaxFailures = 2
  Cases <- SomeCases
  MaxTimeouts = 4
INVARIANTS HeapHolds RegionsHold BlocksOfEveryThread ImagesHold ProgramsStartRight FormatsRight OptionsRight EveryEntryOnce VerdictsHold
PROPERTY ImplementsLists
CHECK_DEADLOCK FALSE
