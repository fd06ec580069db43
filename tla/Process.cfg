SPECIFICATION ProcessSpec
CONSTANTS
  Threads = {t1, t2}
  Stdout = out
  Stderr = err
  Nobody = nobody
  BufferSize = 2
  Operations <- AllButPurge
  Texts <- LongText
  Lines <- ShortLine
  Putting <- PutByteOrEof
  MaxCalls = 2
  MaxFailures = 1
  Program = program
  Miros = miros
  a = a
  b = b
  c = c
  d = d
  Libraries = {a, b, c, d}
  Intercepted = {d}
  environ = environ
  __environ = __environ
  symbol = symbol
  Symbols = {environ, __environ, symbol}
  Cells <- TwoNames
  Null = null
  Scenarios <- AllScenarios
  Classes = {c1, c2}
  NoClass = noclass
  Slice = 2
  Space = 11
  DirectorySlots = 5
  MaxSpans = 3
  MaxLarge = 1
INVARIANTS CallsStayTogether ExitFlushes LibrariesInOrder OneVariable SpansRoute
PROPERTIES ImplementsQueue ProcessGoesOn
CHECK_DEADLOCK FALSE
