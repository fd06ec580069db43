SPECIFICATION Spec
CONSTANTS
  Threads = {t1}
  Stdout = out
  Stderr = err
  Nobody = nobody
  BufferSize = 2
  Operations <- PutPurgeWrite
  Texts <- LongText
  Lines <- NoLine
  Putting <- PutByte
  MaxCalls = 4
  MaxFailures = 0
INVARIANT NothingVanishes
CHECK_DEADLOCK FALSE
