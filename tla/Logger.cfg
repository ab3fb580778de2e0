SPECIFICATION FairSpec
CONSTANTS
  Threads = {t1, t2}
  Child = c1
  Managers = {t1}
  Closers = {t1, c1}
  Names = {"a.log", "b.log"}
  BadNames = {"b.log"}
  BufferParts = 2
  MaxCalls = 2
  None = None
INVARIANTS RecordsWhole WrittenOnce
PROPERTIES CallsReturn
CHECK_DEADLOCK FALSE
