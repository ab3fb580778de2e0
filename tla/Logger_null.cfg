SPECIFICATION Spec
CONSTANTS
  Threads = {t1, t2}
  Child = c1
  Managers = {t1}
  Closers = {t1}
  Names = {"a.log", "b.log"}
  BadNames = {}
  BufferParts = 2
  MaxCalls = 2
  None = None
INVARIANTS NoNullStream
CHECK_DEADLOCK FALSE
