\* One blocking reader, one blocking writer, one administrator: what must happen.
CONSTANTS
  r1 = r1
  w1 = w1
  a1 = a1
  NoThread = NoThread
  Readers = {r1}
  Writers = {w1}
  Admins = {a1}
  NonBlocking = {}
  Capacity = 1
  MaxLen = 1
  MaxBytes = 2
  Sizes = {1}
SPECIFICATION FairSpec
PROPERTIES BlockedThreadsWake CallsComplete
