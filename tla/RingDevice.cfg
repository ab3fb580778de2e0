\* Two readers (one O_NONBLOCK), one writer and one administrator on a 2-byte FIFO.
CONSTANTS
  r1 = r1
  r2 = r2
  w1 = w1
  a1 = a1
  NoThread = NoThread
  Readers = {r1, r2}
  Writers = {w1}
  Admins = {a1}
  NonBlocking = {r2}
  Capacity = 2
  MaxLen = 2
  MaxBytes = 2
  Sizes = {2}
SPECIFICATION Spec
INVARIANTS TypeOK MutualExclusion WithinCapacity ReadInOrder NoLostWakeup
PROPERTY ImplementsFifo
