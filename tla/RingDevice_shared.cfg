\* Two blocking readers compete for the bytes of one writer.
CONSTANTS
  r1 = r1
  r2 = r2
  w1 = w1
  a1 = a1
  NoThread = NoThread
  Readers = {r1, r2}
  Writers = {w1}
  Admins = {}
  NonBlocking = {}
  Capacity = 2
  MaxLen = 2
  MaxBytes = 2
  Sizes = {2}
SPECIFICATION Spec
INVARIANT BlockingCallMovesData
SYMMETRY Symmetry
