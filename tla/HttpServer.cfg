\* Two slow clients of which one may leave, replies larger than a socket takes.
SPECIFICATION FairSpec
CONSTANTS
  c1 = c1
  c2 = c2
  Clients = {c1, c2}
  Quitters = {c1}
  Fds = {f1, f2}
  MAX_EVENTS = 2
  SendBuffer = 2
  Size = 2
  Asks <- MCAsks
  Listen = Listen
  None = None
INVARIANTS RepliesRight NoForgottenClient
PROPERTIES EveryoneServed
CHECK_DEADLOCK FALSE
