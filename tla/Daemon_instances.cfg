SPECIFICATION Spec
CONSTANTS
  Instances = {d1, d2}
  Clients = {}
  Files = {f1}
  Paths = {s1, s2}
  BadPaths = {}
  DefaultFile = f1
  DefaultPath = s1
  Configs <- PathConfigs
  Inodes = {1, 2, 3}
  Backlog = 2
  Unset = Unset
  Stale = Stale
INVARIANTS OneDaemon PidFileNamesDaemon Reachable NoOtherName
SYMMETRY Symmetry
CONSTRAINT UntilClobbered
