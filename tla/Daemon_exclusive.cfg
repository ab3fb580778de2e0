SPECIFICATION Spec
CONSTANTS
  Instances = {d1, d2, d3}
  Clients = {}
  Files = {f1}
  Paths = {s1}
  BadPaths = {}
  DefaultFile = f1
  DefaultPath = s1
  Configs <- PathConfigs
  Inodes = {1, 2, 3, 4}
  Backlog = 2
  Unset = Unset
  Stale = Stale
INVARIANTS OnlyOneDaemon
SYMMETRY Symmetry
