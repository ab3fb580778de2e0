SPECIFICATION TrafficSpec
CONSTANTS
  Instances = {d1}
  Clients = {c1, c2}
  Files = {f1, f2}
  Paths = {s1, s2, s3}
  BadPaths = {s3}
  DefaultFile = f1
  DefaultPath = s1
  Configs <- MixedConfigs
  Inodes = {1, 2}
  Backlog = 2
  Unset = Unset
  Stale = Stale
INVARIANTS FollowsLastLoad
PROPERTIES ClientsAnswered StopsWhenTold ReloadsWhenAsleep
