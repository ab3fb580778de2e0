\* Three workers, five files (one unreadable), keys that share a bucket.
CONSTANTS
  num_t = 3
  Files <- MCFiles
  Content <- MCContent
  Unreadable = {"f2"}
  Keys = {"u", "v", "x"}
  hash <- MCHash
  TopN = 2
  Nothing = Nothing
  Dash = Dash
SPECIFICATION Spec
INVARIANTS OneNodePerKey LinesAccountedFor
  ReportIsRight
PROPERTY Terminates
