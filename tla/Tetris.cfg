SPECIFICATION Spec
CONSTANTS
  COLS = 4
  ROWS = 4
  Types = {0, 6}
  Letters = {"a"}
  TextSizes = {2, 3}
  MAX_NAME = 2
  MaxScore = 200
INVARIANTS PieceFits FreshGame ShownScoreIsSaved
PROPERTIES LinesFallDown
CHECK_DEADLOCK FALSE
