SPECIFICATION FairSpec
CONSTANTS
  a = a
  b = b
  c = c
  d = d
  e = e
  Item = {a, b, c, d, e}
  Start <- WholeStart
  OtherKey <- Frames
  TicksPerSecond = 2
  Backend = "asf"
  SortKey = "start"
  Descending = TRUE
  ByIds = FALSE
  EndInclusive = FALSE
  Untranslatable = {}
  DefaultLimit = 2
  MaxLimit = 4
  AskedLimits = {0, 1, 5}
  AskedEnds <- SomeEnds
INVARIANTS TypeOK NoDuplicates NothingSkipped
PROPERTIES ListsInOrder WalkEnds
