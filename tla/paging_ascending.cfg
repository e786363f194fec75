SPECIFICATION Spec
CONSTANTS
  a = a
  b = b
  c = c
  d = d
  e = e
  Item = {a, b, c, d, e}
  Start <- FineStart
  OtherKey <- Frames
  TicksPerSecond = 2
  Backend = "cmr"
  SortKey = "start"
  Descending = FALSE
  ByIds = FALSE
  EndInclusive = FALSE
  Untranslatable = {}
  DefaultLimit = 2
  MaxLimit = 4
  AskedLimits = {0, 1, 5}
  AskedEnds <- SomeEnds
INVARIANT NothingSkipped
