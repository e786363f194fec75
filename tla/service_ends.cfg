SPECIFICATION FairSpec
CONSTANTS
  a = a
  b = b
  c = c
  d = d
  Item = {a, b, c, d}
  Start <- FineStarts
  OtherKey <- FineStarts
  TicksPerSecond = 2
  Backend = "cmr"
  SortKey = "start"
  Descending = TRUE
  ByIds = FALSE
  EndInclusive = FALSE
  Untranslatable = {}
  DefaultLimit = 2
  MaxLimit = 3
  Client = {k1}
  AskedLimits = {1, 2, 3}
  Token = {t1, t2}
  TTL = 1
  Interval = 1
  Absent = Absent
  NoToken = NoToken
  InlineMax = 0
INVARIANTS NoRepeats NoneLost
PROPERTY WalksEnd
