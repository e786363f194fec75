SPECIFICATION Spec
CONSTANTS
  a = a
  b = b
  c = c
  d = d
  Item = {a, b, c, d}
  Start <- Starts
  OtherKey <- Starts
  TicksPerSecond = 1
  Backend = "asf"
  SortKey = "start"
  Descending = TRUE
  ByIds = FALSE
  EndInclusive = FALSE
  Untranslatable = {}
  DefaultLimit = 2
  MaxLimit = 3
  Client = {k1, k2}
  AskedLimits = {2}
  Token = {t1, t2}
  TTL = 1
  Interval = 1
  Absent = Absent
  NoToken = NoToken
  InlineMax = 0
INVARIANT PagesAdvance
