SPECIFICATION FairSpec
CONSTANTS
  Token = {t1, t2, t3}
  Cursor = {c1, c2}
  TTL = 3
  Interval = 2
  Absent = Absent
INVARIANT TypeOK
PROPERTIES KeepsLeases ExpiredAreSwept StopEndsLoop
