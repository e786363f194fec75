SPECIFICATION Spec
CONSTANTS
  Inputs <- MCInputs
  Text <- MCText
  Known <- MCKnown
  Instants <- MCInstants
  DefaultLimit = 2
  MaxLimit = 3
  CMRPageSize = 4
  Crowd = 4
  Dates = FALSE
INVARIANTS
  TypeOK
  LinksKeepQuery
  AnswersFit
  AreaHonoured
  IntervalHonoured
CHECK_DEADLOCK FALSE
