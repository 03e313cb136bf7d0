\* Two requests at once, and Close.
SPECIFICATION FairSpec
CHECK_DEADLOCK FALSE
CONSTANTS
  r1 = r1
  r2 = r2
  Requests = {r1, r2}
  Nobody = Nobody
  Closing = TRUE
INVARIANTS
  TypeOK
  OwnAnswer
  AnswerKept
PROPERTIES
  RequestReturns
  PanicsExplained
