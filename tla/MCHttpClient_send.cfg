\* Is the callback safe against channels closed meanwhile? Close is not called.
SPECIFICATION Spec
CHECK_DEADLOCK FALSE
CONSTANTS
  r1 = r1
  r2 = r2
  Requests = {r1}
  Nobody = Nobody
  Closing = FALSE
INVARIANT SendToleratesClosed
