\* A session made by one of two streams and answered over them.
SPECIFICATION Spec
CHECK_DEADLOCK FALSE
CONSTANTS
  c1 = c1
  c2 = c2
  NoConn = NoConn
  v1 = v1
  v2 = v2
  vOld = vOld
  NoVersion = NoVersion
  Malformed = Malformed
  Versions <- MCVersions
  Preferred = v1
  Requests <- StreamRequests
  Conns = {c1, c2}
  Supervision = {"stopped", "suspended"}
  Passivation = FALSE
  SessionTTL = 2
  InitializeTimeout = 1
  MaxMailbox = 2
INVARIANTS
  TypeOK
  SingleSchedule
  EveryRequestAccounted
  AnswersAreFinal
  StreamRegistered
PROPERTIES
  TtlRespectsActivity
  OnlyShutdownForgets
  ImplementsLifecycle
