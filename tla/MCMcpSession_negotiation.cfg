\* Are requests executed only after a version was negotiated?
SPECIFICATION Spec
CHECK_DEADLOCK FALSE
CONSTANTS
  c1 = c1
  NoConn = NoConn
  v1 = v1
  v2 = v2
  vOld = vOld
  NoVersion = NoVersion
  Malformed = Malformed
  Versions <- MCVersions
  Preferred = v1
  Requests <- StreamRequests
  Conns = {c1}
  Supervision = {"stopped"}
  Passivation = FALSE
  SessionTTL = 2
  InitializeTimeout = 1
  MaxMailbox = 2
PROPERTY ServedOnlyAfterNegotiation
