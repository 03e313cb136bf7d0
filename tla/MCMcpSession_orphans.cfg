\* Does a stream end with its session?
SPECIFICATION FairSpec
CHECK_DEADLOCK FALSE
CONSTANTS
  c1 = c1
  NoConn = NoConn
  v1 = v1
  v2 = v2
  vOld = vOld
  NoVersion = NoVersion
  Malformed = Malformed
  Versions <- MCVersions
  Preferred = v1
  Requests <- SilentRequests
  Conns = {c1}
  Supervision = {"stopped"}
  Passivation = FALSE
  SessionTTL = 2
  InitializeTimeout = 1
  MaxMailbox = 2
PROPERTY StreamDiesWithSession
