\* A session made by an initialize request and used over POST /mcp, without a stream;
\* also when its clients fall silent at any point.
SPECIFICATION FairSpec
CHECK_DEADLOCK FALSE
CONSTANTS
  NoConn = NoConn
  v1 = v1
  v2 = v2
  vOld = vOld
  NoVersion = NoVersion
  Malformed = Malformed
  Versions <- MCVersions
  Preferred = v1
  Requests <- DemandRequests
  Conns = {}
  Supervision = {"stopped", "suspended"}
  Passivation = TRUE
  SessionTTL = 4
  InitializeTimeout = 1
  MaxMailbox = 2
INVARIANTS
  EveryRequestAccounted
PROPERTIES
  UninitializedEnds
  IdleSessionEnds
