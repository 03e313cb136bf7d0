\* Every option, every server.
SPECIFICATION FairSpec
CHECK_DEADLOCK FALSE
INVARIANTS
  TypeOK
  OneStream
PROPERTIES
  AssumedOnlyInWindow
  ConnectReturns
