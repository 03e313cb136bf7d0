\* Every interleaving, every failure: one stream of GET /sse, two of GET /mcp.
SPECIFICATION FairSpec
CHECK_DEADLOCK FALSE
CONSTANTS
  Streams = {a, b}
  NoStream = NoStream
  Routes = {"sse", "mcp"}
  Supervision = {"stopped", "suspended"}
  Passivation = TRUE
  SpawnsMayFail = TRUE
  MaxEvents = 2
INVARIANTS
  TypeOK
  DoneClosedOnce
  OneServed
PROPERTIES
  ImplementsEventStream
  LostHandlers
  EndedStreamReturns
