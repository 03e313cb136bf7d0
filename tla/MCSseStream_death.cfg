\* Does the handler come back when its connection actor stops?
SPECIFICATION FairSpec
CHECK_DEADLOCK FALSE
CONSTANTS
  Streams = {a}
  NoStream = NoStream
  Routes = {"sse"}
  Supervision = {"stopped"}
  Passivation = FALSE
  SpawnsMayFail = FALSE
  MaxEvents = 1
PROPERTY DeathComes
