\* A session asks for a tool, a resource or a prompt while these are registered. One
\* session: they share nothing but the subscribers of a resource.
SPECIFICATION Spec
CHECK_DEADLOCK FALSE
CONSTANTS
  Sessions = {"s1"}
  NoName = NoName
  NotAnObject = NotAnObject
  NoRequest = NoRequest
  NoTool = NoTool
  Configurations <- MCConfigurations
  Definitions <- MCDefinitions
  Requests <- MCRequests
  Prompts <- MCPrompts
  URIs = {"u"}
  MaxSets = 2
  WordSize = 64
  Float64 <- MCFloat64
  Float32 <- MCFloat32
  BeyondInt64 <- MCBeyondInt64
  BeyondUint64 <- MCBeyondUint64
INVARIANTS
  TypeOK
  InputFaithful
  AnswerTellsCause
