\* A client lists and gets while four names are registered.
SPECIFICATION FairSpec
CHECK_DEADLOCK FALSE
CONSTANTS
  Names = {1, 2, 3, 4}
  PageSize = 2
  MaxVersion = 2
  Clients = {c1}
  Extra <- MCExtra
INVARIANTS
  TypeOK
  WalkComplete
  NothingTwice
  HandledByAcceptor
  MessagesNotOlder
PROPERTY WalkEnds
