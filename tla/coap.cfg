SPECIFICATION Spec
CONSTANTS
  Roles = {"client", "server", "proxy", "secure", "codec"}
  QueueSize = 2
  CountSpace = 65536
  MaxObservables = 2
  MaxObservers = 2
  Sessions = 2
  MaxOptions = 2
  DataMaxSize = 300
  MaxMsgs = 3
  OtherMsgs = 1
  IdSpace = 65536
  AckTimeout = 1
  MaxSpan = 5
  MaxRetransmit = 2
  MaxFails = 1
INVARIANTS
  QueueAccounted
  TablesSound
  MessagesReadBack
PROPERTY
  EveryMessageConcludes
CHECK_DEADLOCK FALSE
