SPECIFICATION FairSpec
CONSTANTS
  CountMod = 8
  Pipes = {0}
  TxFifoSize = 1
  RxFifoSize = 2
  PidMax = 1
  Protocol = "ESB_DPL"
  SelectiveAutoAck = TRUE
  Data = {0, 1}
  TooLong = {1}
  ThreadOps = {"write","flush_tx","flush_rx","stop_rx","init"}
  NoAcks = {FALSE,TRUE}
  MaxId = 2
INVARIANTS
  RecordedIsStored
  StateMatchesRadio
PROPERTIES
  FullFifoIsRead
CHECK_DEADLOCK FALSE
