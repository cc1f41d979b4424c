SPECIFICATION FairLinkSpec
CONSTANTS
  CountMod = 8
  Pipes = {0}
  TxFifoSize = 2
  RxFifoSize = 1
  PidMax = 1
  RetransmitCounts = {1}
  TxMode = "MANUAL"
  Protocol = "ESB_DPL"
  SelectiveAutoAck = TRUE
  NoAcks = {FALSE}
  Data = {0}
  ThreadOps = {"write", "start_tx", "flush_tx", "init"}
  HandlerOps = {}
  IdleOnly = {"flush_tx"}
  AckIds = {}
  MaxId = 3
PROPERTIES
  ImplementsChannel
  EveryAttemptReported
CHECK_DEADLOCK FALSE
