SPECIFICATION Spec
CONSTANTS
  CountMod = 8
  Pipes = {0}
  TxFifoSize = 2
  RxFifoSize = 1
  PidMax = 3
  RetransmitCounts = {0, 1}
  TxMode = "AUTO"
  Protocol = "ESB_DPL"
  SelectiveAutoAck = TRUE
  NoAcks = {FALSE}
  Data = {0}
  ThreadOps = {"write", "init"}
  HandlerOps = {}
  IdleOnly = {"init"}
  AckIds = {1}
  MaxId = 3
INVARIANTS
  InFlightIsHead
CHECK_DEADLOCK FALSE
