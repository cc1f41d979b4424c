SPECIFICATION Spec
CONSTANTS
  CountMod = 8
  Pipes = {0}
  TxFifoSize = 3
  RxFifoSize = 1
  PidMax = 1
  RetransmitCounts = {0, 1}
  TxMode = "AUTO"
  Protocol = "ESB_DPL"
  SelectiveAutoAck = TRUE
  NoAcks = {FALSE, TRUE}
  Data = {0}
  ThreadOps = {"write", "start_tx", "flush_tx", "pop_tx", "set_retransmit_count", "reuse_pid", "init", "disable"}
  HandlerOps = {"read_rx", "flush_rx", "flush_tx"}
  IdleOnly = {"pop_tx", "init", "disable"}
  AckIds = {1}
  MaxId = 3
INVARIANTS
  TypeOK
  TxRingOK
  StartOnIdleRadio
  NoLostWakeup
  StateMatchesRadio
  AttemptsBounded
CHECK_DEADLOCK FALSE
