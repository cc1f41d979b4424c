SPECIFICATION Spec
CONSTANTS
  ItemCount = 2
  QueueSize = 2
  Reports = {"mouse", "keyboard"}
  CntMod = 4
  Devices <- AllDevices
  MaxWheel = 1
  MaxValue = 2
INVARIANTS ItemsOK ReportsCounted
PROPERTY MouseHasNoStuckKeys
