SPECIFICATION Spec
CONSTANTS
  Apps = {"dongle", "sample"}
  Peers <- AllPeers
  ShortName <- DeviceName
  FilterCnt <- Counts
  MaxAttrs = 19
  MaxChunks = 3
  ChunkSize = 60
  DataSize <- Sizes
  ReportsMax = 3
  MaxLinks = 2
  MaxFailures = 1
  MaxUsb = 3
  MaxConfigs = 1
INVARIANTS
  DiscoveryBalanced ReportsAccounted QuietMeansReady OneReportInFlight
  ConfigAnswered
CHECK_DEADLOCK FALSE
