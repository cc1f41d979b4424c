SPECIFICATION Spec
CONSTANTS
  Clouds = {"calm", "any"}
  Tags = {"tag", "state request", "pairing report"}
  Sensors = 2
  CounterMod = 4
  ReadMax = 2
  NetMax = 2
  MaxSessions = 2
  MaxSends = 1
  MaxFaults = 1
  MaxShadow = 2
INVARIANTS ClientResources ReadyMeansSubscribed NeverStranded NeverStalls
CHECK_DEADLOCK FALSE
