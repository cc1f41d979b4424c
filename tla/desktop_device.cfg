\* Devices of nRF Desktop: power down, wake-up, USB, peers and inputs.
SPECIFICATION Spec
CONSTANTS
  TimeoutChecks = 1
  WheelDivider = 2
  NodataLimit = 1
  Settings = {"cpi"}
  Default = 1
  InRange = {1, 2}
  MaxPaired = 2
  Devices <- MCDevices
  Keys = {1}
  p1 = p1
  p2 = p2
  Rotations = {3}
  Values = {2, 9}
INVARIANTS
  SleepsStopped
  NeverDeaf
  PeersAgree
  
  PowerDownGoesOn
CHECK_DEADLOCK FALSE
