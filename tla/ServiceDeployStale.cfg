CONSTANTS
  ServiceId = "svc"
  Platform <- MCPlatform
  Overlays <- MCOverlays
  CachedSnapshots = {"r1"}
  MaxCommands = 2
  MaxEdits = 1
  MaxInterrupts = 1
  MaxRemoved = 2
SPECIFICATION DeploySpec
INVARIANT
  DeployTakesEffect
CHECK_DEADLOCK FALSE
