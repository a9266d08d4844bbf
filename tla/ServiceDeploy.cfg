CONSTANTS
  ServiceId = "svc"
  Platform <- MCPlatform
  Overlays <- MCOverlays
  CachedSnapshots = {"r1"}
  MaxCommands = 2
  MaxEdits = 1
  MaxInterrupts = 1
  MaxRemoved = 2
SPECIFICATION DeploySpec
INVARIANTS
  
  
  LockIdentifiesInputs
  PackedBundleShips
  RebuildTakesEffect
  
PROPERTIES
  LockComesLast
  HandWrittenFilesKept
  
  BootstrapKeepsAWayBack
CHECK_DEADLOCK FALSE
