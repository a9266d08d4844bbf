CONSTANTS
  Jobs = {"r1", "r2", "old"}
  Requests = {"r1", "r2"}
  Earlier = {"old"}
  Logits <- MCLogits
  MAX_IMAGE_SIZE = 1
  ChunkSizes = {1}
  BatchSize = 2
  None = None
  Tracked <- MCPaths
  Protected <- MCPaths
  Endpoint <- MCEndpoint
  Ticks = {100000}
  MaxClock = 100000
  MaxFaults = 1
  TopLimit = 1
  Offset <- MCOffset
  Asks <- MCAsks
  Queries <- MCQueries
SPECIFICATION RequestsSpec
INVARIANTS
  RequestsTypeOK
  DownloadBounded
  ResultOfOwnPicture
  OnlyDownloadsSpoilBatches
  
  ReportCountsTraffic
  ReportMatchesTraffic
PROPERTY
  JobsFollowLifecycle
CHECK_DEADLOCK FALSE
