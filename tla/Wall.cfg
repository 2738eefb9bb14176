\* Every file tool against two requests, the clock, failing writes and requests.
CONSTANTS
  Null = Null
  Instances = {i1, i2}
  Items <- MCItems
  Batches <- MCBatches
  Selections <- MCSelections
  Durations = {1}
  PendingTimeout = 2
  Times = {0, 1}
  MaxDrift = 0
  MayStepBack = FALSE
  EventIds = {}
  MaxRequests = 1
  Paths <- MCPaths
  Trash <- MCTrash
  Discovery = {i2}
  Unknown = {nowhere}
  ToolsInUse = {"list", "read", "write", "move", "trash", "mkdir", "checkout", "checkin"}
  MaxOps = 2
  MaxFaults = 1
SPECIFICATION WallSpec
INVARIANTS TrashIsUnreachable EffectsAreRecorded
PROPERTIES EffectsAreGranted RefusalsAreRecorded
