SPECIFICATION FairProcess
CONSTANTS
  Null = Null
  UserIds = {"@bot", "@owner"}
  RoomIds = {"!room"}
  LongTokens = {"long1", "long2"}
  Wildcards = {"0.0.0.0", "::"}
  Setups <- MCSetups
  Paths <- MCPaths
  Presented = {"long1", "long2"}
  MaxDeaths = 2
INVARIANTS ProcessTypeOK BothSurfacesServe ShutdownIsComplete NothingDangles SurfacesAreSeparate
PROPERTY ProcessEnds
