SPECIFICATION Spec
CONSTANTS
  MaxPathLen = 9
  MaxPathSegments = 3
  MaxRouteParams = 2
  MaxNodes = 5
  MaxChildren = 3
  FanOut <- MCFanOut
  PoolCaps <- MCPoolCaps
  MaxRoutes = 7
  MaxUpstreams = 3
  MaxNameLen = 3
  MaxBodies = 2
  BodyPoolBytes = 5
  MaxHeaderSets = 2
  MaxHeaderEntries = 3
  MaxHeadersPerSet = 2
  HeaderPoolBytes = 8
  ReservedNames <- MCReserved
  Scenarios <- MCScenarios
INVARIANTS MatchesReference HoldsJustTheRoutes IndicesResolve
CHECK_DEADLOCK FALSE
