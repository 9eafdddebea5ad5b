SPECIFICATION Spec
CONSTANTS
  Names <- MCNames
  NoName = NoName
  Prefixes <- MCPrefixes
  Workloads <- MCWorkloads
  Extras = {"quota"}
  Scaffolded <- MCWorkloads
  PlatformFile <- MCPlatformFile
  NoRoute = NoRoute
  PlatformRoute = PlatformRoute
  Options <- MCOptions
  MaxCommands = 3
  MaxEdits = 1
  MaxFaults = 1
CHECK_DEADLOCK FALSE
INVARIANT TypeOK
INVARIANT NoResidue
INVARIANT RoutesInUse
INVARIANT ListenersInUse
INVARIANT GatewayWellFormed
INVARIANT EnabledIsServed
INVARIANT CompleteIsCommitted
PROPERTY LifeFollowsContract
PROPERTY ListenerLeavesWithItsApp
