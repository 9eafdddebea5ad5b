SPECIFICATION Spec
CONSTANTS
  Dirs = {"atlas", "incus"}
  Files = {"database", "data"}
  VMs = {1, 2}
  Names = {"before"}
  Placements <- MCPlacements
  MaxMoves = 3
  MaxRuns = 2
  MaxWrites = 1
  MaxFaults = 1
CHECK_DEADLOCK FALSE
INVARIANT TypeOK
INVARIANT OnIsWhole
INVARIANT IncusSeesItsData
INVARIANT RestoreIsWhole
INVARIANT OneVMDown
PROPERTY BoxNeverGoesBack
