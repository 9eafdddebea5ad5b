SPECIFICATION Spec
CONSTANTS
  Operators = {ann, bob}
  Repos = {"here", "there"}
  Outside = "nowhere"
  Unset = "unset"
  Relative = "relative"
  PathSettings <- MCSettings
  Overlay <- MCOverlay
  Workloads <- MCWorkloads
  Versions = {1, 2, 3}
  Incomplete = {2, 3}
  Passwordless = {3}
  Blank = 0
  NoFile = 9
  NoSecret = NoSecret
  Entries <- MCEntries
  SeedFiles <- MCSeedFiles
  MaxRuns = 2
  MaxEdits = 1
  MaxFaults = 1
SYMMETRY MCSymmetry
CHECK_DEADLOCK FALSE
INVARIANT TypeOK
INVARIANT IntactWorks
INVARIANT VaultIsLast
INVARIANT OneCheckout
PROPERTY BrokenByItsNameOnly
