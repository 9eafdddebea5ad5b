SPECIFICATION Spec
CONSTANTS
  Docs = {d1, d2}
  Workers = {w1}
  Signers = {w1}
  NoDoc = NoDoc
  NoResult = NoResult
  MaxJobRetries = 3
  DlqReprocessing = TRUE
  MaxFailures = 2
  MaxCrashes = 1
  MaxFaults = 1
  Replicas = {r1, r2}
  ApiOutcomes = {"ok","twice","lost","torn"}
  MaxApiFaults = 1
  MaxApiCrashes = 1
SYMMETRY Symmetry
CHECK_DEADLOCK FALSE
INVARIANT TypeOK
INVARIANT DownloadHasObject
INVARIANT QueuedHasRow
