SPECIFICATION FairSpec
CONSTANTS
  Docs = {d1}
  Workers = {w1}
  Signers = {w1}
  NoDoc = NoDoc
  NoResult = NoResult
  MaxJobRetries = 3
  DlqReprocessing = TRUE
  MaxFailures = 2
  MaxCrashes = 0
  MaxFaults = 0
  Replicas = {r1, r2}
  ApiOutcomes = {"ok"}
  MaxApiFaults = 0
  MaxApiCrashes = 0
CHECK_DEADLOCK FALSE
PROPERTY CompletedResultSticks
