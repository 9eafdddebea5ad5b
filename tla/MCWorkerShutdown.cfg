SPECIFICATION FairSpec
CONSTANTS
  Docs = {d1}
  Malformed = {}
  Workers = {w1, w2}
  Signers = {w1, w2}
  NoDoc = NoDoc
  MaxJobRetries = 3
  DlqReprocessing = TRUE
  MaxFailures = 3
  MaxCrashes = 1
  MaxFaults = 0
  EnvOutcomes = {"ok"}
CHECK_DEADLOCK FALSE
PROPERTY InFlightIsFinished
