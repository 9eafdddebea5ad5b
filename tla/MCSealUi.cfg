SPECIFICATION FairSpec
CONSTANTS
  Docs = {d1, d2, d3}
  Pages = {p1, p2}
  NoDoc = NoDoc
  MaxRetries = 2
  MaxFaults = 3
CHECK_DEADLOCK FALSE
INVARIANT TypeOK
INVARIANT FewRowsPerSubmission
INVARIANT PageShowsOwnRow
INVARIANT DownloadLinksWork
INVARIANT RetriesMaskFaults
PROPERTY SettledIsShown
