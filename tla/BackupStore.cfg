\* Two callers, two backups; two failures of any kind, or the calm environment.
SPECIFICATION MCSpec
CONSTANTS
  j1 = j1
  j2 = j2
  b1 = b1
  b2 = b2
  Jobs <- MCJobs
  Ids <- MCIds
  Drivers <- TwoDrivers
  Retentions = {1}
  Environments <- CalmOrAny
  MaxTime = 2
  MaxFaults = 2
INVARIANT StoreTypeOK
INVARIANT CompleteHasArtifact
INVARIANT ArtifactAccounted
PROPERTY RowsEndOnce
PROPERTY CalmRunFinishes
CHECK_DEADLOCK FALSE
