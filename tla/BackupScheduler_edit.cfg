\* An admin edits the retention while a run advances the schedule.
SPECIFICATION Spec
CONSTANTS
  p1 = p1
  p2 = p2
  adm = adm
  b1 = b1
  b2 = b2
  b3 = b3
  b4 = b4
  s1 = s1
  s2 = s2
  Jobs <- MCJobs
  Instances <- MCInstances
  Ids <- MCIds
  Drivers <- LocalOnly
  Retentions = {1, 2}
  Environments <- NoDoing
  MaxTime = 2
  MaxFaults = 0
  Schedules = {s1}
  Frequencies = {"daily"}
  Period <- MCPeriod
  Seeded = TRUE
  EditFields <- RetentionEdit
SYMMETRY Symmetry
INVARIANT NoDoubleRun
CHECK_DEADLOCK FALSE
