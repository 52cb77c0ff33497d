\* An admin deletes the running row.
SPECIFICATION Spec
CONSTANTS
  p1 = p1
  p2 = p2
  adm = adm
  b1 = b1
  b2 = b2
  b3 = b3
  b4 = b4
  s1 = s1
  s2 = s2
  Jobs <- MCJobs
  Instances <- MCInstances
  Ids <- MCIds
  Drivers <- LocalOnly
  Retentions = {1}
  Environments <- DeleteOnly
  MaxTime = 2
  MaxFaults = 0
  Schedules = {s1}
  Frequencies = {"daily"}
  Period <- MCPeriod
  Seeded = TRUE
  EditFields <- NoEdit
SYMMETRY Symmetry
INVARIANT CreateNeverThrows
CHECK_DEADLOCK FALSE
