\* An admin disables, re-enables and deletes; the schedule may be seeded twice.
SPECIFICATION Spec
CONSTANTS
  p1 = p1
  p2 = p2
  adm = adm
  b1 = b1
  b2 = b2
  b3 = b3
  b4 = b4
  s1 = s1
  s2 = s2
  Jobs <- MCJobs
  Instances <- MCInstances
  Ids <- TwoIds
  Drivers <- LocalOnly
  Retentions = {1}
  Environments <- EditDoings
  MaxTime = 1
  MaxFaults = 1
  Schedules = {s1, s2}
  Frequencies = {"daily"}
  Period <- MCPeriod
  Seeded = FALSE
  EditFields <- ToggleEdit
SYMMETRY Symmetry
INVARIANT SingleFlight
CHECK_DEADLOCK FALSE
