SPECIFICATION Spec
CONSTANTS
  i1 = i1
  i2 = i2
  Instances = {i1}
  Initially <- Up
  Tasks = {t1}
  TaskSpecs <- Suspending
  NoTask = NoTask
  CLI = cli
  Actors = {t1, cli}
  Kinds = {}
  MaxClock = 1
  MaxEdits = 0
  MaxFaults = 0
INVARIANTS
  Exclusive
CHECK_DEADLOCK FALSE
