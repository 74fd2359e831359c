SPECIFICATION Spec
CONSTANTS
  i1 = i1
  i2 = i2
  Instances = {i1, i2}
  Initially <- UpOrResting
  Tasks = {t1}
  TaskSpecs <- OneOrTwo
  NoTask = NoTask
  CLI = cli
  Actors = {t1, cli}
  Kinds = {}
  MaxClock = 1
  MaxEdits = 0
  MaxFaults = 1
INVARIANTS
  TypeOK
  TaskConverged
  Reserved
  CompleteMeansDone
CHECK_DEADLOCK FALSE
CONSTRAINT OneIsUp
ACTION_CONSTRAINT IdleIsLeftAlone
ACTION_CONSTRAINT OneMeetsFailures
