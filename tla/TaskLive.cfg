SPECIFICATION FairSpec
CONSTANTS
  i1 = i1
  i2 = i2
  Instances = {i1}
  Initially <- UpOrResting
  Tasks = {t1}
  TaskSpecs <- SuspendOrWake
  NoTask = NoTask
  CLI = cli
  Actors = {t1, cli}
  Kinds = {"exit", "wake"}
  MaxClock = 1
  MaxEdits = 1
  MaxFaults = 0
PROPERTIES
  TasksEnd
CHECK_DEADLOCK FALSE
ACTION_CONSTRAINT TroubleWhereAwaited
CONSTRAINT MuchToDo
