SPECIFICATION Spec
CONSTANTS
  i1 = i1
  i2 = i2
  Instances = {i1, i2}
  Initially <- Resting
  Tasks = {t1}
  TaskSpecs <- Edits
  NoTask = NoTask
  CLI = cli
  Actors = {t1, cli}
  Kinds = {"ttl", "untask", "task", "retask", "fire", "instance", "suspend", "resume", "expiring", "wake", "unwake", "edit"}
  MaxClock = 2
  MaxEdits = 2
  MaxFaults = 1
INVARIANTS
  TaskIInv
CHECK_DEADLOCK FALSE
ACTION_CONSTRAINT SecondMeetsRest
ACTION_CONSTRAINT BothMeetFailures
ACTION_CONSTRAINT NobodyLooks
ACTION_CONSTRAINT TimeMatters
