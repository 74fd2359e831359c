SPECIFICATION Spec
CONSTANTS
  Instances = {i1}
  NoKey = NoKey
  Actors = {cli}
  IPs = {1}
  ServiceTypes = {"ClusterIP"}
  InUse = "ClusterIP"
  Untils = {1}
  Kinds = {"create", "delete", "edit", "resume", "unwake", "suspend", "wake", "evict", "exit", "tamper"}
  MaxClock = 2
  MaxEdits = 1
  MaxFaults = 1
PROPERTIES
  ImplementsLifecycle
CHECK_DEADLOCK FALSE
