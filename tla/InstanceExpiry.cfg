SPECIFICATION Spec
CONSTANTS
  Instances = {i1}
  NoKey = NoKey
  Actors = {cli}
  IPs = {1}
  ServiceTypes = {"ClusterIP"}
  InUse = "ClusterIP"
  Untils = {1}
  Kinds = {"delete", "suspend", "wake", "evict", "edit", "exit"}
  MaxClock = 2
  MaxEdits = 2
  MaxFaults = 0
INVARIANTS
  ExpiryIsPending
CHECK_DEADLOCK FALSE
