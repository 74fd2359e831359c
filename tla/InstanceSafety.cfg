SPECIFICATION Spec
CONSTANTS
  Instances = {i1}
  NoKey = NoKey
  Actors = {cli}
  IPs = {1}
  ServiceTypes = {"ClusterIP"}
  InUse = "ClusterIP"
  Untils = {1}
  Kinds = {"create", "delete", "suspend", "evict", "exit"}
  MaxClock = 2
  MaxEdits = 2
  MaxFaults = 1
INVARIANTS
  TypeOK
  IncarnationSafe
  Converged
  IInv
CHECK_DEADLOCK FALSE
