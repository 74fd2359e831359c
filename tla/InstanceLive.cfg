SPECIFICATION FairSpec
CONSTANTS
  Instances = {i1}
  NoKey = NoKey
  Actors = {cli}
  IPs = {1}
  ServiceTypes = {"ClusterIP", "NodePort"}
  InUse = "ClusterIP"
  Untils = {1}
  Kinds = {"edit", "suspend", "wake", "delete", "evict", "exit", "tamper", "create"}
  MaxClock = 2
  MaxEdits = 2
  MaxFaults = 1
PROPERTIES
  EventuallyInSync
  DeletionCompletes
  NoPodOutlivesItsInstance
CHECK_DEADLOCK FALSE
CONSTRAINT Found
ACTION_CONSTRAINT FaultsMeetDeletions
ACTION_CONSTRAINT SecondIsCreation
