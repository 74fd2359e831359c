SPECIFICATION PodSpec
CONSTANTS
  Reserved <- ReservedNames
  ConfigMaps = {"a", "b"}
  VolumeName <- CMName
  UserNames = {"extra", "more"}
  Paths = {"/x", "/y"}
  TaskVolumes <- OfTask
  InstanceVolumes <- OfInstance
  Integrations <- UpToTwo
  InstanceMounts <- MountLists
INVARIANTS
  VolumesByPrecedence
  ConfigsReachTheirContainers
CHECK_DEADLOCK FALSE
