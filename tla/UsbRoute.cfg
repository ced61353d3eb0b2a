\* Every tree of devices; a hub with several disks.
SPECIFICATION Spec
CONSTANTS
  RootPorts = 2
  HubPorts = 3
  Resets = 5
  Worlds <- MCWorlds
  HaveFat16 = FALSE
  Files <- MCFiles
INVARIANT RouteIsOwn
