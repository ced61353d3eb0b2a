\* Every tree of devices; every card.
SPECIFICATION Spec
CONSTANTS
  RootPorts = 2
  HubPorts = 3
  Resets = 5
  Worlds <- MCWorlds
  HaveFat16 = FALSE
  Files <- MCFiles
INVARIANTS
  FindsTheFile
  NoDiskMissed
  RingsApart
PROPERTIES
  AsksTheHub
  Settles
