\* Every part beside the media.
SPECIFICATION Spec
CONSTANTS
  Parts = {"cores", "otp", "pmic", "verify", "config", "training", "dram", "shell", "ports", "bulk"}
  Platforms = {"q628", "i143", "q645", "sp7350", "warm"}
  Harts = {1, 2}
  Tables = {"whole", "no bl31", "bad name"}
  Requests <- MCRequests
  MaxSent = 4
  MaxLost = 1
  MaxLate = 1
  BufSize = 20
  Chips = {"RT5759", "another", "none"}
  Pointers = {0, 2}
  MaxNacks = 2
  VerifyChips = {"q628", "q645", "sp7350"}
  SignedBuilds = {TRUE, FALSE}
  Faults <- MCFaults
  Keys = {"zero", "unread", "right"}
  VerifyPieces = 2
  Devices <- MCDevices
  MaxDevices = 3
  MaxInterfaces = 3
  MaxEndpoints = 6
  FwClusters = {2, 3}
  FwLength = 2
  FwSectsPerClus = {1, 2}
  FwEnds = {268435455, 65535}
  FwStarts = {0, 1, 3}
  MaxTables = 2
  MaxFwLen = 3
  MaxFwLost = 1
  AddrBits = 4
  DramBegin = 4
  DramEnd = 12
  HexBase = 4
  DecBase = 3
  MaxDigits = 2
  CountMod = 4
  MaxTyped = 3
  RootPorts = 2
  Forced = TRUE
  PortPower = FALSE
  Speeds = {"full", "super"}
  PortTries = 1
  MaxPlugs = 1
  FollowLate = FALSE
  Boundary = 8
  Buffers = {0, 1, 3, 8, 13}
  Lengths = {0, 1, 5, 8, 11, 16, 24, 26}
  PacketSizes = {1, 2, 4}
  Old = FALSE
  MaxTdSize = 3
  TdUnit = 2
CHECK_DEADLOCK FALSE
INVARIANTS
  StartsWhereTold
  FusesAsAsked
  VoltageSet
  VerdictRight
  EndpointsFit
  TableRight
  FaultsFound
  StoresAsTyped
  PortReady
  TdWhole
PROPERTIES
  Settles
