\* Selecting the user area of an eMMC.
SPECIFICATION Spec
CONSTANTS
  MediaTypes = {"sd"}
  Reads = 2
  MscReads = 3
  Kinds = {"none", "sd1", "sdsc", "sdhc", "mmcsc", "mmchc"}
  SdRetries = 1
  Loops = 1
  StatusTries = 2
  ReadRetries = 8
  Delays = 2
  Begin = 1
  GoodSets <- MCGood
  Noise = 2
  SpiPages = {1, 2}
  SpiWeak = {2}
  Slots = {1, 2}
  Modes = {"dma", "pio", "autobch"}
  ParaPages = {1, 2, 3}
  ParaWeak = {2}
  Erased = {3}
  Depth = 3
  Failures = 2
  NumberOfPorts = 3
  Tries = 1
  EnumRetries = 1
  TestTries = 2
  LongSectors = 8
  BotFailures = 2
  MaxSkips = 2
  MscRetries = 1
  PortEvents = 3
INVARIANT
  BootEnableKept
