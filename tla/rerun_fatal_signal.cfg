SPECIFICATION FairSpec
CONSTANTS
  Pid = {}
  NoPid = NoPid
  Addr = {a1}
  NoAddr = NoAddr
  Byte = {0}
  FirstByte <- SameByte
  Modes = {"RERUN"}
  TLimit = 1
  MaxConnsPerIp = 0
  Parts = {}
  GidMapping = FALSE
  NewPidNs = TRUE
  ExitCode = {1}
  TermSig = {9}
  FdLimit = 6
  StoppedResistsKill = TRUE
  Faults = {"clone", "fatal"}
PROPERTIES
  FatalSignalStops
CHECK_DEADLOCK FALSE
