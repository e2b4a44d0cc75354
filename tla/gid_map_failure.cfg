SPECIFICATION FairSpec
CONSTANTS
  Pid = {p1, p2}
  NoPid = NoPid
  Addr = {a1}
  NoAddr = NoAddr
  Byte = {0}
  FirstByte <- SameByte
  Modes = {"LISTEN_TCP"}
  TLimit = 1
  MaxConnsPerIp = 0
  Parts = {"user"}
  GidMapping = TRUE
  NewPidNs = TRUE
  ExitCode = {1}
  TermSig = {9}
  FdLimit = 6
  StoppedResistsKill = TRUE
  Faults = {"user"}
PROPERTIES
  KeepsServing
CHECK_DEADLOCK FALSE
