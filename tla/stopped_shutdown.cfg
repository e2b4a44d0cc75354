SPECIFICATION FairSpec
CONSTANTS
  Pid = {p1}
  NoPid = NoPid
  Addr = {a1}
  NoAddr = NoAddr
  Byte = {0}
  FirstByte <- SameByte
  Modes = {"LISTEN_TCP"}
  TLimit = 0
  MaxConnsPerIp = 0
  Parts = {"user"}
  GidMapping = FALSE
  NewPidNs = TRUE
  ExitCode = {1}
  TermSig = {9}
  FdLimit = 6
  StoppedResistsKill = TRUE
  Faults = {"stop", "fatal"}
PROPERTY ShutdownEndsJails
CHECK_DEADLOCK FALSE
