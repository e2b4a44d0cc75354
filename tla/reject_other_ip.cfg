SPECIFICATION Spec
CONSTANTS
  Pid = {p1, p2}
  NoPid = NoPid
  Addr = {a1, a2}
  NoAddr = NoAddr
  Byte = {0}
  FirstByte <- SameByte
  Modes = {"LISTEN_TCP"}
  TLimit = 0
  MaxConnsPerIp = 1
  Parts = {}
  GidMapping = FALSE
  NewPidNs = TRUE
  ExitCode = {1}
  TermSig = {9}
  FdLimit = 6
  StoppedResistsKill = TRUE
  Faults = {}
INVARIANTS
  RejectsOnlyAtLimit
CHECK_DEADLOCK FALSE
