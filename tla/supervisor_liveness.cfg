SPECIFICATION FairSpec
CONSTANTS
  Pid = {p1, p2}
  NoPid = NoPid
  Addr = {a1}
  NoAddr = NoAddr
  Byte = {0}
  FirstByte <- SameByte
  Modes = {"LISTEN_TCP", "ONCE"}
  TLimit = 1
  MaxConnsPerIp = 0
  Parts = {"user"}
  GidMapping = FALSE
  NewPidNs = FALSE
  ExitCode = {1}
  TermSig = {9}
  FdLimit = 6
  StoppedResistsKill = TRUE
  Faults = {"clone", "user", "child", "stop", "fatal", "crash"}
PROPERTIES
  LifecycleSpec
  ZombiesReaped
  KeepsServing
  FatalSignalStops
  ShutdownEndsRunningJails
  ArmedJailDiesWithSupervisor
  HeldJailLeaves
  OnceReturns
  TimeLimitEnforced
CHECK_DEADLOCK FALSE
