SPECIFICATION Spec
CONSTANTS
  Pid = {p1, p2}
  NoPid = NoPid
  Addr = {a1, a2}
  NoAddr = NoAddr
  Byte = {0, 1}
  FirstByte <- OwnByte
  Modes = {"LISTEN_TCP", "ONCE", "RERUN"}
  TLimit = 1
  MaxConnsPerIp = 1
  Parts = {"net", "cgroup", "user"}
  GidMapping = TRUE
  NewPidNs = TRUE
  ExitCode = {0, 1, 100, 255}
  TermSig = {9, 31}
  FdLimit = 4
  StoppedResistsKill = TRUE
  Faults = {"listen", "accept", "reset", "socketpair", "clone", "net", "cgroup", "user", "child", "oom", "stop", "fatal", "usr1", "crash", "foreign"}
INVARIANTS
  TypeOK
  ListMatchesChildren
  KillsReachJails
  HandshakeSound
  CgroupDirsTracked
  ConnsPerIpBounded
  NoFdLeak
  ExitCodeFaithful
  StandaloneNeverRejects
SYMMETRY PidSymmetry
CHECK_DEADLOCK FALSE
