SPECIFICATION FairSpec
CONSTANTS
  Sup = {1, 2, 3}
  Nobody = Nobody
  Pid = {1}
  cgroup_mem_max <- Limits
  NewPidNs = FALSE
  SharedFaults = TRUE
INVARIANTS
  SharedTypeOK
  JailLimited
  DirsAccountedFor
PROPERTIES
  EndedJailsLeaveNoDir
