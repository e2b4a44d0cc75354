SPECIFICATION Spec
CONSTANTS
  Configs <- MCConfigs
  Id = {0, 1}
  MaxFd = 5
  NaiveLimit = 5
  Faults = {"unshare", "setupFD", "netInitNsFromParent", "cgroupInitNs", "userSetGroups", "gidMap", "uidMap", "readDone", "pidInitNs", "mountInitNs", "loUp", "vsAddr", "vsNetmask", "vsUp", "vsGateway", "utsInitNs", "setresgid", "setresuid", "no_new_privs", "capset", "setLimits", "prepareEnv", "makeFdsCOE", "sandboxApply", "execv", "proc_fd"}
INVARIANTS
  ContainTypeOK
  CommandFullyConfined
  CommandDiesWithParent
  CommandHasNoPrivileges
  CommandCanFork
  OnlyPassedFds
  NoStepForbidden
PROPERTIES
  NothingRegained
CHECK_DEADLOCK FALSE
