SPECIFICATION Spec
CONSTANTS
    Names <- MCNames
    Options <- MCOptions
    MaxOptions = 3
    LimMod = 64
    IdMod = 16
    MiB = 8
    HardLimit = 60
    SoftLimit = 40
    ParseFaults = TRUE
    Host <- MCHost
    MountFaults = TRUE
INVARIANTS
    MountTypeOK
    SuccessMeansEnclosed
    MountFlagsHonoured
    LaterOptionsWin
    SoundListsSucceed
    LimitExact
CHECK_DEADLOCK FALSE
