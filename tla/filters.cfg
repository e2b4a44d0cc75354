SPECIFICATION Spec
CONSTANTS
    Programs <- MCPrograms
    Arch = {3, 62, 40}
    Nr = {86, 103, 134, 26, 101}
    Half = 4
    Bits = {1, 2}
    LabelNames <- MCLabelNames
    InsnMod = 19
    BPF_LABELS_MAX = 3
    PrctlFails = TRUE
INVARIANTS
    BpfTypeOK
    JumpsReachLabels
    PolicyApplied
    TestsCompare
CHECK_DEADLOCK FALSE
