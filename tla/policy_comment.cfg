SPECIFICATION Spec
CONSTANTS
    Programs <- Policy
    Arch = {3, 62}
    Nr = {86, 103, 134, 26, 101}
    Half = 4
    Bits = {1, 2}
    LabelNames <- MCLabelNames
    InsnMod = 19
    BPF_LABELS_MAX = 3
    PrctlFails = TRUE
INVARIANTS
    PolicyAsCommented
CHECK_DEADLOCK FALSE
