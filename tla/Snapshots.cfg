CONSTANTS
    MaxSn <- MC_MaxSn
    MaxSnSyncFrequency <- MC_Freq
    MaxRefs <- MC_MaxRefs
SPECIFICATION SpecFair
INVARIANTS
    TypeOK
    ReleasedInOrder
    NoCloseOfNilChild
    MaxSnAhead
    IInv
PROPERTIES
    FreedStaysFreed
    GcProgress
CHECK_DEADLOCK FALSE
