CONSTANTS
    r = r
    a = a
    b = b
    nopid = nopid
    Keys <- MC_Keys
    Pids <- MC_Pids
    Root = r
    NoPid = nopid
    MaxSMOs <- MC_MaxSMOs
    DistinctKeys = TRUE
    CompactBeforeSMO = TRUE
SPECIFICATION PageSpec
INVARIANTS
    PageTypeOK
    LookupAgrees
    PagesTile
    ChainLenExact
