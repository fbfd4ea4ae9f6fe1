CONSTANTS
    MaxSn <- MC_MaxSn
    MaxSnSyncFrequency <- MC_Freq
    MaxRefs <- MC_MaxRefs
SPECIFICATION Spec
INVARIANT GcSnNotAhead
CHECK_DEADLOCK FALSE
