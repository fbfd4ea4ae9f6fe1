CONSTANTS
    w1 = w1
    p1 = p1
    p2 = p2
    MaxSn <- MC_MaxSn
    MaxSnSyncFrequency <- MC_Freq
    MaxRefs <- MC_MaxRefs
    Writers <- MC_Writers
    Procs <- MC_OneProc
    MaxRPs <- MC_MaxRPs
    MaxWriterOps <- MC_TwoWriterOps
INIT MVCCInit
NEXT MVCCNextNoRollback
INVARIANT CountExact
CHECK_DEADLOCK FALSE
