CONSTANTS
    w1 = w1
    p1 = p1
    MaxSn <- MC_MaxSn
    MaxSnSyncFrequency <- MC_Freq
    MaxRefs <- MC_MaxRefs
    Writers <- MC_Writers
    Procs <- MC_Procs
    MaxRPs <- MC_MaxRPs
    MaxWriterOps <- MC_WriterOps
    ItemKeys <- MC_ItemKeys
INIT ItemsInit
NEXT ItemsNext
PROPERTY RollbackRestoresRP
CHECK_DEADLOCK FALSE
