CONSTANTS
    g1 = g1
    g2 = g2
    p1 = p1
    p2 = p2
    Pids <- MC_TwoPages
    Procs <- MC_Procs
    MaxVer <- MC_MaxVer
    MaxJobs <- MC_MaxJobs
SPECIFICATION Spec
INVARIANT NoOrphanBlock
CHECK_DEADLOCK FALSE
