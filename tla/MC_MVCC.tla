------------------------------- MODULE MC_MVCC -------------------------------
(* Small instances of the MVCC control surface for TLC. *)
EXTENDS MVCC

CONSTANTS w1, p1, p2

MC_MaxSn == 3
MC_Freq == 2
MC_MaxRefs == 2
MC_Writers == {w1}
MC_OneProc == {p1}
MC_TwoProcs == {p1, p2}
MC_MaxRPs == 2
MC_MaxWriterOps == 1
MC_TwoWriterOps == 2
=============================================================================
