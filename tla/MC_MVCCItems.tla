----------------------------- MODULE MC_MVCCItems -----------------------------
(* A small instance of the MVCC items and filters for TLC. *)
EXTENDS MVCCItems

CONSTANTS w1, p1

MC_MaxSn == 2
MC_Freq == 2
MC_MaxRefs == 1
MC_Writers == {w1}
MC_Procs == {p1}
MC_MaxRPs == 1
MC_WriterOps == 3
MC_ItemKeys == {1, 2}
=============================================================================
