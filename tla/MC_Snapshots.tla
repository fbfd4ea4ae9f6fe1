---------------------------- MODULE MC_Snapshots ----------------------------
(* Small instances of the snapshot list for TLC. *)
EXTENDS Snapshots

MC_MaxSn == 5
MC_Freq == 2
MC_MaxRefs == 2
=============================================================================
