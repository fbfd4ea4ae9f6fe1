------------------------- MODULE MC_SnapshotsProofs -------------------------
(* The inductive invariant of SnapshotsProofs checked on a small instance. *)
EXTENDS SnapshotsProofs

MC_MaxSn == 5
MC_Freq == 2
MC_MaxRefs == 2
=============================================================================
