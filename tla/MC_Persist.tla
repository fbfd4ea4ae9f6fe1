----------------------------- MODULE MC_Persist -----------------------------
(* Persist, EvictAll and Rollback's callback on two pages, two persistor   *)
(* goroutines, two calls and two Inserts per page; the inductive invariant *)
(* of PersistProofs is checked alongside.                                  *)
EXTENDS PersistProofs, TLC

CONSTANTS g1, g2, p1, p2

MC_TwoPages == {g1, g2}
MC_Procs == {p1, p2}
MC_MaxVer == 3
MC_MaxJobs == 2
=============================================================================
