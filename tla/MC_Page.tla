------------------------------- MODULE MC_Page -------------------------------
(* Three keys and three page ids, so that a page can split twice and the   *)
(* split-off pages merge back in either order.                             *)
EXTENDS Page, TLC

CONSTANTS r, a, b, nopid

MC_Keys == 1 .. 4
MC_Pids == {r, a, b}
MC_MaxSMOs == 4
=============================================================================
