---------------------------- MODULE MCDashboard ----------------------------
(***************************************************************************)
(* Instances of Dashboard for TLC: the constants of the runs.              *)
(***************************************************************************)
EXTENDS Dashboard, TLC

CONSTANTS j1, j2, f1

\* Jobs are only compared with each other.
Interchangeable == Permutations(Jobs)

=============================================================================
