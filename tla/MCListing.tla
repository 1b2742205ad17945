----------------------------- MODULE MCListing -----------------------------
(***************************************************************************)
(* An instance of Listing for TLC: three jobs, the last in another queue,  *)
(* and a search text that finds the first and the last.                    *)
(***************************************************************************)
EXTENDS Listing

CONSTANTS q1, q2

LastElsewhere == [j \in Jobs |-> IF j = 3 THEN q2 ELSE q1]

=============================================================================
