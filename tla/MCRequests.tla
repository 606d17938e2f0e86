----------------------------- MODULE MCRequests -----------------------------
(***************************************************************************)
(* NotaryRequests for TLC, its numbers scaled down.                        *)
(***************************************************************************)
EXTENDS NotaryRequests

\* Of the code's 10, 50, 100, 250 and 500 requests a second.
TwoLevels == {2, 3}
=============================================================================
