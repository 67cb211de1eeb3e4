---------------------------- MODULE MCRetarget ----------------------------
(***************************************************************************)
(* The target of the code, 5 seconds, and gaps on both sides of it.        *)
(***************************************************************************)
EXTENDS Retarget

\* A clock that is behind, the minimum gap, the target, a little slow, the
\* maximum.
MCGaps == {-1, 3, 5, 7, 60}
=============================================================================
