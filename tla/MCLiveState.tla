---------------------------- MODULE MCLiveState ----------------------------
(* TLC instances of LiveState: counts on both sides of the thresholds, and  *)
(* ages of 0, 24, 25, 168 and 169 hours of an alert last seen at 744, which *)
(* is 31 days after it was first seen.                                     *)
EXTENDS LiveState

EdgeCounts == {31, 100, 1000, 1001, 10001}
EdgeTimes == {0, 744, 768, 769, 912, 913}
Epoch == {0}
=============================================================================
