---------------------------- MODULE MCFollowUps ----------------------------
(* Instances of FollowUps for TLC. *)
EXTENDS FollowUps, TLC
=============================================================================
