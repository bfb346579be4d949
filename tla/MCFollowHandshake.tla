-------------------------- MODULE MCFollowHandshake --------------------------
(* Instances of FollowHandshake for TLC.                                   *)
EXTENDS FollowHandshake, TLC
=============================================================================
