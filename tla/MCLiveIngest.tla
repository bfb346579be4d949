---------------------------- MODULE MCLiveIngest ----------------------------
(* Instances of LiveIngest for TLC.                                        *)
EXTENDS LiveIngest, TLC
=============================================================================
