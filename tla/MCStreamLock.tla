---------------------------- MODULE MCStreamLock ----------------------------
(* Instances of StreamLock for TLC.                                        *)
EXTENDS StreamLock
=============================================================================
