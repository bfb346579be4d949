--------------------------- MODULE MCExternalTrack ---------------------------
(* Instances of ExternalTrack for TLC.                                     *)
EXTENDS ExternalTrack, TLC

(* A provider whose files can be written and whose listing shows changes,  *)
(* and one that can do neither.                                            *)
BothProviders == {[writable |-> b, detect |-> b] : b \in BOOLEAN}
=============================================================================
