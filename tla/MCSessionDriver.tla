-------------------------- MODULE MCSessionDriver --------------------------
(* A queue of two tracks, every kind of failure or the ones a run is about. *)
EXTENDS SessionDriver
=============================================================================
