-------------------------- MODULE ExclusiveOutput --------------------------
(***************************************************************************)
(* What the stream worker promises about one server-side output: at any    *)
(* moment at most one worker renders audio to it, and an output passes     *)
(* from one worker to another only through silence.  StreamLock implements *)
(* this whenever no driver overruns the lock's TTL.                        *)
(***************************************************************************)
CONSTANT Worker

VARIABLE onAir          \* the workers whose driver feeds the output

Init == onAir = {}

(* A worker puts the silent output on air.                                 *)
Take(w) ==
  /\ onAir = {}
  /\ onAir' = {w}

(* The worker that is on air stops, is cancelled, or dies.                 *)
Drop(w) ==
  /\ onAir = {w}
  /\ onAir' = {}

Next == \E w \in Worker : Take(w) \/ Drop(w)

Spec == Init /\ [][Next]_onAir
============================================================================
