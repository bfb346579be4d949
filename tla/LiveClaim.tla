----------------------------- MODULE LiveClaim -----------------------------
(***************************************************************************)
(* The claim on a native HTTP mount, as the stream worker sees it: the     *)
(* live key names one connection, which keeps it until a newer one takes   *)
(* it over or its own broadcast is over; a broadcast that is over does not *)
(* come back.  LiveIngest implements this, and SessionDriver's broadcasts  *)
(* are steps of it: where the two modules meet.                            *)
(***************************************************************************)
CONSTANTS Conn, NoConn

VARIABLES
  key,         \* the connection that has the mount, or NoConn
  over         \* connections that do not, or will not for long

Init == key = NoConn /\ over = {}

(* A connection that has not had the mount yet gets it, be it free or not. *)
Claim(c) ==
  /\ c \notin over \cup {key}
  /\ key' = c
  /\ over' = over \cup ({key} \ {NoConn})

(* Broadcasts end, the one that has the mount or others.                   *)
End ==
  /\ key' = key
  /\ over \subseteq over' /\ over' \subseteq Conn

(* The claim of a broadcast that is over goes.                             *)
Release ==
  /\ key \in over
  /\ key' = NoConn
  /\ over' = over

Next == (\E c \in Conn : Claim(c)) \/ End \/ Release

Spec == Init /\ [][Next]_<<key, over>>
=============================================================================
