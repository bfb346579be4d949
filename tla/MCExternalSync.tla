--------------------------- MODULE MCExternalSync ---------------------------
(* Instances of ExternalSync for TLC.                                      *)
EXTENDS ExternalSync, TLC

C(n, k, d) == [name |-> n, kind |-> k, dir |-> d]

(* A file is deleted in one directory, and another added.                  *)
TwoChanges == {C("x", "add", "b"), C("y", "delete", "a")}
=============================================================================
