---------------------------- MODULE PurchaseRight ----------------------------
(***************************************************************************)
(* What the payment code promises a buyer and a seller about one order:    *)
(* the right to the purchased tracks is granted at most once, only for     *)
(* money that reached the seller, and is taken back only when the money    *)
(* goes back.  PurchaseOrder implements this.                              *)
(***************************************************************************)
VARIABLES
  money,        \* "no" payment yet, "in" the seller's account, given "back"
  right         \* of the buyer: "none", "active", "revoked"

Init == money = "no" /\ right = "none"

(* The seller is paid.                                                     *)
Receive == money = "no" /\ money' = "in" /\ UNCHANGED right

(* A refund or a lost dispute returns the money.                           *)
GiveBack == money = "in" /\ money' = "back" /\ UNCHANGED right

Grant ==
  /\ money # "no"
  /\ right = "none"
  /\ right' = "active"
  /\ UNCHANGED money

Revoke ==
  /\ money = "back"
  /\ right = "active"
  /\ right' = "revoked"
  /\ UNCHANGED money

Next == Receive \/ GiveBack \/ Grant \/ Revoke

Spec == Init /\ [][Next]_<<money, right>>
=============================================================================
