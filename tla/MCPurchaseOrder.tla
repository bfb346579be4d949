--------------------------- MODULE MCPurchaseOrder ---------------------------
(* Instances of PurchaseOrder for TLC.                                     *)
EXTENDS PurchaseOrder, TLC
=============================================================================
