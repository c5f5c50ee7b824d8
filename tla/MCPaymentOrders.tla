--------------------------- MODULE MCPaymentOrders ---------------------------
(* Instances of PaymentOrders for TLC: symmetric sets of model values.     *)
EXTENDS PaymentOrders, TLC

Symmetry == Permutations(Orders) \cup Permutations(Txs) \cup Permutations(Calls)
==============================================================================
