--------------------------- MODULE MCConfirmations ---------------------------
(* Instances of Confirmations for TLC.                                     *)
EXTENDS Confirmations

(* No confirmations under 1 dollar, one under 2, three under 4: each bound *)
(* is also the value of an order.                                          *)
MCBuckets == {1, 2, 4}
MCBucketDepth == [b \in MCBuckets |-> CASE b = 1 -> 0 [] b = 2 -> 1 [] b = 4 -> 3]
MCValues == {5, 10, 19, 20, 39, 40}

=============================================================================
