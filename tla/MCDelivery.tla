----------------------------- MODULE MCDelivery -----------------------------
(* Instances of Delivery for TLC.                                          *)
EXTENDS Delivery, TLC

DeliverSymmetry == Permutations(Process \ Hook)
=============================================================================
