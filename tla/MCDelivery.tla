----------------------------- MODULE MCDelivery -----------------------------
(* Delivery on a small instance. *)
EXTENDS Delivery

MCTwo == 1..2
MCThree == 1..3
=============================================================================
