----------------------------- MODULE MCDelivery -----------------------------
(***************************************************************************)
(* Delivery for TLC: the default share and the closed loop's floor.        *)
(***************************************************************************)
EXTENDS Delivery

MCShares == {64, DefaultShare}

=============================================================================
