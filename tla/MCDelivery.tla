----------------------------- MODULE MCDelivery -----------------------------
(***************************************************************************)
(* The instance of Delivery that TLC checks.                               *)
(***************************************************************************)
EXTENDS Delivery, TLC

CONSTANTS c1, c2, ch1, ch2

(***************************************************************************)
(* One client on both channels, the other on one of them.                  *)
(***************************************************************************)
MCInterest == (c1 :> {ch1, ch2}) @@ (c2 :> {ch2})

=============================================================================
