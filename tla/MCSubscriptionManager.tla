------------------------ MODULE MCSubscriptionManager ------------------------
(***************************************************************************)
(* The instance of SubscriptionManager that TLC checks.                    *)
(***************************************************************************)
EXTENDS SubscriptionManager, TLC

Symmetry == Permutations(Holder) \cup Permutations(Key)

=============================================================================
