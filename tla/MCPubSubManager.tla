--------------------------- MODULE MCPubSubManager ---------------------------
(***************************************************************************)
(* The instance of PubSubManager that TLC checks.                          *)
(***************************************************************************)
EXTENDS PubSubManager, TLC

Symmetry == Permutations(Client) \cup Permutations(Channel)

=============================================================================
