---------------------------- MODULE MCBybitClient ----------------------------
(***************************************************************************)
(* The instance of BybitClient that TLC checks.                            *)
(***************************************************************************)
EXTENDS BybitClient, TLC

Symmetry == Permutations(Topic) \cup Permutations(Caller)

=============================================================================
