---------------------------- MODULE MCUpstreamPool ----------------------------
(***************************************************************************)
(* The instances of UpstreamPool that TLC checks.                          *)
(***************************************************************************)
EXTENDS UpstreamPool, TLC

Symmetry == Permutations(Task) \cup Permutations(Key)

=============================================================================
