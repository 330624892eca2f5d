---------------------------- MODULE MCLifecycle ----------------------------
(***************************************************************************)
(* The instance of Lifecycle that TLC checks.                              *)
(***************************************************************************)
EXTENDS Lifecycle

CONSTANTS c1, c2

=============================================================================
