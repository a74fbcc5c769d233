---------------------------- MODULE MCLeaseLock ----------------------------
(***************************************************************************)
(* Model checking of LeaseLock.                                            *)
(***************************************************************************)
EXTENDS LeaseLock, TLC

CONSTANTS s1, s2, s3

Symmetry == Permutations(Server)

=============================================================================
