-------------------------- MODULE MCNativeSession --------------------------
(* The instances of NativeSession that TLC explores. *)
EXTENDS NativeSession, TLC

Symmetry == Permutations(Workspaces)
=============================================================================
