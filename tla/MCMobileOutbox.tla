--------------------------- MODULE MCMobileOutbox ---------------------------
(* The instances of MobileOutbox that TLC explores. *)
EXTENDS MobileOutbox, TLC

\* The workspaces connected on the device are interchangeable.
Symmetry == Permutations(Workspaces)
=============================================================================
