-------------------------- MODULE MCCommandDispatch --------------------------
(* The instances of CommandDispatch that TLC explores. *)
EXTENDS CommandDispatch, TLC

\* Replicas, sessions and verifiable envelopes are only compared.
Symmetry ==
    Permutations(Publishers) \cup Permutations(Sessions)
    \cup Permutations(Digests \ Unverifiable)
=============================================================================
