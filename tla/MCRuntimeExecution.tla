------------------------- MODULE MCRuntimeExecution -------------------------
(* The instances of RuntimeExecution that TLC explores. *)
EXTENDS RuntimeExecution, TLC

\* Sessions and envelopes are only ever compared for equality.
Symmetry == Permutations(Sessions) \cup Permutations(Digests)
=============================================================================
