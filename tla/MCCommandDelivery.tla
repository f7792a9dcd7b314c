-------------------------- MODULE MCCommandDelivery --------------------------
(* The instances of CommandDelivery that TLC explores. *)
EXTENDS CommandDelivery, TLC

\* Messages a command can be decoded from are interchangeable.
Symmetry == Permutations(Messages \ Undecodable)
=============================================================================
