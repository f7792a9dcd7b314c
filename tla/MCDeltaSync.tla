---------------------------- MODULE MCDeltaSync ----------------------------
(* The instances of DeltaSync that TLC explores. *)
EXTENDS DeltaSync
=============================================================================
