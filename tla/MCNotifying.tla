----------------------------- MODULE MCNotifying -----------------------------
(* Instances of Notifying for TLC. *)
EXTENDS Notifying
=============================================================================
