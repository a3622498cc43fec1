---------------------------- MODULE MCJetstream ----------------------------
(* Model values for Jetstream. *)
EXTENDS Jetstream
=============================================================================
