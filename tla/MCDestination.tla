---------------------------- MODULE MCDestination ----------------------------
(* Instances of Destination for TLC: every constant an ordinary or a model    *)
(* value.                                                                   *)
EXTENDS Destination
=============================================================================
