---------------------------- MODULE MCBroadcastHub ----------------------------
(* Instances of BroadcastHub for TLC.  The constants are in the .cfg files.  *)
EXTENDS BroadcastHub
=============================================================================
