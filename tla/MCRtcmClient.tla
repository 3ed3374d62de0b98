----------------------------- MODULE MCRtcmClient -----------------------------
(* Instances of RtcmClient for TLC: an old and a new connection, a heartbeat  *)
(* monitor thread for each, every constant an ordinary or a model value.      *)
EXTENDS RtcmClient
=============================================================================
