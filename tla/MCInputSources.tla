--------------------------- MODULE MCInputSources ---------------------------
(* Instances of InputSources for TLC.                                        *)
EXTENDS InputSources
AllKinds == {"tcp", "serial", "bluetooth", "ntrip"}
=============================================================================
