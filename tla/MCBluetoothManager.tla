-------------------------- MODULE MCBluetoothManager --------------------------
(* Every call for one device; a search for one that is out of range beside it.  *)
EXTENDS BluetoothManager, TLC
CONSTANTS d1, d2
APin == CHOOSE pin \in Pins : TRUE
MCCalls ==
  (d1 :> ({"ensure", "repair"} \X Pins) \cup {<<"connect", NoPin>>, <<"connect", APin>>} \cup {<<"disconnect", NoPin>>})
  @@ (d2 :> {<<"ensure", APin>>})
=============================================================================
