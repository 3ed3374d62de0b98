------------------------- MODULE MCFrameSubscription -------------------------
(* Instances of FrameSubscription for TLC.  The constants are in the .cfg.    *)
EXTENDS FrameSubscription
=============================================================================
