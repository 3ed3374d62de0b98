---------------------------- MODULE MCHubRegistry ----------------------------
(* Instances of HubRegistry for TLC: d1 is there from the start, d2 filters  *)
(* and has the name of d1.                                                   *)
EXTENDS HubRegistry, TLC

CONSTANTS d1, d2

SharedNames    == (d1 :> "one") @@ (d2 :> "one")
CallerSymmetry == Permutations(Callers)
=============================================================================
