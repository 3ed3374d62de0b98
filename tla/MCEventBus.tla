------------------------------ MODULE MCEventBus ------------------------------
(* Emitters and subscriptions are interchangeable.                            *)
EXTENDS EventBus, TLC

Symmetry == Permutations(Emitters) \cup Permutations(Subs)
=============================================================================
