------------------------------ MODULE LossyRelay ------------------------------
(***************************************************************************)
(* What the hub, a destination and a Frame subscription promise whoever is    *)
(* behind them, whatever their threads do: each accepts or refuses a chunk,   *)
(* may lose an accepted one at any time, and delivers the others, each at     *)
(* most once.                                                                *)
(***************************************************************************)
EXTENDS Naturals, Sequences

VARIABLES accepted,   (* number of chunks seen so far        *)
          pending,    (* chunks accepted and not yet settled *)
          delivered   (* chunks delivered, in order          *)

vars == <<accepted, pending, delivered>>

Init == accepted = 0 /\ pending = {} /\ delivered = <<>>

Accept ==
  /\ accepted' = accepted + 1
  /\ pending' \in {pending, pending \cup {accepted + 1}}
  /\ UNCHANGED delivered

Lose ==
  /\ \E n \in pending : pending' = pending \ {n}
  /\ UNCHANGED <<accepted, delivered>>

Deliver ==
  /\ \E n \in pending : pending' = pending \ {n} /\ delivered' = Append(delivered, n)
  /\ UNCHANGED accepted

Next == Accept \/ Lose \/ Deliver

Spec == Init /\ [][Next]_vars
=============================================================================
