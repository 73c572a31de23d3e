----------------------------- MODULE MCTracking -----------------------------
(* Tracking for TLC.  With three events a shipment has one more than the     *)
(* limit of two, and two GETs are one after the other or overlap.            *)
EXTENDS Tracking, TLC

CONSTANTS e1, e2, e3

MCEvents == {e1, e2, e3}
MCTypeOf == (e1 :> "PICKUP") @@ (e2 :> "IN_TRANSIT") @@ (e3 :> "DELIVERED")

\* The service treats GETs and shipments alike.
Symmetry == Permutations(Trackers) \union Permutations(Shipments)
=============================================================================
