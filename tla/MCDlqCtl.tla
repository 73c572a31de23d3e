------------------------------ MODULE MCDlqCtl ------------------------------
(* DlqCtl for TLC: two families of queues, worked on in a fixed order, with  *)
(* two messages in the one, one of them parked in its dlq, and none in the   *)
(* other.                                                                    *)
EXTENDS DlqCtl, TLC

CONSTANTS m1, m2, shipments, labels

MCMessages == {m1, m2}
MCFamilies == {shipments, labels}
MCFamilyOf == (m1 :> shipments) @@ (m2 :> shipments)
MCParked == {m2}
MCDlqOrder == <<shipments, labels>>
=============================================================================
