---------------------------- MODULE MCLabelFlow ----------------------------
(* LabelFlow for TLC: a call and its retry, for one of two shipments or for  *)
(* both, beside a GET.                                                       *)
EXTENDS LabelFlow, TLC
=============================================================================
