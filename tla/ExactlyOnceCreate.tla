------------------------- MODULE ExactlyOnceCreate -------------------------
(***************************************************************************)
(* What POST /v1/shipments promises a client that sends X-Idempotency-Key: *)
(* however many requests carry one key, and whatever becomes of them, the  *)
(* key names at most one shipment, and every answer that names a shipment  *)
(* names that one.  An answer may be an error or be lost; neither says     *)
(* whether the shipment exists.                                            *)
(*                                                                         *)
(* A shipment's id is the request that inserted it: the UUID default of    *)
(* shipments.id gives every inserted row a fresh one.                      *)
(***************************************************************************)
CONSTANTS Requests, Keys, NoShipment

VARIABLES key,          \* the idempotency key a request carries
          shipmentOf,   \* the shipment a key names, once there is one
          code,         \* the answer a request got
          answer        \* the shipment id in that answer

vars == <<key, shipmentOf, code, answer>>

Failures == {"bad_request", "error", "lost"}

Init ==
    /\ key \in [Requests -> Keys]
    /\ shipmentOf = [k \in Keys |-> NoShipment]
    /\ code = [r \in Requests |-> "none"]
    /\ answer = [r \in Requests |-> NoShipment]

\* The shipment of r comes to exist, even after r was told of a failure.
Create(r) ==
    /\ shipmentOf[key[r]] = NoShipment
    /\ shipmentOf' = [shipmentOf EXCEPT ![key[r]] = r]
    /\ UNCHANGED <<key, code, answer>>

\* The request that made the shipment is told that it did.
AnswerCreated(r) ==
    /\ code[r] = "none"
    /\ shipmentOf[key[r]] = r
    /\ code' = [code EXCEPT ![r] = "created"]
    /\ answer' = [answer EXCEPT ![r] = r]
    /\ UNCHANGED <<key, shipmentOf>>

\* A request that made nothing is told of the shipment its key names.
AnswerReplayed(r) ==
    /\ code[r] = "none"
    /\ shipmentOf[key[r]] \notin {NoShipment, r}
    /\ code' = [code EXCEPT ![r] = "replayed"]
    /\ answer' = [answer EXCEPT ![r] = shipmentOf[key[r]]]
    /\ UNCHANGED <<key, shipmentOf>>

\* Requests fail, several at once when a replica goes down.
Fail(S, c) ==
    /\ S # {}
    /\ \A r \in S : code[r] = "none"
    /\ code' = [r \in Requests |-> IF r \in S THEN c ELSE code[r]]
    /\ UNCHANGED <<key, shipmentOf, answer>>

Next ==
    \/ \E r \in Requests : Create(r) \/ AnswerCreated(r) \/ AnswerReplayed(r)
    \/ \E S \in SUBSET Requests, c \in Failures : Fail(S, c)

Spec == Init /\ [][Next]_vars
=============================================================================
