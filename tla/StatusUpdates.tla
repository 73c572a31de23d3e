--------------------------- MODULE StatusUpdates ---------------------------
(***************************************************************************)
(* PATCH /v1/shipments/{id}: updateShipment (internal/httpserver/server.go *)
(* of shipment-svc) and UpdateShipmentStatus (internal/repo/shipment.go).  *)
(*                                                                         *)
(* The UPDATE of the shipment and the INSERT of its audit row are two      *)
(* statements in transactions of their own, which the database may execute *)
(* after the handler has given them up.  The handler answers the same to   *)
(* every outcome.                                                          *)
(***************************************************************************)
EXTENDS Naturals, FiniteSets

CONSTANTS Patches,      \* PATCH requests
          Shipments,    \* ids a request can name
          Existing,     \* those of them that are shipments
          Statuses,
          Nothing,      \* no status: an empty one, or a body that does not decode
          MaxFaults     \* bound: failures injected in a behaviour

ASSUME StatusUpdatesConstantsOK ==
    /\ Existing \subseteq Shipments
    /\ "CREATED" \notin Statuses
    /\ Nothing \notin Statuses
    /\ MaxFaults \in Nat

VARIABLES
    \* the database
    status,     \* shipments.status
    update,     \* a request's UPDATE: what became of it
    audit,      \* a request's INSERT INTO audit_log
    \* the handler
    target,     \* the shipment in the path
    body,       \* the status in the body
    pc,
    answer,
    \* bookkeeping
    faults

request == <<target, body>>
vars == <<status, update, audit, request, pc, answer, faults>>

Outcomes == {"none", "pending", "effective", "without_effect"}

TypeOK ==
    /\ status \in [Shipments -> Statuses \union {"CREATED"}]
    /\ update \in [Patches -> Outcomes]
    /\ audit \in [Patches -> Outcomes]
    /\ target \in [Patches -> Shipments]
    /\ body \in [Patches -> Statuses \union {Nothing}]
    /\ pc \in [Patches -> {"idle", "update", "updating", "audit", "auditing", "done"}]
    /\ answer \in [Patches -> {"none", "ok", "lost"}]
    /\ faults \in 0..MaxFaults

Init ==
    /\ status = [s \in Shipments |-> "CREATED"]
    /\ update = [p \in Patches |-> "none"]
    /\ audit = [p \in Patches |-> "none"]
    /\ target \in [Patches -> Shipments]
    /\ body \in [Patches -> Statuses \union {Nothing}]
    /\ pc = [p \in Patches |-> "idle"]
    /\ answer = [p \in Patches |-> "none"]
    /\ faults = 0

Fault ==
    /\ faults < MaxFaults
    /\ faults' = faults + 1

GoTo(p, l) == pc' = [pc EXCEPT ![p] = l]

End(p, a) ==
    /\ GoTo(p, "done")
    /\ answer' = [answer EXCEPT ![p] = a]

-----------------------------------------------------------------------------
(* The handler.                                                            *)

\* Mutant: an empty status is written like any other.
ReceiveUnchecked(p) ==
    /\ pc[p] = "idle"
    /\ GoTo(p, "update")
    /\ UNCHANGED <<status, update, audit, request, answer, faults>>

\* The decoding error is dropped: no status, nothing to do.
Receive(p) ==
    /\ pc[p] = "idle"
    /\ IF body[p] = Nothing THEN End(p, "ok") ELSE GoTo(p, "update") /\ UNCHANGED answer
    /\ UNCHANGED <<status, update, audit, request, faults>>

SendUpdate(p) ==
    /\ pc[p] = "update"
    /\ update' = [update EXCEPT ![p] = "pending"]
    /\ GoTo(p, "updating")
    /\ UNCHANGED <<status, audit, request, answer, faults>>

\* Mutant: RowsAffected is not looked at.
HearOfAnyUpdate(p) ==
    /\ pc[p] = "updating"
    /\ update[p] # "pending"
    /\ GoTo(p, "audit")
    /\ UNCHANGED <<status, update, audit, request, answer, faults>>

\* Mutant: the UPDATE is sent off and not waited for.
HearUnawaited(p) ==
    /\ pc[p] = "updating"
    /\ IF update[p] = "effective" THEN GoTo(p, "audit") /\ UNCHANGED answer
                                  ELSE End(p, "ok")
    /\ UNCHANGED <<status, update, audit, request, faults>>

\* No row, no audit row.
HearOfUpdate(p) ==
    /\ pc[p] = "updating"
    /\ update[p] # "pending"
    /\ IF update[p] = "effective" THEN GoTo(p, "audit") /\ UNCHANGED answer
                                  ELSE End(p, "ok")
    /\ UNCHANGED <<status, update, audit, request, faults>>

SendAudit(p) ==
    /\ pc[p] = "audit"
    /\ audit' = [audit EXCEPT ![p] = "pending"]
    /\ GoTo(p, "auditing")
    /\ UNCHANGED <<status, update, request, answer, faults>>

\* The audit's error is dropped.
HearOfAudit(p) ==
    /\ pc[p] = "auditing"
    /\ audit[p] # "pending"
    /\ End(p, "ok")
    /\ UNCHANGED <<status, update, audit, request, faults>>

\* A statement's connection breaks: an error, and the handler is done.
GiveUp(p) ==
    /\ pc[p] \in {"update", "updating", "audit", "auditing"}
    /\ Fault
    /\ End(p, "ok")
    /\ UNCHANGED <<status, update, audit, request>>

\* The pod dies.
Die(p) ==
    /\ pc[p] \in {"update", "updating", "audit", "auditing"}
    /\ Fault
    /\ End(p, "lost")
    /\ UNCHANGED <<status, update, audit, request>>

-----------------------------------------------------------------------------
(* The database.                                                           *)

ExecuteUpdate(p) ==
    /\ update[p] = "pending"
    /\ IF target[p] \in Existing
         THEN /\ status' = [status EXCEPT ![target[p]] = body[p]]
              /\ update' = [update EXCEPT ![p] = "effective"]
         ELSE /\ update' = [update EXCEPT ![p] = "without_effect"]
              /\ UNCHANGED status
    /\ UNCHANGED <<audit, request, pc, answer, faults>>

ExecuteAudit(p) ==
    /\ audit[p] = "pending"
    /\ audit' = [audit EXCEPT ![p] = "effective"]
    /\ UNCHANGED <<status, update, request, pc, answer, faults>>

\* A statement is rejected, or nobody is left to execute it for.
Reject(p) ==
    /\ Fault
    /\ \/ update[p] = "pending" /\ update' = [update EXCEPT ![p] = "without_effect"] /\ UNCHANGED audit
       \/ audit[p] = "pending" /\ audit' = [audit EXCEPT ![p] = "without_effect"] /\ UNCHANGED update
    /\ UNCHANGED <<status, request, pc, answer>>

-----------------------------------------------------------------------------

Handle(p) == Receive(p) \/ SendUpdate(p) \/ HearOfUpdate(p) \/ SendAudit(p) \/ HearOfAudit(p)
Execute(p) == ExecuteUpdate(p) \/ ExecuteAudit(p)

Finished ==
    /\ \A p \in Patches : pc[p] = "done" /\ "pending" \notin {update[p], audit[p]}
    /\ UNCHANGED vars

Next ==
    \/ \E p \in Patches : Handle(p) \/ Execute(p) \/ GiveUp(p) \/ Die(p) \/ Reject(p)
    \/ Finished

Spec == Init /\ [][Next]_vars

-----------------------------------------------------------------------------
(* Properties.                                                             *)

Audited(p) == audit[p] = "effective"
Changed(p) == update[p] = "effective"

\* The audit log never tells of a change that was not made: whatever fails or
\* is executed late, an audit row's UPDATE took effect before it.
AuditIsTruthful ==
    \A p \in Patches : Audited(p) => Changed(p) /\ target[p] \in Existing

\* MVP_SCOPE.md:50, "Auditing for shipment status changes", as far as the code
\* goes: with nothing failing, no change escapes the audit log once its request
\* is over, however PATCHes of one shipment overlap.
QuietAuditIsWhole ==
    faults = 0 => \A p \in Patches : pc[p] = "done" /\ Changed(p) => Audited(p)
=============================================================================
