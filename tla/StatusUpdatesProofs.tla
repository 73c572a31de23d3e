------------------------ MODULE StatusUpdatesProofs ------------------------
(***************************************************************************)
(* What the audit log of status changes is worth, for any number of        *)
(* PATCHes, shipments and failures.                                        *)
(*                                                                         *)
(* StatusInv is inductive.  OneByOne is why the audit log is truthful: the *)
(* handler asks for an audit row only after it has heard that the UPDATE   *)
(* took effect.  Quiet is what breaks with the first failure: a handler    *)
(* that has ended left nothing pending behind.                             *)
(***************************************************************************)
EXTENDS StatusUpdates, TLAPS

\* The statements of a request are issued one by one, the first for a body with
\* a status only, and the second for an effective first one only.
OneByOne ==
    \A p \in Patches :
        /\ pc[p] \in {"idle", "update"} => update[p] = "none"
        /\ pc[p] = "update" \/ update[p] # "none" => body[p] # Nothing
        /\ pc[p] \in {"idle", "update", "updating", "audit"} => audit[p] = "none"
        /\ pc[p] = "auditing" => audit[p] # "none"
        /\ pc[p] = "audit" \/ audit[p] # "none" => update[p] = "effective"
        /\ update[p] = "effective" => target[p] \in Existing

\* Nothing was rejected and nothing given up: an ended request has its audit row.
Quiet ==
    faults = 0 => \A p \in Patches :
        /\ audit[p] # "without_effect"
        /\ pc[p] = "done" =>
               update[p] # "pending" /\ (update[p] = "effective" => audit[p] = "effective")

StatusInv == TypeOK /\ OneByOne /\ Quiet

\* Nothing is asked of the database before the first request is received.
LEMMA InitInv == Init => StatusInv
BY StatusUpdatesConstantsOK
   DEF Init, StatusInv, TypeOK, OneByOne, Quiet, Outcomes

\* Every step keeps the types: a fault only below the bound, a status only from
\* a body that has one.
LEMMA TypeOKStep == StatusInv /\ [Next]_vars => TypeOK'
<1> SUFFICES ASSUME StatusInv, [Next]_vars PROVE TypeOK'
  OBVIOUS
<1> USE StatusUpdatesConstantsOK
    DEF StatusInv, TypeOK, OneByOne, Outcomes, request, Fault, GoTo, End
<1>1. ASSUME NEW p \in Patches, Handle(p) PROVE TypeOK'
  BY <1>1 DEF Handle, Receive, SendUpdate, HearOfUpdate, SendAudit, HearOfAudit
<1>2. ASSUME NEW p \in Patches, Execute(p) PROVE TypeOK'
  BY <1>2 DEF Execute, ExecuteUpdate, ExecuteAudit
<1>3. ASSUME NEW p \in Patches, GiveUp(p) \/ Die(p) \/ Reject(p) PROVE TypeOK'
  BY <1>3 DEF GiveUp, Die, Reject
<1>4. CASE Finished \/ UNCHANGED vars
  BY <1>4 DEF Finished, vars
<1> QED
  BY <1>1, <1>2, <1>3, <1>4 DEF Next

\* Every step keeps the order: Receive tests the body, HearOfUpdate whether the
\* UPDATE took effect, ExecuteUpdate whether there is such a shipment.
LEMMA OneByOneStep == StatusInv /\ [Next]_vars => OneByOne'
<1> SUFFICES ASSUME StatusInv, [Next]_vars PROVE OneByOne'
  OBVIOUS
<1> USE StatusUpdatesConstantsOK
    DEF StatusInv, TypeOK, OneByOne, Outcomes, request, Fault, GoTo, End
<1>1. ASSUME NEW p \in Patches, Handle(p) PROVE OneByOne'
  BY <1>1 DEF Handle, Receive, SendUpdate, HearOfUpdate, SendAudit, HearOfAudit
<1>2. ASSUME NEW p \in Patches, Execute(p) PROVE OneByOne'
  BY <1>2 DEF Execute, ExecuteUpdate, ExecuteAudit
<1>3. ASSUME NEW p \in Patches, GiveUp(p) \/ Die(p) \/ Reject(p) PROVE OneByOne'
  BY <1>3 DEF GiveUp, Die, Reject
<1>4. CASE Finished \/ UNCHANGED vars
  BY <1>4 DEF Finished, vars
<1> QED
  BY <1>1, <1>2, <1>3, <1>4 DEF Next

\* Every step keeps Quiet, the failing ones because they are counted, and
\* HearOfUpdate and HearOfAudit because they wait for the database's answer.
LEMMA QuietStep == StatusInv /\ [Next]_vars => Quiet'
<1> SUFFICES ASSUME StatusInv, [Next]_vars PROVE Quiet'
  OBVIOUS
<1> USE StatusUpdatesConstantsOK
    DEF StatusInv, TypeOK, OneByOne, Quiet, Outcomes, request, Fault, GoTo, End
<1>1. ASSUME NEW p \in Patches, Handle(p) PROVE Quiet'
  BY <1>1 DEF Handle, Receive, SendUpdate, HearOfUpdate, SendAudit, HearOfAudit
<1>2. ASSUME NEW p \in Patches, Execute(p) PROVE Quiet'
  BY <1>2 DEF Execute, ExecuteUpdate, ExecuteAudit
<1>3. ASSUME NEW p \in Patches, GiveUp(p) \/ Die(p) \/ Reject(p) PROVE Quiet'
  <2>1. faults' = faults + 1
    BY <1>3 DEF GiveUp, Die, Reject
  <2> QED
    BY <2>1
<1>4. CASE Finished \/ UNCHANGED vars
  BY <1>4 DEF Finished, vars
<1> QED
  BY <1>1, <1>2, <1>3, <1>4 DEF Next

\* What a PATCH does to the audit log depends on StatusInv throughout.
LEMMA StatusInvHolds == Spec => []StatusInv
<1>1. StatusInv /\ [Next]_vars => StatusInv'
  BY TypeOKStep, OneByOneStep, QuietStep DEF StatusInv
<1> QED
  BY InitInv, <1>1, PTL DEF Spec

\* TypeOK of StatusUpdates: an empty or undecodable status is never written.
THEOREM TypeCorrect == Spec => []TypeOK
BY StatusInvHolds, PTL DEF StatusInv

\* An audit row tells of a change that was made to a shipment that exists,
\* whatever failed and however late the database executed it.
THEOREM AuditIsAlwaysTruthful == Spec => []AuditIsTruthful
<1>1. StatusInv => AuditIsTruthful
  BY DEF StatusInv, OneByOne, AuditIsTruthful, Audited, Changed
<1> QED
  BY StatusInvHolds, <1>1, PTL

\* While nothing has failed, no request ends with its change unaudited.
THEOREM QuietAuditIsAlwaysWhole == Spec => []QuietAuditIsWhole
<1>1. StatusInv => QuietAuditIsWhole
  BY DEF StatusInv, Quiet, QuietAuditIsWhole, Audited, Changed
<1> QED
  BY StatusInvHolds, <1>1, PTL
=============================================================================
