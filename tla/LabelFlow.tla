----------------------------- MODULE LabelFlow -----------------------------
(***************************************************************************)
(* A label, from the client to the labels table and back, and the GET that *)
(* shows it.  POST /v1/shipments/{id}/label is handed on twice:            *)
(*                                                                         *)
(*   gateway-api  ShipmentsController.label, ProxyService.post             *)
(*   label-svc    LabelController.create, which draws the label's id       *)
(*   shipment-svc createLabel and InsertLabel, which store it              *)
(*                                                                         *)
(* Each hop awaits the next, and a hop whose connection breaks answers 500 *)
(* while what it asked for may still be under way.  With ENABLE_MTLS the   *)
(* gateway calls through node:https instead of fetch, and hears nothing of *)
(* a response that breaks off once it has begun: its client waits on.      *)
(* GET /v1/shipments/{id} of shipment-svc reads the shipment, its packages *)
(* and its labels in three statements on as many connections.              *)
(*                                                                         *)
(* The id label-svc draws is a UUID: a label is named by its call.         *)
(***************************************************************************)
EXTENDS Naturals, FiniteSets

CONSTANTS Calls,        \* POSTs of labels; a client's retry is another one
          Gets,         \* GETs of shipments
          Shipments,
          Packages,     \* the packages of every shipment
          MaxFaults     \* bound: failures injected in a behaviour

ASSUME LabelFlowConstantsOK == Packages # {} /\ MaxFaults \in Nat

VARIABLES
    mtls,       \* ENABLE_MTLS of this deployment
    \* the database
    shipments,  \* shipments rows, committed
    packages,   \* packages rows, committed
    labels,     \* labels rows: the calls that made them
    \* the POSTs
    target,     \* the shipment a call or a GET is about
    gateway,    \* where the gateway's handler is
    label,      \* ... label-svc's
    insert,     \* ... shipment-svc's
    answer,     \* what the client of the gateway is told
    counted,    \* labels_generated_total
    \* the GETs
    gpc,        \* where getShipment is
    shown,      \* what it has read: packages and labels
    code,       \* what the client of the GET is told
    \* bookkeeping
    torn,       \* the GETs a stream of rows of which broke off
    known,      \* the labels clients had been told of when a GET came in
    faults

database == <<shipments, packages, labels>>
where == <<mtls, target>>
chain == <<gateway, label, insert, answer, counted>>
gets == <<gpc, shown, code, torn, known>>
vars == <<where, database, chain, gets, faults>>

TypeOK ==
    /\ mtls \in BOOLEAN
    /\ shipments \subseteq Shipments
    /\ packages \in [Shipments -> SUBSET Packages]
    /\ labels \subseteq Calls
    /\ target \in [Calls \union Gets -> Shipments]
    /\ gateway \in [Calls -> {"idle", "waiting", "done", "hung"}]
    /\ label \in [Calls -> {"idle", "waiting", "ok", "failed"}]
    /\ insert \in [Calls -> {"idle", "sent", "inserted", "refused"}]
    /\ answer \in [Calls -> {"none", "label", "error"}]
    /\ counted \in Nat
    /\ gpc \in [Gets -> {"idle", "shipment", "packages", "labels", "done"}]
    /\ shown \in [Gets -> [packages : SUBSET Packages, labels : SUBSET Calls]]
    /\ code \in [Gets -> {"none", "ok", "not_found", "error"}]
    /\ torn \subseteq Gets
    /\ known \in [Gets -> SUBSET Calls]
    /\ faults \in 0..MaxFaults

Init ==
    /\ mtls \in BOOLEAN
    /\ shipments = {}
    /\ packages = [s \in Shipments |-> {}]
    /\ labels = {}
    /\ target \in [Calls \union Gets -> Shipments]
    /\ gateway = [c \in Calls |-> "idle"]
    /\ label = [c \in Calls |-> "idle"]
    /\ insert = [c \in Calls |-> "idle"]
    /\ answer = [c \in Calls |-> "none"]
    /\ counted = 0
    /\ gpc = [g \in Gets |-> "idle"]
    /\ shown = [g \in Gets |-> [packages |-> {}, labels |-> {}]]
    /\ code = [g \in Gets |-> "none"]
    /\ torn = {}
    /\ known = [g \in Gets |-> {}]
    /\ faults = 0

Fault ==
    /\ faults < MaxFaults
    /\ faults' = faults + 1

-----------------------------------------------------------------------------
(* A shipment comes to be (IdempotentCreate).                              *)

\* Mutant: the row is committed before its packages.
CreateRowFirst(s) ==
    /\ \/ s \notin shipments /\ shipments' = shipments \union {s} /\ UNCHANGED packages
       \/ /\ s \in shipments
          /\ packages[s] = {}
          /\ packages' = [packages EXCEPT ![s] = Packages]
          /\ UNCHANGED shipments
    /\ UNCHANGED <<labels, where, chain, gets, faults>>

\* All its rows at once: CommittedIsComplete of IdempotentCreate.
Create(s) ==
    /\ s \notin shipments
    /\ shipments' = shipments \union {s}
    /\ packages' = [packages EXCEPT ![s] = Packages]
    /\ UNCHANGED <<labels, where, chain, gets, faults>>

-----------------------------------------------------------------------------
(* POST .../label: down the chain.                                         *)

GatewayReceives(c) ==
    /\ gateway[c] = "idle"
    /\ gateway' = [gateway EXCEPT ![c] = "waiting"]
    /\ UNCHANGED <<database, where, label, insert, answer, counted, gets, faults>>

\* label-svc draws an id and posts it on.  The gateway's request arrives even
\* after the gateway has given it up.
LabelReceives(c) ==
    /\ gateway[c] # "idle"
    /\ label[c] = "idle"
    /\ label' = [label EXCEPT ![c] = "waiting"]
    /\ insert' = [insert EXCEPT ![c] = "sent"]
    /\ UNCHANGED <<database, where, gateway, answer, counted, gets, faults>>

\* shipment-svc's INSERT INTO labels, and its 201.  A shipment that is not
\* there fails the foreign key: 500.
InsertLabel(c) ==
    /\ insert[c] = "sent"
    /\ IF target[c] \in shipments
         THEN /\ insert' = [insert EXCEPT ![c] = "inserted"]
              /\ labels' = labels \union {c}
         ELSE /\ insert' = [insert EXCEPT ![c] = "refused"]
              /\ UNCHANGED labels
    /\ UNCHANGED <<shipments, packages, where, gateway, label, answer, counted, gets, faults>>

\* The statement or its connection fails, or shipment-svc dies; the row may
\* have been stored all the same.
InsertLabelFails(c) ==
    /\ insert[c] = "sent"
    /\ Fault
    /\ insert' = [insert EXCEPT ![c] = "refused"]
    /\ \/ target[c] \in shipments /\ labels' = labels \union {c}
       \/ UNCHANGED labels
    /\ UNCHANGED <<shipments, packages, where, gateway, label, answer, counted, gets>>

-----------------------------------------------------------------------------
(* POST .../label: and back up.                                            *)

\* Mutant: a failure is taken off the count.
LabelUncounts(c) ==
    /\ label[c] = "waiting"
    /\ IF insert[c] = "inserted"
         THEN /\ label' = [label EXCEPT ![c] = "ok"]
              /\ counted' = counted + 1
         ELSE /\ insert[c] = "refused"
              /\ label' = [label EXCEPT ![c] = "failed"]
              /\ counted' = counted - 1
    /\ UNCHANGED <<database, where, gateway, insert, answer, gets, faults>>

\* Mutant: res.ok is not looked at.
LabelAnswersAnyway(c) ==
    /\ label[c] = "waiting"
    /\ insert[c] \in {"inserted", "refused"}
    /\ label' = [label EXCEPT ![c] = "ok"]
    /\ counted' = counted + 1
    /\ UNCHANGED <<database, where, gateway, insert, answer, gets, faults>>

\* res.ok decides between the count with the answer, and a thrown error.
LabelAnswers(c) ==
    /\ label[c] = "waiting"
    /\ IF insert[c] = "inserted"
         THEN /\ label' = [label EXCEPT ![c] = "ok"]
              /\ counted' = counted + 1
         ELSE /\ insert[c] = "refused"
              /\ label' = [label EXCEPT ![c] = "failed"]
              /\ UNCHANGED counted
    /\ UNCHANGED <<database, where, gateway, insert, answer, gets, faults>>

\* The fetch to shipment-svc breaks.  (The death of label-svc is left out: it
\* takes the unexported part of the counter along.)
LabelBreaks(c) ==
    /\ label[c] = "waiting"
    /\ Fault
    /\ label' = [label EXCEPT ![c] = "failed"]
    /\ UNCHANGED <<database, where, gateway, insert, answer, counted, gets>>

\* Mutant: only a success is passed on.
GatewayAwaitsLabel(c) ==
    /\ gateway[c] = "waiting"
    /\ label[c] = "ok"
    /\ gateway' = [gateway EXCEPT ![c] = "done"]
    /\ answer' = [answer EXCEPT ![c] = "label"]
    /\ UNCHANGED <<database, where, label, insert, counted, gets, faults>>

\* The gateway passes on label-svc's status and body.
GatewayAnswers(c) ==
    /\ gateway[c] = "waiting"
    /\ label[c] \in {"ok", "failed"}
    /\ gateway' = [gateway EXCEPT ![c] = "done"]
    /\ answer' = [answer EXCEPT ![c] = IF label[c] = "ok" THEN "label" ELSE "error"]
    /\ UNCHANGED <<database, where, label, insert, counted, gets, faults>>

\* The call to label-svc breaks: the proxy rethrows, 500.
GatewayBreaks(c) ==
    /\ gateway[c] = "waiting"
    /\ Fault
    /\ gateway' = [gateway EXCEPT ![c] = "done"]
    /\ answer' = [answer EXCEPT ![c] = "error"]
    /\ UNCHANGED <<database, where, label, insert, counted, gets>>

\* Over mTLS, a response that breaks off after its headers: node ends the
\* message with neither 'end' nor an 'error' of the request, and the promise of
\* httpRequestViaNode never settles.
GatewayHangs(c) ==
    /\ mtls
    /\ gateway[c] = "waiting"
    /\ label[c] \in {"ok", "failed"}
    /\ Fault
    /\ gateway' = [gateway EXCEPT ![c] = "hung"]
    /\ UNCHANGED <<database, where, label, insert, answer, counted, gets>>

-----------------------------------------------------------------------------
(* GET /v1/shipments/{id}                                                  *)

Step(g, l) == gpc' = [gpc EXCEPT ![g] = l]

End(g, c) ==
    /\ Step(g, "done")
    /\ code' = [code EXCEPT ![g] = c]

getShipment(g) ==
    /\ gpc[g] = "idle"
    /\ Step(g, "shipment")
    /\ known' = [known EXCEPT ![g] = {c \in Calls : answer[c] = "label" /\ target[c] = target[g]}]
    /\ UNCHANGED <<database, where, chain, shown, code, torn, faults>>

ReadShipment(g) ==
    /\ gpc[g] = "shipment"
    /\ IF target[g] \in shipments THEN Step(g, "packages") /\ UNCHANGED code
                                  ELSE End(g, "not_found")
    /\ UNCHANGED <<database, where, chain, shown, torn, known, faults>>

ReadPackages(g) ==
    /\ gpc[g] = "packages"
    /\ shown' = [shown EXCEPT ![g].packages = packages[target[g]]]
    /\ Step(g, "labels")
    /\ UNCHANGED <<database, where, chain, code, torn, known, faults>>

LabelsOf(s) == {c \in labels : target[c] = s}

\* Mutant: the labels come from a replica of the database that lags.
ReadLabelsLagging(g) ==
    /\ gpc[g] = "labels"
    /\ \E part \in SUBSET LabelsOf(target[g]) : shown' = [shown EXCEPT ![g].labels = part]
    /\ End(g, "ok")
    /\ UNCHANGED <<database, where, chain, torn, known, faults>>

ReadLabels(g) ==
    /\ gpc[g] = "labels"
    /\ shown' = [shown EXCEPT ![g].labels = LabelsOf(target[g])]
    /\ End(g, "ok")
    /\ UNCHANGED <<database, where, chain, torn, known, faults>>

\* A stream of rows breaks off: rows.Err() is never asked, and the rows that
\* came are taken for all.
ReadTorn(g) ==
    /\ Fault
    /\ \/ /\ gpc[g] = "packages"
          /\ \E part \in SUBSET packages[target[g]] : shown' = [shown EXCEPT ![g].packages = part]
          /\ Step(g, "labels")
          /\ UNCHANGED code
       \/ /\ gpc[g] = "labels"
          /\ \E part \in SUBSET LabelsOf(target[g]) : shown' = [shown EXCEPT ![g].labels = part]
          /\ End(g, "ok")
    /\ torn' = torn \union {g}
    /\ UNCHANGED <<database, where, chain, known>>

\* A query fails: 500.
ReadFails(g) ==
    /\ gpc[g] \in {"shipment", "packages", "labels"}
    /\ Fault
    /\ End(g, "error")
    /\ UNCHANGED <<database, where, chain, shown, torn, known>>

-----------------------------------------------------------------------------

Hop(c) == LabelReceives(c) \/ InsertLabel(c) \/ LabelAnswers(c) \/ GatewayAnswers(c)
Read(g) == ReadShipment(g) \/ ReadPackages(g) \/ ReadLabels(g)

\* Every client has its answer, or never will: the end of a run.
Finished ==
    /\ \A c \in Calls : gateway[c] \in {"done", "hung"}
    /\ \A g \in Gets : gpc[g] = "done"
    /\ UNCHANGED vars

Next ==
    \/ \E s \in Shipments : Create(s)
    \/ \E c \in Calls :
          \/ GatewayReceives(c)
          \/ Hop(c)
          \/ InsertLabelFails(c)
          \/ LabelBreaks(c)
          \/ GatewayBreaks(c)
          \/ GatewayHangs(c)
    \/ \E g \in Gets : getShipment(g) \/ Read(g) \/ ReadTorn(g) \/ ReadFails(g)
    \/ Finished

Spec == Init /\ [][Next]_vars

\* While its client waits, a call is handed on and answered.  A hop that has
\* been given up may go on or not; clients owe nothing.
FairSpec ==
    /\ Spec
    /\ \A c \in Calls : WF_vars(gateway[c] = "waiting" /\ Hop(c))
    /\ \A g \in Gets : WF_vars(Read(g))

-----------------------------------------------------------------------------
(* Properties.                                                             *)

\* The labels clients were told of are stored, on shipments that exist: an id
\* label-svc draws reaches a client only after shipment-svc has the row.  And
\* labels_generated_total, on which the KPI funnel rests, lies between what
\* clients were told of and what there is, whichever hop breaks.
ToldLabelsAreStored ==
    LET toldOf == {c \in Calls : answer[c] = "label"}
    IN  /\ toldOf \subseteq labels
        /\ \A c \in toldOf : target[c] \in shipments
        /\ Cardinality(toldOf) <= counted
        /\ counted <= Cardinality(labels)

\* A GET shows the labels its clients had been told of, though it reads them
\* last and in a statement of their own.
GetShowsToldLabels ==
    \A g \in Gets : code[g] = "ok" /\ g \notin torn => known[g] \subseteq shown[g].labels

\* A shipment is shown with all its packages or not at all: a GET between the
\* statements of a create sees none of them.
GetShowsWholeShipment ==
    \A g \in Gets : code[g] = "ok" /\ g \notin torn => shown[g].packages = Packages

\* No hop waits for one that is done: every call of a client is answered, with
\* but one way to be left waiting, a response over mTLS that breaks off.
CallsEnd ==
    /\ \A c \in Calls :
          gateway[c] = "waiting" ~> gateway[c] = "done" \/ (mtls /\ gateway[c] = "hung")
    /\ \A g \in Gets : gpc[g] = "shipment" ~> gpc[g] = "done"
=============================================================================
