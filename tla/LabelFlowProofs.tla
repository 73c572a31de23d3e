-------------------------- MODULE LabelFlowProofs --------------------------
(***************************************************************************)
(* What clients may conclude from a label and from a GET, for any number   *)
(* of calls, GETs, shipments, packages and failures.                       *)
(*                                                                         *)
(* LabelInv is inductive.  BackedUp and Counted follow an answer back down *)
(* the chain: told, therefore counted, therefore inserted, therefore       *)
(* stored on a shipment that exists.  Reading says what getShipment has in *)
(* hand at each of its steps, given that Created shipments are whole.      *)
(***************************************************************************)
EXTENDS LabelFlow, FiniteSetTheorems, TLAPS

\* The calls label-svc has answered with a label.
Labelled == {c \in Calls : label[c] = "ok"}

\* Each hop has its answer from the next, and the client has one for good.
BackedUp ==
    \A c \in Calls :
        /\ answer[c] # "none" => gateway[c] = "done"
        /\ answer[c] = "label" => label[c] = "ok"
        /\ label[c] = "ok" => insert[c] = "inserted"
        /\ insert[c] = "inserted" => c \in labels
        /\ c \in labels => target[c] \in shipments

\* Each label-svc's answer is counted once, and only so many are.
Counted ==
    /\ IsFiniteSet(labels)
    /\ IsFiniteSet(Labelled)
    /\ counted = Cardinality(Labelled)

\* A shipment comes with all its packages.
Created == \A s \in shipments : packages[s] = Packages

\* What getShipment has read, where its streams of rows were whole.
Reading ==
    \A g \in Gets :
        /\ \A c \in known[g] : answer[c] = "label" /\ target[c] = target[g]
        /\ gpc[g] \in {"packages", "labels"} => target[g] \in shipments
        /\ gpc[g] = "labels" /\ g \notin torn => shown[g].packages = Packages
        /\ code[g] # "none" => gpc[g] = "done"
        /\ code[g] = "ok" /\ g \notin torn =>
               shown[g].packages = Packages /\ known[g] \subseteq shown[g].labels

LabelInv == TypeOK /\ BackedUp /\ Counted /\ Created /\ Reading

\* Nothing is stored, counted or read at first.
LEMMA InitInv == Init => LabelInv
<1> SUFFICES ASSUME Init PROVE LabelInv
  OBVIOUS
<1> USE LabelFlowConstantsOK DEF Init
<1>1. TypeOK /\ BackedUp /\ Created /\ Reading
  BY DEF TypeOK, BackedUp, Created, Reading
<1>2. Labelled = {}
  BY DEF Labelled
<1>3. Counted
  BY <1>2, FS_EmptySet DEF Counted
<1> QED
  BY <1>1, <1>3 DEF LabelInv

\* Every step keeps the types.
LEMMA TypeOKStep == LabelInv /\ [Next]_vars => TypeOK'
<1> SUFFICES ASSUME LabelInv, [Next]_vars PROVE TypeOK'
  OBVIOUS
<1> USE LabelFlowConstantsOK
    DEF LabelInv, TypeOK, Counted, where, database, chain, gets, Fault, Step, End, LabelsOf
<1>1. ASSUME NEW s \in Shipments, Create(s) PROVE TypeOK'
  BY <1>1 DEF Create
<1>2. ASSUME NEW c \in Calls, GatewayReceives(c) \/ Hop(c) PROVE TypeOK'
  <2>1. CASE GatewayReceives(c) \/ LabelReceives(c) \/ InsertLabel(c)
    BY <2>1 DEF GatewayReceives, LabelReceives, InsertLabel
  <2>2. CASE LabelAnswers(c)
    BY <2>2 DEF LabelAnswers
  <2>3. CASE GatewayAnswers(c)
    BY <2>3 DEF GatewayAnswers
  <2> QED
    BY <1>2, <2>1, <2>2, <2>3 DEF Hop
<1>3. ASSUME NEW c \in Calls,
             InsertLabelFails(c) \/ LabelBreaks(c) \/ GatewayBreaks(c) \/ GatewayHangs(c)
      PROVE  TypeOK'
  <2>1. CASE InsertLabelFails(c)
    BY <2>1 DEF InsertLabelFails
  <2>2. CASE LabelBreaks(c)
    BY <2>2 DEF LabelBreaks
  <2>3. CASE GatewayBreaks(c)
    BY <2>3 DEF GatewayBreaks
  <2>4. CASE GatewayHangs(c)
    BY <2>4 DEF GatewayHangs
  <2> QED
    BY <1>3, <2>1, <2>2, <2>3, <2>4
<1>4. ASSUME NEW g \in Gets, getShipment(g) \/ Read(g) \/ ReadTorn(g) \/ ReadFails(g)
      PROVE  TypeOK'
  <2>1. CASE getShipment(g)
    BY <2>1 DEF getShipment
  <2>2. CASE ReadShipment(g)
    <3>1. CASE target[g] \in shipments
      BY <2>2, <3>1 DEF ReadShipment
    <3>2. CASE target[g] \notin shipments
      BY <2>2, <3>2 DEF ReadShipment
    <3> QED
      BY <3>1, <3>2
  <2>3. CASE ReadPackages(g)
    BY <2>3 DEF ReadPackages
  <2>4. CASE ReadLabels(g)
    BY <2>4 DEF ReadLabels
  <2>5. CASE ReadTorn(g)
    <3>1. shown' \in [Gets -> [packages : SUBSET Packages, labels : SUBSET Calls]]
      <4>1. CASE gpc[g] = "packages"
        <5>1. PICK part \in SUBSET packages[target[g]] :
                  shown' = [shown EXCEPT ![g].packages = part]
          BY <2>5, <4>1 DEF ReadTorn
        <5> QED
          BY <5>1
      <4>2. CASE gpc[g] = "labels"
        <5>1. PICK part \in SUBSET LabelsOf(target[g]) :
                  shown' = [shown EXCEPT ![g].labels = part]
          BY <2>5, <4>2 DEF ReadTorn
        <5> QED
          BY <5>1
      <4> QED
        BY <2>5, <4>1, <4>2 DEF ReadTorn
    <3>2. gpc' \in [Gets -> {"idle", "shipment", "packages", "labels", "done"}]
      BY <2>5 DEF ReadTorn
    <3>3. code' \in [Gets -> {"none", "ok", "not_found", "error"}]
      BY <2>5 DEF ReadTorn
    <3>4. torn' \subseteq Gets /\ faults' \in 0..MaxFaults
      BY <2>5 DEF ReadTorn
    <3>5. UNCHANGED <<where, database, chain, known>>
      BY <2>5 DEF ReadTorn
    <3> QED
      BY <3>1, <3>2, <3>3, <3>4, <3>5
  <2>6. CASE ReadFails(g)
    BY <2>6 DEF ReadFails
  <2> QED
    BY <1>4, <2>1, <2>2, <2>3, <2>4, <2>5, <2>6 DEF Read
<1>5. CASE Finished \/ UNCHANGED vars
  BY <1>5 DEF Finished, vars
<1> QED
  BY <1>1, <1>2, <1>3, <1>4, <1>5 DEF Next

\* Every step up the chain has the answer from below; shipments stay.
LEMMA BackedUpStep == LabelInv /\ [Next]_vars => BackedUp'
<1> SUFFICES ASSUME LabelInv, [Next]_vars PROVE BackedUp'
  OBVIOUS
<1> USE DEF LabelInv, TypeOK, BackedUp, where, database, chain, gets, Fault
<1>1. ASSUME NEW s \in Shipments, Create(s) PROVE BackedUp'
  BY <1>1 DEF Create
<1>2. ASSUME NEW c \in Calls, GatewayReceives(c) \/ Hop(c) PROVE BackedUp'
  BY <1>2 DEF GatewayReceives, Hop, LabelReceives, InsertLabel, LabelAnswers, GatewayAnswers
<1>3. ASSUME NEW c \in Calls,
             InsertLabelFails(c) \/ LabelBreaks(c) \/ GatewayBreaks(c) \/ GatewayHangs(c)
      PROVE  BackedUp'
  BY <1>3 DEF InsertLabelFails, LabelBreaks, GatewayBreaks, GatewayHangs
<1>4. ASSUME NEW g \in Gets, getShipment(g) \/ Read(g) \/ ReadTorn(g) \/ ReadFails(g)
      PROVE  BackedUp'
  BY <1>4 DEF getShipment, Read, ReadShipment, ReadPackages, ReadLabels, ReadTorn, ReadFails
<1>5. CASE Finished \/ UNCHANGED vars
  BY <1>5 DEF Finished, vars
<1> QED
  BY <1>1, <1>2, <1>3, <1>4, <1>5 DEF Next

\* LabelAnswers is the one step that adds to Labelled, and it counts one call.
LEMMA LabelAnswersCounts ==
    ASSUME LabelInv, NEW c \in Calls, LabelAnswers(c)
    PROVE  Counted'
<1> USE DEF LabelInv, TypeOK, Counted, LabelAnswers, where, database
<1>1. CASE insert[c] = "inserted"
  <2>1. Labelled' = Labelled \union {c} /\ c \notin Labelled
    BY <1>1 DEF Labelled
  <2>2. IsFiniteSet(Labelled') /\ Cardinality(Labelled') = Cardinality(Labelled) + 1
    BY <2>1, FS_AddElement
  <2> QED
    BY <1>1, <2>2
<1>2. CASE insert[c] # "inserted"
  <2>1. Labelled' = Labelled
    BY <1>2 DEF Labelled
  <2> QED
    BY <1>2, <2>1
<1> QED
  BY <1>1, <1>2

\* The counter and the calls it counts move together, or not at all.
LEMMA CountedStep == LabelInv /\ [Next]_vars => Counted'
<1> SUFFICES ASSUME LabelInv, [Next]_vars PROVE Counted'
  OBVIOUS
<1> USE DEF LabelInv, TypeOK, where, database, chain, gets, Fault
<1>1. ASSUME NEW c \in Calls, InsertLabel(c) \/ InsertLabelFails(c) PROVE Counted'
  <2>1. labels' = labels \/ labels' = labels \union {c}
    BY <1>1 DEF InsertLabel, InsertLabelFails
  <2>2. IsFiniteSet(labels \union {c})
    BY FS_AddElement DEF Counted
  <2>3. Labelled' = Labelled /\ counted' = counted
    BY <1>1 DEF InsertLabel, InsertLabelFails, Labelled
  <2> QED
    BY <2>1, <2>2, <2>3 DEF Counted
<1>2. ASSUME NEW c \in Calls,
             \/ GatewayReceives(c)
             \/ LabelReceives(c)
             \/ GatewayAnswers(c)
             \/ LabelBreaks(c)
             \/ GatewayBreaks(c)
             \/ GatewayHangs(c)
      PROVE  Counted'
  <2>1. Labelled' = Labelled /\ counted' = counted /\ labels' = labels
    BY <1>2
       DEF GatewayReceives, LabelReceives, GatewayAnswers, LabelBreaks, GatewayBreaks,
           GatewayHangs, Labelled
  <2> QED
    BY <2>1 DEF Counted
<1>3. ASSUME \/ \E s \in Shipments : Create(s)
             \/ \E g \in Gets : getShipment(g) \/ Read(g) \/ ReadTorn(g) \/ ReadFails(g)
             \/ Finished
             \/ UNCHANGED vars
      PROVE  Counted'
  <2>1. UNCHANGED <<labels, label, counted>>
    BY <1>3 DEF Create, getShipment, Read, ReadShipment, ReadPackages, ReadLabels,
        ReadTorn, ReadFails, Finished, vars
  <2> QED
    BY <2>1 DEF Counted, Labelled
<1> QED
  BY <1>1, <1>2, <1>3, LabelAnswersCounts DEF Next, Hop

\* Create writes the row and its packages together, and nothing else writes them.
LEMMA CreatedStep == LabelInv /\ [Next]_vars => Created'
<1> SUFFICES ASSUME LabelInv, [Next]_vars PROVE Created'
  OBVIOUS
<1> USE DEF LabelInv, TypeOK, Created, where, database, chain, gets
<1>1. ASSUME NEW s \in Shipments, Create(s) PROVE Created'
  BY <1>1 DEF Create
<1>2. ASSUME NEW c \in Calls,
             \/ GatewayReceives(c)
             \/ Hop(c)
             \/ InsertLabelFails(c)
             \/ LabelBreaks(c)
             \/ GatewayBreaks(c)
             \/ GatewayHangs(c)
      PROVE  Created'
  BY <1>2 DEF GatewayReceives, Hop, LabelReceives, InsertLabel, LabelAnswers, GatewayAnswers,
      InsertLabelFails, LabelBreaks, GatewayBreaks, GatewayHangs
<1>3. ASSUME NEW g \in Gets, getShipment(g) \/ Read(g) \/ ReadTorn(g) \/ ReadFails(g)
      PROVE  Created'
  BY <1>3 DEF getShipment, Read, ReadShipment, ReadPackages, ReadLabels, ReadTorn, ReadFails
<1>4. CASE Finished \/ UNCHANGED vars
  BY <1>4 DEF Finished, vars
<1> QED
  BY <1>1, <1>2, <1>3, <1>4 DEF Next

\* getShipment's statements come one after the other, and what they read only
\* grows: BackedUp puts every label a client was told of among those it reads.
LEMMA ReadingStep == LabelInv /\ [Next]_vars => Reading'
<1> SUFFICES ASSUME LabelInv, [Next]_vars PROVE Reading'
  OBVIOUS
<1> USE DEF LabelInv, TypeOK, BackedUp, Reading, where, database, chain, gets, Fault
<1>1. ASSUME NEW s \in Shipments, Create(s) PROVE Reading'
  BY <1>1 DEF Create
<1>2. ASSUME NEW c \in Calls, GatewayReceives(c) \/ Hop(c) PROVE Reading'
  BY <1>2 DEF GatewayReceives, Hop, LabelReceives, InsertLabel, LabelAnswers, GatewayAnswers
<1>3. ASSUME NEW c \in Calls,
             InsertLabelFails(c) \/ LabelBreaks(c) \/ GatewayBreaks(c) \/ GatewayHangs(c)
      PROVE  Reading'
  BY <1>3 DEF InsertLabelFails, LabelBreaks, GatewayBreaks, GatewayHangs
<1>4. ASSUME NEW g \in Gets, getShipment(g) \/ ReadShipment(g) \/ ReadFails(g) PROVE Reading'
  BY <1>4 DEF getShipment, ReadShipment, ReadFails, Step, End
<1>5. ASSUME NEW g \in Gets, ReadPackages(g) PROVE Reading'
  BY <1>5 DEF ReadPackages, Step, End, Created
<1>6. ASSUME NEW g \in Gets, ReadLabels(g) PROVE Reading'
  BY <1>6 DEF ReadLabels, Step, End, LabelsOf
<1>7. ASSUME NEW g \in Gets, ReadTorn(g) PROVE Reading'
  BY <1>7 DEF ReadTorn, Step, End
<1>8. CASE Finished \/ UNCHANGED vars
  BY <1>8 DEF Finished, vars
<1> QED
  BY <1>1, <1>2, <1>3, <1>4, <1>5, <1>6, <1>7, <1>8 DEF Next, Read

\* Whatever hop breaks, and however calls and GETs interleave, LabelInv holds.
LEMMA LabelInvHolds == Spec => []LabelInv
<1>1. LabelInv /\ [Next]_vars => LabelInv'
  BY TypeOKStep, BackedUpStep, CountedStep, CreatedStep, ReadingStep DEF LabelInv
<1> QED
  BY InitInv, <1>1, PTL DEF Spec

\* TypeOK of LabelFlow.
THEOREM TypeCorrect == Spec => []TypeOK
BY LabelInvHolds, PTL DEF LabelInv

\* A client is told of a label only after shipment-svc has its row, on a
\* shipment that exists, and labels_generated_total lies between the labels told
\* of and the labels stored.
THEOREM ToldLabelsAreAlwaysStored == Spec => []ToldLabelsAreStored
<1>1. ASSUME LabelInv PROVE ToldLabelsAreStored
  <2> DEFINE toldOf == {c \in Calls : answer[c] = "label"}
  <2> USE <1>1 DEF LabelInv
  <2>1. toldOf \subseteq Labelled /\ Labelled \subseteq labels
    BY DEF BackedUp, Labelled
  <2>2. Cardinality(toldOf) <= Cardinality(Labelled)
    BY <2>1, FS_Subset DEF Counted
  <2>3. Cardinality(Labelled) <= Cardinality(labels)
    BY <2>1, FS_Subset DEF Counted
  <2>4. \A c \in toldOf : target[c] \in shipments
    BY DEF BackedUp
  <2>5. Cardinality(toldOf) <= counted /\ counted <= Cardinality(labels)
    BY <2>2, <2>3 DEF Counted
  <2> QED
    BY <2>1, <2>4, <2>5 DEF ToldLabelsAreStored
<1> QED
  BY LabelInvHolds, <1>1, PTL

\* A GET whose rows came whole shows every label a client had been told of when
\* it came in, though it reads them in a statement of their own.
THEOREM GetAlwaysShowsToldLabels == Spec => []GetShowsToldLabels
<1>1. LabelInv => GetShowsToldLabels
  BY DEF LabelInv, Reading, GetShowsToldLabels
<1> QED
  BY LabelInvHolds, <1>1, PTL

\* A GET whose rows came whole shows all the packages of its shipment.
THEOREM GetAlwaysShowsWholeShipment == Spec => []GetShowsWholeShipment
<1>1. LabelInv => GetShowsWholeShipment
  BY DEF LabelInv, Reading, GetShowsWholeShipment
<1> QED
  BY LabelInvHolds, <1>1, PTL
=============================================================================
