--------------------------- MODULE TrackingProofs ---------------------------
(***************************************************************************)
(* What a GET of tracking-svc may be taken for, for any number of events,  *)
(* GETs and failures and any limit of the query.                           *)
(*                                                                         *)
(* TrackingInv is inductive.  A stored row and its ts are there for good,  *)
(* and an answer's first row is the newest of those there when the         *)
(* statement ran (AnswerRows): whatever was settled before the GET came    *)
(* in, or headed an earlier answer, was among them.                        *)
(***************************************************************************)
EXTENDS Tracking, FiniteSetTheorems, FunctionTheorems, SequenceTheorems, TLAPS

-----------------------------------------------------------------------------
(* ORDER BY and LIMIT.                                                     *)

\* Min, of two numbers.
LEMMA MinOfTwo ==
    ASSUME NEW m \in Nat, NEW n \in Nat
    PROVE  Min({m, n}) = IF m <= n THEN m ELSE n
<1> DEFINE k == IF m <= n THEN m ELSE n
<1>1. k \in {m, n} /\ \A y \in {m, n} : k <= y
  OBVIOUS
<1>2. \A x \in {m, n} : (\A y \in {m, n} : x <= y) => x = k
  OBVIOUS
<1> QED
  BY <1>1, <1>2 DEF Min

\* ORDER BY ts DESC lists every row, the newest first.
LEMMA NewestFirstIsWhole ==
    ASSUME NEW S, IsFiniteSet(S), NEW q \in NewestFirst(S)
    PROVE  /\ q \in Seq(S)
           /\ Len(q) = Cardinality(S)
           /\ \A e \in S : \E i \in 1..Len(q) : q[i] = e
           /\ \A i, j \in 1..Len(q) : i < j => ts[q[i]] >= ts[q[j]]
<1> DEFINE n == Cardinality(S)
<1>1. n \in Nat
  BY FS_CardinalityType
<1>2. q \in [1..n -> S] /\ \A i, j \in 1..n : i # j => q[i] # q[j]
  BY DEF NewestFirst, SetToSeqs
<1>3. \A i, j \in DOMAIN q : i < j => ts[q[i]] >= ts[q[j]]
  BY DEF NewestFirst
<1>4. q \in Injection(1..n, S)
  BY <1>2 DEF Injection, IsInjective
<1>5. IsFiniteSet(1..n) /\ Cardinality(1..n) = n
  BY <1>1, FS_Interval
<1>6. q \in Surjection(1..n, S)
  BY <1>4, <1>5, FS_Injection
<1>7. q \in Seq(S) /\ Len(q) = n
  BY <1>1, <1>2
<1> QED
  BY <1>2, <1>3, <1>6, <1>7 DEF Surjection

\* LIMIT keeps the first rows.
LEMMA CutLength ==
    ASSUME NEW S, NEW q \in Seq(S)
    PROVE  /\ Len(Cut(q)) = IF Len(q) <= Limit THEN Len(q) ELSE Limit
           /\ Cut(q) = SubSeq(q, 1, Len(Cut(q)))
<1>1. Len(q) \in Nat /\ Limit \in Nat /\ \A i \in 1..Len(q) : q[i] \in S
  BY TrackingConstantsOK, LenProperties, ElementOfSeq
<1> DEFINE k == IF Len(q) <= Limit THEN Len(q) ELSE Limit
<1>2. Cut(q) = SubSeq(q, 1, k)
  BY <1>1, MinOfTwo DEF Cut
<1>3. k \in Nat /\ \A i \in 1..k : q[i] \in S
  BY <1>1
<1>4. Len(SubSeq(q, 1, k)) = k
  BY <1>3, SubSeqProperties
<1> QED
  BY <1>2, <1>4

\* What n of the rows of S that a GET asked for make of an answer.
FirstRows(S, rows) ==
    /\ rows \in Seq(S)
    /\ Len(rows) <= Limit
    /\ rows # <<>> => Head(rows) \in S /\ \A e \in S : ts[Head(rows)] >= ts[e]

\* The first rows of an answer, however many came, start with the newest; and
\* all that LIMIT leaves are all there are, if they are fewer than that.
LEMMA AnswerRows ==
    ASSUME NEW S, IsFiniteSet(S), \A e \in S : ts[e] \in Nat,
           NEW q \in NewestFirst(S), NEW n \in 0..Len(Cut(q))
    PROVE  /\ FirstRows(S, SubSeq(q, 1, n))
           /\ n = Len(Cut(q)) =>
                 /\ SubSeq(q, 1, n) = <<>> => S = {}
                 /\ Len(SubSeq(q, 1, n)) < Limit => S \subseteq ToSet(SubSeq(q, 1, n))
<1> DEFINE rows == SubSeq(q, 1, n)
<1>1. /\ q \in Seq(S) /\ Len(q) \in Nat
      /\ \A e \in S : \E i \in 1..Len(q) : q[i] = e
      /\ \A i, j \in 1..Len(q) : i < j => ts[q[i]] >= ts[q[j]]
  BY NewestFirstIsWhole, LenProperties
<1>2. \A i \in 1..Len(q) : q[i] \in S
  BY <1>1, ElementOfSeq
<1>3. Limit \in Nat \ {0} /\ Len(Cut(q)) = IF Len(q) <= Limit THEN Len(q) ELSE Limit
  BY <1>1, CutLength, TrackingConstantsOK
<1>4. n \in Nat /\ n <= Len(q) /\ n <= Limit
  BY <1>1, <1>3
<1>5. \A i \in 1..n : q[i] \in S
  BY <1>1, <1>2, <1>4
<1>6. rows \in Seq(S) /\ Len(rows) = n /\ \A i \in 1..n : rows[i] = q[i]
  <2>1. /\ rows \in Seq(S)
        /\ Len(rows) = IF 1 <= n THEN n - 1 + 1 ELSE 0
        /\ \A i \in 1 .. n - 1 + 1 : rows[i] = q[1 + i - 1]
    BY <1>4, <1>5, SubSeqProperties
  <2> QED
    BY <1>4, <2>1
<1>7. ASSUME rows # <<>> PROVE Head(rows) \in S /\ \A e \in S : ts[Head(rows)] >= ts[e]
  <2>1. n >= 1
    BY <1>4, <1>6, <1>7, EmptySeq
  <2>2. Head(rows) = q[1]
    BY <1>1, <1>4, <2>1, HeadTailOfSubSeq
  <2>3. q[1] \in S
    BY <1>5, <2>1, <1>4
  <2>4. ASSUME NEW e \in S PROVE ts[q[1]] >= ts[e]
    <3>1. PICK i \in 1..Len(q) : q[i] = e
      BY <1>1
    <3>2. CASE i = 1
      BY <3>1, <3>2
    <3>3. CASE i # 1
      <4>1. 1 \in 1..Len(q) /\ 1 < i
        BY <1>1, <3>3
      <4>2. ts[q[1]] >= ts[q[i]]
        BY <1>1, <4>1
      <4> QED
        BY <3>1, <4>2
    <3> QED
      BY <3>2, <3>3
  <2> QED
    BY <2>2, <2>3, <2>4
<1>8. ASSUME n = Len(Cut(q)), rows = <<>> PROVE S = {}
  <2>1. n = 0
    BY <1>6, <1>8, EmptySeq
  <2>2. Len(q) = 0
    BY <1>1, <1>3, <1>8, <2>1
  <2> QED
    BY <1>1, <2>2
<1>9. ASSUME n = Len(Cut(q)), Len(rows) < Limit PROVE S \subseteq ToSet(rows)
  <2>1. n = Len(q)
    BY <1>1, <1>3, <1>6, <1>9
  <2>2. DOMAIN rows = 1..n
    BY <1>6, LenProperties
  <2> QED
    BY <1>1, <1>6, <2>1, <2>2 DEF ToSet
<1> QED
  BY <1>4, <1>6, <1>7, <1>8, <1>9 DEF FirstRows

\* In particular for an answer that is not torn.
LEMMA WholeAnswerRows ==
    ASSUME NEW S, IsFiniteSet(S), \A e \in S : ts[e] \in Nat, NEW q \in NewestFirst(S)
    PROVE  /\ FirstRows(S, Cut(q))
           /\ Cut(q) = <<>> => S = {}
           /\ Len(Cut(q)) < Limit => S \subseteq ToSet(Cut(q))
<1> DEFINE n == Len(Cut(q))
<1>1. q \in Seq(S)
  BY NewestFirstIsWhole
<1>2. Cut(q) = SubSeq(q, 1, n) /\ n \in 0..Len(Cut(q)) /\ n = Len(Cut(q))
  BY <1>1, CutLength, LenProperties, TrackingConstantsOK
<1> HIDE DEF n
<1>3. /\ FirstRows(S, SubSeq(q, 1, n))
      /\ SubSeq(q, 1, n) = <<>> => S = {}
      /\ Len(SubSeq(q, 1, n)) < Limit => S \subseteq ToSet(SubSeq(q, 1, n))
  BY <1>2, AnswerRows
<1> QED
  BY <1>2, <1>3

-----------------------------------------------------------------------------
(* The invariant.                                                          *)

AllStored == {e \in Events : row[e] = "stored"}

\* An event has a row from its INSERT on, which the handler waits for, unless
\* something fails.
PostsInOrder ==
    /\ IsFiniteSet(AllStored)
    /\ \A e \in Events :
          /\ pc[e] \in {"idle", "insert"} => row[e] = "none" /\ code[e] = "none"
          /\ pc[e] = "wait" => row[e] # "none" /\ code[e] = "none"
          /\ faults = 0 =>
                row[e] # "failed" /\ (code[e] = "accepted" => row[e] = "stored")

\* A row of the shipment a GET is for, there for good.
RowFor(t, e) == e \in Events /\ row[e] = "stored" /\ shipment[e] = of[t]

\* What a GET has found, and what was there before it.
GetsInOrder ==
    \A t \in Trackers :
        /\ tpc[t] # "done" => status[t] = "none"
        /\ \A u \in before[t] : tpc[u] = "done"
        /\ \A e \in settled[t] : RowFor(t, e)
        /\ read[t] # <<>> => RowFor(t, Head(read[t]))

\* Within the limit an answer has all that had been settled.
NoHoles ==
    \A t \in Trackers : Reported(t) /\ t \notin torn /\ Len(read[t]) < Limit =>
        settled[t] \subseteq ToSet(read[t])

TrackingInv ==
    /\ TypeOK
    /\ PostsInOrder
    /\ GetsInOrder
    /\ NoStaleStatus
    /\ StatusMovesOn
    /\ NoHoles

\* Nothing is stored and nobody has asked.
LEMMA InitInv == Init => TrackingInv
<1> SUFFICES ASSUME Init PROVE TrackingInv
  OBVIOUS
<1> USE TrackingConstantsOK DEF Init
<1>1. TypeOK
  BY EmptySeq DEF TypeOK, Types
<1>2. AllStored = {}
  BY DEF AllStored
<1>3. PostsInOrder
  BY <1>2, FS_EmptySet DEF PostsInOrder
<1>4. GetsInOrder /\ NoStaleStatus /\ StatusMovesOn /\ NoHoles
  BY DEF GetsInOrder, NoStaleStatus, StatusMovesOn, NoHoles, Reported, Types
<1> QED
  BY <1>1, <1>3, <1>4 DEF TrackingInv

\* The steps of the POST requests.
Post(e) ==
    \/ pickup(e) \/ transit(e) \/ deliver(e) \/ Refuse(e)
    \/ Handle(e) \/ Reject(e) \/ AnswerUnheard(e) \/ Lose(e)

\* A POST's step leaves GETs, stored rows and their times alone.
LEMMA PostKeepsRows ==
    ASSUME TrackingInv, NEW e \in Events, Post(e)
    PROVE  /\ UNCHANGED <<gets, shipment>>
           /\ \A f \in Events : row[f] = "stored" => row'[f] = "stored" /\ ts'[f] = ts[f]
<1> USE DEF TrackingInv, TypeOK, PostsInOrder, GoTo, posts, table
<1>1. CASE pickup(e) \/ transit(e) \/ deliver(e) \/ Refuse(e)
  BY <1>1 DEF pickup, transit, deliver, Receive, Refuse
<1>2. CASE InsertEvent(e)
  BY <1>2 DEF InsertEvent
<1>3. CASE Store(e) \/ Answer(e)
  BY <1>3 DEF Store, Answer
<1>4. CASE Reject(e) \/ AnswerUnheard(e) \/ Lose(e)
  BY <1>4 DEF Reject, AnswerUnheard, Lose
<1> QED
  BY <1>1, <1>2, <1>3, <1>4 DEF Post, Handle

\* The types of what a POST's step changes.
LEMMA PostTypes == ASSUME TrackingInv, NEW e \in Events, Post(e) PROVE TypeOK'
<1> DEFINE PostsTypeOK ==
      /\ pc \in [Events -> {"idle", "insert", "wait", "done"}]
      /\ code \in [Events -> {"none", "accepted", "bad_request", "lost"}]
      /\ row \in [Events -> {"none", "pending", "stored", "failed"}]
      /\ ts \in [Events -> 0..clock]
      /\ clock \in Nat
      /\ faults \in 0..MaxFaults
<1> USE DEF GoTo, posts, table, Fault
<1>1. UNCHANGED <<gets, shipment>>
  BY PostKeepsRows
<1>2. PostsTypeOK
  BY DEF TrackingInv, TypeOK
<1>3. ASSUME pickup(e) \/ transit(e) \/ deliver(e) \/ Refuse(e) PROVE PostsTypeOK'
  BY <1>2, <1>3 DEF pickup, transit, deliver, Receive, Refuse
<1>4. ASSUME InsertEvent(e) PROVE PostsTypeOK'
  <2>1. clock' \in Nat /\ clock' >= clock /\ ts' = [ts EXCEPT ![e] = clock']
    BY <1>2, <1>4 DEF InsertEvent
  <2>2. ts' \in [Events -> 0..clock']
    BY <1>2, <2>1
  <2> QED
    BY <1>2, <1>4, <2>1, <2>2 DEF InsertEvent
<1>5. ASSUME Store(e) \/ Answer(e) PROVE PostsTypeOK'
  BY <1>2, <1>5 DEF Store, Answer
<1>6. ASSUME Reject(e) \/ AnswerUnheard(e) \/ Lose(e) PROVE PostsTypeOK'
  BY <1>2, <1>6, TrackingConstantsOK DEF Reject, AnswerUnheard, Lose
<1>7. PostsTypeOK'
  BY <1>3, <1>4, <1>5, <1>6 DEF Post, Handle
<1> QED
  BY <1>1, <1>7 DEF TrackingInv, TypeOK, gets

\* A POST waits for its row, and Store adds one to the finitely many there are.
LEMMA PostsStep == ASSUME TrackingInv, NEW e \in Events, Post(e) PROVE PostsInOrder'
<1> USE DEF TrackingInv, TypeOK, PostsInOrder, GoTo, posts, table, Fault
<1>1. IsFiniteSet(AllStored')
  <2>1. CASE Store(e)
    <3>1. AllStored' = AllStored \union {e}
      BY <2>1 DEF Store, AllStored
    <3> QED
      BY <3>1, FS_AddElement
  <2>2. CASE ~Store(e)
    <3>1. AllStored' \subseteq AllStored
      BY <2>2 DEF Post, Handle, pickup, transit, deliver, Receive, Refuse, InsertEvent, Answer,
         Reject, AnswerUnheard, Lose, AllStored
    <3> QED
      BY <3>1, FS_Subset
  <2> QED
    BY <2>1, <2>2
<1> DEFINE InOrder ==
      \A f \in Events :
          /\ pc[f] \in {"idle", "insert"} => row[f] = "none" /\ code[f] = "none"
          /\ pc[f] = "wait" => row[f] # "none" /\ code[f] = "none"
          /\ faults = 0 =>
                row[f] # "failed" /\ (code[f] = "accepted" => row[f] = "stored")
<1>2. ASSUME pickup(e) \/ transit(e) \/ deliver(e) \/ Refuse(e) PROVE InOrder'
  BY <1>2 DEF pickup, transit, deliver, Receive, Refuse
<1>3. ASSUME InsertEvent(e) PROVE InOrder'
  BY <1>3 DEF InsertEvent
<1>4. ASSUME Store(e) \/ Answer(e) PROVE InOrder'
  BY <1>4 DEF Store, Answer
<1>5. ASSUME Reject(e) \/ AnswerUnheard(e) \/ Lose(e) PROVE InOrder'
  BY <1>5, TrackingConstantsOK DEF Reject, AnswerUnheard, Lose
<1> QED
  BY <1>1, <1>2, <1>3, <1>4, <1>5 DEF Post, Handle

\* What is known of answers is about stored rows, which no POST changes.
LEMMA PostKeepsAnswers ==
    ASSUME TrackingInv, NEW e \in Events, Post(e)
    PROVE  GetsInOrder' /\ NoStaleStatus' /\ StatusMovesOn' /\ NoHoles'
<1>1. /\ UNCHANGED <<of, tpc, read, status, torn, settled, before, shipment>>
      /\ \A f \in Events : row[f] = "stored" => row'[f] = "stored" /\ ts'[f] = ts[f]
  BY PostKeepsRows DEF gets
<1>2. \A t \in Trackers : \A f : RowFor(t, f) => RowFor(t, f)' /\ ts'[f] = ts[f]
  BY <1>1 DEF RowFor
<1>3. /\ \A t \in Trackers : read[t] # <<>> => ts'[Head(read[t])] = ts[Head(read[t])]
      /\ \A t \in Trackers : \A f \in settled[t] : ts'[f] = ts[f]
  BY <1>2 DEF TrackingInv, GetsInOrder
<1>4. GetsInOrder'
  BY <1>1, <1>2 DEF TrackingInv, GetsInOrder
<1>5. NoStaleStatus' /\ NoHoles'
  BY <1>1, <1>3 DEF TrackingInv, NoStaleStatus, NoHoles, Reported
<1>6. StatusMovesOn'
  BY <1>1, <1>3 DEF TrackingInv, StatusMovesOn, Reported
<1> QED
  BY <1>4, <1>5, <1>6

\* A GET that comes in notes what is stored and who has answered.
LEMMA TrackStep ==
    ASSUME TrackingInv, NEW t \in Trackers, track(t)
    PROVE  GetsInOrder' /\ NoStaleStatus' /\ StatusMovesOn' /\ NoHoles'
<1> USE DEF TrackingInv, TypeOK, track, posts, table
<1>1. ~Reported(t) /\ status'[t] = status[t]
  BY DEF GetsInOrder, Reported, Types
<1>2. GetsInOrder'
  BY DEF GetsInOrder, RowFor, Stored
<1>3. NoStaleStatus' /\ StatusMovesOn' /\ NoHoles'
  BY <1>1 DEF NoStaleStatus, StatusMovesOn, NoHoles, Reported
<1> QED
  BY <1>2, <1>3

\* A GET whose query fails reports nothing.
LEMMA FailsStep ==
    ASSUME TrackingInv, NEW t \in Trackers, GetEventsFails(t)
    PROVE  GetsInOrder' /\ NoStaleStatus' /\ StatusMovesOn' /\ NoHoles'
<1> USE DEF TrackingInv, TypeOK, GetEventsFails, posts, table
<1>1. ~Reported(t)' /\ tpc[t] = "read" /\ \A u \in Trackers : t \notin before[u]
  BY DEF GetsInOrder, Reported, Types
<1>2. GetsInOrder'
  BY DEF GetsInOrder, RowFor
<1>3. NoStaleStatus' /\ StatusMovesOn' /\ NoHoles'
  BY <1>1 DEF NoStaleStatus, StatusMovesOn, NoHoles, Reported
<1> QED
  BY <1>2, <1>3

\* The rows a GET answers with, all that LIMIT leaves or, torn, fewer.
Answers(t, rows) ==
    /\ FirstRows(Stored(of[t]), rows)
    /\ \/ t \in torn'
       \/ /\ rows = <<>> => Stored(of[t]) = {}
          /\ Len(rows) < Limit => Stored(of[t]) \subseteq ToSet(rows)
    /\ Report(t, rows)

\* GetEvents and GetEventsTorn answer so.
LEMMA RowsAnswered ==
    ASSUME TrackingInv, NEW t \in Trackers, GetEvents(t) \/ GetEventsTorn(t)
    PROVE  /\ \E rows : Answers(t, rows)
           /\ tpc[t] = "read"
           /\ UNCHANGED <<posts, table, of, settled, before>>
           /\ torn' = torn \/ torn' = torn \union {t}
           /\ faults' \in 0..MaxFaults
           /\ faults' = 0 => faults = 0
<1> DEFINE S == Stored(of[t])
<1>1. IsFiniteSet(S)
  <2>1. S \subseteq AllStored
    BY DEF Stored, AllStored
  <2> QED
    BY <2>1, FS_Subset DEF TrackingInv, PostsInOrder
<1>2. \A e \in S : ts[e] \in Nat
  BY DEF Stored, TrackingInv, TypeOK
<1> HIDE DEF S
<1>3. CASE GetEvents(t)
  <2>1. PICK q \in NewestFirst(S) : Report(t, Cut(q))
    BY <1>3 DEF GetEvents, S
  <2>2. /\ FirstRows(S, Cut(q))
        /\ Cut(q) = <<>> => S = {}
        /\ Len(Cut(q)) < Limit => S \subseteq ToSet(Cut(q))
    BY <1>1, <1>2, WholeAnswerRows
  <2>3. Answers(t, Cut(q))
    BY <2>1, <2>2 DEF Answers, S
  <2> QED
    BY <1>3, <2>3 DEF GetEvents, TrackingInv, TypeOK
<1>4. CASE GetEventsTorn(t)
  <2>1. PICK q \in NewestFirst(S) :
            \E n \in 0..(Len(Cut(q)) - 1) : Report(t, SubSeq(q, 1, n))
    BY <1>4 DEF GetEventsTorn, S
  <2>2. PICK n \in 0..(Len(Cut(q)) - 1) : Report(t, SubSeq(q, 1, n))
    BY <2>1
  <2>3. n \in 0..Len(Cut(q))
    <3>1. q \in Seq(S)
      BY <1>1, NewestFirstIsWhole
    <3>2. Len(Cut(q)) \in Nat
      BY <3>1, CutLength, LenProperties, TrackingConstantsOK
    <3> QED
      BY <3>2
  <2>4. FirstRows(S, SubSeq(q, 1, n))
    BY <1>1, <1>2, <2>3, AnswerRows
  <2>5. Answers(t, SubSeq(q, 1, n))
    BY <1>4, <2>2, <2>4 DEF Answers, GetEventsTorn, S
  <2> QED
    BY <1>4, <2>5, TrackingConstantsOK DEF GetEventsTorn, Fault, TrackingInv, TypeOK
<1> QED
  BY <1>3, <1>4

\* The newest row of an answer is no older than what was settled, nor than the
\* head of an answer that had been given: those rows were there to be read.
LEMMA AnswerStep ==
    ASSUME TrackingInv, NEW t \in Trackers, NEW rows, Answers(t, rows), tpc[t] = "read",
           UNCHANGED <<posts, table, of, settled, before>>,
           torn' = torn \/ torn' = torn \union {t}
    PROVE  GetsInOrder' /\ NoStaleStatus' /\ StatusMovesOn' /\ NoHoles'
<1> DEFINE S == Stored(of[t])
<1>1. /\ tpc' = [tpc EXCEPT ![t] = "done"]
      /\ read' = [read EXCEPT ![t] = rows]
      /\ \A u \in Trackers \ {t} : status'[u] = status[u]
  BY DEF Answers, Report, TrackingInv, TypeOK
<1>2. /\ rows # <<>> => Head(rows) \in S /\ \A e \in S : ts[Head(rows)] >= ts[e]
      /\ t \notin torn' => /\ rows = <<>> => S = {}
                           /\ Len(rows) < Limit => S \subseteq ToSet(rows)
  BY DEF Answers, FirstRows
<1>3. \A e \in S : RowFor(t, e)
  BY DEF Stored, RowFor
<1>4. settled[t] \subseteq S
  BY DEF TrackingInv, GetsInOrder, Stored, RowFor
<1>5. \A u \in before[t] :
          u \in Trackers /\ u # t /\ (of[u] = of[t] /\ read[u] # <<>> => Head(read[u]) \in S)
  BY DEF TrackingInv, TypeOK, GetsInOrder, Stored, RowFor
<1>6. \A u \in Trackers : t \notin before[u]
  BY DEF TrackingInv, GetsInOrder
<1> HIDE DEF S
<1> USE DEF posts, table
<1>7. GetsInOrder'
  <2>1. /\ \A u \in Trackers : read'[u] = IF u = t THEN rows ELSE read[u]
        /\ \A u \in Trackers : tpc'[u] = IF u = t THEN "done" ELSE tpc[u]
    BY <1>1 DEF TrackingInv, TypeOK
  <2>2. \A u \in Trackers : \A e : RowFor(u, e) => RowFor(u, e)'
    BY DEF RowFor
  <2>3. \A u \in Trackers : before[u] \subseteq Trackers
    BY DEF TrackingInv, TypeOK
  <2> QED
    BY <1>1, <1>2, <1>3, <2>1, <2>2, <2>3 DEF TrackingInv, GetsInOrder
<1>8. \A u \in Trackers \ {t} :
          read'[u] = read[u] /\ (Reported(u)' => Reported(u)) /\ (u \in torn' <=> u \in torn)
  BY <1>1 DEF TrackingInv, TypeOK, Reported
<1>9. read'[t] = rows
  BY <1>1 DEF TrackingInv, TypeOK
<1>10. NoStaleStatus'
  BY <1>2, <1>4, <1>8, <1>9 DEF TrackingInv, NoStaleStatus
<1>11. NoHoles'
  BY <1>2, <1>4, <1>8, <1>9 DEF TrackingInv, NoHoles
<1>12. StatusMovesOn'
  <2> SUFFICES ASSUME NEW v \in Trackers, NEW u \in Trackers, Reported(v)', Reported(u)',
                      u \in before[v], of[u] = of[v], {v, u} \intersect torn' = {},
                      read'[u] # <<>>
               PROVE  read'[v] # <<>> /\ ts[Head(read'[v])] >= ts[Head(read'[u])]
    BY DEF StatusMovesOn
  <2>1. u # t
    BY <1>6
  <2>2. CASE v = t
    <3>1. Head(read[u]) \in S
      BY <1>5, <1>8, <2>1, <2>2
    <3>2. rows # <<>>
      BY <1>2, <2>2, <3>1
    <3> QED
      BY <1>2, <1>8, <1>9, <2>1, <2>2, <3>1, <3>2
  <2>3. CASE v # t
    BY <1>8, <2>1, <2>3 DEF TrackingInv, StatusMovesOn
  <2> QED
    BY <2>2, <2>3
<1> QED
  BY <1>7, <1>10, <1>11, <1>12

\* Each step of a POST or a GET keeps all of it.
LEMMA TrackingInvStep == TrackingInv /\ [Next]_vars => TrackingInv'
<1> SUFFICES ASSUME TrackingInv, [Next]_vars PROVE TrackingInv'
  OBVIOUS
<1>1. ASSUME NEW e \in Events, Post(e) PROVE TrackingInv'
  BY <1>1, PostTypes, PostsStep, PostKeepsAnswers DEF TrackingInv
<1>2. ASSUME NEW t \in Trackers, track(t) PROVE TrackingInv'
  <2>1. TypeOK'
    BY <1>2 DEF track, TrackingInv, TypeOK, posts, table, Stored
  <2>2. PostsInOrder'
    BY <1>2 DEF track, TrackingInv, PostsInOrder, AllStored, posts, table
  <2> QED
    BY <1>2, <2>1, <2>2, TrackStep DEF TrackingInv
<1>3. ASSUME NEW t \in Trackers, GetEventsFails(t) PROVE TrackingInv'
  <2>1. faults' \in Nat /\ faults' # 0
    BY <1>3, TrackingConstantsOK DEF GetEventsFails, Fault, TrackingInv, TypeOK
  <2>2. TypeOK'
    BY <1>3, TrackingConstantsOK DEF GetEventsFails, Fault, TrackingInv, TypeOK, posts, table
  <2>3. PostsInOrder'
    BY <1>3, <2>1 DEF GetEventsFails, TrackingInv, PostsInOrder, AllStored, posts, table
  <2> QED
    BY <1>3, <2>2, <2>3, FailsStep DEF TrackingInv
<1>4. ASSUME NEW t \in Trackers, GetEvents(t) \/ GetEventsTorn(t) PROVE TrackingInv'
  <2>1. PICK rows : Answers(t, rows)
    BY <1>4, RowsAnswered
  <2>2. /\ tpc[t] = "read"
        /\ UNCHANGED <<posts, table, of, settled, before>>
        /\ torn' = torn \/ torn' = torn \union {t}
        /\ faults' \in 0..MaxFaults
        /\ faults' = 0 => faults = 0
    BY <1>4, RowsAnswered
  <2>3. rows \in Seq(Events) /\ Len(rows) <= Limit
    BY <2>1, EmptySeq, LenProperties, ElementOfSeq DEF Answers, FirstRows, Stored
  <2>4. rows # <<>> => TypeOf[Head(rows)] \in Types
    BY <2>1, TrackingConstantsOK DEF Answers, FirstRows, Stored
  <2>5. TypeOK'
    BY <2>1, <2>2, <2>3, <2>4 DEF Answers, Report, TrackingInv, TypeOK, posts, table
  <2>6. PostsInOrder'
    BY <2>2 DEF TrackingInv, PostsInOrder, AllStored, posts, table
  <2> QED
    BY <2>1, <2>2, <2>5, <2>6, AnswerStep DEF TrackingInv
<1>5. CASE Idle \/ UNCHANGED vars
  <2>1. UNCHANGED vars
    BY <1>5 DEF Idle
  <2> QED
    BY <2>1 DEF vars, posts, table, gets, TrackingInv, TypeOK, PostsInOrder, AllStored,
       GetsInOrder, RowFor, NoStaleStatus, StatusMovesOn, NoHoles, Reported
<1> QED
  BY <1>1, <1>2, <1>3, <1>4, <1>5 DEF Next, Post, Handle

\* In every behaviour of tracking-svc.
LEMMA TrackingInvHolds == Spec => []TrackingInv
BY InitInv, TrackingInvStep, PTL DEF Spec

-----------------------------------------------------------------------------
(* The theorems.                                                           *)

\* TypeOK of Tracking: a row's time is past, and no answer exceeds the limit.
THEOREM TypeCorrect == Spec => []TypeOK
BY TrackingInvHolds, PTL DEF TrackingInv

\* The status a GET reports is that of an event as new as all that had been
\* answered and stored when it came in.
THEOREM NoStatusIsStale == Spec => []NoStaleStatus
BY TrackingInvHolds, PTL DEF TrackingInv

\* The status of a later GET is never that of an older event.
THEOREM StatusAlwaysMovesOn == Spec => []StatusMovesOn
BY TrackingInvHolds, PTL DEF TrackingInv

\* Within the limit the history has no holes, and without failures every event
\* accepted is stored.
THEOREM HistoryIsAlwaysWhole == Spec => []HistoryIsWhole
<1>1. TrackingInv => HistoryIsWhole
  BY DEF TrackingInv, PostsInOrder, NoHoles, HistoryIsWhole
<1> QED
  BY TrackingInvHolds, <1>1, PTL
=============================================================================
