---------------------------- MODULE DlqCtlProofs ----------------------------
(***************************************************************************)
(* What dlqctl may do to the messages, for any number of messages,         *)
(* families, sessions and crashes, and any threshold and limit: it keeps   *)
(* the promise of DeadLetters, and so loses nothing but to an inspection.  *)
(*                                                                         *)
(* ToolInv is inductive: the types, the loop's bookkeeping, each copy in   *)
(* its family, finitely many deliveries, and every message accounted for.  *)
(* The promise counts copies, so most of the proof is about how often a    *)
(* copy is in a queue (Times) and with the sessions (Held), and about how  *)
(* a step of the broker's moves one copy from the one to the other.        *)
(***************************************************************************)
EXTENDS DlqCtl, FiniteSetTheorems, SequenceTheorems, TLAPS

-----------------------------------------------------------------------------
(* How often a copy is in a queue.                                         *)

LEMMA TimesIsNatural ==
    ASSUME NEW S, NEW q \in Seq(S), NEW c
    PROVE  /\ IsFiniteSet(Positions(q, c))
           /\ Positions(q, c) \subseteq 1..Len(q)
           /\ Times(q, c) \in Nat
<1>1. Len(q) \in Nat /\ DOMAIN q = 1..Len(q)
  BY LenProperties
<1>2. IsFiniteSet(1..Len(q))
  BY <1>1, FS_Interval
<1>3. Positions(q, c) \subseteq 1..Len(q)
  BY <1>1 DEF Positions
<1>4. IsFiniteSet(Positions(q, c))
  BY <1>2, <1>3, FS_Subset
<1> QED
  BY <1>3, <1>4, FS_CardinalityType DEF Times

LEMMA TimesOfEmpty ==
    ASSUME NEW c
    PROVE  Positions(<<>>, c) = {} /\ Times(<<>>, c) = 0
<1>1. Positions(<<>>, c) = {}
  BY DEF Positions
<1> QED
  BY <1>1, FS_EmptySet DEF Times

LEMMA PositionsOfAppend ==
    ASSUME NEW S, NEW q \in Seq(S), NEW d \in S, NEW c
    PROVE  /\ Len(q) + 1 \notin Positions(q, c)
           /\ Positions(Append(q, d), c)
                = IF c = d THEN Positions(q, c) \union {Len(q) + 1} ELSE Positions(q, c)
<1>1. /\ Len(q) \in Nat /\ DOMAIN q = 1..Len(q)
      /\ DOMAIN Append(q, d) = 1..Len(q) + 1
      /\ \A i \in 1..Len(q) : Append(q, d)[i] = q[i]
      /\ Append(q, d)[Len(q) + 1] = d
  <2>1. Append(q, d) \in Seq(S) /\ Len(Append(q, d)) = Len(q) + 1
    BY AppendProperties
  <2> QED
    BY <2>1, AppendProperties, LenProperties
<1> DEFINE n == Len(q)
<1>2. 1..n + 1 = 1..n \union {n + 1} /\ n + 1 \notin 1..n
  BY <1>1
<1> QED
  BY <1>1, <1>2 DEF Positions

LEMMA TimesOfAppend ==
    ASSUME NEW S, NEW q \in Seq(S), NEW d \in S, NEW c
    PROVE  Times(Append(q, d), c) = IF c = d THEN Times(q, c) + 1 ELSE Times(q, c)
BY TimesIsNatural, PositionsOfAppend, FS_AddElement DEF Times

\* The last one but its last element.
LEMMA FrontOfSeq ==
    ASSUME NEW S, NEW q \in Seq(S), q # <<>>
    PROVE  /\ Front(q) \in Seq(S) /\ Last(q) \in S
           /\ q = Append(Front(q), Last(q))
           /\ Len(Front(q)) + 1 = Len(q)
<1>1. PICK p \in Seq(S), d \in S : q = Append(p, d)
  BY SequenceEmptyOrAppend
<1>2. Len(q) = Len(p) + 1 /\ q[Len(q)] = d /\ Len(p) \in Nat
  BY <1>1, AppendProperties, LenProperties
<1>3. SubSeq(q, 1, Len(p)) = p
  <2>1. \A i \in 1..Len(p) : q[i] = p[i] /\ q[i] \in S
    BY <1>1, AppendProperties, ElementOfSeq
  <2>2. SubSeq(q, 1, Len(p)) \in Seq(S) /\ Len(SubSeq(q, 1, Len(p))) = Len(p)
    BY <1>2, <2>1, SubSeqProperties
  <2>3. \A i \in 1..Len(p) : SubSeq(q, 1, Len(p))[i] = p[i]
    BY <1>2, <2>1, SubSeqProperties
  <2> QED
    BY <2>2, <2>3, SeqEqual
<1>4. Len(q) - 1 = Len(p)
  BY <1>2
<1> QED
  BY <1>1, <1>2, <1>3, <1>4 DEF Front, Last

LEMMA TimesOfFront ==
    ASSUME NEW S, NEW q \in Seq(S), q # <<>>, NEW c
    PROVE  /\ Times(q, c) = IF c = Last(q) THEN Times(Front(q), c) + 1 ELSE Times(Front(q), c)
           /\ Len(q) \notin Positions(Front(q), c)
           /\ Positions(q, c) = IF c = Last(q) THEN Positions(Front(q), c) \union {Len(q)}
                                ELSE Positions(Front(q), c)
<1> DEFINE p == Front(q)
           d == Last(q)
<1>1. p \in Seq(S) /\ d \in S /\ q = Append(p, d) /\ Len(p) + 1 = Len(q)
  BY FrontOfSeq
<1> HIDE DEF p, d
<1>2. Times(Append(p, d), c) = IF c = d THEN Times(p, c) + 1 ELSE Times(p, c)
  BY <1>1, TimesOfAppend
<1>3. /\ Len(p) + 1 \notin Positions(p, c)
      /\ Positions(Append(p, d), c)
           = IF c = d THEN Positions(p, c) \union {Len(p) + 1} ELSE Positions(p, c)
  BY <1>1, PositionsOfAppend
<1>4. q = Append(p, d) /\ Len(q) = Len(p) + 1
  BY <1>1
<1> QED
  BY <1>2, <1>3, <1>4 DEF p, d

LEMMA TimesOfConcat ==
    ASSUME NEW S, NEW p \in Seq(S), NEW q \in Seq(S), NEW c
    PROVE  Times(p \o q, c) = Times(p, c) + Times(q, c)
<1> DEFINE n == Len(p)
           m == Len(q)
           moved == {i \in n + 1..n + m : (p \o q)[i] = c}
           shift == [i \in Positions(q, c) |-> i + n]
<1>1. /\ n \in Nat /\ m \in Nat /\ DOMAIN p = 1..n /\ DOMAIN q = 1..m
      /\ DOMAIN (p \o q) = 1..n + m
      /\ \A i \in 1..n + m : (p \o q)[i] = IF i <= n THEN p[i] ELSE q[i - n]
  <2>1. p \o q \in Seq(S) /\ Len(p \o q) = n + m
    BY ConcatProperties
  <2> QED
    BY <2>1, ConcatProperties, LenProperties
<1> HIDE DEF n, m
<1>2. Positions(p \o q, c) = Positions(p, c) \union moved /\ Positions(p, c) \intersect moved = {}
  BY <1>1 DEF Positions
<1>3. shift \in Bijection(Positions(q, c), moved)
  <2>1. \A i \in Positions(q, c) : i \in 1..m /\ q[i] = c /\ shift[i] = i + n
    BY <1>1 DEF Positions
  <2>2. shift \in [Positions(q, c) -> moved]
    BY <1>1, <2>1
  <2>3. \A i, j \in Positions(q, c) : shift[i] = shift[j] => i = j
    BY <1>1, <2>1
  <2>4. ASSUME NEW k \in moved PROVE \E i \in Positions(q, c) : shift[i] = k
    <3>1. k \in Int /\ k - n \in 1..m /\ q[k - n] = c
      BY <1>1
    <3>2. k - n \in Positions(q, c)
      BY <1>1, <3>1 DEF Positions
    <3> QED
      BY <1>1, <2>1, <3>1, <3>2
  <2> HIDE DEF shift, moved
  <2> QED
    BY <2>2, <2>3, <2>4 DEF Bijection, Injection, Surjection, IsInjective
<1>4. IsFiniteSet(moved) /\ Cardinality(moved) = Times(q, c)
  <2>1. IsFiniteSet(Positions(q, c)) /\ ExistsBijection(Positions(q, c), moved)
    BY <1>3, TimesIsNatural DEF ExistsBijection
  <2> HIDE DEF moved
  <2> QED
    BY <2>1, FS_Bijection DEF Times
<1>5. /\ IsFiniteSet(Positions(p, c)) /\ Times(p, c) \in Nat /\ Times(q, c) \in Nat
  BY TimesIsNatural
<1> HIDE DEF moved
<1> QED
  <2> DEFINE P == Positions(p, c)
  <2>1. /\ IsFiniteSet(P) /\ IsFiniteSet(moved) /\ P \intersect moved = {}
        /\ Cardinality(P) \in Nat /\ Cardinality(moved) \in Nat
    BY <1>2, <1>4, <1>5 DEF Times
  <2>2. Cardinality(P \union moved) = Cardinality(P) + Cardinality(moved)
    <3> HIDE DEF P
    <3>1. Cardinality(P \union moved)
            = Cardinality(P) + Cardinality(moved) - Cardinality(P \intersect moved)
      BY <2>1, FS_Union
    <3>2. Cardinality(P \intersect moved) = 0
      BY <2>1, FS_EmptySet
    <3> QED
      BY <2>1, <3>1, <3>2
  <2> QED
    BY <1>2, <1>4, <2>2 DEF Times

LEMMA TimesOfTail ==
    ASSUME NEW S, NEW q \in Seq(S), q # <<>>, NEW c
    PROVE  /\ Head(q) \in S /\ Tail(q) \in Seq(S)
           /\ Times(q, c) = IF c = Head(q) THEN Times(Tail(q), c) + 1 ELSE Times(Tail(q), c)
<1>1. Head(q) \in S /\ Tail(q) \in Seq(S) /\ Len(q) \in Nat \ {0}
  BY HeadTailProperties, EmptySeq
<1>2. q = <<Head(q)>> \o Tail(q)
  <2>1. 1 \in 1..Len(q) /\ Len(q) \in 1..Len(q)
    BY <1>1
  <2>2. SubSeq(q, 1, Len(q)) = <<q[1]>> \o SubSeq(q, 2, Len(q))
    BY <2>1, SubSeqRecursiveFirst
  <2>3. Head(q) = q[1] /\ Tail(q) = SubSeq(q, 2, Len(q))
    BY TailIsSubSeq
  <2> QED
    BY <2>2, <2>3, SubSeqFull
<1> DEFINE d == Head(q)
           r == Tail(q)
           one == <<d>>
<1>3. one = Append(<<>>, d) /\ <<>> \in Seq(S) /\ one \in Seq(S)
  BY <1>1
<1>4. /\ d \in S /\ r \in Seq(S) /\ q = one \o r
  BY <1>1, <1>2
<1> HIDE DEF d, r, one
<1>5. Times(one, c) = IF c = d THEN 1 ELSE 0
  <2>1. PICK e \in Seq(S) : e = <<>>
    BY <1>3
  <2>2. one = Append(e, d)
    BY <1>3, <2>1
  <2>3. Times(Append(e, d), c) = IF c = d THEN Times(e, c) + 1 ELSE Times(e, c)
    BY <1>4, TimesOfAppend
  <2>4. Times(e, c) = 0
    BY <2>1, TimesOfEmpty
  <2> QED
    BY <2>2, <2>3, <2>4
<1>6. Times(q, c) = Times(one, c) + Times(r, c)
  BY <1>3, <1>4, TimesOfConcat
<1>7. Times(r, c) \in Nat
  BY <1>4, TimesIsNatural
<1>8. Times(q, c) = IF c = d THEN Times(r, c) + 1 ELSE Times(r, c)
  BY <1>5, <1>6, <1>7
<1> QED
  BY <1>4, <1>8 DEF d, r

-----------------------------------------------------------------------------
(* The tool's loop, and the families its queues keep to.                   *)

CopiesOf(f) == {c \in Copies : FamilyOf[c.id] = f}

\* A copy stays within its family's queues, delivered ones included.
Home ==
    \A f \in Families :
        /\ main[f] \in Seq(CopiesOf(f))
        /\ dlq[f] \in Seq(CopiesOf(f))
        /\ poison[f] \in Seq(CopiesOf(f))
        /\ \A s \in Sessions : unacked[s][f] \in Seq(CopiesOf(f))

\* Only a running command has work, which its quota still allows, and what it
\* publishes or acknowledges is a delivery of the queue it is at.
InLoop(s) ==
    /\ op[s] = "idle" => pc[s] = "get" /\ todo[s] = <<>> /\ count[s] = 0
    /\ pc[s] # "get" => op[s] # "idle" /\ count[s] < Quota(s)
    /\ pc[s] \in {"publish", "ack"} =>
          /\ op[s] \in {"replay", "dryrun"}
          /\ todo[s] # <<>>
          /\ unacked[s][Current(s)] # <<>>

Loop == \A s \in Sessions : InLoop(s)

Sorted == TypeOK /\ Home /\ Loop

LEMMA SubSequences ==
    ASSUME NEW S, NEW T, T \subseteq S, NEW q \in Seq(T)
    PROVE  q \in Seq(S)
BY SeqMonotonic

LEMMA OneMoreDeath ==
    ASSUME NEW f, NEW c \in CopiesOf(f), c.deaths < MaxDeaths
    PROVE  [c EXCEPT !.deaths = @ + 1] \in CopiesOf(f)
BY DlqCtlConstantsOK DEF CopiesOf, Copies

\* The session at work on a copy.
LEMMA AtWork ==
    ASSUME Sorted, NEW s \in Sessions, pc[s] \in {"publish", "ack"}
    PROVE  /\ Current(s) \in Families
           /\ unacked[s][Current(s)] \in Seq(CopiesOf(Current(s)))
           /\ unacked[s][Current(s)] # <<>>
           /\ InHand(s) \in CopiesOf(Current(s))
           /\ Front(unacked[s][Current(s)]) \in Seq(CopiesOf(Current(s)))
<1>1. todo[s] \in Seq(Families) /\ todo[s] # <<>> /\ unacked[s][Current(s)] # <<>>
  BY DEF Sorted, TypeOK, Loop, InLoop
<1>2. Current(s) \in Families
  BY <1>1, HeadTailProperties DEF Current
<1>3. unacked[s][Current(s)] \in Seq(CopiesOf(Current(s)))
  BY <1>2 DEF Sorted, Home
<1>4. InHand(s) \in CopiesOf(Current(s)) /\ Front(unacked[s][Current(s)]) \in Seq(CopiesOf(Current(s)))
  BY <1>1, <1>3, FrontOfSeq DEF InHand
<1> QED
  BY <1>1, <1>2, <1>3, <1>4

\* The broker's maps, whatever is in them.
Shaped ==
    /\ main \in [Families -> Seq(Copies)]
    /\ dlq \in [Families -> Seq(Copies)]
    /\ poison \in [Families -> Seq(Copies)]
    /\ unacked \in [Sessions -> [Families -> Seq(Copies)]]

LEMMA QueuesStep ==
    ASSUME Sorted, [Next]_vars
    PROVE  (Shaped /\ Home)'
<1> USE DEF Sorted, TypeOK, Home, Shaped
<1>0. \A f : CopiesOf(f) \subseteq Copies
  BY DEF CopiesOf
<1>1. ASSUME NEW f \in Families, main[f] # <<>>
      PROVE  Head(main[f]) \in CopiesOf(f) /\ Tail(main[f]) \in Seq(CopiesOf(f)) \cap Seq(Copies)
  <2>1. Head(main[f]) \in CopiesOf(f) /\ Tail(main[f]) \in Seq(CopiesOf(f))
    BY <1>1, HeadTailProperties
  <2> QED
    BY <1>0, <2>1, SubSequences
<1>2. ASSUME NEW f \in Families, dlq[f] # <<>>
      PROVE  Head(dlq[f]) \in CopiesOf(f) /\ Tail(dlq[f]) \in Seq(CopiesOf(f)) \cap Seq(Copies)
  <2>1. Head(dlq[f]) \in CopiesOf(f) /\ Tail(dlq[f]) \in Seq(CopiesOf(f))
    BY <1>2, HeadTailProperties
  <2> QED
    BY <1>0, <2>1, SubSequences
<1>3. ASSUME NEW f \in Families, NEW q \in Seq(CopiesOf(f)), NEW c \in CopiesOf(f)
      PROVE  Append(q, c) \in Seq(CopiesOf(f)) \cap Seq(Copies)
  <2>1. Append(q, c) \in Seq(CopiesOf(f))
    BY AppendProperties
  <2> QED
    BY <1>0, <2>1, SubSequences
<1>4. ASSUME NEW f \in Families, Consume(f) PROVE (Shaped /\ Home)'
  BY <1>1, <1>4 DEF Consume
<1>5. ASSUME NEW f \in Families, Reject(f) PROVE (Shaped /\ Home)'
  <2> DEFINE c == Head(main[f])
             d == [c EXCEPT !.deaths = @ + 1]
  <2>1. /\ main[f] # <<>> /\ c.deaths < MaxDeaths
        /\ main' = [main EXCEPT ![f] = Tail(@)]
        /\ dlq' = [dlq EXCEPT ![f] = Append(@, d)]
        /\ UNCHANGED <<poison, unacked>>
    BY <1>5 DEF Reject
  <2>2. d \in CopiesOf(f)
    BY <1>1, <2>1, OneMoreDeath
  <2> HIDE DEF d
  <2>3. Append(dlq[f], d) \in Seq(CopiesOf(f)) \cap Seq(Copies)
    BY <1>3, <2>2
  <2>4. Tail(main[f]) \in Seq(CopiesOf(f)) \cap Seq(Copies)
    BY <1>1, <2>1
  <2> QED
    BY <2>1, <2>3, <2>4
<1>6. ASSUME NEW s \in Sessions, Get(s) PROVE (Shaped /\ Home)'
  <2> DEFINE f == Current(s)
  <2>1. todo[s] \in Seq(Families) /\ todo[s] # <<>> /\ dlq[f] # <<>>
    BY <1>6 DEF Get
  <2>2. f \in Families
    BY <2>1, HeadTailProperties DEF Current
  <2>3. /\ dlq' = [dlq EXCEPT ![f] = Tail(@)] /\ UNCHANGED <<main, poison>>
        /\ \/ UNCHANGED unacked
           \/ unacked' = [unacked EXCEPT ![s][f] = Append(@, Head(dlq[f]))]
    BY <1>6 DEF Get
  <2> HIDE DEF f
  <2>4. Head(dlq[f]) \in CopiesOf(f) /\ Tail(dlq[f]) \in Seq(CopiesOf(f)) \cap Seq(Copies)
    BY <1>2, <2>1, <2>2
  <2> DEFINE q == Append(unacked[s][f], Head(dlq[f]))
  <2>5. q \in Seq(CopiesOf(f)) \cap Seq(Copies)
    BY <1>3, <2>2, <2>4
  <2>6. UNCHANGED unacked \/ unacked' = [unacked EXCEPT ![s][f] = q]
    BY <2>3
  <2> HIDE DEF q
  <2>7. (\A g \in Families : dlq[g] \in Seq(CopiesOf(g)))' /\ (dlq \in [Families -> Seq(Copies)])'
    BY <2>2, <2>3, <2>4
  <2>8. /\ (unacked \in [Sessions -> [Families -> Seq(Copies)]])'
        /\ (\A r \in Sessions, g \in Families : unacked[r][g] \in Seq(CopiesOf(g)))'
    <3>1. CASE UNCHANGED unacked
      BY <3>1
    <3>2. CASE unacked' = [unacked EXCEPT ![s][f] = q]
      <4>1. unacked' = [unacked EXCEPT ![s] = [unacked[s] EXCEPT ![f] = q]]
        BY <2>2, <3>2
      <4> DEFINE row == [unacked[s] EXCEPT ![f] = q]
      <4>2. row \in [Families -> Seq(Copies)] /\ \A g \in Families : row[g] \in Seq(CopiesOf(g))
        BY <2>2, <2>5
      <4>3. unacked' = [unacked EXCEPT ![s] = row]
        BY <4>1
      <4> HIDE DEF row
      <4> QED
        BY <4>2, <4>3
    <3> QED
      BY <2>6, <3>1, <3>2
  <2> QED
    BY <2>3, <2>7, <2>8
<1>7. ASSUME NEW s \in Sessions, Quarantine(s) \/ Replay(s) PROVE (Shaped /\ Home)'
  <2> DEFINE f == Current(s)
  <2>1. f \in Families /\ InHand(s) \in CopiesOf(f)
    BY <1>7, AtWork DEF Quarantine, Replay
  <2>2. /\ UNCHANGED <<dlq, unacked>>
        /\ \/ main' = [main EXCEPT ![f] = Append(@, InHand(s))] /\ UNCHANGED poison
           \/ poison' = [poison EXCEPT ![f] = Append(@, InHand(s))] /\ UNCHANGED main
    BY <1>7 DEF Quarantine, Replay
  <2> HIDE DEF f
  <2>3. /\ Append(main[f], InHand(s)) \in Seq(CopiesOf(f)) \cap Seq(Copies)
        /\ Append(poison[f], InHand(s)) \in Seq(CopiesOf(f)) \cap Seq(Copies)
    BY <1>3, <2>1
  <2> QED
    BY <2>1, <2>2, <2>3
<1>8. ASSUME NEW s \in Sessions, Ack(s) PROVE (Shaped /\ Home)'
  <2> DEFINE f == Current(s)
             q == Front(unacked[s][f])
  <2>1. f \in Families /\ q \in Seq(CopiesOf(f))
    BY <1>8, AtWork DEF Ack
  <2>2. unacked' = [unacked EXCEPT ![s][f] = q] /\ UNCHANGED <<main, dlq, poison>>
    BY <1>8 DEF Ack, queues
  <2> HIDE DEF f, q
  <2>3. q \in Seq(Copies)
    BY <1>0, <2>1, SubSequences
  <2> QED
    BY <2>1, <2>2, <2>3
<1>9. ASSUME NEW s \in Sessions, Disconnect(s) PROVE (Shaped /\ Home)'
  <2>1. ASSUME NEW f \in Families
        PROVE  unacked[s][f] \o dlq[f] \in Seq(CopiesOf(f)) \cap Seq(Copies)
    <3>1. unacked[s][f] \o dlq[f] \in Seq(CopiesOf(f))
      BY ConcatProperties
    <3> QED
      BY <1>0, <3>1, SubSequences
  <2>2. \A S : <<>> \in Seq(S)
    BY EmptySeq
  <2>3. /\ dlq' = [f \in Families |-> unacked[s][f] \o dlq[f]]
        /\ unacked' = [unacked EXCEPT ![s] = [f \in Families |-> <<>>]]
        /\ UNCHANGED <<main, poison>>
    BY <1>9 DEF Disconnect
  <2> QED
    BY <2>1, <2>2, <2>3
<1>10. CASE UNCHANGED <<queues, unacked>>
  BY <1>10 DEF queues
<1> QED
  BY <1>4, <1>5, <1>6, <1>7, <1>8, <1>9, <1>10
     DEF Next, Work, Start, NextQueue, DryRun, Echo, Raise, Exit, Die, vars

\* The rest of TypeOK.
Plain ==
    /\ {processed, inspected} \subseteq SUBSET Messages
    /\ op \in [Sessions -> Commands \union {"idle"}]
    /\ pc \in [Sessions -> {"get", "print", "raise", "publish", "ack"}]
    /\ todo \in [Sessions -> Seq(Families)]
    /\ count \in [Sessions -> Nat]
    /\ \A s \in Sessions : count[s] <= Quota(s)
    /\ crashes \in 0..MaxCrashes

LEMMA LoopStep ==
    ASSUME Sorted, [Next]_vars
    PROVE  (TypeOK /\ Loop)'
<1> USE DEF Sorted
<1>0. Shaped'
  BY QueuesStep
<1>a. {Limit, MaxCrashes} \subseteq Nat /\ "idle" \notin Commands /\ DlqOrder \in Seq(Families)
  BY DlqCtlConstantsOK
<1>b. ASSUME NEW r \in Sessions, op'[r] = op[r], pc'[r] = pc[r], todo'[r] = todo[r],
             unacked'[r] = unacked[r], count'[r] = count[r]
      PROVE  InLoop(r)'
  BY <1>b DEF Loop, Current, Quota, InLoop
<1>c. (\A s \in Sessions : InLoop(s)') => Loop'
  BY DEF Loop, InLoop
<1>1. ASSUME NEW f \in Families, Consume(f) PROVE (Plain /\ Loop)'
  <2>1. Head(main[f]) \in Copies
    BY <1>1, HeadTailProperties DEF Consume, TypeOK
  <2>2. Plain'
    BY <1>1, <2>1 DEF Consume, tool, Copies, TypeOK, Quota, Plain
  <2> QED
    BY <1>1, <1>b, <1>c, <2>2 DEF Consume, tool
<1>2. ASSUME NEW f \in Families, Reject(f) PROVE (Plain /\ Loop)'
  <2>1. Plain'
    BY <1>2 DEF Reject, tool, TypeOK, Quota, Plain
  <2> QED
    BY <1>2, <1>b, <1>c, <2>1 DEF Reject, tool
<1>3. ASSUME NEW s \in Sessions, Start(s) PROVE (Plain /\ Loop)'
  <2>1. PICK c \in Commands, q \in Seq(Families) :
           op' = [op EXCEPT ![s] = c] /\ todo' = [todo EXCEPT ![s] = q]
    <3>1. \A f \in Families : <<f>> \in Seq(Families)
      OBVIOUS
    <3> QED
      BY <1>3, <1>a, <3>1 DEF Start
  <2>2. pc[s] = "get" /\ count[s] = 0 /\ UNCHANGED <<unacked, processed, inspected, pc, count, crashes>>
    BY <1>3 DEF Start, Loop, InLoop
  <2>3. Plain'
    BY <2>1, <2>2, <1>a DEF TypeOK, Quota, Plain
  <2>4. InLoop(s)'
    BY <2>1, <2>2, <1>a DEF TypeOK, InLoop
  <2>5. \A r \in Sessions \ {s} : InLoop(r)'
    BY <2>1, <2>2, <1>b DEF TypeOK
  <2> QED
    BY <1>c, <2>3, <2>4, <2>5
<1>4. ASSUME NEW s \in Sessions, Get(s) PROVE (Plain /\ Loop)'
  <2>1. /\ todo[s] # <<>> /\ count[s] < Quota(s) /\ dlq[Current(s)] # <<>>
        /\ pc[s] = "get" /\ UNCHANGED <<processed, op, todo, count, crashes>>
    BY <1>4 DEF Get
  <2>2. Current(s) \in Families
    BY <2>1, HeadTailProperties DEF Current, TypeOK
  <2>3. Head(dlq[Current(s)]) \in Copies
    BY <2>1, <2>2, HeadTailProperties DEF TypeOK
  <2>4. CASE AutoAck(s)
    <3>1. PICK p \in {"print", "raise"} :
             /\ inspected' = inspected \union {Head(dlq[Current(s)]).id}
             /\ pc' = [pc EXCEPT ![s] = p] /\ UNCHANGED unacked
      BY <1>4, <2>4 DEF Get
    <3>2. Plain'
      <4>1. Head(dlq[Current(s)]).id \in Messages
        BY <2>3 DEF Copies
      <4> QED
        BY <2>1, <3>1, <4>1 DEF TypeOK, Quota, Plain
    <3>3. InLoop(s)'
      BY <2>1, <2>4, <3>1, <1>a DEF TypeOK, AutoAck, Quota, InLoop
    <3>4. \A r \in Sessions \ {s} : InLoop(r)'
      BY <2>1, <3>1, <1>b DEF TypeOK
    <3> QED
      BY <1>c, <3>2, <3>3, <3>4
  <2>5. CASE ~AutoAck(s)
    <3> DEFINE f == Current(s)
               q == Append(unacked[s][f], Head(dlq[f]))
    <3>1. /\ unacked' = [unacked EXCEPT ![s][f] = q] /\ UNCHANGED inspected
          /\ pc' = [pc EXCEPT ![s] = "publish"]
      BY <1>4, <2>5 DEF Get
    <3>2. Plain'
      BY <2>1, <3>1 DEF TypeOK, Quota, Plain
    <3>3. unacked'[s][f] # <<>>
      <4>1. q # <<>>
        <5>1. unacked[s][f] \in Seq(Copies) /\ Head(dlq[f]) \in Copies
          BY <2>2, <2>3 DEF TypeOK
        <5> HIDE DEF f
        <5> QED
          BY <5>1, AppendProperties
      <4> HIDE DEF q, f
      <4> QED
        BY <2>2, <3>1, <4>1 DEF TypeOK, f
    <3>4. op[s] \in {"replay", "dryrun"}
      BY <2>1, <2>5, DlqCtlConstantsOK DEF TypeOK, AutoAck, Loop, InLoop
    <3>5. InLoop(s)'
      <4>1. Current(s)' = f
        BY <2>1 DEF Current
      <4> HIDE DEF f
      <4> QED
        BY <2>1, <3>1, <3>3, <3>4, <4>1, <1>a DEF TypeOK, Quota, InLoop
    <3>6. \A r \in Sessions \ {s} : InLoop(r)'
      BY <2>1, <3>1, <1>b DEF TypeOK
    <3> QED
      BY <1>c, <3>2, <3>5, <3>6
  <2> QED
    BY <2>4, <2>5
<1>5. ASSUME NEW s \in Sessions, NextQueue(s) PROVE (Plain /\ Loop)'
  <2>1. /\ pc[s] = "get" /\ todo[s] # <<>> /\ todo' = [todo EXCEPT ![s] = Tail(@)]
        /\ count' = [count EXCEPT ![s] = 0]
        /\ UNCHANGED <<unacked, processed, inspected, op, pc, crashes>>
    BY <1>5 DEF NextQueue
  <2>2. Tail(todo[s]) \in Seq(Families)
    BY <2>1, HeadTailProperties DEF TypeOK
  <2>3. Plain'
    BY <2>1, <2>2, <1>a DEF TypeOK, Quota, Plain
  <2>4. op[s] # "idle"
    BY <2>1 DEF Loop, InLoop
  <2>5. InLoop(s)'
    BY <2>1, <2>4 DEF TypeOK, InLoop
  <2>6. \A r \in Sessions \ {s} : InLoop(r)'
    BY <2>1, <1>b DEF TypeOK
  <2> QED
    BY <1>c, <2>3, <2>5, <2>6
<1>6. ASSUME NEW s \in Sessions, Quarantine(s) \/ Replay(s) PROVE (Plain /\ Loop)'
  <2>1. /\ pc[s] = "publish" /\ pc' = [pc EXCEPT ![s] = "ack"]
        /\ UNCHANGED <<unacked, processed, inspected, op, todo, count, crashes>>
    BY <1>6 DEF Quarantine, Replay
  <2>2. Plain'
    BY <2>1 DEF TypeOK, Quota, Plain
  <2>3. InLoop(s)'
    BY <2>1 DEF TypeOK, Loop, Current, Quota, InLoop
  <2>4. \A r \in Sessions \ {s} : InLoop(r)'
    BY <2>1, <1>b DEF TypeOK
  <2> QED
    BY <1>c, <2>2, <2>3, <2>4
<1>7. ASSUME NEW s \in Sessions, DryRun(s) PROVE (Plain /\ Loop)'
  <2>1. InHand(s).id \in Messages
    BY <1>7, AtWork DEF DryRun, CopiesOf, Copies
  <2>2. /\ pc[s] = "publish" /\ op[s] = "dryrun" /\ UNCHANGED <<unacked, processed, op, todo, crashes>>
        /\ \/ /\ inspected' = inspected \union {InHand(s).id}
              /\ pc' = [pc EXCEPT ![s] = "ack"] /\ UNCHANGED count
           \/ /\ pc' = [pc EXCEPT ![s] = "get"] /\ UNCHANGED inspected
              /\ count' = [count EXCEPT ![s] = @ + 1]
    BY <1>7 DEF DryRun
  <2>3. count[s] < Quota(s) /\ count[s] \in Nat /\ Quota(s) \in Nat /\ op[s] # "idle"
    BY <2>2, <1>a DEF Loop, TypeOK, Quota, InLoop
  <2>4. Plain'
    <3>1. CASE pc'[s] = "ack"
      BY <2>1, <2>2, <3>1, <1>a DEF TypeOK, Quota, Plain
    <3>2. CASE pc'[s] = "get"
      <4>1. /\ pc' = [pc EXCEPT ![s] = "get"] /\ UNCHANGED inspected
            /\ count' = [count EXCEPT ![s] = @ + 1]
        BY <2>2, <3>2 DEF TypeOK
      <4>2. count'[s] <= Quota(s)'
        BY <2>2, <2>3, <4>1 DEF TypeOK, Quota
      <4>3. \A r \in Sessions \ {s} : count'[r] <= Quota(r)'
        BY <2>2, <4>1 DEF TypeOK, Quota
      <4> QED
        BY <2>2, <4>1, <4>2, <4>3 DEF TypeOK, Plain
    <3> QED
      BY <2>2, <3>1, <3>2 DEF TypeOK
  <2>5. InLoop(s)'
    BY <2>2, <2>3 DEF TypeOK, Loop, Current, Quota, InLoop
  <2>6. \A r \in Sessions \ {s} : InLoop(r)'
    BY <2>2, <1>b DEF TypeOK
  <2> QED
    BY <1>c, <2>4, <2>5, <2>6
<1>8. ASSUME NEW s \in Sessions, Ack(s) PROVE (Plain /\ Loop)'
  <2>1. /\ pc[s] = "ack" /\ count' = [count EXCEPT ![s] = @ + 1] /\ pc' = [pc EXCEPT ![s] = "get"]
        /\ UNCHANGED <<processed, inspected, op, todo, crashes>>
        /\ \A r \in Sessions \ {s} : unacked'[r] = unacked[r]
    BY <1>8 DEF Ack, TypeOK
  <2>2. count[s] < Quota(s) /\ count[s] \in Nat /\ Quota(s) \in Nat /\ op[s] # "idle"
    BY <2>1, <1>a DEF Loop, TypeOK, Quota, InLoop
  <2>3. Plain'
    <3>1. count' \in [Sessions -> Nat] /\ count'[s] = count[s] + 1
          /\ \A r \in Sessions \ {s} : count'[r] = count[r]
      BY <2>1 DEF TypeOK
    <3>2. \A r \in Sessions : Quota(r)' = Quota(r)
      BY <2>1 DEF Quota
    <3>3. count'[s] <= Quota(s)'
      BY <2>2, <3>1, <3>2
    <3>4. \A r \in Sessions \ {s} : count'[r] <= Quota(r)'
      BY <3>1, <3>2 DEF TypeOK
    <3> QED
      BY <2>1, <3>1, <3>3, <3>4 DEF TypeOK, Plain
  <2>4. InLoop(s)'
    BY <2>1, <2>2 DEF TypeOK, InLoop
  <2>5. \A r \in Sessions \ {s} : InLoop(r)'
    BY <2>1, <1>b DEF TypeOK
  <2> QED
    BY <1>c, <2>3, <2>4, <2>5
<1>8a. ASSUME NEW s \in Sessions, Echo(s) PROVE (Plain /\ Loop)'
  <2>1. /\ pc[s] = "print" /\ count' = [count EXCEPT ![s] = @ + 1] /\ pc' = [pc EXCEPT ![s] = "get"]
        /\ UNCHANGED <<unacked, processed, inspected, op, todo, crashes>>
    BY <1>8a DEF Echo
  <2>2. count[s] < Quota(s) /\ count[s] \in Nat /\ Quota(s) \in Nat /\ op[s] # "idle"
    BY <2>1, <1>a DEF Loop, TypeOK, Quota, InLoop
  <2>3. Plain'
    <3>1. count' \in [Sessions -> Nat] /\ count'[s] = count[s] + 1
          /\ \A r \in Sessions \ {s} : count'[r] = count[r]
      BY <2>1 DEF TypeOK
    <3>2. \A r \in Sessions : Quota(r)' = Quota(r)
      BY <2>1 DEF Quota
    <3>3. count'[s] <= Quota(s)'
      BY <2>2, <3>1, <3>2
    <3>4. \A r \in Sessions \ {s} : count'[r] <= Quota(r)'
      BY <3>1, <3>2 DEF TypeOK
    <3> QED
      BY <2>1, <3>1, <3>3, <3>4 DEF TypeOK, Plain
  <2>4. InLoop(s)'
    BY <2>1, <2>2 DEF TypeOK, InLoop
  <2>5. \A r \in Sessions \ {s} : InLoop(r)'
    BY <2>1, <1>b DEF TypeOK
  <2> QED
    BY <1>c, <2>3, <2>4, <2>5
<1>9. ASSUME NEW s \in Sessions, Exit(s) \/ Raise(s) \/ Die(s) PROVE (Plain /\ Loop)'
  <2>1. /\ op' = [op EXCEPT ![s] = "idle"] /\ pc' = [pc EXCEPT ![s] = "get"]
        /\ todo' = [todo EXCEPT ![s] = <<>>] /\ count' = [count EXCEPT ![s] = 0]
        /\ UNCHANGED <<processed, inspected>>
        /\ \A r \in Sessions \ {s} : unacked'[r] = unacked[r]
    BY <1>9 DEF Exit, Raise, Die, Disconnect, TypeOK
  <2>2. <<>> \in Seq(Families)
    BY EmptySeq
  <2>3. crashes' \in 0..MaxCrashes
    BY <1>9, <1>a DEF Exit, Raise, Die, TypeOK
  <2>4. Plain'
    BY <2>1, <2>2, <2>3, <1>a DEF TypeOK, Quota, Plain
  <2>5. InLoop(s)'
    BY <2>1 DEF TypeOK, InLoop
  <2>6. \A r \in Sessions \ {s} : InLoop(r)'
    BY <2>1, <1>b DEF TypeOK
  <2> QED
    BY <1>c, <2>4, <2>5, <2>6
<1>10. ASSUME UNCHANGED vars PROVE (Plain /\ Loop)'
  <2>1. UNCHANGED <<unacked, processed, inspected, op, pc, todo, count, crashes>>
    BY <1>10 DEF vars, queues, tool
  <2>2. Plain'
    BY <2>1 DEF TypeOK, Quota, Plain
  <2>3. \A r \in Sessions : InLoop(r)'
    BY <2>1, <1>b
  <2> QED
    BY <1>c, <2>2, <2>3
<1>11. (Plain /\ Loop)'
  BY <1>1, <1>2, <1>3, <1>4, <1>5, <1>6, <1>7, <1>8, <1>8a, <1>9, <1>10 DEF Next, Work
<1> QED
  BY <1>0, <1>11 DEF Shaped, TypeOK, Plain

-----------------------------------------------------------------------------
(* The bags of the promise: how often a copy is in its family's queue, and *)
(* with the sessions.                                                      *)

LEMMA OwnFamily ==
    ASSUME NEW c \in Copies
    PROVE  FamilyOf[c.id] \in Families /\ c \in CopiesOf(FamilyOf[c.id])
BY DlqCtlConstantsOK DEF Copies, CopiesOf

LEMMA BagOf ==
    ASSUME NEW q \in [Families -> Seq(Copies)]
    PROVE  AsBag(q) \in [Copies -> Nat]
BY OwnFamily, TimesIsNatural DEF AsBag

\* A copy is published to a queue of its family.
LEMMA BagPut ==
    ASSUME NEW q \in [Families -> Seq(Copies)], NEW f \in Families, NEW d \in CopiesOf(f)
    PROVE  AsBag([q EXCEPT ![f] = Append(@, d)]) = [AsBag(q) EXCEPT ![d] = @ + 1]
<1> DEFINE r == [q EXCEPT ![f] = Append(@, d)]
<1>1. d \in Copies /\ FamilyOf[d.id] = f
  BY DEF CopiesOf
<1>2. ASSUME NEW c \in Copies
      PROVE  Times(r[FamilyOf[c.id]], c)
               = IF c = d THEN Times(q[FamilyOf[c.id]], c) + 1 ELSE Times(q[FamilyOf[c.id]], c)
  <2>1. CASE FamilyOf[c.id] = f
    <3>1. r[f] = Append(q[f], d) /\ q[f] \in Seq(Copies)
      OBVIOUS
    <3>2. Times(Append(q[f], d), c) = IF c = d THEN Times(q[f], c) + 1 ELSE Times(q[f], c)
      BY <1>1, <3>1, TimesOfAppend
    <3> QED
      BY <2>1, <3>1, <3>2
  <2>2. CASE FamilyOf[c.id] # f
    <3>1. c # d /\ r[FamilyOf[c.id]] = q[FamilyOf[c.id]]
      BY <1>1, <2>2, OwnFamily
    <3> QED
      BY <3>1
  <2> QED
    BY <2>1, <2>2
<1> HIDE DEF r
<1>3. AsBag(r) = [AsBag(q) EXCEPT ![d] = @ + 1]
  BY <1>1, <1>2 DEF AsBag
<1> QED
  BY <1>3 DEF r

\* The oldest copy is taken from a queue of its family.
LEMMA BagTake ==
    ASSUME NEW q \in [Families -> Seq(Copies)], NEW f \in Families, q[f] # <<>>,
           Head(q[f]) \in CopiesOf(f)
    PROVE  /\ AsBag(q)[Head(q[f])] > 0
           /\ AsBag([q EXCEPT ![f] = Tail(@)]) = [AsBag(q) EXCEPT ![Head(q[f])] = @ - 1]
<1> DEFINE r == [q EXCEPT ![f] = Tail(@)]
           d == Head(q[f])
<1>1. d \in Copies /\ FamilyOf[d.id] = f
  BY DEF CopiesOf
<1>2. ASSUME NEW c \in Copies
      PROVE  /\ Times(r[FamilyOf[c.id]], c) \in Nat
             /\ Times(q[FamilyOf[c.id]], c)
                  = IF c = d THEN Times(r[FamilyOf[c.id]], c) + 1 ELSE Times(r[FamilyOf[c.id]], c)
  <2>1. CASE FamilyOf[c.id] = f
    <3>1. r[f] = Tail(q[f]) /\ q[f] \in Seq(Copies)
      OBVIOUS
    <3>2. /\ Tail(q[f]) \in Seq(Copies)
          /\ Times(q[f], c) = IF c = d THEN Times(Tail(q[f]), c) + 1 ELSE Times(Tail(q[f]), c)
      BY <3>1, TimesOfTail
    <3>3. Times(Tail(q[f]), c) \in Nat
      BY <3>2, TimesIsNatural
    <3> QED
      BY <2>1, <3>1, <3>2, <3>3
  <2>2. CASE FamilyOf[c.id] # f
    <3>1. /\ c # d /\ r[FamilyOf[c.id]] = q[FamilyOf[c.id]]
          /\ q[FamilyOf[c.id]] \in Seq(Copies)
      BY <1>1, <2>2, OwnFamily
    <3> QED
      BY <3>1, TimesIsNatural
  <2> QED
    BY <2>1, <2>2
<1> HIDE DEF r, d
<1>3. AsBag(q)[d] > 0
  <2>1. /\ Times(q[FamilyOf[d.id]], d) = Times(r[FamilyOf[d.id]], d) + 1
        /\ Times(r[FamilyOf[d.id]], d) \in Nat
    BY <1>1, <1>2
  <2> QED
    BY <1>1, <2>1 DEF AsBag
<1>4. AsBag(r) = [AsBag(q) EXCEPT ![d] = @ - 1]
  <2>1. \A c \in Copies :
           AsBag(r)[c] = IF c = d THEN AsBag(q)[c] - 1 ELSE AsBag(q)[c]
    BY <1>2 DEF AsBag
  <2> QED
    BY <1>1, <2>1 DEF AsBag
<1> QED
  BY <1>3, <1>4 DEF r, d

\* Pairs of a session and what it has: the union, session by session.
Spread(P, R) == UNION {{r} \X P[r] : r \in R}

LEMMA SpreadAt ==
    ASSUME NEW P, NEW R, NEW s \in R, IsFiniteSet(P[s])
    PROVE  /\ IsFiniteSet(Spread(P, R)) <=> IsFiniteSet(Spread(P, R \ {s}))
           /\ IsFiniteSet(Spread(P, R)) =>
                 /\ Cardinality(Spread(P, R)) = Cardinality(P[s]) + Cardinality(Spread(P, R \ {s}))
                 /\ Cardinality(Spread(P, R)) \in Nat
                 /\ Cardinality(P[s]) \in Nat
                 /\ Cardinality(Spread(P, R \ {s})) \in Nat
<1> DEFINE all == Spread(P, R)
           rest == Spread(P, R \ {s})
           own == {s} \X P[s]
<1>1. all = own \union rest /\ own \intersect rest = {}
  BY DEF Spread
<1>2. IsFiniteSet(own) /\ Cardinality(own) = Cardinality(P[s]) /\ Cardinality(P[s]) \in Nat
  <2>1. IsFiniteSet({s}) /\ Cardinality({s}) = 1
    BY FS_Singleton
  <2>2. IsFiniteSet(own) /\ Cardinality(own) = Cardinality({s}) * Cardinality(P[s])
    BY <2>1, FS_Product
  <2>3. Cardinality(P[s]) \in Nat
    BY FS_CardinalityType
  <2> QED
    BY <2>1, <2>2, <2>3
<1> HIDE DEF all, rest, own
<1>3. IsFiniteSet(all) <=> IsFiniteSet(rest)
  <2>1. ASSUME IsFiniteSet(all) PROVE IsFiniteSet(rest)
    <3>1. rest \in SUBSET all
      BY <1>1
    <3> QED
      BY <2>1, <3>1, FS_Subset
  <2>2. ASSUME IsFiniteSet(rest) PROVE IsFiniteSet(all)
    BY <1>1, <1>2, <2>2, FS_Union
  <2> QED
    BY <2>1, <2>2
<1>4. ASSUME IsFiniteSet(all)
      PROVE  /\ Cardinality(all) = Cardinality(P[s]) + Cardinality(rest)
             /\ Cardinality(all) \in Nat /\ Cardinality(P[s]) \in Nat /\ Cardinality(rest) \in Nat
  <2>1. Cardinality(own \union rest)
          = Cardinality(own) + Cardinality(rest) - Cardinality(own \intersect rest)
    BY <1>2, <1>3, <1>4, FS_Union
  <2>2. Cardinality(own \intersect rest) = 0
    BY <1>1, FS_EmptySet
  <2>3. Cardinality(all) \in Nat /\ Cardinality(rest) \in Nat
    BY <1>3, <1>4, FS_CardinalityType
  <2> QED
    BY <1>1, <1>2, <2>1, <2>2, <2>3
<1> QED
  BY <1>3, <1>4 DEF all, rest

Tick(b) == IF b THEN 1 ELSE 0

\* One session moves a copy, or none.
LEMMA HeldMoves ==
    ASSUME NEW s \in Sessions, NEW c \in Copies, NEW f, f = FamilyOf[c.id],
           IsFiniteSet(Held(c)),
           Undecided(s, f) \in Seq(Copies), Undecided(s, f)' \in Seq(Copies),
           \A r \in Sessions \ {s} : Undecided(r, f)' = Undecided(r, f)
    PROVE  /\ IsFiniteSet(Held(c)')
           /\ Cardinality(Held(c)) \in Nat /\ Cardinality(Held(c)') \in Nat
           /\ Times(Undecided(s, f), c) \in Nat /\ Times(Undecided(s, f)', c) \in Nat
           /\ Cardinality(Held(c)') + Times(Undecided(s, f), c)
                = Cardinality(Held(c)) + Times(Undecided(s, f)', c)
<1> DEFINE P == [r \in Sessions |-> Positions(Undecided(r, f), c)]
           Q == [r \in Sessions |-> Positions(Undecided(r, f)', c)]
<1>1. Held(c) = Spread(P, Sessions) /\ Held(c)' = Spread(Q, Sessions)
  BY DEF Held, Spread
<1>2. Spread(P, Sessions \ {s}) = Spread(Q, Sessions \ {s})
  <2>1. \A r \in Sessions \ {s} : P[r] = Q[r]
    OBVIOUS
  <2> HIDE DEF P, Q
  <2> QED
    BY <2>1 DEF Spread
<1>3. /\ P[s] = Positions(Undecided(s, f), c) /\ Q[s] = Positions(Undecided(s, f)', c)
      /\ Cardinality(P[s]) = Times(Undecided(s, f), c)
      /\ Cardinality(Q[s]) = Times(Undecided(s, f)', c)
  BY DEF Times
<1> HIDE DEF P, Q
<1>4. IsFiniteSet(P[s]) /\ IsFiniteSet(Q[s])
  <2>1. IsFiniteSet(Positions(Undecided(s, f), c))
    BY TimesIsNatural
  <2>2. IsFiniteSet(Positions(Undecided(s, f)', c))
    BY TimesIsNatural
  <2> QED
    BY <1>3, <2>1, <2>2
<1>5. /\ IsFiniteSet(Spread(P, Sessions \ {s}))
      /\ Cardinality(Spread(P, Sessions)) = Cardinality(P[s]) + Cardinality(Spread(P, Sessions \ {s}))
      /\ Cardinality(Spread(P, Sessions)) \in Nat /\ Cardinality(P[s]) \in Nat
      /\ Cardinality(Spread(P, Sessions \ {s})) \in Nat
  <2>1. IsFiniteSet(Spread(P, Sessions))
    BY <1>1
  <2> QED
    BY <1>4, <2>1, SpreadAt
<1>6. IsFiniteSet(Spread(Q, Sessions))
  BY <1>2, <1>4, <1>5, SpreadAt
<1>7. /\ Cardinality(Spread(Q, Sessions)) = Cardinality(Q[s]) + Cardinality(Spread(Q, Sessions \ {s}))
      /\ Cardinality(Spread(Q, Sessions)) \in Nat /\ Cardinality(Q[s]) \in Nat
  BY <1>4, <1>6, SpreadAt
<1> QED
  BY <1>1, <1>2, <1>3, <1>5, <1>6, <1>7

LEMMA MovingMoves ==
    ASSUME NEW s \in Sessions, NEW c, IsFiniteSet(Moving(c)),
           \A r \in Sessions \ {s} : r \in Moving(c)' <=> r \in Moving(c)
    PROVE  /\ IsFiniteSet(Moving(c)')
           /\ Cardinality(Moving(c)) \in Nat /\ Cardinality(Moving(c)') \in Nat
           /\ Cardinality(Moving(c)') + Tick(s \in Moving(c))
                = Cardinality(Moving(c)) + Tick(s \in Moving(c)')
<1> DEFINE M == Moving(c)
           N == Moving(c)'
<1>1. M \ {s} = N \ {s}
  BY DEF Moving
<1> HIDE DEF M, N
<1>2. /\ IsFiniteSet(M \ {s}) /\ IsFiniteSet(M)
      /\ Cardinality(M \ {s}) = IF s \in M THEN Cardinality(M) - 1 ELSE Cardinality(M)
      /\ Cardinality(M) \in Nat /\ Cardinality(M \ {s}) \in Nat
  BY FS_RemoveElement, FS_CardinalityType DEF M
<1>3. IsFiniteSet(N)
  <2>1. IsFiniteSet((N \ {s}) \union {s})
    BY <1>1, <1>2, FS_AddElement
  <2>2. N \in SUBSET ((N \ {s}) \union {s})
    OBVIOUS
  <2> QED
    BY <2>1, <2>2, FS_Subset
<1>4. /\ Cardinality(N \ {s}) = IF s \in N THEN Cardinality(N) - 1 ELSE Cardinality(N)
      /\ Cardinality(N) \in Nat
  BY <1>3, FS_RemoveElement, FS_CardinalityType
<1>5. Cardinality(N) + Tick(s \in M) = Cardinality(M) + Tick(s \in N)
  BY <1>1, <1>2, <1>4 DEF Tick
<1> QED
  BY <1>2, <1>3, <1>4, <1>5 DEF M, N

-----------------------------------------------------------------------------
(* Every step is one of the promise's, or none.                            *)

\* Sessions may be without number; those with deliveries are not.
Few == \A c \in Copies : IsFiniteSet(Held(c)) /\ IsFiniteSet(Moving(c))

UndecidedIsSeq == \A r \in Sessions, f \in Families : Undecided(r, f) \in Seq(CopiesOf(f))

LEMMA UndecidedSeq == Sorted => UndecidedIsSeq
<1> SUFFICES ASSUME Sorted, NEW r \in Sessions, NEW f \in Families
             PROVE  Undecided(r, f) \in Seq(CopiesOf(f))
  BY DEF UndecidedIsSeq
<1>1. CASE pc[r] = "ack" /\ f = Current(r)
  BY <1>1, AtWork DEF Undecided
<1>2. CASE ~(pc[r] = "ack" /\ f = Current(r))
  BY <1>2 DEF Undecided, Sorted, Home
<1> QED
  BY <1>1, <1>2

LEMMA UndecidedSeqNext == Sorted' => UndecidedIsSeq'
BY UndecidedSeq, PTL

Balance(s, c) ==
    LET f == FamilyOf[c.id]
    IN  /\ {Cardinality(Held(c)), Cardinality(Held(c)'),
            Times(Undecided(s, f), c), Times(Undecided(s, f)', c)} \subseteq Nat
        /\ Cardinality(Held(c)') + Times(Undecided(s, f), c)
             = Cardinality(Held(c)) + Times(Undecided(s, f)', c)
        /\ {Cardinality(Moving(c)), Cardinality(Moving(c)')} \subseteq Nat
        /\ Cardinality(Moving(c)') + Tick(s \in Moving(c))
             = Cardinality(Moving(c)) + Tick(s \in Moving(c)')

LEMMA SessionMoves ==
    ASSUME Sorted, Sorted', Few, NEW s \in Sessions,
           \A r \in Sessions \ {s} : pc'[r] = pc[r] /\ todo'[r] = todo[r] /\ unacked'[r] = unacked[r]
    PROVE  Few' /\ \A c \in Copies : Balance(s, c)
<1> SUFFICES ASSUME NEW c \in Copies
             PROVE  IsFiniteSet(Held(c)') /\ IsFiniteSet(Moving(c)') /\ Balance(s, c)
  BY DEF Few
<1> DEFINE f == FamilyOf[c.id]
<1>1. f \in Families
  BY OwnFamily
<1>2. CopiesOf(f) \subseteq Copies
  BY DEF CopiesOf
<1>3. Undecided(s, f) \in Seq(Copies) /\ Undecided(s, f)' \in Seq(Copies)
  <2>1. Undecided(s, f) \in Seq(CopiesOf(f)) /\ Undecided(s, f)' \in Seq(CopiesOf(f))
    BY <1>1, UndecidedSeq, UndecidedSeqNext DEF UndecidedIsSeq
  <2> QED
    BY <1>2, <2>1, SubSequences
<1>4. \A r \in Sessions \ {s} : Undecided(r, f)' = Undecided(r, f)
  BY DEF Undecided, Current
<1>5. \A r \in Sessions \ {s} : r \in Moving(c)' <=> r \in Moving(c)
  BY DEF Moving, InHand, Current
<1>6. IsFiniteSet(Held(c)) /\ IsFiniteSet(Moving(c))
  BY DEF Few
<1> HIDE DEF f
<1>7. /\ IsFiniteSet(Held(c)')
      /\ Cardinality(Held(c)) \in Nat /\ Cardinality(Held(c)') \in Nat
      /\ Times(Undecided(s, f), c) \in Nat /\ Times(Undecided(s, f)', c) \in Nat
      /\ Cardinality(Held(c)') + Times(Undecided(s, f), c)
           = Cardinality(Held(c)) + Times(Undecided(s, f)', c)
  BY <1>3, <1>4, <1>6, HeldMoves DEF f
<1>8. /\ IsFiniteSet(Moving(c)')
      /\ Cardinality(Moving(c)) \in Nat /\ Cardinality(Moving(c)') \in Nat
      /\ Cardinality(Moving(c)') + Tick(s \in Moving(c))
           = Cardinality(Moving(c)) + Tick(s \in Moving(c)')
  BY <1>5, <1>6, MovingMoves
<1> QED
  BY <1>7, <1>8 DEF Balance, f

\* The session in hand of a copy publishes it, or prints it.
LEMMA Decided ==
    ASSUME Sorted, Sorted', Few, NEW s \in Sessions, pc[s] = "publish",
           pc' = [pc EXCEPT ![s] = "ack"], UNCHANGED <<dlq, unacked, todo>>
    PROVE  /\ Few'
           /\ DlqBag[InHand(s)] > 0
           /\ DlqBag' = [DlqBag EXCEPT ![InHand(s)] = @ - 1]
           /\ MovedBag' = [MovedBag EXCEPT ![InHand(s)] = @ + 1]
<1> DEFINE f == Current(s)
           d == InHand(s)
           q == unacked[s][f]
<1>1. f \in Families /\ q \in Seq(CopiesOf(f)) /\ q # <<>> /\ d \in CopiesOf(f)
  BY AtWork
<1>2. d \in Copies /\ FamilyOf[d.id] = f /\ d = Last(q)
  BY <1>1 DEF CopiesOf, InHand
<1>3. Few' /\ \A c \in Copies : Balance(s, c)
  BY SessionMoves DEF Sorted, TypeOK
<1>4. pc'[s] = "ack" /\ Current(s)' = f /\ InHand(s)' = d
  BY DEF Sorted, TypeOK, Current, InHand
<1>5. ASSUME NEW c \in Copies
      PROVE  /\ Times(Undecided(s, FamilyOf[c.id])', c) \in Nat
             /\ Times(Undecided(s, FamilyOf[c.id]), c)
                  = Times(Undecided(s, FamilyOf[c.id])', c) + Tick(c = d)
  <2> DEFINE g == FamilyOf[c.id]
  <2>0. Times(Undecided(s, g)', c) \in Nat
    BY <1>3 DEF Balance
  <2>1. CASE g = f
    <3>1. Undecided(s, g) = q /\ Undecided(s, g)' = Front(q)
      BY <1>4, <2>1 DEF Undecided
    <3>2. Times(q, c) = IF c = d THEN Times(Front(q), c) + 1 ELSE Times(Front(q), c)
      BY <1>1, <1>2, TimesOfFront
    <3> QED
      BY <2>0, <3>1, <3>2 DEF Tick
  <2>2. CASE g # f
    <3>1. c # d /\ Undecided(s, g)' = Undecided(s, g)
      BY <1>2, <1>4, <2>2 DEF Undecided
    <3> QED
      BY <2>0, <3>1 DEF Tick
  <2> QED
    BY <2>1, <2>2
<1>6. \A c \in Copies : s \notin Moving(c) /\ (s \in Moving(c)' <=> c = d)
  BY <1>4 DEF Moving
<1> HIDE DEF f, d, q
<1>7. ASSUME NEW c \in Copies
      PROVE  /\ Cardinality(Held(c)') \in Nat /\ Cardinality(Moving(c)) \in Nat
             /\ Cardinality(Held(c)) = Cardinality(Held(c)') + Tick(c = d)
             /\ Cardinality(Moving(c)') = Cardinality(Moving(c)) + Tick(c = d)
  BY <1>3, <1>5, <1>6 DEF Balance, Tick
<1>8. ASSUME NEW c \in Copies
      PROVE  Times(dlq[FamilyOf[c.id]], c) \in Nat
  BY OwnFamily, TimesIsNatural DEF Sorted, TypeOK
<1>9. DlqBag[d] > 0
  BY <1>2, <1>7, <1>8 DEF DlqBag, Tick
<1>10. DlqBag' = [DlqBag EXCEPT ![d] = @ - 1]
  <2>1. \A c \in Copies : DlqBag'[c] = IF c = d THEN DlqBag[c] - 1 ELSE DlqBag[c]
    BY <1>7, <1>8 DEF DlqBag, Tick
  <2> QED
    BY <1>2, <2>1 DEF DlqBag
<1>11. MovedBag' = [MovedBag EXCEPT ![d] = @ + 1]
  <2>1. \A c \in Copies : MovedBag'[c] = IF c = d THEN MovedBag[c] + 1 ELSE MovedBag[c]
    BY <1>7 DEF MovedBag, Tick
  <2> QED
    BY <1>2, <2>1 DEF MovedBag
<1> QED
  BY <1>3, <1>9, <1>10, <1>11 DEF d

\* A session that changes its place but has the same deliveries undecided,
\* and is not between publishing and acknowledging.
LEMMA NothingHeldMoves ==
    ASSUME Sorted, Sorted', Few, NEW s \in Sessions,
           \A r \in Sessions \ {s} : pc'[r] = pc[r] /\ todo'[r] = todo[r],
           UNCHANGED unacked, pc[s] # "ack", pc'[s] # "ack"
    PROVE  /\ Few' /\ UNCHANGED MovedBag
           /\ \A c \in Copies : /\ Cardinality(Held(c)') \in Nat
                                /\ Cardinality(Held(c)') = Cardinality(Held(c))
<1>1. Few' /\ \A c \in Copies : Balance(s, c)
  BY SessionMoves
<1>2. \A c \in Copies : s \notin Moving(c) /\ s \notin Moving(c)'
  BY DEF Moving
<1>3. \A f : Undecided(s, f)' = Undecided(s, f)
  BY DEF Undecided
<1>4. ASSUME NEW c \in Copies
      PROVE  /\ Cardinality(Held(c)') \in Nat /\ Cardinality(Held(c)') = Cardinality(Held(c))
             /\ Cardinality(Moving(c)') = Cardinality(Moving(c))
  BY <1>1, <1>2, <1>3 DEF Balance, Tick
<1>5. UNCHANGED MovedBag
  BY <1>4 DEF MovedBag
<1> QED
  BY <1>1, <1>4, <1>5

LEMMA NothingMoves ==
    ASSUME Sorted, Sorted', Few, NEW s \in Sessions,
           \A r \in Sessions \ {s} : pc'[r] = pc[r] /\ todo'[r] = todo[r],
           UNCHANGED <<main, dlq, poison, unacked>>, pc[s] # "ack", pc'[s] # "ack"
    PROVE  Few' /\ UNCHANGED <<AsBag(main), DlqBag, AsBag(poison), MovedBag>>
<1>1. /\ Few' /\ UNCHANGED MovedBag
      /\ \A c \in Copies : Cardinality(Held(c)') = Cardinality(Held(c))
  BY NothingHeldMoves
<1>2. UNCHANGED DlqBag
  BY <1>1 DEF DlqBag
<1>3. UNCHANGED <<AsBag(main), AsBag(poison)>>
  BY DEF AsBag
<1> QED
  BY <1>1, <1>2, <1>3

\* Consumers leave what the sessions have alone.
LEMMA NobodyMoves ==
    ASSUME Few, UNCHANGED <<unacked, pc, todo>>
    PROVE  /\ Few' /\ UNCHANGED MovedBag
           /\ \A c \in Copies : Cardinality(Held(c)') \in Nat /\ Cardinality(Held(c)') = Cardinality(Held(c))
<1>1. \A r, f : Undecided(r, f)' = Undecided(r, f)
  BY DEF Undecided, Current
<1>2. \A c \in Copies : Held(c)' = Held(c)
  BY <1>1 DEF Held
<1>3. \A c \in Copies : Moving(c)' = Moving(c)
  BY DEF Moving, InHand, Current
<1>4. Few' /\ UNCHANGED MovedBag
  BY <1>2, <1>3 DEF Few, MovedBag
<1>5. \A c \in Copies : Cardinality(Held(c)) \in Nat
  BY FS_CardinalityType DEF Few
<1> QED
  BY <1>2, <1>4, <1>5

\* What the dlqs' copies of the promise are without the sessions'.
LEMMA DlqBagMoves ==
    ASSUME Sorted, Sorted',
           \A c \in Copies : Cardinality(Held(c)') \in Nat /\ Cardinality(Held(c)') = Cardinality(Held(c))
    PROVE  /\ \A d \in Copies : AsBag(dlq') = [AsBag(dlq) EXCEPT ![d] = @ + 1]
                                => DlqBag' = [DlqBag EXCEPT ![d] = @ + 1]
           /\ \A d \in Copies : /\ AsBag(dlq)[d] > 0
                                /\ AsBag(dlq') = [AsBag(dlq) EXCEPT ![d] = @ - 1]
                                => DlqBag[d] > 0 /\ DlqBag' = [DlqBag EXCEPT ![d] = @ - 1]
           /\ dlq' = dlq => DlqBag' = DlqBag
<1>1. AsBag(dlq) \in [Copies -> Nat] /\ AsBag(dlq') \in [Copies -> Nat]
  <2>1. dlq \in [Families -> Seq(Copies)] /\ dlq' \in [Families -> Seq(Copies)]
    BY DEF Sorted, TypeOK
  <2> QED
    BY <2>1, BagOf
<1>2. /\ DlqBag = [c \in Copies |-> AsBag(dlq)[c] + Cardinality(Held(c))]
      /\ DlqBag' = [c \in Copies |-> AsBag(dlq')[c] + Cardinality(Held(c))]
  BY DEF DlqBag, AsBag
<1>3. ASSUME NEW d \in Copies, AsBag(dlq') = [AsBag(dlq) EXCEPT ![d] = @ + 1]
      PROVE  DlqBag' = [DlqBag EXCEPT ![d] = @ + 1]
  <2>1. \A c \in Copies : AsBag(dlq')[c] = IF c = d THEN AsBag(dlq)[c] + 1 ELSE AsBag(dlq)[c]
    BY <1>1, <1>3
  <2> QED
    BY <1>1, <1>2, <2>1
<1>4. ASSUME NEW d \in Copies, AsBag(dlq)[d] > 0, AsBag(dlq') = [AsBag(dlq) EXCEPT ![d] = @ - 1]
      PROVE  DlqBag[d] > 0 /\ DlqBag' = [DlqBag EXCEPT ![d] = @ - 1]
  <2>1. \A c \in Copies : AsBag(dlq')[c] = IF c = d THEN AsBag(dlq)[c] - 1 ELSE AsBag(dlq)[c]
    BY <1>1, <1>4
  <2>2. DlqBag[d] > 0
    BY <1>1, <1>2, <1>4
  <2> QED
    BY <1>1, <1>2, <2>1, <2>2
<1> QED
  BY <1>2, <1>3, <1>4

LEMMA OfThePromise ==
    ASSUME NEW c \in Copies,
           \/ Promise!Consume(c) \/ Promise!Reject(c) \/ Promise!Replay(c)
           \/ Promise!Quarantine(c) \/ Promise!Inspect(c) \/ Promise!Settle(c)
    PROVE  Promise!Next
<1>1. Copies = Promise!Copies
  BY DEF Copies, Promise!Copies
<1> QED
  BY <1>1 DEF Promise!Next

Kept == Few' /\ (Promise!Next \/ UNCHANGED Promise!vars)

LEMMA ConsumeKeeps ==
    ASSUME Sorted, Sorted', Few, NEW f \in Families, Consume(f)
    PROVE  Kept
<1> DEFINE d == Head(main[f])
<1>1. /\ main[f] # <<>> /\ main' = [main EXCEPT ![f] = Tail(@)]
      /\ processed' = processed \union {d.id}
      /\ UNCHANGED <<dlq, poison, unacked, inspected, pc, todo, crashes>>
  BY DEF Consume, tool
<1>2. d \in CopiesOf(f) /\ d \in Copies
  BY <1>1, HeadTailProperties DEF Sorted, Home, CopiesOf
<1>3. main \in [Families -> Seq(Copies)]
  BY DEF Sorted, TypeOK
<1>4. AsBag(main)[d] > 0 /\ AsBag(main)' = [AsBag(main) EXCEPT ![d] = @ - 1]
  <2>1. AsBag([main EXCEPT ![f] = Tail(@)]) = [AsBag(main) EXCEPT ![d] = @ - 1] /\ AsBag(main)[d] > 0
    BY <1>1, <1>2, <1>3, BagTake
  <2> QED
    BY <1>1, <2>1
<1>5. Few' /\ UNCHANGED <<MovedBag, DlqBag>>
  BY <1>1, NobodyMoves, DlqBagMoves
<1>6. UNCHANGED AsBag(poison)
  BY <1>1 DEF AsBag
<1> HIDE DEF d
<1>7. PICK c \in Copies : c = d
  BY <1>2
<1>8. Promise!Consume(c)
  BY <1>7, <1>1, <1>4, <1>5, <1>6 DEF Promise!Consume, Promise!Take
<1>9. Promise!Next
  BY <1>8, OfThePromise
<1> QED
  BY <1>9, <1>5 DEF Kept

LEMMA RejectKeeps ==
    ASSUME Sorted, Sorted', Few, NEW f \in Families, Reject(f)
    PROVE  Kept
<1> DEFINE d == Head(main[f])
           e == [d EXCEPT !.deaths = @ + 1]
<1>1. /\ main[f] # <<>> /\ main' = [main EXCEPT ![f] = Tail(@)]
      /\ d.deaths < MaxDeaths /\ dlq' = [dlq EXCEPT ![f] = Append(@, e)]
      /\ UNCHANGED <<poison, unacked, processed, inspected, pc, todo, crashes>>
  BY DEF Reject, tool
<1>2. d \in CopiesOf(f) /\ d \in Copies
  <2>1. main[f] \in Seq(CopiesOf(f)) /\ main[f] # <<>>
    BY <1>1 DEF Sorted, Home
  <2>2. d \in CopiesOf(f)
    BY <2>1, HeadTailProperties
  <2> QED
    BY <2>2 DEF CopiesOf
<1>3. e \in CopiesOf(f) /\ e \in Copies
  BY <1>1, <1>2, OneMoreDeath DEF CopiesOf
<1>4. main \in [Families -> Seq(Copies)] /\ dlq \in [Families -> Seq(Copies)]
  BY DEF Sorted, TypeOK
<1>5. AsBag(main)[d] > 0 /\ AsBag(main)' = [AsBag(main) EXCEPT ![d] = @ - 1]
  <2>1. AsBag([main EXCEPT ![f] = Tail(@)]) = [AsBag(main) EXCEPT ![d] = @ - 1] /\ AsBag(main)[d] > 0
    BY <1>1, <1>2, <1>4, BagTake
  <2> QED
    BY <1>1, <2>1
<1>6. e = [d EXCEPT !.deaths = @ + 1]
  OBVIOUS
<1> HIDE DEF e
<1>7. AsBag(dlq') = [AsBag(dlq) EXCEPT ![e] = @ + 1]
  <2>1. AsBag([dlq EXCEPT ![f] = Append(@, e)]) = [AsBag(dlq) EXCEPT ![e] = @ + 1]
    BY <1>3, <1>4, BagPut
  <2> QED
    BY <1>1, <2>1
<1>8. Few' /\ UNCHANGED MovedBag /\ DlqBag' = [DlqBag EXCEPT ![e] = @ + 1]
  BY <1>1, <1>3, <1>7, NobodyMoves, DlqBagMoves
<1>9. UNCHANGED AsBag(poison)
  BY <1>1 DEF AsBag
<1> HIDE DEF d
<1>10. PICK c \in Copies : c = d
  BY <1>2
<1>11. Promise!Reject(c)
  BY <1>10, <1>1, <1>5, <1>6, <1>8, <1>9 DEF Promise!Reject, Promise!Take, Promise!Put
<1>12. Promise!Next
  BY <1>11, OfThePromise
<1> QED
  BY <1>12, <1>8 DEF Kept

LEMMA GetKeeps ==
    ASSUME Sorted, Sorted', Few, NEW s \in Sessions, Get(s)
    PROVE  Kept
<1> DEFINE f == Current(s)
           d == Head(dlq[f])
<1>1. /\ pc[s] = "get" /\ todo[s] # <<>> /\ dlq[f] # <<>> /\ dlq' = [dlq EXCEPT ![f] = Tail(@)]
      /\ UNCHANGED <<main, poison, processed, todo, crashes>>
      /\ \/ /\ inspected' = inspected \union {d.id} /\ UNCHANGED unacked
            /\ \E p \in {"print", "raise"} : pc' = [pc EXCEPT ![s] = p]
         \/ /\ unacked' = [unacked EXCEPT ![s][f] = Append(@, d)]
            /\ pc' = [pc EXCEPT ![s] = "publish"] /\ UNCHANGED inspected
  BY DEF Get
<1>2. f \in Families
  <2>1. todo[s] \in Seq(Families)
    BY DEF Sorted, TypeOK
  <2> QED
    BY <1>1, <2>1, HeadTailProperties DEF Current
<1>3. d \in CopiesOf(f) /\ d \in Copies /\ FamilyOf[d.id] = f
  <2>1. dlq[f] \in Seq(CopiesOf(f))
    BY <1>2 DEF Sorted, Home
  <2>2. d \in CopiesOf(f)
    BY <1>1, <2>1, HeadTailProperties
  <2> QED
    BY <2>2 DEF CopiesOf
<1>4. dlq \in [Families -> Seq(Copies)] /\ dlq' \in [Families -> Seq(Copies)]
  BY DEF Sorted, TypeOK
<1>5. AsBag(dlq)[d] > 0 /\ AsBag(dlq') = [AsBag(dlq) EXCEPT ![d] = @ - 1]
  <2>1. AsBag([dlq EXCEPT ![f] = Tail(@)]) = [AsBag(dlq) EXCEPT ![d] = @ - 1] /\ AsBag(dlq)[d] > 0
    BY <1>1, <1>2, <1>3, <1>4, BagTake
  <2> QED
    BY <1>1, <2>1
<1>6. UNCHANGED <<AsBag(main), AsBag(poison)>>
  BY <1>1 DEF AsBag
<1> HIDE DEF f, d
<1>7. CASE /\ inspected' = inspected \union {d.id} /\ UNCHANGED unacked
           /\ \E p \in {"print", "raise"} : pc' = [pc EXCEPT ![s] = p]
  <2>0. /\ pc'[s] # "ack"
        /\ \A r \in Sessions \ {s} : pc'[r] = pc[r] /\ todo'[r] = todo[r] /\ unacked'[r] = unacked[r]
    BY <1>1, <1>7 DEF Sorted, TypeOK
  <2>1. Few' /\ UNCHANGED MovedBag /\ DlqBag[d] > 0 /\ DlqBag' = [DlqBag EXCEPT ![d] = @ - 1]
    <3>1. /\ Few' /\ UNCHANGED MovedBag
          /\ \A c \in Copies : /\ Cardinality(Held(c)') \in Nat
                               /\ Cardinality(Held(c)') = Cardinality(Held(c))
      BY <1>1, <1>7, <2>0, NothingHeldMoves
    <3> QED
      BY <1>3, <1>5, <3>1, DlqBagMoves
  <2>2. PICK c \in Copies : c = d
    BY <1>3
  <2>3. Promise!Inspect(c)
    BY <2>2, <1>1, <1>6, <1>7, <2>1 DEF Promise!Inspect, Promise!Take
  <2>4. Promise!Next
    BY <2>3, OfThePromise
  <2> QED
    BY <2>4, <2>1 DEF Kept
<1>8. CASE /\ unacked' = [unacked EXCEPT ![s][f] = Append(@, d)]
           /\ pc' = [pc EXCEPT ![s] = "publish"] /\ UNCHANGED inspected
  <2>1. /\ \A r \in Sessions \ {s} : pc'[r] = pc[r] /\ unacked'[r] = unacked[r]
        /\ \A g \in Families \ {f} : unacked'[s][g] = unacked[s][g]
        /\ unacked'[s][f] = Append(unacked[s][f], d)
        /\ pc'[s] = "publish" /\ unacked[s][f] \in Seq(Copies)
    BY <1>2, <1>8 DEF Sorted, TypeOK
  <2>2. Few' /\ \A c \in Copies : Balance(s, c)
    BY <1>1, <2>1, SessionMoves
  <2>3. \A c \in Copies : s \notin Moving(c) /\ s \notin Moving(c)'
    BY <1>1, <2>1 DEF Moving
  <2>4. ASSUME NEW c \in Copies
        PROVE  Times(Undecided(s, FamilyOf[c.id])', c)
                 = Times(Undecided(s, FamilyOf[c.id]), c) + Tick(c = d)
    <3> DEFINE g == FamilyOf[c.id]
    <3>0. Times(Undecided(s, g), c) \in Nat
      BY <2>2 DEF Balance
    <3>1. CASE g = f
      <4>1. Undecided(s, g) = unacked[s][f] /\ Undecided(s, g)' = Append(unacked[s][f], d)
        BY <1>1, <2>1, <3>1 DEF Undecided
      <4>2. Times(Append(unacked[s][f], d), c)
              = IF c = d THEN Times(unacked[s][f], c) + 1 ELSE Times(unacked[s][f], c)
        BY <1>3, <2>1, TimesOfAppend
      <4> QED
        BY <3>0, <4>1, <4>2 DEF Tick
    <3>2. CASE g # f
      <4>1. c # d /\ g \in Families
        BY <1>3, <3>2, OwnFamily
      <4>2. Undecided(s, g)' = Undecided(s, g)
        BY <1>1, <2>1, <3>2, <4>1 DEF Undecided
      <4> QED
        BY <3>0, <4>1, <4>2 DEF Tick
    <3> QED
      BY <3>1, <3>2
  <2>5. ASSUME NEW c \in Copies
        PROVE  /\ Cardinality(Held(c)) \in Nat
               /\ Cardinality(Held(c)') = Cardinality(Held(c)) + Tick(c = d)
               /\ Cardinality(Moving(c)') = Cardinality(Moving(c))
    BY <2>2, <2>3, <2>4 DEF Balance, Tick
  <2>6. UNCHANGED MovedBag
    BY <2>5 DEF MovedBag
  <2>7. UNCHANGED DlqBag
    <3>1. AsBag(dlq) \in [Copies -> Nat]
      BY <1>4, BagOf
    <3>2. \A c \in Copies : AsBag(dlq')[c] = AsBag(dlq)[c] - Tick(c = d)
      BY <1>5, <3>1 DEF Tick
    <3>3. \A c \in Copies : AsBag(dlq')[c] + Cardinality(Held(c)') = AsBag(dlq)[c] + Cardinality(Held(c))
      BY <2>5, <3>1, <3>2 DEF Tick
    <3>4. /\ DlqBag = [c \in Copies |-> AsBag(dlq)[c] + Cardinality(Held(c))]
          /\ DlqBag' = [c \in Copies |-> AsBag(dlq')[c] + Cardinality(Held(c)')]
      BY DEF DlqBag, AsBag
    <3> QED
      BY <3>3, <3>4
  <2> QED
    BY <1>1, <1>6, <1>8, <2>2, <2>6, <2>7 DEF Kept, Promise!vars
<1> QED
  BY <1>1, <1>7, <1>8

LEMMA PublishKeeps ==
    ASSUME Sorted, Sorted', Few, NEW s \in Sessions, Quarantine(s) \/ Replay(s)
    PROVE  Kept
<1> DEFINE f == Current(s)
           d == InHand(s)
<1>1. /\ pc[s] = "publish" /\ pc' = [pc EXCEPT ![s] = "ack"]
      /\ UNCHANGED <<dlq, unacked, todo, processed, inspected, crashes>>
  BY DEF Quarantine, Replay
<1>2. f \in Families /\ d \in CopiesOf(f) /\ d \in Copies
  BY <1>1, AtWork DEF CopiesOf
<1>3. /\ Few' /\ DlqBag[d] > 0
      /\ DlqBag' = [DlqBag EXCEPT ![d] = @ - 1] /\ MovedBag' = [MovedBag EXCEPT ![d] = @ + 1]
  BY <1>1, Decided
<1>4. main \in [Families -> Seq(Copies)] /\ poison \in [Families -> Seq(Copies)]
  BY DEF Sorted, TypeOK
<1>5. d.deaths \in Nat /\ Threshold \in Nat
  BY <1>2, DlqCtlConstantsOK DEF Copies
<1>6. CASE Quarantine(s)
  <2>1. d.deaths >= Threshold /\ UNCHANGED main
        /\ poison' = [poison EXCEPT ![f] = Append(@, d)]
    BY <1>6 DEF Quarantine, Poisonous
  <2>2. AsBag([poison EXCEPT ![f] = Append(@, d)]) = [AsBag(poison) EXCEPT ![d] = @ + 1]
    BY <1>2, <1>4, BagPut
  <2>3. AsBag(poison)' = [AsBag(poison) EXCEPT ![d] = @ + 1] /\ UNCHANGED AsBag(main)
    BY <2>1, <2>2 DEF AsBag
  <2> HIDE DEF d
  <2>4. PICK c \in Copies : c = d
    BY <1>2
  <2>5. Promise!Quarantine(c)
    BY <2>4, <1>1, <1>3, <2>1, <2>3 DEF Promise!Quarantine, Promise!Take, Promise!Put
  <2>6. Promise!Next
    BY <2>5, OfThePromise
  <2> QED
    BY <2>6, <1>3 DEF Kept
<1>7. CASE Replay(s)
  <2>1. d.deaths < Threshold /\ UNCHANGED poison
        /\ main' = [main EXCEPT ![f] = Append(@, d)]
    BY <1>5, <1>7 DEF Replay, Poisonous
  <2>2. AsBag([main EXCEPT ![f] = Append(@, d)]) = [AsBag(main) EXCEPT ![d] = @ + 1]
    BY <1>2, <1>4, BagPut
  <2>3. AsBag(main)' = [AsBag(main) EXCEPT ![d] = @ + 1] /\ UNCHANGED AsBag(poison)
    BY <2>1, <2>2 DEF AsBag
  <2> HIDE DEF d
  <2>4. PICK c \in Copies : c = d
    BY <1>2
  <2>5. Promise!Replay(c)
    BY <2>4, <1>1, <1>3, <2>1, <2>3 DEF Promise!Replay, Promise!Take, Promise!Put
  <2>6. Promise!Next
    BY <2>5, OfThePromise
  <2> QED
    BY <2>6, <1>3 DEF Kept
<1> QED
  BY <1>6, <1>7

LEMMA DryRunKeeps ==
    ASSUME Sorted, Sorted', Few, NEW s \in Sessions, DryRun(s)
    PROVE  Kept
<1> DEFINE d == InHand(s)
<1>1. pc[s] = "publish" /\ UNCHANGED <<main, dlq, poison, unacked, processed, todo, crashes>>
  BY DEF DryRun, queues
<1>2. d \in Copies
  BY <1>1, AtWork DEF CopiesOf
<1>3. UNCHANGED <<AsBag(main), AsBag(poison)>>
  BY <1>1 DEF AsBag
<1>4. CASE Poisonous(s)
  <2>1. pc' = [pc EXCEPT ![s] = "ack"] /\ inspected' = inspected \union {d.id}
    BY <1>4 DEF DryRun
  <2>2. /\ Few' /\ DlqBag[d] > 0
        /\ DlqBag' = [DlqBag EXCEPT ![d] = @ - 1] /\ MovedBag' = [MovedBag EXCEPT ![d] = @ + 1]
    BY <1>1, <2>1, Decided
  <2> HIDE DEF d
  <2>3. PICK c \in Copies : c = d
    BY <1>2
  <2>4. Promise!Inspect(c)
    BY <2>3, <1>1, <1>3, <2>1, <2>2 DEF Promise!Inspect, Promise!Take, Promise!Put
  <2>5. Promise!Next
    BY <2>4, OfThePromise
  <2> QED
    BY <2>5, <2>2 DEF Kept
<1>5. CASE ~Poisonous(s)
  <2>1. pc' = [pc EXCEPT ![s] = "get"] /\ UNCHANGED inspected
    BY <1>5 DEF DryRun
  <2>2. pc'[s] = "get" /\ \A r \in Sessions \ {s} : pc'[r] = pc[r]
    BY <2>1 DEF Sorted, TypeOK
  <2>3. Few' /\ UNCHANGED <<AsBag(main), DlqBag, AsBag(poison), MovedBag>>
    BY <1>1, <2>2, NothingMoves
  <2> QED
    BY <1>1, <2>1, <2>3 DEF Kept, Promise!vars
<1> QED
  BY <1>4, <1>5

LEMMA MoveOnKeeps ==
    ASSUME Sorted, Sorted', Few, NEW s \in Sessions, Start(s) \/ NextQueue(s) \/ Echo(s)
    PROVE  Kept
<1>1. /\ pc[s] # "ack" /\ pc'[s] # "ack"
      /\ UNCHANGED <<main, dlq, poison, unacked, processed, inspected, crashes>>
  BY DEF Start, NextQueue, Echo, queues, Sorted, TypeOK, Loop, InLoop
<1>2. \A r \in Sessions \ {s} : pc'[r] = pc[r] /\ todo'[r] = todo[r]
  BY DEF Start, NextQueue, Echo, Sorted, TypeOK
<1>3. Few' /\ UNCHANGED <<AsBag(main), DlqBag, AsBag(poison), MovedBag>>
  BY <1>1, <1>2, NothingMoves
<1> QED
  BY <1>1, <1>3 DEF Kept, Promise!vars

LEMMA AckKeeps ==
    ASSUME Sorted, Sorted', Few, NEW s \in Sessions, Ack(s)
    PROVE  Kept
<1> DEFINE f == Current(s)
           d == InHand(s)
           q == Front(unacked[s][f])
<1>1. /\ pc[s] = "ack" /\ pc' = [pc EXCEPT ![s] = "get"]
      /\ unacked' = [unacked EXCEPT ![s][f] = q]
      /\ UNCHANGED <<main, dlq, poison, processed, inspected, todo, crashes>>
  BY DEF Ack, queues
<1>2. f \in Families /\ d \in Copies
  BY <1>1, AtWork DEF CopiesOf
<1>3. /\ pc'[s] = "get" /\ unacked'[s][f] = q
      /\ \A g \in Families \ {f} : unacked'[s][g] = unacked[s][g]
      /\ \A r \in Sessions \ {s} : pc'[r] = pc[r] /\ unacked'[r] = unacked[r]
  BY <1>1, <1>2 DEF Sorted, TypeOK
<1>4. Few' /\ \A c \in Copies : Balance(s, c)
  BY <1>1, <1>3, SessionMoves
<1>5. \A g \in Families : Undecided(s, g)' = Undecided(s, g)
  BY <1>1, <1>3 DEF Undecided
<1>6. \A c \in Copies : s \notin Moving(c)' /\ (s \in Moving(c) <=> c = d)
  BY <1>1, <1>3 DEF Moving
<1> HIDE DEF f, d, q
<1>7. ASSUME NEW c \in Copies
      PROVE  /\ Cardinality(Held(c)') = Cardinality(Held(c))
             /\ Cardinality(Moving(c)') \in Nat /\ Cardinality(Moving(c)) \in Nat
             /\ Cardinality(Moving(c)) = Cardinality(Moving(c)') + Tick(c = d)
  BY <1>4, <1>5, <1>6, OwnFamily DEF Balance, Tick
<1>8. UNCHANGED DlqBag
  BY <1>1, <1>7 DEF DlqBag
<1>9. MovedBag[d] > 0 /\ MovedBag' = [MovedBag EXCEPT ![d] = @ - 1]
  <2>1. \A c \in Copies : MovedBag'[c] = IF c = d THEN MovedBag[c] - 1 ELSE MovedBag[c]
    BY <1>7 DEF MovedBag, Tick
  <2>2. MovedBag[d] > 0
    BY <1>2, <1>7 DEF MovedBag, Tick
  <2> QED
    BY <1>2, <2>1, <2>2 DEF MovedBag
<1>10. UNCHANGED <<AsBag(main), AsBag(poison)>>
  BY <1>1 DEF AsBag
<1>11. PICK c \in Copies : c = d
  BY <1>2
<1>12. Promise!Settle(c)
  BY <1>1, <1>8, <1>9, <1>10, <1>11 DEF Promise!Settle, Promise!Take
<1>13. Promise!Next
  BY <1>12, OfThePromise
<1> QED
  BY <1>4, <1>13 DEF Kept

LEMMA DisconnectMoves ==
    ASSUME Sorted, Sorted', Few, NEW s \in Sessions, Disconnect(s)
    PROVE  /\ Few' /\ UNCHANGED <<AsBag(main), AsBag(poison)>>
           /\ \A c \in Copies :
                 /\ DlqBag[c] \in Nat /\ MovedBag[c] \in Nat /\ MovedBag'[c] \in Nat
                 /\ DlqBag'[c] = DlqBag[c] + Tick(s \in Moving(c))
                 /\ MovedBag[c] = MovedBag'[c] + Tick(s \in Moving(c))
<1>1. /\ pc' = [pc EXCEPT ![s] = "get"] /\ todo' = [todo EXCEPT ![s] = <<>>]
      /\ dlq' = [f \in Families |-> unacked[s][f] \o dlq[f]]
      /\ unacked' = [unacked EXCEPT ![s] = [f \in Families |-> <<>>]]
      /\ UNCHANGED <<main, poison>>
  BY DEF Disconnect
<1>2. /\ pc'[s] = "get" /\ unacked'[s] = [f \in Families |-> <<>>]
      /\ \A r \in Sessions \ {s} : pc'[r] = pc[r] /\ todo'[r] = todo[r] /\ unacked'[r] = unacked[r]
  BY <1>1 DEF Sorted, TypeOK
<1>3. Few' /\ \A c \in Copies : Balance(s, c)
  BY <1>2, SessionMoves
<1>4. ASSUME NEW c \in Copies, NEW f \in Families, f = FamilyOf[c.id]
      PROVE  /\ Times(dlq[f], c) \in Nat
             /\ Times(dlq'[f], c) = Times(unacked[s][f], c) + Times(dlq[f], c)
             /\ Times(unacked[s][f], c) = Times(Undecided(s, f), c) + Tick(s \in Moving(c))
             /\ Times(Undecided(s, f)', c) = 0
  <2>1. unacked[s][f] \in Seq(Copies) /\ dlq[f] \in Seq(Copies)
    BY DEF Sorted, TypeOK
  <2>2. Times(dlq[f], c) \in Nat
    BY <2>1, TimesIsNatural
  <2>3. Times(unacked[s][f] \o dlq[f], c) = Times(unacked[s][f], c) + Times(dlq[f], c)
    BY <2>1, TimesOfConcat
  <2>4. Times(Undecided(s, f)', c) = 0
    <3>1. Undecided(s, f)' = <<>>
      BY <1>2 DEF Undecided
    <3> QED
      BY <3>1, TimesOfEmpty
  <2>5. Times(unacked[s][f], c) = Times(Undecided(s, f), c) + Tick(s \in Moving(c))
    <3>0. Times(Undecided(s, f), c) \in Nat
      BY <1>3, <1>4 DEF Balance
    <3>1. CASE pc[s] = "ack" /\ f = Current(s)
      <4>1. Undecided(s, f) = Front(unacked[s][f]) /\ unacked[s][f] # <<>>
        BY <3>1, AtWork DEF Undecided
      <4>2. s \in Moving(c) <=> c = Last(unacked[s][f])
        BY <3>1 DEF Moving, InHand
      <4>3. Times(unacked[s][f], c)
              = IF c = Last(unacked[s][f]) THEN Times(Front(unacked[s][f]), c) + 1
                ELSE Times(Front(unacked[s][f]), c)
        BY <2>1, <4>1, TimesOfFront
      <4> QED
        BY <3>0, <4>1, <4>2, <4>3 DEF Tick
    <3>2. CASE ~(pc[s] = "ack" /\ f = Current(s))
      <4>1. Undecided(s, f) = unacked[s][f]
        BY <3>2 DEF Undecided
      <4>2. s \notin Moving(c)
        BY <1>4, <3>2, AtWork DEF Moving, CopiesOf
      <4> QED
        BY <3>0, <4>1, <4>2 DEF Tick
    <3> QED
      BY <3>1, <3>2
  <2> QED
    BY <1>1, <2>2, <2>3, <2>4, <2>5
<1>5. \A c \in Copies : s \notin Moving(c)'
  BY <1>2 DEF Moving
<1>6. ASSUME NEW c \in Copies
      PROVE  /\ DlqBag[c] \in Nat /\ MovedBag[c] \in Nat /\ MovedBag'[c] \in Nat
             /\ DlqBag'[c] = DlqBag[c] + Tick(s \in Moving(c))
             /\ MovedBag[c] = MovedBag'[c] + Tick(s \in Moving(c))
  <2> DEFINE f == FamilyOf[c.id]
  <2>1. f \in Families
    BY OwnFamily
  <2>2. /\ DlqBag[c] = Times(dlq[f], c) + Cardinality(Held(c))
        /\ DlqBag'[c] = Times(dlq'[f], c) + Cardinality(Held(c)')
        /\ MovedBag[c] = Cardinality(Moving(c)) /\ MovedBag'[c] = Cardinality(Moving(c)')
    BY DEF DlqBag, MovedBag
  <2>3. /\ Times(dlq[f], c) \in Nat
        /\ Times(dlq'[f], c) = Times(unacked[s][f], c) + Times(dlq[f], c)
        /\ Times(unacked[s][f], c) = Times(Undecided(s, f), c) + Tick(s \in Moving(c))
        /\ Times(Undecided(s, f)', c) = 0
    BY <1>4, <2>1
  <2>4. /\ {Cardinality(Held(c)), Cardinality(Held(c)'), Times(Undecided(s, f), c)} \subseteq Nat
        /\ Cardinality(Held(c)') + Times(Undecided(s, f), c)
             = Cardinality(Held(c)) + Times(Undecided(s, f)', c)
        /\ {Cardinality(Moving(c)), Cardinality(Moving(c)')} \subseteq Nat
        /\ Cardinality(Moving(c)') + Tick(s \in Moving(c)) = Cardinality(Moving(c))
    BY <1>3, <1>5 DEF Balance, Tick
  <2> HIDE DEF f
  <2> QED
    BY <2>2, <2>3, <2>4 DEF Tick
<1>7. UNCHANGED <<AsBag(main), AsBag(poison)>>
  BY <1>1 DEF AsBag
<1> QED
  BY <1>3, <1>6, <1>7

LEMMA ExitKeeps ==
    ASSUME Sorted, Sorted', Few, NEW s \in Sessions, Exit(s) \/ Raise(s)
    PROVE  Kept
<1>1. /\ Few' /\ UNCHANGED <<AsBag(main), AsBag(poison)>>
      /\ \A c \in Copies :
            /\ DlqBag[c] \in Nat /\ MovedBag[c] \in Nat /\ MovedBag'[c] \in Nat
            /\ DlqBag'[c] = DlqBag[c] + Tick(s \in Moving(c))
            /\ MovedBag[c] = MovedBag'[c] + Tick(s \in Moving(c))
  BY DisconnectMoves DEF Exit, Raise
<1>2. \A c : s \notin Moving(c)
  BY DEF Exit, Raise, Moving, Sorted, Loop, InLoop
<1>3. \A c \in Copies : DlqBag'[c] = DlqBag[c] /\ MovedBag'[c] = MovedBag[c]
  BY <1>1, <1>2 DEF Tick
<1>4. UNCHANGED <<DlqBag, MovedBag>>
  BY <1>3 DEF DlqBag, MovedBag
<1>5. UNCHANGED <<processed, inspected, crashes>>
  BY DEF Exit, Raise, Disconnect
<1> QED
  BY <1>1, <1>4, <1>5 DEF Kept, Promise!vars

LEMMA DieKeeps ==
    ASSUME Sorted, Sorted', Few, NEW s \in Sessions, Die(s)
    PROVE  Kept
<1>1. /\ Few' /\ UNCHANGED <<AsBag(main), AsBag(poison)>>
      /\ \A c \in Copies :
            /\ DlqBag[c] \in Nat /\ MovedBag[c] \in Nat /\ MovedBag'[c] \in Nat
            /\ DlqBag'[c] = DlqBag[c] + Tick(s \in Moving(c))
            /\ MovedBag[c] = MovedBag'[c] + Tick(s \in Moving(c))
  BY DisconnectMoves DEF Die
<1>2. crashes' = crashes + 1 /\ UNCHANGED <<processed, inspected>>
  BY DEF Die, Disconnect
<1>3. CASE pc[s] = "ack"
  <2>1. InHand(s) \in Copies
    BY <1>3, AtWork DEF CopiesOf
  <2>2. PICK d \in Copies : d = InHand(s)
    BY <2>1
  <2>3. \A c \in Copies : s \in Moving(c) <=> c = d
    BY <1>3, <2>2 DEF Moving
  <2>4. ASSUME NEW c \in Copies
        PROVE  /\ DlqBag'[c] = IF c = d THEN DlqBag[c] + 1 ELSE DlqBag[c]
               /\ MovedBag'[c] = IF c = d THEN MovedBag[c] - 1 ELSE MovedBag[c]
               /\ c = d => MovedBag[c] > 0
    BY <1>1, <2>3 DEF Tick
  <2>5. MovedBag[d] > 0 /\ MovedBag' = [MovedBag EXCEPT ![d] = @ - 1]
    BY <2>4 DEF MovedBag
  <2>6. DlqBag' = [DlqBag EXCEPT ![d] = @ + 1]
    BY <2>4 DEF DlqBag
  <2>7. Promise!Take(MovedBag, d) /\ Promise!Put(DlqBag, d)
    BY <2>5, <2>6 DEF Promise!Take, Promise!Put
  <2>8. Promise!Crash
    BY <1>1, <1>2, <2>5, <2>6 DEF Promise!Crash, Promise!Take, Promise!Put, Promise!Copies, Copies
  <2> QED
    BY <1>1, <2>8 DEF Kept, Promise!Next
<1>4. CASE pc[s] # "ack"
  <2>1. \A c : s \notin Moving(c)
    BY <1>4 DEF Moving
  <2>2. \A c \in Copies : DlqBag'[c] = DlqBag[c] /\ MovedBag'[c] = MovedBag[c]
    BY <1>1, <2>1 DEF Tick
  <2>3. UNCHANGED <<DlqBag, MovedBag>>
    BY <2>2 DEF DlqBag, MovedBag
  <2>4. Promise!Crash
    BY <1>1, <1>2, <2>3 DEF Promise!Crash
  <2> QED
    BY <1>1, <2>4 DEF Kept, Promise!Next
<1> QED
  BY <1>3, <1>4

LEMMA StepKeeps ==
    ASSUME Sorted, Few, [Next]_vars
    PROVE  Sorted' /\ Kept
<1>1. Sorted'
  BY QueuesStep, LoopStep DEF Sorted
<1>2. CASE Next
  BY <1>1, <1>2, ConsumeKeeps, RejectKeeps, GetKeeps, PublishKeeps, DryRunKeeps, MoveOnKeeps,
     AckKeeps, ExitKeeps, DieKeeps DEF Next, Work
<1>3. CASE UNCHANGED vars
  <2>1. UNCHANGED <<main, dlq, poison, unacked, pc, todo, processed, inspected, crashes>>
    BY <1>3 DEF vars, queues, tool
  <2>2. Few' /\ UNCHANGED <<MovedBag, DlqBag>>
    BY <1>1, <2>1, NobodyMoves, DlqBagMoves
  <2>3. UNCHANGED <<AsBag(main), AsBag(poison)>>
    BY <2>1 DEF AsBag
  <2> QED
    BY <1>1, <2>1, <2>2, <2>3 DEF Kept, Promise!vars
<1> QED
  BY <1>1, <1>2, <1>3

-----------------------------------------------------------------------------
(* The beginning: every message once, in its consumer's queue or parked.   *)

LEMMA EachOnce ==
    ASSUME NEW S, IsFiniteSet(S)
    PROVE  /\ SetToSeq(S) \in Seq(S)
           /\ \A c : Times(SetToSeq(S), c) = IF c \in S THEN 1 ELSE 0
<1> DEFINE n == Cardinality(S)
           q == SetToSeq(S)
<1>1. n \in Nat /\ ExistsBijection(1..n, S)
  BY FS_CardinalityType
<1>2. PICK g \in [1..n -> S] : IsInjective(g)
  BY <1>1 DEF ExistsBijection, Bijection, Injection
<1>3. q \in [1..n -> S] /\ IsInjective(q)
  BY <1>2 DEF SetToSeq
<1>4. q \in Seq(S)
  BY <1>1, <1>3
<1>5. IsFiniteSet(1..n) /\ Cardinality(1..n) = n
  BY <1>1, FS_Interval
<1> HIDE DEF q
<1>6. q \in Surjection(1..n, S)
  <2>1. q \in Injection(1..n, S)
    BY <1>3 DEF Injection
  <2> QED
    BY <1>5, <2>1, FS_Injection
<1>7. ASSUME NEW c \in S PROVE Times(q, c) = 1
  <2>1. PICK i \in 1..n : q[i] = c
    BY <1>6 DEF Surjection
  <2>2. Positions(q, c) = {i}
    BY <1>3, <2>1 DEF Positions, IsInjective
  <2> QED
    BY <2>2, FS_Singleton DEF Times
<1>8. ASSUME NEW c, c \notin S PROVE Times(q, c) = 0
  <2>1. Positions(q, c) = {}
    BY <1>3, <1>8 DEF Positions
  <2> QED
    BY <2>1, FS_EmptySet DEF Times
<1> QED
  BY <1>4, <1>7, <1>8 DEF q

LEMMA FreshIsFinite ==
    ASSUME NEW f, NEW ms \in SUBSET Messages
    PROVE  IsFiniteSet(Fresh(f, ms)) /\ Fresh(f, ms) \subseteq CopiesOf(f)
<1> DEFINE own == {n \in ms : FamilyOf[n] = f}
           g == [m \in own |-> [id |-> m, deaths |-> 0]]
<1>1. IsFiniteSet(own)
  <2>1. own \in SUBSET Messages
    OBVIOUS
  <2> QED
    BY <2>1, FS_Subset, DlqCtlConstantsOK
<1>2. g \in Surjection(own, Fresh(f, ms))
  BY DEF Surjection, Fresh
<1> HIDE DEF g, own
<1>3. IsFiniteSet(Fresh(f, ms))
  BY <1>1, <1>2, FS_Surjection
<1> QED
  BY <1>3, DlqCtlConstantsOK DEF Fresh, CopiesOf, Copies

LEMMA InitKept == Init => Sorted /\ Few /\ Promise!Init
<1> SUFFICES ASSUME Init PROVE Sorted /\ Few /\ Promise!Init
  OBVIOUS
<1> USE DEF Init
<1>1. ASSUME NEW f \in Families, NEW ms \in SUBSET Messages
      PROVE  /\ SetToSeq(Fresh(f, ms)) \in Seq(CopiesOf(f))
             /\ SetToSeq(Fresh(f, ms)) \in Seq(Copies)
  <2>1. SetToSeq(Fresh(f, ms)) \in Seq(Fresh(f, ms))
    BY FreshIsFinite, EachOnce
  <2>2. Fresh(f, ms) \subseteq CopiesOf(f) /\ CopiesOf(f) \subseteq Copies
    BY FreshIsFinite DEF CopiesOf
  <2>3. SetToSeq(Fresh(f, ms)) \in Seq(CopiesOf(f))
    BY <2>1, <2>2, SubSequences
  <2> QED
    BY <2>2, <2>3, SubSequences
<1>0. Parked \in SUBSET Messages /\ Messages \ Parked \in SUBSET Messages
  BY DlqCtlConstantsOK
<1>2. \A S : <<>> \in Seq(S)
  BY EmptySeq
<1>3. Home
  BY <1>0, <1>1, <1>2 DEF Home
<1>4. TypeOK
  <2>1. main \in [Families -> Seq(Copies)] /\ dlq \in [Families -> Seq(Copies)]
    BY <1>0, <1>1
  <2>2. {Limit, MaxCrashes} \subseteq Nat
    BY DlqCtlConstantsOK
  <2>3. Plain
    BY <1>2, <2>2 DEF Plain, Quota
  <2>4. /\ poison \in [Families -> Seq(Copies)]
        /\ unacked \in [Sessions -> [Families -> Seq(Copies)]]
    BY <1>2
  <2> QED
    BY <2>1, <2>3, <2>4 DEF TypeOK, Plain
<1>5. Loop
  BY DEF Loop, InLoop
<1>6. ASSUME NEW c \in Copies
      PROVE  /\ Held(c) = {} /\ Moving(c) = {}
             /\ Times(poison[FamilyOf[c.id]], c) = 0
             /\ Times(main[FamilyOf[c.id]], c) = IF c.deaths = 0 /\ c.id \notin Parked THEN 1 ELSE 0
             /\ Times(dlq[FamilyOf[c.id]], c) = IF c.deaths = 0 /\ c.id \in Parked THEN 1 ELSE 0
  <2> DEFINE f == FamilyOf[c.id]
  <2>1. f \in Families
    BY OwnFamily
  <2>2. \A s \in Sessions : Undecided(s, f) = <<>> /\ s \notin Moving(c)
    BY <2>1 DEF Undecided, Moving
  <2>3. Held(c) = {}
    <3>1. Positions(<<>>, c) = {}
      BY TimesOfEmpty
    <3> QED
      BY <2>2, <3>1 DEF Held
  <2>4. Moving(c) = {}
    BY <2>2 DEF Moving
  <2>5. Times(poison[f], c) = 0
    <3>1. poison[f] = <<>>
      BY <2>1
    <3> QED
      BY <3>1, TimesOfEmpty
  <2>6. ASSUME NEW ms \in SUBSET Messages
        PROVE  Times(SetToSeq(Fresh(f, ms)), c) = IF c.deaths = 0 /\ c.id \in ms THEN 1 ELSE 0
    <3>1. c \in Fresh(f, ms) <=> c.deaths = 0 /\ c.id \in ms
      BY DEF Fresh, Copies
    <3>2. Times(SetToSeq(Fresh(f, ms)), c) = IF c \in Fresh(f, ms) THEN 1 ELSE 0
      BY FreshIsFinite, EachOnce
    <3> QED
      BY <3>1, <3>2
  <2>7. c.id \in Messages \ Parked <=> c.id \notin Parked
    BY DEF Copies
  <2> QED
    BY <1>0, <2>1, <2>3, <2>4, <2>5, <2>6, <2>7
<1>7. Few
  BY <1>6, FS_EmptySet DEF Few
<1>8. Promise!Init
  <2>1. \A c \in Copies : Cardinality(Held(c)) = 0 /\ Cardinality(Moving(c)) = 0
    BY <1>6, FS_EmptySet
  <2>2. Copies = Promise!Copies
    BY DEF Copies, Promise!Copies
  <2>3. /\ AsBag(main) = [c \in Copies |-> IF c.deaths = 0 /\ c.id \notin Parked THEN 1 ELSE 0]
        /\ AsBag(poison) = [c \in Copies |-> 0]
    BY <1>6 DEF AsBag
  <2>4. /\ DlqBag = [c \in Copies |-> IF c.deaths = 0 /\ c.id \in Parked THEN 1 ELSE 0]
        /\ MovedBag = [c \in Copies |-> 0]
    <3>1. \A c \in Copies : Times(dlq[FamilyOf[c.id]], c) + Cardinality(Held(c))
                               = IF c.deaths = 0 /\ c.id \in Parked THEN 1 ELSE 0
      <4> SUFFICES ASSUME NEW c \in Copies
                   PROVE  Times(dlq[FamilyOf[c.id]], c) + Cardinality(Held(c))
                            = IF c.deaths = 0 /\ c.id \in Parked THEN 1 ELSE 0
        OBVIOUS
      <4>1. Times(dlq[FamilyOf[c.id]], c) = IF c.deaths = 0 /\ c.id \in Parked THEN 1 ELSE 0
        BY <1>6
      <4>2. Cardinality(Held(c)) = 0
        BY <2>1
      <4> HIDE DEF Init
      <4> QED
        BY <4>1, <4>2
    <3> QED
      BY <2>1, <3>1 DEF DlqBag, MovedBag
  <2> QED
    BY <2>2, <2>3, <2>4 DEF Promise!Init
<1> QED
  BY <1>3, <1>4, <1>5, <1>7, <1>8 DEF Sorted

-----------------------------------------------------------------------------
(* What the promise's steps lose.                                          *)

Bags ==
    /\ AsBag(main) \in [Copies -> Nat]
    /\ DlqBag \in [Copies -> Nat]
    /\ AsBag(poison) \in [Copies -> Nat]

LEMMA BagsAreBags == Sorted /\ Few => Bags
<1> SUFFICES ASSUME Sorted, Few PROVE Bags
  OBVIOUS
<1>1. AsBag(main) \in [Copies -> Nat] /\ AsBag(dlq) \in [Copies -> Nat] /\ AsBag(poison) \in [Copies -> Nat]
  BY BagOf DEF Sorted, TypeOK
<1>2. \A c \in Copies : Cardinality(Held(c)) \in Nat
  BY FS_CardinalityType DEF Few
<1>3. DlqBag = [c \in Copies |-> AsBag(dlq)[c] + Cardinality(Held(c))]
  BY DEF DlqBag, AsBag
<1> QED
  BY <1>1, <1>2, <1>3 DEF Bags

LEMMA BagsAreBagsNext == Sorted' /\ Few' => Bags'
BY BagsAreBags, PTL

There(m) == \E c \in Copies : c.id = m /\ (AsBag(main)[c] > 0 \/ DlqBag[c] > 0 \/ AsBag(poison)[c] > 0)

\* OnlyInspectedIsLost, as the promise has it.
Accounted == \A m \in Messages : m \in processed \union inspected \/ There(m)

LEMMA AccountedStep ==
    ASSUME Bags, Bags', Accounted, Promise!Next \/ UNCHANGED Promise!vars
    PROVE  Accounted'
<1> USE DEF Accounted, There, Bags, Promise!Take, Promise!Put
<1> SUFFICES ASSUME NEW m \in Messages, ~(m \in processed \union inspected)'
             PROVE  There(m)'
  OBVIOUS
<1>0. Copies = Promise!Copies
  BY DEF Copies, Promise!Copies
<1>1. ASSUME UNCHANGED Promise!vars PROVE There(m)'
  BY <1>1 DEF Promise!vars
<1>2. ASSUME NEW c \in Copies, Promise!Consume(c) PROVE There(m)'
  BY <1>2 DEF Promise!Consume
<1>3. ASSUME NEW c \in Copies, Promise!Reject(c) PROVE There(m)'
  <2> DEFINE e == [c EXCEPT !.deaths = @ + 1]
  <2>1. e \in Copies /\ e.id = c.id
    BY <1>3, DlqCtlConstantsOK DEF Promise!Reject, Copies
  <2>2. /\ AsBag(main)' = [AsBag(main) EXCEPT ![c] = @ - 1]
        /\ DlqBag' = [DlqBag EXCEPT ![e] = @ + 1]
        /\ UNCHANGED <<AsBag(poison), processed, inspected>>
    BY <1>3 DEF Promise!Reject
  <2> HIDE DEF e
  <2> QED
    BY <2>1, <2>2
<1>4. ASSUME NEW c \in Copies, Promise!Replay(c) PROVE There(m)'
  BY <1>4 DEF Promise!Replay
<1>5. ASSUME NEW c \in Copies, Promise!Quarantine(c) PROVE There(m)'
  BY <1>5 DEF Promise!Quarantine
<1>6. ASSUME NEW c \in Copies, Promise!Inspect(c) PROVE There(m)'
  BY <1>6 DEF Promise!Inspect
<1>7. ASSUME NEW c \in Copies, Promise!Settle(c) PROVE There(m)'
  BY <1>7 DEF Promise!Settle
<1>8. ASSUME Promise!Crash PROVE There(m)'
  BY <1>0, <1>8 DEF Promise!Crash
<1> HIDE DEF There
<1> QED
  BY <1>0, <1>1, <1>2, <1>3, <1>4, <1>5, <1>6, <1>7, <1>8 DEF Promise!Next

-----------------------------------------------------------------------------
(* The theorems.                                                           *)

ToolInv == Sorted /\ Few /\ Accounted

LEMMA ToolInvStep ==
    ASSUME ToolInv, [Next]_vars
    PROVE  ToolInv' /\ (Promise!Next \/ UNCHANGED Promise!vars)
<1>1. Sorted' /\ Kept
  BY StepKeeps DEF ToolInv
<1>2. Few' /\ (Promise!Next \/ UNCHANGED Promise!vars)
  BY <1>1 DEF Kept
<1>3. Bags /\ Bags'
  BY <1>1, <1>2, BagsAreBags, BagsAreBagsNext DEF ToolInv
<1>4. Accounted'
  BY <1>2, <1>3, AccountedStep DEF ToolInv
<1> QED
  BY <1>1, <1>2, <1>4 DEF ToolInv

LEMMA InitToolInv == Init => ToolInv /\ Promise!Init
<1> SUFFICES ASSUME Init PROVE ToolInv /\ Promise!Init
  OBVIOUS
<1>1. Sorted /\ Few /\ Promise!Init
  BY InitKept
<1>2. ASSUME NEW m \in Messages PROVE There(m)
  <2> DEFINE c == [id |-> m, deaths |-> 0]
  <2>1. c \in Copies /\ c.id = m /\ c.deaths = 0
    BY DlqCtlConstantsOK DEF Copies
  <2>2. AsBag(main)[c] = 1 \/ DlqBag[c] = 1
    BY <1>1, <2>1 DEF Promise!Init, Promise!Copies, Copies
  <2> HIDE DEF c
  <2> QED
    BY <2>1, <2>2 DEF There
<1> QED
  BY <1>1, <1>2 DEF ToolInv, Accounted

LEMMA AlwaysToolInv == Spec => []ToolInv
<1>1. Init => ToolInv
  BY InitToolInv
<1>2. ToolInv /\ [Next]_vars => ToolInv'
  BY ToolInvStep
<1> QED
  BY <1>1, <1>2, PTL DEF Spec

\* Queues, deliveries and sessions stay what they are meant to be, however
\* often the loops run: in particular no command works on more messages of a
\* queue than its quota (dlqctl.py:50, :84, :119).
THEOREM TypeCorrect == Spec => []TypeOK
<1>1. ToolInv => TypeOK
  BY DEF ToolInv, Sorted
<1> QED
  BY <1>1, AlwaysToolInv, PTL

\* dlqctl keeps the promise of DeadLetters: every step, a session's death
\* between publishing and acknowledging included, moves at most one copy, to
\* the queue its deaths call for, and doubles a copy only by dying
\* (dlqctl.py:84-107).
THEOREM KeepsThePromise == Spec => KeepsReplayPromise
<1>1. Init => Promise!Init
  BY InitToolInv
<1>2. ToolInv /\ [Next]_vars => [Promise!Next]_(Promise!vars)
  BY ToolInvStep
<1> QED
  BY <1>1, <1>2, AlwaysToolInv, PTL DEF Spec, KeepsReplayPromise, Promise!Spec

LEMMA PositionsAreOccurrences ==
    ASSUME NEW q \in Seq(Copies), NEW c \in Copies, Positions(q, c) # {}
    PROVE  Occurrences(q, c.id) \in Nat /\ Occurrences(q, c.id) > 0
<1> DEFINE at == {i \in DOMAIN q : q[i].id = c.id}
<1>1. Len(q) \in Nat /\ DOMAIN q = 1..Len(q)
  BY LenProperties
<1>2. IsFiniteSet(1..Len(q)) /\ at \in SUBSET (1..Len(q))
  BY <1>1, FS_Interval
<1>3. at # {}
  BY DEF Positions
<1> HIDE DEF at
<1>4. IsFiniteSet(at) /\ Cardinality(at) \in Nat /\ Cardinality(at) # 0
  BY <1>2, <1>3, FS_Subset, FS_CardinalityType, FS_EmptySet
<1> QED
  BY <1>4 DEF at, Occurrences

LEMMA OccurrencesAreNatural ==
    ASSUME NEW q \in Seq(Copies), NEW m
    PROVE  Occurrences(q, m) \in Nat
<1> DEFINE at == {i \in DOMAIN q : q[i].id = m}
<1>1. Len(q) \in Nat /\ DOMAIN q = 1..Len(q)
  BY LenProperties
<1>2. IsFiniteSet(1..Len(q)) /\ at \in SUBSET (1..Len(q))
  BY <1>1, FS_Interval
<1> HIDE DEF at
<1> QED
  BY <1>2, FS_Subset, FS_CardinalityType DEF at, Occurrences

\* A message that no consumer took and no inspection removed is in a queue, or
\* with a session that has it requeued when it ends: publishing before the ack
\* loses nothing, whoever dies and whatever overlaps (dlqctl.py:92-106).
THEOREM OnlyInspectedIsEverLost == Spec => []OnlyInspectedIsLost
<1>1. ToolInv => OnlyInspectedIsLost
  <2> SUFFICES ASSUME ToolInv, NEW m \in Messages, m \notin processed \union inspected
               PROVE  Queued(m) > 0 \/ \E s \in Sessions : Delivered(s, m) > 0
    BY DEF OnlyInspectedIsLost
  <2> DEFINE f == FamilyOf[m]
  <2>1. PICK c \in Copies : c.id = m /\ (AsBag(main)[c] > 0 \/ DlqBag[c] > 0 \/ AsBag(poison)[c] > 0)
    BY DEF ToolInv, Accounted, There
  <2>2. /\ f \in Families /\ main[f] \in Seq(Copies) /\ dlq[f] \in Seq(Copies)
        /\ poison[f] \in Seq(Copies) /\ \A s \in Sessions : unacked[s][f] \in Seq(Copies)
    BY DlqCtlConstantsOK DEF ToolInv, Sorted, TypeOK
  <2>3. /\ AsBag(main)[c] = Times(main[f], c) /\ AsBag(poison)[c] = Times(poison[f], c)
        /\ DlqBag[c] = Times(dlq[f], c) + Cardinality(Held(c))
    BY <2>1 DEF AsBag, DlqBag
  <2> HIDE DEF f
  <2>4. /\ Times(main[f], c) \in Nat /\ Times(dlq[f], c) \in Nat /\ Times(poison[f], c) \in Nat
        /\ Occurrences(main[f], m) \in Nat /\ Occurrences(dlq[f], m) \in Nat
        /\ Occurrences(poison[f], m) \in Nat
    BY <2>2, TimesIsNatural, OccurrencesAreNatural
  <2>5. Queued(m) = Occurrences(main[f], m) + Occurrences(dlq[f], m) + Occurrences(poison[f], m)
    BY DEF Queued, f
  <2>6. ASSUME NEW q \in Seq(Copies), Times(q, c) > 0
        PROVE  Occurrences(q, m) > 0
    <3>1. Cardinality(Positions(q, c)) # 0
      BY <2>6 DEF Times
    <3>2. Positions(q, c) # {}
      BY <3>1, FS_EmptySet
    <3> QED
      BY <2>1, <3>2, PositionsAreOccurrences
  <2>7. CASE Times(main[f], c) > 0 \/ Times(dlq[f], c) > 0 \/ Times(poison[f], c) > 0
    <3>1. Occurrences(main[f], m) > 0 \/ Occurrences(dlq[f], m) > 0 \/ Occurrences(poison[f], m) > 0
      BY <2>2, <2>6, <2>7
    <3> QED
      BY <2>4, <2>5, <3>1
  <2>8. CASE Cardinality(Held(c)) > 0
    <3>1. Held(c) # {}
      BY <2>8, FS_EmptySet
    <3>2. PICK s \in Sessions : Positions(Undecided(s, f), c) # {}
      BY <2>1, <3>1 DEF Held, f
    <3>3. Positions(unacked[s][f], c) # {}
      <4>1. CASE pc[s] = "ack" /\ f = Current(s)
        <5>1. unacked[s][f] # <<>> /\ Undecided(s, f) = Front(unacked[s][f])
          BY <4>1, AtWork DEF Undecided, ToolInv
        <5>2. Positions(Front(unacked[s][f]), c) \subseteq Positions(unacked[s][f], c)
          BY <2>2, <5>1, TimesOfFront
        <5> QED
          BY <3>2, <5>1, <5>2
      <4>2. CASE ~(pc[s] = "ack" /\ f = Current(s))
        BY <3>2, <4>2 DEF Undecided
      <4> QED
        BY <4>1, <4>2
    <3>4. Occurrences(unacked[s][f], m) > 0
      BY <2>1, <2>2, <3>3, PositionsAreOccurrences
    <3>5. Delivered(s, m) > 0
      BY <3>4 DEF Delivered, f
    <3> QED
      BY <3>5
  <2>9. Cardinality(Held(c)) \in Nat
    BY FS_CardinalityType DEF ToolInv, Few
  <2> QED
    BY <2>1, <2>3, <2>4, <2>7, <2>8, <2>9
<1> QED
  BY <1>1, AlwaysToolInv, PTL
=============================================================================
