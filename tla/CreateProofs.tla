---------------------------- MODULE CreateProofs ----------------------------
(***************************************************************************)
(* What an idempotent create guarantees for any number of requests, keys,  *)
(* replicas, connections, packages and failures, and whichever replicas    *)
(* are Recognising: of the service first, for every behaviour of           *)
(* IdempotentCreate, then of a client that retries through the gateway,    *)
(* for every behaviour of CreateRetries.                                   *)
(*                                                                         *)
(* CreateInv is inductive: each of its conjuncts is preserved by every     *)
(* step, in a lemma of its own.  The steps of a lemma follow Next: the     *)
(* requests that arrive, the handler's steps, the ones that go wrong, the  *)
(* database server's, a crash, and the steps that change nothing.          *)
(*                                                                         *)
(* A step of CreateRetries is a step of the service, or leaves it alone    *)
(* but for the count of failures, so the second part uses what the first   *)
(* shows of the service's steps as it stands.                              *)
(***************************************************************************)
EXTENDS CreateRetries, FiniteSetTheorems, TLAPS

\* Before the first request there is nothing to be wrong about.
LEMMA InitInv == Init => CreateInv
BY ConstantsOK
   DEF Init, CreateInv, TypeOK, StepsInOrder, CompleteBeforeCommit, KeyClaimedOnce,
       AnswerIsLast, HeldByStep, AnswersAreDurable, Claims, PCs, InFlight, InTx,
       Codes, TxStates

\* The pool counters stay natural numbers because Acquire waits for one.
LEMMA TypeOKStep == CreateInv /\ [Next]_vars => TypeOK'
<1> SUFFICES ASSUME CreateInv, [Next]_vars PROVE TypeOK'
  OBVIOUS
<1> USE ConstantsOK DEF CreateInv, TypeOK, HeldByStep, Codes, TxStates, PCs,
        InFlight, InTx,
        routing, service, rows, GoTo, Finish, Acquire, SetTx, Fault, Rivals
<1>1. ASSUME NEW r \in Requests, Receive(r) \/ Refuse(r) PROVE TypeOK'
  BY <1>1 DEF Receive, Refuse
<1>2. ASSUME NEW r \in Requests, Handle(r) PROVE TypeOK'
  <2>1. CASE Begin(r) \/ AcquireForLookup(r)
    BY <2>1 DEF Begin, AcquireForLookup
  <2>2. CASE Insert(r) \/ WriteAudit(r) \/ SendCommit(r)
    BY <2>2 DEF Insert, WriteAudit, SendCommit
  <2>3. CASE InsertPackage(r)
    BY <2>3 DEF InsertPackage, StepsInOrder
  <2>4. CASE DuplicateKey(r)
    BY <2>4 DEF DuplicateKey
  <2>5. CASE SelectExisting(r) \/ CommitRefused(r) \/ AnswerCreated(r)
    BY <2>5 DEF SelectExisting, CommitRefused, AnswerCreated
  <2> QED
    BY <1>2, <2>1, <2>2, <2>3, <2>4, <2>5 DEF Handle
<1>3. ASSUME NEW r \in Requests, Break(r) PROVE TypeOK'
  BY <1>3 DEF Break, AuditFails, StatementFails, Abandon
<1>4. ASSUME NEW r \in Requests, Serve(r) PROVE TypeOK'
  BY <1>4 DEF Serve, ServerCommits, ServerRollsBack
<1>5. ASSUME NEW p \in Replicas, Crash(p) PROVE TypeOK'
  BY <1>5 DEF Crash
<1>6. CASE Finished \/ UNCHANGED vars
  BY <1>6 DEF Finished, vars
<1> QED
  BY <1>1, <1>2, <1>3, <1>4, <1>5, <1>6 DEF Next

\* The handler leaves a step only with that step's work done.
LEMMA StepsInOrderStep == CreateInv /\ [Next]_vars => StepsInOrder'
<1> SUFFICES ASSUME CreateInv, [Next]_vars PROVE StepsInOrder'
  OBVIOUS
<1> USE ConstantsOK DEF CreateInv, TypeOK, StepsInOrder, CompleteBeforeCommit,
        PCs, InFlight, InTx,
        routing, service, rows, GoTo, Finish, Acquire, SetTx, Fault, Rivals
<1>1. ASSUME NEW r \in Requests, Receive(r) \/ Refuse(r) PROVE StepsInOrder'
  BY <1>1 DEF Receive, Refuse
<1>2. ASSUME NEW r \in Requests, Handle(r) PROVE StepsInOrder'
  <2>1. CASE \/ DuplicateKey(r) \/ SelectExisting(r)
             \/ CommitRefused(r) \/ AnswerCreated(r)
    BY <2>1 DEF DuplicateKey, SelectExisting, CommitRefused, AnswerCreated
  <2>2. CASE \/ Begin(r) \/ Insert(r)
             \/ AcquireForLookup(r) \/ InsertPackage(r)
             \/ WriteAudit(r) \/ SendCommit(r)
    BY <2>2 DEF Begin, Insert, AcquireForLookup, InsertPackage,
        WriteAudit, SendCommit
  <2> QED
    BY <1>2, <2>1, <2>2 DEF Handle
<1>3. ASSUME NEW r \in Requests, Break(r) PROVE StepsInOrder'
  BY <1>3 DEF Break, AuditFails, StatementFails, Abandon
<1>4. ASSUME NEW r \in Requests, Serve(r) PROVE StepsInOrder'
  BY <1>4 DEF Serve, ServerCommits, ServerRollsBack
<1>5. ASSUME NEW p \in Replicas, Crash(p) PROVE StepsInOrder'
  BY <1>5 DEF Crash
<1>6. CASE Finished \/ UNCHANGED vars
  BY <1>6 DEF Finished, vars
<1> QED
  BY <1>1, <1>2, <1>3, <1>4, <1>5, <1>6 DEF Next

\* Only SendCommit makes a transaction commit, and it needs the audit row.
LEMMA CompleteBeforeCommitStep == CreateInv /\ [Next]_vars => CompleteBeforeCommit'
<1> SUFFICES ASSUME CreateInv, [Next]_vars PROVE CompleteBeforeCommit'
  OBVIOUS
<1> USE ConstantsOK DEF CreateInv, TypeOK, CompleteBeforeCommit, StepsInOrder,
        PCs, InFlight, InTx,
        routing, service, rows, GoTo, Finish, Acquire, SetTx, Fault, Rivals
<1>1. ASSUME NEW r \in Requests, Receive(r) \/ Refuse(r) PROVE CompleteBeforeCommit'
  BY <1>1 DEF Receive, Refuse
<1>2. ASSUME NEW r \in Requests, Handle(r) PROVE CompleteBeforeCommit'
  <2>1. CASE SendCommit(r)
    BY <2>1 DEF SendCommit
  <2>2. CASE \/ Begin(r) \/ Insert(r)
             \/ DuplicateKey(r) \/ AcquireForLookup(r)
             \/ SelectExisting(r) \/ InsertPackage(r) \/ WriteAudit(r)
             \/ CommitRefused(r) \/ AnswerCreated(r)
    BY <2>2 DEF Begin, Insert, DuplicateKey, AcquireForLookup,
        SelectExisting, InsertPackage, WriteAudit, CommitRefused,
        AnswerCreated
  <2> QED
    BY <1>2, <2>1, <2>2 DEF Handle
<1>3. ASSUME NEW r \in Requests, Break(r) PROVE CompleteBeforeCommit'
  BY <1>3 DEF Break, AuditFails, StatementFails, Abandon
<1>4. ASSUME NEW r \in Requests, Serve(r) PROVE CompleteBeforeCommit'
  BY <1>4 DEF Serve, ServerCommits, ServerRollsBack
<1>5. ASSUME NEW p \in Replicas, Crash(p) PROVE CompleteBeforeCommit'
  BY <1>5 DEF Crash
<1>6. CASE Finished \/ UNCHANGED vars
  BY <1>6 DEF Finished, vars
<1> QED
  BY <1>1, <1>2, <1>3, <1>4, <1>5, <1>6 DEF Next

\* Only Insert claims a key, and it waits until nobody else does.
LEMMA KeyClaimedOnceStep == CreateInv /\ [Next]_vars => KeyClaimedOnce'
<1> SUFFICES ASSUME CreateInv, [Next]_vars PROVE KeyClaimedOnce'
  OBVIOUS
<1> USE ConstantsOK DEF CreateInv, TypeOK, KeyClaimedOnce, StepsInOrder,
        Claims, PCs, InFlight, InTx,
        routing, service, rows, GoTo, Finish, Acquire, SetTx, Fault, Rivals
<1>1. ASSUME NEW r \in Requests, Receive(r) \/ Refuse(r) PROVE KeyClaimedOnce'
  BY <1>1 DEF Receive, Refuse
<1>2. ASSUME NEW r \in Requests, Handle(r) PROVE KeyClaimedOnce'
  <2>1. CASE Insert(r)
    BY <2>1 DEF Insert
  <2>2. CASE \/ Begin(r) \/ DuplicateKey(r)
             \/ AcquireForLookup(r) \/ SelectExisting(r)
             \/ InsertPackage(r) \/ WriteAudit(r) \/ SendCommit(r)
             \/ CommitRefused(r) \/ AnswerCreated(r)
    BY <2>2 DEF Begin, DuplicateKey, AcquireForLookup, SelectExisting,
        InsertPackage, WriteAudit, SendCommit, CommitRefused,
        AnswerCreated
  <2> QED
    BY <1>2, <2>1, <2>2 DEF Handle
<1>3. ASSUME NEW r \in Requests, Break(r) PROVE KeyClaimedOnce'
  BY <1>3 DEF Break, AuditFails, StatementFails, Abandon
<1>4. ASSUME NEW r \in Requests, Serve(r) PROVE KeyClaimedOnce'
  BY <1>4 DEF Serve, ServerCommits, ServerRollsBack
<1>5. ASSUME NEW p \in Replicas, Crash(p) PROVE KeyClaimedOnce'
  BY <1>5 DEF Crash
<1>6. CASE Finished \/ UNCHANGED vars
  BY <1>6 DEF Finished, vars
<1> QED
  BY <1>1, <1>2, <1>3, <1>4, <1>5, <1>6 DEF Next

\* The steps that answer are the ones that end the handler.
LEMMA AnswerIsLastStep == CreateInv /\ [Next]_vars => AnswerIsLast'
<1> SUFFICES ASSUME CreateInv, [Next]_vars PROVE AnswerIsLast'
  OBVIOUS
<1> USE ConstantsOK DEF CreateInv, TypeOK, AnswerIsLast, PCs, InFlight, InTx,
        routing, service, rows, GoTo, Finish, Acquire, SetTx, Fault, Rivals
<1>1. ASSUME NEW r \in Requests, Receive(r) \/ Refuse(r) PROVE AnswerIsLast'
  BY <1>1 DEF Receive, Refuse
<1>2. ASSUME NEW r \in Requests, Handle(r) PROVE AnswerIsLast'
  BY <1>2 DEF Handle, Begin, Insert, DuplicateKey, AcquireForLookup,
      SelectExisting, InsertPackage,
      WriteAudit, SendCommit, CommitRefused, AnswerCreated
<1>3. ASSUME NEW r \in Requests, Break(r) PROVE AnswerIsLast'
  BY <1>3 DEF Break, AuditFails, StatementFails, Abandon
<1>4. ASSUME NEW r \in Requests, Serve(r) PROVE AnswerIsLast'
  BY <1>4 DEF Serve, ServerCommits, ServerRollsBack
<1>5. ASSUME NEW p \in Replicas, Crash(p) PROVE AnswerIsLast'
  BY <1>5 DEF Crash
<1>6. CASE Finished \/ UNCHANGED vars
  BY <1>6 DEF Finished, vars
<1> QED
  BY <1>1, <1>2, <1>3, <1>4, <1>5, <1>6 DEF Next

\* A second connection is held for the lookup only.
LEMMA HeldByStepStep == CreateInv /\ [Next]_vars => HeldByStep'
<1> SUFFICES ASSUME CreateInv, [Next]_vars PROVE HeldByStep'
  OBVIOUS
<1> USE ConstantsOK DEF CreateInv, TypeOK, HeldByStep, PCs, InFlight, InTx,
        routing, service, rows, GoTo, Finish, Acquire, SetTx, Fault, Rivals
<1>1. ASSUME NEW r \in Requests, Receive(r) \/ Refuse(r) PROVE HeldByStep'
  BY <1>1 DEF Receive, Refuse
<1>2. ASSUME NEW r \in Requests, Handle(r) PROVE HeldByStep'
  BY <1>2 DEF Handle, Begin, Insert, DuplicateKey, AcquireForLookup,
      SelectExisting, InsertPackage,
      WriteAudit, SendCommit, CommitRefused, AnswerCreated
<1>3. ASSUME NEW r \in Requests, Break(r) PROVE HeldByStep'
  BY <1>3 DEF Break, AuditFails, StatementFails, Abandon
<1>4. ASSUME NEW r \in Requests, Serve(r) PROVE HeldByStep'
  BY <1>4 DEF Serve, ServerCommits, ServerRollsBack
<1>5. ASSUME NEW p \in Replicas, Crash(p) PROVE HeldByStep'
  BY <1>5 DEF Crash
<1>6. CASE Finished \/ UNCHANGED vars
  BY <1>6 DEF Finished, vars
<1> QED
  BY <1>1, <1>2, <1>3, <1>4, <1>5, <1>6 DEF Next

\* The two positive answers name a committed row, and commits last.
LEMMA AnswersAreDurableStep == CreateInv /\ [Next]_vars => AnswersAreDurable'
<1> SUFFICES ASSUME CreateInv, [Next]_vars PROVE AnswersAreDurable'
  OBVIOUS
<1> USE ConstantsOK DEF CreateInv, TypeOK, AnswersAreDurable, AnswerIsLast,
        CompleteBeforeCommit, StepsInOrder, Committed, PCs, InFlight, InTx,
        routing, service, rows, GoTo, Finish, Acquire, SetTx, Fault, Rivals
<1>1. ASSUME NEW r \in Requests, Receive(r) \/ Refuse(r) PROVE AnswersAreDurable'
  BY <1>1 DEF Receive, Refuse
<1>2. ASSUME NEW r \in Requests, Handle(r) PROVE AnswersAreDurable'
  <2>1. CASE AnswerCreated(r)
    BY <2>1 DEF AnswerCreated
  <2>2. CASE SelectExisting(r)
    BY <2>2 DEF SelectExisting
  <2>3. CASE \/ Begin(r) \/ Insert(r)
             \/ DuplicateKey(r) \/ AcquireForLookup(r)
             \/ InsertPackage(r) \/ WriteAudit(r)
             \/ SendCommit(r) \/ CommitRefused(r)
    BY <2>3 DEF Begin, Insert, DuplicateKey, AcquireForLookup,
        InsertPackage, WriteAudit, SendCommit, CommitRefused
  <2> QED
    BY <1>2, <2>1, <2>2, <2>3 DEF Handle
<1>3. ASSUME NEW r \in Requests, Break(r) PROVE AnswersAreDurable'
  BY <1>3 DEF Break, AuditFails, StatementFails, Abandon
<1>4. ASSUME NEW r \in Requests, Serve(r) PROVE AnswersAreDurable'
  BY <1>4 DEF Serve, ServerCommits, ServerRollsBack
<1>5. ASSUME NEW p \in Replicas, Crash(p) PROVE AnswersAreDurable'
  BY <1>5 DEF Crash
<1>6. CASE Finished \/ UNCHANGED vars
  BY <1>6 DEF Finished, vars
<1> QED
  BY <1>1, <1>2, <1>3, <1>4, <1>5, <1>6 DEF Next

\* No step of the service leaves CreateInv.
LEMMA CreateInvStep == CreateInv /\ [Next]_vars => CreateInv'
BY TypeOKStep, StepsInOrderStep, CompleteBeforeCommitStep, KeyClaimedOnceStep,
   AnswerIsLastStep, HeldByStepStep, AnswersAreDurableStep DEF CreateInv

\* CreateInv holds in every reachable state: the strengthening the safety
\* properties of the create handler rest on.
THEOREM CreateInvariant == Spec => []CreateInv
BY InitInv, CreateInvStep, PTL DEF Spec

\* The variables keep their types.
THEOREM TypeCorrect == Spec => []TypeOK
<1>1. CreateInv => TypeOK
  BY DEF CreateInv
<1> QED
  BY <1>1, CreateInvariant, PTL

\* A key names at most one committed shipment (the insert at shipment.go:167
\* against the UNIQUE column of 002_add_idempotency.sql).
THEOREM OneShipmentPerKeyHolds == Spec => []OneShipmentPerKey
<1>1. CreateInv => OneShipmentPerKey
  BY DEF CreateInv, KeyClaimedOnce, Claims, OneShipmentPerKey, Committed
<1> QED
  BY <1>1, CreateInvariant, PTL

\* No committed shipment lacks a package or its audit row, although the audit
\* statement's error is dropped at shipment.go:185.
THEOREM CommittedIsCompleteHolds == Spec => []CommittedIsComplete
<1>1. CreateInv => CommittedIsComplete
  BY DEF CreateInv, CompleteBeforeCommit, CommittedIsComplete, Committed
<1> QED
  BY <1>1, CreateInvariant, PTL

\* 201 and 200 name a committed shipment that carries the request's key.
THEOREM AnswersAreDurableHolds == Spec => []AnswersAreDurable
<1>1. CreateInv => AnswersAreDurable
  BY DEF CreateInv
<1> QED
  BY <1>1, CreateInvariant, PTL

\* Requests with one key are never told of two shipments.
THEOREM SameKeySameShipmentHolds == Spec => []SameKeySameShipment
<1>1. CreateInv => SameKeySameShipment
  <2> SUFFICES ASSUME CreateInv, NEW r \in Requests, NEW s \in Requests,
                      key[r] = key[s],
                      code[r] \in {"created", "replayed"},
                      code[s] \in {"created", "replayed"}
               PROVE  answer[r] = answer[s]
    BY DEF SameKeySameShipment
  <2>1. PICK u \in Requests : answer[r] = u /\ Committed(u) /\ key[u] = key[r]
    BY DEF CreateInv, AnswersAreDurable
  <2>2. PICK v \in Requests : answer[s] = v /\ Committed(v) /\ key[v] = key[s]
    BY DEF CreateInv, AnswersAreDurable
  <2>3. Claims(u) /\ Claims(v)
    BY <2>1, <2>2 DEF Claims, Committed
  <2> QED
    BY <2>1, <2>2, <2>3 DEF CreateInv, KeyClaimedOnce
<1> QED
  BY <1>1, CreateInvariant, PTL

-----------------------------------------------------------------------------
(* The pool.                                                               *)

\* ConnsAccounted counts sets, which must be finite to be counted.
PoolInv ==
    /\ ConnsAccounted
    /\ \A p \in Replicas : IsFiniteSet(Holding(p, 1)) /\ IsFiniteSet(Holding(p, 2))

\* One handler takes or gives back connections, and the pool of its replica
\* has that many less or more.
LEMMA PoolMoves ==
    ASSUME TypeOK, PoolInv, NEW r \in Requests, NEW n \in 0..2,
           at' = at, held' = [held EXCEPT ![r] = n],
           \A p \in Replicas :
              free'[p] = free[p] + IF p = at[r] THEN held[r] - n ELSE 0
    PROVE  PoolInv'
<1> SUFFICES ASSUME NEW p \in Replicas
             PROVE  /\ free'[p] + Cardinality(Holding(p, 1)') + Cardinality(Holding(p, 2)')
                           = MaxConns
                    /\ IsFiniteSet(Holding(p, 1)') /\ IsFiniteSet(Holding(p, 2)')
  BY DEF PoolInv, ConnsAccounted
<1>1. /\ IsFiniteSet(Holding(p, 1)) /\ IsFiniteSet(Holding(p, 2))
      /\ free[p] + Cardinality(Holding(p, 1)) + Cardinality(Holding(p, 2)) = MaxConns
  BY DEF PoolInv, ConnsAccounted
<1>2. /\ Cardinality(Holding(p, 1)) \in Nat /\ Cardinality(Holding(p, 2)) \in Nat
      /\ free[p] \in Nat /\ held[r] \in 0..2 /\ MaxConns \in Nat
  BY <1>1, FS_CardinalityType, ConstantsOK DEF TypeOK
<1>3. CASE at[r] # p
  <2>1. Holding(p, 1)' = Holding(p, 1) /\ Holding(p, 2)' = Holding(p, 2)
    BY <1>3 DEF Holding, TypeOK
  <2>2. free'[p] = free[p]
    BY <1>2, <1>3
  <2> QED
    BY <1>1, <2>1, <2>2
<1>4. CASE at[r] = p
  <2>1. ASSUME NEW k \in 1..2
        PROVE  /\ r \in Holding(p, k) <=> held[r] >= k
               /\ Holding(p, k)' = IF n >= k THEN Holding(p, k) \union {r}
                                             ELSE Holding(p, k) \ {r}
    BY <1>4 DEF Holding, TypeOK
  <2>2. ASSUME NEW k \in 1..2
        PROVE  /\ IsFiniteSet(Holding(p, k)')
               /\ Cardinality(Holding(p, k)')
                     = Cardinality(Holding(p, k)) + (IF n >= k THEN 1 ELSE 0)
                                                  - (IF held[r] >= k THEN 1 ELSE 0)
    <3> DEFINE H == Holding(p, k)
    <3>1. IsFiniteSet(H) /\ Cardinality(H) \in Nat
      BY <1>1, <1>2
    <3>2. /\ IsFiniteSet(H \union {r})
          /\ Cardinality(H \union {r}) = IF r \in H THEN Cardinality(H) ELSE Cardinality(H) + 1
      BY <3>1, FS_AddElement
    <3>3. /\ IsFiniteSet(H \ {r})
          /\ Cardinality(H \ {r}) = IF r \in H THEN Cardinality(H) - 1 ELSE Cardinality(H)
      BY <3>1, FS_RemoveElement
    <3>4. /\ r \in H <=> held[r] >= k
          /\ Holding(p, k)' = IF n >= k THEN H \union {r} ELSE H \ {r}
      BY <2>1
    <3>5. H = Holding(p, k)
      OBVIOUS
    <3> HIDE DEF H
    <3> QED
      BY <3>1, <3>2, <3>3, <3>4, <3>5
  <2>3. free'[p] = free[p] + held[r] - n
    BY <1>2, <1>4
  <2> QED
    BY <1>1, <1>2, <2>2, <2>3
<1> QED
  BY <1>3, <1>4

\* A handler that holds a connection is in flight, so a crash takes all that
\* the replica's handlers hold, and the new pool is full.
LEMMA PoolRestarts ==
    ASSUME CreateInv, PoolInv, NEW p \in Replicas, Crash(p)
    PROVE  PoolInv'
<1>1. ASSUME NEW q \in Replicas, NEW k \in 1..2
      PROVE  Holding(q, k)' = IF q = p THEN {} ELSE Holding(q, k)
  BY DEF Crash, Holding, routing, CreateInv, HeldByStep, TypeOK, InFlight, InTx
<1>2. \A q \in Replicas : free'[q] = IF q = p THEN MaxConns ELSE free[q]
  BY DEF Crash, CreateInv, TypeOK
<1> QED
  BY <1>1, <1>2, FS_EmptySet, ConstantsOK DEF PoolInv, ConnsAccounted

\* Every path out of the handler gives back what it holds.
LEMMA PoolInvStep == CreateInv /\ PoolInv /\ [Next]_vars => PoolInv'
<1> SUFFICES ASSUME CreateInv, PoolInv, [Next]_vars PROVE PoolInv'
  OBVIOUS
<1>0. TypeOK /\ HeldByStep
  BY DEF CreateInv
<1>1. ASSUME UNCHANGED <<at, held, free>> PROVE PoolInv'
  BY <1>1 DEF PoolInv, ConnsAccounted, Holding
<1>2. ASSUME NEW r \in Requests, NEW c, NEW id, Finish(r, c, id), at' = at PROVE PoolInv'
  <2>1. \A p \in Replicas : free'[p] = free[p] + IF p = at[r] THEN held[r] - 0 ELSE 0
    BY <1>0, <1>2 DEF Finish, TypeOK
  <2>2. held' = [held EXCEPT ![r] = 0] /\ 0 \in 0..2
    BY <1>2 DEF Finish
  <2> QED
    BY <1>0, <1>2, <2>1, <2>2, PoolMoves
<1>3. ASSUME NEW r \in Requests, Acquire(r), held[r] < 2, at' = at PROVE PoolInv'
  <2>1. held[r] + 1 \in 0..2
    BY <1>0, <1>3 DEF TypeOK
  <2>2. \A p \in Replicas :
            free'[p] = free[p] + IF p = at[r] THEN held[r] - (held[r] + 1) ELSE 0
    BY <1>0, <1>3 DEF Acquire, TypeOK
  <2>3. held' = [held EXCEPT ![r] = held[r] + 1]
    BY <1>3 DEF Acquire
  <2> QED
    BY <1>0, <1>3, <2>1, <2>2, <2>3, PoolMoves
<1> USE DEF routing, service
<1>4. ASSUME NEW r \in Requests, Receive(r) \/ Refuse(r) PROVE PoolInv'
  BY <1>1, <1>2, <1>4 DEF Receive, Refuse
<1>5. ASSUME NEW r \in Requests, Handle(r) PROVE PoolInv'
  <2>1. CASE Begin(r) \/ AcquireForLookup(r)
    BY <1>0, <1>3, <2>1 DEF Begin, AcquireForLookup, HeldByStep, InTx
  <2>2. CASE DuplicateKey(r)
    BY <1>1, <1>2, <2>2 DEF DuplicateKey
  <2>3. CASE SelectExisting(r)
    BY <1>2, <2>3 DEF SelectExisting
  <2>4. CASE CommitRefused(r) \/ AnswerCreated(r)
    BY <1>2, <2>4 DEF CommitRefused, AnswerCreated
  <2>5. CASE Insert(r) \/ InsertPackage(r) \/ WriteAudit(r) \/ SendCommit(r)
    BY <1>1, <2>5 DEF Insert, InsertPackage, WriteAudit, SendCommit
  <2> QED
    BY <1>5, <2>1, <2>2, <2>3, <2>4, <2>5 DEF Handle
<1>6. ASSUME NEW r \in Requests, Break(r) PROVE PoolInv'
  <2>1. CASE AuditFails(r)
    BY <1>1, <2>1 DEF AuditFails
  <2>2. CASE StatementFails(r) \/ Abandon(r)
    BY <1>2, <2>2 DEF StatementFails, Abandon
  <2> QED
    BY <1>6, <2>1, <2>2 DEF Break
<1>7. ASSUME NEW r \in Requests, Serve(r) PROVE PoolInv'
  BY <1>1, <1>7 DEF Serve, ServerCommits, ServerRollsBack
<1>8. ASSUME NEW p \in Replicas, Crash(p) PROVE PoolInv'
  BY <1>8, PoolRestarts
<1>9. CASE Finished \/ UNCHANGED vars
  BY <1>1, <1>9 DEF Finished, vars
<1> QED
  BY <1>4, <1>5, <1>6, <1>7, <1>8, <1>9 DEF Next

\* Whatever becomes of the requests, a replica's pool has every connection
\* that no handler holds, and no more.
THEOREM ConnsAccountedHolds == Spec => []ConnsAccounted
<1>1. Init => PoolInv
  <2> SUFFICES ASSUME Init PROVE PoolInv
    OBVIOUS
  <2>1. \A p \in Replicas : Holding(p, 1) = {} /\ Holding(p, 2) = {} /\ free[p] = MaxConns
    BY DEF Init, Holding
  <2> QED
    BY <2>1, FS_EmptySet, ConstantsOK DEF PoolInv, ConnsAccounted
<1>2. CreateInv /\ PoolInv /\ [Next]_vars => PoolInv'
  BY PoolInvStep
<1>3. PoolInv => ConnsAccounted
  BY DEF PoolInv
<1> QED
  BY <1>1, <1>2, <1>3, CreateInvariant, PTL DEF Spec

-----------------------------------------------------------------------------
(* The handler implements ExactlyOnceCreate.                               *)

\* What the refinement mapping says of a key: the shipment committed under
\* it, and there is at most one to choose from.
NamedOK ==
    \A k \in Keys :
        /\ shipmentNamed[k] \in Requests =>
              Committed(shipmentNamed[k]) /\ key[shipmentNamed[k]] = k
        /\ shipmentNamed[k] \notin Requests => shipmentNamed[k] = NoShipment
        /\ \A r \in Requests : Committed(r) /\ key[r] = k => shipmentNamed[k] = r

\* With the key claimed once, the CHOOSE of the mapping has one candidate at most:
\* the shipment a key names is the one committed under it.
LEMMA MappingNames == CreateInv => NamedOK
<1> SUFFICES ASSUME CreateInv, NEW k \in Keys
             PROVE  /\ shipmentNamed[k] \in Requests =>
                          Committed(shipmentNamed[k]) /\ key[shipmentNamed[k]] = k
                    /\ shipmentNamed[k] \notin Requests => shipmentNamed[k] = NoShipment
                    /\ \A r \in Requests :
                          Committed(r) /\ key[r] = k => shipmentNamed[k] = r
  BY DEF NamedOK
<1>1. CASE \E r \in Requests : Committed(r) /\ key[r] = k
  <2> DEFINE c == CHOOSE r \in Requests : Committed(r) /\ key[r] = k
  <2>1. shipmentNamed[k] = c
    BY <1>1 DEF shipmentNamed
  <2>2. c \in Requests /\ Committed(c) /\ key[c] = k
    BY <1>1
  <2>3. ASSUME NEW r \in Requests, Committed(r), key[r] = k PROVE r = c
    BY <2>2, <2>3 DEF CreateInv, KeyClaimedOnce, Claims, Committed
  <2> QED
    BY <2>1, <2>2, <2>3
<1>2. CASE ~ \E r \in Requests : Committed(r) /\ key[r] = k
  BY <1>2, ConstantsOK DEF shipmentNamed
<1> QED
  BY <1>1, <1>2

\* A step that commits nothing leaves the mapping as it was.
LEMMA MappingKept ==
    ASSUME CreateInv, CreateInv', key' = key,
           \A r \in Requests : Committed(r)' <=> Committed(r)
    PROVE  shipmentNamed' = shipmentNamed
<1>1. NamedOK /\ NamedOK'
  BY MappingNames, PTL
<1>2. ASSUME NEW k \in Keys PROVE shipmentNamed'[k] = shipmentNamed[k]
  BY <1>1 DEF NamedOK
<1> QED
  BY <1>2 DEF shipmentNamed

\* Answering with a failure is a failure of the promise's, which says nothing
\* of the shipment.
LEMMA FailureRefines ==
    ASSUME CreateInv, NEW r \in Requests, NEW c \in {"bad_request", "error", "lost"},
           pc[r] # "done", Finish(r, c, NoShipment), key' = key,
           shipmentNamed' = shipmentNamed
    PROVE  Promise!Next
<1>1. code[r] = "none" /\ answer[r] = NoShipment
  BY DEF CreateInv, AnswerIsLast
<1>2. /\ code' = [q \in Requests |-> IF q \in {r} THEN c ELSE code[q]]
      /\ answer' = answer
  BY <1>1 DEF Finish, CreateInv, TypeOK
<1>3. Promise!Fail({r}, c)
  BY <1>1, <1>2 DEF Promise!Fail
<1> QED
  BY <1>3 DEF Promise!Next, Promise!Failures

\* A commit gives a name to a key that had none.
LEMMA CommitNames ==
    ASSUME CreateInv, CreateInv', NEW r \in Requests, ServerCommits(r)
    PROVE  /\ shipmentNamed[key[r]] = NoShipment
           /\ shipmentNamed' = [shipmentNamed EXCEPT ![key[r]] = r]
<1>1. NamedOK /\ NamedOK'
  BY MappingNames, PTL
<1>2. row[r] /\ tx[r] = "committing" /\ tx'[r] = "committed" /\ key' = key /\ row' = row
  BY DEF ServerCommits, SetTx, routing, rows, CreateInv, CompleteBeforeCommit, TypeOK
<1>3. key[r] \in Keys
  BY DEF CreateInv, TypeOK
<1>4. shipmentNamed[key[r]] = NoShipment
  <2>1. ASSUME NEW s \in Requests, Committed(s), key[s] = key[r] PROVE FALSE
    BY <1>2, <2>1 DEF CreateInv, KeyClaimedOnce, Claims, Committed
  <2> QED
    BY <1>1, <1>3, <2>1 DEF NamedOK
<1>5. shipmentNamed'[key[r]] = r
  BY <1>1, <1>2, <1>3 DEF NamedOK, Committed
<1>6. ASSUME NEW k \in Keys, k # key[r] PROVE shipmentNamed'[k] = shipmentNamed[k]
  <2>1. \A s \in Requests : key[s] = k => (Committed(s)' <=> Committed(s))
    BY <1>2, <1>6 DEF ServerCommits, SetTx, Committed, CreateInv, TypeOK
  <2> QED
    BY <1>1, <1>2, <2>1 DEF NamedOK
<1>7. shipmentNamed' = [shipmentNamed EXCEPT ![key[r]] = r]
  BY <1>5, <1>6 DEF shipmentNamed
<1> QED
  BY <1>4, <1>7

\* A commit, heard of or not, is the shipment's creation.
LEMMA CommitRefines ==
    ASSUME CreateInv, CreateInv', NEW r \in Requests, ServerCommits(r)
    PROVE  Promise!Next
<1>1. Promise!Create(r)
  BY CommitNames DEF Promise!Create, ServerCommits, routing, service
<1> QED
  BY <1>1 DEF Promise!Next

\* Every step of the service is a step of the promise, seen through the mapping,
\* or changes nothing that the promise speaks of.
LEMMA StepRefines ==
    CreateInv /\ CreateInv' /\ [Next]_vars => [Promise!Next]_(Promise!vars)
<1> SUFFICES ASSUME CreateInv, CreateInv', [Next]_vars
             PROVE  Promise!Next \/ UNCHANGED Promise!vars
  OBVIOUS
<1>1. NamedOK
  BY MappingNames
<1> USE DEF routing, service, rows, Promise!vars
\* Steps between the answers, none of which commits.
<1>2. ASSUME NEW r \in Requests,
             \/ Receive(r) \/ Begin(r) \/ Insert(r) \/ AcquireForLookup(r)
             \/ InsertPackage(r) \/ WriteAudit(r) \/ SendCommit(r)
             \/ AuditFails(r) \/ ServerRollsBack(r)
             \/ DuplicateKey(r) /\ at[r] \in Recognising
      PROVE  UNCHANGED Promise!vars
  <2>1. key' = key /\ code' = code /\ answer' = answer
    BY <1>2 DEF Receive, Begin, Insert, AcquireForLookup, InsertPackage, WriteAudit,
                SendCommit, AuditFails, ServerRollsBack, DuplicateKey
  <2>2. \A s \in Requests : Committed(s)' <=> Committed(s)
    BY <1>2 DEF Receive, Begin, Insert, AcquireForLookup, InsertPackage, WriteAudit,
                SendCommit, AuditFails, ServerRollsBack, DuplicateKey, SetTx,
                Committed, CreateInv, TypeOK, StepsInOrder
  <2> QED
    BY <2>1, <2>2, MappingKept
<1>3. ASSUME NEW r \in Requests,
             \/ Refuse(r) \/ CommitRefused(r) \/ StatementFails(r) \/ Abandon(r)
             \/ DuplicateKey(r) /\ at[r] \notin Recognising
             \/ SelectExisting(r) /\ Finish(r, "error", NoShipment)
      PROVE  Promise!Next
  <2>1. /\ pc[r] # "done"
        /\ key' = key
        /\ Finish(r, "bad_request", NoShipment) \/ Finish(r, "error", NoShipment)
    BY <1>3 DEF Refuse, CommitRefused, StatementFails, Abandon, DuplicateKey,
                SelectExisting, InFlight, InTx
  <2>2. \A s \in Requests : Committed(s)' <=> Committed(s)
    BY <1>3 DEF Refuse, CommitRefused, StatementFails, Abandon, DuplicateKey, SetTx,
                SelectExisting, Committed, CreateInv, TypeOK, StepsInOrder
  <2>3. shipmentNamed' = shipmentNamed
    BY <2>1, <2>2, MappingKept
  <2> QED
    BY <2>1, <2>3, FailureRefines
<1>4. ASSUME NEW r \in Requests, AnswerCreated(r) PROVE Promise!Next
  <2>1. shipmentNamed' = shipmentNamed
    BY <1>4, MappingKept DEF AnswerCreated, Committed
  <2>2. code[r] = "none" /\ shipmentNamed[key[r]] = r
    BY <1>1, <1>4 DEF AnswerCreated, CreateInv, AnswerIsLast, TypeOK, NamedOK, Committed,
                      CompleteBeforeCommit
  <2>3. Promise!AnswerCreated(r)
    BY <1>4, <2>1, <2>2 DEF AnswerCreated, Finish, Promise!AnswerCreated
  <2> QED
    BY <2>3 DEF Promise!Next
<1>5. ASSUME NEW r \in Requests, SelectExisting(r), ~Finish(r, "error", NoShipment)
      PROVE  Promise!Next
  <2>1. PICK s \in Requests :
            key[s] = key[r] /\ Committed(s) /\ Finish(r, "replayed", s)
    BY <1>5 DEF SelectExisting
  <2>2. shipmentNamed' = shipmentNamed
    BY <1>5, MappingKept DEF SelectExisting, Committed
  <2>3. code[r] = "none" /\ shipmentNamed[key[r]] = s /\ s # r
    BY <1>1, <1>5, <2>1 DEF SelectExisting, CreateInv, AnswerIsLast, TypeOK, NamedOK,
                            Committed, StepsInOrder
  <2>4. Promise!AnswerReplayed(r)
    BY <1>5, <2>1, <2>2, <2>3, ConstantsOK
       DEF SelectExisting, Finish, Promise!AnswerReplayed
  <2> QED
    BY <2>4 DEF Promise!Next
<1>6. ASSUME NEW r \in Requests, ServerCommits(r) PROVE Promise!Next
  BY <1>6, CommitRefines
<1>7. ASSUME NEW p \in Replicas, Crash(p) PROVE Promise!Next
  <2> DEFINE hit == {r \in Requests : at[r] = p /\ pc[r] \in InFlight}
  <2>1. shipmentNamed' = shipmentNamed
    BY <1>7, MappingKept DEF Crash, Committed
  <2>2. \A r \in hit : code[r] = "none"
    BY DEF CreateInv, AnswerIsLast, InFlight, InTx
  <2>3. Promise!Fail(hit, "lost")
    BY <1>7, <2>1, <2>2 DEF Crash, Promise!Fail
  <2> QED
    BY <2>3 DEF Promise!Next, Promise!Failures
<1>8. CASE Finished \/ UNCHANGED vars
  <2>1. UNCHANGED vars
    BY <1>8 DEF Finished
  <2>2. shipmentNamed' = shipmentNamed
    BY <2>1, MappingKept DEF vars, Committed
  <2> QED
    BY <2>1, <2>2 DEF vars
<1>9. ASSUME NEW r \in Requests, Receive(r) \/ Refuse(r) \/ Handle(r) \/ Break(r) \/ Serve(r)
      PROVE  Promise!Next \/ UNCHANGED Promise!vars
  <2>1. CASE DuplicateKey(r)
    BY <1>2, <1>3, <2>1
  <2>2. CASE SelectExisting(r)
    BY <1>3, <1>5, <2>2
  <2>3. CASE ~DuplicateKey(r) /\ ~SelectExisting(r)
    BY <1>2, <1>3, <1>4, <1>6, <1>9, <2>3 DEF Handle, Break, Serve
  <2> QED
    BY <2>1, <2>2, <2>3
<1> QED
  BY <1>7, <1>8, <1>9 DEF Next

\* Every behaviour of the handler keeps the promise of ExactlyOnceCreate: the
\* answers to a key's requests are those of a single creation.
THEOREM Refinement == Spec => KeepsPromise
<1>1. Init => Promise!Init
  BY ConstantsOK DEF Init, Promise!Init, shipmentNamed, Committed
<1>2. CreateInv /\ CreateInv' /\ [Next]_vars => [Promise!Next]_(Promise!vars)
  BY StepRefines
<1> QED
  BY <1>1, <1>2, CreateInvariant, PTL DEF Spec, KeepsPromise, Promise!Spec

-----------------------------------------------------------------------------
(* The service's steps, as the client's side needs them.                   *)

\* A handler that has ended stays so, and its answer with it.
LEMMA DoneStays ==
    ASSUME CreateInv, [Next]_vars, NEW q \in Requests, pc[q] = "done"
    PROVE  pc'[q] = "done" /\ code'[q] = code[q] /\ answer'[q] = answer[q]
<1> USE DEF CreateInv, TypeOK, PCs, InFlight, InTx, routing, service, GoTo, Finish, Acquire
<1>1. ASSUME NEW r \in Requests, Receive(r) \/ Refuse(r)
      PROVE  pc'[q] = "done" /\ code'[q] = code[q] /\ answer'[q] = answer[q]
  BY <1>1 DEF Receive, Refuse
<1>2. ASSUME NEW r \in Requests, Handle(r)
      PROVE  pc'[q] = "done" /\ code'[q] = code[q] /\ answer'[q] = answer[q]
  BY <1>2 DEF Handle, Begin, Insert, DuplicateKey, AcquireForLookup, SelectExisting,
      InsertPackage, WriteAudit, SendCommit, CommitRefused, AnswerCreated
<1>3. ASSUME NEW r \in Requests, Break(r) \/ Serve(r)
      PROVE  pc'[q] = "done" /\ code'[q] = code[q] /\ answer'[q] = answer[q]
  BY <1>3 DEF Break, AuditFails, StatementFails, Abandon, Serve, ServerCommits,
      ServerRollsBack
<1>4. ASSUME NEW p \in Replicas, Crash(p)
      PROVE  pc'[q] = "done" /\ code'[q] = code[q] /\ answer'[q] = answer[q]
  BY <1>4 DEF Crash
<1>5. CASE Finished \/ UNCHANGED vars
  BY <1>5 DEF Finished, vars
<1> QED
  BY <1>1, <1>2, <1>3, <1>4, <1>5 DEF Next

\* Only Receive and Refuse start a handler.
LEMMA IdleStays ==
    ASSUME CreateInv, [Next]_vars, NEW q \in Requests, pc[q] = "idle",
           ~Receive(q), ~Refuse(q)
    PROVE  pc'[q] = "idle"
<1> USE DEF CreateInv, TypeOK, PCs, InFlight, InTx, routing, service, GoTo, Finish, Acquire
<1>1. ASSUME NEW r \in Requests, Receive(r) \/ Refuse(r) PROVE pc'[q] = "idle"
  BY <1>1 DEF Receive, Refuse
<1>2. ASSUME NEW r \in Requests, Handle(r) PROVE pc'[q] = "idle"
  BY <1>2 DEF Handle, Begin, Insert, DuplicateKey, AcquireForLookup, SelectExisting,
      InsertPackage, WriteAudit, SendCommit, CommitRefused, AnswerCreated
<1>3. ASSUME NEW r \in Requests, Break(r) \/ Serve(r) PROVE pc'[q] = "idle"
  BY <1>3 DEF Break, AuditFails, StatementFails, Abandon, Serve, ServerCommits,
      ServerRollsBack
<1>4. ASSUME NEW p \in Replicas, Crash(p) PROVE pc'[q] = "idle"
  BY <1>4 DEF Crash
<1>5. CASE Finished \/ UNCHANGED vars
  BY <1>5 DEF Finished, vars
<1> QED
  BY <1>1, <1>2, <1>3, <1>4, <1>5 DEF Next

\* What is committed stays so, and ServerCommits alone adds to it.
LEMMA CommittedKept ==
    ASSUME CreateInv, [Next]_vars
    PROVE  /\ key' = key
           /\ \A s \in Requests :
                 /\ Committed(s) => Committed(s)'
                 /\ ~ServerCommits(s) => (Committed(s)' => Committed(s))
<1> DEFINE Goal == /\ key' = key
                   /\ \A s \in Requests :
                         /\ Committed(s) => Committed(s)'
                         /\ ~ServerCommits(s) => (Committed(s)' => Committed(s))
<1> USE DEF CreateInv, TypeOK, StepsInOrder, Committed, routing, service, rows, SetTx
<1>1. ASSUME NEW r \in Requests, Receive(r) \/ Refuse(r) PROVE Goal
  BY <1>1 DEF Receive, Refuse
<1>2. ASSUME NEW r \in Requests, Handle(r) PROVE Goal
  BY <1>2 DEF Handle, Begin, Insert, DuplicateKey, AcquireForLookup, SelectExisting,
      InsertPackage, WriteAudit, SendCommit, CommitRefused, AnswerCreated
<1>3. ASSUME NEW r \in Requests, Break(r) PROVE Goal
  BY <1>3 DEF Break, AuditFails, StatementFails, Abandon
<1>4. ASSUME NEW r \in Requests, Serve(r) PROVE Goal
  BY <1>4 DEF Serve, ServerCommits, ServerRollsBack
<1>5. ASSUME NEW p \in Replicas, Crash(p) PROVE Goal
  BY <1>5 DEF Crash
<1>6. CASE Finished \/ UNCHANGED vars
  BY <1>6 DEF Finished, vars
<1> QED
  BY <1>1, <1>2, <1>3, <1>4, <1>5, <1>6 DEF Next


-----------------------------------------------------------------------------
(* RetriesInv is inductive.                                                *)

\* An answer lost on its way changes nothing of the service.
CountsOnly == UNCHANGED <<routing, service, tx, rows>> /\ faults' = faults + 1

\* The client's side takes no part in the service's steps but to start them.
LEMMA ServiceOrCount == [RetriesNext]_retriesVars => [Next]_vars \/ CountsOnly
BY DEF RetriesNext, Send, Arrive, HandOn, LoseAnswer, Fault, Next, CountsOnly,
       retriesVars, vars

LEMMA CreateInvKept == CreateInv /\ [RetriesNext]_retriesVars => CreateInv'
<1> SUFFICES ASSUME CreateInv, [RetriesNext]_retriesVars PROVE CreateInv'
  OBVIOUS
<1>1. CASE [Next]_vars
  BY <1>1, CreateInvStep
<1>2. CASE CountsOnly
  BY <1>2 DEF CountsOnly, CreateInv, TypeOK, StepsInOrder, CompleteBeforeCommit,
      KeyClaimedOnce, AnswerIsLast, HeldByStep, AnswersAreDurable, Claims, Committed,
      routing, service, rows
<1> QED
  BY <1>1, <1>2, ServiceOrCount

\* The count of failures only grows.
LEMMA FaultsGrow ==
    ASSUME TypeOK, [RetriesNext]_retriesVars
    PROVE  faults' \in Nat /\ faults' >= faults
<1> USE DEF TypeOK, Fault
<1>1. ASSUME NEW r \in Requests, Receive(r) \/ Refuse(r)
      PROVE  faults' \in Nat /\ faults' >= faults
  BY <1>1 DEF Receive, Refuse
<1>2. ASSUME NEW r \in Requests, Handle(r)
      PROVE  faults' \in Nat /\ faults' >= faults
  BY <1>2 DEF Handle, Begin, Insert, DuplicateKey, AcquireForLookup, SelectExisting,
      InsertPackage, WriteAudit, SendCommit, CommitRefused, AnswerCreated
<1>3. ASSUME NEW r \in Requests, Break(r) \/ Serve(r)
      PROVE  faults' \in Nat /\ faults' >= faults
  BY <1>3 DEF Break, AuditFails, StatementFails, Abandon, Serve, ServerCommits,
      ServerRollsBack
<1>4. ASSUME NEW p \in Replicas, Crash(p)
      PROVE  faults' \in Nat /\ faults' >= faults
  BY <1>4 DEF Crash
<1>5. CASE Finished \/ UNCHANGED vars
  BY <1>5 DEF Finished, vars
<1>6. CASE CountsOnly
  BY <1>6 DEF CountsOnly
<1> QED
  BY <1>1, <1>2, <1>3, <1>4, <1>5, <1>6, ServiceOrCount DEF Next

\* A client hears only what the service or the gateway can say.
LEMMA RetriesTypeOKStep ==
    RetriesInv /\ [RetriesNext]_retriesVars => RetriesTypeOK'
<1> SUFFICES ASSUME RetriesInv, [RetriesNext]_retriesVars PROVE RetriesTypeOK'
  OBVIOUS
<1>1. TypeOK /\ TypeOK'
  BY CreateInvKept DEF RetriesInv, CreateInv
<1>2. 0..faults \subseteq 0..faults'
  BY <1>1, FaultsGrow DEF TypeOK
<1>3. sentAt \in [Requests -> 0..faults']
  BY <1>2 DEF RetriesInv, RetriesTypeOK
<1> USE DEF RetriesInv, RetriesTypeOK, client
<1>4. ASSUME NEW r \in Requests, Send(r) PROVE RetriesTypeOK'
  <2>1. faults' = faults /\ faults \in Nat
    BY <1>1, <1>4 DEF Send, vars, TypeOK
  <2> QED
    BY <1>1, <1>3, <1>4, <2>1 DEF Send
<1>5. ASSUME NEW r \in Requests, HandOn(r) PROVE RetriesTypeOK'
  BY <1>1, <1>3, <1>5 DEF HandOn, Codes, TypeOK
<1>6. ASSUME NEW r \in Requests, LoseAnswer(r) PROVE RetriesTypeOK'
  BY <1>1, <1>3, <1>6 DEF LoseAnswer, Codes
<1>7. CASE UNCHANGED client
  BY <1>1, <1>3, <1>7
<1> QED
  BY <1>4, <1>5, <1>6, <1>7 DEF RetriesNext, Arrive, retriesVars

\* A request that finds its key taken is not the one that took it.
LEMMA AnswersNameTheMakerStep ==
    CreateInv /\ AnswersNameTheMaker /\ [RetriesNext]_retriesVars => AnswersNameTheMaker'
<1> SUFFICES ASSUME CreateInv, AnswersNameTheMaker, [RetriesNext]_retriesVars
             PROVE  AnswersNameTheMaker'
  OBVIOUS
<1> USE ConstantsOK DEF CreateInv, TypeOK, AnswersNameTheMaker, routing, service, Finish
<1>1. ASSUME NEW r \in Requests, Receive(r) \/ Refuse(r) PROVE AnswersNameTheMaker'
  BY <1>1 DEF Receive, Refuse
<1>2. ASSUME NEW r \in Requests, Handle(r) PROVE AnswersNameTheMaker'
  <2>1. CASE SelectExisting(r)
    BY <2>1 DEF SelectExisting, Committed, StepsInOrder
  <2>2. CASE ~SelectExisting(r)
    BY <1>2, <2>2 DEF Handle, Begin, Insert, DuplicateKey, AcquireForLookup,
        InsertPackage, WriteAudit, SendCommit, CommitRefused, AnswerCreated
  <2> QED
    BY <2>1, <2>2
<1>3. ASSUME NEW r \in Requests, Break(r) \/ Serve(r) PROVE AnswersNameTheMaker'
  BY <1>3 DEF Break, AuditFails, StatementFails, Abandon, Serve, ServerCommits,
      ServerRollsBack
<1>4. ASSUME NEW p \in Replicas, Crash(p) PROVE AnswersNameTheMaker'
  BY <1>4 DEF Crash
<1>5. CASE Finished \/ UNCHANGED vars \/ CountsOnly
  BY <1>5 DEF Finished, vars, CountsOnly
<1> QED
  BY <1>1, <1>2, <1>3, <1>4, <1>5, ServiceOrCount DEF Next

\* Only DuplicateKey leads to the lookup, and what it met stays committed.
LEMMA DuplicateIsThereStep ==
    CreateInv /\ DuplicateIsThere /\ [RetriesNext]_retriesVars => DuplicateIsThere'
<1> SUFFICES ASSUME CreateInv, DuplicateIsThere, [RetriesNext]_retriesVars,
                    NEW q \in Requests, pc'[q] \in {"lookup", "select"}
             PROVE  (\E s \in Rivals(q) : Committed(s))'
  BY DEF DuplicateIsThere
<1>1. CASE [Next]_vars
  <2> DEFINE There == \E s \in Rivals(q) : Committed(s)
  <2>1. There => There'
    BY <1>1, CommittedKept DEF Rivals
  <2> USE DEF DuplicateIsThere, CreateInv, TypeOK, routing, service, GoTo, Finish, Acquire
  <2>2. ASSUME NEW r \in Requests, Receive(r) \/ Refuse(r) PROVE There
    BY <2>2 DEF Receive, Refuse
  <2>3. ASSUME NEW r \in Requests, Handle(r) PROVE There
    BY <2>3 DEF Handle, Begin, Insert, DuplicateKey, AcquireForLookup, SelectExisting,
        InsertPackage, WriteAudit, SendCommit, CommitRefused, AnswerCreated
  <2>4. ASSUME NEW r \in Requests, Break(r) \/ Serve(r) PROVE There
    BY <2>4 DEF Break, AuditFails, StatementFails, Abandon, Serve, ServerCommits,
        ServerRollsBack
  <2>5. ASSUME NEW p \in Replicas, Crash(p) PROVE There
    BY <2>5 DEF Crash
  <2>6. ASSUME Finished \/ UNCHANGED vars PROVE There
    BY <2>6 DEF Finished, vars
  <2> QED
    BY <1>1, <2>1, <2>2, <2>3, <2>4, <2>5, <2>6 DEF Next
<1>2. CASE CountsOnly
  BY <1>2 DEF CountsOnly, DuplicateIsThere, Rivals, Committed, routing, service, rows
<1> QED
  BY <1>1, <1>2, ServiceOrCount

\* A request is handled after it is sent, and heard of after it is handled.
LEMMA HeardIsAnsweredStep ==
    RetriesInv /\ [RetriesNext]_retriesVars => HeardIsAnswered'
<1> SUFFICES ASSUME RetriesInv, [RetriesNext]_retriesVars PROVE HeardIsAnswered'
  OBVIOUS
<1>1. CreateInv /\ HeardIsAnswered /\ RetriesTypeOK
  BY DEF RetriesInv
<1>2. ASSUME UNCHANGED client, [Next]_vars,
             \A q \in Requests : Receive(q) \/ Refuse(q) => q \in sent
      PROVE  HeardIsAnswered'
  <2> SUFFICES ASSUME NEW q \in Requests
               PROVE  /\ q \notin sent' => pc'[q] = "idle" /\ heard'[q] = "none"
                      /\ heard'[q] \in {"created", "replayed"} =>
                            pc'[q] = "done" /\ code'[q] = heard'[q]
    BY DEF HeardIsAnswered
  <2>1. q \notin sent => pc'[q] = "idle"
    BY <1>1, <1>2, IdleStays DEF HeardIsAnswered
  <2>2. heard[q] \in {"created", "replayed"} => pc'[q] = "done" /\ code'[q] = heard[q]
    BY <1>1, <1>2, DoneStays DEF HeardIsAnswered
  <2> QED
    BY <1>1, <1>2, <2>1, <2>2 DEF client, HeardIsAnswered
<1>3. ASSUME NEW r \in Requests, Send(r) PROVE HeardIsAnswered'
  BY <1>1, <1>3 DEF Send, HeardIsAnswered, vars, service
<1>4. ASSUME NEW r \in Requests, HandOn(r) PROVE HeardIsAnswered'
  BY <1>1, <1>4 DEF HandOn, Waiting, HeardIsAnswered, RetriesTypeOK, vars, service
<1>5. ASSUME NEW r \in Requests, LoseAnswer(r) PROVE HeardIsAnswered'
  BY <1>1, <1>5 DEF LoseAnswer, Waiting, HeardIsAnswered, RetriesTypeOK, service
<1>6. ASSUME NEW r \in Requests, Arrive(r) PROVE HeardIsAnswered'
  <2>1. ASSUME NEW q \in Requests, Receive(q) \/ Refuse(q) PROVE q = r
    BY <1>1, <1>6, <2>1 DEF Arrive, Receive, Refuse, GoTo, Finish, CreateInv, TypeOK
  <2> QED
    BY <1>2, <1>6, <2>1 DEF Arrive, Next
<1>7. ASSUME NEW r \in Requests, Handle(r) \/ Break(r) \/ Serve(r), UNCHANGED client
      PROVE  HeardIsAnswered'
  <2>1. ASSUME NEW q \in Requests, pc[q] = "idle" PROVE pc'[q] = "idle"
    BY <1>1, <1>7, <2>1
       DEF Handle, Begin, Insert, DuplicateKey, AcquireForLookup, SelectExisting,
           InsertPackage, WriteAudit, SendCommit, CommitRefused, AnswerCreated,
           Break, AuditFails, StatementFails, Abandon, Serve, ServerCommits,
           ServerRollsBack, CreateInv, TypeOK, InFlight, InTx, service, GoTo, Finish
  <2>2. ASSUME NEW q \in Requests PROVE ~Receive(q) /\ ~Refuse(q)
    BY <1>1, <2>1 DEF Receive, Refuse, GoTo, Finish, CreateInv, TypeOK
  <2> QED
    BY <1>2, <1>7, <2>2 DEF Next
<1>8. ASSUME NEW p \in Replicas, Crash(p), UNCHANGED client PROVE HeardIsAnswered'
  <2>1. ASSUME NEW q \in Requests PROVE ~Receive(q) /\ ~Refuse(q)
    BY <1>1, <1>8 DEF Crash, Fault, Receive, Refuse, CreateInv, TypeOK
  <2> QED
    BY <1>2, <1>8, <2>1 DEF Next
<1>9. CASE UNCHANGED <<vars, client>>
  BY <1>1, <1>9 DEF HeardIsAnswered, vars, service, client
<1> QED
  BY <1>3, <1>4, <1>5, <1>6, <1>7, <1>8, <1>9
     DEF RetriesNext, Finished, retriesVars

\* What the client has sent and heard agrees with what the service did, in
\* every reachable state.
THEOREM RetriesInvariant == RetriesSpec => []RetriesInv
<1>1. RetriesInit => RetriesInv
  <2> SUFFICES ASSUME RetriesInit PROVE RetriesInv
    OBVIOUS
  <2>1. CreateInv
    BY InitInv DEF RetriesInit
  <2>2. RetriesTypeOK /\ AnswersNameTheMaker /\ DuplicateIsThere /\ HeardIsAnswered
    BY <2>1 DEF RetriesInit, Init, CreateInv, RetriesTypeOK, AnswersNameTheMaker,
        DuplicateIsThere, HeardIsAnswered, Codes
  <2> QED
    BY <2>1, <2>2 DEF RetriesInv
<1>2. RetriesInv /\ [RetriesNext]_retriesVars => RetriesInv'
  BY CreateInvKept, RetriesTypeOKStep, AnswersNameTheMakerStep, DuplicateIsThereStep,
     HeardIsAnsweredStep
     DEF RetriesInv
<1> QED
  BY <1>1, <1>2, PTL DEF RetriesSpec

\* Requests with one key are never told of two shipments, however often the
\* client sends again and the gateway loses an answer.
THEOREM RetriesSameShipment == RetriesSpec => []SameKeySameShipment
<1>1. RetriesInv => SameKeySameShipment
  <2> SUFFICES ASSUME RetriesInv, NEW r \in Requests, NEW s \in Requests,
                      key[r] = key[s],
                      code[r] \in {"created", "replayed"},
                      code[s] \in {"created", "replayed"}
               PROVE  answer[r] = answer[s]
    BY DEF SameKeySameShipment
  <2>1. NamedOK
    BY MappingNames DEF RetriesInv
  <2> QED
    BY <2>1 DEF NamedOK, RetriesInv, CreateInv, TypeOK, AnswersAreDurable
<1> QED
  BY <1>1, RetriesInvariant, PTL

-----------------------------------------------------------------------------
(* The client sees ExactlyOnceCreate.                                      *)

\* The part of answer the client has heard of.
HeardAnswer ==
    [r \in Requests |->
        IF heard[r] \in {"created", "replayed"} THEN answer[r] ELSE NoShipment]

\* What a client has heard named stays named, whatever its service does next.
LEMMA HeardAnswerKept ==
    ASSUME RetriesInv, [RetriesNext]_retriesVars
    PROVE  \A r \in Requests :
              heard[r] \in {"created", "replayed"} => answer'[r] = answer[r]
<1>1. CASE [Next]_vars
  BY <1>1, DoneStays DEF RetriesInv, HeardIsAnswered
<1>2. CASE CountsOnly
  BY <1>2 DEF CountsOnly, service
<1> QED
  BY <1>1, <1>2, ServiceOrCount

\* A failure the client is told of says nothing of the shipment.
LEMMA FailureIsHeard ==
    ASSUME RetriesInv, NEW r \in Requests, NEW h \in {"bad_request", "error", "lost"},
           heard[r] = "none", heard' = [heard EXCEPT ![r] = h],
           UNCHANGED <<routing, service, tx, rows>>
    PROVE  ClientsView!Next
<1>1. shipmentNamed' = shipmentNamed /\ key' = key
  BY DEF shipmentNamed, Committed, routing, rows
<1>2. heard' = [q \in Requests |-> IF q \in {r} THEN h ELSE heard[q]]
  BY DEF RetriesInv, RetriesTypeOK
<1>3. HeardAnswer' = HeardAnswer
  BY <1>2 DEF HeardAnswer, service
<1>4. ClientsView!Fail({r}, h)
  BY <1>1, <1>2, <1>3 DEF ClientsView!Fail, HeardAnswer
<1> QED
  BY <1>4 DEF ClientsView!Next, ClientsView!Failures

\* Handing on 201 or 200 tells the client of the shipment its key names.
LEMMA AnswerIsHeard ==
    ASSUME RetriesInv, NEW r \in Requests, HandOn(r), code[r] \in {"created", "replayed"}
    PROVE  ClientsView!Next
<1>1. /\ shipmentNamed' = shipmentNamed
      /\ key' = key /\ answer' = answer
      /\ heard' = [heard EXCEPT ![r] = code[r]]
      /\ heard[r] = "none"
  BY DEF HandOn, Waiting, shipmentNamed, Committed, vars, routing, service, rows
<1>2. shipmentNamed[key[r]] = answer[r] /\ answer[r] \in Requests
  <2>1. PICK s \in Requests : answer[r] = s /\ Committed(s) /\ key[s] = key[r]
    BY DEF RetriesInv, CreateInv, AnswersAreDurable
  <2> QED
    BY <2>1, MappingNames DEF RetriesInv, CreateInv, TypeOK, NamedOK
<1>3. HeardAnswer' = [HeardAnswer EXCEPT ![r] = answer[r]]
  BY <1>1 DEF HeardAnswer, RetriesInv, RetriesTypeOK
<1>4. CASE code[r] = "created"
  <2>1. ClientsView!AnswerCreated(r)
    BY <1>1, <1>2, <1>3, <1>4
       DEF ClientsView!AnswerCreated, HeardAnswer, RetriesInv, AnswersNameTheMaker
  <2> QED
    BY <2>1 DEF ClientsView!Next
<1>5. CASE code[r] = "replayed"
  <2>1. answer[r] \notin {NoShipment, r}
    BY <1>2, <1>5, ConstantsOK DEF RetriesInv, AnswersNameTheMaker
  <2>2. ClientsView!AnswerReplayed(r)
    BY <1>1, <1>2, <1>3, <1>5, <2>1 DEF ClientsView!AnswerReplayed, HeardAnswer
  <2> QED
    BY <2>2 DEF ClientsView!Next
<1> QED
  BY <1>4, <1>5

\* Every step is a step of the client's view, or one it does not see.
LEMMA ClientStepRefines ==
    RetriesInv /\ RetriesInv' /\ [RetriesNext]_retriesVars
        => [ClientsView!Next]_(ClientsView!vars)
<1> SUFFICES ASSUME RetriesInv, RetriesInv', [RetriesNext]_retriesVars
             PROVE  ClientsView!Next \/ UNCHANGED ClientsView!vars
  OBVIOUS
<1>1. CreateInv /\ CreateInv'
  BY DEF RetriesInv
<1>2. ASSUME UNCHANGED client PROVE HeardAnswer' = HeardAnswer
  BY <1>2, HeardAnswerKept DEF HeardAnswer, client
<1>3. ASSUME NEW r \in Requests, HandOn(r)
      PROVE  ClientsView!Next \/ UNCHANGED ClientsView!vars
  <2>1. CASE code[r] \in {"created", "replayed"}
    BY <1>3, <2>1, AnswerIsHeard
  <2>2. CASE code[r] \in {"bad_request", "error", "lost"}
    <3>1. PICK h \in {"bad_request", "error", "lost"} : heard' = [heard EXCEPT ![r] = h]
      BY <1>3, <2>2 DEF HandOn
    <3> QED
      BY <1>3, <3>1, FailureIsHeard DEF HandOn, Waiting, vars
  <2>3. CASE code[r] = "none"
    <3>1. heard' = heard /\ UNCHANGED vars
      BY <1>3, <2>3 DEF HandOn, Waiting, RetriesInv, RetriesTypeOK
    <3>2. shipmentNamed' = shipmentNamed
      BY <3>1 DEF shipmentNamed, Committed, vars, routing, rows
    <3> QED
      BY <3>1, <3>2 DEF ClientsView!vars, vars, routing, service
  <2> QED
    BY <1>1, <2>1, <2>2, <2>3 DEF CreateInv, TypeOK, Codes
<1>4. ASSUME NEW r \in Requests, LoseAnswer(r) PROVE ClientsView!Next
  <2>1. PICK h \in {"bad_request", "error", "lost"} : heard' = [heard EXCEPT ![r] = h]
    BY <1>4 DEF LoseAnswer
  <2> QED
    BY <1>4, <2>1, FailureIsHeard DEF LoseAnswer, Waiting
<1>5. ASSUME UNCHANGED client, [Next]_vars, NEW r \in Requests, ServerCommits(r)
      PROVE  ClientsView!Next
  <2>1. ClientsView!Create(r)
    BY <1>1, <1>2, <1>5, CommitNames
       DEF ClientsView!Create, HeardAnswer, ServerCommits, routing, client
  <2> QED
    BY <2>1 DEF ClientsView!Next
<1>6. ASSUME UNCHANGED client, [Next]_vars, \A r \in Requests : ~ServerCommits(r)
      PROVE  UNCHANGED ClientsView!vars
  <2>1. key' = key /\ \A r \in Requests : Committed(r)' <=> Committed(r)
    BY <1>1, <1>6, CommittedKept
  <2>2. shipmentNamed' = shipmentNamed
    BY <1>1, <2>1, MappingKept
  <2> QED
    BY <1>2, <1>6, <2>1, <2>2 DEF ClientsView!vars, HeardAnswer, client
<1>7. ASSUME NEW r \in Requests, Send(r) PROVE UNCHANGED ClientsView!vars
  <2>1. shipmentNamed' = shipmentNamed
    BY <1>7 DEF Send, shipmentNamed, Committed, vars, routing, rows
  <2> QED
    BY <1>7, <2>1 DEF Send, ClientsView!vars, vars, routing, service
<1> QED
  BY <1>3, <1>4, <1>5, <1>6, <1>7 DEF RetriesNext, Arrive, Next, retriesVars

\* Through the gateway, whatever it loses, a client sees one shipment for its
\* key: 201 from the request that made it and no other, 200 from the rest.
THEOREM ClientsRefinement == RetriesSpec => ClientsPromise
<1>1. RetriesInit => ClientsView!Init
  BY ConstantsOK
     DEF RetriesInit, Init, ClientsView!Init, shipmentNamed, Committed
<1>2. RetriesInv /\ RetriesInv' /\ [RetriesNext]_retriesVars
         => [ClientsView!Next]_(ClientsView!vars)
  BY ClientStepRefines
<1> QED
  BY <1>1, <1>2, RetriesInvariant, PTL DEF RetriesSpec, ClientsPromise, ClientsView!Spec

\* The service keeps its own promise under a client that retries: an answer
\* lost on its way touches nothing the promise speaks of.
THEOREM RetriesRefinement == RetriesSpec => KeepsPromise
<1>1. RetriesInit => Promise!Init
  BY ConstantsOK DEF RetriesInit, Init, Promise!Init, shipmentNamed, Committed
<1>2. RetriesInv /\ RetriesInv' /\ [RetriesNext]_retriesVars
         => [Promise!Next]_(Promise!vars)
  <2>1. ASSUME CountsOnly PROVE UNCHANGED Promise!vars
    BY <2>1 DEF CountsOnly, Promise!vars, shipmentNamed, Committed, routing, service, rows
  <2> QED
    BY <2>1, ServiceOrCount, StepRefines DEF RetriesInv
<1> QED
  BY <1>1, <1>2, RetriesInvariant, PTL DEF RetriesSpec, KeepsPromise, Promise!Spec

-----------------------------------------------------------------------------
(* A retry is refused only because the shipment is there.                  *)

\* A shipment that supersedes a request stays.
LEMMA SupersededStays ==
    ASSUME CreateInv, [RetriesNext]_retriesVars
    PROVE  \A r \in Requests : Superseded(r) => Superseded(r)'
<1>1. at' = at
  BY DEF RetriesNext, Send, Arrive, HandOn, LoseAnswer, Receive, Refuse,
         Handle, Begin, Insert, DuplicateKey, AcquireForLookup, SelectExisting,
         InsertPackage, WriteAudit, SendCommit, CommitRefused, AnswerCreated,
         Break, AuditFails, StatementFails, Abandon, Serve, ServerCommits,
         ServerRollsBack, Crash, Finished, retriesVars, vars, routing
<1>2. key' = key /\ \A s \in Requests : Committed(s) => Committed(s)'
  <2>1. CASE CountsOnly
    BY <2>1 DEF CountsOnly, Committed, routing, rows
  <2> QED
    BY <2>1, ServiceOrCount, CommittedKept
<1> QED
  BY <1>1, <1>2 DEF Superseded, Rivals

\* A handler fails only with a failure counted after its request was sent, or
\* as the duplicate it is.
LEMMA FailuresAreNewStep ==
    RetriesInv /\ FailuresAreNew /\ [RetriesNext]_retriesVars => FailuresAreNew'
<1> SUFFICES ASSUME RetriesInv, FailuresAreNew, [RetriesNext]_retriesVars
             PROVE  FailuresAreNew'
  OBVIOUS
<1>1. /\ CreateInv /\ DuplicateIsThere /\ HeardIsAnswered /\ RetriesTypeOK
      /\ faults \in Nat /\ faults' \in Nat /\ faults' >= faults
      /\ \A r \in Requests : sentAt[r] \in Nat /\ sentAt[r] <= faults
  BY FaultsGrow DEF RetriesInv, CreateInv, TypeOK, RetriesTypeOK
<1>0. \A r \in Requests : Superseded(r) => Superseded(r)'
  BY <1>1, SupersededStays
<1> USE DEF FailuresAreNew, CreateInv, TypeOK, PCs, InFlight, InTx, service, GoTo, Finish,
            Acquire, SetTx, Fault, client
<1>2. ASSUME NEW r \in Requests, Send(r) PROVE FailuresAreNew'
  BY <1>0, <1>1, <1>2 DEF Send, RetriesTypeOK, HeardIsAnswered, AnswerIsLast, vars
<1>3. ASSUME NEW r \in Requests, Arrive(r) PROVE FailuresAreNew'
  BY <1>0, <1>1, <1>3 DEF Arrive, Receive, Refuse
<1>4. ASSUME NEW r \in Requests, HandOn(r) PROVE FailuresAreNew'
  BY <1>0, <1>1, <1>4 DEF HandOn, RetriesTypeOK, vars
<1>5. ASSUME NEW r \in Requests, LoseAnswer(r) PROVE FailuresAreNew'
  BY <1>0, <1>1, <1>5 DEF LoseAnswer, RetriesTypeOK
<1>6. ASSUME NEW r \in Requests, Handle(r), UNCHANGED client PROVE FailuresAreNew'
  <2>1. CASE SelectExisting(r)
    <3>1. \E s \in Requests : key[s] = key[r] /\ Committed(s)
      BY <1>0, <1>1, <2>1 DEF SelectExisting, DuplicateIsThere, Rivals
    <3> QED
      BY <1>0, <1>1, <1>6, <2>1, <3>1 DEF SelectExisting
  <2>2. CASE DuplicateKey(r)
    <3>1. at[r] \notin Recognising => Superseded(r)
      BY <2>2 DEF DuplicateKey, Superseded
    <3> QED
      BY <1>0, <1>1, <1>6, <2>2, <3>1 DEF DuplicateKey
  <2>3. CASE CommitRefused(r)
    BY <1>0, <1>1, <1>6, <2>3 DEF CommitRefused
  <2>4. CASE WriteAudit(r)
    BY <1>0, <1>1, <1>6, <2>4 DEF WriteAudit, StepsInOrder
  <2>5. CASE \/ Begin(r) \/ Insert(r) \/ AcquireForLookup(r)
             \/ SendCommit(r) \/ AnswerCreated(r)
    BY <1>0, <1>1, <1>6, <2>5 DEF Begin, Insert, AcquireForLookup, SendCommit, AnswerCreated
  <2>6. CASE InsertPackage(r)
    BY <1>0, <1>1, <1>6, <2>6 DEF InsertPackage
  <2> QED
    BY <1>6, <2>1, <2>2, <2>3, <2>4, <2>5, <2>6 DEF Handle
<1>7. ASSUME NEW r \in Requests, Break(r), UNCHANGED client PROVE FailuresAreNew'
  BY <1>0, <1>1, <1>7 DEF Break, AuditFails, StatementFails, Abandon
<1>8. ASSUME NEW r \in Requests, Serve(r), UNCHANGED client PROVE FailuresAreNew'
  BY <1>0, <1>1, <1>8 DEF Serve, ServerCommits, ServerRollsBack
<1>9. ASSUME NEW p \in Replicas, Crash(p), UNCHANGED client PROVE FailuresAreNew'
  BY <1>0, <1>1, <1>9 DEF Crash
<1>10. CASE UNCHANGED <<vars, client>>
  BY <1>0, <1>1, <1>10 DEF vars
<1> QED
  BY <1>2, <1>3, <1>4, <1>5, <1>6, <1>7, <1>8, <1>9, <1>10
     DEF RetriesNext, Finished, retriesVars

\* Whatever build a replica runs, a client that hears of a failure although
\* nothing failed since it sent the request has its shipment: earlier attempts
\* that hold its key, have committed it unheard or are rolled back under it do
\* not make it fail otherwise (shipment.go:167-186).
THEOREM QuietFailuresAreOfDuplicates == RetriesSpec => []QuietFailuresAreDuplicates
<1>1. RetriesInit => FailuresAreNew
  BY DEF RetriesInit, Init, FailuresAreNew
<1>2. RetriesInv /\ FailuresAreNew /\ [RetriesNext]_retriesVars => FailuresAreNew'
  BY FailuresAreNewStep
<1>3. FailuresAreNew => QuietFailuresAreDuplicates
  BY DEF FailuresAreNew, QuietFailuresAreDuplicates
<1> QED
  BY <1>1, <1>2, <1>3, RetriesInvariant, PTL DEF RetriesSpec

=============================================================================
