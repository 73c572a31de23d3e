-------------------------- MODULE IdempotentCreate --------------------------
(***************************************************************************)
(* POST /v1/shipments of shipment-svc: the handler createShipment          *)
(* (internal/httpserver/server.go) and the repository method it calls,     *)
(* CreateShipmentIdempotent (internal/repo/shipment.go).                   *)
(*                                                                         *)
(* Replicas of the service share one Postgres database.  Each has a pgx    *)
(* pool of MaxConns connections.  A request runs one transaction: insert   *)
(* the shipment under the UNIQUE idempotency_key, its packages, an audit   *)
(* row, then commit.  Every statement is a step; between two steps other   *)
(* requests, the database and failures take theirs.                        *)
(*                                                                         *)
(* Recognising tells the outcome of errors.As at shipment.go:170.  The     *)
(* target type comes from github.com/jackc/pgconn, the driver's errors     *)
(* from github.com/jackc/pgx/v5/pgconn, so the build at hand recognises no *)
(* duplicate and never enters the replay branch.  The replicas in          *)
(* Recognising run the same code with the import the driver needs.         *)
(***************************************************************************)
EXTENDS Naturals, FiniteSets

CONSTANTS Requests,       \* requests with a key; a client's retry is another one
          Keys,
          Replicas,
          NoShipment,
          MaxConns,       \* the pool's size, per replica
          NumPackages,    \* packages in a request's body
          Recognising,    \* the replicas whose build knows a duplicate
          MaxFaults       \* bound: failures injected in a behaviour

ASSUME ConstantsOK ==
    /\ NoShipment \notin Requests
    /\ MaxConns \in Nat \ {0}
    /\ NumPackages \in Nat \ {0}      \* server.go:96 refuses an empty list
    /\ Recognising \subseteq Replicas
    /\ MaxFaults \in Nat

VARIABLES
    \* the environment's choices
    key,        \* X-Idempotency-Key of a request
    at,         \* the replica the request is routed to
    \* the service
    pc,         \* where the request's handler is
    held,       \* pool connections the handler holds
    free,       \* connections left in a replica's pool
    code,       \* the answer: 201, 200, 400, 500, or none because the pod died
    answer,     \* the shipment id in the answer
    \* the database
    tx,         \* a request's transaction
    row,        \* it inserted its shipments row
    packages,   \* packages rows it inserted
    audited,    \* it inserted its audit_log row
    \* bookkeeping
    faults

routing == <<key, at>>
service == <<pc, held, free, code, answer>>
rows == <<row, packages, audited>>
vars == <<routing, service, tx, rows, faults>>

InTx == {"insert", "packages", "audit", "commit", "await", "lookup", "select"}
InFlight == {"begin"} \union InTx
PCs == {"idle", "done"} \union InFlight
Codes == {"none", "created", "replayed", "bad_request", "error", "lost"}
TxStates == {"none", "open", "committing", "committed", "aborted"}

TypeOK ==
    /\ key \in [Requests -> Keys]
    /\ at \in [Requests -> Replicas]
    /\ pc \in [Requests -> PCs]
    /\ held \in [Requests -> 0..2]
    /\ free \in [Replicas -> Nat]
    /\ code \in [Requests -> Codes]
    /\ answer \in [Requests -> Requests \union {NoShipment}]
    /\ tx \in [Requests -> TxStates]
    /\ row \in [Requests -> BOOLEAN]
    /\ packages \in [Requests -> 0..NumPackages]
    /\ audited \in [Requests -> BOOLEAN]
    /\ faults \in Nat

Init ==
    /\ key \in [Requests -> Keys]
    /\ at \in [Requests -> Replicas]
    /\ pc = [r \in Requests |-> "idle"]
    /\ held = [r \in Requests |-> 0]
    /\ free = [p \in Replicas |-> MaxConns]
    /\ code = [r \in Requests |-> "none"]
    /\ answer = [r \in Requests |-> NoShipment]
    /\ tx = [r \in Requests |-> "none"]
    /\ row = [r \in Requests |-> FALSE]
    /\ packages = [r \in Requests |-> 0]
    /\ audited = [r \in Requests |-> FALSE]
    /\ faults = 0

-----------------------------------------------------------------------------
(* The index on idempotency_key: who stands in the way of an insert.       *)

\* s has inserted a row under its key and not rolled it back.
Claims(s) == row[s] /\ tx[s] \in {"open", "committing", "committed"}
Committed(s) == row[s] /\ tx[s] = "committed"
Rivals(r) == {s \in Requests \ {r} : key[s] = key[r]}

-----------------------------------------------------------------------------
(* Parts of the handler's steps.                                           *)

GoTo(r, l) == pc' = [pc EXCEPT ![r] = l]

\* A connection leaves the pool; the handler waits where none is left.
Acquire(r) ==
    /\ free[at[r]] > 0
    /\ free' = [free EXCEPT ![at[r]] = @ - 1]
    /\ held' = [held EXCEPT ![r] = @ + 1]

\* Mutant: an error path without the deferred Rollback.
FinishLeaking(r, c, id) ==
    /\ GoTo(r, "done")
    /\ code' = [code EXCEPT ![r] = c]
    /\ answer' = [answer EXCEPT ![r] = id]
    /\ held' = [held EXCEPT ![r] = 0]
    /\ free' = [free EXCEPT ![at[r]] = IF c = "error" THEN @ ELSE @ + held[r]]

\* The handler answers; the deferred tx.Rollback and the closed rows give
\* back every connection, the transaction being over or left to the server.
Finish(r, c, id) ==
    /\ GoTo(r, "done")
    /\ code' = [code EXCEPT ![r] = c]
    /\ answer' = [answer EXCEPT ![r] = id]
    /\ held' = [held EXCEPT ![r] = 0]
    /\ free' = [free EXCEPT ![at[r]] = @ + held[r]]

SetTx(r, s) == tx' = [tx EXCEPT ![r] = s]

Fault ==
    /\ faults < MaxFaults
    /\ faults' = faults + 1

-----------------------------------------------------------------------------
(* The handler.                                                            *)

\* The body decodes and its fields and the key are there.
Receive(r) ==
    /\ pc[r] = "idle"
    /\ GoTo(r, "begin")
    /\ UNCHANGED <<routing, held, free, code, answer, tx, rows, faults>>

\* Any of the three checks fails: 400, before the database is touched.
Refuse(r) ==
    /\ pc[r] = "idle"
    /\ Finish(r, "bad_request", NoShipment)
    /\ UNCHANGED <<routing, tx, rows, faults>>

Begin(r) ==
    /\ pc[r] = "begin"
    /\ Acquire(r)
    /\ SetTx(r, "open")
    /\ GoTo(r, "insert")
    /\ UNCHANGED <<routing, code, answer, rows, faults>>

\* Mutant: the key is looked up, not locked (no UNIQUE index).
InsertUnlocked(r) ==
    /\ pc[r] = "insert"
    /\ \A s \in Rivals(r) : ~Committed(s)
    /\ row' = [row EXCEPT ![r] = TRUE]
    /\ GoTo(r, "packages")
    /\ UNCHANGED <<routing, held, free, code, answer, tx, packages, audited, faults>>

\* INSERT INTO shipments.  While another transaction has the key in a row it
\* has not committed, the statement waits: the action is disabled.
Insert(r) ==
    /\ pc[r] = "insert"
    /\ \A s \in Rivals(r) : ~Claims(s)
    /\ row' = [row EXCEPT ![r] = TRUE]
    /\ GoTo(r, "packages")
    /\ UNCHANGED <<routing, held, free, code, answer, tx, packages, audited, faults>>

\* Mutant: try the insert again until it works.
DuplicateKeyRetried(r) ==
    /\ pc[r] = "insert"
    /\ \E s \in Rivals(r) : Committed(s)
    /\ SetTx(r, "aborted")
    /\ UNCHANGED <<routing, service, rows, faults>>

\* Mutant: a key another transaction has in hand counts as taken.
DuplicateKeyInHand(r) ==
    /\ pc[r] = "insert"
    /\ \E s \in Rivals(r) : Claims(s)
    /\ SetTx(r, "aborted")
    /\ Finish(r, "error", NoShipment)
    /\ UNCHANGED <<routing, rows, faults>>

\* INSERT INTO shipments when the key is committed: SQLSTATE 23505, which
\* aborts the transaction.  The code asks errors.As what it was.
DuplicateKey(r) ==
    /\ pc[r] = "insert"
    /\ \E s \in Rivals(r) : Committed(s)
    /\ SetTx(r, "aborted")
    /\ IF at[r] \in Recognising
         THEN /\ GoTo(r, "lookup")
              /\ UNCHANGED <<held, free, code, answer>>
         ELSE Finish(r, "error", NoShipment)
    /\ UNCHANGED <<routing, rows, faults>>

\* Pool.QueryRow: a second connection, while the transaction holds its own.
AcquireForLookup(r) ==
    /\ pc[r] = "lookup"
    /\ Acquire(r)
    /\ GoTo(r, "select")
    /\ UNCHANGED <<routing, code, answer, tx, rows, faults>>

\* Mutant: the lookup is not by the key.
SelectAny(r) ==
    /\ pc[r] = "select"
    /\ \E s \in {q \in Requests : Committed(q)} : Finish(r, "replayed", s)
    /\ UNCHANGED <<routing, tx, rows, faults>>

\* SELECT id FROM shipments WHERE idempotency_key = the request's.
SelectExisting(r) ==
    /\ pc[r] = "select"
    /\ LET found == {s \in Requests : key[s] = key[r] /\ Committed(s)}
       IN  IF found = {} THEN Finish(r, "error", NoShipment)
                         ELSE \E s \in found : Finish(r, "replayed", s)
    /\ UNCHANGED <<routing, tx, rows, faults>>

InsertPackage(r) ==
    /\ pc[r] = "packages"
    /\ packages' = [packages EXCEPT ![r] = @ + 1]
    /\ GoTo(r, IF packages[r] + 1 = NumPackages THEN "audit" ELSE "packages")
    /\ UNCHANGED <<routing, held, free, code, answer, tx, row, audited, faults>>

WriteAudit(r) ==
    /\ pc[r] = "audit"
    /\ audited' = [audited EXCEPT ![r] = TRUE]
    /\ GoTo(r, "commit")
    /\ UNCHANGED <<routing, held, free, code, answer, tx, row, packages, faults>>

\* Mutant: the audit row is written outside the transaction.
AuditOutsideTx(r) ==
    /\ pc[r] = "audit"
    /\ Fault
    /\ GoTo(r, "commit")
    /\ UNCHANGED <<routing, held, free, code, answer, tx, rows>>

\* The code drops the audit statement's error; Postgres aborts the
\* transaction on it all the same.
AuditFails(r) ==
    /\ pc[r] = "audit"
    /\ Fault
    /\ SetTx(r, "aborted")
    /\ GoTo(r, "commit")
    /\ UNCHANGED <<routing, held, free, code, answer, rows>>

\* Mutant: the request commits although a statement failed.
SendCommitAnyway(r) ==
    /\ pc[r] = "commit"
    /\ SetTx(r, "committing")
    /\ GoTo(r, "await")
    /\ UNCHANGED <<routing, held, free, code, answer, rows, faults>>

SendCommit(r) ==
    /\ pc[r] = "commit"
    /\ tx[r] = "open"
    /\ SetTx(r, "committing")
    /\ GoTo(r, "await")
    /\ UNCHANGED <<routing, held, free, code, answer, rows, faults>>

\* COMMIT of an aborted transaction answers ROLLBACK, an error to tx.Commit.
CommitRefused(r) ==
    /\ pc[r] = "commit"
    /\ tx[r] = "aborted"
    /\ Finish(r, "error", NoShipment)
    /\ UNCHANGED <<routing, tx, rows, faults>>

\* Mutant: 201 before Commit has returned.
AnswerEarly(r) ==
    /\ pc[r] = "await"
    /\ Finish(r, "created", r)
    /\ UNCHANGED <<routing, tx, rows, faults>>

AnswerCreated(r) ==
    /\ pc[r] = "await"
    /\ tx[r] = "committed"
    /\ Finish(r, "created", r)
    /\ UNCHANGED <<routing, tx, rows, faults>>

-----------------------------------------------------------------------------
(* Failures.                                                               *)

\* A statement is rejected (a value out of a column's range): 500.
StatementFails(r) ==
    /\ pc[r] \in {"insert", "packages"}
    /\ Fault
    /\ SetTx(r, "aborted")
    /\ Finish(r, "error", NoShipment)
    /\ UNCHANGED <<routing, rows>>

\* The connection breaks, or the client goes away and r.Context() is
\* cancelled: the handler gives up at once, and the server finds out later.
Abandon(r) ==
    /\ pc[r] \in InFlight
    /\ Fault
    /\ Finish(r, "error", NoShipment)
    /\ UNCHANGED <<routing, tx, rows>>

\* A pod dies, and its restart begins with a fresh pool.
Crash(p) ==
    /\ Fault
    /\ LET hit == {r \in Requests : at[r] = p /\ pc[r] \in InFlight}
       IN  /\ hit # {}
           /\ pc' = [r \in Requests |-> IF r \in hit THEN "done" ELSE pc[r]]
           /\ code' = [r \in Requests |-> IF r \in hit THEN "lost" ELSE code[r]]
           /\ held' = [r \in Requests |-> IF r \in hit THEN 0 ELSE held[r]]
    /\ free' = [free EXCEPT ![p] = MaxConns]
    /\ UNCHANGED <<routing, answer, tx, rows>>

-----------------------------------------------------------------------------
(* The database server, at its own pace.                                   *)

\* The commit takes effect, whoever is still there to hear of it.
ServerCommits(r) ==
    /\ tx[r] = "committing"
    /\ SetTx(r, "committed")
    /\ UNCHANGED <<routing, service, rows, faults>>

\* The server notices that nobody is at the other end.
ServerRollsBack(r) ==
    /\ pc[r] = "done"
    /\ tx[r] \in {"open", "committing"}
    /\ SetTx(r, "aborted")
    /\ UNCHANGED <<routing, service, rows, faults>>

-----------------------------------------------------------------------------

Handle(r) ==
    \/ Begin(r) \/ Insert(r) \/ DuplicateKey(r) \/ AcquireForLookup(r)
    \/ SelectExisting(r) \/ InsertPackage(r) \/ WriteAudit(r)
    \/ SendCommit(r) \/ CommitRefused(r) \/ AnswerCreated(r)

Serve(r) == ServerCommits(r) \/ ServerRollsBack(r)

Break(r) == AuditFails(r) \/ StatementFails(r) \/ Abandon(r)

\* Every request is answered and no transaction is left: the end of a run.
Finished ==
    /\ \A r \in Requests : pc[r] = "done" /\ tx[r] \notin {"open", "committing"}
    /\ UNCHANGED vars

Next ==
    \/ \E r \in Requests : Receive(r) \/ Refuse(r) \/ Handle(r) \/ Break(r) \/ Serve(r)
    \/ \E p \in Replicas : Crash(p)
    \/ Finished

Spec == Init /\ [][Next]_vars
-----------------------------------------------------------------------------
(* Properties.                                                             *)

\* One key, one shipment: no two committed rows carry the same key, whatever
\* the interleaving of inserts, commits and rollbacks across replicas.
OneShipmentPerKey ==
    \A r, s \in Requests : Committed(r) /\ Committed(s) /\ key[r] = key[s] => r = s

\* A shipment that exists has all its packages and its audit row, although
\* the code ignores the audit statement's error and rows are written one by
\* one: it is Commit's error that must not be lost.
CommittedIsComplete ==
    \A r \in Requests : Committed(r) => packages[r] = NumPackages /\ audited[r]

\* The shipment an answer names is durable and carries the request's key: 201
\* is not sent before the commit, 200 does not read another's uncommitted row.
AnswersAreDurable ==
    \A r \in Requests : code[r] \in {"created", "replayed"} =>
        \E s \in Requests : answer[r] = s /\ Committed(s) /\ key[s] = key[r]

\* Two requests with one key that are told of a shipment are told of the same
\* one, whichever replicas served them and whatever failed in between.
SameKeySameShipment ==
    \A r, s \in Requests :
        /\ key[r] = key[s]
        /\ code[r] \in {"created", "replayed"}
        /\ code[s] \in {"created", "replayed"}
        => answer[r] = answer[s]

\* The requests that hold n connections of a replica's pool.
Holding(p, n) == {r \in Requests : at[r] = p /\ held[r] >= n}

\* No connection is lost to the pool or returned twice, on any path out of
\* the handler: early error returns, the replay path, a crash.
ConnsAccounted ==
    \A p \in Replicas :
        free[p] + Cardinality(Holding(p, 1)) + Cardinality(Holding(p, 2)) = MaxConns

\* The comment at shipment.go:153 and scripts/obs_smoke.sh: with nothing
\* failing, a duplicate is answered with the existing shipment, not an error.
DuplicatesAreReplayed ==
    faults = 0 => \A r \in Requests : code[r] # "error"

\* The code keeps the promise of ExactlyOnceCreate: a key names the shipment
\* committed under it.
shipmentNamed ==
    [k \in Keys |->
        IF \E r \in Requests : Committed(r) /\ key[r] = k
          THEN CHOOSE r \in Requests : Committed(r) /\ key[r] = k
          ELSE NoShipment]

Promise == INSTANCE ExactlyOnceCreate WITH shipmentOf <- shipmentNamed

KeepsPromise == Promise!Spec
-----------------------------------------------------------------------------
(* The inductive invariant behind the safety properties.                   *)

\* What the handler has done in the database when it is at each step.
StepsInOrder ==
    \A r \in Requests :
        /\ pc[r] \in {"idle", "begin"} => tx[r] = "none"
        /\ pc[r] \in {"idle", "begin", "insert"} => ~row[r] /\ packages[r] = 0
        /\ pc[r] \in {"insert", "packages", "audit"} => tx[r] = "open"
        /\ pc[r] \in {"packages", "audit", "commit"} => row[r]
        /\ pc[r] = "packages" => packages[r] < NumPackages
        /\ pc[r] \in {"audit", "commit"} => packages[r] = NumPackages
        /\ pc[r] = "commit" => tx[r] \in {"open", "aborted"}
        /\ pc[r] = "commit" /\ tx[r] = "open" => audited[r]
        /\ pc[r] = "await" => tx[r] \in {"committing", "committed"}
        /\ pc[r] \in {"lookup", "select"} => tx[r] = "aborted"

\* Nothing is committed, or about to be, that is not complete.
CompleteBeforeCommit ==
    \A r \in Requests : tx[r] \in {"committing", "committed"} =>
        /\ row[r]
        /\ packages[r] = NumPackages
        /\ audited[r]
        /\ pc[r] \in {"await", "done"}

\* The unique index: a key is claimed once, committed or not.
KeyClaimedOnce ==
    \A r, s \in Requests : Claims(r) /\ Claims(s) /\ key[r] = key[s] => r = s

\* An answer is given once, at the end.
AnswerIsLast ==
    \A r \in Requests : pc[r] # "done" => code[r] = "none" /\ answer[r] = NoShipment

\* The connections a handler holds at each step.
HeldByStep ==
    \A r \in Requests :
        held[r] = IF pc[r] = "select" THEN 2 ELSE IF pc[r] \in InTx THEN 1 ELSE 0

\* All of it: what the handlers know at each step, with which a step that keeps
\* one key to one shipment can be told from one that does not.
CreateInv ==
    /\ TypeOK
    /\ StepsInOrder
    /\ CompleteBeforeCommit
    /\ KeyClaimedOnce
    /\ AnswerIsLast
    /\ HeldByStep
    /\ AnswersAreDurable
=============================================================================
