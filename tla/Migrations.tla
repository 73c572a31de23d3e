----------------------------- MODULE Migrations -----------------------------
(***************************************************************************)
(* db.Migrate of identity-svc, shipment-svc and tracking-svc, the file     *)
(* migration runner each Go service calls before it listens                *)
(* (internal/db/migrate.go, called from cmd/server/main.go).               *)
(*                                                                         *)
(* The three copies differ in one thing, the ledger table in which a       *)
(* service records the file names it has applied.  All three services are  *)
(* given the same database (lmp: each service's .env.example, and the      *)
(* default of internal/db/db.go), and nothing serialises two instances     *)
(* that start together.  What main does when Migrate has returned is in    *)
(* Users for identity-svc; the other two listen at once.                   *)
(***************************************************************************)
EXTENDS Naturals, Sequences

CONSTANTS Instances,     \* running copies of services
          Deployments,   \* what the instances may be copies of, and how they run
          MaxFaults      \* bound: crashes and failing statements

Services == {"identity", "shipment", "tracking"}

ASSUME MigrationsConstantsOK ==
    /\ Deployments \subseteq [service  : [Instances -> Services],
                               shipped  : SUBSET Instances,
                               restarts : BOOLEAN]
    /\ MaxFaults \in Nat

VARIABLES
    \* the deployment, for good
    service,    \* what an instance is a copy of
    shipped,    \* instances whose migrations directory is there, to be walked
    restarts,   \* whether a container that is down is started again by itself
    \* the database
    objects,    \* schema objects that exist
    recorded,   \* file names in a ledger table
    \* an instance
    pc,
    applied,    \* the names it read from its ledger
    position,   \* the file it has come to
    faults

deployment == <<service, shipped, restarts>>
vars == <<deployment, objects, recorded, pc, applied, position, faults>>

-----------------------------------------------------------------------------
(* The migrations directories.                                             *)

Files(svc) ==
    IF svc = "shipment" THEN <<"001_init.sql", "002_add_idempotency.sql">>
                        ELSE <<"001_init.sql">>

Ledger(svc) ==
    IF svc = "tracking" THEN "schema_migrations_tracking" ELSE "schema_migrations"

Ledgers == {Ledger(svc) : svc \in Services}

\* What a file creates, with IF NOT EXISTS, and what it alters.
Creates(svc, file) ==
    CASE svc = "identity" -> {"pgcrypto", "users"}
      [] svc = "tracking" -> {"pgcrypto", "tracking_events"}
      [] svc = "shipment" /\ file = "001_init.sql" -> {"pgcrypto", "shipments"}
      [] svc = "shipment" /\ file # "001_init.sql" -> {"shipments.idempotency_key"}

Alters(svc, file) ==
    IF file = "002_add_idempotency.sql" THEN {"shipments"} ELSE {}

FileSet(svc) == {Files(svc)[n] : n \in DOMAIN Files(svc)}

Schema(svc) == UNION {Creates(svc, file) : file \in FileSet(svc)}

FileNames == UNION {FileSet(svc) : svc \in Services}
Objects == UNION {Schema(svc) : svc \in Services}

-----------------------------------------------------------------------------

LedgerOf(i) == Ledger(service[i])
FilesOf(i) == IF i \in shipped THEN Files(service[i]) ELSE <<>>

PCs == {"down", "connected", "read", "next", "record", "count", "seed", "serving"}

TypeOK ==
    /\ service \in [Instances -> Services]
    /\ shipped \subseteq Instances
    /\ restarts \in BOOLEAN
    /\ objects \subseteq Objects
    /\ recorded \in [Ledgers -> SUBSET FileNames]
    /\ pc \in [Instances -> PCs]
    /\ applied \in [Instances -> SUBSET FileNames]
    /\ position \in [Instances -> Nat \ {0}]
    /\ \A i \in Instances : position[i] <= Len(FilesOf(i)) + 1
    /\ faults \in 0..MaxFaults

Init ==
    /\ \E d \in Deployments :
          service = d.service /\ shipped = d.shipped /\ restarts = d.restarts
    /\ objects = {}
    /\ recorded = [t \in Ledgers |-> {}]
    /\ pc = [i \in Instances |-> "down"]
    /\ applied = [i \in Instances |-> {}]
    /\ position = [i \in Instances |-> 1]
    /\ faults = 0

GoTo(i, l) == pc' = [pc EXCEPT ![i] = l]
File(i) == FilesOf(i)[position[i]]
AtFile(i) == position[i] <= Len(FilesOf(i))

Fault ==
    /\ faults < MaxFaults
    /\ faults' = faults + 1

\* What main does when Migrate has returned nil.
Proceed(i) == GoTo(i, IF service[i] = "identity" THEN "count" ELSE "serving")

\* main, started or started again, by the kubelet or by hand: a pool whose ping
\* is answered.  A start whose ping is not ends in log.Fatalf, and is left out.
Connect(i) ==
    /\ pc[i] = "down"
    /\ GoTo(i, "connected")
    /\ position' = [position EXCEPT ![i] = 1]
    /\ applied' = [applied EXCEPT ![i] = {}]
    /\ UNCHANGED <<deployment, objects, recorded, faults>>

\* os.Stat finds no directory of migrations: Migrate returns nil at once.
NoDirectory(i) ==
    /\ pc[i] = "connected"
    /\ i \notin shipped
    /\ Proceed(i)
    /\ UNCHANGED <<deployment, objects, recorded, applied, position, faults>>

\* CREATE TABLE IF NOT EXISTS the ledger.  A directory that is there and cannot
\* be walked comes this way too: the error is dropped, and it has no files.
EnsureLedger(i) ==
    /\ pc[i] = "connected"
    /\ GoTo(i, "read")
    /\ UNCHANGED <<deployment, objects, recorded, applied, position, faults>>

\* SELECT version FROM the ledger.
ReadLedger(i) ==
    /\ pc[i] = "read"
    /\ applied' = [applied EXCEPT ![i] = recorded[LedgerOf(i)]]
    /\ GoTo(i, "next")
    /\ UNCHANGED <<deployment, objects, recorded, position, faults>>

\* The query's error, and a row stream that breaks off, are ignored: the
\* runner goes on with what it got.
ReadLedgerFails(i) ==
    /\ pc[i] = "read"
    /\ Fault
    /\ \E part \in SUBSET recorded[LedgerOf(i)] : applied' = [applied EXCEPT ![i] = part]
    /\ GoTo(i, "next")
    /\ UNCHANGED <<deployment, objects, recorded, position>>

\* Mutant: a service that has any file applied is taken to have them all.
SkipOnceApplied(i) ==
    /\ pc[i] = "next"
    /\ AtFile(i)
    /\ applied[i] # {}
    /\ position' = [position EXCEPT ![i] = @ + 1]
    /\ UNCHANGED <<deployment, objects, recorded, pc, applied, faults>>

\* The name is in the ledger, so the file is passed over.
Skip(i) ==
    /\ pc[i] = "next"
    /\ AtFile(i)
    /\ File(i) \in applied[i]
    /\ position' = [position EXCEPT ![i] = @ + 1]
    /\ UNCHANGED <<deployment, objects, recorded, pc, applied, faults>>

\* Mutant: the statements' error is dropped like the ledger insert's.
ApplyErrorDropped(i) ==
    /\ pc[i] = "next"
    /\ AtFile(i)
    /\ File(i) \notin applied[i]
    /\ \/ objects' = objects \union Creates(service[i], File(i))
       \/ UNCHANGED objects
    /\ GoTo(i, "record")
    /\ UNCHANGED <<deployment, recorded, applied, position, faults>>

\* The file's statements go in one simple-protocol query, one transaction.  If
\* a table it alters is not there it fails: log.Fatalf.
Apply(i) ==
    /\ pc[i] = "next"
    /\ AtFile(i)
    /\ File(i) \notin applied[i]
    /\ IF Alters(service[i], File(i)) \subseteq objects
         THEN /\ objects' = objects \union Creates(service[i], File(i))
              /\ GoTo(i, "record")
         ELSE /\ GoTo(i, "down")
              /\ UNCHANGED objects
    /\ UNCHANGED <<deployment, recorded, applied, position, faults>>

\* CREATE ... IF NOT EXISTS fails in one of two sessions that create the same
\* thing at the same time, if only the extension: log.Fatalf again.
ApplyRaces(i) ==
    /\ pc[i] = "next"
    /\ AtFile(i)
    /\ File(i) \notin applied[i]
    /\ \E j \in Instances \ {i} :
          /\ pc[j] = "next"
          /\ AtFile(j)
          /\ ~(Creates(service[i], File(i)) \intersect Creates(service[j], File(j)) \subseteq objects)
    /\ Fault
    /\ GoTo(i, "down")
    /\ UNCHANGED <<deployment, objects, recorded, applied, position>>

\* Mutant: the loop stays at the file it has recorded.
RecordInPlace(i) ==
    /\ pc[i] = "record"
    /\ recorded' = [recorded EXCEPT ![LedgerOf(i)] = @ \union {File(i)}]
    /\ GoTo(i, "next")
    /\ UNCHANGED <<deployment, objects, applied, position, faults>>

\* INSERT INTO the ledger; another instance may have done so already.
Record(i) ==
    /\ pc[i] = "record"
    /\ recorded' = [recorded EXCEPT ![LedgerOf(i)] = @ \union {File(i)}]
    /\ position' = [position EXCEPT ![i] = @ + 1]
    /\ GoTo(i, "next")
    /\ UNCHANGED <<deployment, objects, applied, faults>>

\* Mutant: the error's branch moves on to the next file, and then so does the
\* loop.
RecordFailsSkipping(i) ==
    /\ pc[i] = "record"
    /\ Fault
    /\ position' = [position EXCEPT ![i] = @ + 2]
    /\ GoTo(i, "next")
    /\ UNCHANGED <<deployment, objects, recorded, applied>>

\* The insert's error is ignored.
RecordFails(i) ==
    /\ pc[i] = "record"
    /\ Fault
    /\ position' = [position EXCEPT ![i] = @ + 1]
    /\ GoTo(i, "next")
    /\ UNCHANGED <<deployment, objects, recorded, applied>>

\* Migrate returns nil, and main goes on.
Return(i) ==
    /\ pc[i] = "next"
    /\ ~AtFile(i)
    /\ Proceed(i)
    /\ UNCHANGED <<deployment, objects, recorded, applied, position, faults>>

\* The process dies, or what has no error path of its own here ends it: the
\* ledger's CREATE TABLE fails, in a race or not.
Crash(i) ==
    /\ pc[i] # "down"
    /\ Fault
    /\ GoTo(i, "down")
    /\ UNCHANGED <<deployment, objects, recorded, applied, position>>

Boot(i) ==
    \/ Connect(i) \/ NoDirectory(i) \/ EnsureLedger(i) \/ ReadLedger(i)
    \/ Skip(i) \/ Apply(i) \/ Record(i) \/ Return(i)

Break(i) == ReadLedgerFails(i) \/ ApplyRaces(i) \/ RecordFails(i) \/ Crash(i)

\* Every instance is past its migrations: the end of a run of this module.
Returned(i) == pc[i] \in {"count", "seed", "serving"}

AllReturned ==
    /\ \A i \in Instances : Returned(i)
    /\ UNCHANGED vars

Next ==
    \/ \E i \in Instances : Boot(i) \/ Break(i)
    \/ AllReturned

Spec == Init /\ [][Next]_vars

-----------------------------------------------------------------------------
(* Properties.                                                             *)

\* The instances whose directory has a file of this name, which i's ledger
\* cannot tell from i's own.
Namesakes(i, file) ==
    {j \in shipped : LedgerOf(j) = LedgerOf(i) /\ file \in FileSet(service[j])}

TookEffect(svc, file) == Alters(svc, file) \union Creates(svc, file) \subseteq objects

\* For every file of a service that is past its migrations, to listen or to
\* seed, the file took effect or one of its name on the same ledger did,
\* although instances race, crash between a file and its ledger entry, and lose
\* ledger reads and writes unnoticed.  So a service whose ledger is its own has
\* every table and column its statements name; and so has shipment-svc whoever
\* it shares with, because its second file, which has no namesake, cannot take
\* effect without the table of the first.
ServingHasSchema ==
    \A i \in shipped : Returned(i) =>
        \A file \in FileSet(service[i]) :
            \E j \in Namesakes(i, file) : TookEffect(service[j], file)

\* A name gets into a ledger only after the file of that name of one of the
\* ledger's services took effect.
LedgerIsTruthful ==
    \A t \in Ledgers : \A file \in recorded[t] :
        \E svc \in Services :
            /\ Ledger(svc) = t
            /\ file \in FileSet(svc)
            /\ Creates(svc, file) \subseteq objects

\* What tracking-svc's migrate.go:22 wants of a migrations table: a name found
\* there is this service's file, not another's of the same name.
SkippedWasApplied ==
    \A i \in Instances : \A file \in applied[i] \intersect FileSet(service[i]) :
        Creates(service[i], file) \subseteq objects
=============================================================================
