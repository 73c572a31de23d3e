---------------------------- MODULE UsersProofs ----------------------------
(***************************************************************************)
(* What the migrations of the three Go services and the seed, the login    *)
(* and the accounts of identity-svc guarantee, for any number of           *)
(* instances, emails, passwords and failures.                              *)
(*                                                                         *)
(* Nothing is assumed of the deployment.  Where services share a ledger, a *)
(* name found there is vouched for by a file of that name that took        *)
(* effect, if not by the reader's own, and that is what ServingHasSchema   *)
(* promises; what it does not is shown in migrations_collision.            *)
(***************************************************************************)
EXTENDS Users, TLAPS

USE DEF deployment

-----------------------------------------------------------------------------
(* The migrations.                                                         *)

\* The name of a file that instance i's ledger speaks for, and one of the name
\* took effect.
Vouched(i, file) == \E j \in Namesakes(i, file) : TookEffect(service[j], file)

\* What is in a ledger, some instance has put there.
RecordedIsVouched ==
    \A t \in Ledgers : \A file \in recorded[t] :
        \E i \in Instances : LedgerOf(i) = t /\ Vouched(i, file)

AppliedIsVouched == \A i \in Instances : \A file \in applied[i] : Vouched(i, file)

\* A file is recorded when it has taken effect, Migrate returns when it has come
\* to the end of them, and only identity-svc has users to count.
InStep ==
    \A i \in Instances :
        /\ pc[i] = "record" => AtFile(i) /\ TookEffect(service[i], File(i))
        /\ Returned(i) => ~AtFile(i)
        /\ pc[i] \in {"count", "seed"} => service[i] = "identity"

\* The files an instance has come past are vouched for.
FilesBefore ==
    \A i \in Instances : \A n \in 1..(position[i] - 1) : Vouched(i, FilesOf(i)[n])

MigrationsInv == TypeOK /\ RecordedIsVouched /\ AppliedIsVouched /\ InStep /\ FilesBefore

\* A step of identity-svc's main after the migrations, as far as they see it.
SeedStep ==
    /\ Stay
    /\ faults' \in 0..MaxFaults
    /\ \/ UNCHANGED pc
       \/ \E i \in Instances, l \in {"seed", "serving"} :
             pc[i] \in {"count", "seed"} /\ GoTo(i, l)

\* The directories: one or two files, each in the schema of its service.
LEMMA Directories ==
    \A svc \in Services :
        /\ Len(Files(svc)) \in 1..2
        /\ FileSet(svc) = {Files(svc)[n] : n \in 1..Len(Files(svc))}
        /\ Ledger(svc) \in Ledgers
        /\ \A file \in FileSet(svc) : file \in FileNames /\ Creates(svc, file) \subseteq Objects
BY DEF Services, Files, FileSet, Ledger, Ledgers, Schema, FileNames, Objects

\* An instance goes through its service's files, or has none.
LEMMA OwnFiles ==
    ASSUME service \in [Instances -> Services], NEW i \in Instances
    PROVE  /\ Len(FilesOf(i)) \in Nat
           /\ i \in shipped => FilesOf(i) = Files(service[i])
           /\ i \notin shipped => Len(FilesOf(i)) = 0
BY Directories DEF FilesOf

\* Where an instance is at a file, it is one of its service's.
LEMMA FileIsOwn ==
    ASSUME TypeOK, NEW i \in Instances, AtFile(i)
    PROVE  /\ service[i] \in Services
           /\ position[i] <= Len(FilesOf(i)) /\ Len(FilesOf(i)) \in Nat
           /\ File(i) = FilesOf(i)[position[i]]
           /\ i \in Namesakes(i, File(i))
           /\ LedgerOf(i) \in Ledgers
           /\ File(i) \in FileNames
           /\ Creates(service[i], File(i)) \subseteq Objects
<1>1. service[i] \in Services /\ position[i] \in Nat \ {0} /\ position[i] <= Len(FilesOf(i))
  BY DEF TypeOK, AtFile
<1>2. i \in shipped /\ FilesOf(i) = Files(service[i]) /\ Len(FilesOf(i)) \in Nat
  BY <1>1, OwnFiles DEF TypeOK
<1>3. File(i) \in FileSet(service[i])
  BY <1>1, <1>2, Directories DEF File
<1> QED
  BY <1>1, <1>2, <1>3, Directories DEF File, Namesakes, LedgerOf

\* An empty database, and nobody has read a ledger.
LEMMA MigrationsInit == Init => MigrationsInv
<1> SUFFICES ASSUME Init PROVE MigrationsInv
  OBVIOUS
<1>1. service \in [Instances -> Services] /\ shipped \subseteq Instances /\ restarts \in BOOLEAN
  BY MigrationsConstantsOK DEF Init
<1>2. \A i \in Instances : Len(FilesOf(i)) \in Nat
  BY <1>1, OwnFiles
<1>3. TypeOK
  BY <1>1, <1>2, MigrationsConstantsOK DEF Init, TypeOK, PCs
<1>4. RecordedIsVouched /\ AppliedIsVouched /\ InStep /\ FilesBefore
  BY <1>3 DEF Init, RecordedIsVouched, AppliedIsVouched, InStep, Returned, FilesBefore
<1> QED
  BY <1>3, <1>4 DEF MigrationsInv

\* A step of the migrations, of the seed, or neither.
Migrates == [Next]_vars \/ SeedStep

\* Nothing is dropped from the schema, and the deployment stays what it is.
LEMMA SchemaGrows ==
    ASSUME Migrates
    PROVE  /\ objects \subseteq objects'
           /\ UNCHANGED deployment
           /\ \A i \in Instances : FilesOf(i)' = FilesOf(i) /\ LedgerOf(i)' = LedgerOf(i)
<1>1. objects \subseteq objects' /\ UNCHANGED deployment
  BY DEF Migrates, Next, Boot, Break, Connect, NoDirectory, EnsureLedger, ReadLedger,
     ReadLedgerFails, Skip, Apply, ApplyRaces, Record, RecordFails, Return, Crash, AllReturned,
     SeedStep, Stay, vars
<1> QED
  BY <1>1 DEF FilesOf, LedgerOf

\* So what took effect has done so for good, and so a file that is vouched for.
LEMMA VouchedForGood ==
    ASSUME Migrates
    PROVE  /\ \A i \in Instances : \A file : TookEffect(service[i], file)
                                                 => TookEffect(service[i], file)'
           /\ \A i \in Instances : \A file : Vouched(i, file) => Vouched(i, file)'
BY SchemaGrows DEF Vouched, Namesakes, TookEffect, LedgerOf

\* Every step keeps the types: position stays within the files and one past.
LEMMA TypeStep == MigrationsInv /\ Migrates => TypeOK'
<1> SUFFICES ASSUME MigrationsInv, Migrates PROVE TypeOK'
  OBVIOUS
<1> USE DEF MigrationsInv, GoTo, Fault, Proceed
<1>0. /\ UNCHANGED deployment
      /\ \A i \in Instances : FilesOf(i)' = FilesOf(i)
      /\ \A i \in Instances : Len(FilesOf(i)) \in Nat /\ LedgerOf(i) \in Ledgers
  BY SchemaGrows, OwnFiles, Directories DEF TypeOK, LedgerOf
<1>1. ASSUME NEW i \in Instances, Connect(i) PROVE TypeOK'
  BY <1>0, <1>1 DEF TypeOK, PCs, Connect
<1>2. ASSUME NEW i \in Instances, ReadLedger(i) PROVE TypeOK'
  <2>1. recorded[LedgerOf(i)] \subseteq FileNames
    BY <1>0 DEF TypeOK
  <2> QED
    BY <1>0, <1>2, <2>1 DEF TypeOK, PCs, ReadLedger
<1>3. ASSUME NEW i \in Instances, ReadLedgerFails(i) PROVE TypeOK'
  <2>1. recorded[LedgerOf(i)] \subseteq FileNames
    BY <1>0 DEF TypeOK
  <2>2. applied' \in [Instances -> SUBSET FileNames]
    BY <1>3, <2>1 DEF TypeOK, ReadLedgerFails
  <2> QED
    BY <1>0, <1>3, <2>2, MigrationsConstantsOK DEF TypeOK, PCs, ReadLedgerFails
<1>4. ASSUME NEW i \in Instances, Skip(i) \/ RecordFails(i) PROVE TypeOK'
  <2>1. position[i] <= Len(FilesOf(i))
    BY <1>4 DEF Skip, RecordFails, InStep, AtFile
  <2>2. CASE Skip(i)
    BY <1>0, <2>1, <2>2 DEF TypeOK, Skip
  <2>3. CASE RecordFails(i)
    BY <1>0, <2>1, <2>3, MigrationsConstantsOK DEF TypeOK, PCs, RecordFails
  <2> QED
    BY <1>4, <2>2, <2>3
<1>5. ASSUME NEW i \in Instances, Apply(i) PROVE TypeOK'
  <2>1. Creates(service[i], File(i)) \subseteq Objects
    BY <1>5, FileIsOwn DEF Apply
  <2> QED
    BY <1>0, <1>5, <2>1 DEF TypeOK, PCs, Apply
<1>6. ASSUME NEW i \in Instances, Record(i) PROVE TypeOK'
  <2>1. position[i] <= Len(FilesOf(i)) /\ File(i) \in FileNames
    BY <1>6, FileIsOwn DEF Record, InStep
  <2> QED
    BY <1>0, <1>6, <2>1 DEF TypeOK, PCs, Record
<1>7. ASSUME NEW i \in Instances, NoDirectory(i) \/ EnsureLedger(i) \/ Return(i) PROVE TypeOK'
  BY <1>0, <1>7 DEF TypeOK, PCs, NoDirectory, EnsureLedger, Return
<1>8. ASSUME NEW i \in Instances, ApplyRaces(i) \/ Crash(i) PROVE TypeOK'
  <2>1. /\ UNCHANGED <<deployment, objects, recorded, applied, position>>
        /\ faults < MaxFaults /\ faults' = faults + 1
        /\ pc' = [pc EXCEPT ![i] = "down"]
    BY <1>8 DEF ApplyRaces, Crash
  <2> QED
    BY <1>0, <2>1, MigrationsConstantsOK DEF TypeOK, PCs
<1>9. CASE SeedStep
  BY <1>0, <1>9 DEF SeedStep, Stay, TypeOK, PCs
<1>10. CASE AllReturned \/ UNCHANGED vars
  BY <1>0, <1>10 DEF AllReturned, vars, TypeOK
<1> QED
  BY <1>1, <1>2, <1>3, <1>4, <1>5, <1>6, <1>7, <1>8, <1>9, <1>10
     DEF Migrates, Next, Boot, Break

\* Only Record adds to a ledger, and only a file that took effect.
LEMMA RecordedStep == MigrationsInv /\ Migrates => RecordedIsVouched'
<1> SUFFICES ASSUME MigrationsInv, Migrates PROVE RecordedIsVouched'
  OBVIOUS
<1> USE DEF MigrationsInv
<1>1. \A i \in Instances : /\ LedgerOf(i)' = LedgerOf(i)
                           /\ \A file : Vouched(i, file) => Vouched(i, file)'
  BY SchemaGrows, VouchedForGood
<1>2. ASSUME NEW i \in Instances, Record(i) PROVE RecordedIsVouched'
  <2>1. Vouched(i, File(i)) /\ LedgerOf(i) \in Ledgers
    BY <1>2, FileIsOwn DEF Record, InStep, Vouched
  <2>2. ASSUME NEW t \in Ledgers, NEW file \in recorded'[t]
        PROVE  file \in recorded[t] \/ (t = LedgerOf(i) /\ file = File(i))
    BY <1>2, <2>1, <2>2 DEF Record, TypeOK
  <2> QED
    BY <1>1, <2>1, <2>2 DEF RecordedIsVouched
<1>3. CASE UNCHANGED recorded
  BY <1>1, <1>3 DEF RecordedIsVouched
<1> QED
  BY <1>2, <1>3 DEF Migrates, Next, Boot, Break, Connect, NoDirectory, EnsureLedger, ReadLedger,
     ReadLedgerFails, Skip, Apply, ApplyRaces, RecordFails, Return, Crash, AllReturned,
     SeedStep, Stay, vars

\* An instance reads no name but from its ledger.
LEMMA AppliedStep == MigrationsInv /\ Migrates => AppliedIsVouched'
<1> SUFFICES ASSUME MigrationsInv, Migrates PROVE AppliedIsVouched'
  OBVIOUS
<1> USE DEF MigrationsInv
<1>1. \A i \in Instances : \A file : Vouched(i, file) => Vouched(i, file)'
  BY VouchedForGood
<1>2. ASSUME NEW i \in Instances, Connect(i) PROVE AppliedIsVouched'
  BY <1>1, <1>2 DEF Connect, AppliedIsVouched, TypeOK
<1>3. ASSUME NEW i \in Instances, ReadLedger(i) \/ ReadLedgerFails(i) PROVE AppliedIsVouched'
  <2>1. LedgerOf(i) \in Ledgers
    BY Directories DEF TypeOK, LedgerOf
  <2>2. \A file \in recorded[LedgerOf(i)] : Vouched(i, file)
    BY <2>1 DEF RecordedIsVouched, Vouched, Namesakes
  <2>3. \A file \in applied'[i] : file \in recorded[LedgerOf(i)]
    BY <1>3 DEF ReadLedger, ReadLedgerFails, TypeOK
  <2>4. \A j \in Instances \ {i} : applied'[j] = applied[j]
    BY <1>3 DEF ReadLedger, ReadLedgerFails, TypeOK
  <2> QED
    BY <1>1, <2>2, <2>3, <2>4 DEF AppliedIsVouched
<1>4. CASE UNCHANGED applied
  BY <1>1, <1>4 DEF AppliedIsVouched
<1> QED
  BY <1>2, <1>3, <1>4 DEF Migrates, Next, Boot, Break, NoDirectory, EnsureLedger, Skip, Apply,
     ApplyRaces, Record, RecordFails, Return, Crash, AllReturned, SeedStep, Stay, vars

\* Apply goes to record with the file's objects there, and they stay; Proceed
\* sends identity-svc alone to count.
LEMMA InStepStep == MigrationsInv /\ Migrates => InStep'
<1> SUFFICES ASSUME MigrationsInv, Migrates PROVE InStep'
  OBVIOUS
<1> USE DEF MigrationsInv, TypeOK, InStep, GoTo, AtFile, File, Returned
<1>1. /\ UNCHANGED service
      /\ \A i \in Instances : FilesOf(i)' = FilesOf(i)
      /\ \A i \in Instances : \A file : TookEffect(service[i], file)
                                            => TookEffect(service[i], file)'
  BY SchemaGrows, VouchedForGood
<1>2. ASSUME NEW i \in Instances, Connect(i) \/ EnsureLedger(i) PROVE InStep'
  BY <1>1, <1>2 DEF Connect, EnsureLedger
<1>3. ASSUME NEW i \in Instances, NoDirectory(i) PROVE InStep'
  <2>1. Len(FilesOf(i)) = 0
    BY <1>3, OwnFiles DEF NoDirectory
  <2> QED
    BY <1>1, <1>3, <2>1 DEF NoDirectory, Proceed
<1>4. ASSUME NEW i \in Instances, ReadLedger(i) \/ ReadLedgerFails(i) PROVE InStep'
  BY <1>1, <1>4 DEF ReadLedger, ReadLedgerFails
<1>5. ASSUME NEW i \in Instances, Skip(i) PROVE InStep'
  BY <1>1, <1>5 DEF Skip
<1>6. ASSUME NEW i \in Instances, Apply(i) PROVE InStep'
  <2>1. pc'[i] = "record" => TookEffect(service[i], File(i))'
    BY <1>1, <1>6 DEF Apply, TookEffect
  <2> QED
    BY <1>1, <1>6, <2>1 DEF Apply
<1>7. ASSUME NEW i \in Instances, Record(i) \/ RecordFails(i) PROVE InStep'
  BY <1>1, <1>7 DEF Record, RecordFails
<1>8. ASSUME NEW i \in Instances, Return(i) PROVE InStep'
  BY <1>1, <1>8 DEF Return, Proceed
<1>9. ASSUME NEW i \in Instances, ApplyRaces(i) \/ Crash(i) PROVE InStep'
  <2>1. pc' = [pc EXCEPT ![i] = "down"] /\ position' = position
    BY <1>9 DEF ApplyRaces, Crash
  <2> QED
    BY <1>1, <2>1
<1>10. CASE SeedStep
  BY <1>1, <1>10 DEF SeedStep, Stay
<1>11. CASE AllReturned \/ UNCHANGED vars
  BY <1>1, <1>11 DEF AllReturned, vars
<1> QED
  BY <1>2, <1>3, <1>4, <1>5, <1>6, <1>7, <1>8, <1>9, <1>10, <1>11
     DEF Migrates, Next, Boot, Break

\* An instance comes past a file whose name its ledger had, or that it applied
\* just now.
LEMMA FilesBeforeStep == MigrationsInv /\ Migrates => FilesBefore'
<1> SUFFICES ASSUME MigrationsInv, Migrates PROVE FilesBefore'
  OBVIOUS
<1> USE DEF TypeOK, FilesBefore, MigrationsInv
<1>1. /\ \A i \in Instances : FilesOf(i)' = FilesOf(i)
      /\ \A i \in Instances : \A file : Vouched(i, file) => Vouched(i, file)'
  BY SchemaGrows, VouchedForGood
<1>2. ASSUME NEW i \in Instances, Connect(i) PROVE FilesBefore'
  BY <1>1, <1>2 DEF Connect
<1>3. ASSUME NEW i \in Instances, Skip(i) \/ Record(i) \/ RecordFails(i) PROVE FilesBefore'
  <2>1. Vouched(i, FilesOf(i)[position[i]])
    <3>1. CASE Skip(i)
      BY <3>1 DEF Skip, AppliedIsVouched, File
    <3>2. CASE Record(i) \/ RecordFails(i)
      BY <3>2, FileIsOwn DEF Record, RecordFails, InStep, Vouched
    <3> QED
      BY <1>3, <3>1, <3>2
  <2>2. position' = [position EXCEPT ![i] = @ + 1]
    BY <1>3 DEF Skip, Record, RecordFails
  <2>3. ASSUME NEW j \in Instances, NEW n \in 1..(position'[j] - 1)
        PROVE  n \in 1..(position[j] - 1) \/ (j = i /\ n = position[i])
    BY <2>2
  <2> QED
    BY <1>1, <2>1, <2>3
<1>4. CASE UNCHANGED position
  BY <1>1, <1>4
<1> QED
  BY <1>2, <1>3, <1>4 DEF Migrates, Next, Boot, Break, NoDirectory, EnsureLedger, ReadLedger,
     ReadLedgerFails, Apply, ApplyRaces, Return, Crash, AllReturned, SeedStep, Stay, vars

\* A step of the migrations or of the seed keeps what is known of them.
LEMMA MigrationsStep == MigrationsInv /\ Migrates => MigrationsInv'
BY TypeStep, RecordedStep, AppliedStep, InStepStep, FilesBeforeStep DEF MigrationsInv

\* Who is past the last file has come past them all.
LEMMA SchemaFromFiles == MigrationsInv => ServingHasSchema
<1> SUFFICES ASSUME MigrationsInv, NEW i \in shipped, Returned(i),
                    NEW file \in FileSet(service[i])
             PROVE  Vouched(i, file)
  BY DEF ServingHasSchema, Vouched
<1>1. i \in Instances /\ service[i] \in Services
  BY DEF MigrationsInv, TypeOK
<1>2. FilesOf(i) = Files(service[i])
  BY <1>1, OwnFiles DEF MigrationsInv, TypeOK
<1>3. position[i] \in Nat /\ ~(position[i] <= Len(Files(service[i])))
  BY <1>1, <1>2 DEF MigrationsInv, TypeOK, InStep, AtFile
<1>4. PICK n \in 1..Len(Files(service[i])) : file = Files(service[i])[n]
  BY <1>1, Directories
<1>5. n \in 1..(position[i] - 1)
  BY <1>1, <1>3, Directories
<1> QED
  BY <1>1, <1>2, <1>4, <1>5 DEF MigrationsInv, FilesBefore

-----------------------------------------------------------------------------
(* The users of identity-svc.                                              *)

\* An administrator with the credentials some instance of identity-svc was given.
SeededAdmin ==
    \E j \in Instances :
        /\ service[j] = "identity"
        /\ users[admin[j].email] = [password |-> admin[j].password, role |-> "ADMIN"]

\* The first row is a seed's: to create one takes a token, and a token an account.
FirstUserIsAdmin ==
    /\ signedIn => HasUsers
    /\ HasUsers => SeededAdmin

\* Who counted or seeded without a failure has left a user behind.
CleanHasUsers == \A i \in clean : Listens(i) => HasUsers

AccountsInv == UsersTypeOK /\ MigrationsInv /\ FirstUserIsAdmin /\ ToldAccountsWork

UsersInv == AccountsInv /\ CleanHasUsers

USE DEF UsersInv, AccountsInv

\* An empty table, and no tokens.
LEMMA UsersInitInv == UsersInit => UsersInv
<1> SUFFICES ASSUME UsersInit PROVE UsersInv
  OBVIOUS
<1>1. MigrationsInv
  BY MigrationsInit DEF UsersInit
<1>2. UsersTypeOK /\ FirstUserIsAdmin /\ ToldAccountsWork /\ CleanHasUsers
  BY <1>1, UsersConstantsOK
     DEF UsersInit, UsersTypeOK, MigrationsInv, FirstUserIsAdmin, HasUsers, ToldAccountsWork,
         CleanHasUsers, Listens, Init
<1> QED
  BY <1>1, <1>2

\* An INSERT leaves the rows there are alone.
LEMMA InsertKeepsRows ==
    ASSUME UsersTypeOK, NEW c \in Credentials, NEW role \in {"ADMIN", "SHIPPER"}, Insert(c, role)
    PROVE  /\ users' \in [Emails -> Accounts \union {NoUser}]
           /\ \A e \in Emails : users[e] # NoUser => users'[e] = users[e]
           /\ HasUsers => HasUsers'
           /\ CanInsert(c) => users'[c.email] = [password |-> c.password, role |-> role]
           /\ ~CanInsert(c) => users' = users
           /\ "users" \in objects => users'[c.email] # NoUser
<1>1. c.email \in Emails /\ [password |-> c.password, role |-> role] \in Accounts
  BY DEF Credentials, Accounts
<1>2. [password |-> c.password, role |-> role] # NoUser
  BY <1>1, UsersConstantsOK
<1> QED
  BY <1>1, <1>2 DEF UsersTypeOK, Insert, CanInsert, HasUsers

\* What an instance was given are credentials.
LEMMA AdminIsTyped == UsersTypeOK => \A i \in Instances : admin[i] \in Credentials
BY UsersConstantsOK DEF UsersTypeOK

\* identity-svc's steps are steps of the migrations, of the seed, or neither.
LEMMA UsersMigrate == UsersInv /\ [UsersNext]_usersVars => Migrates
<1> SUFFICES ASSUME UsersInv, [UsersNext]_usersVars PROVE Migrates
  OBVIOUS
<1>1. faults \in 0..MaxFaults /\ MaxFaults \in Nat
  BY MigrationsConstantsOK DEF UsersTypeOK, TypeOK
<1>2. ASSUME NEW i \in Instances, CountUsers(i) \/ CountUsersFails(i) \/ Seed(i) \/ SeedFails(i)
      PROVE  Migrates
  BY <1>1, <1>2 DEF Migrates, SeedStep, Fault, CountUsers, CountUsersFails, Seed, SeedFails
<1>3. ASSUME NEW i \in Instances, login(i) \/ createUser(i) \/ createUserFails(i)
      PROVE  Migrates
  BY <1>1, <1>3 DEF Migrates, SeedStep, Stay, Fault, login, createUser, createUserFails, vars
<1>4. CASE Next \/ UNCHANGED usersVars
  BY <1>4 DEF Migrates, usersVars
<1> QED
  BY <1>2, <1>3, <1>4 DEF UsersNext, Start, Next

\* The steps of identity-svc that write no row.
Rowless ==
    /\ UNCHANGED <<admin, users, told>>
    /\ \/ UNCHANGED signedIn
       \/ signedIn' = TRUE /\ \E c \in Credentials : Matches(c)

\* The statement that writes one, for a seed or for createUser.
Writes ==
    /\ UNCHANGED <<admin, signedIn>>
    /\ \E c \in Credentials, role \in {"ADMIN", "SHIPPER"} :
          /\ Insert(c, role)
          /\ told' = told \/ (told' = told \union {c} /\ CanInsert(c))
          /\ \/ signedIn
             \/ role = "ADMIN" /\ \E i \in Instances : service[i] = "identity" /\ c = admin[i]

\* There are no others: nothing updates or deletes a user.
LEMMA RowSteps == UsersInv /\ [UsersNext]_usersVars => Rowless \/ Writes
<1> SUFFICES ASSUME UsersInv, [UsersNext]_usersVars PROVE Rowless \/ Writes
  OBVIOUS
<1>1. ASSUME NEW i \in Instances, Seed(i) \/ SeedFails(i) PROVE Rowless \/ Writes
  <2>1. service[i] = "identity" /\ admin[i] \in Credentials
    BY <1>1, AdminIsTyped DEF Seed, SeedFails, MigrationsInv, InStep
  <2> QED
    BY <1>1, <2>1 DEF Seed, SeedFails, Rowless, Writes
<1>2. ASSUME NEW i \in Instances, createUser(i) \/ createUserFails(i) PROVE Rowless \/ Writes
  BY <1>2 DEF createUser, createUserFails, Authorized, Writes
<1>3. ASSUME NEW i \in Instances, login(i) PROVE Rowless \/ Writes
  BY <1>3 DEF login, Rowless
<1>4. ASSUME \/ UNCHANGED <<admin, rows>>
             \/ \E i \in Instances : CountUsers(i) \/ CountUsersFails(i)
      PROVE  Rowless \/ Writes
  BY <1>4 DEF rows, CountUsers, CountUsersFails, Rowless
<1> QED
  BY <1>1, <1>2, <1>3, <1>4 DEF UsersNext, Start, usersVars

\* Rows stay, so what rests on one stays; the first is an administrator's.
LEMMA AccountsStep == UsersInv /\ [UsersNext]_usersVars => AccountsInv'
<1> SUFFICES ASSUME UsersInv, [UsersNext]_usersVars PROVE AccountsInv'
  OBVIOUS
<1>1. Migrates /\ (Rowless \/ Writes) /\ service' = service
  BY UsersMigrate, RowSteps, SchemaGrows
<1>2. MigrationsInv'
  BY <1>1, MigrationsStep
<1>3. clean' \subseteq Instances
  BY DEF UsersTypeOK, UsersNext, Start, CountUsers, CountUsersFails, Seed, SeedFails,
     login, createUser, createUserFails, usersVars
<1>4. CASE Rowless
  <2>1. UsersTypeOK'
    BY <1>2, <1>3, <1>4 DEF UsersTypeOK, MigrationsInv, Rowless
  <2>2. ToldAccountsWork'
    BY <1>4 DEF ToldAccountsWork, Matches, Rowless
  <2>3. (\E c \in Credentials : Matches(c)) => HasUsers
    BY DEF Matches, HasUsers, Credentials
  <2>4. FirstUserIsAdmin'
    BY <1>1, <1>4, <2>3 DEF FirstUserIsAdmin, HasUsers, SeededAdmin, Rowless
  <2> QED
    BY <1>2, <2>1, <2>2, <2>4
<1>5. CASE Writes
  <2>1. PICK c \in Credentials, role \in {"ADMIN", "SHIPPER"} :
          /\ Insert(c, role)
          /\ told' = told \/ (told' = told \union {c} /\ CanInsert(c))
          /\ \/ signedIn
             \/ role = "ADMIN" /\ \E i \in Instances : service[i] = "identity" /\ c = admin[i]
    BY <1>5 DEF Writes
  <2>2. UNCHANGED <<admin, signedIn>>
    BY <1>5 DEF Writes
  <2>3. /\ users' \in [Emails -> Accounts \union {NoUser}]
        /\ \A e \in Emails : users[e] # NoUser => users'[e] = users[e]
        /\ HasUsers => HasUsers'
        /\ CanInsert(c) => users'[c.email] = [password |-> c.password, role |-> role]
        /\ ~CanInsert(c) => users' = users
    BY <2>1, InsertKeepsRows
  <2>4. UsersTypeOK'
    BY <1>2, <1>3, <2>1, <2>2, <2>3 DEF UsersTypeOK, MigrationsInv
  <2>5. ToldAccountsWork'
    <3>1. ASSUME NEW d \in told PROVE Matches(d)'
      <4>1. d.email \in Emails /\ Matches(d)
        BY DEF UsersTypeOK, ToldAccountsWork, Credentials
      <4> QED
        BY <4>1, <2>3 DEF Matches
    <3>2. CanInsert(c) => Matches(c)'
      <4>1. CanInsert(c) => users'[c.email] \in Accounts
        BY <2>1, <2>3 DEF Credentials, Accounts
      <4> QED
        BY <2>3, <4>1, UsersConstantsOK DEF Matches
    <3> QED
      BY <2>1, <3>1, <3>2 DEF ToldAccountsWork
  <2>6. SeededAdmin => SeededAdmin'
    <3>1. \A j \in Instances : admin[j].email \in Emails
      BY AdminIsTyped DEF Credentials
    <3>2. \A j \in Instances :
              [password |-> admin[j].password, role |-> "ADMIN"] # NoUser
      BY AdminIsTyped, UsersConstantsOK DEF Credentials, Accounts
    <3> QED
      BY <1>1, <2>2, <2>3, <3>1, <3>2 DEF SeededAdmin
  <2>7. ASSUME HasUsers PROVE FirstUserIsAdmin'
    BY <2>2, <2>3, <2>6, <2>7 DEF FirstUserIsAdmin
  <2>8. ASSUME ~HasUsers PROVE FirstUserIsAdmin'
    <3>1. ~signedIn
      BY <2>8 DEF FirstUserIsAdmin
    <3>2. PICK i \in Instances : role = "ADMIN" /\ service[i] = "identity" /\ c = admin[i]
      BY <2>1, <3>1
    <3>3. CASE CanInsert(c)
      BY <1>1, <2>2, <2>3, <3>1, <3>2, <3>3 DEF FirstUserIsAdmin, SeededAdmin
    <3>4. CASE ~CanInsert(c)
      <4>1. ~HasUsers'
        BY <2>3, <2>8, <3>4 DEF HasUsers
      <4> QED
        BY <2>2, <3>1, <4>1 DEF FirstUserIsAdmin
    <3> QED
      BY <3>3, <3>4
  <2>9. FirstUserIsAdmin'
    BY <2>7, <2>8
  <2> QED
    BY <1>2, <2>4, <2>5, <2>9
<1> QED
  BY <1>1, <1>4, <1>5

\* A count that is not zero, or a seed into a table that is there, and a user is
\* there; with a failure, or no table, an instance is clean no more.
LEMMA CleanStep ==
    ASSUME UsersInv, [UsersNext]_usersVars
    PROVE  CleanHasUsers'
<1>1. HasUsers => HasUsers'
  <2>1. CASE Rowless
    BY <2>1 DEF Rowless, HasUsers
  <2>2. CASE Writes
    BY <2>2, InsertKeepsRows DEF Writes
  <2> QED
    BY <2>1, <2>2, RowSteps
<1>2. /\ service' = service
      /\ pc \in [Instances -> PCs]
      /\ \A i \in Instances : pc[i] \in {"count", "seed"} => service[i] = "identity"
      /\ clean \subseteq Instances
  BY UsersMigrate, SchemaGrows DEF UsersTypeOK, MigrationsInv, TypeOK, InStep
<1>3. ASSUME NEW i \in Instances, CountUsers(i) PROVE CleanHasUsers'
  BY <1>1, <1>2, <1>3 DEF CountUsers, GoTo, CleanHasUsers, Listens
<1>4. ASSUME NEW i \in Instances, CountUsersFails(i) \/ SeedFails(i) PROVE CleanHasUsers'
  BY <1>1, <1>2, <1>4 DEF CountUsersFails, SeedFails, GoTo, CleanHasUsers, Listens
<1>5. ASSUME NEW i \in Instances, Seed(i) PROVE CleanHasUsers'
  <2>1. CASE "users" \notin objects
    BY <1>1, <1>2, <1>5, <2>1 DEF Seed, GoTo, CleanHasUsers, Listens
  <2>2. CASE "users" \in objects
    <3>1. users'[admin[i].email] # NoUser /\ admin[i].email \in Emails
      BY <1>5, <2>2, AdminIsTyped, InsertKeepsRows DEF Seed, Credentials
    <3> QED
      BY <3>1 DEF CleanHasUsers, HasUsers
  <2> QED
    BY <2>1, <2>2
<1>6. ASSUME NEW i \in Instances, Boot(i) \/ Break(i), UNCHANGED <<admin, rows, clean>>
      PROVE  CleanHasUsers'
  <2>1. \A j \in Instances :
            pc'[j] = "serving" /\ service[j] = "identity" => pc[j] = "serving"
    BY <1>2, <1>6 DEF Boot, Break, Connect, NoDirectory, Proceed, EnsureLedger, ReadLedger, ReadLedgerFails, Skip,
       Apply, ApplyRaces, Record, RecordFails, Return, Crash, GoTo
  <2> QED
    BY <1>1, <1>2, <1>6, <2>1 DEF CleanHasUsers, Listens
<1>7. ASSUME \/ \E i \in Instances : login(i) \/ createUser(i) \/ createUserFails(i)
             \/ AllReturned /\ UNCHANGED <<admin, rows, clean>>
             \/ UNCHANGED usersVars
      PROVE  CleanHasUsers'
  <2>1. UNCHANGED <<pc, clean>>
    BY <1>7 DEF login, createUser, createUserFails, AllReturned, usersVars, vars
  <2> QED
    BY <1>1, <1>2, <2>1 DEF CleanHasUsers, Listens
<1> QED
  BY <1>3, <1>4, <1>5, <1>6, <1>7 DEF UsersNext, Start

\* identity-svc's invariant, in whatever deployment.
LEMMA UsersInvHolds == UsersSpec => []UsersInv
<1>1. UsersInit => UsersInv
  BY UsersInitInv
<1>2. UsersInv /\ [UsersNext]_usersVars => UsersInv'
  BY AccountsStep, CleanStep
<1> QED
  BY <1>1, <1>2, PTL DEF UsersSpec

\* UsersTypeOK: an instance stays among its files, and a row is an account.
THEOREM UsersTypeCorrect == UsersSpec => []UsersTypeOK
BY UsersInvHolds, PTL

\* Whoever was told of an account can sign in with it, whatever seeds follow.
THEOREM ToldAccountsAlwaysWork == UsersSpec => []ToldAccountsWork
BY UsersInvHolds, PTL

\* A ledger names only files that took effect, whoever shares it.
THEOREM LedgerIsAlwaysTruthful == UsersSpec => []LedgerIsTruthful
<1>1. UsersInv => LedgerIsTruthful
  <2> SUFFICES ASSUME UsersInv, NEW t \in Ledgers, NEW file \in recorded[t]
               PROVE  \E svc \in Services : /\ Ledger(svc) = t
                                           /\ file \in FileSet(svc)
                                           /\ Creates(svc, file) \subseteq objects
    BY DEF LedgerIsTruthful
  <2>1. PICK i \in Instances : LedgerOf(i) = t /\ Vouched(i, file)
    BY DEF MigrationsInv, RecordedIsVouched
  <2>2. PICK j \in Namesakes(i, file) : TookEffect(service[j], file)
    BY <2>1 DEF Vouched
  <2>3. service[j] \in Services
    BY DEF MigrationsInv, TypeOK, Namesakes
  <2> QED
    BY <2>1, <2>2, <2>3 DEF Namesakes, LedgerOf, TookEffect
<1> QED
  BY UsersInvHolds, <1>1, PTL

\* In every deployment, each file of a service that is past its migrations took
\* effect, or one of its name on the same ledger did.
THEOREM ServingAlwaysHasSchema == UsersSpec => []ServingHasSchema
<1>1. UsersInv => ServingHasSchema
  BY SchemaFromFiles
<1> QED
  BY UsersInvHolds, <1>1, PTL

\* So shipment-svc has its own schema wherever it is past its migrations, on the
\* ledger it shares with identity-svc too: its second file altered the table of
\* the first.
THEOREM ShipmentsHaveTheirTable ==
    UsersSpec => [](\A i \in shipped : service[i] = "shipment" /\ Returned(i)
                                           => Schema("shipment") \subseteq objects)
<1> DEFINE Has == \A i \in shipped : service[i] = "shipment" /\ Returned(i)
                                         => Schema("shipment") \subseteq objects
<1>1. UsersInv => Has
  <2> SUFFICES ASSUME UsersInv, NEW i \in shipped, service[i] = "shipment", Returned(i)
               PROVE  Schema("shipment") \subseteq objects
    OBVIOUS
  <2>1. FileSet("shipment") = {"001_init.sql", "002_add_idempotency.sql"}
    BY DEF FileSet, Files
  <2>2. \A file \in FileSet("shipment") : Vouched(i, file)
    BY SchemaFromFiles DEF ServingHasSchema, Vouched
  <2>3. PICK j \in shipped : /\ "002_add_idempotency.sql" \in FileSet(service[j])
                             /\ TookEffect(service[j], "002_add_idempotency.sql")
    BY <2>1, <2>2 DEF Vouched, Namesakes
  <2>4. service[j] = "shipment"
    BY <2>3 DEF FileSet, Files
  <2>5. {"shipments", "shipments.idempotency_key"} \subseteq objects
    BY <2>3, <2>4 DEF TookEffect, Alters, Creates
  <2>6. PICK k \in shipped : TookEffect(service[k], "001_init.sql")
    BY <2>1, <2>2 DEF Vouched, Namesakes
  <2>7. service[k] \in Services
    BY DEF MigrationsInv, TypeOK
  <2>8. "pgcrypto" \in objects
    BY <2>6, <2>7 DEF TookEffect, Creates, Services
  <2> QED
    BY <2>1, <2>5, <2>8 DEF Schema, Creates
<1> QED
  BY UsersInvHolds, <1>1, PTL

\* Where an instance listens whose seed met no failure, an administrator can
\* sign in, in whatever deployment.
THEOREM AdminCanAlwaysSignIn == UsersSpec => []AdminCanSignIn
<1>1. UsersInv => AdminCanSignIn
  BY DEF FirstUserIsAdmin, CleanHasUsers, SeededAdmin, AdminCanSignIn
<1> QED
  BY UsersInvHolds, <1>1, PTL
=============================================================================
