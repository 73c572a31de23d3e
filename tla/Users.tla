------------------------------- MODULE Users -------------------------------
(***************************************************************************)
(* identity-svc: what its main does between the migrations and the         *)
(* listener, the seed of the administrator (cmd/server/main.go), and then  *)
(* login and createUser (internal/httpserver/server.go), over the table    *)
(* users (internal/repo/user.go).                                          *)
(*                                                                         *)
(* Instances that start together or are replaced one by one share the      *)
(* table, and may be configured with different administrators.  No         *)
(* statement of the program changes or deletes a user.                     *)
(*                                                                         *)
(* A salt and a hash stand for the password they were made of.  The        *)
(* refusals without a statement (an empty field, no token) change nothing  *)
(* and are left out, and so are refresh, mfaVerify and getUser, which      *)
(* answer constants, and the expiry of tokens.                             *)
(***************************************************************************)
EXTENDS Migrations

CONSTANTS Emails, Passwords,
          NoUser,       \* no row with this email
          Configured    \* the ADMIN_* variables instances may be given

Credentials == [email : Emails, password : Passwords]
Accounts == [password : Passwords, role : {"ADMIN", "SHIPPER"}]

ASSUME UsersConstantsOK ==
    /\ Configured \subseteq [Instances -> Credentials]
    /\ NoUser \notin Accounts

VARIABLES
    admin,      \* an instance's ADMIN_EMAIL and ADMIN_PASSWORD
    users,      \* the table, by email, which is UNIQUE
    signedIn,   \* a client holds an access token
    \* bookkeeping
    told,       \* what callers were told, with 201, that they had created
    clean       \* the instances whose seed, if they needed one, met no failure,
                \* a missing table included

rows == <<users, signedIn, told>>
usersVars == <<vars, admin, rows, clean>>

UsersTypeOK ==
    /\ TypeOK
    /\ admin \in Configured
    /\ users \in [Emails -> Accounts \union {NoUser}]
    /\ signedIn \in BOOLEAN
    /\ told \subseteq Credentials
    /\ clean \subseteq Instances

UsersInit ==
    /\ Init
    /\ admin \in Configured
    /\ users = [e \in Emails |-> NoUser]
    /\ signedIn = FALSE
    /\ told = {}
    /\ clean = Instances

-----------------------------------------------------------------------------
(* The table.                                                              *)

HasUsers == \E e \in Emails : users[e] # NoUser

\* Mutant: ON CONFLICT (email) DO UPDATE.
Upsert(c, role) ==
    users' = [users EXCEPT ![c.email] = [password |-> c.password, role |-> role]]

\* INSERT INTO users; it fails where the table is missing or has the email.
CanInsert(c) == "users" \in objects /\ users[c.email] = NoUser

Insert(c, role) ==
    users' = IF CanInsert(c)
               THEN [users EXCEPT ![c.email] = [password |-> c.password, role |-> role]]
               ELSE users

\* The row of the email has a hash of the password with its salt.
Matches(c) == users[c.email] # NoUser /\ users[c.email].password = c.password

-----------------------------------------------------------------------------
(* The seed.                                                               *)

Stay == UNCHANGED <<deployment, objects, recorded, applied, position>>

\* SELECT COUNT(*): with no table, its error is dropped and the count is zero.
CountUsers(i) ==
    /\ pc[i] = "count"
    /\ GoTo(i, IF HasUsers THEN "serving" ELSE "seed")
    /\ clean' = clean \union {i}
    /\ Stay
    /\ UNCHANGED <<faults, admin, rows>>

\* Any other error counts for zero as well.
CountUsersFails(i) ==
    /\ pc[i] = "count"
    /\ Fault
    /\ GoTo(i, "seed")
    /\ clean' = clean \ {i}
    /\ Stay
    /\ UNCHANGED <<admin, rows>>

\* CreateUser with the configured credentials.  An error, that of a rival who
\* was first included, is logged, and the service listens all the same.
Seed(i) ==
    /\ pc[i] = "seed"
    /\ Insert(admin[i], "ADMIN")
    /\ GoTo(i, "serving")
    /\ clean' = IF "users" \in objects THEN clean ELSE clean \ {i}
    /\ Stay
    /\ UNCHANGED <<faults, admin, signedIn, told>>

\* The connection breaks, before the row is stored or after.
SeedFails(i) ==
    /\ pc[i] = "seed"
    /\ Fault
    /\ Insert(admin[i], "ADMIN") \/ UNCHANGED users
    /\ GoTo(i, "serving")
    /\ clean' = clean \ {i}
    /\ Stay
    /\ UNCHANGED <<admin, signedIn, told>>

-----------------------------------------------------------------------------
(* The handlers, each of which makes one statement.                        *)

Listens(i) == service[i] = "identity" /\ pc[i] = "serving"

\* POST /v1/auth/login: a token for who has the password, of any role.
login(i) ==
    /\ Listens(i)
    /\ \E c \in Credentials : Matches(c)
    /\ signedIn' = TRUE
    /\ UNCHANGED <<vars, admin, users, told, clean>>

\* Mutant: the route without the middleware auth.
Anyone == TRUE

\* The middleware auth: any valid token will do.  One that a service signs for
\* another would pass too where the secrets are the same, but the gateway sends
\* identity-svc only /v1/auth/*, and nothing else calls it with such a token.
Authorized == signedIn

\* POST /v1/users: 201 for a new email, 500 for one there is.
createUser(i) ==
    /\ Listens(i)
    /\ Authorized
    /\ \E c \in Credentials, role \in {"ADMIN", "SHIPPER"} :
          /\ Insert(c, role)
          /\ told' = IF CanInsert(c) THEN told \union {c} ELSE told
    /\ UNCHANGED <<vars, admin, signedIn, clean>>

\* 500 too when the connection breaks, whether the row is stored or not.
createUserFails(i) ==
    /\ Listens(i)
    /\ Authorized
    /\ Fault
    /\ \E c \in Credentials, role \in {"ADMIN", "SHIPPER"} : Insert(c, role)
    /\ Stay
    /\ UNCHANGED <<pc, admin, signedIn, told, clean>>

-----------------------------------------------------------------------------

Start(i) == (Boot(i) /\ UNCHANGED <<admin, rows, clean>>) \/ CountUsers(i) \/ Seed(i)

UsersNext ==
    \/ \E i \in Instances :
          \/ Start(i)
          \/ Break(i) /\ UNCHANGED <<admin, rows, clean>>
          \/ CountUsersFails(i) \/ SeedFails(i)
          \/ login(i) \/ createUser(i) \/ createUserFails(i)
    \/ AllReturned /\ UNCHANGED <<admin, rows, clean>>

UsersSpec == UsersInit /\ [][UsersNext]_usersVars

\* An instance that runs goes on.  One that is down is started again where the
\* deployment does that: a Deployment of k8s or helm does, and docker-compose.yml,
\* which gives no service a restart policy, does not.  Nobody has to send a
\* request, or to start a container by hand.
UsersFairSpec ==
    UsersSpec /\ \A i \in Instances : WF_usersVars(Start(i) /\ (pc[i] = "down" => restarts))

-----------------------------------------------------------------------------
(* Properties.                                                             *)

\* Nobody is locked out: where an instance listens whose seed met no failure,
\* there is an administrator, with the credentials some instance was given -
\* its own, if all were given the same.  It may have found no users, lost the
\* race for the email, or found users, whoever seeded or created them, some of
\* them through instances whose own seed had failed.  This is so whatever its
\* ledger is shared with, and wherever its migrations directory is: it needs no
\* more than that its own INSERT found the table.
AdminCanSignIn ==
    \A i \in clean : Listens(i) =>
        \E j \in Instances :
            /\ service[j] = "identity"
            /\ users[admin[j].email] = [password |-> admin[j].password, role |-> "ADMIN"]

\* Who was told of an account can sign in with it for good: no instance that
\* starts later, miscounts the users and seeds, takes it over.
ToldAccountsWork == \A c \in told : Matches(c)

\* Every file that i's ledger may name is of i's own service.
NoNamesakes(i) ==
    \A file \in FileSet(service[i]) : \A j \in Namesakes(i, file) : service[j] = service[i]

\* Every start comes to an end, listening or down; and where containers are
\* started again, every instance comes to listen for good, whatever failed on
\* the way, unless it may take another service's file for its own.
AllServe ==
    \A i \in Instances :
        /\ pc[i] = "connected" ~> pc[i] \in {"serving", "down"}
        /\ restarts /\ NoNamesakes(i) => <>[](pc[i] = "serving")
=============================================================================
