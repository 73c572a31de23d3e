# A verification of logistics_universal in TLA+

logistics_universal is a shipping platform of small services: a gateway in
TypeScript, services in Go, TypeScript and Python, one Postgres database, and
an operator's tool over RabbitMQ's dead-letter queues. This directory models
the parts of it that keep state or whose steps interleave, checks them with
TLC, and proves the most important of their properties with TLAPS.

Paths below are relative to the repository's root (`src/` here).

## 1. Inventory

### The parts and how they interact

    client --JWT--> gateway-api --internal JWT--> shipment-svc --SQL--> Postgres (lmp)
                        |                              ^                  ^   ^
                        |----------> label-svc --------+                  |   |
                        |----------> tracking-svc ------------------------+   |
                        |----------> pricing-svc                              |
                        '----------> identity-svc ----------------------------'

    operator --> dlqctl --> RabbitMQ: <family>, <family>.dlq, <family>.poison

| component | state | operations | what is hard |
|---|---|---|---|
| idempotent create, `services/shipment-svc` | tables shipments, packages, audit_log; a connection pool per replica | POST /v1/shipments | duplicates at the same time on several replicas; a commit whose outcome is unknown; dropped errors; the pool's limit |
| status updates, `services/shipment-svc` | shipments.status, audit_log | PATCH /v1/shipments/{id} | two statements without a transaction; every outcome is answered 200 |
| labels and reads, gateway-api, label-svc, shipment-svc | table labels; the counter labels_generated_total | POST .../label, GET /v1/shipments/{id} | a chain of three handlers, any link of which breaks, one of them without the gateway hearing of it; three reads that are not one snapshot |
| tracking, `services/tracking-svc` | table tracking_events | POST /v1/events/{pickup,transit,deliver}, GET /v1/track/{n} | rows become visible in another order than their timestamps; LIMIT; 202 whatever happens |
| migrations, three Go services | the schema, ledger tables | db.Migrate at start | replicas that start together; crashes between a file and its ledger entry; a shared ledger |
| tokens, all services | secrets in environments and files | sign, verify | a rule of its own in each service; rotation while calls are under way |
| dlqctl, `tools/dlqctl` | the broker's queues, unacknowledged deliveries | analyze, peek, replay, replay --dry-run | publish and ack are two steps, and so are delivery and output; overlapping sessions; poison thresholds |
| gateway-api's routes, and the clients that retry through them | none | hand a request on | answers that get lost, requests that arrive after they were given up; response headers are dropped; no timeouts |
| users, `services/identity-svc` | table users | seed of an administrator at start, login, create user | instances that start one after the other or together, with other credentials; ignored errors of the count and of the seed; a lost answer |
| pricing-svc | none | quote, deep health | arithmetic only |
| request metrics and the KPI funnel, gateway-api, label-svc, pricing-svc, shipment-svc | gauges and counters | every request | clients that leave before the answer; failures that one service counts and another does not; a tenant that comes in a header or in baggage, which services rank differently |
| outbox (`shipment-svc/internal/mq`), CreateShipment without a key | | | never called |
| demo, debug and health controllers; mTLS proxies; dashboards, alerts, load and smoke scripts; compose, k8s, CI | | | no state of the program's |

What makes each of the modelled components correct:

* **create** - one shipment per key; a shipment is whole or absent; an answer
  that names a shipment is about a durable one; a duplicate is answered with
  the first one's shipment; no connection is lost; a client that retries sees
  one shipment, and its retries settle whether there is one.
* **status updates** - the audit log tells the truth, and the whole of it.
* **labels and reads** - what a client is told of is stored, counted and shown.
* **tracking** - a reported status is never older than what had been stored,
  and never goes back; what was accepted is stored.
* **migrations** - a service listens only with its schema, and gets to listen.
* **users** - where a service listens, an administrator can sign in; an account
  stays as it was created.
* **tokens** - the two ends of a call find the same secret, rotations apart,
  if the settings of their deployment let them.
* **metrics** - the gauges add up; the funnel counts what clients were told of;
  no failure escapes the counters the alerts watch.
* **dlqctl** - a replay loses no message and doubles none without a crash, and a
  poisonous one stops going round.

The steps at which each of these can go wrong, with their lines, are the
`hazards` of PROJECT.json.

## 2. Modules

| module | models |
|---|---|
| `ExactlyOnceCreate` | the promise of POST /v1/shipments, abstractly |
| `IdempotentCreate` | createShipment and CreateShipmentIdempotent, statement by statement |
| `CreateRetries` | gateway-api's create route in front of it, and a client that retries; EXTENDS IdempotentCreate |
| `StatusUpdates` | updateShipment and UpdateShipmentStatus |
| `LabelFlow` | the label route through three services, and getShipment |
| `Tracking` | pickup, transit, deliver and track |
| `Migrations` | the three copies of db.Migrate |
| `Users` | the start of identity-svc's main after it, login, createUser; EXTENDS Migrations |
| `InternalAuth` | the secrets' rules, signing, verifying, rotation |
| `RequestMetrics` | what is counted of a request, in the gateway and behind it |
| `DeadLetters` | what the dead-letter tool promises, abstractly |
| `DlqCtl` | the tool's commands, the broker's queues |
| `CreateProofs` | theorems about IdempotentCreate and CreateRetries |
| `UsersProofs` | theorems about Migrations and Users |
| `StatusUpdatesProofs`, `LabelFlowProofs`, `TrackingProofs`, `InternalAuthProofs`, `RequestMetricsProofs`, `DlqCtlProofs` | theorems about the module each is named after |
| `MC<module>` | a small instance of each, for TLC |

Each module says in its header what it abstracts. Common to all: an action is
what happens between two points at which another process can get in, that is
one SQL statement, one broker call or one HTTP hop; payloads are left out
where nothing depends on them; a failure is an action of its own, guarded by
`Fault`, which counts against the bound `MaxFaults`. Definitions that stand
before an action and are introduced as "Mutant:" are that action with a bug;
no next-state relation refers to them, and PROJECT.json says which property
each of them breaks.

### IdempotentCreate

A request's handler is at `pc`: *idle* - (*begin* - *insert* - *packages* -
*audit* - *commit* - *await*) - *done*, or from *insert* by way of *lookup*
and *select*.

| code | action |
|---|---|
| server.go:92-104, decoding and the three checks | Receive, Refuse |
| shipment.go:162 Pool.Begin | Begin (waits for a connection) |
| :167 INSERT INTO shipments | Insert; DuplicateKey; disabled while another transaction has the key |
| :170 errors.As | in DuplicateKey, by Recognising |
| :172-176 lookup on a second connection | AcquireForLookup, SelectExisting |
| :180-184 packages, :185 audit | InsertPackage, WriteAudit, AuditFails |
| :186 Commit | SendCommit, then AnswerCreated; CommitRefused for an aborted transaction |
| :166 deferred Rollback, the answers | Finish |
| a statement's error, a broken connection, a cancelled context, the pod's death | StatementFails, Abandon, Crash |
| Postgres | ServerCommits, ServerRollsBack, and the guards of Insert |

A broken connection leaves the transaction to the server, which commits it if
it had been asked to, and rolls it back otherwise: this is how a client gets
an error for a shipment that exists.

`Recognising` is about errors.As at shipment.go:170. The code asks for the error
type of the module github.com/jackc/pgconn (the import at line 11), while pgx v5
has one of its own: the build recognises no duplicate, and a replica that runs
a replica that runs
it is not in Recognising. Those in it run the same code with that import
corrected. The theorems hold for any mixture, Recognising = {} included;
create_safety and create_retries have one replica of each kind,
create_duplicate the build at hand.

`ExactlyOnceCreate` says what is promised: a key gets a shipment at most once,
at any time, and an answer is created (by the request that made it), replayed
(the shipment of the key), or a failure, which promises nothing. The mapping:
a key names the request committed under it.

### CreateRetries

The composition of client, gateway and IdempotentCreate, whose variables and
actions it takes as they are. A client owns a key and sends one request at a
time (`sent`); it hears the gateway's status (`heard`), *error* for a 500 of
the service's or of the gateway's own, or *lost* when its connection broke.

| code | action |
|---|---|
| a client | Send, also again after a success |
| shipments.controller.ts:11-16, the key passed on | Arrive: Receive or Refuse of the handler, perhaps after the request was given up |
| shipments.controller.ts:16-17, status and body passed back | HandOn |
| proxy.service.ts:123-126, a fetch that breaks; a client that is gone | LoseAnswer |

A failure that a client hears of means one of two things: something failed
after it had sent the request, or the request is Superseded, a duplicate that
the build at hand refuses because its shipment is there. QuietFailuresAreDuplicates
says that there is no third, and RetriesTakeEffect that a client which tries more
often than there are failures learns which it is.

What IdempotentCreate calls *replayed* reaches the client as status 200 alone:
the header Idempotent-Replayed is dropped. ClientsPromise maps ExactlyOnceCreate
to what clients heard, KeepsPromise (of IdempotentCreate) to what the service
answered.

### StatusUpdates

`update` and `audit` are the two statements of a request, each *pending* from
the time it is sent until the database executes or rejects it - which may be
after the handler gave up (GiveUp) or died (Die).

### LabelFlow

`gateway`, `label` and `insert` are the handlers of the three services for one
call; a hop that breaks (GatewayBreaks, LabelBreaks, InsertLabelFails) leaves
those behind it running. With ENABLE_MTLS (`mtls`) the gateway calls through
httpRequestViaNode, where a response that breaks off after its headers brings
neither 'end' nor an error of the request: the promise never settles, and the
client is never answered (GatewayHangs, proxy.service.ts:60-70). getShipment
reads in three steps. Shipments come to exist whole, in one action: what
CommittedIsComplete of IdempotentCreate shows. The death of label-svc is left
out, because its unexported counter would die with it.

### Tracking

An insert's `ts` is given when it begins (now() is the transaction's start)
and its row is visible when it is stored; two that overlap may have equal or
reversed timestamps. Timestamps of one database are taken to move forward
once a statement has been answered. `GetEvents` reads one snapshot, in an
order ORDER BY ts DESC allows, cut to Limit.

### Migrations

An instance connects, creates its ledger table, reads the ledger and goes
through its files; Apply is a file's statements as one transaction, Record the
ledger entry, whose failure the code ignores (RecordFails), as it does the
read's (ReadLedgerFails). ApplyRaces is CREATE ... IF NOT EXISTS failing in one
of two sessions that create the same thing, if only the extension all three
services' first files create. log.Fatalf and crashes put an instance *down*.
When Migrate returns (Return), shipment-svc and tracking-svc listen;
identity-svc goes on in Users.

`Deployments` says how instances may run, and one of them is chosen at the
start: what each is a copy of, which of them find their migrations directory
(`shipped`), and whether a container that is down is started again by itself
(`restarts`). An instance without the directory - its image has it at
/app/migrations, MIGRATIONS_DIR may name another place - gets nil from Migrate
at once (NoDirectory, the os.Stat at the top of each copy) and listens without
a schema of its own; a directory that cannot be walked comes to the same after
the ledger, because the error of WalkDir is dropped. ServingHasSchema is
about the shipped ones.

Two services may share a ledger table, and identity-svc and shipment-svc do.
Namesakes are the instances whose file of a name cannot be told from an
instance's own, and ServingHasSchema says what is so whoever shares what: for
every file, it or a namesake took effect. SkippedWasApplied, which asks for the
file itself, is false (section 3).

### Users

| code | action |
|---|---|
| main.go:96 CountUsers, with its error dropped | CountUsers, CountUsersFails |
| main.go:97-117 the seed, with its error logged | Seed, SeedFails |
| main.go:119-129 the listener | Listens |
| server.go:76-99 login | login |
| server.go:113-128 auth, 130-155 createUser | Authorized, createUser, createUserFails |

The row of an email holds a password and a role; the UNIQUE email is the guard
CanInsert. `Configured` is what instances may be given as ADMIN_EMAIL and
ADMIN_PASSWORD. Nothing in the program changes a user, so the credentials of
the first seed stay. A seed that fails leaves an instance listening with no
administrator until another start makes up for it, unless users have been
created by then - which takes a token, and so a user: AdminCanSignIn is about
this chain. A seed that finds no table users counts as one that failed.

The middleware auth of identity-svc would also let an internal token pass where
both kinds are signed with the same default secret. That is left out: the
gateway forwards only /v1/auth/* to identity-svc, and no other service calls it.

### InternalAuth

`Setting` is the deployment, one of `Deployments`: what each environment
variable of each service is set to, if only to a file that cannot be read, which
every rule passes over. Value, FirstSet and one operator per service are the
rules by which services find secrets; `started` dates a service's environment,
and a file is always current. config.ts reads at start (`started`), the guards
at each call (`version`). So in a deployment with files, verifiers follow a
rotation at once and signers at their restart, and calls between fail.

The rules differ from service to service, and whether two of them come to the
same secret is up to the settings: Agree is that question, asked of the settings
alone. SettingsDecide speaks of the calls outside a roll-out, in deployments
that agree and in those that do not.

### RequestMetrics

A request is followed through LoggingMiddleware (Arrive, Respond), the guards
(Refuse), a controller and ProxyService (Proxy, Hear, FetchFails) of the
gateway, and through one service behind it (BackendArrives, Handle,
BackendFinishes). Enter and Leave are the two ends of a middleware. In the
TypeScript services the end is the "finish" event, which does not come when the
peer has gone (ClientLeaves, LinkBreaks); in pricing-svc it is a finally. A
gauge is kept by series, because the series it is raised in (RaisedIn) is not
the one it is lowered in (LoweredIn). With EnableMtls a response that breaks off
leaves its request in the gateway (ResponseBreaksOff): no answer, no count, and
one more in the gauge for good. Until a service notices that the link is broken
its "finish" may still come (BackendFinishes).

A client names its tenant in X-Tenant-Id, in the tenant.id of its W3C baggage,
which the gateway's instrumentation passes on, or in both (`headers`).
CountedUnder is which of them a service counts by: label-svc the baggage
(label.controller.ts:38-42), pricing-svc and shipment-svc the header, and the
baggage where the header is missing or, in shipment-svc, is no name its baggage
takes. Of label-svc's own call to shipment-svc,
which LabelFlow models, only the outcome is left.

### DlqCtl

`unacked` holds a session's deliveries from each queue until their ack;
Disconnect requeues them, at the end of a session or when it dies. The
consumers, which the repository does not contain, take messages or reject them,
which adds to their x-death count. `Parked` messages were put into a dead-letter
queue by other means and have no x-death.

analyze and peek receive with auto_ack, so that the broker forgets a message
when it delivers it (Get, `inspected`), and print it afterwards (Echo). For a
message with an x-death header they get no further: its 'time' is a datetime to
pika, json.dumps of the headers (dlqctl.py:59 and :123) raises TypeError, and the
session ends with the message gone and nothing shown (Raise). A death
between the two steps (Die) does the same.

`DeadLetters` knows bags instead of queues and no sessions: a copy is replayed,
quarantined or inspected, and is the broker's again only if a session dies before
the broker has settled it. What it promises of an inspection is no more than
that the copy was given to one. In the mapping a delivery still counts as the
dead-letter queue's, but for the one in hand that is about to be acknowledged.
A copy is its message and its count of deaths; publish() drops delivery_mode and
the ids, which are not modelled.

## 3. What the runs check

Passing runs:

| run | question | bounds |
|---|---|---|
| create_safety | the safety of create across replicas, one as it is built and one that replays; no deadlock | 3 requests, 2 keys, 2 replicas with 3 connections, 2 packages, 2 faults |
| create_retries | clients that retry through the gateway see ExactlyOnceCreate; they hear of no failure but new ones and the build's refusal of duplicates, and enough attempts settle the matter; replicas as built and corrected, and a roll-out of the one over the other | 3 requests with one key or two, 2 replicas with 3 connections, 2 faults |
| status_audit | the audit log is truthful and, undisturbed, whole | 3 PATCHes of one shipment and of none, 2 statuses, 2 faults |
| labels | told, stored, counted and shown agree; every call ends, but for a response that breaks off over mTLS | 2 calls, 1 GET, 2 shipments of 2 packages, with and without mTLS, 2 faults |
| tracking | statuses are fresh and move on, histories are whole | 3 events, 2 GETs, 2 shipments, limit 2, 1 fault |
| migrations | whoever listens has its schema, if it has its migrations, and, if it is identity-svc, an administrator; ledgers are truthful, accounts stay, all get to listen where containers are restarted | 2 x identity-svc or 2 x shipment-svc beside tracking-svc, as helm runs them; 2 x identity-svc, one without its migrations; the three services of docker-compose.yml, not restarted; 3 choices of credentials, 2 emails, 2 passwords, 2 faults |
| auth | outside a roll-out it is the settings that decide whether a call succeeds, and every rotation ends | 6 deployments, 2 rotations, a message at a time |
| metrics | gauges, funnel and error counters, over mTLS | 2 requests of any of 4 routes, 2 tenants and none in 6 combinations of header, baggage and X-Debug-Trace, 2 faults |
| dlq_sessions | the tool implements DeadLetters, loses nothing but what it inspects, and sessions end | 2 messages, one of them parked, 2 sessions of any commands, limit 2, threshold 2, 1 crash |

Why these bounds are enough to be of use. Of three requests with one key one
creates, one waits on the unique index, and one comes after; a fourth repeats
the third. Two faults let one request fail after another was disturbed. With
three connections two of three duplicates use up the pool while they look the
first one's shipment up, and with fewer they can block (see below). Three
attempts are one more than two failures, so that the last is undisturbed; the
assignments of keys left out of create_retries are the two it has, under other
names. Some attempts at the old build and some at the new one are a roll-out,
all at one of them the two builds by themselves. Two copies of identity-svc are
a roll-out or a race, with a password or an email of their own, and two faults
let both seeds fail, or one seed and the ledger's read; one copy of each service
is the collision of ledgers below. Three events exceed the limit of two. Two
sessions of dlqctl overlap, and a rejected message comes back to a loop that has
not ended. Two requests are enough for the metrics, whose counters take each
request by itself: what a second one adds is that they share series. Symmetry is
used where a run has only invariants, over sets the specification treats alike.

Runs that find what the code does against what the repository says of it (the
`findings` of PROJECT.json):

| run | shows |
|---|---|
| create_duplicate | a duplicate create is answered 500, not with the existing shipment (shipment.go:170) |
| migrations_collision | a file skipped because another service has one of that name (identity-svc migrate.go:36) |
| dlq_dry_run | a dry run removes poisonous messages (dlqctl.py:99) |

Other differences between code and words met while modelling, for which the
properties say what does hold:

* analyze and peek remove what they look at, and of a message that died say
  nothing (dlqctl.py:26, :59, :123; docs/runbooks/queues/dlq-ops.md:6-7 calls
  them inspection): OnlyInspectedIsLost.
* A status change whose audit insert fails stays unaudited (shipment.go:116;
  docs/MVP_SCOPE.md:50): AuditIsTruthful, QuietAuditIsWhole.
* A status may be updated after the pickup (shipment-svc server.go:168;
  apis/shipment-svc/openapi.yaml:100): shipment-svc hears nothing of pickups.
* An event that could not be stored is answered 202 (tracking-svc server.go:79):
  HistoryIsWhole, in its second part.
* scripts/obs_smoke.sh:89 looks for Idempotent-Replayed in an answer that came
  through the gateway, which drops it (shipments.controller.ts:17):
  ClientsPromise is about the status.
* docs/security/secrets-management.md:101-116 has ADMIN_PASSWORD rotated by a
  restart; the seed runs on an empty table only (identity-svc main.go:96), and
  the first password stays: AdminCanSignIn says that some instance's
  credentials are good, not the latest.
* createUser answers with the role it was sent, "" where it stored SHIPPER
  (identity-svc server.go:142-153); no property is about the answer's text.
* Both ways in which docs/security/secrets-management.md brings secrets into
  the compose deployment break calls. With its override file (:37-73) the
  gateway and label-svc sign internal tokens with the file's secret, and
  shipment-svc and tracking-svc, which read no file, verify with another one;
  users' tokens fail likewise, because identity-svc reads the file and the
  gateway does not. Exported variables (:79-97) reach only the gateway. Which
  calls are refused is RefusedCalls of MCInternalAuth, which TLC evaluates; that
  they are is SettingsDecide, and that no rotation mends it RotationEnds.
* A label is counted under the baggage's tenant, a quote and a shipment under the
  header's (label.controller.ts:38-42): FunnelByTenant is about the requests that
  name one tenant only, and bounds the rest.
* The alert DependencyErrors watches http_client_requests, in which a call that
  got no answer does not appear; http_client_errors has it: FailuresSurface.
* Over mTLS a client may wait for ever (proxy.service.ts:60-70), and what it
  waits for is seen in the gauge alone: CallsEnd, GaugeIsActive.
* A service that does not find its migrations listens without a word
  (migrate.go:18 of shipment-svc): ServingHasSchema.
* The gauge of gateway-api and label-svc is raised under route "" with tenant
  and shipment, and lowered under the route alone (logging.middleware.ts:44-50
  and 83): no series of it returns to zero, only the sum does. GaugeIsActive
  is about the sum.

One more, which is not a run because no document speaks of it: with the error
type of shipment.go:170 corrected, and fewer connections in a replica's pool
than duplicates at a time, IdempotentCreate deadlocks. Each duplicate holds its
transaction's connection and waits for a second one to look the shipment up.

### Fairness

* create_retries: a handler that can take a step does (the Go scheduler),
  Postgres gets to every commit and notices every client that is gone, and
  while its client waits a request arrives and its answer is handed on. Clients,
  faults and crashes are not fair: RetriesTakeEffect is about a client that has
  sent all its attempts.
* labels: a hop goes on while its caller waits; reads proceed. A service that
  hangs for ever is not in the model, and the proxy has no timeout: CallsEnd is
  about the chain, not about its links' health.
* migrations: a started instance goes on, through the seed if it has one. One
  that is down is started again only where `restarts` says so: the kubelet
  restarts a container of a Deployment, and k8s and helm run Deployments, while
  docker-compose.yml gives no service a restart policy, so that there a
  log.Fatalf leaves the service down. AllServe promises that every start ends,
  and an instance that listens only where containers are restarted and no other
  service's files share its names. Nobody has to log in, or to restart anything
  by hand.
* auth: the runbook's restarts all happen.
* dlq_sessions: the tool runs on; consumers owe nothing.

All of it is weak fairness.

## 4. What is proved

Every invariant the passing runs check, for every value of the constants that
the modules' `...ConstantsOK` admit, and the three refinements. Nothing else is
assumed: no theorem has a hypothesis about the build, the ledgers or the
settings of a deployment. Where the code does not keep what one would like, the
property says on what it depends - on a replica in Recognising (Superseded), on
who shares a ledger (Namesakes), on the settings of both ends (Agree).

The argument has one form throughout. An inductive invariant `...Inv` is the
type invariant and what is true between the steps of a handler; InitInv, one
lemma per conjunct and step (`...Step`), with a step of the proof for each group
of actions, and the theorem that it always holds; from it follow the invariants
of the runs. What each one needs to know is below.

### Create: `CreateProofs`

For all requests, keys, replicas, pool sizes, numbers of packages and of
failures, and any set of Recognising replicas:

* CreateInvariant, TypeCorrect, OneShipmentPerKeyHolds,
  CommittedIsCompleteHolds, AnswersAreDurableHolds, SameKeySameShipmentHolds,
  ConnsAccountedHolds;
* Refinement: the specification implements ExactlyOnceCreate.

That no two committed rows share a key is not inductive: a step that commits a
second one must be excluded by what was true when its row was inserted. The
invariant therefore says of rows what it says of committed ones - a key is
claimed by one row that is not rolled back (KeyClaimedOnce) - and that only
complete transactions get to commit (CompleteBeforeCommit), for which it needs
to know what a handler has done at each step (StepsInOrder); that answers come
last (AnswerIsLast) keeps them true once given (AnswersAreDurable), and what a
handler holds at each step (HeldByStep) keeps the pool's counters natural
numbers. ConnsAccounted counts handlers: a step changes what one handler holds
by at most what the pool loses.
For the refinement, MappingNames shows that the CHOOSE of the mapping has one
candidate at most, MappingKept that steps which commit nothing leave it alone;
FailureRefines and CommitRefines are the two steps that need more.

Of a client that retries through the gateway:

* RetriesInvariant, RetriesSameShipment, RetriesRefinement: a step of
  CreateRetries is a step of IdempotentCreate or only counts a failure
  (ServiceOrCount), so the service keeps CreateInv and its promise.
* ClientsRefinement: what the client sees implements ExactlyOnceCreate as well.
  The mapping hides the answers nobody has heard. It needs to know that an
  answer, once given, stays (DoneStays), that it is heard as it was given
  (HeardIsAnswered), and that 201 names the request's own shipment and 200
  another's (AnswersNameTheMaker).
* QuietFailuresAreOfDuplicates. With Recognising = {} it is about the build at
  hand: nothing but a duplicate is refused without a new failure. With
  Recognising = Replicas nobody is Superseded, and nothing is refused.
  SupersededStays is that a committed shipment stays, FailuresAreNew says of
  failures on their way what the property says of those heard of, and
  DuplicateIsThere that a handler which looks a shipment up finds it.

create_retries checks RetriesInv itself on its instance.

### The dead-letter tool: `DlqCtlProofs`

For all messages (finitely many), families, orders of queues, sessions, limits,
thresholds, deaths and crashes:

* TypeCorrect, with the quota no command exceeds;
* KeepsThePromise: the tool implements DeadLetters;
* OnlyInspectedIsEverLost.

ToolInv says that a copy is in its own family's queues and deliveries (Home),
that a session which publishes or acknowledges has a delivery in hand from the
queue it is at (Loop), that deliveries are finitely many though sessions need
not be (Few), and that the bags of the promise account for every message
(Accounted). The promise counts, and the proof is mostly about counting:
TimesOfAppend, TimesOfTail, TimesOfFront and TimesOfConcat say how often a copy
is in a sequence, BagPut and BagTake what a publish and a delivery do to a bag,
HeldMoves and MovingMoves that a session changes a sum over the sessions by
what it changes itself. Then each action has a lemma (PublishKeeps,
GetKeeps, AckKeeps, ...): Get of a replay is a stutter,
because a delivery is still the queue's, and Get of an auto-ack is Inspect;
what Echo and Raise do afterwards moves nothing; publishing is Replay or Quarantine;
Ack is Settle; Exit is a stutter; Die is Crash, and the only step that makes
copies. OnlyInspectedIsLost is shown of the promise's steps (AccountedStep), and
so of the tool because it keeps the promise.

### The others

* `StatusUpdatesProofs`: AuditIsAlwaysTruthful, QuietAuditIsAlwaysWhole. The
  handler asks for an audit row after it has heard that the UPDATE took effect
  (OneByOne), and until the first failure a handler that has ended left nothing
  pending (Quiet).
* `LabelFlowProofs`: ToldLabelsAreAlwaysStored, GetAlwaysShowsToldLabels,
  GetAlwaysShowsWholeShipment. An answer is followed down the chain (BackedUp),
  the counter is the number of labels label-svc got through (Counted), and
  Reading says what a GET has in hand after each of its three reads.
* `TrackingProofs`: NoStatusIsStale, StatusAlwaysMovesOn, HistoryIsAlwaysWhole,
  for any limit. The first part proves what LIMIT leaves of an ordered answer;
  then the head of an answer is the newest row there when the statement ran.
* `UsersProofs`, for any instances and any of the deployments, on ledgers of
  their own or shared: LedgerIsAlwaysTruthful, ServingAlwaysHasSchema,
  ShipmentsHaveTheirTable, ToldAccountsAlwaysWork and AdminCanAlwaysSignIn. A name
  that is recorded or has been read is vouched for by a file of that name on
  the ledger which took effect (RecordedIsVouched, AppliedIsVouched), and an
  instance has passed the files before its position (FilesBefore). That this
  gives shipment-svc its own schema, whoever else writes schema_migrations, is
  ShipmentsHaveTheirTable: its second file has no namesake and cannot take effect
  without the table of the first. identity-svc beside shipment-svc has no such
  luck, which is the finding of migrations_collision. AdminCanSignIn rests on
  FirstUserIsAdmin, nobody has a token before there is a user, and the first user
  is a seeded administrator, and on CleanHasUsers.
* `InternalAuthProofs`: SettingsAlwaysDecide, for all settings. FirstSetByOrigin
  reduces what a rule finds to its Origin and a version, SameSecret says that two
  ends which are restarted have the same secret just if their origins agree,
  and Quiet follows a message from its signing to its verification.
* `RequestMetricsProofs`: FailuresAlwaysSurface, GaugesCountTheActive,
  FunnelCountsByTenant, for any number of requests, of which finitely many have
  arrived at any time. Every number is the size of a set of requests (Tallies,
  Funnel), and a step moves one request into it or out of it. The sums over
  series are SumFunction's. Its recursive definition would call for the
  induction theorem on finite sets; instead the lemmas on it take a least
  counterexample, with the well-foundedness of the natural numbers.

Each of them has its type invariant too.

### Only model-checked

* Liveness: RetriesTakeEffect, CallsEnd, AllServe, RotationEnds, SessionsEnd.
  Fairness is out of the prover's reach.
* What create_duplicate, migrations_collision and dlq_dry_run find violated:
  those properties are false. QuietFailuresAreOfDuplicates, ServingAlwaysHasSchema
  and OnlyInspectedIsEverLost prove what is left of them.
* The refinements are checked as well as proved. RefusedCalls is about six given
  deployments, and is evaluated.
* The invariants were checked by TLC, as invariants of the runs' instances,
  before they were proved; the runs themselves keep the properties only.

## 5. Not modelled

* quote of pricing-svc: a formula over floating-point numbers, without state.
* the outbox and CreateShipment without a key: nothing reaches them.
* refresh, mfaVerify and getUser of identity-svc answer constants. Of tokens,
  Users keeps that one was issued; what they are signed with is in InternalAuth.
* a client's retry of a label: label-svc draws a new id each time and nothing
  says which calls belong together, so a retry is another call in LabelFlow.
* a status that contradicts the events of tracking-svc: the two services do not
  know of each other.
* log lines, spans, latency histograms, and the counters of pricing-svc's deep
  health check: they change nothing the other parts read.
* demo and debug controllers, proxies, dashboards, scripts, deployment files.

## 6. Plan

What is modelled is what the code has that keeps state or interleaves, and its
invariants and refinements are proved. Left, in this order:

1. The repairs the findings call for - the driver's own error type, a ledger for
   each service, acknowledgements in dlqctl after the output - as variants of
   the modules, with the stronger properties they would give: a replay for every
   duplicate, SkippedWasApplied, NoMessageLost.
2. pricing-svc's quote as an operator over integers, against its documented
   formula, if its rounding turns out to matter to a caller.
