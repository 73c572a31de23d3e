--------------------------- MODULE RequestMetrics ---------------------------
(***************************************************************************)
(* What the services count about the requests of the gateway's clients.    *)
(*                                                                         *)
(* A request goes through LoggingMiddleware and the guards of gateway-api, *)
(* is handed on by a controller and ProxyService to a service behind it,   *)
(* and answered with that service's status.  Each service keeps numbers:   *)
(*                                                                         *)
(*   http.server.active_requests, .requests, .errors                       *)
(*                       gateway-api and label-svc, whose middleware ends  *)
(*                       a request on the response's "finish" event, and   *)
(*                       pricing-svc, whose middleware has a finally       *)
(*   http.client.errors  gateway-api, about the services behind it         *)
(*   quotes, labels and shipments, by tenant: the KPI funnel               *)
(*                                                                         *)
(* "finish" does not come when the peer is gone before the answer is sent. *)
(* The tenant is in the X-Tenant-Id header, which the gateway hands on, or *)
(* in the tenant.id of the client's W3C baggage, which its instrumentation *)
(* does; the services do not agree on which of the two goes first.         *)
(* A series of the gauge is a set of attributes; the method is left out,   *)
(* and of the shipment's id no more than that there is one.  Latencies,    *)
(* spans, log lines and request ids are left out.  A create makes a new    *)
(* shipment: replays have a counter of their own.                          *)
(***************************************************************************)
EXTENDS Integers, FiniteSets, Functions

CONSTANTS Requests,
          Tenants,      \* names of tenants
          Plain,        \* those of them that Go's baggage takes as they are
          NoTenant,     \* no name
          Headers,      \* what requests may say: tenant, baggage, X-Debug-Trace
          EnableMtls,   \* the gateway calls the services over mTLS
          MaxFaults     \* bound: connections lost in a behaviour

Labels == Tenants \union {NoTenant}

\* A header has a bounded length.
ASSUME RequestMetricsConstantsOK ==
    /\ IsFiniteSet(Tenants)
    /\ Plain \subseteq Tenants
    /\ NoTenant \notin Tenants
    /\ Headers \subseteq [tenant : Labels, baggage : Labels, debug : BOOLEAN]
    /\ EnableMtls \in BOOLEAN
    /\ MaxFaults \in Nat

\* The gateway's routes, by the service behind them: those with a KPI, and the
\* reads, updates and events, one of the Go services' all.
ServiceOf ==
    [create |-> "shipment", rate |-> "pricing", label |-> "label", other |-> "tracking"]
Routes == DOMAIN ServiceOf
Kpis == Routes \ {"other"}

Metered == {"gateway", "label", "pricing"}

VARIABLES
    route, headers, \* a request's
    client,         \* the clients that are still there
    link,           \* the requests whose connection to the service holds
    gateway,        \* where a request is in the gateway
    backend,        \* ... in the service behind it
    status,         \* the service's answer
    told,           \* what the client is told
    gauge,          \* http.server.active_requests, by service and series
    total, errors,  \* http.server.requests and .errors, by service
    clientErrors,   \* http.client.errors of the gateway
    kpi,            \* the funnel's counters, by tenant
    faults

request == <<route, headers>>
numbers == <<gauge, total, errors, clientErrors, kpi>>
vars == <<request, client, link, gateway, backend, status, told, numbers, faults>>

Answers == {"2xx", "4xx", "5xx"}
Series == (Routes \union {""}) \X Labels \X BOOLEAN

\* A number counts a request once at most, and only one that arrived.
Arrived == {r \in Requests : gateway[r] # "idle"}

TypeOK ==
    /\ route \in [Requests -> Routes]
    /\ headers \in [Requests -> Headers]
    /\ client \subseteq Requests
    /\ link \subseteq Requests
    /\ gateway \in [Requests -> {"idle", "inside", "waiting", "done", "hung"}]
    /\ backend \in [Requests -> {"idle", "sent", "inside", "handled", "done", "cut"}]
    /\ status \in [Requests -> Answers \union {"none"}]
    /\ told \in [Requests -> Answers \union {"none"}]
    /\ gauge \in [Metered -> [Series -> Int]]
    /\ total \in [Metered -> Nat]
    /\ errors \in [Metered -> Nat]
    /\ kpi \in [Kpis -> [Labels -> Nat]]
    /\ \A s \in Metered :
          /\ \A x \in Series : gauge[s][x] \in -Cardinality(Arrived)..Cardinality(Arrived)
          /\ total[s] \in 0..Cardinality(Arrived)
          /\ errors[s] \in 0..total[s]
    /\ clientErrors \in 0..Cardinality(Arrived)
    /\ \A k \in Kpis : \A t \in Labels : kpi[k][t] \in 0..Cardinality(Arrived)
    /\ faults \in 0..MaxFaults

Init ==
    /\ route \in [Requests -> Routes]
    /\ headers \in [Requests -> Headers]
    /\ client = Requests
    /\ link = Requests
    /\ gateway = [r \in Requests |-> "idle"]
    /\ backend = [r \in Requests |-> "idle"]
    /\ status = [r \in Requests |-> "none"]
    /\ told = [r \in Requests |-> "none"]
    /\ gauge = [s \in Metered |-> [x \in Series |-> 0]]
    /\ total = [s \in Metered |-> 0]
    /\ errors = [s \in Metered |-> 0]
    /\ clientErrors = 0
    /\ kpi = [k \in Kpis |-> [t \in Labels |-> 0]]
    /\ faults = 0

Fault ==
    /\ faults < MaxFaults
    /\ faults' = faults + 1

-----------------------------------------------------------------------------
(* The middlewares.                                                        *)

\* The series a request is in before it is routed: no route yet, but what the
\* headers and the URL say.  pricing-svc uses the path throughout.
RaisedIn(s, r) ==
    IF s = "pricing" THEN <<route[r], NoTenant, FALSE>>
    ELSE <<"", headers[r].tenant, s = "gateway" /\ route[r] # "create">>

\* The series it is taken off at the end: the route, and nothing else.
LoweredIn(s, r) == <<route[r], NoTenant, FALSE>>

Enter(s, r) == gauge' = [gauge EXCEPT ![s][RaisedIn(s, r)] = @ + 1]

\* Mutant: a request that failed is not taken off.
LeaveUnlessFailed(s, r, answer) ==
    /\ total' = [total EXCEPT ![s] = @ + 1]
    /\ errors' = [errors EXCEPT ![s] = IF answer = "5xx" THEN @ + 1 ELSE @]
    /\ gauge' = IF answer = "5xx" THEN gauge
                ELSE [gauge EXCEPT ![s][LoweredIn(s, r)] = @ - 1]

Leave(s, r, answer) ==
    /\ total' = [total EXCEPT ![s] = @ + 1]
    /\ errors' = [errors EXCEPT ![s] = IF answer = "5xx" THEN @ + 1 ELSE @]
    /\ gauge' = [gauge EXCEPT ![s][LoweredIn(s, r)] = @ - 1]

-----------------------------------------------------------------------------
(* gateway-api.                                                            *)

Arrive(r) ==
    /\ gateway[r] = "idle"
    /\ gateway' = [gateway EXCEPT ![r] = "inside"]
    /\ Enter("gateway", r)
    /\ UNCHANGED <<request, client, link, backend, status, told, total, errors, clientErrors, kpi, faults>>

\* The answer is sent, and "finish" comes if the client is there.
Respond(r, answer) ==
    /\ gateway' = [gateway EXCEPT ![r] = "done"]
    /\ IF r \in client
         THEN told' = [told EXCEPT ![r] = answer] /\ Leave("gateway", r, answer)
         ELSE UNCHANGED <<told, gauge, total, errors>>

\* A guard says no.
Refuse(r) ==
    /\ gateway[r] = "inside"
    /\ Respond(r, "4xx")
    /\ UNCHANGED <<request, client, link, backend, status, clientErrors, kpi, faults>>

Proxy(r) ==
    /\ gateway[r] = "inside"
    /\ gateway' = [gateway EXCEPT ![r] = "waiting"]
    /\ backend' = [backend EXCEPT ![r] = "sent"]
    /\ UNCHANGED <<request, client, link, status, told, numbers, faults>>

\* Mutant: errors start above 500.
HearAbove500(r) ==
    /\ gateway[r] = "waiting"
    /\ backend[r] = "done"
    /\ r \in link
    /\ Respond(r, status[r])
    /\ UNCHANGED <<request, client, link, backend, status, clientErrors, kpi, faults>>

\* ProxyService: the service's status is handed on, and counted.
Hear(r) ==
    /\ gateway[r] = "waiting"
    /\ backend[r] = "done"
    /\ r \in link
    /\ clientErrors' = IF status[r] = "5xx" THEN clientErrors + 1 ELSE clientErrors
    /\ Respond(r, status[r])
    /\ UNCHANGED <<request, client, link, backend, status, kpi, faults>>

\* Mutant: the failure is counted where it is thrown and where it is caught.
FetchFailsTwice(r) ==
    /\ gateway[r] = "waiting"
    /\ r \notin link
    /\ clientErrors' = clientErrors + 2
    /\ Respond(r, "5xx")
    /\ UNCHANGED <<request, client, link, backend, status, kpi, faults>>

\* ... or fetch throws, and Nest answers 500.
FetchFails(r) ==
    /\ gateway[r] = "waiting"
    /\ r \notin link
    /\ clientErrors' = clientErrors + 1
    /\ Respond(r, "5xx")
    /\ UNCHANGED <<request, client, link, backend, status, kpi, faults>>

-----------------------------------------------------------------------------
(* The services behind it.                                                 *)

\* The request arrives even when the gateway has given it up.
BackendArrives(r) ==
    /\ backend[r] = "sent"
    /\ backend' = [backend EXCEPT ![r] = "inside"]
    /\ IF ServiceOf[route[r]] \in Metered THEN Enter(ServiceOf[route[r]], r) ELSE UNCHANGED gauge
    /\ UNCHANGED <<request, client, link, gateway, status, told, total, errors, clientErrors, kpi, faults>>

\* Mutant: the label route forgets the header.
ForwardedButForLabels(r) == IF route[r] = "label" THEN NoTenant ELSE headers[r].tenant

\* The controllers hand X-Tenant-Id on.
Forwarded(r) == headers[r].tenant

Named(a, b) == IF a # NoTenant THEN a ELSE b

\* The tenant a success is counted under.  label-svc asks the baggage first.
\* pricing-svc and shipment-svc write the header over it; shipment-svc's baggage
\* refuses a name that does not percent-decode, and is renewed for
\* X-Debug-Trace too.
CountedUnder(r) ==
    LET baggage == headers[r].baggage
    IN  CASE route[r] = "label" -> Named(baggage, Forwarded(r))
          [] route[r] = "rate" -> Named(Forwarded(r), baggage)
          [] OTHER -> IF Forwarded(r) \in Plain THEN Forwarded(r)
                      ELSE IF headers[r].debug THEN NoTenant ELSE baggage

\* The handler refuses, fails or succeeds, and counts a success.
Handle(r) ==
    /\ backend[r] = "inside"
    /\ backend' = [backend EXCEPT ![r] = "handled"]
    /\ \E a \in Answers :
          /\ status' = [status EXCEPT ![r] = a]
          /\ kpi' = IF a = "2xx" /\ route[r] \in Kpis
                      THEN [kpi EXCEPT ![route[r]][CountedUnder(r)] = @ + 1]
                      ELSE kpi
    /\ UNCHANGED <<request, client, link, gateway, told, gauge, total, errors, clientErrors, faults>>

\* The middleware's end; in label-svc only if the gateway is there to be
\* answered, for all label-svc knows.  What pricing-svc's handler raises passes
\* its middleware, which sees no response and counts no error.
BackendFinishes(r) ==
    /\ backend[r] = "handled"
    /\ \E end \in IF r \in link THEN {"done"} ELSE {"done", "cut"} :
          /\ backend' = [backend EXCEPT ![r] = end]
          /\ CASE route[r] = "label" /\ end = "done" -> Leave("label", r, status[r])
               [] route[r] = "rate" ->
                    Leave("pricing", r, IF status[r] = "5xx" THEN "none" ELSE status[r])
               [] OTHER -> UNCHANGED <<gauge, total, errors>>
    /\ UNCHANGED <<request, client, link, gateway, status, told, clientErrors, kpi, faults>>

-----------------------------------------------------------------------------
(* Connections.                                                            *)

ClientLeaves(r) ==
    /\ r \in client
    /\ gateway[r] \in {"inside", "waiting"}
    /\ Fault
    /\ client' = client \ {r}
    /\ UNCHANGED <<request, link, gateway, backend, status, told, numbers>>

LinkBreaks(r) ==
    /\ r \in link
    /\ gateway[r] = "waiting"
    /\ Fault
    /\ link' = link \ {r}
    /\ UNCHANGED <<request, client, gateway, backend, status, told, numbers>>

\* Over mTLS, a response that breaks off after its headers: the promise of
\* httpRequestViaNode never settles, and the request stays in the gateway.
ResponseBreaksOff(r) ==
    /\ EnableMtls
    /\ r \in link
    /\ gateway[r] = "waiting"
    /\ backend[r] \in {"handled", "done"}
    /\ Fault
    /\ link' = link \ {r}
    /\ gateway' = [gateway EXCEPT ![r] = "hung"]
    /\ UNCHANGED <<request, client, backend, status, told, numbers>>

Finished ==
    /\ \A r \in Requests :
          gateway[r] \in {"done", "hung"} /\ backend[r] \in {"idle", "done", "cut"}
    /\ UNCHANGED vars

Next ==
    \/ \E r \in Requests :
          \/ Arrive(r) \/ Refuse(r) \/ Proxy(r) \/ Hear(r) \/ FetchFails(r)
          \/ BackendArrives(r) \/ Handle(r) \/ BackendFinishes(r)
          \/ ClientLeaves(r) \/ LinkBreaks(r) \/ ResponseBreaksOff(r)
    \/ Finished

Spec == Init /\ [][Next]_vars

-----------------------------------------------------------------------------
(* Properties.                                                             *)

\* The requests whose client left before the answer.
Left == {r \in Requests : gateway[r] = "done" /\ r \notin client}

\* The requests that are in a service, and those it never saw the end of: whoever
\* made them was gone before, or the gateway waits for what will not come.
Inside(s) ==
    IF s = "gateway" THEN {r \in Requests : gateway[r] \in {"inside", "waiting"}}
    ELSE {r \in Requests : ServiceOf[route[r]] = s /\ backend[r] \in {"inside", "handled"}}

Abandoned(s) ==
    CASE s = "gateway" -> Left \union {r \in Requests : gateway[r] = "hung"}
      [] s = "label" -> {r \in Requests : route[r] = "label" /\ backend[r] = "cut"}
      [] s = "pricing" -> {}

\* http.server.active_requests, summed over its series, is the number of the
\* requests under way, plus one for ever for each whose peer left early or whose
\* response broke off over mTLS; in pricing-svc there are none of these.
GaugeIsActive ==
    \A s \in Metered :
        SumFunction(gauge[s]) = Cardinality(Inside(s)) + Cardinality(Abandoned(s))

ToldOf(rs) == {r \in rs : told[r] = "2xx"}
NotRefused(rs) == {r \in rs : backend[r] # "idle" /\ told[r] # "4xx"}

\* The requests that name a tenant somewhere, and those that name no other.
Naming(k, t) == {r \in Requests : route[r] = k /\ t \in {headers[r].tenant, headers[r].baggage}}
Claiming(k, t) ==
    {r \in Requests : route[r] = k /\ headers[r].tenant = t /\ headers[r].baggage \in {t, NoTenant}}
OfRoute(k) == {r \in Requests : route[r] = k}

\* The funnel of docs/runbooks/kpi-funnel.md counts every quote, label and
\* shipment a client was told of, and none that was refused; under a tenant, if
\* the name is one baggage takes, all that name it in the header and no other in
\* the baggage, and none that does not name it; whatever connections are lost.
FunnelByTenant ==
    \A k \in Kpis :
        /\ \A t \in Plain :
              /\ Cardinality(ToldOf(Claiming(k, t))) <= kpi[k][t]
              /\ kpi[k][t] <= Cardinality(NotRefused(Naming(k, t)))
        /\ Cardinality(ToldOf(OfRoute(k))) <= SumFunction(kpi[k])
        /\ SumFunction(kpi[k]) <= Cardinality(NotRefused(OfRoute(k)))

\* Every 5xx a client is told of is in the gateway's http.server.errors and in
\* its http.client.errors, which the alerts watch, and these hold nothing else
\* but failures of requests whose client has left.
FailuresSurface ==
    /\ errors["gateway"] = Cardinality({r \in Requests : told[r] = "5xx"})
    /\ errors["gateway"] <= clientErrors
    /\ clientErrors <= errors["gateway"] + Cardinality(Left)
=============================================================================
