------------------------------ MODULE Tracking ------------------------------
(***************************************************************************)
(* tracking-svc: the handlers pickup, transit and deliver, which store one *)
(* event each, and track, which reads a shipment's events back             *)
(* (internal/httpserver/server.go, internal/repo/tracking.go).             *)
(*                                                                         *)
(* An insert is one statement in a transaction of its own.  Its ts is      *)
(* now(), the time the transaction began, so events become visible in      *)
(* another order than their ts, and the handler's answer may come before   *)
(* either.  track keeps the newest Limit events of a shipment and reports  *)
(* the type of the first.                                                  *)
(***************************************************************************)
EXTENDS Naturals, Sequences, SequencesExt, FiniteSetsExt

CONSTANTS Events,       \* POST requests, one event each; a retry is another one
          Trackers,     \* GET requests
          Shipments,
          TypeOf,       \* the type of event a POST request is for
          Limit,        \* LIMIT of the query: 100 in the code
          MaxFaults     \* bound: failures injected in a behaviour

Types == {"PICKUP", "IN_TRANSIT", "DELIVERED"}

ASSUME TrackingConstantsOK ==
    /\ TypeOf \in [Events -> Types]
    /\ Limit \in Nat \ {0}
    /\ MaxFaults \in Nat

VARIABLES
    \* the POST requests
    shipment,   \* shipmentId in the body
    pc,         \* where the handler is
    code,       \* 202, 400, or none because the pod died
    \* the table
    row,        \* what became of the insert
    ts,         \* the row's time, 0 before the insert began
    clock,      \* the database's clock
    \* the GET requests
    of,         \* trackingNumber in the path
    tpc,        \* where the handler is
    read,       \* the events in the answer, in its order
    status,     \* the status in the answer
    \* bookkeeping
    torn,       \* the reads whose row stream broke off
    settled,    \* the events answered and stored when a GET came in
    before,     \* the GETs answered when a GET came in
    faults

posts == <<shipment, pc, code>>
table == <<row, ts, clock>>
gets == <<of, tpc, read, status, torn, settled, before>>
vars == <<posts, table, gets, faults>>

TypeOK ==
    /\ shipment \in [Events -> Shipments]
    /\ pc \in [Events -> {"idle", "insert", "wait", "done"}]
    /\ code \in [Events -> {"none", "accepted", "bad_request", "lost"}]
    /\ row \in [Events -> {"none", "pending", "stored", "failed"}]
    /\ ts \in [Events -> 0..clock]
    /\ clock \in Nat
    /\ of \in [Trackers -> Shipments]
    /\ tpc \in [Trackers -> {"idle", "read", "done"}]
    /\ read \in [Trackers -> Seq(Events)]
    /\ \A t \in Trackers : Len(read[t]) <= Limit
    /\ status \in [Trackers -> Types \union {"none", "CREATED", "error"}]
    /\ torn \subseteq Trackers
    /\ settled \in [Trackers -> SUBSET Events]
    /\ before \in [Trackers -> SUBSET Trackers]
    /\ faults \in 0..MaxFaults

Init ==
    /\ shipment \in [Events -> Shipments]
    /\ pc = [e \in Events |-> "idle"]
    /\ code = [e \in Events |-> "none"]
    /\ row = [e \in Events |-> "none"]
    /\ ts = [e \in Events |-> 0]
    /\ clock = 0
    /\ of \in [Trackers -> Shipments]
    /\ tpc = [t \in Trackers |-> "idle"]
    /\ read = [t \in Trackers |-> <<>>]
    /\ status = [t \in Trackers |-> "none"]
    /\ torn = {}
    /\ settled = [t \in Trackers |-> {}]
    /\ before = [t \in Trackers |-> {}]
    /\ faults = 0

Fault ==
    /\ faults < MaxFaults
    /\ faults' = faults + 1

-----------------------------------------------------------------------------
(* POST /v1/events/...                                                     *)

GoTo(e, l) == pc' = [pc EXCEPT ![e] = l]

Receive(e, k) ==
    /\ pc[e] = "idle"
    /\ TypeOf[e] = k
    /\ GoTo(e, "insert")
    /\ UNCHANGED <<shipment, code, table, gets, faults>>

pickup(e) == Receive(e, "PICKUP")
transit(e) == Receive(e, "IN_TRANSIT")
deliver(e) == Receive(e, "DELIVERED")

\* The body does not decode or names no shipment.
Refuse(e) ==
    /\ pc[e] = "idle"
    /\ GoTo(e, "done")
    /\ code' = [code EXCEPT ![e] = "bad_request"]
    /\ UNCHANGED <<shipment, table, gets, faults>>

\* The statement begins.  Two that overlap may read the same microsecond;
\* one that begins after another was answered reads a later one.
InsertEvent(e) ==
    /\ pc[e] = "insert"
    /\ \E now \in {clock, clock + 1} \ {0} :
          /\ \A f \in Events : pc[f] = "done" => ts[f] < now
          /\ ts' = [ts EXCEPT ![e] = now]
          /\ clock' = now
    /\ row' = [row EXCEPT ![e] = "pending"]
    /\ GoTo(e, "wait")
    /\ UNCHANGED <<shipment, code, gets, faults>>

\* The database commits the row, be the handler there or not.
Store(e) ==
    /\ row[e] = "pending"
    /\ row' = [row EXCEPT ![e] = "stored"]
    /\ UNCHANGED <<posts, ts, clock, gets, faults>>

\* ... or rejects it: a shipmentId that is no UUID, a full disk.
Reject(e) ==
    /\ row[e] = "pending"
    /\ Fault
    /\ row' = [row EXCEPT ![e] = "failed"]
    /\ UNCHANGED <<posts, ts, clock, gets>>

\* The handler logs how the insert went, and answers 202 both ways.
Answer(e) ==
    /\ pc[e] = "wait"
    /\ row[e] # "pending"
    /\ GoTo(e, "done")
    /\ code' = [code EXCEPT ![e] = "accepted"]
    /\ UNCHANGED <<shipment, table, gets, faults>>

\* The connection breaks: an error to the handler, whatever the server does
\* with the statement.
AnswerUnheard(e) ==
    /\ pc[e] \in {"insert", "wait"}
    /\ Fault
    /\ GoTo(e, "done")
    /\ code' = [code EXCEPT ![e] = "accepted"]
    /\ UNCHANGED <<shipment, table, gets>>

\* The pod dies under the request.
Lose(e) ==
    /\ pc[e] \in {"insert", "wait"}
    /\ Fault
    /\ GoTo(e, "done")
    /\ code' = [code EXCEPT ![e] = "lost"]
    /\ UNCHANGED <<shipment, table, gets>>

-----------------------------------------------------------------------------
(* GET /v1/track/{trackingNumber}                                          *)

Stored(s) == {e \in Events : row[e] = "stored" /\ shipment[e] = s}

\* Mutant: ORDER BY ts without DESC.
OldestFirst(S) ==
    {q \in SetToSeqs(S) : \A i, j \in DOMAIN q : i < j => ts[q[i]] <= ts[q[j]]}

\* The orders ORDER BY ts DESC allows.
NewestFirst(S) ==
    {q \in SetToSeqs(S) : \A i, j \in DOMAIN q : i < j => ts[q[i]] >= ts[q[j]]}

\* Mutants: LIMIT off by one, on either side.
CutOneMore(q) == SubSeq(q, 1, Min({Len(q), Limit + 1}))
CutOneLess(q) == SubSeq(q, 1, Min({Len(q), Limit - 1}))

Cut(q) == SubSeq(q, 1, Min({Len(q), Limit}))

track(t) ==
    /\ tpc[t] = "idle"
    /\ tpc' = [tpc EXCEPT ![t] = "read"]
    /\ settled' = [settled EXCEPT ![t] = {e \in Stored(of[t]) : pc[e] = "done"}]
    /\ before' = [before EXCEPT ![t] = {u \in Trackers : tpc[u] = "done"}]
    /\ UNCHANGED <<posts, table, of, read, status, torn, faults>>

\* The handler's answer from the rows it got: "CREATED" where there are none.
Report(t, rows) ==
    /\ tpc' = [tpc EXCEPT ![t] = "done"]
    /\ read' = [read EXCEPT ![t] = rows]
    /\ status' = [status EXCEPT ![t] = IF rows = <<>> THEN "CREATED" ELSE TypeOf[Head(rows)]]

\* Mutant: the newest rows of the table are cut off before they are searched
\* for the shipment's.
CutThenFilter(t) ==
    /\ tpc[t] = "read"
    /\ \E q \in NewestFirst(UNION {Stored(s) : s \in Shipments}) :
          Report(t, SelectSeq(Cut(q), LAMBDA e : shipment[e] = of[t]))
    /\ UNCHANGED <<posts, table, of, torn, settled, before, faults>>

\* One statement, so one snapshot of the table.
GetEvents(t) ==
    /\ tpc[t] = "read"
    /\ \E q \in NewestFirst(Stored(of[t])) : Report(t, Cut(q))
    /\ UNCHANGED <<posts, table, of, torn, settled, before, faults>>

\* The connection breaks while rows come in.  rows.Next() is false, rows.Err()
\* is never asked, and the handler answers with the rows it has.
GetEventsTorn(t) ==
    /\ tpc[t] = "read"
    /\ Fault
    /\ \E q \in NewestFirst(Stored(of[t])) :
          /\ q # <<>>
          /\ \E n \in 0..(Len(Cut(q)) - 1) : Report(t, SubSeq(q, 1, n))
    /\ torn' = torn \union {t}
    /\ UNCHANGED <<posts, table, of, settled, before>>

\* The query itself fails: 500.
GetEventsFails(t) ==
    /\ tpc[t] = "read"
    /\ Fault
    /\ tpc' = [tpc EXCEPT ![t] = "done"]
    /\ status' = [status EXCEPT ![t] = "error"]
    /\ UNCHANGED <<posts, table, of, read, torn, settled, before>>

-----------------------------------------------------------------------------

Handle(e) == InsertEvent(e) \/ Store(e) \/ Answer(e)

Idle ==
    /\ \A e \in Events : pc[e] = "done" /\ row[e] # "pending"
    /\ \A t \in Trackers : tpc[t] = "done"
    /\ UNCHANGED vars

Next ==
    \/ \E e \in Events :
          \/ pickup(e) \/ transit(e) \/ deliver(e) \/ Refuse(e)
          \/ Handle(e) \/ Reject(e) \/ AnswerUnheard(e) \/ Lose(e)
    \/ \E t \in Trackers :
          track(t) \/ GetEvents(t) \/ GetEventsTorn(t) \/ GetEventsFails(t)
    \/ Idle

Spec == Init /\ [][Next]_vars

-----------------------------------------------------------------------------
(* Properties.                                                             *)

Reported(t) == status[t] \in Types \union {"CREATED"}

\* The status is that of an event at least as new as every event that had been
\* answered and stored when the GET came in, however many are newer than the
\* limit and however inserts overlap.  A stream of rows that breaks off may
\* lose the tail, or everything, but never the first row alone.
NoStaleStatus ==
    \A t \in Trackers : Reported(t) =>
        IF read[t] = <<>>
          THEN t \in torn \/ settled[t] = {}
          ELSE \A e \in settled[t] : ts[Head(read[t])] >= ts[e]

\* Who polls never sees the shipment go back: of two whole answers, one given
\* before the other was asked for, the later starts with an event as new.
StatusMovesOn ==
    \A t, u \in Trackers :
        /\ Reported(t) /\ Reported(u)
        /\ u \in before[t] /\ of[u] = of[t]
        /\ {t, u} \intersect torn = {}
        /\ read[u] # <<>>
        => read[t] # <<>> /\ ts[Head(read[t])] >= ts[Head(read[u])]

\* Within the limit an answer leaves out no event that had been answered and
\* stored: the history a GET shows has no holes.  And with nothing failing that
\* is every event accepted (MVP_BACKLOG.md:59, "202 accepted; event persisted").
HistoryIsWhole ==
    /\ \A t \in Trackers : Reported(t) /\ t \notin torn /\ Len(read[t]) < Limit =>
          settled[t] \subseteq ToSet(read[t])
    /\ faults = 0 => \A e \in Events : code[e] = "accepted" => row[e] = "stored"
=============================================================================
