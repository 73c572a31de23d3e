--------------------------- MODULE CreateRetries ---------------------------
(***************************************************************************)
(* A create as its client sees it: POST /v1/shipments of gateway-api       *)
(* (shipments.controller.ts, proxy.service.ts) in front of the handler in  *)
(* IdempotentCreate, and a client that has a key and sends the request     *)
(* again when it is told of a failure, hears nothing, or wants to.         *)
(*                                                                         *)
(* The gateway passes the key on, and the status and body back; it drops   *)
(* the headers, Idempotent-Replayed among them, so 200 against 201 is what *)
(* tells a client of a replay.  Neither it nor the client can call back a  *)
(* request that is on its way.                                             *)
(***************************************************************************)
EXTENDS IdempotentCreate

VARIABLES
    sent,       \* the requests a client has sent
    heard,      \* what the client heard: the gateway's status, or nothing
    sentAt      \* bookkeeping: the failures there had been when it was sent

client == <<sent, heard, sentAt>>
retriesVars == <<vars, client>>

RetriesTypeOK ==
    /\ TypeOK
    /\ sent \subseteq Requests
    /\ heard \in [Requests -> Codes]
    /\ sentAt \in [Requests -> 0..faults]

RetriesInit ==
    /\ Init
    /\ sent = {}
    /\ heard = [r \in Requests |-> "none"]
    /\ sentAt = [r \in Requests |-> 0]

Attempts(k) == {r \in Requests : key[r] = k}

Waiting(r) == r \in sent /\ heard[r] = "none"

\* A key has one client, which sends one request at a time.
Send(r) ==
    /\ r \notin sent
    /\ \A q \in Attempts(key[r]) : ~Waiting(q)
    /\ sent' = sent \union {r}
    /\ sentAt' = [sentAt EXCEPT ![r] = faults]
    /\ UNCHANGED <<vars, heard>>

\* The forwarded request reaches shipment-svc, if late: the gateway or the
\* client may have given it up.
Arrive(r) ==
    /\ r \in sent
    /\ Receive(r) \/ Refuse(r)
    /\ UNCHANGED client

\* Mutant: the gateway reports a service that went away as a success.
HandOnLost(r) ==
    /\ Waiting(r)
    /\ pc[r] = "done"
    /\ heard' = [heard EXCEPT ![r] = IF code[r] = "lost" THEN "created" ELSE code[r]]
    /\ UNCHANGED <<vars, sent, sentAt>>

\* The gateway answers with the service's status and body, and with 500 when
\* the service went away.
HandOn(r) ==
    /\ Waiting(r)
    /\ pc[r] = "done"
    /\ heard' = [heard EXCEPT ![r] = IF code[r] = "lost" THEN "error" ELSE code[r]]
    /\ UNCHANGED <<vars, sent, sentAt>>

\* The connection to the service breaks, for which the gateway answers 500 or,
\* over mTLS with the response begun, nothing at all, so that the client gives
\* up; or the one to the client does.  The handler may still do all it has to.
LoseAnswer(r) ==
    /\ Waiting(r)
    /\ Fault
    /\ \E h \in {"error", "lost"} : heard' = [heard EXCEPT ![r] = h]
    /\ UNCHANGED <<routing, service, tx, rows, sent, sentAt>>

RetriesNext ==
    \/ \E r \in Requests :
          \/ Send(r) \/ Arrive(r) \/ HandOn(r) \/ LoseAnswer(r)
          \/ (Handle(r) \/ Break(r) \/ Serve(r)) /\ UNCHANGED client
    \/ (\E p \in Replicas : Crash(p)) /\ UNCHANGED client
    \/ Finished /\ UNCHANGED client

\* The service and the gateway run.  Nobody has to send, and a request that
\* is given up need not arrive.
RetriesFairness ==
    \A r \in Requests :
        /\ WF_retriesVars(Handle(r) /\ UNCHANGED client)
        /\ WF_retriesVars(Serve(r) /\ UNCHANGED client)
        /\ WF_retriesVars(Waiting(r) /\ Arrive(r))
        /\ WF_retriesVars(HandOn(r))

RetriesSpec == RetriesInit /\ [][RetriesNext]_retriesVars /\ RetriesFairness

-----------------------------------------------------------------------------
(* Properties.                                                             *)

\* The client of a key sees ExactlyOnceCreate through the gateway: one
\* shipment for the key, 201 from the request that made it and no other, 200
\* from the rest, whichever attempts it gave up before they arrived.
ClientsView == INSTANCE ExactlyOnceCreate WITH
    shipmentOf <- shipmentNamed,
    code <- heard,
    answer <- [r \in Requests |->
                 IF heard[r] \in {"created", "replayed"} THEN answer[r] ELSE NoShipment]

ClientsPromise == ClientsView!Spec

\* Its key has a shipment, made by another attempt, and its replica takes the
\* unique violation for any other error: all this repository's build does.
Superseded(r) ==
    /\ at[r] \notin Recognising
    /\ \E s \in Rivals(r) : Committed(s)

\* A retry is refused for the sake of the attempts before it only when one of
\* them made the shipment: a client that hears of a failure although nothing
\* failed since it sent the request has its shipment.  Earlier attempts that
\* hold the key uncommitted, or are rolled back under it, refuse nothing.
QuietFailuresAreDuplicates ==
    \A r \in Requests :
        heard[r] \in {"error", "lost"} => faults > sentAt[r] \/ Superseded(r)

\* A client that tries more often than there are failures to come settles the
\* matter: it is told of the shipment or of 400, or else refused although the
\* shipment is there.
RetriesTakeEffect ==
    \A k \in Keys :
        /\ Cardinality(Attempts(k)) > MaxFaults
        /\ Attempts(k) \subseteq sent
        ~> \E r \in Attempts(k) :
              \/ heard[r] \in {"created", "replayed", "bad_request"}
              \/ heard[r] = "error" /\ Superseded(r)

-----------------------------------------------------------------------------
(* The inductive invariants, beside CreateInv.                             *)

\* 201 names the request's own shipment, 200 another's.
AnswersNameTheMaker ==
    \A r \in Requests :
        /\ code[r] = "created" => answer[r] = r
        /\ code[r] = "replayed" => answer[r] # r

\* Nothing arrives or is heard before it is sent, and an answer that names a
\* shipment is heard as the service gave it.
HeardIsAnswered ==
    \A r \in Requests :
        /\ r \notin sent => pc[r] = "idle" /\ heard[r] = "none"
        /\ heard[r] \in {"created", "replayed"} => pc[r] = "done" /\ code[r] = heard[r]

\* A handler that looks a shipment up finds it.
DuplicateIsThere ==
    \A r \in Requests :
        pc[r] \in {"lookup", "select"} => \E s \in Rivals(r) : Committed(s)

\* All of it: across retries, lost answers and attempts nobody waits for, what a
\* client has heard agrees with what the service did, and that with the rows.
RetriesInv ==
    /\ CreateInv
    /\ RetriesTypeOK
    /\ AnswersNameTheMaker
    /\ DuplicateIsThere
    /\ HeardIsAnswered

\* A failure, answered or on its way, is younger than the request, or the
\* refusal of a duplicate.
FailuresAreNew ==
    \A r \in Requests :
        /\ pc[r] = "commit" /\ tx[r] = "aborted" => faults > sentAt[r]
        /\ code[r] \in {"error", "lost"} => faults > sentAt[r] \/ Superseded(r)
        /\ heard[r] \in {"error", "lost"} => faults > sentAt[r] \/ Superseded(r)
=============================================================================
