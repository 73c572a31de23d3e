------------------------------ MODULE MCUsers ------------------------------
(* Users for TLC: two copies of identity-svc or of shipment-svc beside       *)
(* tracking-svc, as the helm charts run them, once with one copy only that   *)
(* finds its migrations directory; and the three services                    *)
(* docker-compose.yml runs, on one database and not started again.           *)
EXTENDS Users, TLC

CONSTANTS i1, i2, i3, a, b, x, y

Three(s, t, u) == (i1 :> s) @@ (i2 :> t) @@ (i3 :> u)

MCDeployments ==
    {[service |-> Three(svc, svc, "tracking"), shipped |-> Instances, restarts |-> TRUE] :
        svc \in {"identity", "shipment"}}
    \union
    {[service  |-> Three("identity", "identity", "tracking"),
      shipped  |-> {i1},
      restarts |-> TRUE],
     [service  |-> Three("identity", "shipment", "tracking"),
      shipped  |-> Instances,
      restarts |-> FALSE]}

\* The same administrator throughout, another password in the copy that is
\* rolled out, or another email.
MCConfigured ==
    {Three([email |-> a, password |-> x], c, [email |-> a, password |-> x]) :
        c \in {[email |-> a, password |-> x], [email |-> a, password |-> y],
               [email |-> b, password |-> x]}}
=============================================================================
