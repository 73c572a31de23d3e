---------------------------- MODULE MCMigrations ----------------------------
(* Migrations for TLC: identity-svc beside shipment-svc, on one ledger, as   *)
(* docker-compose.yml runs them.                                             *)
EXTENDS Migrations, TLC

CONSTANTS i1, i2

MCDeployments ==
    {[service  |-> (i1 :> "identity") @@ (i2 :> "shipment"),
      shipped  |-> Instances,
      restarts |-> FALSE]}
=============================================================================
