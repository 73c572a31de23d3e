-------------------------- MODULE MCCreateRetries --------------------------
(* CreateRetries for TLC.  Three requests: a key has three attempts, one     *)
(* more than there are failures, or two beside another client's request.     *)
(* The replica p1 is the repository's build, p2 one with the driver's own    *)
(* error type: all requests at the one, all at the other, or some at each,   *)
(* as while the second replaces the first.                                   *)
EXTENDS CreateRetries

CONSTANTS r1, r2, r3, k1, k2, p1, p2

MCRequests == {r1, r2, r3}
MCKeys == {k1, k2}
MCReplicas == {p1, p2}
MCRecognising == {p2}

\* The requests of a set run at the old build, the others at the new one.
OldBuildServes(old) == at = [r \in Requests |-> IF r \in old THEN p1 ELSE p2]

\* Of the ways to spread two keys over three requests, the others are one of
\* these under other names, and nothing depends on the names.
MCInit ==
    /\ RetriesInit
    /\ \/ /\ key = [r \in Requests |-> k1]
          /\ \E old \in {{}, {r1}, {r1, r2}, MCRequests} : OldBuildServes(old)
       \/ /\ key = [r \in Requests |-> IF r = r3 THEN k2 ELSE k1]
          /\ OldBuildServes({r1})

MCSpec == MCInit /\ [][RetriesNext]_retriesVars /\ RetriesFairness
=============================================================================
