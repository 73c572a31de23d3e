--------------------------- MODULE MCInternalAuth ---------------------------
(* InternalAuth for TLC, in the deployments the repository describes.        *)
EXTENDS InternalAuth, TLC

Only(settings) == [v \in Variables |-> IF v \in DOMAIN settings THEN settings[v] ELSE "unset"]

\* Every service has both secrets in its environment, from one backend.
MCEnvironments ==
    [s \in Services |->
        Only([JWT_SECRET |-> "managed", INTERNAL_JWT_SECRET |-> "managed"])]

\* A file wherever the service reads one, the environment elsewhere.
MCFilesWhereRead ==
    [s \in Services |->
        CASE s = "identity" -> Only([JWT_SECRET_FILE |-> "managed"])
          [] s = "gateway" -> Only([INTERNAL_JWT_SECRET_FILE |-> "managed", JWT_SECRET |-> "managed"])
          [] s \in {"label", "pricing"} -> Only([INTERNAL_JWT_SECRET_FILE |-> "managed"])
          [] s \in {"shipment", "tracking"} -> Only([INTERNAL_JWT_SECRET |-> "managed"])]

\* The same, and pricing-svc cannot read its file.
MCFileUnreadable ==
    [MCFilesWhereRead EXCEPT !["pricing"] = Only([INTERNAL_JWT_SECRET_FILE |-> "unreadable"])]

\* The .env.example files, which docker-compose.yml gives to the containers:
\* nothing is managed.
MCExampleEnv ==
    [s \in Services |->
        CASE s \in {"gateway", "label"} ->
                 Only([JWT_SECRET |-> "literal", INTERNAL_JWT_SECRET |-> "literal"])
          [] s = "identity" -> Only([JWT_SECRET |-> "literal"])
          [] s \in {"pricing", "shipment", "tracking"} -> Only([INTERNAL_JWT_SECRET |-> "literal"])]

\* The override file of docs/security/secrets-management.md:37-73 on top of that.
MCOverride ==
    [s \in Services |->
        CASE s = "identity" -> [MCExampleEnv[s] EXCEPT !["JWT_SECRET_FILE"] = "managed"]
          [] s \in {"gateway", "label", "pricing"} ->
                 [MCExampleEnv[s] EXCEPT !["INTERNAL_JWT_SECRET_FILE"] = "managed"]
          [] s \in {"shipment", "tracking"} -> MCExampleEnv[s]]

\* The variables CI exports, secrets-management.md:79-97, on top of that:
\* docker-compose.yml hands them to gateway-api only.
MCExported ==
    [MCExampleEnv EXCEPT !["gateway"] =
        Only([JWT_SECRET |-> "managed", INTERNAL_JWT_SECRET |-> "managed"])]

MCDeployments ==
    {MCEnvironments, MCFilesWhereRead, MCFileUnreadable, MCExampleEnv, MCOverride, MCExported}

Refused(d) == {c \in Calls : ~Agree(d, c)}

\* What SettingsDecide comes to in each of them.  Both ways the document gives
\* break calls: shipment-svc and tracking-svc read no file and gateway-api none
\* for users' tokens, and an export does not reach the other end.
ASSUME RefusedCalls ==
    /\ \A d \in {MCEnvironments, MCFilesWhereRead, MCExampleEnv} : Refused(d) = {}
    /\ Refused(MCFileUnreadable) = {<<"gateway", "pricing">>}
    /\ Refused(MCOverride) = {<<"gateway", "shipment">>, <<"gateway", "tracking">>,
                              <<"label", "shipment">>, <<"identity", "gateway">>}
    /\ Refused(MCExported) = Calls \ {<<"label", "shipment">>}
=============================================================================
