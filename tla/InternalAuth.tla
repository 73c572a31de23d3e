---------------------------- MODULE InternalAuth ----------------------------
(***************************************************************************)
(* The two kinds of HS256 token and the secrets they are signed and        *)
(* verified with, across a rotation.                                       *)
(*                                                                         *)
(*   internal  gateway-api and label-svc sign one for every call to a      *)
(*             backend; shipment-svc, tracking-svc, pricing-svc and        *)
(*             label-svc verify it                                         *)
(*   user      identity-svc signs one at login, gateway-api verifies it    *)
(*                                                                         *)
(* A service finds a secret by its own rule, in a file or in the           *)
(* environment, at start or at each call.  Setting is the deployment: what *)
(* an environment variable of a service is set to.  Environments are fixed *)
(* when a service starts; a mounted file changes under it.                 *)
(***************************************************************************)
EXTENDS Naturals, FiniteSets

CONSTANTS Deployments,  \* what is set where, one of:
          Messages,     \* calls that carry a token
          MaxRotations  \* bound: new secrets in a behaviour

Services == {"identity", "gateway", "label", "shipment", "tracking", "pricing"}

Variables == {"INTERNAL_JWT_SECRET_FILE", "INTERNAL_JWT_SECRET", "JWT_SECRET_FILE", "JWT_SECRET"}

Files == {"INTERNAL_JWT_SECRET_FILE", "JWT_SECRET_FILE"}

\* "literal" is "devsecret", written out; "unreadable" names a file that is not
\* there or cannot be read.
Settings == {"unset", "unreadable", "literal", "managed"}

ASSUME InternalAuthConstantsOK ==
    /\ Deployments \subseteq [Services -> [Variables -> Settings]]
    /\ MaxRotations \in Nat

VARIABLES
    Setting,    \* the deployment: what a variable of a service is set to
    version,    \* the secrets manager's: every rotation renews both secrets
    started,    \* the version a service's environment was made with
    message,    \* a call: who calls whom, with a token signed with what
    quiet       \* the messages sent and verified with no roll-out under way

vars == <<Setting, version, started, message, quiet>>

-----------------------------------------------------------------------------
(* Secrets.                                                                *)

\* "devsecret", the secret of the .env.example files and the code's default.
Dev == <<"dev", 0>>
Managed(v, n) == IF v \in {"JWT_SECRET", "JWT_SECRET_FILE"} THEN <<"user", n>> ELSE <<"internal", n>>
Secrets == {"dev", "user", "internal"} \X (0..MaxRotations)

\* A file that cannot be read is passed over like a variable that is not set.
Set(s, v) == Setting[s][v] \notin {"unset", "unreadable"}

\* The secret a variable of a service holds or, for a file, names: files are
\* what they are now, environments what they were at the start.
Value(s, v, now) ==
    IF Setting[s][v] = "literal" THEN Dev
    ELSE Managed(v, IF v \in Files THEN now ELSE started[s])

\* The first of the variables in vs that is set, or "devsecret".
FirstSet(s, vs, now) ==
    LET ks == {k \in DOMAIN vs : Set(s, vs[k])}
    IN  IF ks = {} THEN Dev
        ELSE Value(s, vs[CHOOSE k \in ks : \A j \in ks : k <= j], now)

\* config.ts of gateway-api and label-svc: read once, when the process starts.
internalJwtSecret(s) ==
    FirstSet(s, <<"INTERNAL_JWT_SECRET_FILE", "INTERNAL_JWT_SECRET", "JWT_SECRET">>, started[s])

\* Mutant: the guard forgets the file.
guardSecretUnfiled(s) == FirstSet(s, <<"INTERNAL_JWT_SECRET", "JWT_SECRET">>, version)

\* internal.guard.ts of label-svc, and _secret of pricing-svc: the file is
\* read at each call.
guardSecret(s) ==
    FirstSet(s, <<"INTERNAL_JWT_SECRET_FILE", "INTERNAL_JWT_SECRET", "JWT_SECRET">>, version)

\* Mutant: JWT_SECRET comes first.
internalSecretSwapped(s) == FirstSet(s, <<"JWT_SECRET", "INTERNAL_JWT_SECRET">>, version)

\* internalSecret of shipment-svc and tracking-svc: no file.
internalSecret(s) == FirstSet(s, <<"INTERNAL_JWT_SECRET", "JWT_SECRET">>, version)

\* secret() of identity-svc.
identitySecret == FirstSet("identity", <<"JWT_SECRET_FILE", "JWT_SECRET">>, version)

\* jwt.guard.ts of gateway-api: the environment only.
userSecret == FirstSet("gateway", <<"JWT_SECRET">>, version)

-----------------------------------------------------------------------------
(* Who calls whom.                                                         *)

Calls ==
    ({"gateway"} \X {"shipment", "tracking", "pricing", "label"})
    \union {<<"label", "shipment">>, <<"identity", "gateway">>}

SignedWith(s) == IF s = "identity" THEN identitySecret ELSE internalJwtSecret(s)

VerifiedWith(s) ==
    CASE s = "gateway" -> userSecret
      [] s \in {"label", "pricing"} -> guardSecret(s)
      [] s \in {"shipment", "tracking"} -> internalSecret(s)

RolledOut == \A s \in Services : started[s] = version

-----------------------------------------------------------------------------

NoMessage == [call |-> <<>>, secret |-> Dev, outcome |-> "none"]

TypeOK ==
    /\ Setting \in Deployments
    /\ version \in 0..MaxRotations
    /\ started \in [Services -> 0..MaxRotations]
    /\ message \in [Messages -> [call : Calls \union {<<>>},
                                 secret : Secrets,
                                 outcome : {"none", "sent", "ok", "unauthorized", "expired"}]]
    /\ quiet \subseteq Messages

Init ==
    /\ Setting \in Deployments
    /\ version = 0
    /\ started = [s \in Services |-> 0]
    /\ message = [m \in Messages |-> NoMessage]
    /\ quiet = {}

\* The runbook's first step: new secrets in the manager, and in the files.
Rotate ==
    /\ version < MaxRotations
    /\ version' = version + 1
    /\ quiet' = {}
    /\ UNCHANGED <<Setting, started, message>>

\* Its second: restart deployments to pick them up.
Restart(s) ==
    /\ started[s] # version
    /\ started' = [started EXCEPT ![s] = version]
    /\ UNCHANGED <<Setting, version, message, quiet>>

\* Mutant: any service calls any other.
SignForAnyone(m) ==
    /\ message[m].outcome # "sent"
    /\ \E c \in {"gateway", "label"} \X {"shipment", "tracking", "pricing", "label"} :
          message' = [message EXCEPT ![m] =
              [call |-> c, outcome |-> "sent", secret |-> SignedWith(c[1])]]
    /\ quiet' = IF RolledOut THEN quiet \union {m} ELSE quiet \ {m}
    /\ UNCHANGED <<Setting, version, started>>

\* signInternalToken for every call, jwtutil.Sign at login.
Sign(m) ==
    /\ message[m].outcome # "sent"
    /\ \E c \in Calls :
          message' = [message EXCEPT ![m] =
              [call |-> c, outcome |-> "sent", secret |-> SignedWith(c[1])]]
    /\ quiet' = IF RolledOut THEN quiet \union {m} ELSE quiet \ {m}
    /\ UNCHANGED <<Setting, version, started>>

Verify(m) ==
    /\ message[m].outcome = "sent"
    /\ message' = [message EXCEPT ![m].outcome =
          IF message[m].secret = VerifiedWith(message[m].call[2]) THEN "ok" ELSE "unauthorized"]
    /\ UNCHANGED <<Setting, version, started, quiet>>

\* exp has passed: 60 s for an internal token, 15 min for a user's.
Expire(m) ==
    /\ message[m].outcome = "sent"
    /\ message' = [message EXCEPT ![m].outcome = "expired"]
    /\ UNCHANGED <<Setting, version, started, quiet>>

Next ==
    \/ Rotate
    \/ \E s \in Services : Restart(s)
    \/ \E m \in Messages : Sign(m) \/ Verify(m) \/ Expire(m)

Spec == Init /\ [][Next]_vars

\* The runbook is followed to its end, and a token that arrives is verified.
FairSpec ==
    /\ Spec
    /\ \A s \in Services : WF_vars(Restart(s))
    /\ \A m \in Messages : WF_vars(Verify(m) \/ Expire(m))

-----------------------------------------------------------------------------
(* Properties.                                                             *)

\* The variables a service signs with and verifies with, the first one first.
SigningRule(s) ==
    IF s = "identity"
      THEN <<"JWT_SECRET_FILE", "JWT_SECRET">>
      ELSE <<"INTERNAL_JWT_SECRET_FILE", "INTERNAL_JWT_SECRET", "JWT_SECRET">>

VerifyingRule(s) ==
    CASE s = "gateway" -> <<"JWT_SECRET">>
      [] s \in {"label", "pricing"} ->
             <<"INTERNAL_JWT_SECRET_FILE", "INTERNAL_JWT_SECRET", "JWT_SECRET">>
      [] s \in {"shipment", "tracking"} -> <<"INTERNAL_JWT_SECRET", "JWT_SECRET">>

\* Where somebody given these settings has its secret from, if it looks in vs.
Origin(settings, vs) ==
    LET ks == {k \in DOMAIN vs : settings[vs[k]] \notin {"unset", "unreadable"}}
        v == vs[CHOOSE k \in ks : \A j \in ks : k <= j]
    IN  IF ks = {} \/ settings[v] = "literal" THEN "dev" ELSE Managed(v, 0)[1]

\* The two ends of a call have theirs from the same place.
Agree(settings, c) ==
    Origin(settings[c[1]], SigningRule(c[1])) = Origin(settings[c[2]], VerifyingRule(c[2]))

\* In every deployment, it is the settings alone that decide about a token signed
\* and verified with no roll-out under way: it is let through where the two ends
\* agree and refused where one of them is at another variable or at its default,
\* however often the secrets were renewed, in whatever order services were
\* restarted, and whether a file was read at the start or at the call.
SettingsDecide ==
    \A m \in quiet :
        /\ message[m].outcome = "unauthorized" => ~Agree(Setting, message[m].call)
        /\ message[m].outcome = "ok" => Agree(Setting, message[m].call)

\* Nothing of a rotation lasts: where the two ends of a call agree, they find the
\* same secret from some time on.  And none mends anything: where they do not,
\* they never do.
RotationEnds ==
    \A c \in Calls :
        /\ Agree(Setting, c) => <>[](SignedWith(c[1]) = VerifiedWith(c[2]))
        /\ ~Agree(Setting, c) => [](SignedWith(c[1]) # VerifiedWith(c[2]))
=============================================================================
