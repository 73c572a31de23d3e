------------------------- MODULE InternalAuthProofs -------------------------
(***************************************************************************)
(* Which calls between the services are let through, for any number of     *)
(* messages and rotations and any deployment: nothing is assumed of what   *)
(* is set where.  FirstSetByOrigin is the heart of it, that with           *)
(* everything rolled out a rule finds what the settings alone point it to; *)
(* AuthInv is inductive: a message in quiet is signed with what its sender *)
(* would sign it with now.                                                 *)
(***************************************************************************)
EXTENDS InternalAuth, TLAPS

\* The secret a managed variable holds.
Kind(v) == Managed(v, 0)[1]

\* Signed in a quiet time, and verified in it.
Quiet ==
    \A m \in quiet :
        /\ RolledOut
        /\ message[m].outcome = "sent" =>
               /\ message[m].call \in Calls
               /\ message[m].secret = SignedWith(message[m].call[1])
        /\ message[m].outcome = "unauthorized" => ~Agree(Setting, message[m].call)
        /\ message[m].outcome = "ok" => Agree(Setting, message[m].call)

\* A message that was sent has somebody to verify it.
Addressed ==
    \A m \in Messages : message[m].outcome = "sent" => message[m].call \in Calls

Typed == TypeOK /\ Addressed

AuthInv == Typed /\ Quiet

-----------------------------------------------------------------------------

\* Both ends of a call are services.
LEMMA CallsAreOfServices ==
    \A c \in Calls :
        /\ c[1] \in {"gateway", "label", "identity"}
        /\ c[2] \in {"gateway", "label", "pricing", "shipment", "tracking"}
BY DEF Calls

\* A secret is the development's, or one of a version there has been.
LEMMA FirstSetIsSecret ==
    ASSUME NEW s, NEW vs, NEW now \in 0..MaxRotations, started[s] \in 0..MaxRotations
    PROVE  FirstSet(s, vs, now) \in Secrets
BY InternalAuthConstantsOK DEF FirstSet, Value, Managed, Dev, Secrets

\* With everything rolled out a rule finds what is where its variables point to,
\* in a file or in the environment, of the current version.
LEMMA FirstSetByOrigin ==
    ASSUME NEW s, NEW vs, started[s] = version
    PROVE  FirstSet(s, vs, version) =
               IF Origin(Setting[s], vs) = "dev" THEN Dev ELSE <<Origin(Setting[s], vs), version>>
<1> DEFINE ks == {k \in DOMAIN vs : Setting[s][vs[k]] \notin {"unset", "unreadable"}}
           v == vs[CHOOSE k \in ks : \A j \in ks : k <= j]
<1>1. FirstSet(s, vs, version) = IF ks = {} THEN Dev ELSE Value(s, v, version)
  BY DEF FirstSet, Set
<1>2. Value(s, v, version) =
          IF Setting[s][v] = "literal" THEN Dev ELSE <<Kind(v), version>>
  BY DEF Value, Managed, Kind
<1>3. Origin(Setting[s], vs) =
          IF ks = {} \/ Setting[s][v] = "literal" THEN "dev" ELSE Kind(v)
  BY DEF Origin, Kind
<1>4. Kind(v) # "dev"
  BY DEF Kind, Managed
<1> QED
  BY <1>1, <1>2, <1>3, <1>4

\* So both ends of a call find the same exactly where they agree.
LEMMA SameSecret ==
    ASSUME RolledOut, version \in Nat, NEW c \in Calls
    PROVE  SignedWith(c[1]) = VerifiedWith(c[2]) <=> Agree(Setting, c)
<1> DEFINE here == Origin(Setting[c[1]], SigningRule(c[1]))
           there == Origin(Setting[c[2]], VerifyingRule(c[2]))
<1>1. /\ c[1] \in {"gateway", "label", "identity"}
      /\ c[2] \in {"gateway", "label", "pricing", "shipment", "tracking"}
  BY CallsAreOfServices
<1>2. started[c[1]] = version /\ started[c[2]] = version
  BY <1>1 DEF RolledOut, Services
<1>3. SignedWith(c[1]) = FirstSet(c[1], SigningRule(c[1]), version)
  BY <1>1, <1>2 DEF SignedWith, SigningRule, identitySecret, internalJwtSecret
<1>4. VerifiedWith(c[2]) = FirstSet(c[2], VerifyingRule(c[2]), version)
  BY <1>1 DEF VerifiedWith, VerifyingRule, userSecret, guardSecret, internalSecret
<1>5. SignedWith(c[1]) = IF here = "dev" THEN <<"dev", 0>> ELSE <<here, version>>
  BY <1>2, <1>3, FirstSetByOrigin DEF Dev
<1>6. VerifiedWith(c[2]) = IF there = "dev" THEN <<"dev", 0>> ELSE <<there, version>>
  BY <1>2, <1>4, FirstSetByOrigin DEF Dev
<1>7. SignedWith(c[1]) = VerifiedWith(c[2]) <=> here = there
  <2> HIDE DEF here, there
  <2> QED
    BY <1>5, <1>6
<1> QED
  BY <1>7 DEF Agree

\* No message has been sent at first.
LEMMA InitInv == Init => AuthInv
BY InternalAuthConstantsOK
   DEF Init, AuthInv, Typed, TypeOK, Addressed, Quiet, NoMessage, Dev, Secrets

\* Every step keeps the types, Verify and Expire of a message that was sent.
LEMMA TypedStep == Typed /\ [Next]_vars => Typed'
<1> SUFFICES ASSUME Typed, [Next]_vars PROVE Typed'
  OBVIOUS
<1> USE InternalAuthConstantsOK DEF Typed, TypeOK, Addressed
<1>1. CASE Rotate
  BY <1>1 DEF Rotate
<1>2. ASSUME NEW s \in Services, Restart(s) PROVE Typed'
  BY <1>2 DEF Restart
<1>3. ASSUME NEW m \in Messages, Sign(m) PROVE Typed'
  <2>1. PICK c \in Calls :
            message' = [message EXCEPT ![m] =
                [call |-> c, outcome |-> "sent", secret |-> SignedWith(c[1])]]
    BY <1>3 DEF Sign
  <2>2. c[1] \in Services
    BY CallsAreOfServices DEF Services
  <2>3. SignedWith(c[1]) \in Secrets
    BY <2>2, FirstSetIsSecret DEF SignedWith, identitySecret, internalJwtSecret, Services
  <2>4. quiet' \subseteq Messages /\ UNCHANGED <<Setting, version, started>>
    BY <1>3 DEF Sign
  <2> QED
    BY <2>1, <2>3, <2>4
<1>4. ASSUME NEW m \in Messages, Verify(m) \/ Expire(m) PROVE Typed'
  BY <1>4 DEF Verify, Expire
<1>5. CASE UNCHANGED vars
  BY <1>5 DEF vars
<1> QED
  BY <1>1, <1>2, <1>3, <1>4, <1>5 DEF Next

\* Nothing moves between the two ends of a quiet call: a rotation ends the quiet,
\* and there is nothing to restart in it.
LEMMA QuietStep == ASSUME AuthInv, [Next]_vars PROVE Quiet'
<1> USE DEF AuthInv, Typed, Quiet
<1>1. CASE Rotate
  BY <1>1 DEF Rotate
<1>2. ASSUME NEW s \in Services, Restart(s) PROVE Quiet'
  <2>1. quiet' = {}
    BY <1>2 DEF Restart, RolledOut
  <2> QED
    BY <2>1
<1>3. ASSUME UNCHANGED <<Setting, version, started>>
      PROVE  /\ RolledOut' <=> RolledOut
             /\ \A s : SignedWith(s)' = SignedWith(s)
  <2>1. RolledOut' <=> RolledOut
    BY <1>3 DEF RolledOut
  <2>2. ASSUME NEW s, NEW vs, NEW now PROVE FirstSet(s, vs, now)' = FirstSet(s, vs, now)
    <3>1. \A v : Set(s, v)' <=> Set(s, v)
      BY <1>3 DEF Set
    <3>2. \A v : Value(s, v, now)' = Value(s, v, now)
      BY <1>3 DEF Value
    <3>3. {k \in DOMAIN vs : Set(s, vs[k])'} = {k \in DOMAIN vs : Set(s, vs[k])}
      BY <3>1
    <3> QED
      BY <3>2, <3>3 DEF FirstSet
  <2>3. ASSUME NEW s PROVE SignedWith(s)' = SignedWith(s)
    BY <1>3, <2>2 DEF SignedWith, identitySecret, internalJwtSecret
  <2> QED
    BY <2>1, <2>3
<1>4. ASSUME NEW m \in Messages, Sign(m) PROVE Quiet'
  <2>1. PICK c \in Calls :
            message' = [message EXCEPT ![m] =
                [call |-> c, outcome |-> "sent", secret |-> SignedWith(c[1])]]
    BY <1>4 DEF Sign
  <2>2. /\ UNCHANGED <<Setting, version, started>>
        /\ quiet' = IF RolledOut THEN quiet \union {m} ELSE quiet \ {m}
    BY <1>4 DEF Sign
  <2>3. (RolledOut' <=> RolledOut) /\ \A s : SignedWith(s)' = SignedWith(s)
    BY <1>3, <2>2
  <2> QED
    BY <2>1, <2>2, <2>3 DEF TypeOK
<1>5. ASSUME NEW m \in Messages, Verify(m) PROVE Quiet'
  <2>1. UNCHANGED <<Setting, version, started, quiet>>
    BY <1>5 DEF Verify
  <2>2. (RolledOut' <=> RolledOut) /\ \A s : SignedWith(s)' = SignedWith(s)
    BY <1>3, <2>1
  <2>3. m \in quiet => /\ message'[m].call = message[m].call
                       /\ message'[m].outcome = IF Agree(Setting, message[m].call)
                                                 THEN "ok" ELSE "unauthorized"
    <3> SUFFICES ASSUME m \in quiet
                 PROVE  /\ message'[m].call = message[m].call
                        /\ message'[m].outcome = IF Agree(Setting, message[m].call)
                                                  THEN "ok" ELSE "unauthorized"
      OBVIOUS
    <3>1. /\ RolledOut /\ version \in Nat /\ message[m].call \in Calls
          /\ message[m].secret = SignedWith(message[m].call[1])
      BY <1>5, InternalAuthConstantsOK DEF Verify, TypeOK
    <3>2. message[m].secret = VerifiedWith(message[m].call[2])
              <=> Agree(Setting, message[m].call)
      BY <3>1, SameSecret
    <3> QED
      BY <1>5, <3>2 DEF Verify, TypeOK
  <2>4. \A n \in Messages \ {m} : message'[n] = message[n]
    BY <1>5 DEF Verify, TypeOK
  <2> QED
    BY <2>1, <2>2, <2>3, <2>4 DEF TypeOK
<1>6. ASSUME NEW m \in Messages, Expire(m) PROVE Quiet'
  <2>1. UNCHANGED <<Setting, version, started, quiet>>
    BY <1>6 DEF Expire
  <2>2. (RolledOut' <=> RolledOut) /\ \A s : SignedWith(s)' = SignedWith(s)
    BY <1>3, <2>1
  <2>3. message'[m].outcome = "expired" /\ \A n \in Messages \ {m} : message'[n] = message[n]
    BY <1>6 DEF Expire, TypeOK
  <2> QED
    BY <2>1, <2>2, <2>3 DEF TypeOK
<1>7. CASE UNCHANGED vars
  BY <1>3, <1>7 DEF vars
<1> QED
  BY <1>1, <1>2, <1>4, <1>5, <1>6, <1>7 DEF Next

\* TypeOK of InternalAuth, in any deployment.
THEOREM TypeCorrect == Spec => []TypeOK
<1>1. Init => Typed
  BY InitInv DEF AuthInv
<1>2. Typed => TypeOK
  BY DEF Typed
<1> QED
  BY <1>1, <1>2, TypedStep, PTL DEF Spec

\* In every deployment, whatever is set where, a call signed and verified with no
\* roll-out under way is let through where its two ends agree, and no other is.
THEOREM SettingsAlwaysDecide == Spec => []SettingsDecide
<1>1. AuthInv /\ [Next]_vars => AuthInv'
  BY TypedStep, QuietStep DEF AuthInv
<1>2. AuthInv => SettingsDecide
  BY DEF AuthInv, Quiet, SettingsDecide
<1> QED
  BY InitInv, <1>1, <1>2, PTL DEF Spec
=============================================================================
