---------------------------- MODULE DeadLetters ----------------------------
(***************************************************************************)
(* What dlqctl can be held to, whatever sessions run at once: a copy       *)
(* leaves a dead-letter queue for the main queue while it has died less    *)
(* than Threshold times and for the poison queue after that, its body and  *)
(* its count of deaths kept, or for good, to an inspection; and it is      *)
(* doubled at most by a session that dies before the broker knows, one     *)
(* copy each.  Whether an inspection shows anything is no part of it.      *)
(*                                                                         *)
(* Queues are bags: which sessions there are, what they have been          *)
(* delivered and in which order is no part of the promise.  A message      *)
(* stays within its family's queues.                                       *)
(***************************************************************************)
EXTENDS Naturals

CONSTANTS Messages, Parked, Threshold, MaxDeaths

VARIABLES main, dlq, poison,    \* how often a copy is in its family's queue
          moved,                \* copies out of the dlq that it may yet get back
          processed, inspected, \* messages taken by a consumer, or by an inspection
          crashes

vars == <<main, dlq, poison, moved, processed, inspected, crashes>>

Copies == [id : Messages, deaths : 0..MaxDeaths]

Init ==
    /\ main = [c \in Copies |-> IF c.deaths = 0 /\ c.id \notin Parked THEN 1 ELSE 0]
    /\ dlq = [c \in Copies |-> IF c.deaths = 0 /\ c.id \in Parked THEN 1 ELSE 0]
    /\ poison = [c \in Copies |-> 0]
    /\ moved = [c \in Copies |-> 0]
    /\ processed = {}
    /\ inspected = {}
    /\ crashes = 0

Put(q, c) == q' = [q EXCEPT ![c] = @ + 1]
Take(q, c) == q[c] > 0 /\ q' = [q EXCEPT ![c] = @ - 1]

Consume(c) ==
    /\ Take(main, c)
    /\ processed' = processed \union {c.id}
    /\ UNCHANGED <<dlq, poison, moved, inspected, crashes>>

Reject(c) ==
    /\ c.deaths < MaxDeaths
    /\ Take(main, c)
    /\ Put(dlq, [c EXCEPT !.deaths = @ + 1])
    /\ UNCHANGED <<poison, moved, processed, inspected, crashes>>

Replay(c) ==
    /\ c.deaths < Threshold
    /\ Take(dlq, c)
    /\ Put(main, c)
    /\ Put(moved, c)
    /\ UNCHANGED <<poison, processed, inspected, crashes>>

Quarantine(c) ==
    /\ c.deaths >= Threshold
    /\ Take(dlq, c)
    /\ Put(poison, c)
    /\ Put(moved, c)
    /\ UNCHANGED <<main, processed, inspected, crashes>>

\* analyze, peek and a dry run over a message at the threshold.
Inspect(c) ==
    /\ Take(dlq, c)
    /\ Put(moved, c) \/ UNCHANGED moved
    /\ inspected' = inspected \union {c.id}
    /\ UNCHANGED <<main, poison, processed, crashes>>

\* The broker knows that the copy is dealt with.
Settle(c) ==
    /\ Take(moved, c)
    /\ UNCHANGED <<main, dlq, poison, processed, inspected, crashes>>

\* A session dies, and the broker has the copy it was at back.
Crash ==
    /\ crashes' = crashes + 1
    /\ \/ \E c \in Copies : Take(moved, c) /\ Put(dlq, c)
       \/ UNCHANGED <<dlq, moved>>
    /\ UNCHANGED <<main, poison, processed, inspected>>

Next ==
    \/ \E c \in Copies :
          Consume(c) \/ Reject(c) \/ Replay(c) \/ Quarantine(c) \/ Inspect(c) \/ Settle(c)
    \/ Crash

Spec == Init /\ [][Next]_vars
=============================================================================
