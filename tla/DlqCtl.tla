------------------------------- MODULE DlqCtl -------------------------------
(***************************************************************************)
(* tools/dlqctl/dlqctl.py: the operator's tool over RabbitMQ's dead-letter *)
(* queues, with its three commands analyze, peek and replay (the last also *)
(* with --dry-run), and the queues it works on.                            *)
(*                                                                         *)
(* A family, "shipments" say, is three queues: the one its consumer reads, *)
(* <family>.dlq, and <family>.poison.  The consumers are not in the        *)
(* repository: they take a message for good or reject it, and a rejected   *)
(* one goes to the .dlq with its x-death count one higher.                 *)
(*                                                                         *)
(* Sessions are runs of the tool, which may overlap.  The broker keeps a   *)
(* message it delivered until the acknowledgement, and requeues it when    *)
(* the connection closes without one; basic_get with auto_ack=True counts  *)
(* as acknowledged on delivery.                                            *)
(*                                                                         *)
(* analyze and peek receive that way and only then print what they have:   *)
(* json.dumps of the x-death header, whose 'time' pika decodes to a        *)
(* datetime, raises TypeError, and the session ends with the message gone  *)
(* and no line of output.  A copy without x-death (one put into the dlq by *)
(* hand) is printed.                                                       *)
(***************************************************************************)
EXTENDS Naturals, Sequences, SequencesExt, FiniteSets

CONSTANTS Messages,
          Families,
          Sessions,
          FamilyOf,     \* the family of a message
          Parked,       \* messages put straight into the dlq, without x-death
          DlqOrder,     \* the queues of the --dlq options, in order
          Commands,     \* the commands the operators use
          Limit,        \* --max of replay, --limit of peek
          Threshold,    \* --poison-threshold
          MaxDeaths,    \* bound: rejections of one message
          MaxCrashes    \* bound: sessions that die

ASSUME DlqCtlConstantsOK ==
    /\ IsFiniteSet(Messages)
    /\ FamilyOf \in [Messages -> Families]
    /\ Parked \subseteq Messages
    /\ DlqOrder \in Seq(Families)
    /\ Commands \subseteq {"analyze", "peek", "replay", "dryrun"}
    /\ {Limit, Threshold, MaxDeaths, MaxCrashes} \subseteq Nat

VARIABLES
    \* the broker
    main, dlq, poison,  \* the queues of a family
    unacked,            \* what a session has not acknowledged of a family's dlq, oldest first
    \* the consumers
    processed,          \* messages a consumer took for good
    inspected,          \* messages the broker forgot for a look at them
    \* the tool
    op,                 \* the command a session runs
    pc,                 \* where its loop is
    todo,               \* dlqs it still has to work on
    count,              \* messages it has processed in the current one
    crashes

queues == <<main, dlq, poison>>
tool == <<op, pc, todo, count>>
vars == <<queues, unacked, processed, inspected, tool, crashes>>

Copies == [id : Messages, deaths : 0..MaxDeaths]

\* analyze looks at one message of a queue, the others at up to Limit.
Quota(s) == IF op[s] = "analyze" THEN 1 ELSE Limit

TypeOK ==
    /\ main \in [Families -> Seq(Copies)]
    /\ dlq \in [Families -> Seq(Copies)]
    /\ poison \in [Families -> Seq(Copies)]
    /\ unacked \in [Sessions -> [Families -> Seq(Copies)]]
    /\ {processed, inspected} \subseteq SUBSET Messages
    /\ op \in [Sessions -> Commands \union {"idle"}]
    /\ pc \in [Sessions -> {"get", "print", "raise", "publish", "ack"}]
    /\ todo \in [Sessions -> Seq(Families)]
    /\ count \in [Sessions -> Nat]
    /\ \A s \in Sessions : count[s] <= Quota(s)
    /\ crashes \in 0..MaxCrashes

\* The first copies of those messages that are a family's.
Fresh(f, ms) == {[id |-> m, deaths |-> 0] : m \in {n \in ms : FamilyOf[n] = f}}

\* Every message has been published once, and waits for its consumer or parked.
Init ==
    /\ main = [f \in Families |-> SetToSeq(Fresh(f, Messages \ Parked))]
    /\ dlq = [f \in Families |-> SetToSeq(Fresh(f, Parked))]
    /\ poison = [f \in Families |-> <<>>]
    /\ unacked = [s \in Sessions |-> [f \in Families |-> <<>>]]
    /\ processed = {}
    /\ inspected = {}
    /\ op = [s \in Sessions |-> "idle"]
    /\ pc = [s \in Sessions |-> "get"]
    /\ todo = [s \in Sessions |-> <<>>]
    /\ count = [s \in Sessions |-> 0]
    /\ crashes = 0

-----------------------------------------------------------------------------
(* The consumers.                                                          *)

Consume(f) ==
    /\ main[f] # <<>>
    /\ processed' = processed \union {Head(main[f]).id}
    /\ main' = [main EXCEPT ![f] = Tail(@)]
    /\ UNCHANGED <<dlq, poison, unacked, inspected, tool, crashes>>

Reject(f) ==
    /\ main[f] # <<>>
    /\ LET c == Head(main[f])
       IN  /\ c.deaths < MaxDeaths
           /\ dlq' = [dlq EXCEPT ![f] = Append(@, [c EXCEPT !.deaths = @ + 1])]
    /\ main' = [main EXCEPT ![f] = Tail(@)]
    /\ UNCHANGED <<poison, unacked, processed, inspected, tool, crashes>>

-----------------------------------------------------------------------------
(* The tool's loops.                                                       *)

\* auto_ack: analyze and peek pass ack=False, which get() turns into
\* auto_ack=True (dlqctl.py:26).
AutoAck(s) == op[s] \in {"analyze", "peek"}

\* The queue a session is at, and the copy it got last.
Current(s) == Head(todo[s])
InHand(s) == Last(unacked[s][Current(s)])
Poisonous(s) == InHand(s).deaths >= Threshold

\* An operator runs a command; peek takes a single --dlq.
Start(s) ==
    /\ op[s] = "idle"
    /\ \E c \in Commands :
          /\ op' = [op EXCEPT ![s] = c]
          /\ IF c = "peek"
               THEN \E f \in Families : todo' = [todo EXCEPT ![s] = <<f>>]
               ELSE todo' = [todo EXCEPT ![s] = DlqOrder]
    /\ UNCHANGED <<queues, unacked, processed, inspected, pc, count, crashes>>

\* Mutant: one message more than the quota.
GetOneMore(s) ==
    /\ pc[s] = "get"
    /\ todo[s] # <<>>
    /\ count[s] <= Quota(s)
    /\ LET f == Current(s)
       IN  /\ dlq[f] # <<>>
           /\ dlq' = [dlq EXCEPT ![f] = Tail(@)]
           /\ unacked' = [unacked EXCEPT ![s][f] = Append(@, Head(dlq[f]))]
    /\ pc' = [pc EXCEPT ![s] = "publish"]
    /\ UNCHANGED <<main, poison, processed, inspected, op, todo, count, crashes>>

\* rmq.get(q): the broker hands over the oldest message of the dlq, and forgets
\* it if the session auto-acks.  Its headers settle what json.dumps will do.
Get(s) ==
    /\ pc[s] = "get"
    /\ todo[s] # <<>>
    /\ count[s] < Quota(s)
    /\ LET f == Current(s)
       IN  /\ dlq[f] # <<>>
           /\ dlq' = [dlq EXCEPT ![f] = Tail(@)]
           /\ IF AutoAck(s)
                THEN /\ inspected' = inspected \union {Head(dlq[f]).id}
                     /\ pc' = [pc EXCEPT ![s] = IF Head(dlq[f]).deaths > 0 THEN "raise" ELSE "print"]
                     /\ UNCHANGED unacked
                ELSE /\ unacked' = [unacked EXCEPT ![s][f] = Append(@, Head(dlq[f]))]
                     /\ pc' = [pc EXCEPT ![s] = "publish"]
                     /\ UNCHANGED inspected
    /\ UNCHANGED <<main, poison, processed, op, todo, count, crashes>>

\* The line of output of analyze or peek.
Echo(s) ==
    /\ pc[s] = "print"
    /\ pc' = [pc EXCEPT ![s] = "get"]
    /\ count' = [count EXCEPT ![s] = @ + 1]
    /\ UNCHANGED <<queues, unacked, processed, inspected, op, todo, crashes>>

\* Mutant: an empty queue is tried again.
SameQueue(s) ==
    /\ pc[s] = "get"
    /\ todo[s] # <<>>
    /\ count[s] >= Quota(s) \/ dlq[Current(s)] = <<>>
    /\ count' = [count EXCEPT ![s] = 0]
    /\ UNCHANGED <<queues, unacked, processed, inspected, op, pc, todo, crashes>>

\* The queue is empty or the quota is used up: on to the next one.
NextQueue(s) ==
    /\ pc[s] = "get"
    /\ todo[s] # <<>>
    /\ count[s] >= Quota(s) \/ dlq[Current(s)] = <<>>
    /\ todo' = [todo EXCEPT ![s] = Tail(@)]
    /\ count' = [count EXCEPT ![s] = 0]
    /\ UNCHANGED <<queues, unacked, processed, inspected, op, pc, crashes>>

\* The message has died too often: to the poison queue, before the ack.
Quarantine(s) ==
    /\ pc[s] = "publish"
    /\ op[s] = "replay"
    /\ Poisonous(s)
    /\ poison' = [poison EXCEPT ![Current(s)] = Append(@, InHand(s))]
    /\ pc' = [pc EXCEPT ![s] = "ack"]
    /\ UNCHANGED <<main, dlq, unacked, processed, inspected, op, todo, count, crashes>>

\* Mutant: a replayed message is not acknowledged.
ReplayUnacked(s) ==
    /\ pc[s] = "publish"
    /\ op[s] = "replay"
    /\ ~Poisonous(s)
    /\ main' = [main EXCEPT ![Current(s)] = Append(@, InHand(s))]
    /\ pc' = [pc EXCEPT ![s] = "get"]
    /\ count' = [count EXCEPT ![s] = @ + 1]
    /\ UNCHANGED <<dlq, poison, unacked, processed, inspected, op, todo, crashes>>

\* Back to the queue it came from, with its headers; its other properties, which
\* publish() does not keep, are not modelled.
Replay(s) ==
    /\ pc[s] = "publish"
    /\ op[s] = "replay"
    /\ ~Poisonous(s)
    /\ main' = [main EXCEPT ![Current(s)] = Append(@, InHand(s))]
    /\ pc' = [pc EXCEPT ![s] = "ack"]
    /\ UNCHANGED <<dlq, poison, unacked, processed, inspected, op, todo, count, crashes>>

\* Mutant: a dry run acknowledges everything it looks at.
DryRunAcks(s) ==
    /\ pc[s] = "publish"
    /\ op[s] = "dryrun"
    /\ pc' = [pc EXCEPT ![s] = "ack"]
    /\ UNCHANGED <<queues, unacked, processed, inspected, op, todo, count, crashes>>

\* --dry-run prints what it would do.  The ack of a poisonous message stands
\* outside the test of dry_run (dlqctl.py:99).
DryRun(s) ==
    /\ pc[s] = "publish"
    /\ op[s] = "dryrun"
    /\ IF Poisonous(s)
         THEN /\ inspected' = inspected \union {InHand(s).id}
              /\ pc' = [pc EXCEPT ![s] = "ack"]
              /\ UNCHANGED count
         ELSE /\ pc' = [pc EXCEPT ![s] = "get"]
              /\ count' = [count EXCEPT ![s] = @ + 1]
              /\ UNCHANGED inspected
    /\ UNCHANGED <<queues, unacked, processed, op, todo, crashes>>

\* basic_ack of the message in hand: the broker forgets it.
Ack(s) ==
    /\ pc[s] = "ack"
    /\ unacked' = [unacked EXCEPT ![s][Current(s)] = Front(@)]
    /\ count' = [count EXCEPT ![s] = @ + 1]
    /\ pc' = [pc EXCEPT ![s] = "get"]
    /\ UNCHANGED <<queues, processed, inspected, op, todo, crashes>>

-----------------------------------------------------------------------------
(* The end of a session, in good order or not.                             *)

\* The connection closes: what was not acknowledged is back at the head of
\* its queue, in its order.
Disconnect(s) ==
    /\ dlq' = [f \in Families |-> unacked[s][f] \o dlq[f]]
    /\ unacked' = [unacked EXCEPT ![s] = [f \in Families |-> <<>>]]
    /\ op' = [op EXCEPT ![s] = "idle"]
    /\ pc' = [pc EXCEPT ![s] = "get"]
    /\ todo' = [todo EXCEPT ![s] = <<>>]
    /\ count' = [count EXCEPT ![s] = 0]
    /\ UNCHANGED <<main, poison, processed, inspected>>

Exit(s) ==
    /\ op[s] # "idle"
    /\ todo[s] = <<>>
    /\ Disconnect(s)
    /\ UNCHANGED crashes

\* The TypeError of json.dumps ends the process, and with it the connection.
Raise(s) ==
    /\ pc[s] = "raise"
    /\ Disconnect(s)
    /\ UNCHANGED crashes

Die(s) ==
    /\ op[s] # "idle"
    /\ crashes < MaxCrashes
    /\ crashes' = crashes + 1
    /\ Disconnect(s)

-----------------------------------------------------------------------------

Work(s) ==
    \/ Get(s) \/ Echo(s) \/ Raise(s) \/ NextQueue(s)
    \/ Quarantine(s) \/ Replay(s) \/ DryRun(s) \/ Ack(s)
    \/ Exit(s)

Next ==
    \/ \E f \in Families : Consume(f) \/ Reject(f)
    \/ \E s \in Sessions : Start(s) \/ Work(s) \/ Die(s)

Spec == Init /\ [][Next]_vars

\* The tool runs once it is started; consumers and operators owe nothing.
FairSpec == Spec /\ \A s \in Sessions : WF_vars(Work(s))

-----------------------------------------------------------------------------
(* Properties.                                                             *)

\* The copies of m the broker answers for, in queues and on delivery.
Occurrences(q, m) == Cardinality({i \in DOMAIN q : q[i].id = m})
Queued(m) ==
    LET f == FamilyOf[m] IN Occurrences(main[f], m) + Occurrences(dlq[f], m) + Occurrences(poison[f], m)
Delivered(s, m) == Occurrences(unacked[s][FamilyOf[m]], m)

\* A message that no consumer has taken is somewhere: in a queue, or with a
\* session that will have it requeued.  This is what the runbook's "peek" and
\* "no mutations" take for granted, and what publish-before-ack is for.
NoMessageLost ==
    \A m \in Messages :
        \/ m \in processed
        \/ Queued(m) > 0
        \/ \E s \in Sessions : Delivered(s, m) > 0

\* What is missing went to analyze or peek, often without a line of output, or
\* to a dry run's quarantine: replay itself loses nothing, nor does a dry run
\* over messages below the threshold, whatever sessions run at once and die.
OnlyInspectedIsLost ==
    \A m \in Messages :
        \/ m \in processed \union inspected
        \/ Queued(m) > 0
        \/ \E s \in Sessions : Delivered(s, m) > 0

\* The tool keeps the promise of DeadLetters.  A delivery is still the dlq's,
\* except the one in hand that is about to be acknowledged.
Positions(q, c) == {i \in DOMAIN q : q[i] = c}
Times(q, c) == Cardinality(Positions(q, c))
AsBag(queue) == [c \in Copies |-> Times(queue[FamilyOf[c.id]], c)]
Undecided(s, f) ==
    IF pc[s] = "ack" /\ f = Current(s) THEN Front(unacked[s][f]) ELSE unacked[s][f]
Held(c) == UNION {{s} \X Positions(Undecided(s, FamilyOf[c.id]), c) : s \in Sessions}
Moving(c) == {s \in Sessions : pc[s] = "ack" /\ InHand(s) = c}

DlqBag == [c \in Copies |-> Times(dlq[FamilyOf[c.id]], c) + Cardinality(Held(c))]
MovedBag == [c \in Copies |-> Cardinality(Moving(c))]

Promise == INSTANCE DeadLetters WITH
    main <- AsBag(main),
    poison <- AsBag(poison),
    dlq <- DlqBag,
    moved <- MovedBag

KeepsReplayPromise == Promise!Spec

\* A session ends, although consumers may refill the queue it empties.
SessionsEnd ==
    \A s \in Sessions : op[s] # "idle" ~> op[s] = "idle"
=============================================================================
