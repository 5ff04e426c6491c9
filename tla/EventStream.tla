---------------------------- MODULE EventStream ----------------------------
(***************************************************************************)
(* A subscriber of the bounded broadcast channel, next to the lifecycle    *)
(* whose events it follows.  The channel is Tokio's: it keeps the latest   *)
(* Capacity events, and a receiver that has fallen behind further gets one *)
(* Lagged and goes on with the oldest event that is left.                  *)
(*                                                                         *)
(* The subscriber keeps a belief about the connection, as README 57-68 and *)
(* chat.rs do: up after a Connect, down after a Disconnect or before the   *)
(* first event, unknown after a Lagged.                                    *)
(***************************************************************************)
EXTENDS Lifecycle, Sequences

CONSTANTS
  Capacity,   \* events retained: event_capacity, rounded up by Tokio
  MaxOthers   \* bound: the events of sessions

ASSUME EventStreamAssumption == Capacity \in Nat \ {0} /\ MaxOthers \in Nat

VARIABLES
  ring,      \* the kinds of the events retained
  sent,      \* events ever sent
  received,  \* events the subscriber has received or been told it lost
  belief,    \* "up", "down", "unknown"
  others,    \* the events of sessions: Message, SendAck, CustomEvent and Error
  owed       \* supervise() has yet to emit the Error of a loss or a failed dial

streamVars == <<ring, sent, received, belief, others, owed>>
allVars == <<vars, streamVars>>

StreamInit ==
  /\ Init
  /\ ring = <<>>
  /\ sent = 0
  /\ received = 0
  /\ belief = "down"
  /\ others = 0
  /\ owed = FALSE

\* broadcast::Sender::send()
Broadcast(kind) ==
  /\ sent' = sent + 1
  /\ ring' = Append(IF Len(ring) < Capacity THEN ring ELSE Tail(ring), kind)
  /\ UNCHANGED <<received, belief>>

\* A loss that supervise() goes on after, and every failed dial, has an Error too.
OwesError ==
  \E r \in Runs :
    \/ run[r].phase = "drained" /\ run'[r].phase = "retry"
    \/ run[r].phase = "dialing" /\ run'[r].phase \in {"retry", "ending"}

\* A step of the lifecycle, with the event that it emits.
Follows ==
  /\ IF lastEvent' = lastEvent THEN UNCHANGED <<ring, sent, received, belief>>
     ELSE Broadcast(lastEvent'.kind)
  /\ owed' = (owed \/ OwesError)
  /\ UNCHANGED others

\* A worker goes on once it has emitted the Error it owes.
WorkerFollows(r) == ~owed /\ WorkerStep(r) /\ Follows

SessionEndFollows(r) == ~owed /\ SessionEnds(r) /\ Follows

EmitError ==
  /\ owed
  /\ owed' = FALSE
  /\ Broadcast("other")
  /\ UNCHANGED <<vars, others>>

\* The session emits an event that is not about the connection.
EmitOther ==
  /\ \E r \in Runs : run[r].phase = "online"
  /\ others < MaxOthers
  /\ others' = others + 1
  /\ Broadcast("other")
  /\ UNCHANGED <<vars, owed>>

Behind == sent - received

Believes(kind) ==
  CASE kind = "Connect" -> "up"
    [] kind \in {"Manual", "Transport", "HeartbeatTimeout", "Server"} -> "down"
    [] OTHER -> belief

Lagged ==
  /\ Behind > Len(ring)
  /\ received' = sent - Len(ring)
  /\ belief' = "unknown"
  /\ UNCHANGED <<vars, ring, sent, others, owed>>

Receive ==
  /\ Behind > 0 /\ Behind <= Len(ring)
  /\ received' = received + 1
  /\ belief' = Believes(ring[Len(ring) - Behind + 1])
  /\ UNCHANGED <<vars, ring, sent, others, owed>>
===============================================================================
