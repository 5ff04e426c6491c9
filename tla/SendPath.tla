------------------------------- MODULE SendPath -------------------------------
(***************************************************************************)
(* One send() call after another, from many tasks, through the admission   *)
(* semaphore, the command queue and the session of the worker, while       *)
(* sessions are lost, re-established, disconnected and connected again.    *)
(*                                                                         *)
(* A call is a member of Sends and is made once.  A step is one access to  *)
(* state another thread can see: the atomics, the semaphore, the mutex,    *)
(* the queue, a reply channel.  The worker is Lifecycle's, cut down to     *)
(* what a send can notice; both implement Connection.                      *)
(***************************************************************************)
EXTENDS Naturals, Sequences, FiniteSets, Functions

CONSTANTS
  Sends,        \* the calls of send()
  MaxInFlight,  \* options.max_in_flight
  MaxSessions   \* bound: sessions ever authenticated

ASSUME SendPathAssumption ==
  /\ IsFiniteSet(Sends)
  /\ MaxInFlight \in Nat \ {0}
  /\ MaxSessions \in Nat

VARIABLES
  destroyed,   \* Inner.destroyed
  connected,   \* Inner.connected
  generation,  \* Inner.generation
  slots,       \* permits left in Inner.slots
  teardown,    \* disconnect() holds the mutex and waits for the worker
  phase,       \* where the worker is
  cancel,      \* its token: "no", "racing" with the poll in progress, "set"
  queue,       \* Running.commands
  pending,     \* session()'s pending map
  releasing,   \* replied or dropped by the worker, its permit not yet dropped
  wire,        \* requests the peer of this session has and may answer
  pc,          \* where each call is, at the end how it returned
  admitted,    \* the generation the call loaded
  expired,     \* the call's deadline is over
  reply,       \* what the reply channel holds
  sent         \* the sessions on which the request was written

callVars == <<pc, admitted, expired, sent>>
workerVars == <<phase, cancel>>
queueVars == <<queue, pending, releasing, wire>>
sharedVars == <<destroyed, connected, generation, teardown>>
vars == <<callVars, workerVars, queueVars, sharedVars, slots, reply>>

\* A dial before the first session of a run, or after a sleep for a lost one.
Dialing == {"dialing", "redialing"}
Awaiting == Dialing \cup {"asleep", "select", "writing"}
\* "none": no run in the mutex; "over": a finished one.
Phases == Awaiting \cup
          {"none", "over", "fresh", "top", "lost", "draining", "ending", "closing"}

\* The ways send() returns: an error before the command was queued, an error
\* that leaves acceptance unknown, the server's answer; or its future is dropped.
Returned == {"refused", "unknown", "answered", "dropped"}
HasReturned(s) == pc[s] \in Returned

HoldsLock(s) == pc[s] = "enqueue"
LockFree == ~teardown /\ \A s \in Sends : ~HoldsLock(s)

Queued == Range(queue)

Init ==
  /\ destroyed = FALSE
  /\ connected = FALSE
  /\ generation = 0
  /\ slots = MaxInFlight
  /\ teardown = FALSE
  /\ phase = "none"
  /\ cancel = "no"
  /\ queue = <<>>
  /\ pending = {}
  /\ releasing = {}
  /\ wire = {}
  /\ pc = [s \in Sends |-> "start"]
  /\ admitted = [s \in Sends |-> 0]
  /\ expired = [s \in Sends |-> FALSE]
  /\ reply = [s \in Sends |-> "none"]
  /\ sent = [s \in Sends |-> <<>>]

-----------------------------------------------------------------------------
(* send() *)

Goto(s, from, to) == pc[s] = from /\ pc' = [pc EXCEPT ![s] = to]

\* The first look at destroyed and connected.
SendChecks(s) ==
  /\ Goto(s, "start", IF ~destroyed /\ connected THEN "load" ELSE "refused")
  /\ UNCHANGED <<admitted, expired, sent, workerVars, queueVars, sharedVars,
                 slots, reply>>

SendLoadsGeneration(s) ==
  /\ Goto(s, "load", "acquire")
  /\ admitted' = [admitted EXCEPT ![s] = generation]
  /\ UNCHANGED <<expired, sent, workerVars, queueVars, sharedVars, slots, reply>>

\* try_acquire_owned(): a permit, or Backpressure at once.
SendAcquires(s) ==
  /\ IF slots > 0
     THEN Goto(s, "acquire", "lock") /\ slots' = slots - 1
     ELSE Goto(s, "acquire", "refused") /\ UNCHANGED slots
  /\ UNCHANGED <<admitted, expired, sent, workerVars, queueVars, sharedVars, reply>>

\* An early return drops the permit.
GivesUp(s, from, how) == Goto(s, from, how) /\ slots' = slots + 1

\* Payload or size is not acceptable.
SendInvalid(s) ==
  /\ GivesUp(s, "lock", "refused")
  /\ UNCHANGED <<admitted, expired, sent, workerVars, queueVars, sharedVars, reply>>

\* running.lock().await, the second look at connected, running.as_ref().
SendLocks(s) ==
  /\ LockFree
  /\ IF connected /\ phase # "none"
     THEN Goto(s, "lock", "enqueue") /\ UNCHANGED slots
     ELSE GivesUp(s, "lock", "refused")
  /\ UNCHANGED <<admitted, expired, sent, workerVars, queueVars, sharedVars, reply>>

\* commands.try_send(): the receiver may be closed or gone by now.
SendEnqueues(s) ==
  /\ \/ /\ phase \in {"closing", "over"}
        /\ GivesUp(s, "enqueue", "unknown")
        /\ UNCHANGED queue
     \/ /\ phase \notin {"closing", "over"}
        /\ Len(queue) >= MaxInFlight
        /\ GivesUp(s, "enqueue", "refused")
        /\ UNCHANGED queue
     \/ /\ phase \notin {"closing", "over"}
        /\ Len(queue) < MaxInFlight
        /\ Goto(s, "enqueue", "wait")
        /\ queue' = Append(queue, s)
        /\ UNCHANGED slots
  /\ UNCHANGED <<admitted, expired, sent, workerVars, pending, releasing, wire,
                 sharedVars, reply>>

\* A bug: a dropped reply is reported as NotConnected.
SendReturnsRefused(s) ==
  /\ reply[s] # "none"
  /\ Goto(s, "wait", IF reply[s] = "Response" THEN "answered" ELSE "refused")
  /\ UNCHANGED <<admitted, expired, sent, workerVars, queueVars, sharedVars,
                 slots, reply>>

\* The reply arrives, or its sender was dropped.
SendReturns(s) ==
  /\ reply[s] # "none"
  /\ Goto(s, "wait", IF reply[s] = "Response" THEN "answered" ELSE "unknown")
  /\ UNCHANGED <<admitted, expired, sent, workerVars, queueVars, sharedVars,
                 slots, reply>>

\* timeout_at(): the receiver is polled first, the deadline then, and a reply
\* sent in between is lost.
SendTimesOut(s) ==
  /\ expired[s]
  /\ Goto(s, "wait", "unknown")
  /\ UNCHANGED <<admitted, expired, sent, workerVars, queueVars, sharedVars,
                 slots, reply>>

\* A bug: the permit stays with the future and not with its command.
SendDroppedEarly(s) ==
  /\ GivesUp(s, "lock", "dropped") \/ GivesUp(s, "wait", "dropped")
  /\ UNCHANGED <<admitted, expired, sent, workerVars, queueVars, sharedVars, reply>>

\* The application drops the future at one of its two awaits.
SendDropped(s) ==
  /\ \/ GivesUp(s, "lock", "dropped")
     \/ Goto(s, "wait", "dropped") /\ UNCHANGED slots
  /\ UNCHANGED <<admitted, expired, sent, workerVars, queueVars, sharedVars, reply>>

\* Time passes the deadline of an admitted call.
Expire(s) ==
  /\ ~expired[s]
  /\ pc[s] \in {"lock", "enqueue", "wait"} \/ s \in Queued \cup pending \cup wire
  /\ expired' = [expired EXCEPT ![s] = TRUE]
  /\ UNCHANGED <<pc, admitted, sent, workerVars, queueVars, sharedVars, slots,
                 reply>>

-----------------------------------------------------------------------------
(* connect(), disconnect() and destroy() *)

Connect ==
  /\ LockFree
  /\ ~destroyed
  /\ phase \in {"none", "over"}
  /\ phase' = "dialing"
  /\ cancel' = "no"
  /\ UNCHANGED <<callVars, queueVars, sharedVars, slots, reply>>

Destroy ==
  /\ ~destroyed
  /\ destroyed' = TRUE
  /\ UNCHANGED <<callVars, workerVars, queueVars, connected, generation, teardown,
                 slots, reply>>

\* A bug: the worker is joined but not cancelled.
DisconnectOnlyJoins ==
  /\ LockFree
  /\ phase # "none"
  /\ teardown' = TRUE
  /\ UNCHANGED <<callVars, workerVars, queueVars, destroyed, connected, generation,
                 slots, reply>>

Disconnect ==
  /\ LockFree
  /\ phase # "none"
  /\ teardown' = TRUE
  /\ cancel' = IF cancel = "no" THEN "racing" ELSE cancel
  /\ UNCHANGED <<callVars, phase, queueVars, destroyed, connected, generation,
                 slots, reply>>

\* The worker is joined and forgotten, and the mutex released.
DisconnectJoined ==
  /\ teardown
  /\ phase = "over"
  /\ phase' = "none"
  /\ cancel' = "no"
  /\ teardown' = FALSE
  /\ UNCHANGED <<callVars, queueVars, destroyed, connected, generation,
                 slots, reply>>

\* The future of disconnect() is dropped while it waits.
DisconnectDropped ==
  /\ teardown
  /\ teardown' = FALSE
  /\ UNCHANGED <<callVars, workerVars, queueVars, destroyed, connected, generation,
                 slots, reply>>

-----------------------------------------------------------------------------
(* The worker *)

Phase(from, to) == phase \in from /\ phase' = to

\* The poll that began before the cancellation ends.
CancelLands ==
  /\ cancel = "racing"
  /\ cancel' = "set"
  /\ UNCHANGED <<callVars, phase, queueVars, sharedVars, slots, reply>>

\* A reply to a call that is not waiting any more goes nowhere.
RepliesTo(S, what) ==
  reply' = [s \in Sends |-> IF s \in S /\ pc[s] = "wait" THEN what ELSE reply[s]]

\* A Command or Pending that was replied to goes out of scope, with its permit.
Release ==
  /\ \E s \in releasing :
       /\ releasing' = releasing \ {s}
       /\ slots' = slots + 1
  /\ UNCHANGED <<callVars, workerVars, queue, pending, wire, sharedVars, reply>>

\* A bug: the permits of a lost session are forgotten.
DropsSessionLeaks ==
  /\ RepliesTo(pending, "Error")
  /\ pending' = {}
  /\ wire' = {}
  /\ UNCHANGED <<queue, releasing, slots>>

\* A bug: pending outlives its session.
DropsSocketOnly == wire' = {} /\ UNCHANGED <<queue, pending, releasing, slots, reply>>

\* session() returns or is dropped: its pending map goes, and the socket.
DropsSession ==
  /\ RepliesTo(pending, "Error")
  /\ releasing' = pending
  /\ pending' = {}
  /\ wire' = {}
  /\ UNCHANGED <<queue, slots>>

CancelObserved ==
  /\ cancel = "set"
  /\ Phase(Awaiting, "ending")
  /\ DropsSession
  /\ UNCHANGED <<callVars, cancel, sharedVars>>

\* A bug: the generation is the same for all sessions after the first.
DialOkSameGeneration ==
  /\ cancel # "set"
  /\ generation < MaxSessions
  /\ Phase(Dialing, "fresh")
  /\ generation' = 1
  /\ UNCHANGED <<callVars, cancel, queueVars, destroyed, connected, teardown, slots,
                 reply>>

DialOk ==
  /\ cancel # "set"
  /\ generation < MaxSessions
  /\ Phase(Dialing, "fresh")
  /\ generation' = generation + 1
  /\ UNCHANGED <<callVars, cancel, queueVars, destroyed, connected, teardown, slots,
                 reply>>

\* A first dial that fails, a rejection, or no attempt left.
DialGivesUp ==
  /\ cancel # "set"
  /\ Phase(Dialing, "ending")
  /\ UNCHANGED <<callVars, cancel, queueVars, sharedVars, slots, reply>>

\* One more attempt; Lifecycle counts them.
DialFails ==
  /\ cancel # "set"
  /\ Phase({"redialing"}, "asleep")
  /\ UNCHANGED <<callVars, cancel, queueVars, sharedVars, slots, reply>>

SleepOver ==
  /\ cancel # "set"
  /\ Phase({"asleep"}, "redialing")
  /\ UNCHANGED <<callVars, cancel, queueVars, sharedVars, slots, reply>>

SetConnected ==
  /\ Phase({"fresh"}, "top")
  /\ connected' = TRUE
  /\ UNCHANGED <<callVars, cancel, queueVars, destroyed, generation, teardown, slots,
                 reply>>

\* A bug: the deadline fails only those that still wait, and nobody else is
\* forgotten.
ReapWaiting ==
  LET late == {s \in pending : ~HasReturned(s) /\ expired[s]} IN
  /\ Phase({"top"}, "select")
  /\ pending' = pending \ late
  /\ releasing' = late
  /\ RepliesTo(late, "Error")
  /\ UNCHANGED <<callVars, cancel, queue, wire, sharedVars, slots>>

\* The top of session()'s loop: forget the calls nobody waits for, fail the
\* expired ones.
Reap ==
  LET closed == {s \in pending : HasReturned(s)}
      late == {s \in pending \ closed : expired[s]}
  IN
  /\ Phase({"top"}, "select")
  /\ pending' = pending \ (closed \cup late)
  /\ releasing' = closed \cup late
  /\ RepliesTo(late, "Error")
  /\ UNCHANGED <<callVars, cancel, queue, wire, sharedVars, slots>>

\* The timer is set to the first deadline in pending (or the heartbeat).
TimerFires ==
  /\ cancel # "set"
  /\ \E s \in pending : expired[s]
  /\ Phase({"select"}, "top")
  /\ UNCHANGED <<callVars, cancel, queueVars, sharedVars, slots, reply>>

Takes(s) ==
  /\ cancel # "set"
  /\ phase = "select"
  /\ queue # <<>>
  /\ s = Head(queue)
  /\ queue' = Tail(queue)

\* A bug: the generation of a command is not compared.
IsCurrentUnfenced(s) == ~HasReturned(s) /\ ~expired[s]

\* Still waited for, of this session, and in time.
IsCurrent(s) == ~HasReturned(s) /\ admitted[s] = generation /\ ~expired[s]

WritesCommand(s) ==
  /\ Takes(s)
  /\ IsCurrent(s)
  /\ pending' = pending \cup {s}
  /\ sent' = [sent EXCEPT ![s] = Append(@, generation)]
  /\ phase' = "writing"
  /\ UNCHANGED <<pc, admitted, expired, cancel, releasing, wire, sharedVars, slots,
                 reply>>

\* A bug: a rejected command gives its permit back by hand, too.
RejectsCommandTwice(s) ==
  /\ Takes(s)
  /\ ~IsCurrent(s)
  /\ RepliesTo({s}, "Error")
  /\ releasing' = {s}
  /\ slots' = slots + 1
  /\ phase' = "top"
  /\ UNCHANGED <<callVars, cancel, pending, wire, sharedVars>>

RejectsCommand(s) ==
  /\ Takes(s)
  /\ ~IsCurrent(s)
  /\ RepliesTo({s}, "Error")
  /\ releasing' = {s}
  /\ phase' = "top"
  /\ UNCHANGED <<callVars, cancel, pending, wire, sharedVars, slots>>

\* Everything in pending has been written now.
WriteDone ==
  /\ cancel # "set"
  /\ Phase({"writing"}, "top")
  /\ wire' = wire \cup pending
  /\ UNCHANGED <<callVars, cancel, queue, pending, releasing, sharedVars, slots,
                 reply>>

\* The answer to a request; nobody may wait for it any more.
Response(s) ==
  /\ cancel # "set"
  /\ s \in wire
  /\ wire' = wire \ {s}
  /\ IF s \in pending
     THEN /\ pending' = pending \ {s}
          /\ releasing' = {s}
          /\ RepliesTo({s}, "Response")
     ELSE UNCHANGED <<pending, releasing, reply>>
  /\ Phase({"select"}, "top")
  /\ UNCHANGED <<callVars, cancel, queue, sharedVars, slots>>

\* A heartbeat, a push, a second answer to the same request.
OtherTraffic ==
  /\ cancel # "set"
  /\ Phase({"select"}, "top")
  /\ UNCHANGED <<callVars, cancel, queueVars, sharedVars, slots, reply>>

\* session() returns its reason.
SessionEnds ==
  /\ cancel # "set"
  /\ Phase({"select", "writing"}, "lost")
  /\ DropsSession
  /\ UNCHANGED <<callVars, cancel, sharedVars>>

ClearConnected ==
  /\ Phase({"lost"}, "draining")
  /\ connected' = FALSE
  /\ UNCHANGED <<callVars, cancel, queueVars, destroyed, generation, teardown, slots,
                 reply>>

FailsHead ==
  /\ queue # <<>>
  /\ RepliesTo({Head(queue)}, "Error")
  /\ releasing' = {Head(queue)}
  /\ queue' = Tail(queue)
  /\ UNCHANGED <<callVars, workerVars, pending, wire, sharedVars, slots>>

Drain == phase = "draining" /\ FailsHead

\* Sleep and dial again, or the server closed the session for good or no retry is
\* left.
Drained ==
  /\ queue = <<>>
  /\ \/ Phase({"draining"}, "asleep")
     \/ Phase({"draining"}, "ending")
  /\ UNCHANGED <<callVars, cancel, queueVars, sharedVars, slots, reply>>

\* The end of run(): connected, then commands.close().
EndClears ==
  /\ Phase({"ending"}, "closing")
  /\ connected' = FALSE
  /\ UNCHANGED <<callVars, cancel, queueVars, destroyed, generation, teardown, slots,
                 reply>>

CloseDrains == phase = "closing" /\ FailsHead

Finish ==
  /\ queue = <<>>
  /\ Phase({"closing"}, "over")
  /\ UNCHANGED <<callVars, cancel, queueVars, sharedVars, slots, reply>>

-----------------------------------------------------------------------------
SendStep(s) ==
  \/ SendLoadsGeneration(s) \/ SendAcquires(s) \/ SendEnqueues(s)
  \/ SendReturns(s) \/ SendTimesOut(s)

Call(s) ==
  \/ SendChecks(s) \/ SendStep(s) \/ SendLocks(s) \/ SendInvalid(s)
  \/ SendDropped(s) \/ Expire(s)

Control == Connect \/ Destroy \/ Disconnect \/ DisconnectJoined \/ DisconnectDropped

TakesCommand(s) == WritesCommand(s) \/ RejectsCommand(s)

\* What the worker does by itself as soon as it is polled, ...
Prompt ==
  \/ CancelObserved \/ SetConnected \/ Reap \/ TimerFires
  \/ ClearConnected \/ Drain \/ Drained \/ EndClears \/ CloseDrains \/ Finish

\* ... what it does when a sleep, a dial or a write is over, ...
DialEnds == DialOk \/ DialGivesUp \/ DialFails
DelayEnds == SleepOver \/ DialEnds \/ WriteDone

\* ... and what the peer makes it do.
Peer == OtherTraffic \/ SessionEnds \/ \E s \in Sends : Response(s)

\* What was replied to goes out of scope before the worker goes on.
WorkerStep ==
  \/ Release
  \/ releasing = {} /\ (Prompt \/ DelayEnds \/ \E s \in Sends : TakesCommand(s))

Next ==
  \/ \E s \in Sends : Call(s)
  \/ Control
  \/ CancelLands
  \/ WorkerStep
  \/ releasing = {} /\ Peer

Spec == Init /\ [][Next]_vars

(***************************************************************************)
(* The worker is polled when it can go on.  Which ready branch of the      *)
(* session's select is taken is random, so a command that is ready again   *)
(* and again is taken.  Callers that are not dropped are polled, the mutex *)
(* is FIFO.  Nothing is assumed of the peer, nor that any time passes.     *)
(***************************************************************************)
Fairness ==
  /\ WF_vars(Release \/ (releasing = {} /\ Prompt))
  /\ WF_vars(CancelLands)
  /\ SF_vars(releasing = {} /\ \E s \in Sends : TakesCommand(s))
  /\ WF_vars(DisconnectJoined)
  /\ \A s \in Sends : WF_vars(SendStep(s)) /\ SF_vars(SendLocks(s))

FairSpec == Spec /\ Fairness

\* What some properties need besides: sleeps, dials and writes come to an end
\* (reconnect_delay(), connect_timeout, write_timeout), and so do the attempts
\* (max_reconnect_attempts); and the deadlines of the calls pass.
DelaysEnd ==
  /\ WF_vars(releasing = {} /\ DelayEnds)
  /\ SF_vars(releasing = {} /\ (DialOk \/ DialGivesUp))

TimePasses == DelaysEnd /\ \A s \in Sends : WF_vars(Expire(s))

-----------------------------------------------------------------------------
(* Properties *)

TypeOK ==
  /\ destroyed \in BOOLEAN
  /\ connected \in BOOLEAN
  /\ generation \in 0..MaxSessions
  /\ slots \in 0..MaxInFlight
  /\ teardown \in BOOLEAN
  /\ phase \in Phases
  /\ cancel \in {"no", "racing", "set"}
  /\ queue \in Seq(Sends)
  /\ pending \subseteq Sends
  /\ releasing \subseteq Sends
  /\ wire \subseteq Sends
  /\ pc \in [Sends -> {"start", "load", "acquire", "lock", "enqueue", "wait"}
                       \cup Returned]
  /\ admitted \in [Sends -> 0..MaxSessions]
  /\ expired \in [Sends -> BOOLEAN]
  /\ reply \in [Sends -> {"none", "Response", "Error"}]
  /\ sent \in [Sends -> Seq(1..MaxSessions)]

(***************************************************************************)
(* Every permit is in exactly one place: with the call, with its command   *)
(* in the queue, with its pending request, or on its way back.  No early   *)
(* return, drain, timeout or lost session leaks one or returns it twice,   *)
(* so max_in_flight stays what it is over any number of sessions.          *)
(***************************************************************************)
InCall == {s \in Sends : pc[s] \in {"lock", "enqueue"}}
Holders == InCall \cup Queued \cup pending \cup releasing
PermitsConserved == slots + Cardinality(Holders) = MaxInFlight

(***************************************************************************)
(* The queue has room for whoever has a permit, so try_send() is never     *)
(* Full and an admitted send is never refused for lack of room.            *)
(***************************************************************************)
QueueHasRoom ==
  \A s \in Sends : pc[s] = "enqueue" => Len(queue) < MaxInFlight

(***************************************************************************)
(* A request is written at most once, on the session that was connected    *)
(* when the call was admitted: never replayed, and never carried over to   *)
(* a later session by the queue (the generation check of session()).       *)
(***************************************************************************)
NeverReplayed == \A s \in Sends : sent[s] \in {<<>>, <<admitted[s]>>}

(***************************************************************************)
(* What send() returns can be relied on: an error it may be retried after  *)
(* (NotConnected, Backpressure, InvalidInput, Destroyed) means that the    *)
(* request was not written and never will be; an answer is the answer to   *)
(* the request, on its session.                                            *)
(***************************************************************************)
HonestOutcome ==
  \A s \in Sends :
    /\ pc[s] = "refused" => sent[s] = <<>> /\ s \notin Holders
    /\ pc[s] = "answered" => sent[s] = <<admitted[s]>>

(***************************************************************************)
(* Nobody waits for a reply that cannot come: a waiting call that has no   *)
(* reply yet has its command in the queue of a live worker or its request  *)
(* in pending; and pending belongs to the session that is open.            *)
(***************************************************************************)
NoOrphan ==
  /\ \A s \in Sends : pc[s] = "wait" /\ reply[s] = "none" => s \in Queued \cup pending
  /\ phase \in {"none", "over"} => queue = <<>>
  /\ pending # {} => phase \in {"top", "select", "writing"}

(***************************************************************************)
(* As time passes, send() returns: its deadline covers the queue and the   *)
(* response, and the mutex it waits for before is released.                *)
(***************************************************************************)
SendsReturn == TimePasses => \A s \in Sends : pc[s] = "load" ~> HasReturned(s)

(***************************************************************************)
(* So does every permit, whatever became of the call: answered, timed out, *)
(* or dropped while its command was queued or its request pending.         *)
(***************************************************************************)
PermitsReturn == TimePasses => \A s \in Sends : s \in Holders ~> s \notin Holders

(***************************************************************************)
(* A send that waits when its session ends, or its worker, fails at once:  *)
(* before the worker sleeps, and before any deadline.  One that waits when *)
(* the connection is down, also if its command came after the drain, fails *)
(* when the sleeps and dials of the outage are over, without waiting for   *)
(* its deadline or for an answer.                                          *)
(***************************************************************************)
DisconnectedSendsFail ==
  /\ \A s \in Sends :
       pc[s] = "wait" /\ phase \in {"lost", "draining", "ending", "closing"}
         ~> pc[s] # "wait"
  /\ DelaysEnd => \A s \in Sends : pc[s] = "wait" /\ ~connected ~> pc[s] # "wait"

(***************************************************************************)
(* The worker that sends talk to keeps what Connection promises.           *)
(***************************************************************************)
C == INSTANCE Connection WITH
       live <- phase \notin {"none", "over"},
       fresh <- phase = "fresh"
ImplementsConnection == C!Spec

(***************************************************************************)
(* What the doc comment of send() says: "SEND is never queued while        *)
(* disconnected".  While the worker sleeps or dials, nothing is in its     *)
(* queue.                                                                  *)
(***************************************************************************)
NeverQueuedWhileDisconnected == phase \in {"asleep"} \cup Dialing => queue = <<>>
===============================================================================
