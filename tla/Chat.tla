-------------------------------- MODULE Chat --------------------------------
(***************************************************************************)
(* examples/chat.rs, the integration the documentation points to, on top   *)
(* of the lifecycle and the events of its client: one task that connects,  *)
(* then either sends a line or handles an event, and destroys the client   *)
(* on every way out.  Only while it awaits send() it does not read events. *)
(***************************************************************************)
EXTENDS EventStream

CONSTANT Task   \* the task of run(), the only caller

ASSUME ChatAssumption == Callers = {Task}

VARIABLE chat   \* "new", "connecting", "loop", "sending", "leaving", "over"

chatVars == <<allVars, chat>>

ChatInit == StreamInit /\ chat = "new"

Start ==
  /\ chat = "new"
  /\ ConnectCall(Task) /\ Follows
  /\ chat' = "connecting"

\* The steps of connect() on a client that has no run yet.
ConnectSteps ==
  \/ ConnectLocked(Task) \/ ConnectStarts(Task) \/ ConnectSpawn(Task)
  \/ ConnectFirst(Task)

\* connect().await?: an error leaves the async block like a break does.
Connecting ==
  /\ chat = "connecting"
  /\ ConnectSteps /\ Follows
  /\ chat' = CASE pc'[Task] # "idle" -> "connecting"
               [] pc'[Task] = "idle" /\ failed'[Task] = NoRun -> "loop"
               [] OTHER -> "leaving"

SendLine ==
  /\ chat = "loop"
  /\ chat' = "sending"
  /\ UNCHANGED allVars

\* send() has returned: within its timeout, see SendPath.
LineSent ==
  /\ chat = "sending"
  /\ chat' = "loop"
  /\ UNCHANGED allVars

HandleEvent ==
  /\ chat = "loop"
  /\ Receive
  /\ UNCHANGED chat

\* A bug: the loop goes on.
EventsLostIgnored ==
  /\ chat = "loop"
  /\ Lagged
  /\ UNCHANGED chat

\* "Events lost; reconcile application state": break.
EventsLost ==
  /\ chat = "loop"
  /\ Lagged
  /\ chat' = "leaving"

\* /quit, the end of the input, Ctrl-C.
Quit ==
  /\ chat = "loop"
  /\ chat' = "leaving"
  /\ UNCHANGED allVars

\* A bug: the client is dropped and not destroyed.
LeaveDropping ==
  /\ chat = "leaving"
  /\ pc[Task] = "idle" /\ ~dropped
  /\ LastHandleDropped
  /\ Follows
  /\ chat' = "over"

\* client.destroy().await, then the end of main().
Leave ==
  /\ chat = "leaving"
  /\ \/ ~destroyed /\ DestroyCall(Task) /\ UNCHANGED chat
     \/ /\ DisconnectLocked(Task) \/ DisconnectJoined(Task)
        /\ chat' = IF pc'[Task] = "idle" THEN "over" ELSE "leaving"
  /\ Follows

\* The worker and what it emits, in parallel.
Background ==
  /\ \/ \E r \in Runs : WorkerFollows(r) \/ SessionEndFollows(r)
     \/ EmitError
     \/ EmitOther
  /\ UNCHANGED chat

ChatNext ==
  \/ Start \/ Connecting \/ SendLine \/ LineSent
  \/ HandleEvent \/ EventsLost \/ Quit \/ Leave
  \/ Background

ChatSpec == ChatInit /\ [][ChatNext]_chatVars

\* The task is scheduled; whether the user types or quits is up to the user.
ChatFairness ==
  /\ WF_chatVars(Connecting) /\ WF_chatVars(LineSent) /\ WF_chatVars(Leave)
  /\ SF_chatVars(HandleEvent) /\ SF_chatVars(EventsLost)
  /\ \A r \in Runs : WF_chatVars(WorkerFollows(r) /\ UNCHANGED chat)
  /\ WF_chatVars(EmitError /\ UNCHANGED chat)

FairChatSpec == ChatSpec /\ ChatFairness

-----------------------------------------------------------------------------
(* Properties *)

(***************************************************************************)
(* When chat ends, on whichever way, the worker has ended too, with its    *)
(* socket, and the flag is down: nothing is left for the end of the        *)
(* process to cut off.                                                     *)
(***************************************************************************)
NothingLeft == chat = "over" => Quiescent /\ running = NoRun

(***************************************************************************)
(* A subscriber that has read everything knows whether the client is       *)
(* connected: no transition of the flag that lasts goes without its event, *)
(* and none has the other one's.  The worker publishes the flag before the *)
(* event, so this is said of when it awaits or is gone.                    *)
(***************************************************************************)
Settled == \A r \in Runs : run[r].phase \in Awaiting \cup Gone \cup {"unborn"}

BeliefRight ==
  Settled /\ Behind = 0 /\ belief # "unknown" => (belief = "up") = connected

(***************************************************************************)
(* It learns of every loss: a chat that stays does not believe for ever in *)
(* a connection that is gone, however the session ended.                   *)
(***************************************************************************)
Staying == chat \in {"loop", "sending"}

LossIsLearnt ==
  Staying /\ belief = "up" /\ ~connected ~> ~Staying \/ belief # "up" \/ connected

(***************************************************************************)
(* A chat that has lost events does not stay: it leaves, and its destroy() *)
(* returns, whatever the worker is doing at that moment.                   *)
(***************************************************************************)
LostEventsEndChat == (Staying /\ Behind > Len(ring)) ~> chat = "over"
===============================================================================
