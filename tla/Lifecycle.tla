------------------------------ MODULE Lifecycle ------------------------------
(***************************************************************************)
(* The lifecycle of one Client: connect(), disconnect(), destroy() and the *)
(* last drop, called by concurrent tasks that share the handle, and the    *)
(* worker task that connect() spawns and that owns every socket (run,      *)
(* supervise, and the outcomes of establish and session).                  *)
(*                                                                         *)
(* A step is one access to state another thread can see.  The inner.running*)
(* mutex is held exactly at the pcs in Holding, so it needs no variable.   *)
(* Of the events, those of the connection (Connect, Disconnect,            *)
(* Reconnecting and the final ReconnectExhausted) are kept; what send()    *)
(* and the session do with messages is in SendPath.                        *)
(***************************************************************************)
EXTENDS Naturals

CONSTANTS
  Callers,        \* the application's tasks that hold a handle
  MaxReconnects,  \* options.max_reconnect_attempts
  RuntimeStops,   \* may the runtime that hosts a worker be shut down?
  MaxRuns,        \* bound: workers ever spawned
  MaxSessions     \* bound: sessions ever authenticated

ASSUME LifecycleAssumption ==
  /\ MaxReconnects \in Nat
  /\ RuntimeStops \in BOOLEAN
  /\ MaxRuns \in Nat
  /\ MaxSessions \in Nat

VARIABLES
  destroyed,   \* Inner.destroyed
  connected,   \* Inner.connected
  generation,  \* Inner.generation
  running,     \* the run in Inner.running, NoRun for None
  spawned,     \* workers spawned so far: the runs are 1..spawned
  run,         \* the state of each run
  pc,          \* where each caller is
  at,          \* the run whose receivers a connect() call has cloned
  failed,      \* the run whose error a caller's last call returned
  dropped,     \* the last handle is gone
  lastEvent    \* the connection event broadcast last

clientVars == <<destroyed, running, spawned, dropped>>
callerVars == <<pc, at, failed>>
vars == <<clientVars, callerVars, connected, generation, run, lastEvent>>

NoRun == 0
Runs == 1..MaxRuns

\* The awaits of Worker::run at which a cancellation is observed.
Awaiting == {"spawned", "dialing", "online", "backoff"}
\* What happens between two awaits, in the order it is published.
Opening == {"authenticated", "up", "ready"}
Closing == {"lost", "down", "drained", "retry", "cancelled", "ending", "cleared",
            "failing", "draining"}
Gone == {"finished", "aborted"}

\* MessageTooLarge and Transport take the same path everywhere.
DialErrors == {"Transport", "Timeout", "Server", "Protocol"}
SessionErrors == DialErrors \cup {"Disconnected"}

\* attempt, established and outcome are locals of supervise(); the error a run
\* ends with is not told apart from any other.
\* cancel: the token is not cancelled; or it was while the worker was inside
\* a poll that had already looked at it ("racing"); or the next poll sees it.
RunState ==
  [phase: {"unborn"} \cup Awaiting \cup Opening \cup Closing \cup Gone,
   cancel: {"no", "racing", "set"}, attempt: 0..MaxReconnects, established: BOOLEAN,
   outcome: SessionErrors \cup {"none"}, first: {"None", "Ok", "Err"},
   status: {"Connecting", "Ready", "Failed"}]

Unborn ==
  [phase |-> "unborn", cancel |-> "no", attempt |-> 0, established |-> FALSE,
   outcome |-> "none", first |-> "None", status |-> "Connecting"]

Alive(r) == run[r].phase \notin {"unborn"} \cup Gone

\* run.task.is_finished()
IsFinished(r) == run[r].phase \in Gone

Holding == {"connect.run", "connect.spawn", "connect.join", "disconnect.join"}
LockFree == \A c \in Callers : pc[c] \notin Holding

Event(kind, r, n) == [kind |-> kind, run |-> r, n |-> n]
NoEvent == Event("none", NoRun, 0)

Init ==
  /\ destroyed = FALSE
  /\ connected = FALSE
  /\ generation = 0
  /\ running = NoRun
  /\ spawned = 0
  /\ run = [r \in Runs |-> Unborn]
  /\ pc = [c \in Callers |-> "idle"]
  /\ at = [c \in Callers |-> NoRun]
  /\ failed = [c \in Callers |-> NoRun]
  /\ dropped = FALSE
  /\ lastEvent = NoEvent

-----------------------------------------------------------------------------
(* connect() *)

Goto(c, from, to) == pc[c] = from /\ pc' = [pc EXCEPT ![c] = to]

ConnectCall(c) ==
  /\ ~dropped
  /\ Goto(c, "idle", "connect.lock")
  /\ UNCHANGED <<clientVars, at, failed, connected, generation, run, lastEvent>>

\* A bug: destroyed is checked by the caller, not under the mutex.
ConnectLockedBlind(c) ==
  /\ LockFree
  /\ Goto(c, "connect.lock", "connect.run")
  /\ UNCHANGED <<clientVars, at, failed, connected, generation, run, lastEvent>>

\* running.lock().await, then the destroyed check.
ConnectLocked(c) ==
  /\ LockFree
  /\ \/ /\ ~destroyed
        /\ Goto(c, "connect.lock", "connect.run")
        /\ UNCHANGED failed
     \/ /\ destroyed
        /\ Goto(c, "connect.lock", "idle")
        /\ failed' = [failed EXCEPT ![c] = NoRun]
  /\ UNCHANGED <<clientVars, at, connected, generation, run, lastEvent>>

\* running.as_ref().is_none_or(|run| run.task.is_finished())
NoneOrFinished == \A r \in Runs : running = r => IsFinished(r)

ConnectStarts(c) ==
  /\ Goto(c, "connect.run", "connect.spawn")
  /\ NoneOrFinished
  /\ UNCHANGED <<clientVars, at, failed, connected, generation, run, lastEvent>>

\* No run or a finished one: spawn a worker and wait for its first result.
ConnectSpawn(c) ==
  /\ Goto(c, "connect.spawn", "connect.first")
  /\ spawned < MaxRuns
  /\ spawned' = spawned + 1
  /\ running' = spawned + 1
  /\ run' = [run EXCEPT ![spawned + 1].phase = "spawned"]
  /\ at' = [at EXCEPT ![c] = spawned + 1]
  /\ UNCHANGED <<destroyed, dropped, failed, connected, generation, lastEvent>>

\* Polled outside a Tokio runtime: RuntimeUnavailable, and nothing is started.
ConnectNoRuntime(c) ==
  /\ Goto(c, "connect.spawn", "idle")
  /\ failed' = [failed EXCEPT ![c] = NoRun]
  /\ UNCHANGED <<clientVars, at, connected, generation, run, lastEvent>>

\* The run in the mutex is not finished: join it ...
ConnectJoin(c) ==
  /\ Goto(c, "connect.run", "connect.join")
  /\ ~NoneOrFinished
  /\ at' = [at EXCEPT ![c] = running]
  /\ UNCHANGED <<clientVars, failed, connected, generation, run, lastEvent>>

\* ... waiting for its first result, or for its status if that is known.
ConnectWatch(c) ==
  /\ pc[c] = "connect.join"
  /\ pc' = [pc EXCEPT ![c] = IF run[at[c]].first = "None" THEN "connect.first"
                                                         ELSE "connect.status"]
  /\ UNCHANGED <<clientVars, at, failed, connected, generation, run, lastEvent>>

ConnectReturns(c, from, isError) ==
  /\ Goto(c, from, "idle")
  /\ at' = [at EXCEPT ![c] = NoRun]
  /\ failed' = [failed EXCEPT ![c] = IF isError THEN at[c] ELSE NoRun]
  /\ UNCHANGED <<clientVars, connected, generation, run, lastEvent>>

\* first_result.changed()
ConnectFirst(c) ==
  LET first == run[at[c]].first IN
  /\ pc[c] = "connect.first"
  /\ first # "None"
  /\ ConnectReturns(c, "connect.first", first = "Err")

\* status.changed(): the latest value only, a Ready that is over is missed.
ConnectStatus(c) ==
  LET status == run[at[c]].status IN
  /\ pc[c] = "connect.status"
  /\ status # "Connecting"
  /\ ConnectReturns(c, "connect.status", status = "Failed")

\* The worker was aborted and its watch senders are gone: Disconnected.
ConnectOrphaned(c) ==
  \E from \in {"connect.first", "connect.status"} :
    /\ pc[c] = from
    /\ run[at[c]].phase = "aborted"
    /\ IF from = "connect.first" THEN run[at[c]].first = "None"
                                 ELSE run[at[c]].status = "Connecting"
    /\ ConnectReturns(c, from, TRUE)

-----------------------------------------------------------------------------
(* disconnect(), destroy() and the last drop *)

CancelRun(r) ==
  \E token \in IF run[r].cancel = "no" THEN {"racing", "set"} ELSE {run[r].cancel} :
    run' = [run EXCEPT ![r].cancel = token]

DisconnectCall(c) ==
  /\ ~dropped
  /\ Goto(c, "idle", "disconnect.lock")
  /\ failed' = [failed EXCEPT ![c] = NoRun]
  /\ UNCHANGED <<clientVars, at, connected, generation, run, lastEvent>>

DestroyCall(c) ==
  /\ ~dropped
  /\ Goto(c, "idle", "disconnect.lock")
  /\ destroyed' = TRUE
  /\ failed' = [failed EXCEPT ![c] = NoRun]
  /\ UNCHANGED <<running, spawned, dropped, at, connected, generation, run,
                 lastEvent>>

\* A bug: the run is taken out of the mutex before it is joined.
DisconnectTakesRun(c) ==
  /\ LockFree
  /\ running # NoRun
  /\ Goto(c, "disconnect.lock", "disconnect.join")
  /\ CancelRun(running)
  /\ running' = NoRun
  /\ UNCHANGED <<destroyed, spawned, dropped, at, failed, connected, generation,
                 lastEvent>>

\* A bug: the run is joined but its token is not cancelled.
DisconnectOnlyJoins(c) ==
  /\ LockFree
  /\ Goto(c, "disconnect.lock", IF running = NoRun THEN "idle" ELSE "disconnect.join")
  /\ UNCHANGED <<clientVars, at, failed, connected, generation, run, lastEvent>>

DisconnectLocked(c) ==
  /\ LockFree
  /\ \/ /\ running = NoRun
        /\ Goto(c, "disconnect.lock", "idle")
        /\ UNCHANGED run
     \/ /\ running # NoRun
        /\ Goto(c, "disconnect.lock", "disconnect.join")
        /\ CancelRun(running)
  /\ UNCHANGED <<clientVars, at, failed, connected, generation, lastEvent>>

\* A bug: the task is cancelled but not awaited.
DisconnectNotJoined(c) ==
  /\ Goto(c, "disconnect.join", "idle")
  /\ running' = NoRun
  /\ UNCHANGED <<destroyed, spawned, dropped, at, failed, connected, generation,
                 run, lastEvent>>

\* The join handle resolves: *running = None, and the mutex is released.
DisconnectJoined(c) ==
  /\ Goto(c, "disconnect.join", "idle")
  /\ NoneOrFinished
  /\ running' = NoRun
  /\ UNCHANGED <<destroyed, spawned, dropped, at, failed, connected, generation,
                 run, lastEvent>>

\* The application drops a call's future at an await; a mutex it holds is
\* released, with the run still in it.
CallDropped(c) ==
  /\ pc[c] \in {"connect.lock", "connect.first", "connect.status",
                "disconnect.lock", "disconnect.join"}
  /\ pc' = [pc EXCEPT ![c] = "idle"]
  /\ at' = [at EXCEPT ![c] = NoRun]
  /\ UNCHANGED <<clientVars, failed, connected, generation, run, lastEvent>>

\* A bug: the run is dropped with the handle, which detaches its task.
LastHandleDetaches ==
  /\ ~dropped
  /\ \A c \in Callers : pc[c] = "idle"
  /\ dropped' = TRUE
  /\ running' = NoRun
  /\ UNCHANGED <<destroyed, spawned, callerVars, connected, generation, run, lastEvent>>

\* Drop for Inner: no call is in progress, the worker is cancelled, not joined,
\* and the command sender goes away with the run.
LastHandleDropped ==
  /\ ~dropped
  /\ \A c \in Callers : pc[c] = "idle"
  /\ dropped' = TRUE
  /\ running' = NoRun
  /\ IF running = NoRun THEN UNCHANGED run ELSE CancelRun(running)
  /\ UNCHANGED <<destroyed, spawned, callerVars, connected, generation, lastEvent>>

-----------------------------------------------------------------------------
(* The worker: Worker::run and supervise *)

Worker(r, from, to) == run[r].phase = from /\ run' = [run EXCEPT ![r].phase = to]

\* supervise() returns or is dropped, its locals with it.
LeavesSupervise(r, from, to) ==
  /\ run[r].phase = from
  /\ run' = [run EXCEPT ![r].phase = to, ![r].attempt = 0,
                        ![r].established = FALSE, ![r].outcome = "none"]

EndsSupervise(r, from) == LeavesSupervise(r, from, "ending")

Emit(kind, r, n) == lastEvent' = Event(kind, r, n)

\* The biased select of run() lets supervise() proceed only in a poll that
\* began with the token not cancelled.
MayProceed(r) == run[r].cancel # "set"

\* The select drops supervise() (socket, pending sends) and takes the branch:
\* the flag first ...
CancelObserved(r) ==
  /\ run[r].cancel # "no"
  /\ \E from \in Awaiting : LeavesSupervise(r, from, "cancelled")
  /\ connected' = FALSE
  /\ UNCHANGED <<clientVars, callerVars, generation, lastEvent>>

\* ... then the event.
ReportManual(r) ==
  /\ Worker(r, "cancelled", "ending")
  /\ Emit("Manual", r, 0)
  /\ UNCHANGED <<clientVars, callerVars, connected, generation>>

FirstPoll(r) ==
  /\ MayProceed(r)
  /\ Worker(r, "spawned", "dialing")
  /\ UNCHANGED <<clientVars, callerVars, connected, generation, lastEvent>>

\* A bug: a session that was established does not reset the attempt counter.
DialOkKeepsAttempt(r) ==
  /\ MayProceed(r)
  /\ run[r].phase = "dialing"
  /\ generation < MaxSessions
  /\ run' = [run EXCEPT ![r].phase = "authenticated", ![r].established = TRUE]
  /\ generation' = generation + 1
  /\ UNCHANGED <<clientVars, callerVars, connected, lastEvent>>

\* A bug: only the first session of a run gets a new generation.
DialOkSameGeneration(r) ==
  /\ MayProceed(r)
  /\ run[r].phase = "dialing"
  /\ generation < MaxSessions
  /\ run' = [run EXCEPT ![r].phase = "authenticated", ![r].attempt = 0,
                        ![r].established = TRUE]
  /\ generation' = IF run[r].established THEN generation ELSE generation + 1
  /\ UNCHANGED <<clientVars, callerVars, connected, lastEvent>>

\* establish() succeeds: the attempt counter is reset, generation.fetch_add(1).
DialOk(r) ==
  /\ MayProceed(r)
  /\ run[r].phase = "dialing"
  /\ generation < MaxSessions
  /\ run' = [run EXCEPT ![r].phase = "authenticated", ![r].attempt = 0,
                        ![r].established = TRUE]
  /\ generation' = generation + 1
  /\ UNCHANGED <<clientVars, callerVars, connected, lastEvent>>

SetConnected(r) ==
  /\ Worker(r, "authenticated", "up")
  /\ connected' = TRUE
  /\ UNCHANGED <<clientVars, callerVars, generation, lastEvent>>

PublishReady(r) ==
  /\ run[r].phase = "up"
  /\ run' = [run EXCEPT ![r].phase = "ready", ![r].status = "Ready"]
  /\ UNCHANGED <<clientVars, callerVars, connected, generation, lastEvent>>

\* first_result once per run, Connect once per session.
Announce(r) ==
  /\ run[r].phase = "ready"
  /\ run' = [run EXCEPT ![r].phase = "online",
                        ![r].first = IF @ = "None" THEN "Ok" ELSE @]
  /\ Emit("Connect", r, generation)
  /\ UNCHANGED <<clientVars, callerVars, connected, generation>>

\* establish() fails or times out.  The first attempt is never retried, an
\* authentication or protocol rejection ends the run at any time.
DialFails(r) ==
  /\ MayProceed(r)
  /\ \E e \in DialErrors :
       IF ~run[r].established \/ e \in {"Server", "Protocol"}
       THEN EndsSupervise(r, "dialing")
       ELSE Worker(r, "dialing", "retry")
  /\ UNCHANGED <<clientVars, callerVars, connected, generation, lastEvent>>

\* session() returns.  Disconnected: the command sender was dropped.
SessionEnds(r) ==
  /\ MayProceed(r)
  /\ run[r].phase = "online"
  /\ \E e \in SessionErrors :
       /\ e = "Disconnected" => dropped
       /\ run' = [run EXCEPT ![r].phase = "lost", ![r].outcome = e]
  /\ UNCHANGED <<clientVars, callerVars, connected, generation, lastEvent>>

\* A bug: only the end of the run clears the flag.
ClearConnectedLate(r) ==
  /\ Worker(r, "lost", "down")
  /\ UNCHANGED <<clientVars, callerVars, connected, generation, lastEvent>>

ClearConnected(r) ==
  /\ Worker(r, "lost", "down")
  /\ connected' = FALSE
  /\ UNCHANGED <<clientVars, callerVars, generation, lastEvent>>

\* A bug: status still holds the result of the session that is lost.
PublishConnectingNot(r) ==
  /\ Worker(r, "down", "drained")
  /\ UNCHANGED <<clientVars, callerVars, connected, generation, lastEvent>>

\* status = Connecting; the commands left in the queue are failed.
PublishConnecting(r) ==
  /\ run[r].phase = "down"
  /\ run' = [run EXCEPT ![r].phase = "drained", ![r].status = "Connecting"]
  /\ UNCHANGED <<clientVars, callerVars, connected, generation, lastEvent>>

Reason(e) == CASE e = "Server" -> "Server"
               [] e = "Timeout" -> "HeartbeatTimeout"
               [] OTHER -> "Transport"

\* A bug: the error is returned before the event is emitted.
ReportDisconnectUnlessServer(r) ==
  /\ run[r].phase = "drained"
  /\ IF run[r].outcome = "Server"
     THEN EndsSupervise(r, "drained") /\ UNCHANGED lastEvent
     ELSE /\ run' = [run EXCEPT ![r].phase = "retry", ![r].outcome = "none"]
          /\ Emit(Reason(run[r].outcome), r, generation)
  /\ UNCHANGED <<clientVars, callerVars, connected, generation>>

ReportDisconnect(r) ==
  /\ run[r].phase = "drained"
  /\ IF run[r].outcome = "Server"
     THEN EndsSupervise(r, "drained")
     ELSE run' = [run EXCEPT ![r].phase = "retry", ![r].outcome = "none"]
  /\ Emit(Reason(run[r].outcome), r, generation)
  /\ UNCHANGED <<clientVars, callerVars, connected, generation>>

\* No attempt left: the run ends.
Exhaust(r) ==
  /\ run[r].attempt >= MaxReconnects
  /\ EndsSupervise(r, "retry")
  /\ Emit("Exhausted", r, 0)
  /\ UNCHANGED <<clientVars, callerVars, connected, generation>>

\* A bug: one attempt too many.
RetryOnceMore(r) ==
  /\ run[r].phase = "retry"
  /\ run[r].attempt <= MaxReconnects
  /\ run' = [run EXCEPT ![r].phase = "backoff", ![r].attempt = @ + 1,
                        ![r].cancel = IF @ = "racing" THEN "set" ELSE @]
  /\ Emit("Reconnecting", r, run[r].attempt + 1)
  /\ UNCHANGED <<clientVars, callerVars, connected, generation>>

\* Count the attempt and sleep.  The sleep is pending at first, so that the
\* poll that began before a cancellation ends here.
Retry(r) ==
  /\ run[r].phase = "retry"
  /\ run[r].attempt < MaxReconnects
  /\ run' = [run EXCEPT ![r].phase = "backoff", ![r].attempt = @ + 1,
                        ![r].cancel = IF @ = "racing" THEN "set" ELSE @]
  /\ Emit("Reconnecting", r, run[r].attempt + 1)
  /\ UNCHANGED <<clientVars, callerVars, connected, generation>>

SleepOver(r) ==
  /\ MayProceed(r)
  /\ Worker(r, "backoff", "dialing")
  /\ UNCHANGED <<clientVars, callerVars, connected, generation, lastEvent>>

\* The end of run(), after the select, whatever it returned.
EndClears(r) ==
  /\ Worker(r, "ending", "cleared")
  /\ connected' = FALSE
  /\ UNCHANGED <<clientVars, callerVars, generation, lastEvent>>

\* A bug: a run that was never established leaves its first result open.
EndForgetsFirst(r) ==
  /\ Worker(r, "cleared", "failing")
  /\ UNCHANGED <<clientVars, callerVars, connected, generation, lastEvent>>

EndPublishesFirst(r) ==
  /\ run[r].phase = "cleared"
  /\ run' = [run EXCEPT ![r].phase = "failing",
                        ![r].first = IF @ = "None" THEN "Err" ELSE @]
  /\ UNCHANGED <<clientVars, callerVars, connected, generation, lastEvent>>

EndPublishesFailed(r) ==
  /\ run[r].phase = "failing"
  /\ run' = [run EXCEPT ![r].phase = "draining", ![r].status = "Failed"]
  /\ UNCHANGED <<clientVars, callerVars, connected, generation, lastEvent>>

\* commands.close(), the rest of the queue is failed, the task completes.
Finish(r) ==
  /\ Worker(r, "draining", "finished")
  /\ UNCHANGED <<clientVars, callerVars, connected, generation, lastEvent>>

\* The runtime is shut down: the task is dropped at an await, with no cleanup.
RuntimeStop(r) ==
  /\ RuntimeStops
  /\ \E from \in Awaiting : Worker(r, from, "aborted")
  /\ UNCHANGED <<clientVars, callerVars, connected, generation, lastEvent>>

-----------------------------------------------------------------------------
CallReturns(c) ==
  \/ ConnectStarts(c) \/ ConnectSpawn(c) \/ ConnectNoRuntime(c)
  \/ ConnectJoin(c) \/ ConnectWatch(c)
  \/ ConnectFirst(c) \/ ConnectStatus(c) \/ ConnectOrphaned(c)
  \/ DisconnectJoined(c)

TakesLock(c) == ConnectLocked(c) \/ DisconnectLocked(c)

Caller(c) ==
  \/ ConnectCall(c) \/ DisconnectCall(c) \/ DestroyCall(c) \/ CallDropped(c)
  \/ TakesLock(c) \/ CallReturns(c)

WorkerStep(r) ==
  \/ CancelObserved(r) \/ ReportManual(r)
  \/ FirstPoll(r) \/ DialOk(r) \/ DialFails(r)
  \/ SetConnected(r) \/ PublishReady(r) \/ Announce(r)
  \/ ClearConnected(r) \/ PublishConnecting(r) \/ ReportDisconnect(r)
  \/ Exhaust(r) \/ Retry(r) \/ SleepOver(r)
  \/ EndClears(r) \/ EndPublishesFirst(r) \/ EndPublishesFailed(r) \/ Finish(r)

Next ==
  \/ \E c \in Callers : Caller(c)
  \/ LastHandleDropped
  \/ \E r \in Runs : WorkerStep(r) \/ SessionEnds(r) \/ RuntimeStop(r)

Spec == Init /\ [][Next]_vars

(***************************************************************************)
(* A spawned worker is polled again whenever it can go on; its dials and   *)
(* sleeps end (connect_timeout, reconnect_delay), a session need not.      *)
(* Callers that are not dropped are polled when they can go on, and the    *)
(* Tokio mutex is FIFO: whoever waits gets it if it is released again and  *)
(* again.                                                                  *)
(***************************************************************************)
Fairness ==
  /\ \A r \in Runs : WF_vars(WorkerStep(r))
  /\ \A c \in Callers : WF_vars(CallReturns(c)) /\ SF_vars(TakesLock(c))

FairSpec == Spec /\ Fairness

-----------------------------------------------------------------------------
(* Properties *)

TypeOK ==
  /\ destroyed \in BOOLEAN
  /\ connected \in BOOLEAN
  /\ dropped \in BOOLEAN
  /\ generation \in 0..MaxSessions
  /\ spawned \in 0..MaxRuns
  /\ running \in 0..spawned
  /\ run \in [Runs -> RunState]
  /\ pc \in [Callers -> {"idle", "connect.lock", "connect.first", "connect.status",
                         "disconnect.lock"} \cup Holding]
  /\ at \in [Callers -> 0..spawned]
  /\ failed \in [Callers -> 0..spawned]
  /\ lastEvent \in [kind: {"none", "Connect", "Manual", "Transport", "Server",
                           "HeartbeatTimeout", "Reconnecting", "Exhausted"},
                    run: 0..MaxRuns, n: 0..MaxReconnects \cup 0..MaxSessions]

(***************************************************************************)
(* A worker that is not finished is the one in inner.running, unless the   *)
(* last handle is gone: whatever calls are made, dropped or overlap, no    *)
(* connect() starts a worker next to one that still has to write its last  *)
(* state (the comment in disconnect() on keeping the handle in the mutex). *)
(***************************************************************************)
OneWorker ==
  /\ \A r, s \in Runs : Alive(r) /\ Alive(s) => r = s
  /\ \A r \in Runs : Alive(r) => running = r \/ dropped

(***************************************************************************)
(* is_connected() is true exactly while some worker has an announced       *)
(* session: no worker that is on its way out clears the flag of its        *)
(* successor or leaves it set.                                             *)
(***************************************************************************)
HasSession(r) == run[r].phase \in {"up", "ready", "online", "lost"}
ConnectedIffSession == connected <=> \E r \in Runs : HasSession(r)

(***************************************************************************)
(* The Ready that a connect() which joins a running worker may be given is *)
(* that of the session the worker has, or of one that it lost in the same  *)
(* stretch of code: never while it sleeps or dials, when connect() "waits  *)
(* for that run" (its doc comment), nor once the run is over.  Stated for  *)
(* a runtime that is not shut down; one that is leaves the status as it is.*)
(***************************************************************************)
ReadyIsRecent ==
  \A r \in Runs : run[r].status = "Ready" =>
    run[r].phase \in {"ready", "online", "lost", "down", "cancelled", "ending",
                     "cleared", "failing"}

(***************************************************************************)
(* The handle holds no run (disconnect() returned, or nothing was started):*)
(* all of it is gone, worker and flag.                                     *)
(***************************************************************************)
Quiescent == ~connected /\ \A r \in Runs : ~Alive(r)
DisconnectAwaitsCleanup == running = NoRun /\ ~dropped => Quiescent

(***************************************************************************)
(* When a destroyed client is torn down, by destroy() or by a disconnect() *)
(* that began before, it is closed: also the worker of a connect() that had*)
(* passed its check of the flag is gone, and no connect() is past the check*)
(* still.  And it stays closed: no call of any clone brings it back.       *)
(***************************************************************************)
Closed ==
  /\ destroyed
  /\ running = NoRun
  /\ Quiescent
  /\ \A c \in Callers : pc[c] \notin {"connect.run", "connect.spawn"}
TearsDown(c) == (DisconnectLocked(c) \/ DisconnectJoined(c)) /\ pc'[c] = "idle"
DestroyIsFinal ==
  [][destroyed /\ (Closed \/ \E c \in Callers : TearsDown(c)) => Closed']_vars

(***************************************************************************)
(* The connection events a subscriber can see in a row: every Connect is   *)
(* followed by a reason before the next Connect, and by one only, but for a*)
(* Manual that may end the reconnecting after a loss; a run that is over   *)
(* emits nothing more, no run overlaps another, and the attempts count up  *)
(* from 1 to at most MaxReconnects after each lost session.                *)
(***************************************************************************)
Lost == {"Transport", "HeartbeatTimeout"}
Terminal == {"Manual", "Server", "Exhausted"}

MayFollow(old, new) ==
  IF new.run = old.run
  THEN \/ new.kind = "Connect" /\ old.kind = "Reconnecting"
       \/ new.kind \in Lost \cup {"Server"} /\ old.kind = "Connect"
       \/ new.kind = "Manual" /\ old.kind \notin Terminal
       \/ /\ new.kind = "Reconnecting"
          /\ new.n <= MaxReconnects
          /\ \/ new.n = 1 /\ old.kind \in Lost
             \/ new.n = old.n + 1 /\ old.kind = "Reconnecting"
       \/ /\ new.kind = "Exhausted"
          /\ \/ MaxReconnects = 0 /\ old.kind \in Lost
             \/ old.kind = "Reconnecting" /\ old.n = MaxReconnects
  ELSE /\ new.run > old.run
       /\ new.kind \in {"Connect", "Manual"}
       /\ old.kind \in Terminal \cup {"none", "Reconnecting"}

EventOrder == [][lastEvent' # lastEvent => MayFollow(lastEvent, lastEvent')]_vars

(***************************************************************************)
(* disconnect() and destroy() return, whatever the worker is doing and     *)
(* whoever waits for the mutex.                                            *)
(***************************************************************************)
DisconnectReturns ==
  \A c \in Callers :
    pc[c] \in {"disconnect.lock", "disconnect.join"} ~> pc[c] = "idle"

(***************************************************************************)
(* A connect() that waits for the first result of a run gets one: the run  *)
(* is established, fails, or is cancelled and says so.                     *)
(***************************************************************************)
FirstConnectReturns ==
  \A c \in Callers : pc[c] = "connect.first" ~> pc[c] = "idle"

(***************************************************************************)
(* Dropping the last handle ends the worker, although nothing waits for it.*)
(***************************************************************************)
DropEndsWorker == dropped ~> \A r \in Runs : ~Alive(r)

(***************************************************************************)
(* The README calls is_connected() a "snapshot of authenticated transport  *)
(* state": when it is true there is a worker, and with it a transport.     *)
(***************************************************************************)
ConnectedMeansWorker == connected => \E r \in Runs : Alive(r)

(***************************************************************************)
(* Lifecycle implements Connection: one worker at a time, a generation of  *)
(* its own for every session, the flag up only while its worker lives.     *)
(***************************************************************************)
C == INSTANCE Connection WITH
       live <- \E r \in Runs : Alive(r),
       fresh <- \E r \in Runs : run[r].phase = "authenticated"
ImplementsConnection == C!Spec

(***************************************************************************)
(* What the comment on connect() says of a failed connection ("Initial     *)
(* connection errors require an explicit retry"), read from the caller's   *)
(* side: the retry it is told to make is a new attempt, not the one whose  *)
(* error it already has.                                                   *)
(***************************************************************************)
RetryIsNewAttempt ==
  \A c \in Callers :
    pc[c] \in {"connect.first", "connect.status"} => at[c] # failed[c]
===============================================================================
