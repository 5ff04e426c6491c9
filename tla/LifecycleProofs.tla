---------------------------- MODULE LifecycleProofs ----------------------------
(***************************************************************************)
(* Theorems about Lifecycle, for any number of callers, workers, sessions  *)
(* and reconnect attempts.                                                 *)
(***************************************************************************)
EXTENDS Lifecycle, TLAPS

-----------------------------------------------------------------------------
(* Type correctness *)

LEMMA UnbornIsRunState == Unborn \in RunState
  BY LifecycleAssumption DEF Unborn, RunState, Awaiting, Opening, Closing, Gone

LEMMA InitType == Init => TypeOK
<1> SUFFICES ASSUME Init PROVE TypeOK
  OBVIOUS
<1>1. run \in [Runs -> RunState]
  BY UnbornIsRunState DEF Init
<1>2. /\ pc \in [Callers -> {"idle"}]
      /\ at \in [Callers -> {0}]
      /\ failed \in [Callers -> {0}]
  BY DEF Init, NoRun
<1>3. lastEvent = [kind |-> "none", run |-> 0, n |-> 0]
  BY DEF Init, NoEvent, Event, NoRun
<1>4. QED
  <2>1. destroyed \in BOOLEAN /\ connected \in BOOLEAN /\ dropped \in BOOLEAN
    BY DEF Init
  <2>2. 0 \in 0..MaxSessions /\ 0 \in 0..MaxRuns /\ 0 \in 0..MaxReconnects /\ 0 \in 0..0
    BY LifecycleAssumption
  <2>3. /\ generation \in 0..MaxSessions /\ spawned \in 0..MaxRuns
        /\ running \in 0..spawned
    BY <2>2 DEF Init, NoRun
  <2>4. /\ at \in [Callers -> 0..spawned]
        /\ failed \in [Callers -> 0..spawned]
    BY <1>2, <2>2 DEF Init
  <2>5. QED
    BY <1>1, <1>2, <1>3, <2>1, <2>2, <2>3, <2>4 DEF TypeOK

\* What may be written to the fields of a run.
LEMMA FieldType ==
  ASSUME NEW rec \in RunState
  PROVE  /\ \A p \in Awaiting \cup Opening \cup Closing \cup Gone :
              [rec EXCEPT !.phase = p] \in RunState
         /\ \A b \in BOOLEAN : [rec EXCEPT !.established = b] \in RunState
         /\ \A n \in 0..MaxReconnects : [rec EXCEPT !.attempt = n] \in RunState
         /\ \A e \in SessionErrors \cup {"none"} : [rec EXCEPT !.outcome = e] \in RunState
         /\ \A f \in {"None", "Ok", "Err"} : [rec EXCEPT !.first = f] \in RunState
         /\ \A s \in {"Connecting", "Ready", "Failed"} :
              [rec EXCEPT !.status = s] \in RunState
         /\ \A t \in {"no", "racing", "set"} : [rec EXCEPT !.cancel = t] \in RunState
<1>1. \A p \in Awaiting \cup Opening \cup Closing \cup Gone :
        [rec EXCEPT !.phase = p] \in RunState
  BY DEF RunState
<1>2. \A b \in BOOLEAN : [rec EXCEPT !.established = b] \in RunState
  BY DEF RunState
<1>3. \A n \in 0..MaxReconnects : [rec EXCEPT !.attempt = n] \in RunState
  BY DEF RunState
<1>4. \A e \in SessionErrors \cup {"none"} : [rec EXCEPT !.outcome = e] \in RunState
  BY DEF RunState
<1>5. \A f \in {"None", "Ok", "Err"} : [rec EXCEPT !.first = f] \in RunState
  BY DEF RunState
<1>6. \A s \in {"Connecting", "Ready", "Failed"} : [rec EXCEPT !.status = s] \in RunState
  BY DEF RunState
<1>7. \A t \in {"no", "racing", "set"} : [rec EXCEPT !.cancel = t] \in RunState
  BY DEF RunState
<1>8. QED
  BY <1>1, <1>2, <1>3, <1>4, <1>5, <1>6, <1>7

\* Most steps of a worker only move it from one phase to another.
LEMMA PhaseType ==
  ASSUME TypeOK, NEW r \in Runs,
         NEW to \in {"unborn"} \cup Awaiting \cup Opening \cup Closing \cup Gone
  PROVE  [run EXCEPT ![r].phase = to] \in [Runs -> RunState]
  BY DEF TypeOK, RunState

LEMMA CancelType ==
  ASSUME TypeOK, NEW r, CancelRun(r)
  PROVE  run' \in [Runs -> RunState]
<1>1. PICK token \in {"racing", "set"} \cup {run[r].cancel} :
        run' = [run EXCEPT ![r].cancel = token]
  BY DEF CancelRun
<1>2. CASE r \in Runs
  <2>1. token \in {"no", "racing", "set"}
    BY <1>1, <1>2 DEF TypeOK, RunState
  <2>2. QED
    BY <1>1, <1>2, <2>1 DEF TypeOK, RunState
<1>3. CASE r \notin Runs
  BY <1>1, <1>3 DEF TypeOK
<1>4. QED
  BY <1>2, <1>3

LEMMA LeavesType ==
  ASSUME TypeOK, NEW r \in Runs, NEW from, NEW to \in Closing, LeavesSupervise(r, from, to)
  PROVE  run' \in [Runs -> RunState]
<1> DEFINE over == [run[r] EXCEPT !.phase = to]
           counted == [over EXCEPT !.attempt = 0]
           reset == [counted EXCEPT !.established = FALSE]
           ended == [reset EXCEPT !.outcome = "none"]
<1>1. over \in RunState
  BY FieldType DEF TypeOK
<1>2. counted \in RunState
  <2>1. 0 \in 0..MaxReconnects
    BY LifecycleAssumption
  <2> HIDE DEF over
  <2>2. QED
    BY <1>1, <2>1, FieldType
<1>3. reset \in RunState
  <2> HIDE DEF counted
  <2>1. QED
    BY <1>2, FieldType
<1>4. ended \in RunState
  <2> HIDE DEF reset
  <2>1. QED
    BY <1>3, FieldType
<1>5. run' = [run EXCEPT ![r] = ended]
  BY DEF LeavesSupervise, TypeOK
<1>6. QED
  BY <1>4, <1>5 DEF TypeOK

LEMMA EndsType ==
  ASSUME TypeOK, NEW r \in Runs, NEW from, EndsSupervise(r, from)
  PROVE  run' \in [Runs -> RunState]
<1>1. "ending" \in Closing
  BY DEF Closing
<1> QED
  BY <1>1, LeavesType DEF EndsSupervise

LEMMA CallerType ==
  ASSUME TypeOK, NEW c \in Callers, Caller(c)
  PROVE  TypeOK'
<1> USE LifecycleAssumption DEF TypeOK, Goto, clientVars, callerVars, NoRun, Runs
<1>1. CASE ConnectCall(c)
  BY <1>1 DEF ConnectCall
<1>2. CASE DisconnectCall(c)
  BY <1>2 DEF DisconnectCall
<1>3. CASE DestroyCall(c)
  BY <1>3 DEF DestroyCall
<1>4. CASE CallDropped(c)
  BY <1>4 DEF CallDropped
<1>5. CASE ConnectLocked(c)
  <2>1. pc' \in [Callers -> {"idle", "connect.lock", "connect.first",
                             "connect.status", "disconnect.lock"} \cup Holding]
    BY <1>5 DEF ConnectLocked, Holding
  <2>2. failed' \in [Callers -> 0..spawned]
    <3>1. 0 \in 0..spawned
      OBVIOUS
    <3>2. failed' = failed \/ failed' = [failed EXCEPT ![c] = 0]
      BY <1>5 DEF ConnectLocked
    <3>3. QED
      BY <3>1, <3>2
  <2>3. QED
    BY <1>5, <2>1, <2>2 DEF ConnectLocked
<1>6. CASE DisconnectLocked(c)
  <2>1. CASE running = NoRun
    BY <1>6, <2>1 DEF DisconnectLocked
  <2>2. CASE running # NoRun
    <3>1. run' \in [Runs -> RunState]
      BY <1>6, <2>2, CancelType DEF DisconnectLocked
    <3>2. QED
      BY <1>6, <2>2, <3>1 DEF DisconnectLocked, Holding
  <2>3. QED
    BY <2>1, <2>2
<1>7. CASE ConnectStarts(c)
  BY <1>7 DEF ConnectStarts, Holding
<1>8. CASE ConnectSpawn(c)
  <2>1. run' \in [Runs -> RunState]
    <3>1. "spawned" \in Awaiting /\ spawned + 1 \in Runs
      BY <1>8 DEF ConnectSpawn, Awaiting
    <3>2. QED
      BY <1>8, <3>1, PhaseType DEF ConnectSpawn
  <2>2. QED
    BY <1>8, <2>1 DEF ConnectSpawn
<1>9. CASE ConnectNoRuntime(c)
  BY <1>9 DEF ConnectNoRuntime
<1>10. CASE ConnectJoin(c)
  BY <1>10 DEF ConnectJoin, Holding
<1>11. CASE ConnectWatch(c)
  BY <1>11 DEF ConnectWatch
<1>12. CASE ConnectFirst(c)
  BY <1>12 DEF ConnectFirst, ConnectReturns
<1>13. CASE ConnectStatus(c)
  BY <1>13 DEF ConnectStatus, ConnectReturns
<1>14. CASE ConnectOrphaned(c)
  BY <1>14 DEF ConnectOrphaned, ConnectReturns
<1>15. CASE DisconnectJoined(c)
  BY <1>15 DEF DisconnectJoined
<1>16. QED
  BY <1>1, <1>2, <1>3, <1>4, <1>5, <1>6, <1>7, <1>8, <1>9, <1>10, <1>11, <1>12,
     <1>13, <1>14, <1>15
  DEF Caller, TakesLock, CallReturns

LEMMA WorkerType ==
  ASSUME TypeOK, NEW r \in Runs, WorkerStep(r) \/ SessionEnds(r) \/ RuntimeStop(r)
  PROVE  TypeOK'
<1> USE LifecycleAssumption DEF clientVars, callerVars
\* What is left to show: the three variables a worker writes that are not flags,
\* and that the flag stays one.
<1> SUFFICES /\ run' \in [Runs -> RunState]
             /\ connected' \in BOOLEAN
             /\ generation' \in 0..MaxSessions
             /\ \/ UNCHANGED lastEvent
                \/ \E kind \in {"Connect", "Manual", "Transport", "Server",
                                "HeartbeatTimeout", "Reconnecting", "Exhausted"},
                      n \in 0..MaxReconnects \cup 0..MaxSessions : Emit(kind, r, n)
  <2>1. UNCHANGED <<clientVars, callerVars>>
    BY DEF WorkerStep, CancelObserved, ReportManual, FirstPoll, DialOk, DialFails, SetConnected,
           PublishReady, Announce, ClearConnected, PublishConnecting, ReportDisconnect,
           Exhaust, Retry, SleepOver, EndClears, EndPublishesFirst, EndPublishesFailed,
           Finish, SessionEnds, RuntimeStop
  <2>2. r \in 0..MaxRuns
    BY DEF Runs
  <2>3. QED
    BY <2>1, <2>2 DEF TypeOK, Emit, Event
<1>0. /\ 0 \in 0..MaxReconnects
      /\ Awaiting \cup Opening \cup Closing \cup Gone
           \subseteq {"unborn"} \cup Awaiting \cup Opening \cup Closing \cup Gone
  OBVIOUS
<1>1. CASE CancelObserved(r)
  <2>1. "cancelled" \in Closing
    BY DEF Closing
  <2>2. QED
    BY <1>1, <2>1, LeavesType DEF CancelObserved, TypeOK
<1>2. CASE FirstPoll(r)
  BY <1>2, PhaseType DEF FirstPoll, Worker, Awaiting, TypeOK
<1>3. CASE DialOk(r)
  <2> DEFINE dialed == [[run[r] EXCEPT !.phase = "authenticated"] EXCEPT !.attempt = 0]
             fresh == [dialed EXCEPT !.established = TRUE]
  <2>1. dialed \in RunState
    BY <1>0, FieldType DEF TypeOK, Opening
  <2>2. fresh \in RunState
    BY <2>1, FieldType
  <2>3. run' = [run EXCEPT ![r] = fresh]
    BY <1>3 DEF DialOk, TypeOK
  <2>4. generation' \in 0..MaxSessions
    BY <1>3 DEF DialOk, TypeOK
  <2>5. QED
    BY <1>3, <2>2, <2>3, <2>4 DEF DialOk, TypeOK
<1>4. CASE DialFails(r)
  BY <1>4, EndsType, PhaseType DEF DialFails, Worker, Closing, TypeOK
<1>5. CASE SetConnected(r)
  BY <1>5, PhaseType DEF SetConnected, Worker, Opening, TypeOK
<1>6. CASE PublishReady(r)
  <2> DEFINE moved == [run[r] EXCEPT !.phase = "ready"]
             written == [moved EXCEPT !.status = "Ready"]
  <2>1. moved \in RunState
    BY FieldType DEF TypeOK, Opening
  <2>2. written \in RunState
    BY <2>1, FieldType DEF TypeOK
  <2>3. run' = [run EXCEPT ![r] = written]
    BY <1>6 DEF PublishReady, TypeOK
  <2>4. QED
    BY <1>6, <2>2, <2>3 DEF PublishReady, TypeOK
<1>7. CASE Announce(r)
  <2> DEFINE moved == [run[r] EXCEPT !.phase = "online"]
             first == IF run[r].first = "None" THEN "Ok" ELSE run[r].first
             written == [moved EXCEPT !.first = first]
  <2>1. moved \in RunState
    BY FieldType DEF TypeOK, Awaiting
  <2>2. written \in RunState
    <3>1. first \in {"None", "Ok", "Err"}
      BY DEF TypeOK, RunState
    <3> HIDE DEF moved, first
    <3>2. QED
      BY <2>1, <3>1, FieldType
  <2>3. run' = [run EXCEPT ![r] = written]
    BY <1>7 DEF Announce, TypeOK
  <2>4. QED
    BY <1>7, <2>2, <2>3 DEF Announce, TypeOK
<1>8. CASE ClearConnected(r)
  BY <1>8, PhaseType DEF ClearConnected, Worker, Closing, TypeOK
<1>9. CASE PublishConnecting(r)
  <2> DEFINE moved == [run[r] EXCEPT !.phase = "drained"]
             written == [moved EXCEPT !.status = "Connecting"]
  <2>1. moved \in RunState
    BY FieldType DEF TypeOK, Closing
  <2>2. written \in RunState
    BY <2>1, FieldType DEF TypeOK
  <2>3. run' = [run EXCEPT ![r] = written]
    BY <1>9 DEF PublishConnecting, TypeOK
  <2>4. QED
    BY <1>9, <2>2, <2>3 DEF PublishConnecting, TypeOK
<1>10. CASE ReportDisconnect(r)
  <2>1. run' \in [Runs -> RunState]
    BY <1>10, EndsType DEF ReportDisconnect, RunState, Closing, TypeOK
  <2>2. Reason(run[r].outcome) \in {"Server", "HeartbeatTimeout", "Transport"}
    BY DEF Reason
  <2>3. QED
    BY <1>10, <2>1, <2>2 DEF ReportDisconnect, TypeOK
<1>11. CASE Exhaust(r)
  BY <1>11, <1>0, EndsType DEF Exhaust, TypeOK
<1>12. CASE Retry(r)
  <2>1. run[r].attempt + 1 \in 0..MaxReconnects
    BY <1>12 DEF Retry, TypeOK, RunState
  <2>2. run' \in [Runs -> RunState]
    BY <1>12, <2>1 DEF Retry, TypeOK, RunState, Awaiting
  <2>3. QED
    BY <1>12, <2>1, <2>2 DEF Retry, TypeOK
<1>13. CASE SleepOver(r)
  BY <1>13, PhaseType DEF SleepOver, Worker, Awaiting, TypeOK
<1>14. CASE EndClears(r)
  BY <1>14, PhaseType DEF EndClears, Worker, Closing, TypeOK
<1>15. CASE EndPublishesFirst(r)
  <2> DEFINE moved == [run[r] EXCEPT !.phase = "failing"]
             first == IF run[r].first = "None" THEN "Err" ELSE run[r].first
             written == [moved EXCEPT !.first = first]
  <2>1. moved \in RunState
    BY FieldType DEF TypeOK, Closing
  <2>2. written \in RunState
    <3>1. first \in {"None", "Ok", "Err"}
      BY DEF TypeOK, RunState
    <3> HIDE DEF moved, first
    <3>2. QED
      BY <2>1, <3>1, FieldType
  <2>3. run' = [run EXCEPT ![r] = written]
    BY <1>15 DEF EndPublishesFirst, TypeOK
  <2>4. QED
    BY <1>15, <2>2, <2>3 DEF EndPublishesFirst, TypeOK
<1>16. CASE EndPublishesFailed(r)
  <2> DEFINE moved == [run[r] EXCEPT !.phase = "draining"]
             written == [moved EXCEPT !.status = "Failed"]
  <2>1. moved \in RunState
    BY FieldType DEF TypeOK, Closing
  <2>2. written \in RunState
    BY <2>1, FieldType DEF TypeOK
  <2>3. run' = [run EXCEPT ![r] = written]
    BY <1>16 DEF EndPublishesFailed, TypeOK
  <2>4. QED
    BY <1>16, <2>2, <2>3 DEF EndPublishesFailed, TypeOK
<1>17. CASE Finish(r)
  BY <1>17, PhaseType DEF Finish, Worker, Gone, TypeOK
<1>18. CASE SessionEnds(r)
  <2>1. PICK e \in SessionErrors :
          run' = [run EXCEPT ![r].phase = "lost", ![r].outcome = e]
    BY <1>18 DEF SessionEnds
  <2> DEFINE moved == [run[r] EXCEPT !.phase = "lost"]
             written == [moved EXCEPT !.outcome = e]
  <2>2. moved \in RunState
    BY FieldType DEF TypeOK, Closing
  <2>3. written \in RunState
    BY <2>2, FieldType
  <2>4. run' = [run EXCEPT ![r] = written]
    BY <2>1 DEF TypeOK
  <2>5. QED
    BY <1>18, <2>3, <2>4 DEF SessionEnds, TypeOK
<1>19. CASE RuntimeStop(r)
  BY <1>19, PhaseType DEF RuntimeStop, Worker, Gone, TypeOK
<1>20. CASE ReportManual(r)
  <2>1. run' \in [Runs -> RunState]
    BY <1>20, PhaseType DEF ReportManual, Worker, Closing
  <2>2. QED
    BY <1>20, <1>0, <2>1 DEF ReportManual, TypeOK
<1>21. QED
  BY <1>1, <1>2, <1>3, <1>4, <1>5, <1>6, <1>7, <1>8, <1>9, <1>10, <1>11, <1>12,
     <1>13, <1>14, <1>15, <1>16, <1>17, <1>18, <1>19, <1>20
  DEF WorkerStep

LEMMA NextType == TypeOK /\ [Next]_vars => TypeOK'
<1> SUFFICES ASSUME TypeOK, [Next]_vars PROVE TypeOK'
  OBVIOUS
<1>1. ASSUME NEW c \in Callers, Caller(c) PROVE TypeOK'
  BY <1>1, CallerType
<1>2. CASE LastHandleDropped
  <2>1. run' \in [Runs -> RunState]
    BY <1>2, CancelType DEF LastHandleDropped, TypeOK
  <2>2. running' \in 0..spawned'
    BY <1>2 DEF LastHandleDropped, TypeOK, NoRun
  <2>3. QED
    BY <1>2, <2>1, <2>2 DEF LastHandleDropped, TypeOK, callerVars
<1>3. ASSUME NEW r \in Runs, WorkerStep(r) \/ SessionEnds(r) \/ RuntimeStop(r)
      PROVE  TypeOK'
  BY <1>3, WorkerType
<1>4. CASE UNCHANGED vars
  BY <1>4 DEF vars, clientVars, callerVars, TypeOK
<1>5. QED
  BY <1>1, <1>2, <1>3, <1>4 DEF Next

\* Every variable keeps its type, and the attempt counter and the attempts
\* announced stay within MaxReconnects.
THEOREM TypeCorrect == Spec => []TypeOK
  BY InitType, NextType, PTL DEF Spec

-----------------------------------------------------------------------------
(* One worker at a time *)

(***************************************************************************)
(* OneWorker needs what makes a spawn safe: whoever is about to spawn      *)
(* found no run or a finished one, which stays true because nobody else    *)
(* holds the mutex and a finished run does not move; and once the last     *)
(* handle is gone no call is in progress.                                  *)
(***************************************************************************)
MutualExclusion ==
  \A c, d \in Callers : pc[c] \in Holding /\ pc[d] \in Holding => c = d
SpawnIsSafe == (\E c \in Callers : pc[c] = "connect.spawn") => NoneOrFinished
NoCallAfterDrop == dropped => \A c \in Callers : pc[c] = "idle"

WorkerInv ==
  /\ TypeOK
  /\ MutualExclusion
  /\ SpawnIsSafe
  /\ NoCallAfterDrop
  /\ OneWorker

LEMMA InitWorkerInv == Init => WorkerInv
<1> SUFFICES ASSUME Init PROVE WorkerInv
  OBVIOUS
<1>1. \A r \in Runs : ~Alive(r)
  BY DEF Init, Alive, Unborn
<1>2. \A c \in Callers : pc[c] = "idle"
  BY DEF Init
<1>3. QED
  BY <1>1, <1>2, InitType
  DEF WorkerInv, MutualExclusion, SpawnIsSafe, NoCallAfterDrop, OneWorker, Holding

\* A caller that keeps the mutex or takes it while it is free keeps the others out.
LEMMA CallerExcludes ==
  ASSUME TypeOK, MutualExclusion, NEW c \in Callers,
         \A d \in Callers \ {c} : pc'[d] = pc[d],
         pc'[c] \in Holding => LockFree \/ pc[c] \in Holding
  PROVE  MutualExclusion'
  BY DEF MutualExclusion, LockFree

\* The steps of a caller that touch no run and not the mutex's content.
LEMMA CallerFrame ==
  ASSUME WorkerInv, NEW c \in Callers, TypeOK', MutualExclusion', NoCallAfterDrop',
         UNCHANGED <<running, dropped>>,
         \A r \in Runs : run'[r].phase = run[r].phase,
         \A d \in Callers : pc'[d] = "connect.spawn" =>
           pc[d] = "connect.spawn" \/ NoneOrFinished
  PROVE  WorkerInv'
<1>1. \A r \in Runs : Alive(r)' <=> Alive(r)
  BY DEF Alive
<1>2. NoneOrFinished' <=> NoneOrFinished
  BY DEF NoneOrFinished, IsFinished
<1>3. OneWorker'
  BY <1>1 DEF WorkerInv, OneWorker
<1>4. SpawnIsSafe'
  BY <1>2 DEF WorkerInv, SpawnIsSafe
<1>5. QED
  BY <1>3, <1>4 DEF WorkerInv

\* A cancellation moves no worker.
LEMMA CancelFrame ==
  ASSUME TypeOK, NEW s, CancelRun(s)
  PROVE  \A r \in Runs : run'[r].phase = run[r].phase
  BY DEF CancelRun, TypeOK

LEMMA CallerWorkerInv ==
  ASSUME WorkerInv, NEW c \in Callers, Caller(c)
  PROVE  WorkerInv'
<1>1. TypeOK'
  BY CallerType DEF WorkerInv
<1>2. ~dropped /\ ~dropped'
  <2>1. dropped => pc[c] = "idle"
    BY DEF WorkerInv, NoCallAfterDrop
  <2>2. QED
    BY <2>1 DEF WorkerInv, TypeOK, Caller, TakesLock, CallReturns, Goto, clientVars,
      ConnectCall, DisconnectCall, DestroyCall, CallDropped, ConnectLocked,
      DisconnectLocked, ConnectStarts, ConnectSpawn, ConnectNoRuntime, ConnectJoin,
      ConnectWatch, ConnectFirst, ConnectStatus, ConnectOrphaned, ConnectReturns,
      DisconnectJoined
<1>3. NoCallAfterDrop'
  BY <1>2 DEF NoCallAfterDrop
<1>4. \A d \in Callers \ {c} : pc'[d] = pc[d]
  BY DEF WorkerInv, TypeOK, Caller, TakesLock, CallReturns, Goto,
    ConnectCall, DisconnectCall, DestroyCall, CallDropped, ConnectLocked,
    DisconnectLocked, ConnectStarts, ConnectSpawn, ConnectNoRuntime, ConnectJoin,
    ConnectWatch, ConnectFirst, ConnectStatus, ConnectOrphaned, ConnectReturns,
    DisconnectJoined
<1>5. pc'[c] \in Holding => LockFree \/ pc[c] \in Holding
  BY DEF WorkerInv, TypeOK, Caller, TakesLock, CallReturns, Goto, Holding,
    ConnectCall, DisconnectCall, DestroyCall, CallDropped, ConnectLocked,
    DisconnectLocked, ConnectStarts, ConnectSpawn, ConnectNoRuntime, ConnectJoin,
    ConnectWatch, ConnectFirst, ConnectStatus, ConnectOrphaned, ConnectReturns,
    DisconnectJoined
<1>6. MutualExclusion'
  BY <1>4, <1>5, CallerExcludes DEF WorkerInv
<1>7. CASE ConnectSpawn(c)
  <2>1. \A r \in Runs : ~Alive(r)
    BY <1>2, <1>7 DEF ConnectSpawn, Goto, WorkerInv, SpawnIsSafe, NoneOrFinished,
      IsFinished, OneWorker, Alive
  <2>2. \A r \in Runs : Alive(r)' <=> r = spawned + 1
    BY <1>7, <2>1 DEF ConnectSpawn, WorkerInv, TypeOK, Alive, Gone
  <2>3. running' = spawned + 1
    BY <1>7 DEF ConnectSpawn
  <2>4. \A d \in Callers : pc'[d] # "connect.spawn"
    BY <1>4, <1>7 DEF ConnectSpawn, Goto, WorkerInv, TypeOK, MutualExclusion, Holding
  <2>5. QED
    BY <1>1, <1>3, <1>6, <2>2, <2>3, <2>4 DEF WorkerInv, OneWorker, SpawnIsSafe
<1>8. CASE DisconnectJoined(c)
  <2>1. \A r \in Runs : ~Alive(r)'
    BY <1>2, <1>8 DEF DisconnectJoined, WorkerInv, NoneOrFinished, IsFinished,
      OneWorker, Alive
  <2>2. NoneOrFinished'
    BY <1>8 DEF DisconnectJoined, NoneOrFinished, NoRun, Runs
  <2>3. QED
    BY <1>1, <1>3, <1>6, <2>1, <2>2 DEF WorkerInv, OneWorker, SpawnIsSafe
<1>9. CASE DisconnectLocked(c)
  <2>1. \A r \in Runs : run'[r].phase = run[r].phase
    BY <1>9, CancelFrame DEF DisconnectLocked, WorkerInv
  <2>2. QED
    BY <1>1, <1>3, <1>4, <1>6, <1>9, <2>1, CallerFrame
    DEF DisconnectLocked, Goto, clientVars, WorkerInv, TypeOK
<1>10. CASE ConnectStarts(c)
  BY <1>1, <1>3, <1>4, <1>6, <1>10, CallerFrame
  DEF ConnectStarts, Goto, clientVars, WorkerInv, TypeOK
<1>11. CASE ~ConnectSpawn(c) /\ ~DisconnectJoined(c) /\ ~DisconnectLocked(c)
              /\ ~ConnectStarts(c)
  <2>1. UNCHANGED <<running, dropped, run>> /\ pc'[c] # "connect.spawn"
    BY <1>11 DEF WorkerInv, TypeOK, Caller, TakesLock, CallReturns, Goto, clientVars,
      ConnectCall, DisconnectCall, DestroyCall, CallDropped, ConnectLocked,
      ConnectNoRuntime, ConnectJoin, ConnectWatch, ConnectFirst, ConnectStatus,
      ConnectOrphaned, ConnectReturns
  <2>2. QED
    BY <1>1, <1>3, <1>4, <1>6, <2>1, CallerFrame
<1>12. QED
  BY <1>7, <1>8, <1>9, <1>10, <1>11

\* A worker writes its own state and the flags, and only while it is alive.
LEMMA WorkerFrame ==
  ASSUME TypeOK, NEW r \in Runs, WorkerStep(r) \/ SessionEnds(r) \/ RuntimeStop(r)
  PROVE  /\ Alive(r)
         /\ \A q \in Runs \ {r} : run'[q] = run[q]
         /\ UNCHANGED <<clientVars, callerVars>>
<1>1. Alive(r)
  BY DEF Alive, Gone, Awaiting, WorkerStep, Worker, EndsSupervise, LeavesSupervise, CancelObserved, ReportManual,
    FirstPoll, DialOk, DialFails, SetConnected, PublishReady, Announce,
    ClearConnected, PublishConnecting, ReportDisconnect, Exhaust, Retry, SleepOver,
    EndClears, EndPublishesFirst, EndPublishesFailed, Finish, SessionEnds, RuntimeStop
<1>2. \A q \in Runs \ {r} : run'[q] = run[q]
  BY DEF TypeOK, WorkerStep, Worker, EndsSupervise, LeavesSupervise, CancelObserved, ReportManual,
    FirstPoll, DialOk, DialFails, SetConnected, PublishReady, Announce,
    ClearConnected, PublishConnecting, ReportDisconnect, Exhaust, Retry, SleepOver,
    EndClears, EndPublishesFirst, EndPublishesFailed, Finish, SessionEnds, RuntimeStop
<1>3. UNCHANGED <<clientVars, callerVars>>
  BY DEF WorkerStep, CancelObserved, ReportManual, FirstPoll, DialOk, DialFails, SetConnected,
    PublishReady, Announce, ClearConnected, PublishConnecting, ReportDisconnect,
    Exhaust, Retry, SleepOver, EndClears, EndPublishesFirst, EndPublishesFailed,
    Finish, SessionEnds, RuntimeStop
<1>4. QED
  BY <1>1, <1>2, <1>3

LEMMA WorkerWorkerInv ==
  ASSUME WorkerInv, NEW r \in Runs, WorkerStep(r) \/ SessionEnds(r) \/ RuntimeStop(r)
  PROVE  WorkerInv'
<1>1. TypeOK'
  BY WorkerType DEF WorkerInv
<1>2. /\ Alive(r)
      /\ \A q \in Runs \ {r} : run'[q] = run[q]
      /\ UNCHANGED <<clientVars, callerVars>>
  BY WorkerFrame DEF WorkerInv
<1>3. \A q \in Runs : Alive(q)' => Alive(q)
  BY <1>2 DEF Alive
<1>4. OneWorker'
  BY <1>2, <1>3 DEF WorkerInv, OneWorker, clientVars
<1>5. NoneOrFinished => NoneOrFinished'
  BY <1>2 DEF NoneOrFinished, IsFinished, Alive, clientVars
<1>6. MutualExclusion' /\ SpawnIsSafe' /\ NoCallAfterDrop'
  BY <1>2, <1>5 DEF WorkerInv, MutualExclusion, SpawnIsSafe, NoCallAfterDrop,
    clientVars, callerVars
<1>7. QED
  BY <1>1, <1>4, <1>6 DEF WorkerInv

LEMMA NextWorkerInv == WorkerInv /\ [Next]_vars => WorkerInv'
<1> SUFFICES ASSUME WorkerInv, [Next]_vars PROVE WorkerInv'
  OBVIOUS
<1>1. ASSUME NEW c \in Callers, Caller(c) PROVE WorkerInv'
  BY <1>1, CallerWorkerInv
<1>2. CASE LastHandleDropped
  <2>1. TypeOK'
    BY <1>2, NextType DEF Next, WorkerInv
  <2>2. \A r \in Runs : run'[r].phase = run[r].phase
    BY <1>2, CancelFrame DEF LastHandleDropped, WorkerInv
  <2>3. \A r \in Runs : Alive(r)' <=> Alive(r)
    BY <2>2 DEF Alive
  <2>4. \A c \in Callers : pc'[c] = "idle"
    BY <1>2 DEF LastHandleDropped, callerVars
  <2>5. dropped'
    BY <1>2 DEF LastHandleDropped
  <2>6. OneWorker'
    BY <2>3, <2>5 DEF WorkerInv, OneWorker
  <2>7. QED
    BY <2>1, <2>4, <2>6
    DEF WorkerInv, MutualExclusion, SpawnIsSafe, NoCallAfterDrop, Holding
<1>3. ASSUME NEW r \in Runs, WorkerStep(r) \/ SessionEnds(r) \/ RuntimeStop(r)
      PROVE  WorkerInv'
  BY <1>3, WorkerWorkerInv
<1>4. CASE UNCHANGED vars
  <2>1. TypeOK'
    BY <1>4, NextType DEF WorkerInv
  <2>2. QED
    BY <1>4, <2>1 DEF vars, clientVars, callerVars, WorkerInv, MutualExclusion,
      SpawnIsSafe, NoCallAfterDrop, OneWorker, NoneOrFinished, IsFinished, Alive
<1>5. QED
  BY <1>1, <1>2, <1>3, <1>4 DEF Next

LEMMA WorkerInvAlways == Spec => []WorkerInv
  BY InitWorkerInv, NextWorkerInv, PTL DEF Spec

\* At most one worker lives, and it is the one in the mutex, however connect,
\* disconnect, destroy and dropped futures overlap.
THEOREM OneWorkerAlways == Spec => []OneWorker
<1>1. WorkerInv => OneWorker
  BY DEF WorkerInv
<1>2. QED
  BY <1>1, WorkerInvAlways, PTL

-----------------------------------------------------------------------------
(* The connected flag, as long as no runtime is shut down *)

SessionInv == WorkerInv /\ ConnectedIffSession

\* The worker that takes a step is the only one, so the flag is about it alone.
LEMMA OnlyWorker ==
  ASSUME SessionInv, NEW r \in Runs, WorkerStep(r) \/ SessionEnds(r) \/ RuntimeStop(r)
  PROVE  /\ connected <=> HasSession(r)
         /\ ConnectedIffSession' <=> (connected' <=> HasSession(r)')
         /\ \A q \in Runs \ {r} : ~Alive(q) /\ ~Alive(q)'
<1>1. /\ Alive(r)
      /\ \A q \in Runs \ {r} : run'[q] = run[q]
  BY WorkerFrame DEF SessionInv, WorkerInv
<1>2. \A q \in Runs \ {r} : ~Alive(q)
  BY <1>1 DEF SessionInv, WorkerInv, OneWorker
<1>3. \A q \in Runs \ {r} : ~Alive(q)'
  BY <1>1, <1>2 DEF Alive
<1>4. \A q \in Runs : (HasSession(q) => Alive(q)) /\ (HasSession(q)' => Alive(q)')
  BY DEF HasSession, Alive, Gone
<1>5. /\ (\E q \in Runs : HasSession(q)) <=> HasSession(r)
      /\ (\E q \in Runs : HasSession(q)') <=> HasSession(r)'
  BY <1>2, <1>3, <1>4
<1>6. QED
  BY <1>2, <1>3, <1>5 DEF SessionInv, ConnectedIffSession

\* What each kind of step does to the flag, the generation and the phase of its
\* worker: a row per kind.
Open == {"up", "ready", "online", "lost"}
Idle == {"spawned", "dialing", "backoff", "down", "drained", "retry", "cancelled",
         "ending", "cleared", "failing", "draining"}

Effect(r) ==
  LET from == run[r].phase
      to == run'[r].phase
  IN
  \/ /\ from = "dialing" /\ to = "authenticated"
     /\ generation' = generation + 1 /\ UNCHANGED connected
  \/ /\ from = "authenticated" /\ to = "up"
     /\ connected' = TRUE /\ UNCHANGED generation
  \/ /\ from \in Open /\ to \in Open
     /\ UNCHANGED <<connected, generation>>
  \/ /\ from \in Open \cup Idle /\ to \in Idle
     /\ connected' = FALSE /\ UNCHANGED generation
  \/ /\ from \in Idle /\ to \in Idle
     /\ UNCHANGED <<connected, generation>>
  \/ /\ from = "draining" /\ to = "finished"
     /\ UNCHANGED <<connected, generation>>

LEMMA WorkerEffect ==
  ASSUME TypeOK, ~RuntimeStops, NEW r \in Runs,
         WorkerStep(r) \/ SessionEnds(r) \/ RuntimeStop(r)
  PROVE  Effect(r)
<1>1. run \in [Runs -> RunState]
  BY DEF TypeOK
<1>2. ASSUME NEW from, EndsSupervise(r, from)
      PROVE  run[r].phase = from /\ run'[r].phase = "ending"
  BY <1>1, <1>2 DEF EndsSupervise, LeavesSupervise
<1>3. ASSUME NEW from, NEW to, Worker(r, from, to)
      PROVE  run[r].phase = from /\ run'[r].phase = to
  BY <1>1, <1>3 DEF Worker
<1>4. CASE DialOk(r)
  <2>1. run[r].phase = "dialing" /\ run'[r].phase = "authenticated"
    BY <1>1, <1>4 DEF DialOk
  <2>2. generation' = generation + 1 /\ UNCHANGED connected
    BY <1>4 DEF DialOk
  <2>3. QED
    BY <2>1, <2>2 DEF Effect
<1>5. CASE SetConnected(r)
  BY <1>3, <1>5 DEF SetConnected, Effect
<1>6. CASE PublishReady(r)
  <2>1. run[r].phase = "up" /\ run'[r].phase = "ready"
    BY <1>1, <1>6 DEF PublishReady
  <2>2. UNCHANGED <<connected, generation>>
    BY <1>6 DEF PublishReady
  <2>3. QED
    BY <2>1, <2>2 DEF Effect, Open
<1>7. CASE Announce(r)
  <2>1. run[r].phase = "ready" /\ run'[r].phase = "online"
    BY <1>1, <1>7 DEF Announce
  <2>2. UNCHANGED <<connected, generation>>
    BY <1>7 DEF Announce
  <2>3. QED
    BY <2>1, <2>2 DEF Effect, Open
<1>8. CASE SessionEnds(r)
  <2>1. PICK e \in SessionErrors :
          run' = [run EXCEPT ![r].phase = "lost", ![r].outcome = e]
    BY <1>8 DEF SessionEnds
  <2>2. run[r].phase = "online" /\ run'[r].phase = "lost"
    <3>1. run[r].phase = "online"
      BY <1>8 DEF SessionEnds
    <3>2. run'[r].phase = "lost"
      BY <1>1, <2>1
    <3>3. QED
      BY <3>1, <3>2
  <2>3. UNCHANGED <<connected, generation>>
    BY <1>8 DEF SessionEnds
  <2>4. QED
    BY <2>2, <2>3 DEF Effect, Open
<1>9. CASE ClearConnected(r)
  BY <1>3, <1>9 DEF ClearConnected, Effect, Open, Idle
<1>10. CASE CancelObserved(r)
  <2>1. run[r].phase \in Awaiting /\ run'[r].phase = "cancelled"
    BY <1>1, <1>10 DEF CancelObserved, LeavesSupervise
  <2>2. connected' = FALSE /\ UNCHANGED generation
    BY <1>10 DEF CancelObserved
  <2>3. QED
    BY <2>1, <2>2 DEF Effect, Open, Idle, Awaiting
<1>11. CASE EndClears(r)
  BY <1>3, <1>11 DEF EndClears, Effect, Idle
<1>12. CASE Finish(r)
  BY <1>3, <1>12 DEF Finish, Effect
<1>13. CASE FirstPoll(r)
  BY <1>3, <1>13 DEF FirstPoll, Effect, Idle
<1>14. CASE SleepOver(r)
  BY <1>3, <1>14 DEF SleepOver, Effect, Idle
<1>15. CASE DialFails(r)
  <2>1. EndsSupervise(r, "dialing") \/ Worker(r, "dialing", "retry")
    BY <1>15 DEF DialFails
  <2>2. run[r].phase = "dialing" /\ run'[r].phase \in {"ending", "retry"}
    BY <1>2, <1>3, <2>1
  <2>3. UNCHANGED <<connected, generation>>
    BY <1>15 DEF DialFails
  <2>4. QED
    BY <2>2, <2>3 DEF Effect, Idle
<1>16. CASE Exhaust(r)
  BY <1>2, <1>16 DEF Exhaust, Effect, Idle
<1>17. CASE ReportDisconnect(r)
  <2>1. run[r].phase = "drained"
    BY <1>2, <1>17 DEF ReportDisconnect
  <2>2. ASSUME run' = [run EXCEPT ![r].phase = "retry", ![r].outcome = "none"]
        PROVE  run'[r].phase = "retry"
    BY <1>1, <2>2
  <2>3. run'[r].phase \in {"ending", "retry"}
    BY <1>2, <1>17, <2>2 DEF ReportDisconnect
  <2>4. UNCHANGED <<connected, generation>>
    BY <1>17 DEF ReportDisconnect
  <2>5. QED
    BY <2>1, <2>3, <2>4 DEF Effect, Idle
<1>18. CASE Retry(r)
  <2>1. run[r].phase = "retry" /\ run'[r].phase = "backoff"
    BY <1>1, <1>18 DEF Retry
  <2>2. UNCHANGED <<connected, generation>>
    BY <1>18 DEF Retry
  <2>3. QED
    BY <2>1, <2>2 DEF Effect, Idle
<1>19. CASE PublishConnecting(r)
  <2>1. run[r].phase = "down" /\ run'[r].phase = "drained"
    BY <1>1, <1>19 DEF PublishConnecting
  <2>2. UNCHANGED <<connected, generation>>
    BY <1>19 DEF PublishConnecting
  <2>3. QED
    BY <2>1, <2>2 DEF Effect, Idle
<1>20. CASE EndPublishesFirst(r)
  <2>1. run[r].phase = "cleared" /\ run'[r].phase = "failing"
    BY <1>1, <1>20 DEF EndPublishesFirst
  <2>2. UNCHANGED <<connected, generation>>
    BY <1>20 DEF EndPublishesFirst
  <2>3. QED
    BY <2>1, <2>2 DEF Effect, Idle
<1>21. CASE EndPublishesFailed(r)
  <2>1. run[r].phase = "failing" /\ run'[r].phase = "draining"
    BY <1>1, <1>21 DEF EndPublishesFailed
  <2>2. UNCHANGED <<connected, generation>>
    BY <1>21 DEF EndPublishesFailed
  <2>3. QED
    BY <2>1, <2>2 DEF Effect, Idle
<1>22. CASE ReportManual(r)
  BY <1>3, <1>22 DEF ReportManual, Effect, Idle
<1>23. QED
  BY <1>4, <1>5, <1>6, <1>7, <1>8, <1>9, <1>10, <1>11, <1>12, <1>13,
     <1>14, <1>15, <1>16, <1>17, <1>18, <1>19, <1>20, <1>21, <1>22
  DEF WorkerStep, RuntimeStop

\* Row by row, the flag stays equivalent to the worker's having a session.
LEMMA WorkerSession ==
  ASSUME SessionInv, ~RuntimeStops, NEW r \in Runs,
         WorkerStep(r) \/ SessionEnds(r) \/ RuntimeStop(r)
  PROVE  connected' <=> HasSession(r)'
<1>1. connected <=> HasSession(r)
  BY OnlyWorker
<1>2. Effect(r)
  BY WorkerEffect DEF SessionInv, WorkerInv
<1>3. HasSession(r) <=> run[r].phase \in Open
  BY DEF HasSession, Open
<1>4. HasSession(r)' <=> run'[r].phase \in Open
  BY DEF HasSession, Open
<1>5. QED
  BY <1>1, <1>2, <1>3, <1>4 DEF Effect, Open, Idle

\* No caller touches the flag or gives a session to a worker.
LEMMA CallerSession ==
  ASSUME SessionInv, NEW c \in Callers, Caller(c)
  PROVE  ConnectedIffSession'
<1>1. UNCHANGED connected
  BY DEF Caller, TakesLock, CallReturns,
    ConnectCall, DisconnectCall, DestroyCall, CallDropped, ConnectLocked,
    DisconnectLocked, ConnectStarts, ConnectSpawn, ConnectNoRuntime, ConnectJoin,
    ConnectWatch, ConnectFirst, ConnectStatus, ConnectOrphaned, ConnectReturns,
    DisconnectJoined
<1>2. \A r \in Runs : HasSession(r)' <=> HasSession(r)
  <2>1. CASE ConnectSpawn(c)
    <3>1. \A r \in Runs : ~Alive(r)
      <4>1. pc[c] = "connect.spawn" /\ ~dropped
        BY <2>1 DEF ConnectSpawn, Goto, SessionInv, WorkerInv, NoCallAfterDrop
      <4>2. QED
        BY <4>1 DEF SessionInv, WorkerInv, SpawnIsSafe, NoneOrFinished, IsFinished,
          OneWorker, Alive
    <3>2. QED
      BY <2>1, <3>1 DEF ConnectSpawn, HasSession, Alive, Gone, SessionInv, WorkerInv,
        TypeOK
  <2>2. CASE DisconnectLocked(c)
    BY <2>2, CancelFrame DEF DisconnectLocked, HasSession, SessionInv, WorkerInv
  <2>3. CASE ~ConnectSpawn(c) /\ ~DisconnectLocked(c)
    <3>1. UNCHANGED run
      BY <2>3 DEF Caller, TakesLock, CallReturns,
        ConnectCall, DisconnectCall, DestroyCall, CallDropped, ConnectLocked,
        ConnectStarts, ConnectNoRuntime, ConnectJoin, ConnectWatch, ConnectFirst,
        ConnectStatus, ConnectOrphaned, ConnectReturns, DisconnectJoined
    <3>2. QED
      BY <3>1 DEF HasSession
  <2>4. QED
    BY <2>1, <2>2, <2>3
<1>3. QED
  BY <1>1, <1>2 DEF SessionInv, ConnectedIffSession

LEMMA NextSessionInv ==
  ASSUME ~RuntimeStops
  PROVE  SessionInv /\ [Next]_vars => SessionInv'
<1> SUFFICES ASSUME SessionInv, [Next]_vars PROVE SessionInv'
  OBVIOUS
<1>1. WorkerInv'
  BY NextWorkerInv DEF SessionInv
<1>2. ASSUME NEW c \in Callers, Caller(c) PROVE ConnectedIffSession'
  BY <1>2, CallerSession
<1>3. ASSUME LastHandleDropped PROVE ConnectedIffSession'
  <2>1. \A r \in Runs : run'[r].phase = run[r].phase
    BY <1>3, CancelFrame DEF LastHandleDropped, SessionInv, WorkerInv
  <2>2. UNCHANGED connected
    BY <1>3 DEF LastHandleDropped
  <2>3. QED
    BY <2>1, <2>2 DEF SessionInv, ConnectedIffSession, HasSession
<1>4. ASSUME NEW r \in Runs, WorkerStep(r) \/ SessionEnds(r) \/ RuntimeStop(r)
      PROVE  ConnectedIffSession'
  BY <1>4, OnlyWorker, WorkerSession
<1>5. ASSUME UNCHANGED vars PROVE ConnectedIffSession'
  BY <1>5 DEF vars, SessionInv, ConnectedIffSession, HasSession
<1>6. QED
  BY <1>1, <1>2, <1>3, <1>4, <1>5 DEF Next, SessionInv

LEMMA InitSessionInv == Init => SessionInv
<1> SUFFICES ASSUME Init PROVE SessionInv
  OBVIOUS
<1>1. ConnectedIffSession
  BY DEF Init, ConnectedIffSession, HasSession, Unborn
<1>2. QED
  BY <1>1, InitWorkerInv DEF SessionInv

LEMMA SessionInvAlways ==
  ASSUME ~RuntimeStops
  PROVE  Spec => []SessionInv
  BY InitSessionInv, NextSessionInv, PTL DEF Spec

\* The flag is up exactly while a worker has an announced session.
THEOREM ConnectedAlways ==
  ASSUME ~RuntimeStops
  PROVE  Spec => []ConnectedIffSession
<1>1. SessionInv => ConnectedIffSession
  BY DEF SessionInv
<1>2. QED
  BY <1>1, SessionInvAlways, PTL

\* A handle without a run leaves nothing behind.
THEOREM DisconnectAwaitsCleanupAlways ==
  ASSUME ~RuntimeStops
  PROVE  Spec => []DisconnectAwaitsCleanup
<1>1. ASSUME SessionInv, running = NoRun, ~dropped PROVE Quiescent
  <2>1. \A r \in Runs : ~Alive(r)
    BY <1>1 DEF SessionInv, WorkerInv, OneWorker, NoRun, Runs
  <2>2. ~connected
    BY <1>1, <2>1 DEF SessionInv, ConnectedIffSession, HasSession, Alive, Gone
  <2>3. QED
    BY <2>1, <2>2 DEF Quiescent
<1>2. SessionInv => DisconnectAwaitsCleanup
  BY <1>1 DEF DisconnectAwaitsCleanup
<1>3. QED
  BY <1>2, SessionInvAlways, PTL

-----------------------------------------------------------------------------
(* Destroyed for good *)

\* From a destroyed and torn down client no step leads out.
LEMMA ClosedStays ==
  ASSUME TypeOK, [Next]_vars, Closed
  PROVE  Closed'
<1>1. CASE UNCHANGED vars
  BY <1>1 DEF Closed, Quiescent, Alive, vars, clientVars, callerVars
<1>2. ASSUME NEW r \in Runs, WorkerStep(r) \/ SessionEnds(r) \/ RuntimeStop(r)
      PROVE  FALSE
  BY <1>2, WorkerFrame DEF Closed, Quiescent
<1>3. CASE LastHandleDropped
  BY <1>3 DEF LastHandleDropped, Closed, Quiescent, Alive, callerVars
<1>4. ASSUME NEW c \in Callers, Caller(c) PROVE Closed'
  <2>1. UNCHANGED <<running, run, connected>> /\ destroyed'
    BY <1>4 DEF Closed, Caller, TakesLock, CallReturns, Goto, clientVars,
      ConnectCall, DisconnectCall, DestroyCall, CallDropped, ConnectLocked,
      DisconnectLocked, ConnectStarts, ConnectSpawn, ConnectNoRuntime, ConnectJoin,
      ConnectWatch, ConnectFirst, ConnectStatus, ConnectOrphaned, ConnectReturns,
      DisconnectJoined
  <2>2. \A d \in Callers : pc'[d] \notin {"connect.run", "connect.spawn"}
    BY <1>4 DEF Closed, TypeOK, Caller, TakesLock, CallReturns, Goto,
      ConnectCall, DisconnectCall, DestroyCall, CallDropped, ConnectLocked,
      DisconnectLocked, ConnectStarts, ConnectSpawn, ConnectNoRuntime, ConnectJoin,
      ConnectWatch, ConnectFirst, ConnectStatus, ConnectOrphaned, ConnectReturns,
      DisconnectJoined
  <2>3. QED
    BY <2>1, <2>2 DEF Closed, Quiescent, Alive
<1>5. QED
  BY <1>1, <1>2, <1>3, <1>4 DEF Next

\* The call that tears a destroyed client down has the mutex, so no connect() is
\* past its check of the flag, and leaves no run in it.
LEMMA TeardownCloses ==
  ASSUME SessionInv, SessionInv', destroyed, NEW c \in Callers, TearsDown(c)
  PROVE  Closed'
<1>1. /\ pc[c] \in {"disconnect.lock", "disconnect.join"} /\ pc'[c] = "idle"
      /\ \A d \in Callers \ {c} : pc'[d] = pc[d] /\ pc[d] \notin Holding
      /\ UNCHANGED <<destroyed, dropped>>
  BY DEF TearsDown, DisconnectLocked, DisconnectJoined, Goto, LockFree, clientVars,
    SessionInv, WorkerInv, TypeOK, MutualExclusion, Holding
<1>2. running' = NoRun
  <2>1. CASE DisconnectLocked(c) /\ running = NoRun
    BY <2>1 DEF DisconnectLocked, clientVars
  <2>2. CASE DisconnectLocked(c) /\ running # NoRun
    BY <1>1, <2>2 DEF DisconnectLocked, Goto, SessionInv, WorkerInv, TypeOK
  <2>3. CASE DisconnectJoined(c)
    BY <2>3 DEF DisconnectJoined
  <2> QED BY <2>1, <2>2, <2>3 DEF TearsDown
<1>3. ~dropped'
  BY <1>1 DEF SessionInv, WorkerInv, NoCallAfterDrop
<1>4. (\A r \in Runs : ~Alive(r))'
  BY <1>2, <1>3 DEF SessionInv, WorkerInv, OneWorker, NoRun, Runs
<1>5. ~connected'
  BY <1>4 DEF SessionInv, ConnectedIffSession, HasSession, Alive, Gone
<1>6. \A d \in Callers : pc'[d] \notin {"connect.run", "connect.spawn"}
  BY <1>1 DEF Holding
<1> QED
  BY <1>1, <1>2, <1>4, <1>5, <1>6 DEF Closed, Quiescent

\* A destroyed client that is torn down is closed, also against a connect() that
\* had passed its check, and no step leads out of that.
THEOREM DestroyIsFinalAlways ==
  ASSUME ~RuntimeStops
  PROVE  Spec => DestroyIsFinal
<1>1. ASSUME SessionInv, SessionInv', [Next]_vars, destroyed,
             Closed \/ \E c \in Callers : TearsDown(c)
      PROVE  Closed'
  BY <1>1, ClosedStays, TeardownCloses DEF SessionInv, WorkerInv
<1>2. SessionInv /\ SessionInv' /\ [Next]_vars =>
        [destroyed /\ (Closed \/ \E c \in Callers : TearsDown(c)) => Closed']_vars
  BY <1>1
<1>3. QED
  BY <1>2, SessionInvAlways, PTL DEF Spec, DestroyIsFinal

-----------------------------------------------------------------------------
(* Lifecycle implements Connection, as long as no runtime is shut down *)

Live == \E r \in Runs : Alive(r)
Fresh == \E r \in Runs : run[r].phase = "authenticated"

\* The abstract state after a step in which it did not change.
LEMMA Stutter ==
  ASSUME Live' <=> Live, Fresh' <=> Fresh, UNCHANGED <<connected, generation>>
  PROVE  UNCHANGED C!vars
  BY DEF C!vars, Live, Fresh

LEMMA WorkerRefines ==
  ASSUME SessionInv, ~RuntimeStops, NEW r \in Runs,
         WorkerStep(r) \/ SessionEnds(r) \/ RuntimeStop(r)
  PROVE  [C!Next]_C!vars
<1>1. Effect(r)
  BY WorkerEffect DEF SessionInv, WorkerInv
<1>2. /\ connected <=> HasSession(r)
      /\ \A q \in Runs \ {r} : ~Alive(q) /\ ~Alive(q)'
  BY OnlyWorker
<1>3. \A q \in Runs \ {r} : run[q].phase # "authenticated" /\ run'[q].phase # "authenticated"
  BY <1>2 DEF Alive, Gone
<1>4. /\ Live
      /\ Live' <=> Alive(r)'
  BY <1>2, WorkerFrame DEF Live, SessionInv, WorkerInv
<1>5. /\ Fresh <=> run[r].phase = "authenticated"
      /\ Fresh' <=> run'[r].phase = "authenticated"
  BY <1>3 DEF Fresh
<1>6. connected <=> run[r].phase \in Open
  BY <1>2 DEF HasSession, Open
<1>7. Alive(r)' <=> run'[r].phase \notin {"unborn", "finished", "aborted"}
  BY DEF Alive, Gone
<1>8. connected \in BOOLEAN
  BY DEF SessionInv, WorkerInv, TypeOK
<1>9. CASE /\ run[r].phase = "dialing" /\ run'[r].phase = "authenticated"
           /\ generation' = generation + 1 /\ UNCHANGED connected
  <2>1. Live /\ Live' /\ ~Fresh /\ Fresh' /\ ~connected
    BY <1>4, <1>5, <1>6, <1>7, <1>9 DEF Open
  <2>2. C!Authenticate
    BY <1>9, <2>1 DEF C!Authenticate, Live, Fresh
  <2>3. QED
    BY <2>2 DEF C!Next
<1>10. CASE /\ run[r].phase = "authenticated" /\ run'[r].phase = "up"
            /\ connected' = TRUE /\ UNCHANGED generation
  <2>1. Live /\ Live' /\ Fresh /\ ~Fresh'
    BY <1>4, <1>5, <1>7, <1>10
  <2>2. C!Up
    BY <1>10, <2>1 DEF C!Up, Live, Fresh
  <2>3. QED
    BY <2>2 DEF C!Next
<1>11. CASE /\ run[r].phase \in Open /\ run'[r].phase \in Open
            /\ UNCHANGED <<connected, generation>>
  <2>1. Live /\ Live' /\ ~Fresh /\ ~Fresh'
    BY <1>4, <1>5, <1>7, <1>11 DEF Open
  <2>2. QED
    BY <1>11, <2>1, Stutter
<1>12. CASE /\ run[r].phase \in Open \cup Idle /\ run'[r].phase \in Idle
            /\ connected' = FALSE /\ UNCHANGED generation
  <2>1. Live /\ Live' /\ ~Fresh /\ ~Fresh'
    BY <1>4, <1>5, <1>7, <1>12 DEF Open, Idle
  <2>2. CASE connected
    <3>1. C!Down
      BY <1>12, <2>1, <2>2 DEF C!Down, Live, Fresh
    <3>2. QED
      BY <3>1 DEF C!Next
  <2>3. CASE ~connected
    <3>1. UNCHANGED <<connected, generation>>
      BY <1>8, <1>12, <2>3
    <3>2. QED
      BY <2>1, <3>1, Stutter
  <2>4. QED
    BY <2>2, <2>3
<1>13. CASE /\ run[r].phase \in Idle /\ run'[r].phase \in Idle
            /\ UNCHANGED <<connected, generation>>
  <2>1. Live /\ Live' /\ ~Fresh /\ ~Fresh'
    BY <1>4, <1>5, <1>7, <1>13 DEF Idle
  <2>2. QED
    BY <1>13, <2>1, Stutter
<1>14. CASE /\ run[r].phase = "draining" /\ run'[r].phase = "finished"
            /\ UNCHANGED <<connected, generation>>
  <2>1. Live /\ ~Live' /\ ~Fresh /\ ~Fresh' /\ ~connected
    BY <1>4, <1>5, <1>6, <1>7, <1>14 DEF Open
  <2>2. C!Stop
    BY <1>14, <2>1 DEF C!Stop, Live, Fresh
  <2>3. QED
    BY <2>2 DEF C!Next
<1>15. QED
  BY <1>1, <1>9, <1>10, <1>11, <1>12, <1>13, <1>14 DEF Effect

LEMMA CallerRefines ==
  ASSUME SessionInv, NEW c \in Callers, Caller(c)
  PROVE  [C!Next]_C!vars
<1>1. UNCHANGED <<connected, generation>>
  BY DEF Caller, TakesLock, CallReturns,
    ConnectCall, DisconnectCall, DestroyCall, CallDropped, ConnectLocked,
    DisconnectLocked, ConnectStarts, ConnectSpawn, ConnectNoRuntime, ConnectJoin,
    ConnectWatch, ConnectFirst, ConnectStatus, ConnectOrphaned, ConnectReturns,
    DisconnectJoined
<1>2. CASE ConnectSpawn(c)
  <2>1. \A r \in Runs : ~Alive(r)
    <3>1. pc[c] = "connect.spawn" /\ ~dropped
      BY <1>2 DEF ConnectSpawn, Goto, SessionInv, WorkerInv, NoCallAfterDrop
    <3>2. QED
      BY <3>1 DEF SessionInv, WorkerInv, SpawnIsSafe, NoneOrFinished, IsFinished,
        OneWorker, Alive
  <2>2. spawned + 1 \in Runs
    BY <1>2, LifecycleAssumption DEF ConnectSpawn, SessionInv, WorkerInv, TypeOK, Runs
  <2>3. /\ run'[spawned + 1].phase = "spawned"
        /\ \A r \in Runs \ {spawned + 1} : run'[r] = run[r]
    BY <1>2, <2>2 DEF ConnectSpawn, SessionInv, WorkerInv, TypeOK
  <2>4. ~Live /\ Live'
    BY <2>1, <2>2, <2>3 DEF Live, Alive, Gone
  <2>5. ~Fresh /\ ~Fresh'
    BY <2>1, <2>3 DEF Fresh, Alive, Gone
  <2>6. C!Start
    BY <1>1, <2>4, <2>5 DEF C!Start, Live, Fresh
  <2>7. QED
    BY <2>6 DEF C!Next
<1>3. CASE ~ConnectSpawn(c)
  <2>1. \A r \in Runs : run'[r].phase = run[r].phase
    <3>1. CASE DisconnectLocked(c)
      BY <3>1, CancelFrame DEF DisconnectLocked, SessionInv, WorkerInv
    <3>2. CASE ~DisconnectLocked(c)
      BY <1>3, <3>2 DEF Caller, TakesLock, CallReturns, clientVars,
        ConnectCall, DisconnectCall, DestroyCall, CallDropped, ConnectLocked,
        ConnectStarts, ConnectNoRuntime, ConnectJoin, ConnectWatch, ConnectFirst,
        ConnectStatus, ConnectOrphaned, ConnectReturns, DisconnectJoined
    <3>3. QED
      BY <3>1, <3>2
  <2>2. (Live' <=> Live) /\ (Fresh' <=> Fresh)
    BY <2>1 DEF Live, Fresh, Alive
  <2>3. QED
    BY <1>1, <2>2, Stutter
<1>4. QED
  BY <1>2, <1>3

\* Every step of Lifecycle is a step of Connection or leaves it as it is: senders
\* may rely on Connection whatever the worker and the other callers do.
THEOREM LifecycleImplementsConnection ==
  ASSUME ~RuntimeStops
  PROVE  Spec => ImplementsConnection
<1>1. Init => C!Init
  BY DEF Init, C!Init, Alive, Unborn
<1>2. SessionInv /\ [Next]_vars => [C!Next]_C!vars
  <2> SUFFICES ASSUME SessionInv, [Next]_vars PROVE [C!Next]_C!vars
    OBVIOUS
  <2>1. ASSUME NEW c \in Callers, Caller(c) PROVE [C!Next]_C!vars
    BY <2>1, CallerRefines
  <2>2. CASE LastHandleDropped
    <3>1. \A r \in Runs : run'[r].phase = run[r].phase
      BY <2>2, CancelFrame DEF LastHandleDropped, SessionInv, WorkerInv
    <3>2. (Live' <=> Live) /\ (Fresh' <=> Fresh)
      BY <3>1 DEF Live, Fresh, Alive
    <3>3. QED
      BY <2>2, <3>2, Stutter DEF LastHandleDropped
  <2>3. ASSUME NEW r \in Runs, WorkerStep(r) \/ SessionEnds(r) \/ RuntimeStop(r)
        PROVE  [C!Next]_C!vars
    BY <2>3, WorkerRefines
  <2>4. CASE UNCHANGED vars
    BY <2>4, Stutter DEF vars, Live, Fresh, Alive
  <2>5. QED
    BY <2>1, <2>2, <2>3, <2>4 DEF Next
<1>3. QED
  BY <1>1, <1>2, SessionInvAlways, PTL DEF Spec, ImplementsConnection, C!Spec

-----------------------------------------------------------------------------
(* What a step of a worker does to the worker and to the events *)

\* The steps that emit nothing and count nothing.
Quiet ==
  {<<"spawned", "dialing">>, <<"authenticated", "up">>, <<"up", "ready">>,
   <<"online", "lost">>, <<"lost", "down">>, <<"down", "drained">>,
   <<"backoff", "dialing">>, <<"ending", "cleared">>, <<"cleared", "failing">>,
   <<"failing", "draining">>, <<"draining", "finished">>}

Passes(r, from, to) == run[r].phase = from /\ run'[r].phase = to

Keeps(r) ==
  run'[r].attempt = run[r].attempt /\ run'[r].established = run[r].established

\* A row per kind of step, as Effect has one for what it does to the flag.
Move(r) ==
  \/ /\ \E m \in Quiet : Passes(r, m[1], m[2])
     /\ Keeps(r) /\ UNCHANGED lastEvent
  \/ /\ Passes(r, "dialing", "authenticated")
     /\ run'[r].attempt = 0 /\ run'[r].established /\ UNCHANGED lastEvent
  \/ /\ Passes(r, "dialing", "retry") /\ run[r].established
     /\ Keeps(r) /\ UNCHANGED lastEvent
  \/ Passes(r, "dialing", "ending") /\ UNCHANGED lastEvent
  \/ (\E from \in Awaiting : Passes(r, from, "cancelled")) /\ UNCHANGED lastEvent
  \/ Passes(r, "cancelled", "ending") /\ Emit("Manual", r, 0)
  \/ Passes(r, "ready", "online") /\ Keeps(r) /\ Emit("Connect", r, generation)
  \/ /\ Passes(r, "drained", "retry") /\ Keeps(r)
     /\ \E kind \in Lost : Emit(kind, r, generation)
  \/ Passes(r, "drained", "ending") /\ Emit("Server", r, generation)
  \/ /\ Passes(r, "retry", "ending") /\ run[r].attempt = MaxReconnects
     /\ Emit("Exhausted", r, 0)
  \/ /\ Passes(r, "retry", "backoff") /\ run[r].attempt < MaxReconnects
     /\ run'[r].attempt = run[r].attempt + 1
     /\ run'[r].established = run[r].established
     /\ Emit("Reconnecting", r, run[r].attempt + 1)
  \/ /\ RuntimeStops
     /\ \E from \in Awaiting : Passes(r, from, "aborted")
     /\ Keeps(r) /\ UNCHANGED lastEvent

\* status is written at three places only.
Status(r) ==
  run'[r].status = CASE run'[r].phase = "ready" -> "Ready"
                     [] run'[r].phase = "drained" -> "Connecting"
                     [] run'[r].phase = "draining" -> "Failed"
                     [] OTHER -> run[r].status

LEMMA WorkerMoves ==
  ASSUME TypeOK, NEW r \in Runs, WorkerStep(r) \/ SessionEnds(r) \/ RuntimeStop(r)
  PROVE  Move(r) /\ Status(r)
<1>1. run \in [Runs -> RunState]
  BY DEF TypeOK
<1>2. ASSUME NEW from, EndsSupervise(r, from)
      PROVE  Passes(r, from, "ending") /\ Status(r)
  BY <1>1, <1>2 DEF EndsSupervise, LeavesSupervise, Passes, Status
<1>3. ASSUME NEW from, NEW to, Worker(r, from, to), to \notin {"ready", "drained", "draining"}
      PROVE  Passes(r, from, to) /\ Keeps(r) /\ Status(r)
  BY <1>1, <1>3 DEF Worker, Passes, Keeps, Status
<1>4. CASE FirstPoll(r)
  BY <1>3, <1>4 DEF FirstPoll, Move, Quiet
<1>5. CASE SetConnected(r)
  BY <1>3, <1>5 DEF SetConnected, Move, Quiet
<1>6. CASE PublishReady(r)
  <2>1. Passes(r, "up", "ready") /\ Keeps(r) /\ Status(r)
    BY <1>1, <1>6 DEF PublishReady, Passes, Keeps, Status
  <2> QED BY <1>6, <2>1 DEF PublishReady, Move, Quiet
<1>7. CASE SessionEnds(r)
  <2>1. PICK e \in SessionErrors :
          run' = [run EXCEPT ![r].phase = "lost", ![r].outcome = e]
    BY <1>7 DEF SessionEnds
  <2>2. run[r].phase = "online"
    BY <1>7 DEF SessionEnds
  <2>3. run'[r] = [run[r] EXCEPT !.phase = "lost", !.outcome = e]
    BY <1>1, <2>1
  <2>4. run[r] \in RunState
    BY <1>1
  <2>5. Passes(r, "online", "lost") /\ Keeps(r) /\ Status(r)
    BY <2>2, <2>3, <2>4 DEF RunState, Passes, Keeps, Status
  <2> QED BY <1>7, <2>5 DEF SessionEnds, Move, Quiet
<1>8. CASE ClearConnected(r)
  BY <1>3, <1>8 DEF ClearConnected, Move, Quiet
<1>9. CASE PublishConnecting(r)
  <2>1. Passes(r, "down", "drained") /\ Keeps(r) /\ Status(r)
    BY <1>1, <1>9 DEF PublishConnecting, Passes, Keeps, Status
  <2> QED BY <1>9, <2>1 DEF PublishConnecting, Move, Quiet
<1>10. CASE SleepOver(r)
  BY <1>3, <1>10 DEF SleepOver, Move, Quiet
<1>11. CASE EndClears(r)
  BY <1>3, <1>11 DEF EndClears, Move, Quiet
<1>12. CASE EndPublishesFirst(r)
  <2>1. Passes(r, "cleared", "failing") /\ Keeps(r) /\ Status(r)
    BY <1>1, <1>12 DEF EndPublishesFirst, Passes, Keeps, Status
  <2> QED BY <1>12, <2>1 DEF EndPublishesFirst, Move, Quiet
<1>13. CASE EndPublishesFailed(r)
  <2>1. Passes(r, "failing", "draining") /\ Keeps(r) /\ Status(r)
    BY <1>1, <1>13 DEF EndPublishesFailed, Passes, Keeps, Status
  <2> QED BY <1>13, <2>1 DEF EndPublishesFailed, Move, Quiet
<1>14. CASE Finish(r)
  BY <1>3, <1>14 DEF Finish, Move, Quiet
<1>15. CASE DialOk(r)
  <2>1. /\ Passes(r, "dialing", "authenticated") /\ Status(r)
        /\ run'[r].attempt = 0 /\ run'[r].established
    BY <1>1, <1>15 DEF DialOk, Passes, Status
  <2> QED BY <1>15, <2>1 DEF DialOk, Move
<1>16. CASE DialFails(r)
  <2>1. \/ EndsSupervise(r, "dialing")
        \/ run[r].established /\ Worker(r, "dialing", "retry")
    BY <1>16 DEF DialFails
  <2> QED BY <1>2, <1>3, <1>16, <2>1 DEF DialFails, Move
<1>17. CASE CancelObserved(r)
  <2>1. (\E from \in Awaiting : Passes(r, from, "cancelled")) /\ Status(r)
    BY <1>1, <1>17 DEF CancelObserved, LeavesSupervise, Passes, Status
  <2> QED BY <1>17, <2>1 DEF CancelObserved, Move
<1>18. CASE Announce(r)
  <2>1. Passes(r, "ready", "online") /\ Keeps(r) /\ Status(r)
    BY <1>1, <1>18 DEF Announce, Passes, Keeps, Status
  <2> QED BY <1>18, <2>1 DEF Announce, Move
<1>19. CASE ReportDisconnect(r)
  <2>1. CASE run[r].outcome = "Server"
    <3>1. Passes(r, "drained", "ending") /\ Status(r)
      BY <1>2, <1>19, <2>1 DEF ReportDisconnect
    <3>2. Emit("Server", r, generation)
      BY <1>19, <2>1 DEF ReportDisconnect, Reason
    <3> QED BY <3>1, <3>2 DEF Move
  <2>2. CASE run[r].outcome # "Server"
    <3>1. run' = [run EXCEPT ![r].phase = "retry", ![r].outcome = "none"]
      BY <1>19, <2>2 DEF ReportDisconnect
    <3>2. Passes(r, "drained", "retry") /\ Keeps(r) /\ Status(r)
      BY <1>1, <1>19, <3>1 DEF ReportDisconnect, Passes, Keeps, Status
    <3>3. Reason(run[r].outcome) \in Lost
      BY <2>2 DEF Reason, Lost
    <3>4. \E kind \in Lost : Emit(kind, r, generation)
      BY <1>19, <3>3 DEF ReportDisconnect
    <3> QED BY <3>2, <3>4 DEF Move
  <2> QED BY <2>1, <2>2
<1>20. CASE Exhaust(r)
  <2>1. run[r].attempt \in 0..MaxReconnects
    BY <1>1 DEF RunState
  <2>2. run[r].attempt = MaxReconnects
    BY <1>20, <2>1, LifecycleAssumption DEF Exhaust
  <2> QED BY <1>2, <1>20, <2>2 DEF Exhaust, Move
<1>21. CASE Retry(r)
  <2>1. /\ Passes(r, "retry", "backoff") /\ Status(r)
        /\ run'[r].attempt = run[r].attempt + 1
        /\ run'[r].established = run[r].established
    BY <1>1, <1>21 DEF Retry, Passes, Status
  <2> QED BY <1>21, <2>1 DEF Retry, Move
<1>22. CASE RuntimeStop(r)
  <2>1. PICK from \in Awaiting : Worker(r, from, "aborted")
    BY <1>22 DEF RuntimeStop
  <2>2. Passes(r, from, "aborted") /\ Keeps(r) /\ Status(r)
    BY <1>3, <2>1
  <2> QED BY <1>22, <2>2 DEF RuntimeStop, Move
<1>23. CASE ReportManual(r)
  BY <1>3, <1>23 DEF ReportManual, Move
<1> QED
  BY <1>4, <1>5, <1>6, <1>7, <1>8, <1>9, <1>10, <1>11, <1>12, <1>13, <1>14, <1>15,
     <1>16, <1>17, <1>18, <1>19, <1>20, <1>21, <1>22, <1>23
  DEF WorkerStep

Same(r) ==
  /\ run'[r].phase = run[r].phase
  /\ Keeps(r)
  /\ run'[r].status = run[r].status

LEMMA CancelSame ==
  ASSUME TypeOK, NEW s, CancelRun(s)
  PROVE  \A r \in Runs : Same(r)
  BY DEF CancelRun, TypeOK, Same, Keeps

\* A caller spawns a worker when there is none, or leaves the workers where they are.
LEMMA CallerMoves ==
  ASSUME WorkerInv, NEW c \in Callers, Caller(c)
  PROVE  /\ UNCHANGED <<lastEvent, connected, generation>>
         /\ \/ ConnectSpawn(c) /\ \A r \in Runs : ~Alive(r)
            \/ UNCHANGED spawned /\ \A r \in Runs : Same(r)
<1>1. UNCHANGED <<lastEvent, connected, generation>>
  BY DEF Caller, TakesLock, CallReturns,
    ConnectCall, DisconnectCall, DestroyCall, CallDropped, ConnectLocked,
    DisconnectLocked, ConnectStarts, ConnectSpawn, ConnectNoRuntime, ConnectJoin,
    ConnectWatch, ConnectFirst, ConnectStatus, ConnectOrphaned, ConnectReturns,
    DisconnectJoined
<1>2. CASE ConnectSpawn(c)
  <2>1. pc[c] = "connect.spawn" /\ ~dropped
    BY <1>2 DEF ConnectSpawn, Goto, WorkerInv, NoCallAfterDrop
  <2>2. \A r \in Runs : ~Alive(r)
    BY <2>1 DEF WorkerInv, SpawnIsSafe, NoneOrFinished, IsFinished, OneWorker, Alive
  <2> QED BY <1>1, <1>2, <2>2
<1>3. CASE DisconnectLocked(c)
  <2>1. UNCHANGED run \/ CancelRun(running)
    BY <1>3 DEF DisconnectLocked
  <2>2. \A r \in Runs : Same(r)
    BY <2>1, CancelSame DEF WorkerInv, Same, Keeps
  <2>3. UNCHANGED spawned
    BY <1>3 DEF DisconnectLocked, clientVars
  <2> QED BY <1>1, <2>2, <2>3
<1>4. CASE ~ConnectSpawn(c) /\ ~DisconnectLocked(c)
  <2>1. UNCHANGED <<run, spawned>>
    BY <1>4 DEF Caller, TakesLock, CallReturns, clientVars,
      ConnectCall, DisconnectCall, DestroyCall, CallDropped, ConnectLocked,
      ConnectStarts, ConnectNoRuntime, ConnectJoin, ConnectWatch, ConnectFirst,
      ConnectStatus, ConnectOrphaned, ConnectReturns, DisconnectJoined
  <2> QED BY <1>1, <2>1 DEF Same, Keeps
<1> QED
  BY <1>2, <1>3, <1>4

\* The worker that is spawned is a new one.
LEMMA SpawnMoves ==
  ASSUME TypeOK, NEW c \in Callers, ConnectSpawn(c)
  PROVE  /\ spawned' = spawned + 1 /\ spawned + 1 \in Runs
         /\ run'[spawned + 1] = [run[spawned + 1] EXCEPT !.phase = "spawned"]
         /\ \A r \in Runs \ {spawned + 1} : run'[r] = run[r]
<1>1. spawned + 1 \in Runs
  BY LifecycleAssumption DEF ConnectSpawn, TypeOK, Runs
<1> QED
  BY <1>1 DEF ConnectSpawn, TypeOK

LEMMA DropMoves ==
  ASSUME TypeOK, LastHandleDropped
  PROVE  /\ UNCHANGED <<spawned, lastEvent, connected, generation>>
         /\ \A r \in Runs : Same(r)
<1>1. UNCHANGED run \/ CancelRun(running)
  BY DEF LastHandleDropped
<1>2. \A r \in Runs : Same(r)
  BY <1>1, CancelSame DEF Same, Keeps
<1> QED
  BY <1>2 DEF LastHandleDropped

LEMMA StutterMoves ==
  ASSUME UNCHANGED vars
  PROVE  /\ UNCHANGED <<spawned, lastEvent, connected, generation>>
         /\ \A r \in Runs : Same(r)
  BY DEF vars, clientVars, Same, Keeps

-----------------------------------------------------------------------------
(* A Ready that is recent *)

\* A run that was never spawned is blank: a worker starts without the status and
\* the locals of another.
Blank == \A r \in Runs : r > spawned => run[r].phase = "unborn" /\ ~run[r].established

LEMMA WorkerBlank ==
  ASSUME WorkerInv, Blank, NEW r \in Runs,
         WorkerStep(r) \/ SessionEnds(r) \/ RuntimeStop(r)
  PROVE  Blank'
<1>1. /\ Alive(r) /\ UNCHANGED spawned
      /\ \A q \in Runs \ {r} : run'[q] = run[q]
  BY WorkerFrame DEF WorkerInv, clientVars
<1>2. ~(r > spawned)
  BY <1>1 DEF Blank, Alive
<1> QED
  BY <1>1, <1>2 DEF Blank

LEMMA SameBlank ==
  ASSUME Blank, UNCHANGED spawned, \A r \in Runs : Same(r)
  PROVE  Blank'
  BY DEF Blank, Same, Keeps

LEMMA SpawnBlank ==
  ASSUME WorkerInv, Blank, NEW c \in Callers, ConnectSpawn(c)
  PROVE  Blank'
<1>1. /\ spawned' = spawned + 1
      /\ \A r \in Runs \ {spawned + 1} : run'[r] = run[r]
  BY SpawnMoves DEF WorkerInv
<1>2. spawned \in Nat /\ Runs \subseteq Nat
  BY LifecycleAssumption DEF WorkerInv, TypeOK, Runs
<1>3. \A r \in Runs : r > spawned + 1 => r > spawned /\ r # spawned + 1
  BY <1>2
<1> QED
  BY <1>1, <1>3 DEF Blank

ReadyInv == WorkerInv /\ Blank /\ ReadyIsRecent

LEMMA NextReadyInv ==
  ASSUME ~RuntimeStops
  PROVE  ReadyInv /\ [Next]_vars => ReadyInv'
<1> SUFFICES ASSUME ReadyInv, [Next]_vars PROVE ReadyInv'
  OBVIOUS
<1>1. WorkerInv'
  BY NextWorkerInv DEF ReadyInv
<1>2. ASSUME UNCHANGED spawned, \A r \in Runs : Same(r)
      PROVE  Blank' /\ ReadyIsRecent'
  BY <1>2, SameBlank DEF ReadyInv, ReadyIsRecent, Same
<1>3. ASSUME NEW c \in Callers, Caller(c) PROVE Blank' /\ ReadyIsRecent'
  <2>1. CASE ConnectSpawn(c)
    <3>1. /\ spawned + 1 \in Runs
          /\ run'[spawned + 1] = [run[spawned + 1] EXCEPT !.phase = "spawned"]
          /\ \A r \in Runs \ {spawned + 1} : run'[r] = run[r]
      BY <2>1, SpawnMoves DEF ReadyInv, WorkerInv
    <3>2. run[spawned + 1].phase = "unborn" /\ run[spawned + 1] \in RunState
      BY <3>1, LifecycleAssumption DEF ReadyInv, Blank, WorkerInv, TypeOK
    <3>3. run'[spawned + 1].status # "Ready"
      BY <3>1, <3>2 DEF ReadyInv, ReadyIsRecent, RunState
    <3>4. ReadyIsRecent'
      BY <3>1, <3>3 DEF ReadyInv, ReadyIsRecent
    <3> QED BY <2>1, <3>4, SpawnBlank DEF ReadyInv
  <2> QED BY <1>2, <1>3, <2>1, CallerMoves DEF ReadyInv
<1>4. ASSUME LastHandleDropped PROVE Blank' /\ ReadyIsRecent'
  BY <1>2, <1>4, DropMoves DEF ReadyInv, WorkerInv
<1>5. ASSUME NEW r \in Runs, WorkerStep(r) \/ SessionEnds(r) \/ RuntimeStop(r)
      PROVE  Blank' /\ ReadyIsRecent'
  <2>1. \A q \in Runs \ {r} : run'[q] = run[q]
    BY <1>5, WorkerFrame DEF ReadyInv, WorkerInv
  <2>2. Move(r) /\ Status(r)
    BY <1>5, WorkerMoves DEF ReadyInv, WorkerInv
  <2>3. run'[r].status = "Ready" =>
          run'[r].phase \in {"ready", "online", "lost", "down", "cancelled",
                             "ending", "cleared", "failing"}
    BY <2>2 DEF ReadyInv, ReadyIsRecent, Move, Status, Quiet, Passes, Awaiting
  <2>4. ReadyIsRecent'
    BY <2>1, <2>3 DEF ReadyInv, ReadyIsRecent
  <2> QED BY <1>5, <2>4, WorkerBlank DEF ReadyInv
<1>6. ASSUME UNCHANGED vars PROVE Blank' /\ ReadyIsRecent'
  BY <1>2, <1>6, StutterMoves
<1> QED
  BY <1>1, <1>3, <1>4, <1>5, <1>6 DEF Next, ReadyInv

\* A connect() that joins a worker is never told Ready by a session the worker has
\* given up, while it sleeps, dials or once it is over.
THEOREM ReadyIsAlwaysRecent ==
  ASSUME ~RuntimeStops
  PROVE  Spec => []ReadyIsRecent
<1>1. Init => ReadyInv
  <2> SUFFICES ASSUME Init PROVE ReadyInv
    OBVIOUS
  <2>1. \A r \in Runs : run[r] = Unborn
    BY DEF Init
  <2> QED BY <2>1, InitWorkerInv DEF ReadyInv, Blank, ReadyIsRecent, Unborn
<1>2. ReadyInv => ReadyIsRecent
  BY DEF ReadyInv
<1> QED
  BY <1>1, <1>2, NextReadyInv, PTL DEF Spec

-----------------------------------------------------------------------------
(* The order of the events, as long as no runtime is shut down *)

(***************************************************************************)
(* What the last event says of the one worker that may live: where it is,  *)
(* of which run the event is and, between two sessions, how many attempts  *)
(* it has announced.  A run that is over had nothing left to report.       *)
(***************************************************************************)
Heard(r) == lastEvent.run = r

Counted(r) ==
  /\ Heard(r) /\ lastEvent.kind = "Reconnecting"
  /\ run[r].attempt >= 1 /\ lastEvent.n = run[r].attempt

HeardAs(r) ==
  LET phase == run[r].phase IN
  /\ phase = "spawned" => ~Heard(r) /\ ~run[r].established
  /\ phase = "dialing" => IF run[r].established THEN Counted(r) ELSE ~Heard(r)
  /\ phase \in Opening => (Heard(r) => lastEvent.kind = "Reconnecting")
  /\ phase \in Opening \cup {"online", "lost", "down", "drained"} =>
       run[r].attempt = 0 /\ run[r].established
  /\ phase \in {"online", "lost", "down", "drained"} =>
       Heard(r) /\ lastEvent.kind = "Connect"
  /\ phase = "retry" =>
       /\ run[r].established
       /\ \/ Counted(r)
          \/ Heard(r) /\ lastEvent.kind \in Lost /\ run[r].attempt = 0
  /\ phase = "backoff" => Counted(r) /\ run[r].established
  /\ phase = "cancelled" => (Heard(r) => lastEvent.kind \notin Terminal)
  /\ phase \in {"ending", "cleared", "failing", "draining"} =>
       (Heard(r) => lastEvent.kind \in Terminal \cup {"Reconnecting"})

Over == Terminal \cup {"none", "Reconnecting"}

EventInv ==
  /\ WorkerInv
  /\ Blank
  /\ lastEvent.run <= spawned
  /\ \A r \in Runs : Alive(r) => r = spawned /\ HeardAs(r)
  /\ (\A r \in Runs : Alive(r) => ~Heard(r)) => lastEvent.kind \in Over

LEMMA SameEvents ==
  ASSUME EventInv, WorkerInv', UNCHANGED <<spawned, lastEvent>>, \A r \in Runs : Same(r)
  PROVE  EventInv'
<1>1. \A r \in Runs : (Alive(r)' <=> Alive(r)) /\ (Heard(r)' <=> Heard(r))
  BY DEF Alive, Heard, Same
<1>2. \A r \in Runs : HeardAs(r) => HeardAs(r)'
  BY DEF HeardAs, Heard, Counted, Same, Keeps
<1>3. Blank'
  BY SameBlank DEF EventInv
<1> QED
  BY <1>1, <1>2, <1>3 DEF EventInv

LEMMA SpawnEvents ==
  ASSUME EventInv, WorkerInv', NEW c \in Callers, ConnectSpawn(c),
         \A r \in Runs : ~Alive(r), UNCHANGED lastEvent
  PROVE  EventInv'
<1>1. PICK new \in Runs : new = spawned + 1
  BY SpawnMoves DEF EventInv, WorkerInv
<1>2. /\ spawned' = new
      /\ run'[new] = [run[new] EXCEPT !.phase = "spawned"]
      /\ \A r \in Runs \ {new} : run'[r] = run[r]
  BY <1>1, SpawnMoves DEF EventInv, WorkerInv
<1>3. new > spawned /\ lastEvent.run \in Nat /\ lastEvent.run < new
  BY <1>1, LifecycleAssumption DEF EventInv, WorkerInv, TypeOK
<1>4. run'[new].phase = "spawned" /\ ~run'[new].established
  BY <1>2, <1>3 DEF EventInv, Blank, WorkerInv, TypeOK, RunState
<1>5. \A r \in Runs : Alive(r)' => r = new
  BY <1>2 DEF Alive
<1>6. HeardAs(new)'
  BY <1>3, <1>4 DEF HeardAs, Heard, Opening
<1>7. lastEvent.kind \in Over
  BY DEF EventInv
<1>8. Blank'
  BY SpawnBlank DEF EventInv
<1>9. (lastEvent.run <= spawned)'
  BY <1>1, <1>2, <1>3 DEF Runs
<1>10. \A r \in Runs : Alive(r)' => r = spawned' /\ HeardAs(r)'
  BY <1>2, <1>5, <1>6
<1> QED
  BY <1>7, <1>8, <1>9, <1>10 DEF EventInv

\* The rows of Move, one by one: the event that is emitted may follow the last one,
\* and it is what the phase the worker goes to says.
LEMMA WorkerEvents ==
  ASSUME TypeOK, EventInv, ~RuntimeStops, NEW r \in Runs, Alive(r), Move(r)
  PROVE  /\ lastEvent' # lastEvent => MayFollow(lastEvent, lastEvent')
         /\ HeardAs(r)'
         /\ lastEvent' = lastEvent \/ lastEvent'.run = r
         /\ run'[r].phase = "finished" /\ lastEvent'.run = r => lastEvent'.kind \in Over
<1>1. r = spawned /\ HeardAs(r) /\ r \in Nat
  BY LifecycleAssumption DEF EventInv, Runs
<1>2. lastEvent.run \in Nat /\ lastEvent.run <= r
  BY <1>1, LifecycleAssumption DEF EventInv, TypeOK
<1>3. ~Heard(r) => lastEvent.kind \in Over /\ lastEvent.run < r
  <2>1. ~Heard(r) => \A q \in Runs : Alive(q) => ~Heard(q)
    BY <1>1 DEF EventInv
  <2> QED BY <1>1, <1>2, <2>1 DEF EventInv, Heard
<1>4. run[r].attempt \in Nat /\ run[r].attempt <= MaxReconnects
  BY LifecycleAssumption DEF TypeOK, RunState
<1>5. ASSUME NEW m \in Quiet, Passes(r, m[1], m[2]), Keeps(r), UNCHANGED lastEvent
      PROVE  HeardAs(r)' /\ (run'[r].phase = "finished" /\ Heard(r) => lastEvent.kind \in Over)
  <2>1. /\ (Heard(r)' <=> Heard(r)) /\ (Counted(r)' <=> Counted(r))
        /\ run'[r].established = run[r].established /\ run'[r].attempt = run[r].attempt
    BY <1>5 DEF Heard, Counted, Keeps
  <2>2. m \in Quiet /\ run[r].phase = m[1] /\ run'[r].phase = m[2]
    BY <1>5 DEF Passes
  <2> QED BY <1>1, <1>5, <2>1, <2>2 DEF HeardAs, Quiet, Opening, Over
<1>6. CASE Passes(r, "dialing", "authenticated") /\ run'[r].attempt = 0
           /\ run'[r].established /\ UNCHANGED lastEvent
  BY <1>1, <1>6 DEF Passes, HeardAs, Heard, Counted, Opening
<1>7. CASE Passes(r, "dialing", "retry") /\ run[r].established
           /\ Keeps(r) /\ UNCHANGED lastEvent
  BY <1>1, <1>7 DEF Passes, Keeps, HeardAs, Heard, Counted, Opening
<1>8. CASE Passes(r, "dialing", "ending") /\ UNCHANGED lastEvent
  BY <1>1, <1>8 DEF Passes, HeardAs, Heard, Counted, Opening
<1>9. CASE Passes(r, "cancelled", "ending") /\ Emit("Manual", r, 0)
  <2>1. lastEvent' = Event("Manual", r, 0)
    BY <1>9 DEF Emit
  <2>2. run'[r].phase = "ending" /\ run[r].phase = "cancelled"
    BY <1>9 DEF Passes
  <2>3. Heard(r) => lastEvent.kind \notin Terminal
    BY <1>1, <2>2 DEF HeardAs
  <2>4. MayFollow(lastEvent, lastEvent')
    BY <1>1, <1>3, <2>1, <2>3 DEF MayFollow, Event, Heard, Over
  <2>5. HeardAs(r)'
    BY <2>1, <2>2 DEF HeardAs, Event, Terminal, Opening
  <2> QED BY <2>1, <2>2, <2>4, <2>5 DEF Event
<1>10. CASE Passes(r, "ready", "online") /\ Keeps(r) /\ Emit("Connect", r, generation)
  <2>1. lastEvent' = Event("Connect", r, generation)
    BY <1>10 DEF Emit
  <2>2. run'[r].phase = "online" /\ run[r].phase = "ready"
    BY <1>10 DEF Passes
  <2>3. /\ Heard(r) => lastEvent.kind = "Reconnecting"
        /\ run'[r].attempt = 0 /\ run'[r].established
    BY <1>1, <1>10, <2>2 DEF HeardAs, Opening, Keeps
  <2>4. MayFollow(lastEvent, lastEvent')
    BY <1>1, <1>3, <2>1, <2>3 DEF MayFollow, Event, Heard, Over
  <2>5. HeardAs(r)'
    BY <2>1, <2>2, <2>3 DEF HeardAs, Heard, Event, Opening
  <2> QED BY <2>1, <2>2, <2>4, <2>5 DEF Event
<1>11. CASE Passes(r, "drained", "retry") /\ Keeps(r)
            /\ \E kind \in Lost : Emit(kind, r, generation)
  <2>1. PICK kind \in Lost : lastEvent' = Event(kind, r, generation)
    BY <1>11 DEF Emit
  <2>2. run'[r].phase = "retry" /\ run[r].phase = "drained"
    BY <1>11 DEF Passes
  <2>3. /\ Heard(r) /\ lastEvent.kind = "Connect"
        /\ run'[r].attempt = 0 /\ run'[r].established
    BY <1>1, <1>11, <2>2 DEF HeardAs, Keeps
  <2>4. MayFollow(lastEvent, lastEvent')
    BY <2>1, <2>3 DEF MayFollow, Event, Heard
  <2>5. HeardAs(r)'
    BY <2>1, <2>2, <2>3 DEF HeardAs, Heard, Event, Opening
  <2> QED BY <2>1, <2>2, <2>4, <2>5 DEF Event
<1>12. CASE Passes(r, "drained", "ending") /\ Emit("Server", r, generation)
  <2>1. lastEvent' = Event("Server", r, generation)
    BY <1>12 DEF Emit
  <2>2. run'[r].phase = "ending" /\ run[r].phase = "drained"
    BY <1>12 DEF Passes
  <2>3. Heard(r) /\ lastEvent.kind = "Connect"
    BY <1>1, <2>2 DEF HeardAs
  <2>4. MayFollow(lastEvent, lastEvent')
    BY <2>1, <2>3 DEF MayFollow, Event, Heard
  <2>5. HeardAs(r)'
    BY <2>1, <2>2 DEF HeardAs, Event, Terminal, Opening
  <2> QED BY <2>1, <2>2, <2>4, <2>5 DEF Event
<1>13. CASE Passes(r, "retry", "ending") /\ run[r].attempt = MaxReconnects
            /\ Emit("Exhausted", r, 0)
  <2>1. lastEvent' = Event("Exhausted", r, 0)
    BY <1>13 DEF Emit
  <2>2. run'[r].phase = "ending" /\ run[r].phase = "retry"
    BY <1>13 DEF Passes
  <2>3. \/ Heard(r) /\ lastEvent.kind = "Reconnecting" /\ lastEvent.n = MaxReconnects
        \/ Heard(r) /\ lastEvent.kind \in Lost /\ MaxReconnects = 0
    BY <1>1, <1>13, <2>2 DEF HeardAs, Counted
  <2>4. MayFollow(lastEvent, lastEvent')
    BY <2>1, <2>3 DEF MayFollow, Event, Heard
  <2>5. HeardAs(r)'
    BY <2>1, <2>2 DEF HeardAs, Event, Terminal, Opening
  <2> QED BY <2>1, <2>2, <2>4, <2>5 DEF Event
<1>14. CASE /\ Passes(r, "retry", "backoff") /\ run[r].attempt < MaxReconnects
            /\ run'[r].attempt = run[r].attempt + 1
            /\ run'[r].established = run[r].established
            /\ Emit("Reconnecting", r, run[r].attempt + 1)
  <2>1. lastEvent' = Event("Reconnecting", r, run[r].attempt + 1)
    BY <1>14 DEF Emit
  <2>2. run'[r].phase = "backoff" /\ run[r].phase = "retry"
    BY <1>14 DEF Passes
  <2>3. \/ Heard(r) /\ lastEvent.kind = "Reconnecting" /\ lastEvent.n = run[r].attempt
        \/ Heard(r) /\ lastEvent.kind \in Lost /\ run[r].attempt = 0
    BY <1>1, <2>2 DEF HeardAs, Counted
  <2>4. run[r].attempt + 1 <= MaxReconnects /\ run[r].attempt + 1 >= 1
    BY <1>4, <1>14, LifecycleAssumption
  <2>5. MayFollow(lastEvent, lastEvent')
    BY <2>1, <2>3, <2>4 DEF MayFollow, Event, Heard
  <2>6. Counted(r)' /\ run'[r].established
    BY <1>1, <1>14, <2>1, <2>2, <2>4 DEF Counted, Heard, Event, HeardAs
  <2>7. HeardAs(r)'
    BY <2>2, <2>6 DEF HeardAs, Opening
  <2> QED BY <2>1, <2>2, <2>5, <2>7 DEF Event
<1>15. ASSUME NEW m \in Quiet, Passes(r, m[1], m[2]), Keeps(r), UNCHANGED lastEvent
       PROVE  /\ lastEvent' # lastEvent => MayFollow(lastEvent, lastEvent')
              /\ HeardAs(r)'
              /\ lastEvent' = lastEvent \/ lastEvent'.run = r
              /\ run'[r].phase = "finished" /\ lastEvent'.run = r
                   => lastEvent'.kind \in Over
  BY <1>5, <1>15 DEF Heard
<1>16. run'[r].phase = "finished" => \E m \in Quiet : Passes(r, m[1], m[2]) /\ Keeps(r) /\ UNCHANGED lastEvent
  BY DEF Move, Passes
<1>17. CASE (\E from \in Awaiting : Passes(r, from, "cancelled")) /\ UNCHANGED lastEvent
  <2>1. run'[r].phase = "cancelled" /\ run[r].phase \in Awaiting
    BY <1>17 DEF Passes
  <2>2. Heard(r) => lastEvent.kind \notin Terminal
    BY <1>1, <2>1 DEF Awaiting, HeardAs, Counted, Terminal
  <2>3. HeardAs(r)'
    BY <1>17, <2>1, <2>2 DEF HeardAs, Heard, Opening
  <2> QED BY <1>17, <2>1, <2>3
<1> QED
  BY <1>6, <1>7, <1>8, <1>9, <1>10, <1>11, <1>12, <1>13, <1>14, <1>15, <1>16, <1>17
  DEF Move, Passes

LEMMA NextEventInv ==
  ASSUME ~RuntimeStops
  PROVE  EventInv /\ [Next]_vars =>
           EventInv' /\ (lastEvent' # lastEvent => MayFollow(lastEvent, lastEvent'))
<1> SUFFICES ASSUME EventInv, [Next]_vars
             PROVE  EventInv' /\ (lastEvent' # lastEvent => MayFollow(lastEvent, lastEvent'))
  OBVIOUS
<1>1. WorkerInv'
  BY NextWorkerInv DEF EventInv
<1>2. CASE \E c \in Callers : Caller(c)
  BY <1>1, <1>2, CallerMoves, SameEvents, SpawnEvents DEF EventInv
<1>3. CASE LastHandleDropped
  BY <1>1, <1>3, DropMoves, SameEvents DEF EventInv, WorkerInv
<1>4. ASSUME NEW r \in Runs, WorkerStep(r) \/ SessionEnds(r) \/ RuntimeStop(r)
      PROVE  EventInv' /\ (lastEvent' # lastEvent => MayFollow(lastEvent, lastEvent'))
  <2>1. /\ Alive(r) /\ UNCHANGED spawned
        /\ \A q \in Runs \ {r} : run'[q] = run[q]
    BY <1>4, WorkerFrame DEF EventInv, WorkerInv, clientVars
  <2>2. Move(r)
    BY <1>4, WorkerMoves DEF EventInv, WorkerInv
  <2>3. /\ lastEvent' # lastEvent => MayFollow(lastEvent, lastEvent')
        /\ HeardAs(r)'
        /\ lastEvent' = lastEvent \/ lastEvent'.run = r
        /\ run'[r].phase = "finished" /\ lastEvent'.run = r => lastEvent'.kind \in Over
    BY <2>1, <2>2, WorkerEvents DEF EventInv, WorkerInv
  <2>4. r = spawned
    BY <2>1 DEF EventInv
  <2>5. \A q \in Runs : Alive(q)' => q = r
    BY <2>1, <2>4 DEF EventInv, Alive
  <2>6. \A q \in Runs : Alive(q)' => q = spawned' /\ HeardAs(q)'
    BY <2>1, <2>3, <2>4, <2>5
  <2>7. (lastEvent.run <= spawned)'
    BY <2>1, <2>3, <2>4, LifecycleAssumption DEF EventInv, WorkerInv, TypeOK, Runs
  <2>8. (\A q \in Runs : Alive(q) => ~Heard(q))' => (lastEvent.kind \in Over)'
    <3> SUFFICES ASSUME (\A q \in Runs : Alive(q) => ~Heard(q))'
                 PROVE  lastEvent'.kind \in Over
      BY DEF Over, Terminal
    <3>1. CASE Alive(r)'
      <4>1. lastEvent' = lastEvent /\ ~Heard(r)
        BY <2>3, <3>1 DEF Heard
      <4> QED BY <2>4, <4>1 DEF EventInv
    <3>2. CASE ~Alive(r)'
      <4>1. run'[r].phase = "finished"
        BY <2>2, <3>2 DEF Move, Passes, Quiet, Alive, Gone
      <4>2. CASE lastEvent'.run = r
        BY <2>3, <4>1, <4>2
      <4>3. CASE lastEvent'.run # r
        BY <2>3, <2>4, <4>3 DEF EventInv, Heard
      <4> QED BY <4>2, <4>3
    <3> QED BY <3>1, <3>2
  <2>9. Blank'
    BY <1>4, WorkerBlank DEF EventInv
  <2> QED BY <1>1, <2>3, <2>6, <2>7, <2>8, <2>9 DEF EventInv
<1>5. CASE UNCHANGED vars
  BY <1>1, <1>5, StutterMoves, SameEvents
<1> QED
  BY <1>2, <1>3, <1>4, <1>5 DEF Next

LEMMA InitEventInv == Init => EventInv
<1> SUFFICES ASSUME Init PROVE EventInv
  OBVIOUS
<1>1. \A r \in Runs : run[r] = Unborn
  BY DEF Init
<1>2. lastEvent.run = 0 /\ lastEvent.kind = "none" /\ spawned = 0
  BY DEF Init, NoEvent, Event, NoRun
<1> QED
  BY <1>1, <1>2, InitWorkerInv DEF EventInv, Blank, Alive, Unborn, Over

LEMMA EventInvAlways ==
  ASSUME ~RuntimeStops
  PROVE  Spec => []EventInv
  BY InitEventInv, NextEventInv, PTL DEF Spec

\* Whatever callers and workers do, the events subscribers see in a row may follow
\* one another: one reason per session, no run overlapping another, attempts that
\* count up from 1 to at most MaxReconnects, nothing from a run that is over.
THEOREM EventsAreInOrder ==
  ASSUME ~RuntimeStops
  PROVE  Spec => EventOrder
<1>1. EventInv /\ [Next]_vars => [lastEvent' # lastEvent => MayFollow(lastEvent, lastEvent')]_vars
  BY NextEventInv
<1> QED
  BY <1>1, EventInvAlways, PTL DEF Spec, EventOrder
===============================================================================
