------------------------------ MODULE ChatProofs ------------------------------
(***************************************************************************)
(* Theorems about Chat and the event stream it reads, for any capacity of  *)
(* the channel, any number of sessions, attempts and other events.  Every  *)
(* step of Chat is one of Lifecycle or leaves it as it is, so what is      *)
(* proved of Lifecycle holds of it.                                        *)
(***************************************************************************)
EXTENDS Chat, LifecycleProofs

LEMMA TaskIsCaller == Task \in Callers
  BY ChatAssumption

LEMMA StepIsLifecycle == [ChatNext]_chatVars => [Next]_vars
<1> SUFFICES ASSUME [ChatNext]_chatVars PROVE [Next]_vars
  OBVIOUS
<1>1. CASE Start
  BY <1>1, TaskIsCaller DEF Start, Caller, Next
<1>2. CASE Connecting
  BY <1>2, TaskIsCaller DEF Connecting, ConnectSteps, Caller, TakesLock, CallReturns, Next
<1>3. CASE SendLine \/ LineSent \/ Quit
  BY <1>3 DEF SendLine, LineSent, Quit, allVars
<1>4. CASE HandleEvent \/ EventsLost
  BY <1>4 DEF HandleEvent, EventsLost, Receive, Lagged
<1>5. CASE Leave
  BY <1>5, TaskIsCaller DEF Leave, Caller, TakesLock, CallReturns, Next
<1>6. CASE Background
  BY <1>6 DEF Background, EmitOther, EmitError, WorkerFollows, SessionEndFollows, Next
<1>7. CASE UNCHANGED chatVars
  BY <1>7 DEF chatVars, allVars
<1> QED
  BY <1>1, <1>2, <1>3, <1>4, <1>5, <1>6, <1>7 DEF ChatNext

\* The chat program uses its client as any application may.
THEOREM ChatIsLifecycle == ChatSpec => Spec
<1>1. ChatInit => Init
  BY DEF ChatInit, StreamInit
<1> QED
  BY <1>1, StepIsLifecycle, PTL DEF ChatSpec, Spec

\* What is known of the lifecycle under chat.
ClientInv == SessionInv /\ EventInv

LEMMA ClientInvAlways ==
  ASSUME ~RuntimeStops
  PROVE  ChatSpec => []ClientInv
<1>1. SessionInv /\ EventInv => ClientInv
  BY DEF ClientInv
<1> QED
  BY <1>1, ChatIsLifecycle, SessionInvAlways, EventInvAlways, PTL

-----------------------------------------------------------------------------
(* Nothing is left *)

\* The handle is still there, and holds no run when chat is over.
LeaveInv == ~dropped /\ (chat = "over" => running = NoRun)

LEMMA NextLeaveInv ==
  ASSUME TypeOK, LeaveInv, [ChatNext]_chatVars
  PROVE  LeaveInv'
<1>1. CASE Start
  BY <1>1 DEF Start, ConnectCall, clientVars, LeaveInv
<1>2. CASE Connecting
  <2>1. UNCHANGED dropped
    BY <1>2 DEF Connecting, ConnectSteps, ConnectLocked, ConnectStarts, ConnectSpawn,
      ConnectFirst, ConnectReturns, clientVars
  <2>2. chat' # "over"
    BY <1>2 DEF Connecting
  <2> QED BY <2>1, <2>2 DEF LeaveInv
<1>3. CASE SendLine \/ LineSent \/ Quit
  BY <1>3 DEF SendLine, LineSent, Quit, allVars, vars, clientVars, LeaveInv
<1>4. CASE HandleEvent \/ EventsLost
  BY <1>4 DEF HandleEvent, EventsLost, Receive, Lagged, vars, clientVars, LeaveInv
<1>5. CASE Leave
  <2>1. CASE DestroyCall(Task) /\ UNCHANGED chat
    BY <1>5, <2>1 DEF Leave, DestroyCall, LeaveInv
  <2>2. CASE DisconnectLocked(Task) /\ chat' = IF pc'[Task] = "idle" THEN "over" ELSE "leaving"
    <3>1. UNCHANGED <<running, dropped>>
      BY <2>2 DEF DisconnectLocked, clientVars
    <3>2. running # NoRun => pc'[Task] = "disconnect.join"
      BY <2>2, TaskIsCaller DEF DisconnectLocked, Goto, TypeOK
    <3> QED BY <2>2, <3>1, <3>2 DEF LeaveInv
  <2>3. CASE DisconnectJoined(Task)
    BY <2>3 DEF DisconnectJoined, LeaveInv
  <2> QED BY <1>5, <2>1, <2>2, <2>3 DEF Leave
<1>6. CASE Background
  <2>1. UNCHANGED <<running, dropped>>
    <3>1. CASE EmitOther \/ EmitError
      BY <3>1 DEF EmitOther, EmitError, vars, clientVars
    <3>2. ASSUME NEW r \in Runs, WorkerStep(r) \/ SessionEnds(r)
          PROVE  UNCHANGED <<running, dropped>>
      BY <3>2, WorkerFrame DEF clientVars
    <3> QED BY <1>6, <3>1, <3>2 DEF Background, WorkerFollows, SessionEndFollows
  <2> QED BY <1>6, <2>1 DEF Background, LeaveInv
<1>7. CASE UNCHANGED chatVars
  BY <1>7 DEF chatVars, allVars, vars, clientVars, LeaveInv
<1> QED
  BY <1>1, <1>2, <1>3, <1>4, <1>5, <1>6, <1>7 DEF ChatNext

\* Whichever way chat ends, its worker and the socket are gone before it does.
THEOREM NothingIsLeft ==
  ASSUME ~RuntimeStops
  PROVE  ChatSpec => []NothingLeft
<1>1. ChatInit => LeaveInv
  BY DEF ChatInit, StreamInit, Init, LeaveInv
<1>2. ClientInv /\ LeaveInv /\ [ChatNext]_chatVars => LeaveInv'
  BY NextLeaveInv DEF ClientInv, SessionInv, WorkerInv
<1>3. ASSUME ClientInv, LeaveInv, chat = "over"
      PROVE  Quiescent /\ running = NoRun
  <2>1. running = NoRun /\ ~dropped
    BY <1>3 DEF LeaveInv
  <2>2. \A r \in Runs : ~Alive(r)
    BY <1>3, <2>1 DEF ClientInv, SessionInv, WorkerInv, OneWorker, NoRun, Runs
  <2>3. ~connected
    BY <1>3, <2>2 DEF ClientInv, SessionInv, ConnectedIffSession, HasSession, Alive, Gone
  <2> QED BY <2>1, <2>2, <2>3 DEF Quiescent
<1>4. ClientInv /\ LeaveInv => NothingLeft
  BY <1>3 DEF NothingLeft
<1> QED
  BY <1>1, <1>2, <1>4, ClientInvAlways, PTL DEF ChatSpec

-----------------------------------------------------------------------------
(* The subscriber's belief *)

\* The events that tell whether the client is connected.
Telling == {"Connect", "Manual", "Transport", "HeartbeatTimeout", "Server"}

\* What they told last, once all are read: the events that tell nothing follow one
\* that told a loss, never a Connect.
Up == lastEvent.kind = "Connect"

\* Up changes with a telling event and never without.
Reports ==
  IF lastEvent' = lastEvent \/ lastEvent'.kind \notin Telling
  THEN Up' <=> Up
  ELSE Up' <=> lastEvent'.kind = "Connect"

LEMMA WorkerReports ==
  ASSUME ClientInv, NEW r \in Runs, WorkerStep(r) \/ SessionEnds(r) \/ RuntimeStop(r)
  PROVE  Reports
<1>1. Move(r) /\ HeardAs(r)
  BY WorkerMoves, WorkerFrame DEF ClientInv, SessionInv, WorkerInv, EventInv
<1>2. ASSUME lastEvent' # lastEvent, lastEvent'.kind \notin Telling
      PROVE  ~Up /\ ~Up'
  <2>1. run[r].phase = "retry"
    <3>1. ASSUME NEW kind, NEW n, Emit(kind, r, n) PROVE lastEvent'.kind = kind
      BY <3>1 DEF Emit, Event
    <3> QED BY <1>1, <1>2, <3>1 DEF Move, Passes, Telling, Lost
  <2>2. ~Up
    BY <1>1, <2>1 DEF HeardAs, Counted, Lost, Up
  <2> QED BY <1>2, <2>2 DEF Up, Telling
<1> QED
  BY <1>2 DEF Reports, Up

\* The other steps report nothing.
LEMMA OtherReports ==
  ASSUME ClientInv, \E c \in Callers : Caller(c)
  PROVE  Reports
<1>1. UNCHANGED lastEvent
  BY CallerMoves DEF ClientInv, SessionInv
<1> QED
  BY <1>1 DEF Reports, Up

(***************************************************************************)
(* Between its steps a worker has a session exactly if the last event is   *)
(* the Connect of it: a worker that sleeps, dials or has yet to be polled  *)
(* was heard of by another event, and so was a run that is over.           *)
(***************************************************************************)
LEMMA SettledUp ==
  ASSUME ClientInv, Settled
  PROVE  Up <=> connected
<1>1. ASSUME NEW r \in Runs, Alive(r)
      PROVE  HeardAs(r) /\ run[r].phase \in Awaiting
  BY <1>1 DEF ClientInv, EventInv, Settled, Alive
<1>2. ASSUME Up PROVE \E r \in Runs : HasSession(r)
  <2>1. PICK r \in Runs : Alive(r) /\ Heard(r)
    BY <1>2 DEF ClientInv, EventInv, Up, Over, Terminal
  <2>2. run[r].phase = "online"
    BY <1>1, <1>2, <2>1 DEF HeardAs, Counted, Awaiting, Up
  <2> QED BY <2>2 DEF HasSession
<1>3. ASSUME NEW r \in Runs, HasSession(r) PROVE Up
  <2>1. Alive(r)
    BY <1>3 DEF HasSession, Alive, Gone
  <2>2. run[r].phase = "online" /\ HeardAs(r)
    BY <1>1, <1>3, <2>1 DEF HasSession, Awaiting
  <2> QED BY <2>2 DEF HeardAs, Up
<1> QED
  BY <1>2, <1>3 DEF ClientInv, SessionInv, ConnectedIffSession

-----------------------------------------------------------------------------
(* The channel *)

Kinds == {"none", "Connect", "Manual", "Transport", "Server", "HeartbeatTimeout",
          "Reconnecting", "Exhausted", "other"}

\* A sequence of bounded length to whose end k is put: all but perhaps its first
\* element move down by shift.
LEMMA BoundedAppend ==
  ASSUME NEW K, NEW s \in Seq(K), NEW k \in K, NEW cap \in Nat \ {0}, Len(s) <= cap,
         NEW t, t = Append(IF Len(s) < cap THEN s ELSE Tail(s), k)
  PROVE  \E shift \in {0, 1} :
           /\ t \in Seq(K) /\ Len(t) <= cap /\ Len(t) = Len(s) + 1 - shift
           /\ Len(t) >= 1 /\ t[Len(t)] = k
           /\ \A i \in 1..(Len(t) - 1) : i + shift \in 1..Len(s) /\ t[i] = s[i + shift]
<1>1. CASE Len(s) < cap
  <2>1. t = Append(s, k)
    BY <1>1
  <2>2. t \in Seq(K) /\ Len(t) = Len(s) + 1 /\ t[Len(t)] = k
    BY <2>1
  <2>3. \A i \in 1..(Len(t) - 1) : i + 0 \in 1..Len(s) /\ t[i] = s[i + 0]
    BY <2>1, <2>2
  <2>4. Len(t) <= cap /\ Len(t) = Len(s) + 1 - 0
    BY <1>1, <2>2
  <2> QED BY <2>2, <2>3, <2>4
<1>2. CASE ~(Len(s) < cap)
  <2>1. s # <<>> /\ Len(s) \in Nat /\ Len(s) = cap
    BY <1>2
  <2>2. /\ Tail(s) \in Seq(K) /\ Len(Tail(s)) = Len(s) - 1
        /\ \A i \in 1..(Len(s) - 1) : Tail(s)[i] = s[i + 1]
    BY <2>1
  <2>3. t = Append(Tail(s), k)
    BY <1>2
  <2>4. t \in Seq(K) /\ Len(t) = Len(s) /\ t[Len(t)] = k
    BY <2>1, <2>2, <2>3
  <2>5. \A i \in 1..(Len(t) - 1) : i + 1 \in 1..Len(s) /\ t[i] = s[i + 1]
    BY <2>1, <2>2, <2>3, <2>4
  <2>6. Len(t) <= cap /\ Len(t) = Len(s) + 1 - 1
    BY <2>1, <2>4
  <2> QED BY <2>4, <2>5, <2>6
<1> QED
  BY <1>1, <1>2

(***************************************************************************)
(* The last telling event that is retained agrees with the client, read or *)
(* not; and if nothing unread tells anything and nothing was lost, so does *)
(* the belief.                                                             *)
(***************************************************************************)
RingType ==
  /\ ring \in Seq(Kinds)
  /\ Len(ring) <= Capacity /\ Len(ring) <= sent
  /\ sent \in Nat /\ received \in Nat /\ received <= sent

LastTelling(i) ==
  ring[i] \in Telling /\ \A j \in DOMAIN ring : j > i => ring[j] \notin Telling

RingTells == \A i \in DOMAIN ring : LastTelling(i) => (ring[i] = "Connect" <=> Up)

AllTold ==
  /\ Behind <= Len(ring)
  /\ \A i \in DOMAIN ring : i > Len(ring) - Behind => ring[i] \notin Telling

BeliefFollows == AllTold /\ belief # "unknown" => (belief = "up" <=> Up)

StreamInv == RingType /\ RingTells /\ BeliefFollows

LEMMA BroadcastStream ==
  ASSUME StreamInv, NEW kind \in Kinds, Broadcast(kind),
         IF kind \in Telling THEN Up' <=> kind = "Connect" ELSE Up' <=> Up
  PROVE  StreamInv'
<1>1. PICK shift \in {0, 1} :
        /\ ring' \in Seq(Kinds) /\ Len(ring') <= Capacity
        /\ Len(ring') = Len(ring) + 1 - shift
        /\ Len(ring') >= 1 /\ ring'[Len(ring')] = kind
        /\ \A i \in 1..(Len(ring') - 1) :
             i + shift \in 1..Len(ring) /\ ring'[i] = ring[i + shift]
  BY BoundedAppend, EventStreamAssumption DEF StreamInv, RingType, Broadcast
<1>2. /\ sent' = sent + 1 /\ received' = received /\ belief' = belief
      /\ sent \in Nat /\ received \in Nat /\ Len(ring) \in Nat
      /\ Len(ring) <= sent /\ received <= sent
  BY DEF StreamInv, RingType, Broadcast
<1>3. DOMAIN ring = 1..Len(ring) /\ DOMAIN ring' = 1..Len(ring') /\ Len(ring') \in Nat
  BY <1>1 DEF StreamInv, RingType
<1>4. RingType'
  BY <1>1, <1>2 DEF RingType
<1>5. CASE kind \in Telling
  <2>1. Len(ring') \in DOMAIN ring'
    BY <1>1, <1>2, <1>3
  <2>2. RingTells'
    <3> SUFFICES ASSUME NEW i \in DOMAIN ring', LastTelling(i)'
                 PROVE  ring'[i] = "Connect" <=> Up'
      BY DEF RingTells
    <3>1. i = Len(ring')
      BY <1>1, <1>3, <1>5, <2>1 DEF LastTelling
    <3> QED BY <1>1, <1>5, <3>1
  <2>3. ~AllTold'
    BY <1>1, <1>2, <1>3, <1>5, <2>1 DEF AllTold, Behind
  <2> QED BY <1>4, <2>2, <2>3 DEF StreamInv, BeliefFollows
<1>6. CASE kind \notin Telling
  <2>1. RingTells'
    <3> SUFFICES ASSUME NEW i \in DOMAIN ring', LastTelling(i)'
                 PROVE  ring'[i] = "Connect" <=> Up'
      BY DEF RingTells
    <3>1. i \in 1..(Len(ring') - 1)
      BY <1>1, <1>3, <1>6 DEF LastTelling
    <3>2. i + shift \in DOMAIN ring /\ ring'[i] = ring[i + shift]
      BY <1>1, <1>3, <3>1
    <3>3. ASSUME NEW j \in DOMAIN ring, j > i + shift PROVE ring[j] \notin Telling
      <4>1. j - shift \in 1..(Len(ring') - 1) /\ j - shift > i /\ (j - shift) + shift = j
        BY <1>1, <1>2, <1>3, <3>1, <3>3
      <4>2. ring'[j - shift] = ring[j] /\ j - shift \in DOMAIN ring'
        BY <1>1, <1>3, <4>1
      <4> QED BY <4>1, <4>2 DEF LastTelling
    <3>4. LastTelling(i + shift)
      BY <3>2, <3>3 DEF LastTelling
    <3> QED BY <1>6, <3>2, <3>4 DEF StreamInv, RingTells
  <2>2. AllTold' => AllTold
    <3> SUFFICES ASSUME AllTold' PROVE AllTold
      OBVIOUS
    <3>1. Behind' = Behind + 1 /\ Behind \in Nat
      BY <1>2 DEF Behind
    <3>2. Behind <= Len(ring)
      BY <1>1, <1>2, <3>1 DEF AllTold
    <3>3. ASSUME NEW j \in DOMAIN ring, j > Len(ring) - Behind PROVE ring[j] \notin Telling
      <4>1. /\ j - shift \in 1..(Len(ring') - 1) /\ (j - shift) + shift = j
            /\ j - shift > Len(ring') - Behind'
        BY <1>1, <1>2, <1>3, <3>1, <3>3 DEF AllTold
      <4>2. ring'[j - shift] = ring[j] /\ j - shift \in DOMAIN ring'
        BY <1>1, <1>3, <4>1
      <4> QED BY <4>1, <4>2 DEF AllTold
    <3> QED BY <3>2, <3>3 DEF AllTold
  <2> QED BY <1>2, <1>4, <1>6, <2>1, <2>2 DEF StreamInv, BeliefFollows
<1> QED
  BY <1>5, <1>6

\* The client goes on without an event.
LEMMA SilentStream ==
  ASSUME StreamInv, UNCHANGED <<ring, sent, received, belief>>, Up' <=> Up
  PROVE  StreamInv'
  BY DEF StreamInv, RingType, RingTells, LastTelling, BeliefFollows, AllTold, Behind

LEMMA ReceiveStream ==
  ASSUME StreamInv, Receive, Up' <=> Up
  PROVE  StreamInv'
<1> DEFINE next == Len(ring) - Behind + 1
<1>1. /\ received' = received + 1 /\ UNCHANGED <<ring, sent>>
      /\ Behind > 0 /\ Behind <= Len(ring)
      /\ belief' = Believes(ring[next])
  BY DEF Receive
<1>2. /\ sent \in Nat /\ received \in Nat /\ received <= sent
      /\ Len(ring) \in Nat /\ Behind \in Nat /\ Behind' = Behind - 1
      /\ DOMAIN ring = 1..Len(ring)
  BY <1>1 DEF StreamInv, RingType, Behind
<1>3. next \in DOMAIN ring
  BY <1>1, <1>2
<1>4. RingType' /\ RingTells'
  BY <1>1, <1>2 DEF StreamInv, RingType, RingTells, LastTelling, Behind
<1>5. ASSUME AllTold', belief' # "unknown" PROVE belief' = "up" <=> Up
  <2>1. \A i \in DOMAIN ring : i > next => ring[i] \notin Telling
    BY <1>1, <1>2, <1>3, <1>5 DEF AllTold
  <2>2. CASE ring[next] \in Telling
    <3>1. ring[next] = "Connect" <=> Up
      BY <1>3, <2>1, <2>2 DEF StreamInv, RingTells, LastTelling
    <3>2. belief' = "up" <=> ring[next] = "Connect"
      BY <1>1, <2>2 DEF Believes, Telling
    <3> QED BY <3>1, <3>2
  <2>3. CASE ring[next] \notin Telling
    <3>1. belief' = belief
      BY <1>1, <2>3 DEF Believes, Telling
    <3>2. ASSUME NEW i \in DOMAIN ring, i > Len(ring) - Behind PROVE ring[i] \notin Telling
      <4>1. i = next \/ i > next
        BY <1>2, <3>2
      <4> QED BY <2>1, <2>3, <4>1
    <3>3. AllTold
      BY <1>1, <3>2 DEF AllTold
    <3> QED BY <1>5, <3>1, <3>3 DEF StreamInv, BeliefFollows
  <2> QED BY <2>2, <2>3
<1> QED
  BY <1>4, <1>5 DEF StreamInv, BeliefFollows

LEMMA LaggedStream ==
  ASSUME StreamInv, Lagged, Up' <=> Up
  PROVE  StreamInv'
<1>1. /\ UNCHANGED <<ring, sent>> /\ belief' = "unknown" /\ received' = sent - Len(ring)
  BY DEF Lagged
<1>2. sent \in Nat /\ Len(ring) \in Nat /\ Len(ring) <= sent
  BY DEF StreamInv, RingType
<1>3. RingType' /\ RingTells'
  BY <1>1, <1>2 DEF StreamInv, RingType, RingTells, LastTelling
<1> QED
  BY <1>1, <1>3 DEF StreamInv, BeliefFollows

\* A step of the lifecycle and the event it may emit.
LEMMA FollowsStream ==
  ASSUME StreamInv, Reports, Follows, TypeOK'
  PROVE  StreamInv'
<1>1. CASE lastEvent' = lastEvent
  BY <1>1, SilentStream DEF Reports, Follows
<1>2. CASE lastEvent' # lastEvent
  <2>1. lastEvent'.kind \in Kinds
    BY DEF TypeOK, Kinds
  <2>2. IF lastEvent'.kind \in Telling THEN Up' <=> lastEvent'.kind = "Connect"
                                       ELSE Up' <=> Up
    BY <1>2 DEF Reports
  <2>3. Broadcast(lastEvent'.kind)
    BY <1>2 DEF Follows
  <2> DEFINE kind == lastEvent'.kind
  <2> HIDE DEF kind
  <2> QED BY <2>1, <2>2, <2>3, BroadcastStream
<1> QED
  BY <1>1, <1>2

LEMMA NextStreamInv ==
  ASSUME ClientInv, TypeOK', StreamInv, [ChatNext]_chatVars
  PROVE  StreamInv'
<1>1. UNCHANGED vars => (Up' <=> Up)
  BY DEF Up, vars
<1>2. CASE Start \/ Connecting \/ Leave
  <2>1. Follows /\ \E c \in Callers : Caller(c)
    BY <1>2, TaskIsCaller DEF Start, Connecting, ConnectSteps, Leave, Caller, TakesLock,
      CallReturns
  <2> QED BY <2>1, OtherReports, FollowsStream
<1>3. CASE SendLine \/ LineSent \/ Quit \/ UNCHANGED chatVars
  <2>1. UNCHANGED vars /\ UNCHANGED <<ring, sent, received, belief>>
    BY <1>3 DEF SendLine, LineSent, Quit, chatVars, allVars, streamVars
  <2> QED BY <1>1, <2>1, SilentStream
<1>4. CASE HandleEvent
  <2>1. Receive /\ UNCHANGED vars
    BY <1>4 DEF HandleEvent, Receive
  <2> QED BY <1>1, <2>1, ReceiveStream
<1>5. CASE EventsLost
  <2>1. Lagged /\ UNCHANGED vars
    BY <1>5 DEF EventsLost, Lagged
  <2> QED BY <1>1, <2>1, LaggedStream
<1>6. CASE Background
  <2>1. CASE EmitOther \/ EmitError
    <3>1. Broadcast("other") /\ UNCHANGED vars
      BY <2>1 DEF EmitOther, EmitError
    <3>2. "other" \in Kinds /\ "other" \notin Telling
      BY DEF Kinds, Telling
    <3> QED BY <1>1, <3>1, <3>2, BroadcastStream
  <2>2. CASE \E r \in Runs : WorkerFollows(r) \/ SessionEndFollows(r)
    BY <2>2, WorkerReports, FollowsStream DEF WorkerFollows, SessionEndFollows
  <2> QED BY <1>6, <2>1, <2>2 DEF Background
<1> QED
  BY <1>2, <1>3, <1>4, <1>5, <1>6 DEF ChatNext

\* A subscriber that has read everything, and was not told of a loss, knows whether
\* the client is connected, for every capacity of the channel.
THEOREM BeliefIsRight ==
  ASSUME ~RuntimeStops
  PROVE  ChatSpec => []BeliefRight
<1>1. ChatInit => StreamInv
  <2> SUFFICES ASSUME ChatInit PROVE StreamInv
    OBVIOUS
  <2>1. /\ ring = <<>> /\ sent = 0 /\ received = 0 /\ belief = "down"
        /\ lastEvent.kind = "none"
    BY DEF ChatInit, StreamInit, Init, NoEvent, Event
  <2>2. RingType /\ DOMAIN ring = {}
    BY <2>1, EventStreamAssumption DEF RingType
  <2>3. ~Up
    BY <2>1 DEF Up
  <2> QED BY <2>1, <2>2, <2>3 DEF StreamInv, RingTells, BeliefFollows
<1>2. ClientInv /\ ClientInv' /\ StreamInv /\ [ChatNext]_chatVars => StreamInv'
  BY NextStreamInv DEF ClientInv, SessionInv, WorkerInv
<1>3. ASSUME ClientInv, StreamInv, Settled, Behind = 0, belief # "unknown"
      PROVE  (belief = "up") = connected
  <2>1. AllTold
    BY <1>3 DEF AllTold, StreamInv, RingType
  <2>2. belief = "up" <=> Up
    BY <1>3, <2>1 DEF StreamInv, BeliefFollows
  <2>3. Up <=> connected
    BY <1>3, SettledUp
  <2>4. connected \in BOOLEAN
    BY <1>3 DEF ClientInv, SessionInv, WorkerInv, TypeOK
  <2> QED BY <2>2, <2>3, <2>4
<1>4. ClientInv /\ StreamInv => BeliefRight
  BY <1>3 DEF BeliefRight
<1> QED
  BY <1>1, <1>2, <1>4, ClientInvAlways, PTL DEF ChatSpec
===============================================================================
