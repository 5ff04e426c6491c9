------------------------------- MODULE Session -------------------------------
(***************************************************************************)
(* session(): one authenticated socket, on a clock.  The worker multiplexes*)
(* heartbeats, commands and the frames of its peer, and while it writes it *)
(* does nothing else.                                                      *)
(*                                                                         *)
(* The worker runs as soon as it can: the clock moves only while it waits, *)
(* in select! with no branch ready or in a write the transport does not    *)
(* take.  Which of several ready branches select! runs is random.  Permits,*)
(* generations and the mutex are SendPath's, reconnection is Lifecycle's.  *)
(***************************************************************************)
EXTENDS Naturals, Sequences, FiniteSets

CONSTANTS
  Sends,            \* the calls of send(); each is made once
  FrameKinds,       \* bound: the frames this peer sends, see Frames
  PingInterval, PongTimeout, WriteTimeout, RequestTimeout,
  MaxFrames,        \* bound: frames the peer sends
  MaxInbox,         \* bound: frames that wait to be read
  MaxTime           \* bound: the clock

ASSUME SessionAssumption ==
  /\ {PingInterval, PongTimeout, WriteTimeout, RequestTimeout} \subseteq Nat \ {0}
  /\ {MaxFrames, MaxInbox, MaxTime} \subseteq Nat

VARIABLES
  now,        \* the clock; 0 when the session begins
  phase,      \* "top" of the loop, "select", "writing" (or flushing), "ended"
  nextPing,   \* next_ping
  ping,       \* ping: the id and deadline of the outstanding one, or None
  pings,      \* pings made so far; the number of a ping is its id
  writing,    \* what is written and until when it may take; or None
  pending,    \* the requests written or being written, not answered
  queue,      \* commands
  wire,       \* the calls whose request the peer may have
  deadline,   \* of every call
  told,       \* what every call returned; "unmade", "waiting" before
  inbox,      \* frames that have arrived
  frames,     \* how many have arrived in all
  shown,      \* pushes emitted as Event::Message, by number of arrival
  acked,      \* pushes whose RECVACK is written
  sendAcks,   \* the SendAck events: of which call, and when
  ended,      \* how the session ended, "no" before
  died,       \* when the peer died; Never before
  pongAt,     \* when the answer to the outstanding ping, or a pong, arrived; Never
  stalled     \* a write has taken time since the outstanding ping was made

vars == <<now, phase, nextPing, ping, pings, writing, pending, queue, wire, deadline,
          told, inbox, frames, shown, acked, sendAcks, ended, died, pongAt, stalled>>

heartbeat == <<nextPing, ping, pings>>
calls == <<pending, queue, wire, deadline, told>>
peer == <<inbox, frames, died>>
events == <<shown, acked, sendAcks>>
seen == <<pongAt, stalled>>

None == [none |-> TRUE]
Never == MaxTime + 1

\* "disconnect": the push of that name.  "close": a Close frame, an error of the
\* transport or its end.  "ping": of WebSocket.  "ignored": a custom event, a frame
\* that is reported as an Error event, an unknown method, a pong of WebSocket.
\* "hugePush": a push whose RECVACK exceeds max_message_size.
PlainKinds == {"push", "hugePush", "pongMethod", "disconnect", "ping", "ignored", "close"}

PongsOk == {b \in BOOLEAN : IF b THEN "pong" \in FrameKinds ELSE "pongError" \in FrameKinds}
Answerable == IF "answer" \in FrameKinds THEN wire ELSE {}

\* What the peer may send: answers to the last two pings it may have, to any
\* request.
Frames ==
  [kind : PlainKinds \cap FrameKinds]
  \cup [kind : {"pong"}, id : {pings - 1, pings} \cap (1..pings), ok : PongsOk]
  \cup [kind : {"answer"}, of : Answerable, how : {"Ack", "Error"}]

Init ==
  /\ now = 0
  /\ phase = "top"
  /\ nextPing = PingInterval
  /\ ping = None
  /\ pings = 0
  /\ writing = None
  /\ pending = {}
  /\ queue = <<>>
  /\ wire = {}
  /\ deadline = [s \in Sends |-> 0]
  /\ told = [s \in Sends |-> "unmade"]
  /\ inbox = <<>>
  /\ frames = 0
  /\ shown = <<>>
  /\ acked = <<>>
  /\ sendAcks = <<>>
  /\ ended = "no"
  /\ died = Never
  /\ pongAt = Never
  /\ stalled = FALSE

Tell(calling, what) ==
  told' = [s \in Sends |-> IF s \in calling /\ told[s] = "waiting" THEN what ELSE told[s]]

Queued == {queue[i] : i \in DOMAIN queue}

\* The function returns; what was pending is dropped and the queue drained.
Ends(how) ==
  /\ phase' = "ended"
  /\ ended' = how
  /\ writing' = None
  /\ pending' = {}
  /\ queue' = <<>>
  /\ Tell(pending \cup Queued, "Lost")
  /\ UNCHANGED <<wire, deadline>>

Again == phase' = "top" /\ UNCHANGED <<writing, ended>>

\* A bug: no timeout on writes.
WritesUntimed(what) ==
  /\ phase' = "writing"
  /\ writing' = [what |-> what, by |-> now + MaxTime]
  /\ UNCHANGED ended

\* write() and flush()
Writes(what) ==
  /\ phase' = "writing"
  /\ writing' = [what |-> what, by |-> now + WriteTimeout]
  /\ UNCHANGED ended

-----------------------------------------------------------------------------
(* The loop *)

\* A bug: nothing expires at the top of the loop.
TopKeepsExpired ==
  /\ phase = "top"
  /\ phase' = "select"
  /\ pending' = {s \in pending : told[s] = "waiting"}
  /\ UNCHANGED <<now, heartbeat, writing, queue, wire, deadline, told, peer, events,
                 ended, seen>>

\* Calls that have gone are forgotten, those whose time is over told so.
Top ==
  /\ phase = "top"
  /\ phase' = "select"
  /\ LET expired == {s \in pending : deadline[s] <= now}
     IN /\ pending' = {s \in pending : told[s] = "waiting"} \ expired
        /\ Tell(expired, "Timeout")
  /\ UNCHANGED <<now, heartbeat, writing, queue, wire, deadline, peer, events, ended,
                 seen>>

\* What the timer of select! waits for: the first of these.
Times ==
  {deadline[s] : s \in pending} \cup {IF ping = None THEN nextPing ELSE ping.by}

AtTimer == phase = "select" /\ \E t \in Times : t <= now

PongMissing ==
  /\ AtTimer
  /\ ping # None /\ ping.by <= now
  /\ Ends("Timeout")
  /\ UNCHANGED <<now, heartbeat, peer, events, seen>>

\* The deadline of the pong is taken before the ping is written.
SendPing ==
  /\ AtTimer
  /\ ping = None /\ nextPing <= now
  /\ pings' = pings + 1
  /\ Writes([frame |-> "ping", by |-> now + PongTimeout])
  /\ pongAt' = Never
  /\ stalled' = FALSE
  /\ UNCHANGED <<now, nextPing, ping, calls, peer, events>>

\* The timer was that of a request.
OnlyExpiry ==
  /\ AtTimer
  /\ IF ping = None THEN nextPing > now ELSE ping.by > now
  /\ Again
  /\ UNCHANGED <<now, heartbeat, calls, peer, events, seen>>

OnCommand ==
  /\ phase = "select"
  /\ queue # <<>>
  /\ LET s == Head(queue)
     IN /\ queue' = Tail(queue)
        /\ \/ /\ told[s] # "waiting"
              /\ Again
              /\ UNCHANGED <<pending, wire, told>>
           \/ /\ told[s] = "waiting"
              /\ deadline[s] <= now
              /\ Tell({s}, "Timeout")
              /\ Again
              /\ UNCHANGED <<pending, wire>>
           \/ /\ told[s] = "waiting"
              /\ deadline[s] > now
              /\ pending' = pending \cup {s}
              /\ wire' = wire \cup {s}
              /\ Writes([frame |-> "request", of |-> s])
              /\ UNCHANGED told
  /\ UNCHANGED <<now, heartbeat, deadline, peer, events, seen>>

Frame == Head(inbox)

Reads(kind) ==
  /\ phase = "select"
  /\ inbox # <<>>
  /\ Frame.kind = kind
  /\ inbox' = Tail(inbox)
  /\ UNCHANGED <<now, frames, died>>

\* The answer to a ping; to an earlier one it is nobody's.
OnPong ==
  /\ Reads("pong")
  /\ LET own == ping # None /\ ping.id = Frame.id
     IN \/ /\ own /\ Frame.ok
           /\ ping' = None
           /\ nextPing' = now + PingInterval
           /\ Again
           /\ UNCHANGED <<pings, calls>>
        \/ /\ own /\ ~Frame.ok
           /\ \E how \in {"Server", "Protocol"} : Ends(how)
           /\ UNCHANGED heartbeat
        \/ /\ ~own
           /\ Again
           /\ UNCHANGED <<heartbeat, calls>>
  /\ UNCHANGED <<events, seen>>

\* A bug: the outstanding ping stays outstanding.
OnPongMethodReschedules ==
  /\ Reads("pongMethod")
  /\ nextPing' = now + PingInterval
  /\ Again
  /\ UNCHANGED <<ping, pings, calls, events, seen>>

OnPongMethod ==
  /\ Reads("pongMethod")
  /\ ping' = None
  /\ nextPing' = now + PingInterval
  /\ Again
  /\ UNCHANGED <<pings, calls, events, seen>>

\* The answer to a request that is not pending any more is nobody's.
OnAnswer ==
  /\ Reads("answer")
  /\ LET s == Frame.of
     IN \/ /\ s \in pending
           /\ pending' = pending \ {s}
           /\ Tell({s}, Frame.how)
           /\ sendAcks' = IF Frame.how = "Ack"
                          THEN Append(sendAcks, [of |-> s, at |-> now]) ELSE sendAcks
        \/ s \notin pending /\ UNCHANGED <<pending, told, sendAcks>>
  /\ Again
  /\ UNCHANGED <<heartbeat, queue, wire, deadline, shown, acked, seen>>

Arrival == frames - Len(inbox) + 1   \* the number of the frame that is read

\* A bug: the RECVACK is left to the next free moment of the worker.
OnPushAckLater ==
  /\ Reads("push")
  /\ shown' = Append(shown, Arrival)
  /\ acked' = IF Len(shown) > Len(acked) THEN Append(acked, shown[Len(shown)]) ELSE acked
  /\ Again
  /\ UNCHANGED <<heartbeat, calls, sendAcks, seen>>

\* Emitted first, then acknowledged.
OnPush ==
  /\ Reads("push")
  /\ shown' = Append(shown, Arrival)
  /\ Writes([frame |-> "recvack"])
  /\ UNCHANGED <<heartbeat, calls, acked, sendAcks, seen>>

OnHugePush ==
  /\ Reads("hugePush")
  /\ shown' = Append(shown, Arrival)
  /\ Writes([frame |-> "huge"])
  /\ UNCHANGED <<heartbeat, calls, acked, sendAcks, seen>>

\* write() refuses a RECVACK above the limit.
WriteRefused ==
  /\ phase = "writing" /\ writing.what.frame = "huge"
  /\ Ends("MessageTooLarge")
  /\ UNCHANGED <<now, heartbeat, peer, events, seen>>

OnDisconnect ==
  /\ Reads("disconnect")
  /\ Ends("Server")
  /\ UNCHANGED <<heartbeat, events, seen>>

\* tungstenite has queued the WebSocket pong, flush() writes it.
OnWebSocketPing ==
  /\ Reads("ping")
  /\ Writes([frame |-> "pong"])
  /\ UNCHANGED <<heartbeat, calls, events, seen>>

OnIgnored ==
  /\ Reads("ignored")
  /\ Again
  /\ UNCHANGED <<heartbeat, calls, events, seen>>

OnClose ==
  /\ Reads("close")
  /\ Ends("Transport")
  /\ UNCHANGED <<heartbeat, events, seen>>

\* A dead peer's transport still takes what it has room for, at once or never.
WriteDone ==
  /\ phase = "writing" /\ writing.what.frame # "huge"
  /\ died # Never => writing.by = now + WriteTimeout
  /\ phase' = "top"
  /\ writing' = None
  /\ ping' = IF writing.what.frame = "ping"
             THEN [id |-> pings, by |-> writing.what.by] ELSE ping
  /\ acked' = IF writing.what.frame = "recvack" THEN shown ELSE acked
  /\ UNCHANGED <<now, nextPing, pings, calls, peer, shown, sendAcks, ended, seen>>

\* The transport reports an error, or the write's time is over.
WriteFails ==
  /\ phase = "writing" /\ writing.what.frame # "huge"
  /\ Ends("Transport")
  /\ UNCHANGED <<now, heartbeat, peer, events, seen>>

\* Cancellation drops the future at an await.
Cancelled ==
  /\ phase \in {"select", "writing"}
  /\ Ends("Cancelled")
  /\ UNCHANGED <<now, heartbeat, peer, events, seen>>

-----------------------------------------------------------------------------
(* The callers, the peer and the clock *)

CallSend(s) ==
  /\ phase # "ended"
  /\ told[s] = "unmade"
  /\ told' = [told EXCEPT ![s] = "waiting"]
  /\ deadline' = [deadline EXCEPT ![s] = now + RequestTimeout]
  /\ queue' = Append(queue, s)
  /\ UNCHANGED <<now, phase, heartbeat, writing, pending, wire, peer, events, ended,
                 seen>>

\* timeout_at() looks at the reply channel first.
CallTimesOut(s) ==
  /\ told[s] = "waiting"
  /\ deadline[s] <= now
  /\ Tell({s}, "Timeout")
  /\ UNCHANGED <<now, phase, heartbeat, writing, pending, queue, wire, deadline, peer,
                 events, ended, seen>>

CallDropped(s) ==
  /\ told[s] = "waiting"
  /\ Tell({s}, "dropped")
  /\ UNCHANGED <<now, phase, heartbeat, writing, pending, queue, wire, deadline, peer,
                 events, ended, seen>>

AnswersPing(f) ==
  \/ f.kind = "pongMethod"
  \/ f.kind = "pong" /\ f.id = pings /\ f.ok

PeerSends(f) ==
  /\ phase # "ended"
  /\ died = Never
  /\ frames < MaxFrames /\ Len(inbox) < MaxInbox
  /\ frames' = frames + 1
  /\ inbox' = Append(inbox, f)
  /\ pongAt' = IF AnswersPing(f) /\ pongAt = Never THEN now ELSE pongAt
  /\ UNCHANGED <<now, phase, heartbeat, writing, calls, events, ended, died, stalled>>

PeerDies ==
  /\ phase # "ended"
  /\ died = Never
  /\ died' = now
  /\ UNCHANGED <<now, phase, heartbeat, writing, calls, inbox, frames, events, ended, seen>>

WorkerWaits ==
  \/ phase = "select" /\ (\A t \in Times : now < t) /\ queue = <<>> /\ inbox = <<>>
  \/ phase = "writing" /\ writing.what.frame # "huge" /\ now < writing.by

Tick ==
  /\ now < MaxTime
  /\ WorkerWaits
  /\ now' = now + 1
  /\ stalled' = (stalled \/ phase = "writing")
  /\ UNCHANGED <<phase, heartbeat, writing, calls, peer, events, ended, pongAt>>

Heartbeats == PongMissing \/ SendPing \/ OnPong \/ OnPongMethod
Pushes == OnPush \/ OnHugePush \/ WriteRefused
Requests == OnlyExpiry \/ OnCommand \/ OnAnswer
Others == OnDisconnect \/ OnWebSocketPing \/ OnIgnored \/ OnClose

Next ==
  \/ Top \/ Heartbeats \/ Pushes \/ Requests \/ Others
  \/ WriteDone \/ WriteFails \/ Cancelled
  \/ \E s \in Sends : CallSend(s) \/ CallTimesOut(s) \/ CallDropped(s)
  \/ \E f \in Frames : PeerSends(f)
  \/ PeerDies \/ Tick

Spec == Init /\ [][Next]_vars

-----------------------------------------------------------------------------
(* Properties *)

Past == 0..MaxTime
Calling == {"unmade", "waiting", "Ack", "Error", "Timeout", "Lost", "dropped"}

TypeOK ==
  /\ now \in Past
  /\ phase \in {"top", "select", "writing", "ended"}
  /\ nextPing \in 0..(MaxTime + PingInterval)
  /\ ping # None => ping.id \in 1..pings /\ ping.by <= now + PongTimeout
  /\ (phase = "writing") = (writing # None)
  /\ (phase = "ended") = (ended # "no")
  /\ pending \subseteq Sends /\ Queued \subseteq Sends
  /\ told \in [Sends -> Calling]
  /\ \A s \in Sends : told[s] = "waiting" => s \in pending \cup Queued
  /\ phase = "ended" => pending = {} /\ queue = <<>>
  /\ Len(inbox) <= MaxInbox /\ frames <= MaxFrames

(***************************************************************************)
(* A peer that has died, without so much as a reset, is noticed within the *)
(* ping interval, the pong timeout and one write: whatever it had sent     *)
(* before, whatever the application sends meanwhile, and although no       *)
(* deadline is looked at while a write blocks.                             *)
(***************************************************************************)
DeadPeerNoticed ==
  phase # "ended" => now <= died + PingInterval + PongTimeout + WriteTimeout

(***************************************************************************)
(* A peer that answers the ping, or sends a pong, before the deadline is   *)
(* never dropped for its heartbeat, however much it pushes, as long as it  *)
(* also takes what the worker writes.                                      *)
(***************************************************************************)
LivePeerKept ==
  ended = "Timeout" => stalled \/ pongAt >= ping.by

(***************************************************************************)
(* Subscribers and callers agree on what the server accepted: a SendAck    *)
(* event comes once per call, not after the call's deadline, and unless it *)
(* came at that very instant its caller is not told Timeout; no caller is  *)
(* told Ack without the event.                                             *)
(***************************************************************************)
SendAcksAgree ==
  /\ \A i \in DOMAIN sendAcks :
       LET e == sendAcks[i]
       IN /\ e.at <= deadline[e.of]
          /\ e.at < deadline[e.of] => told[e.of] \in {"Ack", "dropped"}
          /\ \A j \in DOMAIN sendAcks : sendAcks[j].of = e.of => j = i
  /\ \A s \in Sends : told[s] = "Ack" => \E i \in DOMAIN sendAcks : sendAcks[i].of = s

(***************************************************************************)
(* Messages are shown and acknowledged as Delivery says: no RECVACK is     *)
(* skipped, doubled or sent ahead, wherever the session is when it ends.   *)
(***************************************************************************)
D == INSTANCE Delivery WITH Pushes <- 1..MaxFrames, over <- phase = "ended"

ImplementsDelivery == D!Spec
===============================================================================
