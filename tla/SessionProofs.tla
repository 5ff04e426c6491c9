---------------------------- MODULE SessionProofs ----------------------------
(***************************************************************************)
(* What Session's runs check on small instances, for any number of calls,  *)
(* any frames and any timeouts.  The invariant comes in parts: the calls,  *)
(* the frames, the clocks of the heartbeat, what a dead peer leaves, what  *)
(* a live one has sent, and what is shown and acknowledged.                *)
(***************************************************************************)
EXTENDS Session, TLAPS

USE SessionAssumption

-----------------------------------------------------------------------------
(* The calls *)

Calls ==
  /\ phase \in {"top", "select", "writing", "ended"}
  /\ pending \subseteq Sends /\ wire \subseteq Sends
  /\ queue \in Seq(Sends)
  /\ told \in [Sends -> Calling]
  /\ deadline \in [Sends -> Nat]
  /\ now \in Past
  /\ \A s \in Sends : told[s] = "waiting" => s \in pending \cup Queued
  /\ phase = "ended" => pending = {} /\ queue = <<>>

LEMMA TellType ==
  ASSUME NEW calling, NEW what \in Calling, told \in [Sends -> Calling], Tell(calling, what)
  PROVE  /\ told' \in [Sends -> Calling]
         /\ \A s \in Sends : told'[s] = "waiting" =>
              told[s] = "waiting" /\ (s \notin calling \/ what = "waiting")
BY DEF Tell

LEMMA EndsCalls ==
  ASSUME Calls, NEW how, Ends(how), UNCHANGED now
  PROVE  Calls'
<1>1. "Lost" \in Calling
  BY DEF Calling
<1>2. /\ told' \in [Sends -> Calling]
      /\ \A s \in Sends : told'[s] = "waiting" =>
           told[s] = "waiting" /\ s \notin pending \cup Queued
  BY <1>1, TellType DEF Calls, Ends
<1>3. UNCHANGED <<wire, deadline, now>> /\ phase' = "ended" /\ pending' = {} /\ queue' = <<>>
  BY DEF Ends
<1> QED BY <1>2, <1>3 DEF Calls

LEMMA QueueTail ==
  ASSUME queue \in Seq(Sends), queue # <<>>, queue' = Tail(queue)
  PROVE  /\ queue' \in Seq(Sends) /\ Head(queue) \in Sends
         /\ Queued = Queued' \cup {Head(queue)}
<1>1. queue' \in Seq(Sends) /\ Head(queue) \in Sends /\ Len(queue') = Len(queue) - 1
      /\ Len(queue) \in Nat /\ Len(queue) > 0
      /\ \A i \in 1..Len(queue') : queue'[i] = queue[i + 1]
      /\ Head(queue) = queue[1]
  OBVIOUS
<1>2. DOMAIN queue = 1..Len(queue) /\ DOMAIN queue' = 1..Len(queue')
  BY <1>1
<1>3. ASSUME NEW s \in Queued
      PROVE  s \in Queued' \cup {Head(queue)}
  <2>1. PICK i \in 1..Len(queue) : s = queue[i]
    BY <1>2 DEF Queued
  <2>2. CASE i = 1
    BY <1>1, <2>1, <2>2
  <2>3. CASE i # 1
    <3>1. i - 1 \in 1..Len(queue') /\ queue'[i - 1] = queue[i]
      BY <1>1, <2>1, <2>3
    <3> QED BY <1>2, <2>1, <3>1 DEF Queued
  <2> QED BY <2>2, <2>3
<1>4. ASSUME NEW s \in Queued'
      PROVE  s \in Queued
  <2>1. PICK i \in 1..Len(queue') : s = queue'[i]
    BY <1>2 DEF Queued
  <2>2. i + 1 \in 1..Len(queue) /\ queue[i + 1] = s
    BY <1>1, <2>1
  <2> QED BY <1>2, <2>2 DEF Queued
<1>5. Head(queue) \in Queued
  BY <1>1, <1>2 DEF Queued
<1> QED BY <1>1, <1>3, <1>4, <1>5

LEMMA QueueAppend ==
  ASSUME queue \in Seq(Sends), NEW s \in Sends, queue' = Append(queue, s)
  PROVE  queue' \in Seq(Sends) /\ Queued' = Queued \cup {s}
<1>1. /\ queue' \in Seq(Sends) /\ Len(queue') = Len(queue) + 1 /\ Len(queue) \in Nat
      /\ DOMAIN queue = 1..Len(queue) /\ DOMAIN queue' = 1..(Len(queue) + 1)
      /\ \A i \in 1..Len(queue) : queue'[i] = queue[i]
      /\ queue'[Len(queue) + 1] = s
  OBVIOUS
<1>2. ASSUME NEW i \in 1..(Len(queue) + 1)
      PROVE  i \in 1..Len(queue) \/ i = Len(queue) + 1
  BY <1>1
<1>3. 1..Len(queue) \subseteq 1..(Len(queue) + 1) /\ Len(queue) + 1 \in 1..(Len(queue) + 1)
  BY <1>1
<1>4. Queued' \subseteq Queued \cup {s}
  BY <1>1, <1>2 DEF Queued
<1>5. Queued \cup {s} \subseteq Queued'
  BY <1>1, <1>3 DEF Queued
<1> QED BY <1>1, <1>4, <1>5

-----------------------------------------------------------------------------
(* The frames *)

FrameSet ==
  [kind : PlainKinds]
  \cup [kind : {"pong"}, id : Nat, ok : BOOLEAN]
  \cup [kind : {"answer"}, of : Sends, how : {"Ack", "Error"}]

Arrivals ==
  /\ pings \in Nat
  /\ frames \in Nat
  /\ inbox \in Seq(FrameSet)
  /\ Len(inbox) <= frames /\ frames <= MaxFrames /\ Len(inbox) <= MaxInbox

\* What reading a frame leaves, whatever its kind.
LEMMA ReadsInbox ==
  ASSUME Arrivals, NEW kind, Reads(kind)
  PROVE  /\ Frame \in FrameSet /\ Frame = inbox[1] /\ Frame.kind = kind
         /\ inbox' \in Seq(FrameSet) /\ Len(inbox) > 0 /\ Len(inbox) \in Nat
         /\ Len(inbox') = Len(inbox) - 1
         /\ \A i \in 1..Len(inbox') : inbox'[i] = inbox[i + 1]
         /\ phase = "select" /\ UNCHANGED <<now, frames, died>>
BY DEF Arrivals, Reads, Frame

LEMMA ArrivalsStep ==
  ASSUME Calls, Arrivals, [Next]_vars
  PROVE  Arrivals'
<1>1. CASE UNCHANGED <<pings, frames, inbox>>
  BY <1>1 DEF Arrivals
<1>2. CASE SendPing
  <2>1. pings' = pings + 1 /\ UNCHANGED <<frames, inbox>>
    BY <1>2 DEF SendPing, peer
  <2> QED BY <2>1 DEF Arrivals
<1>3. CASE UNCHANGED pings /\ \E kind : Reads(kind)
  BY <1>3, ReadsInbox DEF Arrivals
<1>4. ASSUME NEW f \in Frames, PeerSends(f)
      PROVE  Arrivals'
  <2>1. f \in FrameSet
    <3>1. /\ {pings - 1, pings} \cap (1..pings) \subseteq Nat /\ PongsOk \subseteq BOOLEAN
          /\ Answerable \subseteq Sends
      BY DEF Arrivals, PongsOk, Answerable, Calls
    <3> QED BY <3>1 DEF Frames, FrameSet
  <2>2. /\ UNCHANGED pings /\ frames' = frames + 1 /\ inbox' = Append(inbox, f)
        /\ frames < MaxFrames /\ Len(inbox) < MaxInbox
    BY <1>4 DEF PeerSends, heartbeat
  <2>3. inbox' \in Seq(FrameSet) /\ Len(inbox') = Len(inbox) + 1 /\ Len(inbox) \in Nat
    BY <2>1, <2>2 DEF Arrivals
  <2> QED BY <2>2, <2>3 DEF Arrivals
<1>5. CASE Top \/ PongMissing \/ OnlyExpiry \/ OnCommand \/ WriteRefused \/ WriteDone \/ WriteFails
           \/ Cancelled \/ PeerDies \/ Tick \/ UNCHANGED vars
           \/ \E c \in Sends : CallSend(c) \/ CallTimesOut(c) \/ CallDropped(c)
  BY <1>1, <1>5 DEF Top, PongMissing, OnlyExpiry, OnCommand, WriteRefused, WriteDone, WriteFails,
       Cancelled, PeerDies, Tick, CallSend, CallTimesOut, CallDropped, heartbeat, peer, vars
<1>6. CASE OnPong \/ OnPongMethod \/ OnPush \/ OnHugePush \/ OnAnswer \/ OnDisconnect
           \/ OnWebSocketPing \/ OnIgnored \/ OnClose
  BY <1>3, <1>6 DEF OnPong, OnPongMethod, OnPush, OnHugePush, OnAnswer, OnDisconnect,
       OnWebSocketPing, OnIgnored, OnClose, heartbeat
<1> QED BY <1>2, <1>4, <1>5, <1>6 DEF Next, Heartbeats, Pushes, Requests, Others

LEMMA CallsInvariant == Spec => [](Calls /\ Arrivals)
<1>1. Init => Calls /\ Arrivals
  BY DEF Init, Calls, Calling, Past, Queued, Arrivals
<1>2. ASSUME Calls, Arrivals, [Next]_vars
      PROVE  Calls'
  <2>1. CASE Top
    <3>1. "Timeout" \in Calling
      BY DEF Calling
    <3>2. /\ phase' = "select" /\ UNCHANGED <<now, queue, wire, deadline>>
          /\ pending' = {s \in pending : told[s] = "waiting"}
                           \ {s \in pending : deadline[s] <= now}
          /\ Tell({s \in pending : deadline[s] <= now}, "Timeout")
      BY <2>1 DEF Top
    <3>3. /\ told' \in [Sends -> Calling]
          /\ \A s \in Sends : told'[s] = "waiting" =>
               told[s] = "waiting" /\ s \notin {t \in pending : deadline[t] <= now}
      BY <1>2, <3>1, <3>2, TellType DEF Calls
    <3> QED BY <1>2, <3>2, <3>3 DEF Calls, Queued
  <2>2. CASE PongMissing \/ WriteRefused \/ OnDisconnect \/ OnClose \/ WriteFails \/ Cancelled
    <3>1. UNCHANGED now /\ \E how : Ends(how)
      BY <2>2 DEF PongMissing, WriteRefused, OnDisconnect, OnClose, WriteFails, Cancelled, Reads
    <3> QED BY <1>2, <3>1, EndsCalls
  <2>3. CASE OnPong
    <3>1. CASE \E how : Ends(how)
      BY <1>2, <2>3, <3>1, EndsCalls DEF OnPong, Reads
    <3>2. CASE UNCHANGED calls /\ phase' = "top"
      BY <1>2, <2>3, <3>2 DEF OnPong, Reads, calls, Calls, Queued
    <3> QED BY <2>3, <3>1, <3>2 DEF OnPong, Again
  <2>4. CASE SendPing \/ OnlyExpiry \/ OnPongMethod \/ OnPush \/ OnHugePush \/ OnWebSocketPing
             \/ OnIgnored \/ WriteDone
    <3>1. UNCHANGED <<now, calls>> /\ phase' \in {"top", "writing"}
      BY <2>4 DEF SendPing, OnlyExpiry, OnPongMethod, OnPush, OnHugePush, OnWebSocketPing,
                  OnIgnored, WriteDone, Reads, Writes, Again
    <3> QED BY <1>2, <3>1 DEF calls, Calls, Queued
  <2>5. CASE OnCommand
    <3> DEFINE s == Head(queue)
    <3>1. queue' \in Seq(Sends) /\ s \in Sends /\ Queued = Queued' \cup {s}
      BY <1>2, <2>5, QueueTail DEF OnCommand, Calls
    <3>2. UNCHANGED <<now, deadline>> /\ phase' \in {"top", "writing"}
      BY <2>5 DEF OnCommand, Again, Writes
    <3>3. CASE told[s] # "waiting" /\ UNCHANGED <<pending, wire, told>>
      BY <1>2, <3>1, <3>2, <3>3 DEF Calls
    <3>4. CASE Tell({s}, "Timeout") /\ UNCHANGED <<pending, wire>>
      <4>1. "Timeout" \in Calling
        BY DEF Calling
      <4>2. /\ told' \in [Sends -> Calling]
            /\ \A c \in Sends : told'[c] = "waiting" => told[c] = "waiting" /\ c # s
        BY <1>2, <3>4, <4>1, TellType DEF Calls
      <4> QED BY <1>2, <3>1, <3>2, <3>4, <4>2 DEF Calls
    <3>5. CASE pending' = pending \cup {s} /\ wire' = wire \cup {s} /\ UNCHANGED told
      BY <1>2, <3>1, <3>2, <3>5 DEF Calls
    <3> QED BY <2>5, <3>3, <3>4, <3>5 DEF OnCommand
  <2>6. CASE OnAnswer
    <3> DEFINE s == Frame.of
    <3>1. UNCHANGED <<now, queue, wire, deadline>> /\ phase' = "top" /\ Queued' = Queued
      BY <2>6 DEF OnAnswer, Reads, Again, Queued
    <3>2. CASE UNCHANGED <<pending, told>>
      BY <1>2, <3>1, <3>2 DEF Calls
    <3>3. CASE pending' = pending \ {s} /\ Tell({s}, Frame.how) /\ Frame.how \in {"Ack", "Error"}
      <4>1. Frame.how \in Calling /\ Frame.how # "waiting"
        BY <3>3 DEF Calling
      <4>2. /\ told' \in [Sends -> Calling]
            /\ \A c \in Sends : told'[c] = "waiting" => told[c] = "waiting" /\ c # s
        BY <1>2, <3>3, <4>1, TellType DEF Calls
      <4> QED BY <1>2, <3>1, <3>3, <4>2 DEF Calls
    <3>4. Frame \in FrameSet /\ Frame.kind = "answer"
      BY <1>2, <2>6, ReadsInbox DEF OnAnswer
    <3>5. Frame.how \in {"Ack", "Error"}
      BY <3>4 DEF FrameSet, PlainKinds
    <3> QED BY <2>6, <3>2, <3>3, <3>5 DEF OnAnswer
  <2>7. ASSUME NEW s \in Sends, CallSend(s)
        PROVE  Calls'
    <3>1. queue' \in Seq(Sends) /\ Queued' = Queued \cup {s}
      BY <1>2, <2>7, QueueAppend DEF CallSend, Calls
    <3>2. /\ told' = [told EXCEPT ![s] = "waiting"] /\ UNCHANGED <<now, phase, pending, wire>>
          /\ deadline' = [deadline EXCEPT ![s] = now + RequestTimeout] /\ phase # "ended"
      BY <2>7 DEF CallSend
    <3>3. now + RequestTimeout \in Nat /\ "waiting" \in Calling
      BY <1>2 DEF Calls, Past, Calling
    <3> QED BY <1>2, <3>1, <3>2, <3>3 DEF Calls
  <2>8. ASSUME NEW s \in Sends, CallTimesOut(s) \/ CallDropped(s)
        PROVE  Calls'
    <3>1. UNCHANGED <<now, phase, pending, wire, queue, deadline>> /\ Queued' = Queued
          /\ \E what \in {"Timeout", "dropped"} : Tell({s}, what)
      BY <2>8 DEF CallTimesOut, CallDropped, Queued
    <3>2. {"Timeout", "dropped"} \subseteq Calling
      BY DEF Calling
    <3>3. /\ told' \in [Sends -> Calling]
          /\ \A c \in Sends : told'[c] = "waiting" => told[c] = "waiting"
      BY <1>2, <3>1, <3>2, TellType DEF Calls
    <3> QED BY <1>2, <3>1, <3>3 DEF Calls
  <2>9. ASSUME NEW f \in Frames, PeerSends(f)
        PROVE  Calls'
    BY <1>2, <2>9 DEF PeerSends, calls, Calls, Queued
  <2>10. CASE PeerDies
    BY <1>2, <2>10 DEF PeerDies, calls, Calls, Queued
  <2>11. CASE Tick
    <3>1. now' = now + 1 /\ now < MaxTime /\ UNCHANGED <<phase, calls>>
      BY <2>11 DEF Tick
    <3> QED BY <1>2, <3>1 DEF calls, Calls, Past, Queued
  <2>12. CASE UNCHANGED vars
    BY <1>2, <2>12 DEF vars, calls, Calls, Queued
  <2> QED BY <1>2, <2>1, <2>2, <2>3, <2>4, <2>5, <2>6, <2>7, <2>8, <2>9, <2>10, <2>11, <2>12
          DEF Next, Heartbeats, Pushes, Requests, Others
<1>3. Calls /\ Arrivals /\ [Next]_vars => (Calls /\ Arrivals)'
  BY <1>2, ArrivalsStep
<1> QED BY <1>1, <1>3, PTL DEF Spec

-----------------------------------------------------------------------------
(* The clocks *)

WritingPing == phase = "writing" /\ writing.what.frame = "ping"

Clocks ==
  /\ nextPing \in Nat /\ nextPing <= now + PingInterval
  /\ ping # None => /\ ping.by \in Nat /\ ping.by <= now + PongTimeout
                    /\ ping.id = pings /\ pings > 0
  /\ (phase = "writing") = (writing # None)
  /\ (phase = "ended") = (ended # "no")
  /\ phase = "writing" => writing.by \in now..(now + WriteTimeout)
  /\ WritingPing => /\ ping = None /\ pings > 0
                    /\ writing.what.by \in Nat /\ writing.what.by <= now + PongTimeout
  /\ died = Never \/ died \in 0..now
  /\ pongAt = Never \/ pongAt \in 0..now

\* After the death of the peer: what is waited for, and how late it may be.  A
\* write that blocks never ends, and no time passes while there is a frame to read.
DeadPeer ==
  died # Never /\ phase # "ended" =>
    /\ ping = None => nextPing <= died + PingInterval
    /\ ping # None => ping.by <= died + PingInterval + PongTimeout
    /\ phase # "writing" =>
         /\ ping = None => now <= died + PingInterval
         /\ ping # None => now <= died + PingInterval + PongTimeout
         /\ inbox # <<>> => now = died
    /\ phase = "writing" =>
         /\ ping = None => writing.by <= died + PingInterval + WriteTimeout
         /\ ping # None => writing.by <= died + PingInterval + PongTimeout + WriteTimeout
         /\ inbox # <<>> => writing.by <= died + WriteTimeout
    /\ WritingPing => writing.what.by <= died + PingInterval + PongTimeout

\* An answer that has come is still to be read, at the moment it came.
Answered == \E i \in 1..Len(inbox) : AnswersPing(inbox[i])

LivePeer ==
  /\ (ping # None \/ WritingPing) /\ pongAt # Never /\ ~stalled => pongAt = now /\ Answered
  /\ LivePeerKept

HInv == Clocks /\ DeadPeer /\ LivePeer

LEMMA Numbers ==
  ASSUME Calls
  PROVE  /\ now \in Nat /\ now <= MaxTime /\ Never \in Nat /\ now < Never
         /\ {PingInterval, PongTimeout, WriteTimeout, RequestTimeout} \subseteq Nat
         /\ PingInterval > 0 /\ PongTimeout > 0 /\ WriteTimeout > 0 /\ RequestTimeout > 0
BY DEF Calls, Past, Never

\* The session ends: but for the pong, nothing is left to show.
LEMMA EndsH ==
  ASSUME HInv, Calls, NEW how, how # "no", phase # "ended", Ends(how), how # "Timeout",
         UNCHANGED <<now, heartbeat, died, seen>>, Answered => Answered'
  PROVE  HInv'
<1>1. phase' = "ended" /\ ended' = how /\ writing' = None
      /\ UNCHANGED <<now, nextPing, ping, pings, died, pongAt, stalled>>
  BY DEF Ends, heartbeat, seen
<1>2. Clocks'
  BY <1>1 DEF HInv, Clocks, WritingPing, Never
<1>3. DeadPeer'
  BY <1>1 DEF DeadPeer
<1>4. LivePeer'
  BY <1>1 DEF HInv, LivePeer, WritingPing, Never, LivePeerKept
<1> QED BY <1>2, <1>3, <1>4 DEF HInv

\* A frame is read that is no pong.
LEMMA ReadsAnswered ==
  ASSUME Arrivals, NEW kind, Reads(kind), UNCHANGED pings, ~AnswersPing(Frame)
  PROVE  Answered => Answered'
<1>1. SUFFICES ASSUME NEW i \in 1..Len(inbox), AnswersPing(inbox[i])
               PROVE  Answered'
  BY DEF Answered
<1>2. /\ Frame = inbox[1] /\ Len(inbox) \in Nat /\ Len(inbox') = Len(inbox) - 1
      /\ \A j \in 1..Len(inbox') : inbox'[j] = inbox[j + 1]
  BY ReadsInbox
<1>3. i # 1
  BY <1>1, <1>2
<1>4. i - 1 \in 1..Len(inbox') /\ inbox'[i - 1] = inbox[i]
  BY <1>1, <1>2, <1>3
<1> QED BY <1>1, <1>4 DEF Answered, AnswersPing

\* It is read, and the worker goes on or writes something at once.
LEMMA ReadsH ==
  ASSUME HInv, Calls, Arrivals, NEW kind, Reads(kind), kind \notin {"pong", "pongMethod"},
         UNCHANGED <<heartbeat, seen>>,
         Again \/ \E what : Writes(what) /\ what.frame # "ping"
  PROVE  HInv'
<1>1. /\ UNCHANGED <<now, nextPing, ping, pings, died, pongAt, stalled>>
      /\ phase = "select" /\ Frame.kind = kind /\ inbox # <<>> /\ UNCHANGED ended
  BY ReadsInbox DEF heartbeat, seen, Reads, Again, Writes
<1>2. Answered => Answered'
  BY <1>1, ReadsAnswered DEF AnswersPing
<1>3. /\ now \in Nat /\ {PingInterval, PongTimeout, WriteTimeout} \subseteq Nat
      /\ (died \in Nat \/ died = Never)
  BY Numbers DEF HInv, Clocks
<1>4. CASE Again
  <2>1. phase' = "top" /\ writing' = writing
    BY <1>4 DEF Again
  <2>2. Clocks'
    BY <1>1, <2>1 DEF HInv, Clocks, WritingPing, Never
  <2>3. DeadPeer'
    BY <1>1, <1>3, <2>1 DEF HInv, DeadPeer, WritingPing, Never
  <2>4. LivePeer'
    BY <1>1, <1>2, <2>1 DEF HInv, LivePeer, LivePeerKept, WritingPing, Never
  <2> QED BY <2>2, <2>3, <2>4 DEF HInv
<1>5. CASE \E what : Writes(what) /\ what.frame # "ping"
  <2>1. PICK what : Writes(what) /\ what.frame # "ping"
    BY <1>5
  <2>2. /\ phase' = "writing" /\ writing' = [what |-> what, by |-> now + WriteTimeout]
        /\ ~WritingPing' /\ writing' # None /\ writing'.by = now + WriteTimeout
    BY <2>1 DEF Writes, WritingPing, None
  <2>3. Clocks'
    BY <1>1, <1>3, <2>2 DEF HInv, Clocks, Never
  <2>4. DeadPeer'
    BY <1>1, <1>3, <2>2 DEF HInv, DeadPeer, Never
  <2>5. LivePeer'
    BY <1>1, <1>2, <2>2 DEF HInv, LivePeer, LivePeerKept, Never
  <2> QED BY <2>3, <2>4, <2>5 DEF HInv
<1> QED BY <1>4, <1>5

LEMMA HStep ==
  ASSUME HInv, Calls, Arrivals, [Next]_vars
  PROVE  HInv'
<1>1. /\ now \in Nat /\ {PingInterval, PongTimeout, WriteTimeout} \subseteq Nat
      /\ (died \in Nat \/ died = Never) /\ now < Never /\ Never \in Nat
      /\ PingInterval > 0 /\ PongTimeout > 0 /\ WriteTimeout > 0
      /\ pings \in Nat /\ nextPing \in Nat
  BY Numbers DEF HInv, Clocks, Arrivals
<1>2. ASSUME UNCHANGED <<now, nextPing, ping, pings, writing, inbox, died, ended, pongAt, stalled>>,
             phase' = phase \/ (phase \in {"top", "select"} /\ phase' \in {"top", "select"})
      PROVE  HInv'
  <2>1. Clocks'
    BY <1>2 DEF HInv, Clocks, WritingPing, Never
  <2>2. DeadPeer'
    BY <1>2 DEF HInv, DeadPeer, WritingPing, Never
  <2>3. LivePeer'
    BY <1>2 DEF HInv, LivePeer, WritingPing, Answered, AnswersPing, LivePeerKept, Never
  <2> QED BY <2>1, <2>2, <2>3 DEF HInv
<1>3. CASE Top \/ OnlyExpiry \/ UNCHANGED vars
           \/ \E c \in Sends : CallSend(c) \/ CallTimesOut(c) \/ CallDropped(c)
  BY <1>2, <1>3 DEF Top, OnlyExpiry, CallSend, CallTimesOut, CallDropped, Again, vars,
     heartbeat, peer, seen, AtTimer
<1>4. CASE PongMissing
  <2>1. /\ phase = "select" /\ ping # None /\ ping.by <= now
        /\ phase' = "ended" /\ ended' = "Timeout" /\ writing' = None
        /\ UNCHANGED <<now, nextPing, ping, pings, inbox, died, pongAt, stalled>>
    BY <1>4 DEF PongMissing, AtTimer, Ends, heartbeat, peer, seen
  <2>2. Clocks'
    BY <2>1 DEF HInv, Clocks, WritingPing, Never
  <2>3. stalled \/ pongAt >= ping.by
    BY <1>1, <2>1 DEF HInv, LivePeer, Clocks
  <2>4. LivePeer'
    BY <2>1, <2>3 DEF HInv, LivePeer, WritingPing, LivePeerKept, Answered, AnswersPing, Never
  <2> QED BY <2>1, <2>2, <2>4 DEF HInv, DeadPeer
<1>5. CASE SendPing
  <2>1. /\ phase = "select" /\ ping = None /\ nextPing <= now /\ pings' = pings + 1
        /\ phase' = "writing" /\ pongAt' = Never /\ UNCHANGED ended
        /\ writing' = [what |-> [frame |-> "ping", by |-> now + PongTimeout],
                       by |-> now + WriteTimeout]
        /\ UNCHANGED <<now, nextPing, ping, inbox, died>>
    BY <1>5 DEF SendPing, AtTimer, Writes, peer
  <2>2. /\ writing' # None /\ writing'.by = now + WriteTimeout
        /\ writing'.what.by = now + PongTimeout
    BY <2>1 DEF None
  <2>3. Clocks'
    BY <1>1, <2>1, <2>2 DEF HInv, Clocks, Never
  <2>4. DeadPeer'
    BY <1>1, <2>1, <2>2 DEF HInv, DeadPeer, Never
  <2>5. LivePeer'
    BY <2>1 DEF HInv, LivePeer, LivePeerKept, Clocks, Never
  <2> QED BY <2>3, <2>4, <2>5 DEF HInv
<1>6. CASE OnCommand
  <2>1. CASE Again
    BY <1>2, <1>6, <2>1 DEF OnCommand, Again, heartbeat, peer, seen
  <2>2. ASSUME NEW s, Writes([frame |-> "request", of |-> s])
        PROVE  HInv'
    <3>1. /\ phase = "select" /\ phase' = "writing" /\ UNCHANGED ended
          /\ writing' = [what |-> [frame |-> "request", of |-> s], by |-> now + WriteTimeout]
          /\ UNCHANGED <<now, nextPing, ping, pings, inbox, died, pongAt, stalled>>
      BY <1>6, <2>2 DEF OnCommand, Writes, heartbeat, peer, seen
    <3>2. ~WritingPing' /\ writing' # None /\ writing'.by = now + WriteTimeout
      BY <3>1 DEF WritingPing, None
    <3>3. Clocks'
      BY <1>1, <3>1, <3>2 DEF HInv, Clocks, Never
    <3>4. DeadPeer'
      BY <1>1, <3>1, <3>2 DEF HInv, DeadPeer, Never
    <3>5. LivePeer'
      BY <3>1, <3>2 DEF HInv, LivePeer, LivePeerKept, Answered, AnswersPing, Never
    <3> QED BY <3>3, <3>4, <3>5 DEF HInv
  <2> QED BY <1>6, <2>1, <2>2 DEF OnCommand
<1>7. CASE OnAnswer \/ OnPush \/ OnHugePush \/ OnWebSocketPing \/ OnIgnored
  <2>1. /\ \E kind : Reads(kind) /\ kind \notin {"pong", "pongMethod"}
        /\ UNCHANGED <<heartbeat, seen>>
        /\ Again \/ \E what : Writes(what) /\ what.frame # "ping"
    BY <1>7 DEF OnAnswer, OnPush, OnHugePush, OnWebSocketPing, OnIgnored
  <2> QED BY <2>1, ReadsH
<1>8. CASE WriteRefused \/ WriteFails \/ Cancelled
  <2>1. /\ phase # "ended" /\ UNCHANGED <<now, heartbeat, died, seen, inbox>>
        /\ \E how \in {"MessageTooLarge", "Transport", "Cancelled"} : Ends(how)
    BY <1>8 DEF WriteRefused, WriteFails, Cancelled, peer
  <2>2. Answered' = Answered
    BY <2>1 DEF Answered, AnswersPing, heartbeat
  <2> QED BY <2>1, <2>2, EndsH
<1>9. CASE OnDisconnect \/ OnClose
  <2>1. /\ UNCHANGED <<heartbeat, seen>>
        /\ \E kind \in {"disconnect", "close"} : Reads(kind)
        /\ \E how \in {"Server", "Transport"} : Ends(how)
    BY <1>9 DEF OnDisconnect, OnClose
  <2>2. phase # "ended" /\ UNCHANGED <<now, died, pings>> /\ Frame.kind \in {"disconnect", "close"}
    BY <2>1, ReadsInbox DEF heartbeat
  <2>3. Answered => Answered'
    BY <2>1, <2>2, ReadsAnswered DEF AnswersPing
  <2> QED BY <2>1, <2>2, <2>3, EndsH
<1>10. CASE OnPong
  <2>1. Reads("pong") /\ UNCHANGED seen
    BY <1>10 DEF OnPong
  <2>2. /\ phase = "select" /\ UNCHANGED <<now, died>> /\ Frame.kind = "pong" /\ inbox # <<>>
    BY <2>1, ReadsInbox DEF Reads
  <2>3. CASE ping # None /\ ping.id = Frame.id /\ Frame.ok /\ Again
    <3>1. /\ ping' = None /\ nextPing' = now + PingInterval /\ phase' = "top"
          /\ UNCHANGED <<pings, writing, ended, pongAt, stalled>>
      BY <1>10, <2>3 DEF OnPong, Again, seen, Ends
    <3>2. Clocks'
      BY <1>1, <2>2, <3>1 DEF HInv, Clocks, WritingPing, Never
    <3>3. DeadPeer'
      BY <1>1, <2>2, <3>1 DEF HInv, DeadPeer, WritingPing, Never
    <3>4. LivePeer'
      BY <2>2, <3>1 DEF HInv, LivePeer, LivePeerKept, WritingPing, Never, Clocks
    <3> QED BY <3>2, <3>3, <3>4 DEF HInv
  <2>4. CASE ping # None /\ ping.id = Frame.id /\ ~Frame.ok
    <3>1. UNCHANGED heartbeat /\ \E how \in {"Server", "Protocol"} : Ends(how)
      BY <1>10, <2>4 DEF OnPong
    <3>2. Answered => Answered'
      BY <2>1, <2>2, <2>4, <3>1, ReadsAnswered DEF AnswersPing, heartbeat
    <3> QED BY <2>1, <2>2, <3>1, <3>2, EndsH
  <2>5. CASE ~(ping # None /\ ping.id = Frame.id)
    <3>1. phase' = "top" /\ UNCHANGED <<heartbeat, writing, ended>>
      BY <1>10, <2>5 DEF OnPong, Again
    <3>2. UNCHANGED <<nextPing, ping, pings, pongAt, stalled>>
      BY <2>1, <3>1 DEF heartbeat, seen
    <3>3. ping # None /\ Answered => Answered'
      <4>1. ping # None => ~AnswersPing(Frame)
        BY <2>2, <2>5 DEF AnswersPing, HInv, Clocks
      <4> QED BY <2>1, <3>2, <4>1, ReadsAnswered
    <3>4. Clocks'
      BY <1>1, <2>2, <3>1, <3>2 DEF HInv, Clocks, WritingPing, Never
    <3>5. DeadPeer'
      BY <1>1, <2>2, <3>1, <3>2 DEF HInv, DeadPeer, WritingPing, Never
    <3>6. LivePeer'
      BY <2>2, <3>1, <3>2, <3>3 DEF HInv, LivePeer, LivePeerKept, WritingPing, Never
    <3> QED BY <3>4, <3>5, <3>6 DEF HInv
  <2> QED BY <1>10, <2>3, <2>4, <2>5 DEF OnPong
<1>11. CASE OnPongMethod
  <2>1. Reads("pongMethod")
    BY <1>11 DEF OnPongMethod
  <2>2. /\ phase = "select" /\ UNCHANGED <<now, died>> /\ inbox # <<>>
    BY <2>1, ReadsInbox DEF Reads
  <2>3. /\ ping' = None /\ nextPing' = now + PingInterval /\ phase' = "top"
        /\ UNCHANGED <<pings, writing, ended, pongAt, stalled>>
    BY <1>11 DEF OnPongMethod, Again, seen
  <2>4. Clocks'
    BY <1>1, <2>2, <2>3 DEF HInv, Clocks, WritingPing, Never
  <2>5. DeadPeer'
    BY <1>1, <2>2, <2>3 DEF HInv, DeadPeer, WritingPing, Never
  <2>6. LivePeer'
    BY <2>2, <2>3 DEF HInv, LivePeer, LivePeerKept, WritingPing, Never, Clocks
  <2> QED BY <2>4, <2>5, <2>6 DEF HInv
<1>12. CASE WriteDone
  <2>1. /\ phase = "writing" /\ phase' = "top" /\ writing' = None
        /\ died # Never => writing.by = now + WriteTimeout
        /\ ping' = IF writing.what.frame = "ping"
                   THEN [id |-> pings, by |-> writing.what.by] ELSE ping
        /\ UNCHANGED <<now, nextPing, pings, inbox, died, ended, pongAt, stalled>>
    BY <1>12 DEF WriteDone, peer, seen
  <2>2. Clocks'
    BY <1>1, <2>1 DEF HInv, Clocks, WritingPing, Never
  <2>3. DeadPeer'
    <3>1. SUFFICES ASSUME died # Never
                   PROVE  DeadPeer'
      BY <2>1 DEF DeadPeer, Never
    <3>2. died \in Nat /\ died <= now
      BY <1>1, <3>1 DEF HInv, Clocks
    <3>3. /\ phase' # "writing" /\ ~WritingPing'
          /\ inbox # <<>> => now = died
      BY <1>1, <2>1, <3>1, <3>2 DEF HInv, DeadPeer, WritingPing
    <3>4. CASE WritingPing
      <4>1. ping = None /\ writing.what.by <= died + PingInterval + PongTimeout
            /\ now <= died + PingInterval
        BY <1>1, <2>1, <3>1, <3>2, <3>4 DEF HInv, DeadPeer, Clocks, WritingPing
      <4>2. ping' # None /\ ping'.by = writing.what.by
        BY <2>1, <3>4 DEF WritingPing, None
      <4> QED BY <1>1, <2>1, <3>1, <3>2, <3>3, <4>1, <4>2 DEF DeadPeer, Never
    <3>5. CASE ~WritingPing
      <4>1. ping' = ping
        BY <2>1, <3>5 DEF WritingPing
      <4>2. /\ ping = None => nextPing <= died + PingInterval /\ now <= died + PingInterval
            /\ ping # None => /\ ping.by <= died + PingInterval + PongTimeout
                              /\ now <= died + PingInterval + PongTimeout
        BY <1>1, <2>1, <3>1, <3>2 DEF HInv, DeadPeer
      <4> QED BY <2>1, <3>3, <4>1, <4>2 DEF DeadPeer, Never, None
    <3> QED BY <3>4, <3>5
  <2>4. LivePeer'
    BY <1>1, <2>1 DEF HInv, LivePeer, LivePeerKept, WritingPing, Never, Answered, AnswersPing,
                      Clocks
  <2> QED BY <2>2, <2>3, <2>4 DEF HInv
<1>13. ASSUME NEW f \in Frames, PeerSends(f)
       PROVE  HInv'
  <2>1. /\ phase # "ended" /\ died = Never /\ inbox' = Append(inbox, f)
        /\ pongAt' = IF AnswersPing(f) /\ pongAt = Never THEN now ELSE pongAt
        /\ UNCHANGED <<now, phase, nextPing, ping, pings, writing, died, ended, stalled>>
    BY <1>13 DEF PeerSends, heartbeat
  <2>2. /\ \A i \in 1..Len(inbox) : inbox'[i] = inbox[i]
        /\ inbox'[Len(inbox) + 1] = f /\ Len(inbox') = Len(inbox) + 1 /\ Len(inbox) \in Nat
    BY <2>1 DEF Arrivals
  <2>3. Answered \/ AnswersPing(f) => Answered'
    BY <2>1, <2>2 DEF Answered, AnswersPing
  <2>4. Clocks'
    BY <1>1, <2>1 DEF HInv, Clocks, WritingPing, Never
  <2>5. DeadPeer'
    BY <2>1 DEF DeadPeer, Never
  <2>6. LivePeerKept'
    BY <2>1 DEF HInv, Clocks, LivePeerKept
  <2>7. LivePeer'
    BY <1>1, <2>1, <2>3, <2>6 DEF HInv, LivePeer, WritingPing, Never
  <2> QED BY <2>4, <2>5, <2>7 DEF HInv
<1>14. CASE PeerDies
  <2>1. /\ phase # "ended" /\ died = Never /\ died' = now
        /\ UNCHANGED <<now, phase, nextPing, ping, pings, writing, inbox, ended, pongAt, stalled>>
    BY <1>14 DEF PeerDies, heartbeat, seen
  <2>2. Clocks'
    BY <1>1, <2>1 DEF HInv, Clocks, WritingPing, Never
  <2>3. DeadPeer'
    <3>1. CASE phase = "writing"
      <4>1. writing.by \in Nat /\ writing.by <= now + WriteTimeout
        BY <1>1, <3>1 DEF HInv, Clocks
      <4>2. /\ nextPing <= now + PingInterval
            /\ ping # None => ping.by \in Nat /\ ping.by <= now + PongTimeout
            /\ WritingPing => writing.what.by \in Nat /\ writing.what.by <= now + PongTimeout
        BY <1>1 DEF HInv, Clocks
      <4>3. /\ writing.by <= now + PingInterval + WriteTimeout
            /\ writing.by <= now + PingInterval + PongTimeout + WriteTimeout
        BY <1>1, <4>1
      <4>4. ping # None => ping.by <= now + PingInterval + PongTimeout
        BY <1>1, <4>2
      <4>5. WritingPing => writing.what.by <= now + PingInterval + PongTimeout
        BY <1>1, <4>2
      <4>6. WritingPing' = WritingPing
        BY <2>1 DEF WritingPing
      <4> QED BY <2>1, <3>1, <4>1, <4>2, <4>3, <4>4, <4>5, <4>6 DEF DeadPeer, None
    <3>2. CASE phase # "writing"
      <4>1. nextPing <= now + PingInterval /\ (ping # None => ping.by <= now + PongTimeout)
        BY <1>1 DEF HInv, Clocks
      <4>2. /\ now \in Nat /\ nextPing \in Nat /\ (ping # None => ping.by \in Nat)
            /\ {PingInterval, PongTimeout} \subseteq Nat
        BY <1>1, SessionAssumption DEF HInv, Clocks
      <4>3. /\ ping = None => now <= now + PingInterval
            /\ ping # None => /\ ping.by <= now + PingInterval + PongTimeout
                              /\ now <= now + PingInterval + PongTimeout
        BY <4>1, <4>2
      <4>4. ~WritingPing'
        BY <2>1, <3>2 DEF WritingPing
      <4> QED BY <2>1, <3>2, <4>1, <4>3, <4>4 DEF DeadPeer, None
    <3> QED BY <3>1, <3>2
  <2>4. LivePeer'
    BY <2>1 DEF HInv, LivePeer, LivePeerKept, WritingPing, Answered, AnswersPing, Never
  <2> QED BY <2>2, <2>3, <2>4 DEF HInv
<1>15. CASE Tick
  <2>1. /\ now' = now + 1 /\ stalled' = (stalled \/ phase = "writing")
        /\ WorkerWaits
        /\ UNCHANGED <<phase, nextPing, ping, pings, writing, inbox, died, ended, pongAt>>
    BY <1>15 DEF Tick, heartbeat, peer
  <2>2. CASE phase = "select"
    <3>1. /\ inbox = <<>>
          /\ now < IF ping = None THEN nextPing ELSE ping.by
      BY <2>1, <2>2 DEF WorkerWaits, Times
    <3>2. Clocks'
      BY <1>1, <2>1, <2>2 DEF HInv, Clocks, WritingPing, Never
    <3>3. DeadPeer'
      <4>1. WritingPing' = WritingPing /\ ~WritingPing
        BY <2>1, <2>2 DEF WritingPing
      <4>2. ping = None => now \in Nat /\ nextPing \in Nat /\ now + 1 <= nextPing
        BY <1>1, <3>1 DEF HInv, Clocks
      <4>3. ping # None => now \in Nat /\ ping.by \in Nat /\ now + 1 <= ping.by
        BY <1>1, <3>1 DEF HInv, Clocks
      <4>4. died # Never => died \in Nat
        BY <1>1 DEF HInv, Clocks
      <4>5. ASSUME died # Never
            PROVE  /\ ping = None => nextPing <= died + PingInterval
                   /\ ping # None => ping.by <= died + PingInterval + PongTimeout
        BY <1>1, <2>2, <4>5 DEF HInv, DeadPeer
      <4>6. ASSUME died # Never
            PROVE  /\ ping = None => now + 1 <= died + PingInterval
                   /\ ping # None => now + 1 <= died + PingInterval + PongTimeout
        BY <1>1, <4>2, <4>3, <4>4, <4>5, <4>6, SessionAssumption
      <4> QED BY <2>1, <2>2, <3>1, <4>1, <4>5, <4>6 DEF DeadPeer, Never
    <3>4. ~Answered
      BY <3>1 DEF Answered
    <3>5. LivePeer'
      BY <1>1, <2>1, <2>2, <3>4 DEF HInv, LivePeer, LivePeerKept, Clocks, WritingPing, Never
    <3> QED BY <3>2, <3>3, <3>5 DEF HInv
  <2>3. CASE phase = "writing"
    <3>1. now < writing.by
      BY <2>1, <2>3 DEF WorkerWaits
    <3>2. Clocks'
      BY <1>1, <2>1, <2>3, <3>1 DEF HInv, Clocks, WritingPing, Never
    <3>3. DeadPeer'
      BY <1>1, <2>1, <2>3, <3>1 DEF HInv, Clocks, DeadPeer, WritingPing, Never
    <3>4. LivePeer'
      BY <2>1, <2>3 DEF HInv, LivePeer, LivePeerKept, Clocks
    <3> QED BY <3>2, <3>3, <3>4 DEF HInv
  <2> QED BY <2>1, <2>2, <2>3 DEF WorkerWaits
<1> QED BY <1>3, <1>4, <1>5, <1>6, <1>7, <1>8, <1>9, <1>10, <1>11, <1>12, <1>13, <1>14, <1>15
        DEF Next, Heartbeats, Pushes, Requests, Others

LEMMA Invariant == Spec => [](Calls /\ Arrivals /\ HInv)
<1>1. Init => HInv
  BY DEF Init, HInv, Clocks, DeadPeer, LivePeer, LivePeerKept, WritingPing, Never
<1>2. Calls /\ Arrivals /\ HInv /\ [Next]_vars => HInv'
  BY HStep
<1> QED BY <1>1, <1>2, CallsInvariant, PTL DEF Spec

-----------------------------------------------------------------------------
(* The theorems about heartbeats *)

(***************************************************************************)
(* session() keeps its state consistent for any timeouts and frames: every *)
(* caller that waits is known to the worker, the id of the outstanding ping*)
(* is that of a ping made, the function returns with nothing pending.      *)
(***************************************************************************)
THEOREM TypeCorrect == Spec => []TypeOK
<1>1. ASSUME Calls, Arrivals, HInv
      PROVE  TypeOK
  <2>1. now \in Nat /\ now <= MaxTime /\ PingInterval \in Nat /\ MaxTime \in Nat
    BY <1>1, Numbers
  <2>2. nextPing \in 0..(MaxTime + PingInterval)
    BY <1>1, <2>1 DEF HInv, Clocks
  <2>3. Queued \subseteq Sends
    BY <1>1 DEF Calls, Queued
  <2>4. ping # None => ping.id \in 1..pings /\ ping.by <= now + PongTimeout
    BY <1>1 DEF HInv, Clocks, Arrivals
  <2> QED BY <1>1, <2>2, <2>3, <2>4 DEF TypeOK, Calls, Arrivals, HInv, Clocks
<1> QED BY <1>1, Invariant, PTL

(***************************************************************************)
(* A peer that dies is noticed within ping_interval, pong_timeout and      *)
(* write_timeout, for all values of the three, whatever else goes on.      *)
(***************************************************************************)
THEOREM DeadPeerIsNoticed == Spec => []DeadPeerNoticed
<1>1. ASSUME Calls, HInv
      PROVE  DeadPeerNoticed
  <2>1. /\ now \in Nat /\ now < Never /\ Never \in Nat
        /\ {PingInterval, PongTimeout, WriteTimeout} \subseteq Nat
    BY <1>1, Numbers
  <2>2. CASE died = Never
    BY <2>1, <2>2 DEF DeadPeerNoticed
  <2>3. CASE died # Never /\ phase # "ended"
    <3>1. died \in Nat
      BY <1>1, <2>1, <2>3 DEF HInv, Clocks
    <3>2. CASE phase = "writing"
      <4>1. writing.by \in Nat /\ now <= writing.by
        BY <1>1, <2>1, <3>2 DEF HInv, Clocks
      <4>2. \/ writing.by <= died + PingInterval + WriteTimeout
            \/ writing.by <= died + PingInterval + PongTimeout + WriteTimeout
        BY <1>1, <2>3, <3>2 DEF HInv, DeadPeer
      <4> QED BY <2>1, <3>1, <4>1, <4>2 DEF DeadPeerNoticed
    <3>3. CASE phase # "writing"
      <4>1. now <= died + PingInterval \/ now <= died + PingInterval + PongTimeout
        BY <1>1, <2>3, <3>3 DEF HInv, DeadPeer
      <4> QED BY <2>1, <3>1, <4>1 DEF DeadPeerNoticed
    <3> QED BY <3>2, <3>3
  <2> QED BY <2>2, <2>3 DEF DeadPeerNoticed
<1> QED BY <1>1, Invariant, PTL

(***************************************************************************)
(* A peer that answers in time, and takes what is written, is never dropped*)
(* for its heartbeat.                                                      *)
(***************************************************************************)
THEOREM LivePeerIsKept == Spec => []LivePeerKept
<1>1. HInv => LivePeerKept
  BY DEF HInv, LivePeer
<1> QED BY <1>1, Invariant, PTL

-----------------------------------------------------------------------------
(* Delivery *)

ReadSoFar == frames - Len(inbox)

AckOwed == phase = "writing" /\ writing.what.frame \in {"recvack", "huge"}

DInv ==
  /\ shown \in Seq(Nat) /\ acked \in Seq(Nat)
  /\ \A i \in 1..Len(shown) : shown[i] <= ReadSoFar
  /\ phase # "ended" => IF AckOwed THEN Len(acked) < Len(shown) ELSE shown = acked

LEMMA Quiet ==
  ASSUME Calls, Arrivals, Arrivals', DInv, UNCHANGED <<shown, acked>>,
         ReadSoFar <= ReadSoFar',
         phase' = "ended" \/ (phase # "ended" /\ phase' # "ended" /\ ~AckOwed /\ ~AckOwed')
  PROVE  DInv' /\ [D!Next]_(D!vars)
<1>1. ReadSoFar \in Nat /\ ReadSoFar' \in Nat
  BY DEF Arrivals, ReadSoFar
<1>2. DInv'
  <2>1. \A i \in 1..Len(shown) : shown[i] \in Nat /\ shown[i] <= ReadSoFar
    BY DEF DInv
  <2>2. \A i \in 1..Len(shown) : shown[i] <= ReadSoFar'
    BY <1>1, <2>1
  <2> QED BY <2>2 DEF DInv
<1>3. [D!Next]_(D!vars)
  BY DEF D!Next, D!End, D!vars
<1> QED BY <1>2, <1>3

\* A push is shown: its number is above all that were.
LEMMA Shows ==
  ASSUME Calls, Arrivals, DInv, NEW kind, Reads(kind), shown' = Append(shown, Arrival),
         UNCHANGED acked, AckOwed', phase' = "writing"
  PROVE  DInv' /\ [D!Next]_(D!vars)
<1>1. /\ phase = "select" /\ Len(inbox) \in Nat /\ Len(inbox) > 0
      /\ Len(inbox') = Len(inbox) - 1 /\ UNCHANGED frames
  BY ReadsInbox
<1>2. Arrival \in 1..MaxFrames /\ Arrival \in Nat /\ Arrival = ReadSoFar'
      /\ ReadSoFar < Arrival /\ ReadSoFar \in Nat
  BY <1>1 DEF Arrivals, Arrival, ReadSoFar
<1>3. shown = acked
  BY <1>1 DEF DInv, AckOwed
<1>4. /\ shown' \in Seq(Nat) /\ Len(shown') = Len(shown) + 1 /\ Len(shown) \in Nat
      /\ \A i \in 1..Len(shown) : shown[i] \in Nat /\ shown'[i] = shown[i]
      /\ shown'[Len(shown) + 1] = Arrival
      /\ DOMAIN shown = 1..Len(shown)
  <2>1. shown \in Seq(Nat) /\ Arrival \in Nat
    BY <1>2 DEF DInv
  <2> QED BY <2>1
<1>5. \A i \in 1..Len(shown) : shown[i] < Arrival
  <2>1. \A i \in 1..Len(shown) : shown[i] <= ReadSoFar
    BY DEF DInv
  <2> QED BY <1>2, <1>4, <2>1
<1>6. D!Show(Arrival)
  BY <1>1, <1>3, <1>4, <1>5 DEF D!Show
<1>7. D!Next
  BY <1>2, <1>6 DEF D!Next
<1>8. ASSUME NEW i \in 1..Len(shown')
      PROVE  shown'[i] <= Arrival
  <2>1. i \in 1..Len(shown) \/ i = Len(shown) + 1
    BY <1>4
  <2>2. CASE i \in 1..Len(shown)
    BY <1>2, <1>4, <1>5, <2>2
  <2>3. CASE i = Len(shown) + 1
    BY <1>2, <1>4, <2>3
  <2> QED BY <2>1, <2>2, <2>3
<1>9. DInv'
  BY <1>2, <1>3, <1>4, <1>8 DEF DInv
<1> QED BY <1>7, <1>9

LEMMA DStep ==
  ASSUME Calls, Arrivals, DInv, [Next]_vars
  PROVE  DInv' /\ [D!Next]_(D!vars)
<1>1. Arrivals'
  BY ArrivalsStep
<1>2. ReadSoFar \in Nat
  BY DEF Arrivals, ReadSoFar
<1>3. ASSUME UNCHANGED <<shown, acked, phase, writing>>,
             ReadSoFar <= ReadSoFar'
      PROVE  DInv' /\ [D!Next]_(D!vars)
  <2>1. ReadSoFar \in Nat /\ ReadSoFar' \in Nat
    BY <1>1 DEF Arrivals, ReadSoFar
  <2>2. \A i \in 1..Len(shown) : shown[i] \in Nat /\ shown[i] <= ReadSoFar
    BY DEF DInv
  <2>3. \A i \in 1..Len(shown) : shown[i] <= ReadSoFar'
    BY <1>3, <2>1, <2>2
  <2> QED BY <1>3, <2>3 DEF DInv, AckOwed, D!vars
<1>4. CASE UNCHANGED vars \/ PeerDies \/ Tick
           \/ \E c \in Sends : CallSend(c) \/ CallTimesOut(c) \/ CallDropped(c)
  <2>1. UNCHANGED <<shown, acked, phase, writing, frames, inbox>>
    BY <1>4 DEF vars, PeerDies, Tick, CallSend, CallTimesOut, CallDropped, peer, events
  <2> QED BY <1>2, <1>3, <2>1 DEF ReadSoFar
<1>5. ASSUME NEW f \in Frames, PeerSends(f)
      PROVE  DInv' /\ [D!Next]_(D!vars)
  <2>1. UNCHANGED <<shown, acked, phase, writing>> /\ frames' = frames + 1
        /\ inbox' = Append(inbox, f)
    BY <1>5 DEF PeerSends, events
  <2>2. Len(inbox') = Len(inbox) + 1 /\ Len(inbox) \in Nat /\ frames \in Nat
    BY <2>1 DEF Arrivals
  <2>3. ReadSoFar' = ReadSoFar
    BY <2>1, <2>2 DEF ReadSoFar
  <2> QED BY <1>2, <1>3, <2>1, <2>3
<1>6. CASE Top \/ PongMissing \/ OnlyExpiry \/ SendPing \/ OnCommand
  <2>1. UNCHANGED <<shown, acked, frames, inbox>> /\ phase \in {"top", "select"}
        /\ \/ phase' \in {"top", "select", "ended"}
           \/ phase' = "writing" /\ writing'.what.frame \in {"ping", "request"}
    BY <1>6 DEF Top, PongMissing, OnlyExpiry, SendPing, OnCommand, Ends, Again, Writes, AtTimer,
       peer, events
  <2> QED BY <1>1, <1>2, <2>1, Quiet DEF AckOwed, ReadSoFar
<1>7. CASE OnPong \/ OnPongMethod \/ OnAnswer \/ OnDisconnect \/ OnWebSocketPing \/ OnIgnored
           \/ OnClose
  <2>1. /\ UNCHANGED <<shown, acked>> /\ \E kind : Reads(kind)
        /\ \/ phase' \in {"top", "ended"}
           \/ phase' = "writing" /\ writing'.what.frame = "pong"
    BY <1>7 DEF OnPong, OnPongMethod, OnAnswer, OnDisconnect, OnWebSocketPing, OnIgnored, OnClose,
       Ends, Again, Writes, events
  <2>2. phase = "select" /\ ReadSoFar <= ReadSoFar'
    BY <2>1, ReadsInbox DEF Arrivals, ReadSoFar
  <2> QED BY <1>1, <2>1, <2>2, Quiet DEF AckOwed
<1>8. CASE WriteRefused \/ WriteFails \/ Cancelled
  <2>1. UNCHANGED <<shown, acked, frames, inbox>> /\ phase' = "ended"
    BY <1>8 DEF WriteRefused, WriteFails, Cancelled, Ends, peer, events
  <2> QED BY <1>1, <1>2, <2>1, Quiet DEF ReadSoFar
<1>9. CASE OnPush
  <2>1. /\ Reads("push") /\ shown' = Append(shown, Arrival) /\ UNCHANGED acked
        /\ phase' = "writing" /\ AckOwed'
    BY <1>9 DEF OnPush, Writes, AckOwed
  <2> QED BY <2>1, Shows
<1>10. CASE OnHugePush
  <2>1. /\ Reads("hugePush") /\ shown' = Append(shown, Arrival) /\ UNCHANGED acked
        /\ phase' = "writing" /\ AckOwed'
    BY <1>10 DEF OnHugePush, Writes, AckOwed
  <2> QED BY <2>1, Shows
<1>11. CASE WriteDone
  <2>1. /\ phase = "writing" /\ writing.what.frame # "huge" /\ phase' = "top"
        /\ acked' = IF writing.what.frame = "recvack" THEN shown ELSE acked
        /\ UNCHANGED <<shown, frames, inbox>>
    BY <1>11 DEF WriteDone, peer
  <2>2. CASE writing.what.frame = "recvack"
    <3>1. D!Acknowledge
      BY <2>1, <2>2 DEF D!Acknowledge, DInv, AckOwed
    <3> QED BY <2>1, <2>2, <3>1 DEF DInv, AckOwed, D!Next, ReadSoFar
  <2>3. CASE writing.what.frame # "recvack"
    BY <1>1, <1>2, <2>1, <2>3, Quiet DEF AckOwed, ReadSoFar
  <2> QED BY <2>2, <2>3
<1> QED BY <1>4, <1>5, <1>6, <1>7, <1>8, <1>9, <1>10, <1>11
        DEF Next, Heartbeats, Pushes, Requests, Others

(***************************************************************************)
(* session() implements Delivery, with `the function has returned' for     *)
(* over: messages are shown in order of arrival, each is acknowledged      *)
(* before the next is shown, and no RECVACK is skipped.                    *)
(***************************************************************************)
THEOREM SessionImplementsDelivery == Spec => ImplementsDelivery
<1>1. Init => DInv /\ D!Init
  BY DEF Init, DInv, AckOwed, D!Init
<1>2. Calls /\ Arrivals /\ DInv /\ [Next]_vars => DInv' /\ [D!Next]_(D!vars)
  BY DStep
<1> QED BY <1>1, <1>2, CallsInvariant, PTL DEF Spec, ImplementsDelivery, D!Spec

-----------------------------------------------------------------------------
(* The SendAck events *)

\* The calls the worker still knows; each is known once, a call made once.
Known == pending \cup Queued

Distinct == \A i, j \in DOMAIN queue : queue[i] = queue[j] => i = j

\* What a call may have returned while the worker still knows it, and what it may
\* have returned once its SendAck is emitted.
Open == {"waiting", "Timeout", "dropped"}
Settled == {"Ack", "Timeout", "dropped"}

\* Why an event is not late: select! is entered with no pending call expired, and
\* the clock stops at the first deadline there.
Punctual ==
  /\ \A s \in Sends : told[s] = "Timeout" => deadline[s] <= now
  /\ phase = "select" => \A s \in pending : now <= deadline[s]

AckInv ==
  /\ Distinct /\ pending \cap Queued = {}
  /\ \A s \in Known : told[s] \in Open
  /\ sendAcks \in Seq([of : Sends, at : Nat])
  /\ \A i \in DOMAIN sendAcks : sendAcks[i].of \notin Known /\ told[sendAcks[i].of] \in Settled
  /\ Punctual
  /\ SendAcksAgree

LEMMA TailDistinct ==
  ASSUME queue \in Seq(Sends), queue # <<>>, queue' = Tail(queue), Distinct
  PROVE  Distinct' /\ Head(queue) \notin Queued'
<1>1. /\ Len(queue) \in Nat /\ Len(queue) > 0 /\ Head(queue) = queue[1]
      /\ DOMAIN queue = 1..Len(queue) /\ DOMAIN queue' = 1..(Len(queue) - 1)
      /\ \A i \in 1..(Len(queue) - 1) : queue'[i] = queue[i + 1]
  OBVIOUS
<1>2. ASSUME NEW i \in 1..(Len(queue) - 1)
      PROVE  i + 1 \in 1..Len(queue) /\ i + 1 # 1 /\ 1 \in 1..Len(queue)
  BY <1>1
<1>3. Distinct'
  <2>1. SUFFICES ASSUME NEW i \in 1..(Len(queue) - 1), NEW j \in 1..(Len(queue) - 1),
                        queue'[i] = queue'[j]
                 PROVE  i = j
    BY <1>1 DEF Distinct
  <2>2. i + 1 = j + 1
    BY <1>1, <1>2, <2>1 DEF Distinct
  <2> QED BY <2>2
<1>4. ASSUME NEW i \in 1..(Len(queue) - 1)
      PROVE  queue'[i] # Head(queue)
  BY <1>1, <1>2 DEF Distinct
<1> QED BY <1>1, <1>3, <1>4 DEF Queued

LEMMA AppendDistinct ==
  ASSUME queue \in Seq(Sends), NEW s \in Sends, queue' = Append(queue, s), Distinct,
         s \notin Queued
  PROVE  Distinct'
<1>1. /\ Len(queue) \in Nat /\ queue'[Len(queue) + 1] = s
      /\ DOMAIN queue = 1..Len(queue) /\ DOMAIN queue' = 1..(Len(queue) + 1)
      /\ \A i \in 1..Len(queue) : queue'[i] = queue[i]
  OBVIOUS
<1>2. \A i \in 1..Len(queue) : queue[i] # s
  BY <1>1 DEF Queued
<1>3. \A i \in 1..(Len(queue) + 1) : i \in 1..Len(queue) \/ i = Len(queue) + 1
  BY <1>1
<1> QED BY <1>1, <1>2, <1>3 DEF Distinct

LEMMA OfSends ==
  ASSUME AckInv
  PROVE  \A i \in DOMAIN sendAcks : sendAcks[i].of \in Sends
<1>1. sendAcks \in Seq([of : Sends, at : Nat])
  BY DEF AckInv
<1>2. \A R : sendAcks \in Seq(R) => \A i \in DOMAIN sendAcks : sendAcks[i] \in R
  OBVIOUS
<1>3. \A i \in DOMAIN sendAcks : sendAcks[i] \in [of : Sends, at : Nat]
  BY <1>1, <1>2
<1> QED BY <1>3

\* Callers are told that they waited too long, or left, or lost their session: that
\* makes no SendAck wrong, whatever the worker forgets at once.
LEMMA TellKeeps ==
  ASSUME Calls, AckInv, NEW calling \in SUBSET Known, NEW what \in {"Timeout", "dropped", "Lost"},
         Tell(calling, what), UNCHANGED <<now, deadline, sendAcks>>,
         Known' \subseteq Known, Distinct', pending' \cap Queued' = {},
         what = "Timeout" => \A s \in calling : deadline[s] <= now,
         what = "Lost" => Known' = {},
         phase' = "select" => \A s \in pending' : now <= deadline[s]
  PROVE  AckInv'
<1>1. /\ \A s \in Sends : told'[s] = IF s \in calling /\ told[s] = "waiting" THEN what ELSE told[s]
      /\ Known \subseteq Sends
  BY DEF Tell, Calls, Known, Queued
<1>2. \A s \in Known' : told'[s] \in Open
  BY <1>1 DEF AckInv, Open
<1>3. \A s \in Sends : told[s] \in Settled => told'[s] = told[s]
  BY <1>1 DEF Settled
<1>4. \A i \in DOMAIN sendAcks : sendAcks[i].of \in Sends
  BY OfSends
<1>5. \A i \in DOMAIN sendAcks' :
        sendAcks'[i].of \notin Known' /\ told'[sendAcks'[i].of] \in Settled
  BY <1>3, <1>4 DEF AckInv
<1>6. Punctual'
  BY <1>1 DEF AckInv, Punctual
<1>7. SendAcksAgree'
  <2>1. \A s \in Sends : told'[s] = "Ack" => told[s] = "Ack"
    BY <1>1
  <2> QED BY <1>3, <1>4, <2>1 DEF AckInv, SendAcksAgree
<1> QED BY <1>2, <1>5, <1>6, <1>7 DEF AckInv

LEMMA SameCallsKeep ==
  ASSUME AckInv, UNCHANGED <<now, calls, sendAcks>>, phase' # "select" \/ UNCHANGED phase
  PROVE  AckInv'
BY DEF AckInv, calls, Known, Queued, Distinct, Punctual, SendAcksAgree

LEMMA EndsKeep ==
  ASSUME Calls, AckInv, NEW how, Ends(how), UNCHANGED <<now, sendAcks>>
  PROVE  AckInv'
<1>1. /\ Tell(Known, "Lost") /\ UNCHANGED deadline /\ phase' = "ended"
      /\ pending' = {} /\ queue' = <<>>
  BY DEF Ends, Known
<1>2. Queued' = {} /\ Distinct' /\ Known' = {}
  BY <1>1 DEF Queued, Distinct, Known
<1> QED BY <1>1, <1>2, TellKeeps

LEMMA TopKeeps ==
  ASSUME Calls, AckInv, Top
  PROVE  AckInv'
<1> DEFINE expired == {s \in pending : deadline[s] <= now}
<1>1. /\ Tell(expired, "Timeout") /\ pending' = {s \in pending : told[s] = "waiting"} \ expired
      /\ UNCHANGED <<now, deadline, queue, sendAcks>> /\ phase' = "select"
  BY DEF Top, events
<1>2. Queued' = Queued /\ Distinct' /\ Known' \subseteq Known /\ pending' \cap Queued' = {}
  BY <1>1 DEF Queued, Distinct, Known, AckInv
<1>3. \A s \in pending' : now <= deadline[s]
  BY <1>1 DEF Calls, Past
<1> QED BY <1>1, <1>2, <1>3, TellKeeps DEF Known

LEMMA CommandKeeps ==
  ASSUME Calls, AckInv, OnCommand
  PROVE  AckInv'
<1> DEFINE s == Head(queue)
<1>1. /\ queue \in Seq(Sends) /\ queue # <<>> /\ queue' = Tail(queue) /\ phase' # "select"
      /\ UNCHANGED <<now, deadline, sendAcks>>
  BY DEF OnCommand, Calls, Again, Writes, events
<1>2. s \in Sends /\ Queued = Queued' \cup {s} /\ Distinct' /\ s \notin Queued'
  BY <1>1, QueueTail, TailDistinct DEF AckInv
<1>3. CASE told[s] # "waiting" /\ UNCHANGED <<pending, told>>
  <2>1. Tell({}, "Timeout")
    BY <1>3 DEF Tell, Calls
  <2> QED BY <1>1, <1>2, <1>3, <2>1, TellKeeps DEF Known, AckInv
<1>4. CASE deadline[s] <= now /\ Tell({s}, "Timeout") /\ UNCHANGED pending
  BY <1>1, <1>2, <1>4, TellKeeps DEF Known, AckInv
<1>5. CASE pending' = pending \cup {s} /\ UNCHANGED told
  <2>1. Tell({}, "Timeout")
    BY <1>5 DEF Tell, Calls
  <2> QED BY <1>1, <1>2, <1>5, <2>1, TellKeeps DEF Known, AckInv
<1> QED BY <1>3, <1>4, <1>5 DEF OnCommand

\* The step that emits: the call is pending, so it is on time and has no SendAck.
LEMMA AnswerKeeps ==
  ASSUME Calls, Arrivals, AckInv, OnAnswer
  PROVE  AckInv'
<1> DEFINE s == Frame.of
<1>1. /\ phase = "select" /\ phase' = "top" /\ UNCHANGED <<now, queue, deadline>>
      /\ Queued' = Queued /\ Distinct' /\ s \in Sends /\ Frame.how \in {"Ack", "Error"}
  <2>1. Frame \in FrameSet /\ Frame.kind = "answer"
    BY ReadsInbox DEF OnAnswer
  <2>2. s \in Sends /\ Frame.how \in {"Ack", "Error"}
    BY <2>1 DEF FrameSet, PlainKinds
  <2> QED BY <2>2 DEF OnAnswer, Reads, Again, Queued, Distinct, AckInv
<1>2. CASE s \notin pending
  BY <1>1, <1>2, SameCallsKeep DEF OnAnswer, calls
<1>3. CASE s \in pending
  <2>1. /\ pending' = pending \ {s} /\ Tell({s}, Frame.how)
        /\ sendAcks' = IF Frame.how = "Ack"
                       THEN Append(sendAcks, [of |-> s, at |-> now]) ELSE sendAcks
    BY <1>3 DEF OnAnswer
  <2>2. Known' \subseteq Known /\ s \notin Known' /\ pending' \cap Queued' = {}
    BY <1>1, <1>3, <2>1 DEF AckInv, Known
  <2>3. /\ now \in Nat /\ now <= deadline[s] /\ deadline[s] \in Nat
        /\ told[s] \in Open /\ (told[s] = "Timeout" => deadline[s] <= now)
    BY <1>1, <1>3 DEF AckInv, Punctual, Calls, Past, Known
  <2>4. \A c \in Sends : told'[c] = IF c = s /\ told[s] = "waiting" THEN Frame.how ELSE told[c]
    BY <2>1 DEF Tell
  <2>5. \A c \in Known' : told'[c] \in Open
    <3>1. \A c \in Known' : c \in Known /\ c # s /\ c \in Sends
      BY <2>2 DEF Calls, Known, Queued
    <3> QED BY <2>4, <3>1 DEF AckInv
  <2>6. Punctual'
    BY <1>1, <2>4 DEF AckInv, Punctual
  <2>7. /\ sendAcks \in Seq([of : Sends, at : Nat])
        /\ \A i \in DOMAIN sendAcks : sendAcks[i].of \in Sends /\ sendAcks[i].of # s
    BY <1>3, OfSends DEF AckInv, Known
  <2>8. \A i \in DOMAIN sendAcks :
          /\ sendAcks[i].of \notin Known'
          /\ told'[sendAcks[i].of] = told[sendAcks[i].of]
          /\ told[sendAcks[i].of] \in Settled
    BY <2>2, <2>4, <2>7 DEF AckInv
  <2>9. CASE Frame.how = "Error"
    <3>1. sendAcks' = sendAcks /\ \A c \in Sends : told'[c] = "Ack" => told[c] = "Ack"
      BY <2>1, <2>4, <2>9
    <3>2. SendAcksAgree'
      BY <1>1, <2>7, <2>8, <3>1 DEF AckInv, SendAcksAgree
    <3> QED BY <1>1, <2>2, <2>5, <2>6, <2>7, <2>8, <3>1, <3>2 DEF AckInv
  <2>10. CASE Frame.how = "Ack"
    <3> DEFINE e == [of |-> s, at |-> now]
               n == Len(sendAcks) + 1
    <3>1. sendAcks' = Append(sendAcks, e) /\ e \in [of : Sends, at : Nat]
      BY <1>1, <2>1, <2>3, <2>10
    <3>2. /\ sendAcks' \in Seq([of : Sends, at : Nat])
          /\ n \in Nat /\ DOMAIN sendAcks' = 1..n /\ DOMAIN sendAcks = 1..(n - 1)
          /\ sendAcks'[n] = e /\ \A i \in 1..(n - 1) : sendAcks'[i] = sendAcks[i]
      BY <2>7, <3>1
    <3>3. /\ n \in DOMAIN sendAcks' /\ DOMAIN sendAcks \subseteq DOMAIN sendAcks'
          /\ \A i \in DOMAIN sendAcks' : i \in DOMAIN sendAcks \/ i = n
      BY <3>2
    <3>4. \A i \in DOMAIN sendAcks : sendAcks'[i] = sendAcks[i]
      BY <3>2
    <3>10. told'[s] \in Settled /\ (now < deadline[s] => told'[s] \in {"Ack", "dropped"})
      BY <2>3, <2>4, <2>10, <1>1 DEF Open, Settled
    <3>11. sendAcks'[n].of = s /\ sendAcks'[n].at = now
      BY <3>2
    <3> HIDE DEF e, n
    <3>5. \A i \in DOMAIN sendAcks' :
            sendAcks'[i].of \notin Known' /\ told'[sendAcks'[i].of] \in Settled
      BY <2>2, <2>8, <3>3, <3>4, <3>10, <3>11
    <3>6. \A i \in DOMAIN sendAcks' :
            /\ sendAcks'[i].at <= deadline[sendAcks'[i].of]
            /\ sendAcks'[i].at < deadline[sendAcks'[i].of] =>
                 told'[sendAcks'[i].of] \in {"Ack", "dropped"}
      <4>1. \A i \in DOMAIN sendAcks :
              /\ sendAcks[i].at <= deadline[sendAcks[i].of]
              /\ sendAcks[i].at < deadline[sendAcks[i].of] =>
                   told'[sendAcks[i].of] \in {"Ack", "dropped"}
        BY <2>8 DEF AckInv, SendAcksAgree
      <4>2. \A i \in DOMAIN sendAcks' :
              (i \in DOMAIN sendAcks /\ sendAcks'[i] = sendAcks[i])
              \/ (sendAcks'[i].of = s /\ sendAcks'[i].at = now)
        BY <3>3, <3>4, <3>11
      <4> QED BY <2>3, <3>10, <4>1, <4>2
    <3>7. \A i, j \in DOMAIN sendAcks' : sendAcks'[j].of = sendAcks'[i].of => j = i
      <4>1. \A i, j \in DOMAIN sendAcks : sendAcks[j].of = sendAcks[i].of => j = i
        BY DEF AckInv, SendAcksAgree
      <4>2. \A i \in DOMAIN sendAcks' :
              (i \in DOMAIN sendAcks /\ sendAcks'[i].of # s /\ sendAcks'[i] = sendAcks[i])
              \/ (i = n /\ sendAcks'[i].of = s)
        BY <2>7, <3>3, <3>4, <3>11
      <4> QED BY <4>1, <4>2
    <3>8. \A c \in Sends : told'[c] = "Ack" => \E i \in DOMAIN sendAcks' : sendAcks'[i].of = c
      BY <2>4, <3>3, <3>4, <3>11 DEF AckInv, SendAcksAgree
    <3>9. SendAcksAgree'
      BY <1>1, <3>6, <3>7, <3>8 DEF SendAcksAgree
    <3>12. sendAcks' \in Seq([of : Sends, at : Nat])
      BY <3>2
    <3> QED BY <1>1, <2>2, <2>5, <2>6, <3>5, <3>9, <3>12 DEF AckInv
  <2> QED BY <1>1, <2>9, <2>10
<1> QED BY <1>2, <1>3

LEMMA CallKeeps ==
  ASSUME Calls, AckInv, NEW s \in Sends, CallSend(s)
  PROVE  AckInv'
<1>1. /\ told[s] = "unmade" /\ told' = [told EXCEPT ![s] = "waiting"]
      /\ deadline' = [deadline EXCEPT ![s] = now + RequestTimeout]
      /\ queue' = Append(queue, s) /\ UNCHANGED <<now, phase, pending, sendAcks>>
  BY DEF CallSend, events
<1>2. \A c \in Sends \ {s} : told'[c] = told[c] /\ deadline'[c] = deadline[c]
  BY <1>1 DEF Calls
<1>3. told'[s] = "waiting" /\ deadline'[s] = now + RequestTimeout
  BY <1>1 DEF Calls
<1>4. s \notin Known
  BY <1>1 DEF AckInv, Open
<1>5. Distinct' /\ Queued' = Queued \cup {s} /\ Known' = Known \cup {s}
  BY <1>1, <1>4, QueueAppend, AppendDistinct DEF Known, Calls, AckInv
<1>6. \A i \in DOMAIN sendAcks : sendAcks[i].of \in Sends \ {s}
  BY <1>1, OfSends DEF AckInv, Settled
<1>7. \A i \in DOMAIN sendAcks' :
        sendAcks'[i].of \notin Known' /\ told'[sendAcks'[i].of] \in Settled
  BY <1>1, <1>2, <1>5, <1>6 DEF AckInv
<1>8. \A c \in Known' : told'[c] \in Open
  <2>1. Known \subseteq Sends
    BY DEF Known, Calls, Queued
  <2> QED BY <1>2, <1>3, <1>4, <1>5, <2>1 DEF AckInv, Open
<1>9. Punctual'
  BY <1>1, <1>2, <1>3, <1>4 DEF AckInv, Punctual, Calls, Known
<1>10. SendAcksAgree'
  BY <1>1, <1>2, <1>3, <1>6 DEF AckInv, SendAcksAgree
<1>11. pending' \cap Queued' = {} /\ sendAcks' \in Seq([of : Sends, at : Nat])
  BY <1>1, <1>4, <1>5 DEF AckInv, Known
<1> QED BY <1>5, <1>7, <1>8, <1>9, <1>10, <1>11 DEF AckInv

\* A caller that stops waiting does not touch what the worker knows of its call.
LEMMA LeavingKeeps ==
  ASSUME Calls, AckInv, NEW s \in Sends, CallTimesOut(s) \/ CallDropped(s)
  PROVE  AckInv'
<1>1. /\ told[s] = "waiting" /\ UNCHANGED <<now, phase, pending, queue, deadline, sendAcks>>
      /\ \E what \in {"Timeout", "dropped"} :
           Tell({s}, what) /\ (what = "Timeout" => deadline[s] <= now)
  BY DEF CallTimesOut, CallDropped, events
<1>2. s \in Known /\ Known' = Known /\ Queued' = Queued /\ Distinct'
  BY <1>1 DEF Calls, Known, Queued, AckInv, Distinct
<1>3. phase' = "select" => \A c \in pending' : now <= deadline[c]
  BY <1>1 DEF AckInv, Punctual
<1> QED BY <1>1, <1>2, <1>3, TellKeeps DEF AckInv

LEMMA TickKeeps ==
  ASSUME Calls, AckInv, Tick
  PROVE  AckInv'
<1>1. /\ now' = now + 1 /\ UNCHANGED <<phase, pending, queue, deadline, told, sendAcks>>
      /\ phase = "select" => \A s \in pending : now < deadline[s]
  BY DEF Tick, calls, events, WorkerWaits, Times
<1>2. Known' = Known /\ Queued' = Queued /\ Distinct'
  BY <1>1 DEF Known, Queued, AckInv, Distinct
<1>3. Punctual'
  BY <1>1 DEF AckInv, Punctual, Calls, Past
<1>4. SendAcksAgree'
  BY <1>1 DEF AckInv, SendAcksAgree
<1> QED BY <1>1, <1>2, <1>3, <1>4 DEF AckInv

LEMMA AckStep ==
  ASSUME Calls, Arrivals, AckInv, [Next]_vars
  PROVE  AckInv'
<1>1. CASE PongMissing \/ WriteRefused \/ OnDisconnect \/ OnClose \/ WriteFails \/ Cancelled
  <2>1. UNCHANGED <<now, sendAcks>> /\ \E how : Ends(how)
    BY <1>1 DEF PongMissing, WriteRefused, OnDisconnect, OnClose, WriteFails, Cancelled, Reads,
       events
  <2> QED BY <2>1, EndsKeep
<1>2. CASE OnPong
  <2>1. UNCHANGED <<now, sendAcks>>
    BY <1>2 DEF OnPong, Reads, events
  <2>2. (\E how : Ends(how)) \/ (UNCHANGED calls /\ phase' = "top")
    BY <1>2 DEF OnPong, Again, calls
  <2> QED BY <2>1, <2>2, EndsKeep, SameCallsKeep
<1>3. CASE SendPing \/ OnlyExpiry \/ OnPongMethod \/ OnPush \/ OnHugePush \/ OnWebSocketPing
           \/ OnIgnored \/ WriteDone
  <2>1. UNCHANGED <<now, calls, sendAcks>> /\ phase' \in {"top", "writing"}
    BY <1>3 DEF SendPing, OnlyExpiry, OnPongMethod, OnPush, OnHugePush, OnWebSocketPing,
       OnIgnored, WriteDone, Reads, Writes, Again, events
  <2> QED BY <2>1, SameCallsKeep
<1>4. CASE UNCHANGED vars \/ PeerDies \/ \E f \in Frames : PeerSends(f)
  <2>1. UNCHANGED <<now, phase, calls, sendAcks>>
    BY <1>4 DEF vars, PeerDies, PeerSends, events, calls
  <2> QED BY <2>1, SameCallsKeep
<1>5. CASE \E s \in Sends : CallSend(s) \/ CallTimesOut(s) \/ CallDropped(s)
  BY <1>5, CallKeeps, LeavingKeeps
<1> QED BY <1>1, <1>2, <1>3, <1>4, <1>5, TopKeeps, CommandKeeps, AnswerKeeps, TickKeeps
        DEF Next, Heartbeats, Pushes, Requests, Others

(***************************************************************************)
(* For any number of calls and any timeouts: one SendAck per call, never   *)
(* after its deadline, and if before it then for a caller that is told Ack *)
(* or has left; nobody is told Ack without one.                            *)
(***************************************************************************)
THEOREM SendAcksAlwaysAgree == Spec => []SendAcksAgree
<1>1. Init => AckInv
  BY DEF Init, AckInv, Distinct, Known, Queued, Punctual, SendAcksAgree
<1>2. Calls /\ Arrivals /\ AckInv /\ [Next]_vars => AckInv'
  BY AckStep
<1>3. AckInv => SendAcksAgree
  BY DEF AckInv
<1> QED BY <1>1, <1>2, <1>3, CallsInvariant, PTL DEF Spec
===============================================================================
