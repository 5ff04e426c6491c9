--------------------------- MODULE HandshakeProofs ---------------------------
(* Handshake, for any timeouts and whatever the peer says. *)
EXTENDS Handshake, ProtocolProofs

\* A timeout inside of another one leaves that where it is.
LEMMA Inside ==
  ASSUME NEW S, NEW s \in Seq(S), s # <<>>, NEW d \in S, NEW t, t = Append(s, d)
  PROVE  t \in Seq(S) /\ Len(t) = Len(s) + 1 /\ t # <<>> /\ t[1] = s[1]
<1>1. t \in Seq(S) /\ Len(t) = Len(s) + 1
  OBVIOUS
<1>2. Len(s) \in Nat /\ Len(s) >= 1
  OBVIOUS
<1>3. t[1] = s[1]
  BY <1>2
<1>4. t # <<>>
  BY <1>1, <1>2
<1> QED BY <1>1, <1>3, <1>4

LEMMA Outside ==
  ASSUME NEW S, NEW s \in Seq(S), Len(s) = 2
  PROVE  /\ SubSeq(s, 1, Len(s) - 1) \in Seq(S)
         /\ Len(SubSeq(s, 1, Len(s) - 1)) = 1
         /\ SubSeq(s, 1, Len(s) - 1) # <<>>
         /\ SubSeq(s, 1, Len(s) - 1)[1] = s[1]
OBVIOUS

USE HandshakeAssumption

FrameSet == [kind : {"text"}, value : Texts] \cup [kind : {"ping", "pong", "other"}]

\* What read so far cannot have held, unless it was the last.
Passed(i) == read[i].kind \in {"ping", "pong"}

\* The outer timeout stands until establish() returns; a write adds its own.
Guarded ==
  /\ armed \in Seq(Nat)
  /\ phase # "done" => armed # <<>> /\ armed[1] = ConnectTimeout
  /\ phase = "done" => armed = <<>>
  /\ phase \in {"dialing", "reading"} => Len(armed) = 1
  /\ Writing => Len(armed) = 2
  /\ result = Timeout => now = ConnectTimeout

IInv ==
  /\ Guarded
  /\ now \in Nat /\ now <= MaxTime
  /\ phase \in {"dialing", "writing", "reading", "flushing", "done"}
  /\ inbox \in Seq(FrameSet) /\ read \in Seq(FrameSet)
  /\ Len(read) + Len(inbox) <= MaxFrames
  /\ phase # "done" =>
       /\ now <= ConnectTimeout
       /\ result = Absent
       /\ \A i \in 1..Len(read) : Passed(i)
  /\ phase = "done" =>
       \/ /\ result \in {Transport, Timeout, MessageTooLarge}
          /\ \A i \in 1..Len(read) : Passed(i) \/ (i = Len(read) /\ read[i].kind = "other")
       \/ /\ Len(read) > 0 /\ read[Len(read)].kind = "text"
          /\ result = Authenticated(read[Len(read)].value)
          /\ \A i \in 1..(Len(read) - 1) : Passed(i)

LEMMA ReadsSeq ==
  ASSUME IInv, NEW kind, Reads(kind)
  PROVE  /\ phase = "reading" /\ UNCHANGED now
         /\ Head(inbox) \in FrameSet /\ Head(inbox).kind = kind
         /\ inbox' \in Seq(FrameSet) /\ read' \in Seq(FrameSet)
         /\ Len(read') = Len(read) + 1 /\ Len(inbox') = Len(inbox) - 1
         /\ Len(read) \in Nat /\ Len(inbox) \in Nat
         /\ read'[Len(read')] = Head(inbox)
         /\ \A i \in 1..Len(read) : read'[i] = read[i]
<1>1. inbox \in Seq(FrameSet) /\ read \in Seq(FrameSet) /\ inbox # <<>>
      /\ inbox' = Tail(inbox) /\ read' = Append(read, Head(inbox))
  BY DEF IInv, Reads
<1>2. Head(inbox) \in FrameSet
  BY <1>1
<1> QED BY <1>1, <1>2 DEF Reads

\* Nothing but pings and pongs came before the frame that is read.
LEMMA ReadsPassed ==
  ASSUME IInv, NEW kind, Reads(kind)
  PROVE  /\ \A i \in 1..(Len(read') - 1) : Passed(i)'
         /\ read'[Len(read')].kind = kind /\ Len(read') \in Nat /\ Len(read') > 0
         /\ Len(read') + Len(inbox') <= MaxFrames
         /\ phase = "reading" /\ now \in Nat /\ now <= MaxTime /\ now <= ConnectTimeout
         /\ result = Absent
<1>1. phase = "reading"
  BY ReadsSeq
<1>2. /\ \A i \in 1..Len(read) : Passed(i)
      /\ Len(read) + Len(inbox) <= MaxFrames
      /\ now \in Nat /\ now <= MaxTime /\ now <= ConnectTimeout /\ result = Absent
  BY <1>1 DEF IInv
<1>3. /\ Len(read) \in Nat /\ Len(inbox) \in Nat
      /\ Len(read') = Len(read) + 1 /\ Len(inbox') = Len(inbox) - 1
      /\ read'[Len(read')].kind = kind /\ \A i \in 1..Len(read) : read'[i] = read[i]
  BY ReadsSeq
<1>4. \A i \in 1..(Len(read') - 1) : Passed(i)'
  BY <1>2, <1>3 DEF Passed
<1> QED BY <1>1, <1>2, <1>3, <1>4

\* The result of a handshake that was told nothing.
LEMMA ReturnsQuietly ==
  ASSUME IInv, phase # "done", NEW r \in {Transport, Timeout, MessageTooLarge}, Returns(r),
         r = Timeout => now = ConnectTimeout, UNCHANGED <<now, inbox, read>>
  PROVE  IInv'
<1>1. Guarded'
  BY DEF Returns, Guarded, Writing
<1> QED BY <1>1 DEF IInv, Returns, Passed

LEMMA Distinct ==
  /\ Absent \notin {Transport, Timeout, MessageTooLarge}
  /\ \A r \in {Transport, Timeout, MessageTooLarge} :
       ~IsOk(r) /\ r.err \in {"Transport", "Timeout", "MessageTooLarge"}
  /\ Timeout \notin {Absent, Transport, MessageTooLarge}
BY DEF Absent, Transport, Timeout, MessageTooLarge, IsOk

\* An answer that is refused is refused as the peer's.
LEMMA RefusedAsSaid ==
  ASSUME NEW v, ~IsOk(Authenticated(v))
  PROVE  Authenticated(v).err \in {"Protocol", "Server"}
BY AnswerErrors DEF Authenticated, ProtocolError

\* What the peer says is not taken for the end of the time.
LEMMA NotTimeout ==
  ASSUME NEW v
  PROVE  Authenticated(v) # Timeout
<1>1. ~IsOk(Timeout) /\ Timeout.err = "Timeout"
  BY DEF Timeout, IsOk
<1> QED BY <1>1, RefusedAsSaid

LEMMA Invariant == Spec => []IInv
<1>1. Init => IInv
  BY Distinct DEF Init, IInv, Guarded, Writing
<1>2. ASSUME IInv, [Next]_vars
      PROVE  IInv'
  <2>1. CASE Dialed
    <3>1. CASE Writes("writing")
      <4>1. Len(armed) = 1 /\ armed[1] = ConnectTimeout /\ armed' \in Seq(Nat)
            /\ Len(armed') = 2 /\ armed' # <<>> /\ armed'[1] = armed[1]
        <5>1. armed \in Seq(Nat) /\ armed # <<>>
          BY <1>2, <2>1 DEF Dialed, IInv, Guarded
        <5>2. now + WriteTimeout \in Nat /\ armed' = Append(armed, now + WriteTimeout)
          BY <1>2, <3>1 DEF Writes, IInv
        <5>3. armed' \in Seq(Nat) /\ Len(armed') = Len(armed) + 1 /\ armed' # <<>>
              /\ armed'[1] = armed[1]
          BY <5>1, <5>2, Inside
        <5>4. Len(armed) = 1 /\ armed[1] = ConnectTimeout
          BY <1>2, <2>1 DEF Dialed, IInv, Guarded
        <5> QED BY <5>3, <5>4
      <4>2. Guarded'
        BY <1>2, <2>1, <3>1, <4>1, Distinct DEF Dialed, Writes, IInv, Guarded, Writing
      <4> QED BY <1>2, <2>1, <3>1, <4>2 DEF Dialed, Writes, IInv, Passed
    <3>2. CASE Returns(MessageTooLarge)
      BY <1>2, <2>1, <3>2, ReturnsQuietly, Distinct DEF Dialed
    <3> QED BY <2>1, <3>1, <3>2 DEF Dialed
  <2>2. CASE DialFails
    BY <1>2, <2>2, ReturnsQuietly, Distinct DEF DialFails
  <2>3. CASE Written
    <3>1. Len(armed) = 2 /\ armed \in Seq(Nat) /\ armed[1] = ConnectTimeout
      BY <1>2, <2>3 DEF Written, IInv, Guarded, Writing
    <3>2. /\ armed' \in Seq(Nat) /\ Len(armed') = 1 /\ armed' # <<>>
          /\ armed'[1] = ConnectTimeout
      <4>1. armed' = SubSeq(armed, 1, Len(armed) - 1)
        BY <2>3 DEF Written
      <4> QED BY <3>1, <4>1, Outside
    <3>3. Guarded'
      <4>1. phase' = "reading" /\ result' = Absent /\ UNCHANGED now
        BY <1>2, <2>3 DEF Written, IInv, Writing
      <4> QED BY <3>2, <4>1, Distinct DEF Guarded, Writing
    <3> QED BY <1>2, <2>3, <3>3 DEF Written, Writing, IInv, Passed
  <2>4. CASE WriteFails
    BY <1>2, <2>4, ReturnsQuietly, Distinct DEF WriteFails, Writing
  <2>5. CASE OnText
    <3>1. Reads("text") /\ phase' = "done" /\ result' = Authenticated(Head(inbox).value)
      BY <2>5 DEF OnText, Returns
    <3>2. Authenticated(read[Len(read)].value)' = Authenticated(read'[Len(read')].value)
      BY DEF Authenticated, id
    <3>3. inbox' \in Seq(FrameSet) /\ read' \in Seq(FrameSet) /\ UNCHANGED now
          /\ read'[Len(read')] = Head(inbox)
      BY <1>2, <3>1, ReadsSeq
    <3>4. Guarded'
      BY <2>5, <3>1, NotTimeout DEF OnText, Returns, Guarded, Writing
    <3> QED BY <1>2, <3>1, <3>2, <3>3, <3>4, ReadsPassed DEF IInv
  <2>6. CASE OnPing \/ OnPong
    <3>1. /\ \E kind \in {"ping", "pong"} : Reads(kind)
          /\ phase' = phase \/ phase' = "flushing"
          /\ UNCHANGED result
      BY <2>6 DEF OnPing, OnPong, Writes
    <3>2. inbox' \in Seq(FrameSet) /\ read' \in Seq(FrameSet) /\ UNCHANGED now
      BY <1>2, <3>1, ReadsSeq
    <3>3. \A i \in 1..Len(read') : Passed(i)'
      BY <1>2, <3>1, ReadsPassed DEF Passed
    <3>4. /\ armed \in Seq(Nat) /\ armed # <<>> /\ Len(armed) = 1 /\ armed[1] = ConnectTimeout
          /\ phase = "reading" /\ now \in Nat /\ result = Absent
      BY <1>2, <3>1, ReadsPassed DEF IInv, Guarded
    <3>5. CASE OnPing
      <4>1. phase' = "flushing" /\ armed' \in Seq(Nat) /\ Len(armed') = 2
            /\ armed' # <<>> /\ armed'[1] = armed[1]
        <5>1. now + WriteTimeout \in Nat /\ armed' = Append(armed, now + WriteTimeout)
              /\ phase' = "flushing"
          BY <3>4, <3>5 DEF OnPing, Writes
        <5>2. armed \in Seq(Nat) /\ armed # <<>> /\ Len(armed) + 1 = 2
          BY <3>4
        <5>3. armed' \in Seq(Nat) /\ Len(armed') = Len(armed) + 1 /\ armed' # <<>>
              /\ armed'[1] = armed[1]
          BY <5>1, <5>2, Inside
        <5> QED BY <5>1, <5>2, <5>3
      <4>2. Guarded'
        BY <3>1, <3>4, <4>1, Distinct DEF Guarded, Writing
      <4> QED BY <1>2, <3>1, <3>2, <3>3, <4>2, ReadsPassed DEF IInv
    <3>6. CASE OnPong
      <4>1. UNCHANGED <<phase, armed>>
        BY <3>6 DEF OnPong
      <4>2. Guarded'
        BY <3>1, <3>4, <4>1, Distinct DEF Guarded, Writing
      <4> QED BY <1>2, <3>1, <3>2, <3>3, <4>2, ReadsPassed DEF IInv
    <3> QED BY <2>6, <3>5, <3>6
  <2>7. CASE OnOther
    <3>1. Reads("other") /\ phase' = "done" /\ result' = Transport
      BY <2>7 DEF OnOther, Returns
    <3>2. inbox' \in Seq(FrameSet) /\ read' \in Seq(FrameSet) /\ UNCHANGED now
      BY <1>2, <3>1, ReadsSeq
    <3>3. \A i \in 1..Len(read') :
            Passed(i)' \/ (i = Len(read') /\ read'[i].kind = "other")
      BY <1>2, <3>1, ReadsPassed
    <3>4. Guarded'
      BY <2>7, <3>1, Distinct DEF OnOther, Returns, Guarded, Writing
    <3> QED BY <1>2, <3>1, <3>2, <3>3, <3>4, ReadsPassed DEF IInv
  <2>8. CASE TimesOut
    <3>1. armed # <<>> /\ now >= armed[1] /\ Returns(Timeout) /\ UNCHANGED <<now, inbox, read>>
      BY <2>8 DEF TimesOut, IsOver
    <3>2. phase # "done" /\ armed[1] = ConnectTimeout
      BY <1>2, <3>1 DEF IInv, Guarded, Writing
    <3>3. now = ConnectTimeout
      BY <1>2, <3>1, <3>2 DEF IInv
    <3> QED BY <1>2, <3>1, <3>2, <3>3, ReturnsQuietly
  <2>9. ASSUME NEW f \in Frames, PeerSends(f)
        PROVE  IInv'
    <3>1. f \in FrameSet
      BY DEF Frames, FrameSet
    <3>2. /\ inbox' = Append(inbox, f) /\ Len(read) + Len(inbox) < MaxFrames
          /\ phase # "done" /\ UNCHANGED <<now, phase, armed, read, result>>
      BY <2>9 DEF PeerSends
    <3>3. inbox' \in Seq(FrameSet) /\ Len(inbox') = Len(inbox) + 1 /\ Len(inbox) \in Nat
          /\ Len(read) \in Nat
      BY <1>2, <3>1, <3>2 DEF IInv
    <3>4. Guarded'
      BY <1>2, <3>2 DEF IInv, Guarded, Writing
    <3> QED BY <1>2, <3>2, <3>3, <3>4 DEF IInv, Passed
  <2>10. CASE Tick
    <3>1. /\ now' = now + 1 /\ now < MaxTime /\ phase # "done"
          /\ UNCHANGED <<phase, armed, inbox, read, result>>
          /\ \A i \in DOMAIN armed : ~(now >= armed[i])
      BY <2>10 DEF Tick, WorkerWaits, Writing, IsOver
    <3>2. armed # <<>> /\ armed \in Seq(Nat) /\ armed[1] = ConnectTimeout
      BY <1>2, <3>1 DEF IInv, Guarded, Writing
    <3>3. now < ConnectTimeout
      BY <1>2, <3>1, <3>2 DEF IInv
    <3>4. Guarded'
      BY <1>2, <3>1, Distinct DEF IInv, Guarded, Writing
    <3> QED BY <1>2, <3>1, <3>3, <3>4 DEF IInv, Passed
  <2>11. CASE UNCHANGED vars
    <3>1. UNCHANGED <<now, phase, armed, inbox, read, result>>
      BY <2>11 DEF vars
    <3>2. Authenticated(read[Len(read)].value)' = Authenticated(read[Len(read)].value)
      BY <3>1 DEF Authenticated, id
    <3>3. Guarded'
      BY <1>2, <3>1 DEF IInv, Guarded, Writing
    <3> QED BY <1>2, <3>1, <3>2, <3>3 DEF IInv, Passed
  <2> QED BY <1>2, <2>1, <2>2, <2>3, <2>4, <2>5, <2>6, <2>7, <2>8, <2>9, <2>10, <2>11 DEF Next
<1> QED BY <1>1, <1>2, PTL DEF Spec

-----------------------------------------------------------------------------
(* The theorems *)

(***************************************************************************)
(* establish() returns within connect_timeout, whatever the peer does, for *)
(* every timeout: the one around everything stands as long as it has not   *)
(* returned.                                                               *)
(***************************************************************************)
THEOREM HandshakeEndsInTime == Spec => []EndsInTime
<1>1. IInv => EndsInTime
  BY DEF IInv, Guarded, EndsInTime
<1> QED BY <1>1, Invariant, PTL

(***************************************************************************)
(* establish() returns an error that ends a reconnecting run only if the   *)
(* peer has said something, and always if what it said is not acceptance.  *)
(***************************************************************************)
THEOREM RejectionsAreSaid == Spec => []RejectionIsSaid
<1>1. ASSUME IInv, result # Absent, ~IsOk(result)
      PROVE  (result.err \in {"Server", "Protocol"})
               <=> (\E i \in DOMAIN read : read[i].kind = "text")
  <2>1. phase = "done" /\ DOMAIN read = 1..Len(read) /\ Len(read) \in Nat
    BY <1>1 DEF IInv
  <2>2. CASE /\ result \in {Transport, Timeout, MessageTooLarge}
             /\ \A i \in 1..Len(read) : Passed(i) \/ (i = Len(read) /\ read[i].kind = "other")
    <3>1. result.err \notin {"Server", "Protocol"}
      BY <2>2, Distinct
    <3>2. ~\E i \in DOMAIN read : read[i].kind = "text"
      BY <2>1, <2>2 DEF Passed
    <3> QED BY <3>1, <3>2
  <2>3. CASE /\ Len(read) > 0 /\ read[Len(read)].kind = "text"
             /\ result = Authenticated(read[Len(read)].value)
    <3>1. result.err \in {"Server", "Protocol"}
      BY <1>1, <2>3, RefusedAsSaid
    <3>2. \E i \in DOMAIN read : read[i].kind = "text"
      BY <2>1, <2>3
    <3> QED BY <3>1, <3>2
  <2> QED BY <1>1, <2>1, <2>2, <2>3 DEF IInv
<1>2. IInv => RejectionIsSaid
  BY <1>1 DEF RejectionIsSaid
<1> QED BY <1>2, Invariant, PTL

(***************************************************************************)
(* A session begins only with the answer to its own CONNECT, the first     *)
(* text of the peer, and only if that says Success.                        *)
(***************************************************************************)
THEOREM AuthenticationIsByAnswer == Spec => []AuthenticatedByAnswer
<1>1. ASSUME IInv, result # Absent, IsOk(result)
      PROVE  AuthenticatedByAnswer
  <2> DEFINE v == read[Len(read)].value
  <2>1. /\ Len(read) \in Nat /\ Len(read) > 0 /\ read[Len(read)].kind = "text"
        /\ result = Authenticated(v)
        /\ \A i \in 1..(Len(read) - 1) : Passed(i)
        /\ DOMAIN read = 1..Len(read)
    BY <1>1, Distinct DEF IInv
  <2>2. Get(v, "id") = id /\ IsOk(answer(ConnectResult, v))
    BY <1>1, <2>1 DEF Authenticated, IsOk, ProtocolError
  <2>3. Get(v, "result").t = "obj" => Reason(Get(v, "result")) = Num(1)
    BY <2>2, AnswersHaveReason, TakenSaysSuccess
  <2>4. Get(v, "result").t \in {"obj", "arr"}
    BY <2>2, AnswerIsStruct
  <2>5. (CHOOSE i \in DOMAIN read :
           read[i].kind = "text" /\ \A j \in 1..(i - 1) : read[j].kind # "text") = Len(read)
    <3>1. \A j \in 1..(Len(read) - 1) : read[j].kind # "text"
      BY <2>1 DEF Passed
    <3> QED BY <2>1, <3>1
  <2> QED BY <2>2, <2>3, <2>4, <2>5 DEF AuthenticatedByAnswer
<1>2. IInv => AuthenticatedByAnswer
  BY <1>1 DEF AuthenticatedByAnswer
<1> QED BY <1>2, Invariant, PTL

(***************************************************************************)
(* The state of establish() is consistent: it has a result exactly when it *)
(* has returned, and a text or a foreign frame is the last one it reads.   *)
(***************************************************************************)
THEOREM TypeCorrect == Spec => []TypeOK
<1>1. ASSUME IInv
      PROVE  TypeOK
  <2>1. Len(read) \in Nat
    BY <1>1 DEF IInv
  <2>2. CASE phase # "done"
    BY <1>1, <2>1, <2>2 DEF IInv, TypeOK, Passed
  <2>3. CASE /\ phase = "done" /\ result \in {Transport, Timeout, MessageTooLarge}
             /\ \A i \in 1..Len(read) : Passed(i) \/ (i = Len(read) /\ read[i].kind = "other")
    <3>1. \A i \in 1..Len(read) : read[i].kind \in {"text", "other"} => i = Len(read)
      BY <2>3 DEF Passed
    <3> QED BY <1>1, <2>1, <2>3, <3>1, Distinct DEF IInv, TypeOK
  <2>4. CASE /\ phase = "done" /\ Len(read) > 0 /\ read[Len(read)].kind = "text"
             /\ result = Authenticated(read[Len(read)].value)
             /\ \A i \in 1..(Len(read) - 1) : Passed(i)
    <3>1. \A i \in 1..Len(read) : read[i].kind \in {"text", "other"} => i = Len(read)
      BY <2>1, <2>4 DEF Passed
    <3>2. result # Absent
      BY <2>4, AnswerIsResult DEF Authenticated, ProtocolError, Absent
    <3>3. ~IsOk(result) => result.err \in {"Protocol", "Server"}
      BY <2>4, RefusedAsSaid
    <3> QED BY <1>1, <2>1, <2>4, <3>1, <3>2, <3>3 DEF IInv, TypeOK
  <2> QED BY <1>1, <2>2, <2>3, <2>4 DEF IInv
<1> QED BY <1>1, Invariant, PTL
===============================================================================
