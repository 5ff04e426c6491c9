----------------------------- MODULE Handshake -----------------------------
(***************************************************************************)
(* establish(): from the dial to the answer to CONNECT, on a clock that    *)
(* starts with it.  The timeouts that stand around what it does at the     *)
(* moment are state: one around everything, another around each write and  *)
(* flush.  What the peer sends are JSON values that the operators of       *)
(* Protocol read.                                                          *)
(*                                                                         *)
(* The clock moves while the worker waits and no timeout around it is      *)
(* over, as in Session; where none stands, nothing holds the clock.        *)
(***************************************************************************)
EXTENDS Protocol

CONSTANTS
  ConnectTimeout, WriteTimeout,
  Texts,            \* bound: the JSON values this peer sends
  MaxFrames,        \* bound: frames the peer sends
  MaxTime           \* bound: the clock

ASSUME HandshakeAssumption ==
  /\ {ConnectTimeout, WriteTimeout} \subseteq Nat \ {0}
  /\ {MaxFrames, MaxTime} \subseteq Nat

VARIABLES
  now,
  phase,     \* "dialing", "writing", "reading", "flushing", "done"
  armed,     \* the deadlines of the timeouts it is in, the innermost last
  inbox,     \* frames that wait to be read
  read,      \* frames that were read
  result     \* Result of establish(), Absent before

vars == <<now, phase, armed, inbox, read, result>>

id == Str("own")   \* the fresh id of this CONNECT

Transport == [err |-> "Transport"]
Timeout == [err |-> "Timeout"]
MessageTooLarge == [err |-> "MessageTooLarge"]

\* Binary and Close frames, transport errors and the end are all "other".
Frames == [kind : {"text"}, value : Texts] \cup [kind : {"ping", "pong", "other"}]

Init ==
  /\ now = 0
  /\ phase = "dialing"
  /\ armed = <<ConnectTimeout>>
  /\ inbox = <<>>
  /\ read = <<>>
  /\ result = Absent

Returns(r) == phase' = "done" /\ result' = r /\ armed' = <<>>

Writes(to) ==
  /\ phase' = to
  /\ armed' = Append(armed, now + WriteTimeout)
  /\ UNCHANGED result

\* TCP, TLS and WebSocket are up; CONNECT is written, or is too large with the
\* uid and token of this identity.
Dialed ==
  /\ phase = "dialing"
  /\ Writes("writing") \/ Returns(MessageTooLarge)
  /\ UNCHANGED <<now, inbox, read>>

DialFails ==
  /\ phase = "dialing"
  /\ Returns(Transport)
  /\ UNCHANGED <<now, inbox, read>>

Writing == phase \in {"writing", "flushing"}

\* A bug: what follows the CONNECT is outside of the timeout.
WrittenEndsBoth ==
  /\ Writing
  /\ phase' = "reading"
  /\ armed' = <<>>
  /\ UNCHANGED <<now, inbox, read, result>>

Written ==
  /\ Writing
  /\ phase' = "reading"
  /\ armed' = SubSeq(armed, 1, Len(armed) - 1)
  /\ UNCHANGED <<now, inbox, read, result>>

\* An error of the transport, or the write's time is over.
WriteFails ==
  /\ Writing
  /\ Returns(Transport)
  /\ UNCHANGED <<now, inbox, read>>

Reads(kind) ==
  /\ phase = "reading"
  /\ inbox # <<>> /\ Head(inbox).kind = kind
  /\ inbox' = Tail(inbox)
  /\ read' = Append(read, Head(inbox))
  /\ UNCHANGED now

\* A bug: any answer is taken for that to CONNECT.
AuthenticatedAnyId(v) ==
  IF ~IsOk(parse(v)) THEN ProtocolError ELSE answer(ConnectResult, v)

Authenticated(v) ==
  IF ~IsOk(parse(v)) \/ Get(v, "id") # id THEN ProtocolError
  ELSE answer(ConnectResult, v)

OnText == Reads("text") /\ Returns(Authenticated(Head(inbox).value))

\* A bug: a frame that is no text is a protocol error.
OnOtherRejects == Reads("other") /\ Returns(ProtocolError)

OnPing == Reads("ping") /\ Writes("flushing")

OnPong == Reads("pong") /\ UNCHANGED <<phase, armed, result>>

OnOther == Reads("other") /\ Returns(Transport)

IsOver(i) == now >= armed[i]

\* The outer timeout; the inner one is a way for a write to fail.
TimesOut ==
  /\ armed # <<>> /\ IsOver(1)
  /\ Returns(Timeout)
  /\ UNCHANGED <<now, inbox, read>>

PeerSends(f) ==
  /\ phase \in {"writing", "reading", "flushing"}
  /\ Len(read) + Len(inbox) < MaxFrames
  /\ inbox' = Append(inbox, f)
  /\ UNCHANGED <<now, phase, armed, read, result>>

WorkerWaits ==
  /\ \/ phase = "dialing"
     \/ phase = "reading" /\ inbox = <<>>
     \/ Writing
  /\ \A i \in DOMAIN armed : ~IsOver(i)

Tick ==
  /\ now < MaxTime
  /\ WorkerWaits
  /\ now' = now + 1
  /\ UNCHANGED <<phase, armed, inbox, read, result>>

Next ==
  \/ Dialed \/ DialFails \/ Written \/ WriteFails
  \/ OnText \/ OnPing \/ OnPong \/ OnOther \/ TimesOut
  \/ \E f \in Frames : PeerSends(f)
  \/ Tick

Spec == Init /\ [][Next]_vars

-----------------------------------------------------------------------------
(* Properties *)

TypeOK ==
  /\ now \in 0..MaxTime
  /\ phase \in {"dialing", "writing", "reading", "flushing", "done"}
  /\ Len(read) + Len(inbox) <= MaxFrames
  /\ (phase = "done") = (result # Absent)
  /\ \A i \in 1..Len(read) :
       read[i].kind \in {"text", "other"} => phase = "done" /\ i = Len(read)
  /\ result # Absent /\ ~IsOk(result) =>
       result.err \in {"Transport", "Timeout", "MessageTooLarge", "Protocol", "Server"}

(***************************************************************************)
(* connect_timeout is the "Total TCP/TLS/WebSocket and CONNECT             *)
(* authentication deadline" (types.rs 98): no await of establish() is      *)
(* outside of it, so that a peer that is slow in every phase, stalls a     *)
(* write or keeps the client busy with pings does not stretch it; and no   *)
(* other timeout inside of it is taken for it.                             *)
(***************************************************************************)
EndsInTime ==
  /\ phase # "done" => now <= ConnectTimeout
  /\ result = Timeout => now = ConnectTimeout

(***************************************************************************)
(* A session is authenticated by the first text the peer sends, which      *)
(* answers this very CONNECT and gives Success as its reason, in either    *)
(* spelling; unless its result is an array, see Codec.                     *)
(***************************************************************************)
AuthenticatedByAnswer ==
  result # Absent /\ IsOk(result) =>
    LET first == CHOOSE i \in DOMAIN read :
                   read[i].kind = "text" /\ \A j \in 1..(i - 1) : read[j].kind # "text"
        v == read[first].value
    IN /\ first = Len(read)
       /\ Get(v, "id") = id
       /\ Get(v, "result").t \in {"obj", "arr"}
       /\ Get(v, "result").t = "obj" => Reason(Get(v, "result")) = Num(1)

(***************************************************************************)
(* Only what the peer said ends a reconnecting run for good: a network     *)
(* that is slow, silent or broken gives an error that supervise() retries. *)
(***************************************************************************)
RejectionIsSaid ==
  result # Absent /\ ~IsOk(result) =>
    (result.err \in {"Server", "Protocol"}) <=> (\E i \in DOMAIN read : read[i].kind = "text")
===============================================================================
