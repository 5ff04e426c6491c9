-------------------------------- MODULE Codec --------------------------------
(***************************************************************************)
(* A server writes the body of a frame member by member, well or badly, or *)
(* to report what another client, or this one, gave to send(); the client  *)
(* decodes it when it arrives.  The server is external.                    *)
(***************************************************************************)
EXTENDS Protocol

CONSTANTS
  Bodies,    \* for each kind of frame, the body the server starts from
  Keys,      \* for each kind, the members it may write, in either spelling
  Values,    \* what it writes there
  MaxEdits,  \* bound: members that differ from the first body
  Calls      \* bound: arguments of send() and what the server makes of them

\* Every flag of a Header or a MessageSetting is given.
FlagsOf(fields) ==
  {Obj(f) : f \in [{fields[i].name : i \in DOMAIN fields} -> {Bool(b) : b \in BOOLEAN}]}

\* What the types of send() admit; the numbers a server gives a message fit u64.
Sendable(c) ==
  /\ c.kind \in 0..MaxU8
  /\ c.options.header \in FlagsOf(Header)
  /\ c.options.setting \in FlagsOf(MessageSetting) \cup {Absent}
  /\ \A text \in {c.options.topic, c.options.client_msg_no} : IsStr(text) \/ text = Absent
  /\ IsNum(c.id, 0, MaxU64) /\ IsNum(c.seq, 0, MaxU64)
  /\ c.spelling \in {"camel", "snake", "both"}

ASSUME CodecAssumption == \A c \in Calls : Sendable(c)

Kinds == DOMAIN Bodies

VARIABLES
  kind, body, edits,
  call,   \* the call of send() the body reports, or Nothing
  got     \* what the client makes of it, Nothing before it arrives

vars == <<kind, body, edits, call, got>>

Nothing == [none |-> TRUE]

Init ==
  /\ kind \in Kinds
  /\ body = Bodies[kind]
  /\ edits = 0
  /\ call = Nothing
  /\ got = Nothing

CanEdit ==
  /\ got = Nothing /\ call = Nothing
  /\ edits < MaxEdits /\ body.t = "obj"
  /\ edits' = edits + 1

Write(k, v) ==
  /\ CanEdit
  /\ body' = Obj([x \in DOMAIN body.f \cup {k} |-> IF x = k THEN v ELSE body.f[x]])
  /\ UNCHANGED <<kind, call, got>>

Omit(k) ==
  /\ CanEdit
  /\ Has(body, k)
  /\ body' = Obj([x \in DOMAIN body.f \ {k} |-> body.f[x]])
  /\ UNCHANGED <<kind, call, got>>

Fields == [ConnectResult |-> ConnectResult, SendResult |-> SendResult,
           RecvMessage |-> RecvMessage, CustomEvent |-> CustomEvent]

\* The whole body as an array of its members, in the order of the type.
WriteArray ==
  /\ CanEdit
  /\ body' = LET fields == Fields[kind]
                 given == {i \in DOMAIN fields : Has(body, fields[i].name)}
             IN Arr([i \in 1..Len(fields) |->
                       IF i \in given THEN body.f[fields[i].name] ELSE fields[i].default])
  /\ UNCHANGED <<kind, call, got>>

\* The keys of an object in the server's spelling; the twin of a key in "both"
\* is nonsense, as in the unit test of duplicate aliases.
Spelled(spelling, f) ==
  LET Snake(c) == {k \in DOMAIN Camel : Camel[k] = c}
      camels == IF spelling = "snake" THEN {c \in DOMAIN f : Snake(c) = {}}
                ELSE DOMAIN f
      snakes == IF spelling = "camel" THEN {} ELSE UNION {Snake(c) : c \in DOMAIN f}
  IN Obj([k \in camels \cup snakes |->
            IF k \in camels THEN f[k]
            ELSE IF spelling = "snake" THEN f[Camel[k]] ELSE Str("wrong")])

Id(c) == IF c.idText THEN Text(c.id) ELSE c.id

\* The result of a SENDACK.
Acked(c) ==
  Spelled(c.spelling, [messageId |-> Id(c), messageSeq |-> c.seq, reasonCode |-> Num(1)])

\* The push of it.  The channel of a message to a person is its sender there.
Pushed(c, f) ==
  LET own == [messageId |-> Id(c), messageSeq |-> c.seq, timestamp |-> Num(1),
              fromUid |-> Str("alice"), channelId |-> Str("alice"),
              header |-> Spelled(c.spelling, f.header.f),
              payload |-> IF c.payloadText THEN f.payload ELSE f.payload.of]
      fields == DOMAIN own \cup DOMAIN f
  IN Spelled(c.spelling, [k \in fields |-> IF k \in DOMAIN own THEN own[k] ELSE f[k]])

\* A call that send() does not refuse has reached the server.
Report(c) ==
  LET params == send(c.channel, c.kind, c.payload, c.options, Str("fresh"))
  IN /\ CanEdit /\ edits = 0
     /\ kind \in {"SendResult", "RecvMessage"}
     /\ IsOk(params)
     /\ body' = IF kind = "SendResult" THEN Acked(c) ELSE Pushed(c, params.ok.f)
     /\ call' = c
     /\ UNCHANGED <<kind, got>>

Envelope(result) == Obj([id |-> Str("id"), result |-> result])

\* What the client makes of the body: of the answer to its CONNECT or SEND, or
\* of the params of a push.
Client(b) ==
  CASE kind = "ConnectResult" -> answer(ConnectResult, Envelope(b))
    [] kind = "SendResult" -> answer(SendResult, Envelope(b))
    [] kind = "RecvMessage" -> recv(b)
    [] kind = "CustomEvent" -> event(b)

Arrive ==
  /\ got = Nothing
  /\ got' = Client(body)
  /\ UNCHANGED <<kind, body, edits, call>>

Writes == \E k \in Keys[kind], v \in Values : Write(k, v)
Omits == \E k \in Keys[kind] : Omit(k)

Reports == \E c \in Calls : Report(c)

Next == Writes \/ Omits \/ WriteArray \/ Reports \/ Arrive

Spec == Init /\ [][Next]_vars

-----------------------------------------------------------------------------
(* Properties *)

Arrived == got # Nothing
Taken == Arrived /\ IsOk(got)
Result == got.ok

\* A member as the server gave it, in whichever spelling or place.
Given(name) ==
  IF body.t = "arr"
  THEN body.a[CHOOSE i \in DOMAIN Fields[kind] : Fields[kind][i].name = name]
  ELSE IF Has(body, name) THEN body.f[name]
  ELSE body.f[CHOOSE k \in DOMAIN Camel : Camel[k] = name]

(***************************************************************************)
(* An answer whose result is an object authenticates a connection, or      *)
(* acknowledges a SEND, only if it says Success (1).  response() reads the *)
(* reason before the body is normalized, decode() after, and the two must  *)
(* read the same one.  Nothing is claimed of an answer whose result is an  *)
(* array: response() finds no reason in it and decode() takes it, whatever *)
(* element stands for the reason (README, findings).                       *)
(***************************************************************************)
ObjectAcceptedIfSuccess ==
  Taken /\ kind \in {"ConnectResult", "SendResult"} /\ body.t = "obj" =>
    Result.reasonCode = Num(1)

(***************************************************************************)
(* The spelling of metadata does not matter, of one member at a time and   *)
(* so of all: what is read in camelCase is read in snake_case, and where   *)
(* both are given the snake_case one can be anything.                      *)
(***************************************************************************)
Respelled(snake, value, keep) ==
  LET camel == Camel[snake]
      names == {k \in DOMAIN body.f : k # camel \/ keep} \cup {snake}
  IN Obj([k \in names |-> IF k = snake THEN value ELSE body.f[k]])

SpellingIrrelevant ==
  Arrived /\ body.t = "obj" =>
    \A snake \in DOMAIN Camel :
      LET camel == Camel[snake]
      IN /\ Has(body, camel) => /\ Client(Respelled(snake, body.f[camel], FALSE)) = got
                                /\ Client(Respelled(snake, Float, TRUE)) = got

(***************************************************************************)
(* Application data arrives as it was written, keys like metadata and all; *)
(* only a string that holds JSON is replaced, by the JSON it holds.        *)
(***************************************************************************)
DataUntouched ==
  Taken =>
    /\ kind = "RecvMessage" =>
         LET p == Given("payload")
         IN Result.payload = IF p.t = "base64" THEN p.of ELSE p
    /\ kind = "CustomEvent" =>
         LET d == Given("data")
         IN Result.data = IF d.t = "text" THEN d.of ELSE d

(***************************************************************************)
(* The RECVACK of a push names it by the id and sequence number the server *)
(* gave it, whatever their size and whatever their type on the wire, and   *)
(* never an empty id; it is a frame the client itself would accept.        *)
(***************************************************************************)
AckNamesPush ==
  Taken /\ kind = "RecvMessage" =>
    LET ack == recvack(Result)
        params == Get(ack, "params")
        id == Get(params, "messageId")
    IN /\ IsOk(parse(ack))
       /\ id \in {Given("messageId"), Text(Given("messageId"))}
       /\ IsStr(id) /\ id # Str("")
       /\ Get(params, "messageSeq") = Given("messageSeq")

(***************************************************************************)
(* What is given to send() is what the subscribers of the receiver see:    *)
(* payload, type, header, setting, topic and message number, whatever      *)
(* spelling the server uses and whether it relays the payload as text or   *)
(* as JSON.  The SENDACK "identifies the delivered message", by the same   *)
(* id and sequence number (network_acceptance.rs 128).                     *)
(***************************************************************************)
OrNull(option) == IF option = Absent THEN Null ELSE option

ReceivedAsSent ==
  Arrived /\ call # Nothing =>
    /\ IsOk(got)
    /\ Result.messageId = Text(call.id) /\ Result.messageSeq = call.seq
    /\ kind = "RecvMessage" =>
         LET o == call.options
         IN /\ Result.payload = call.payload
            /\ Result.channelType = Num(call.kind)
            /\ Result.header = o.header
            /\ Result.setting = OrNull(o.setting)
            /\ Result.topic = OrNull(o.topic)
            /\ Result.clientMsgNo =
                 IF o.client_msg_no = Absent THEN Str("fresh") ELSE o.client_msg_no
===============================================================================
