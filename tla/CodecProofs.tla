----------------------------- MODULE CodecProofs -----------------------------
(* Codec, for bodies and members of every kind. *)
EXTENDS Codec, ProtocolProofs

\* What was taken is what the client makes of the body that arrived.
IInv == got # Nothing => got = Client(body)

LEMMA Invariant == Spec => []IInv
<1>1. Init => IInv
  BY DEF Init, IInv
<1>2. ASSUME IInv, [Next]_vars
      PROVE  IInv'
  <2>1. ASSUME CanEdit, UNCHANGED got
        PROVE  IInv'
    BY <2>1 DEF CanEdit, IInv, Nothing
  <2>2. CASE Writes
    <3>1. CanEdit /\ UNCHANGED got
      BY <2>2 DEF Writes, Write
    <3> QED BY <2>1, <3>1
  <2>3. CASE Omits
    <3>1. CanEdit /\ UNCHANGED got
      BY <2>3 DEF Omits, Omit
    <3> QED BY <2>1, <3>1
  <2>4. CASE WriteArray
    <3>1. CanEdit /\ UNCHANGED got
      BY <2>4 DEF WriteArray
    <3> QED BY <2>1, <3>1
  <2>7. CASE Reports
    <3>1. CanEdit /\ UNCHANGED got
      BY <2>7 DEF Reports, Report
    <3> QED BY <2>1, <3>1
  <2>5. CASE Arrive
    <3>1. UNCHANGED <<kind, body>> /\ got' = Client(body)
      BY <2>5 DEF Arrive
    <3>2. Client(body)' = Client(body')
      BY <3>1 DEF Client
    <3> QED BY <3>1, <3>2 DEF IInv
  <2>6. CASE UNCHANGED vars
    <3>1. UNCHANGED <<kind, body, got>>
      BY <2>6 DEF vars
    <3>2. Client(body)' = Client(body)
      BY <3>1 DEF Client
    <3> QED BY <1>2, <3>1, <3>2 DEF IInv, Nothing
  <2> QED BY <1>2, <2>2, <2>3, <2>4, <2>5, <2>6, <2>7 DEF Next
<1> QED BY <1>1, <1>2, PTL DEF Spec

(***************************************************************************)
(* No answer whose result is an object counts as an accepted CONNECT or    *)
(* SEND without the reason 1, whatever its other members, their spelling   *)
(* and their types: response() and decode() never read two different       *)
(* reasons.                                                                *)
(***************************************************************************)
THEOREM ObjectIsAcceptedIfSuccess == Spec => []ObjectAcceptedIfSuccess
<1>1. ASSUME IInv, Taken, kind \in {"ConnectResult", "SendResult"}, body.t = "obj"
      PROVE  Result.reasonCode = Num(1)
  <2>1. got = Client(body) /\ IsOk(got)
    BY <1>1 DEF IInv, Taken, Arrived
  <2>2. Get(Envelope(body), "result") = body
    BY DEF Envelope, Obj, Get, Has
  <2>3. \E fields \in {ConnectResult, SendResult} : Client(body) = answer(fields, Envelope(body))
    BY <1>1 DEF Client
  <2>4. PICK fields \in {ConnectResult, SendResult} : got = answer(fields, Envelope(body))
    BY <2>1, <2>3
  <2>5. HasReason(fields)
    BY AnswersHaveReason
  <2>6. Get(Envelope(body), "result").t = "obj"
    BY <1>1, <2>2
  <2>7. got.ok.reasonCode = Num(1)
    BY <2>1, <2>4, <2>5, <2>6, TakenSaysSuccess
  <2> QED BY <2>7 DEF Result
<1>2. IInv => ObjectAcceptedIfSuccess
  BY <1>1 DEF ObjectAcceptedIfSuccess
<1> QED BY <1>2, Invariant, PTL

-----------------------------------------------------------------------------
(* What a required member is read from *)

LEMMA ReadFromGiven ==
  ASSUME NEW i, NEW name, Names(Fields[kind], i, name), IsOk(decode(Fields[kind], body)),
         Fields[kind][i].default = Absent
  PROVE  LET given == Placed(Fields[kind], Normalize(body))[i]
         IN /\ given # Absent
            /\ name \notin {"messageId", "header"} => given = Given(name)
            /\ name = "messageId" => given \in {Given(name), Text(Given(name))}
<1> DEFINE fields == Fields[kind]
           given == Placed(fields, Normalize(body))[i]
<1>1. Decoded(fields, i, body) # Absent
  BY DecodeMember
<1>2. given # Absent
  BY <1>1 DEF Decoded, OrDefault
<1>3. Normalize(body).t \in {"obj", "arr"}
  BY DecodeTakes
<1>4. CASE body.t = "obj"
  <2>1. Normalize(body).t = "obj" /\ given = Get(Normalize(body), name)
    BY <1>4, NormalizeGet DEF Placed, Names
  <2> DEFINE read == Get(Rename(body), name)
  <2>2. /\ name \notin {"messageId", "header"} => given = read
        /\ name = "messageId" => given = IF IsNum(read, 0, MaxU64) THEN Text(read) ELSE read
    BY <1>4, <2>1, NormalizeGet
  <2>3. name # "header" => read # Absent
    BY <1>2, <2>2 DEF IsNum, Absent
  <2>4. read = IF name \in Renamed(body) THEN Read(body, name) ELSE Absent
    BY <1>4, RenameGet
  <2>5. name # "header" => read = Read(body, name)
    BY <2>3, <2>4
  <2>6. Read(body, name) = Given(name)
    BY <1>4 DEF Read, Given, Has, Twin
  <2> QED BY <1>2, <2>2, <2>5, <2>6
<1>5. CASE body.t # "obj"
  <2>1. Normalize(body) = body /\ body.t = "arr"
    BY <1>3, <1>5, NormalizeOther
  <2>2. given = body.a[i]
    BY <1>2, <2>1 DEF Placed, Names
  <2>3. (CHOOSE j \in DOMAIN Fields[kind] : Fields[kind][j].name = name) = i
    BY DEF Names
  <2>4. Given(name) = body.a[i]
    BY <2>1, <2>3 DEF Given
  <2> QED BY <1>2, <2>2, <2>4
<1> QED BY <1>4, <1>5

(***************************************************************************)
(* Payloads and event data of any shape, with keys that are metadata or    *)
(* whose names are: only text that holds JSON is replaced, by that JSON.   *)
(***************************************************************************)
THEOREM DataIsUntouched == Spec => []DataUntouched
<1>1. ASSUME IInv, Taken, kind = "RecvMessage"
      PROVE  LET p == Given("payload")
             IN Result.payload = IF p.t = "base64" THEN p.of ELSE p
  <2> DEFINE m == decode(RecvMessage, body)
             p == Given("payload")
  <2>1. got = recv(body) /\ IsOk(got)
    BY <1>1 DEF IInv, Taken, Arrived, Client
  <2>2. IsOk(m) /\ Result = [m.ok EXCEPT !["payload"] = IF @.t = "base64" THEN @.of ELSE @]
    BY <2>1 DEF recv, IsOk, Ok, ProtocolError, Result
  <2>3. Fields[kind] = RecvMessage
    BY <1>1 DEF Fields
  <2>4. Placed(RecvMessage, Normalize(body))[8] = p /\ p # Absent
    BY <2>2, <2>3, ReadFromGiven, RecvFields, RecvNames DEF Field
  <2>5. "payload" \in DOMAIN m.ok /\ m.ok["payload"] = Decoded(RecvMessage, 8, body)
    BY <2>2, RecvNames, DecodeMember
  <2>6. Decoded(RecvMessage, 8, body) = p
    BY <2>4, RecvFields, RecvNames DEF Decoded, OrDefault, Member, Scalar, Field
  <2> QED BY <2>2, <2>5, <2>6
<1>2. ASSUME IInv, Taken, kind = "CustomEvent"
      PROVE  LET d == Given("data")
             IN Result.data = IF d.t = "text" THEN d.of ELSE d
  <2> DEFINE e == decode(CustomEvent, body)
             d == Given("data")
  <2>1. got = event(body) /\ IsOk(got)
    BY <1>2 DEF IInv, Taken, Arrived, Client
  <2>2. IsOk(e) /\ Result = [e.ok EXCEPT !["data"] = IF @.t = "text" THEN @.of ELSE @]
    BY <2>1 DEF event, IsOk, Ok, ProtocolError, Result
  <2>3. Fields[kind] = CustomEvent
    BY <1>2 DEF Fields
  <2>4. Placed(CustomEvent, Normalize(body))[5] = d /\ d # Absent
    BY <2>2, <2>3, ReadFromGiven, EventFields DEF Field
  <2>5. "data" \in DOMAIN e.ok /\ e.ok["data"] = Decoded(CustomEvent, 5, body)
    BY <2>2, EventFields, DecodeMember
  <2>6. Decoded(CustomEvent, 5, body) = d
    BY <2>4, EventFields DEF Decoded, OrDefault, Member, Scalar, Field
  <2> QED BY <2>2, <2>5, <2>6
<1>3. IInv => DataUntouched
  BY <1>1, <1>2 DEF DataUntouched
<1> QED BY <1>3, Invariant, PTL

(***************************************************************************)
(* A RECVACK names any push that is shown as its server did: by the id, or *)
(* the digits of a number, and by the sequence number.                     *)
(***************************************************************************)
THEOREM AcksNameTheirPush == Spec => []AckNamesPush
<1>1. ASSUME IInv, Taken, kind = "RecvMessage"
      PROVE  LET ack == recvack(Result)
                 params == Get(ack, "params")
                 id == Get(params, "messageId")
             IN /\ IsOk(parse(ack))
                /\ id \in {Given("messageId"), Text(Given("messageId"))}
                /\ IsStr(id) /\ id # Str("")
                /\ Get(params, "messageSeq") = Given("messageSeq")
  <2> DEFINE m == decode(RecvMessage, body)
             params == Get(recvack(Result), "params")
  <2>1. got = recv(body) /\ IsOk(got)
    BY <1>1 DEF IInv, Taken, Arrived, Client
  <2>2. /\ IsOk(m) /\ m.ok.messageId # Str("")
        /\ Result = [m.ok EXCEPT !["payload"] = IF @.t = "base64" THEN @.of ELSE @]
    BY <2>1 DEF recv, IsOk, Ok, ProtocolError, Result
  <2>3. Fields[kind] = RecvMessage
    BY <1>1 DEF Fields
  <2>4. Result["messageId"] = m.ok["messageId"] /\ Result["messageSeq"] = m.ok["messageSeq"]
    BY <2>2, RecvNames, DecodeMember
  <2>5. /\ Get(params, "messageId") = m.ok["messageId"]
        /\ Get(params, "messageSeq") = m.ok["messageSeq"]
    BY <2>4 DEF recvack, Get, Has, Obj
  <2>6. IsOk(parse(recvack(Result)))
    BY DEF recvack, parse, Get, Has, Obj, Ok, IsOk, ProtocolError
  <2>7. m.ok["messageId"] \in {Given("messageId"), Text(Given("messageId"))}
        /\ IsStr(m.ok["messageId"])
    <3> DEFINE given == Placed(RecvMessage, Normalize(body))[2]
    <3>1. given \in {Given("messageId"), Text(Given("messageId"))} /\ given # Absent
      <4>1. Names(Fields[kind], 2, "messageId") /\ Fields[kind][2].default = Absent
        BY <2>3, RecvFields, RecvNames DEF Field
      <4>2. IsOk(decode(Fields[kind], body))
        BY <2>2, <2>3
      <4> HIDE DEF given
      <4>3. Placed(Fields[kind], Normalize(body))[2] = given
        BY <2>3 DEF given
      <4> QED BY <4>1, <4>2, <4>3, ReadFromGiven
    <3>2. /\ m.ok["messageId"] = Decoded(RecvMessage, 2, body)
          /\ Decoded(RecvMessage, 2, body) # Absent
      BY <2>2, RecvNames, DecodeMember
    <3>3. Decoded(RecvMessage, 2, body) = IF IsStr(given) THEN given ELSE Absent
      <4>1. Decoded(RecvMessage, 2, body) = Member("string", given)
        BY <3>1, RecvFields, RecvNames DEF Decoded, OrDefault, Field
      <4>2. Member("string", given) = Scalar("string", given)
        BY DEF Member
      <4> QED BY <4>1, <4>2 DEF Scalar
    <3> QED BY <3>1, <3>2, <3>3
  <2>8. m.ok["messageSeq"] = Given("messageSeq")
    <3> DEFINE given == Placed(RecvMessage, Normalize(body))[3]
    <3>1. given = Given("messageSeq") /\ given # Absent
      <4>1. Names(Fields[kind], 3, "messageSeq") /\ Fields[kind][3].default = Absent
        BY <2>3, RecvFields, RecvNames DEF Field
      <4>2. IsOk(decode(Fields[kind], body))
        BY <2>2, <2>3
      <4> HIDE DEF given
      <4>3. Placed(Fields[kind], Normalize(body))[3] = given
        BY <2>3 DEF given
      <4> QED BY <4>1, <4>2, <4>3, ReadFromGiven
    <3>2. /\ m.ok["messageSeq"] = Decoded(RecvMessage, 3, body)
          /\ Decoded(RecvMessage, 3, body) # Absent
      BY <2>2, RecvNames, DecodeMember
    <3>3. Decoded(RecvMessage, 3, body) \in {given, Absent}
      <4>1. Decoded(RecvMessage, 3, body) = Member("u64", given)
        BY <3>1, RecvFields, RecvNames DEF Decoded, OrDefault, Field
      <4>2. Member("u64", given) = Scalar("u64", given)
        BY DEF Member
      <4> QED BY <4>1, <4>2 DEF Scalar
    <3> QED BY <3>1, <3>2, <3>3
  <2> QED BY <2>2, <2>5, <2>6, <2>7, <2>8
<1>2. IInv => AckNamesPush
  BY <1>1 DEF AckNamesPush
<1> QED BY <1>2, Invariant, PTL

-----------------------------------------------------------------------------
(* Spelling *)

\* normalize() cannot tell a body from one with a member in the other spelling.
LEMMA RespelledRename ==
  ASSUME body.t = "obj", NEW snake \in DOMAIN Camel, Has(body, Camel[snake]),
         NEW value, NEW keep \in BOOLEAN, keep \/ value = body.f[Camel[snake]]
  PROVE  LET r == Respelled(snake, value, keep)
         IN /\ r.t = "obj" /\ Rename(r) = Rename(body)
            /\ \A k : k \notin Metadata => Get(r, k) = Get(body, k)
<1> DEFINE camel == Camel[snake]
           names == {k \in DOMAIN body.f : k # camel \/ keep} \cup {snake}
           r == Respelled(snake, value, keep)
<1>1. /\ r.t = "obj" /\ DOMAIN r.f = names
      /\ \A k \in names : r.f[k] = IF k = snake THEN value ELSE body.f[k]
  BY DEF Respelled, Obj
<1> HIDE DEF r
<1>2. /\ Canonical(snake) = camel /\ Canonical(camel) = camel
      /\ camel \notin DOMAIN Camel /\ camel \in DOMAIN body.f /\ camel # snake
  <2>1. Canonical(snake) = camel
    BY DEF Canonical
  <2>2. camel \notin DOMAIN Camel
    BY <2>1, CanonicalIsCamel
  <2> QED BY <2>1, <2>2 DEF Canonical, Has
<1>3. Renamed(r) = Renamed(body)
  BY <1>1, <1>2 DEF Renamed
<1>4. ASSUME NEW c \in Renamed(body)
      PROVE  Read(r, c) = Read(body, c)
  <2>1. c \notin DOMAIN Camel
    BY CanonicalIsCamel DEF Renamed
  <2>2. CASE c = camel /\ keep
    BY <1>1, <1>2, <2>2 DEF Read
  <2>3. CASE c = camel /\ ~keep
    <3>1. Twin(c) = snake
      BY <2>3, TwinOf
    <3>2. c \notin names /\ snake \in names
      BY <1>2, <2>3
    <3> QED BY <1>1, <1>2, <2>3, <3>1, <3>2 DEF Read
  <2>4. CASE c # camel /\ c \in DOMAIN body.f
    BY <1>1, <2>1, <2>4 DEF Read
  <2>5. CASE c # camel /\ c \notin DOMAIN body.f
    <3>1. PICK k \in DOMAIN body.f : Canonical(k) = c
      BY DEF Renamed
    <3>2. k \in DOMAIN Camel /\ Camel[k] = c
      BY <2>5, <3>1 DEF Canonical
    <3>3. Twin(c) = k /\ k # snake /\ k # camel
      BY <1>2, <2>5, <3>2, TwinOf
    <3>4. c \notin names /\ k \in names
      BY <2>1, <2>5, <3>3
    <3> QED BY <1>1, <2>5, <3>3, <3>4 DEF Read
  <2> QED BY <2>2, <2>3, <2>4, <2>5
<1>5. Rename(r) = Rename(body)
  <2>1. Rename(r) = Obj([c \in Renamed(r) |-> Read(r, c)])
    BY <1>1, RenameIs
  <2>2. Rename(body) = Obj([c \in Renamed(body) |-> Read(body, c)])
    BY RenameIs
  <2>3. [c \in Renamed(r) |-> Read(r, c)] = [c \in Renamed(body) |-> Read(body, c)]
    BY <1>3, <1>4
  <2> QED BY <2>1, <2>2, <2>3
<1>6. ASSUME NEW k, k \notin Metadata
      PROVE  Get(r, k) = Get(body, k)
  BY <1>1, <1>6, <1>5, RenameLeaves
<1> QED BY <1>1, <1>5, <1>6 DEF r

LEMMA SameRename ==
  ASSUME NEW v, NEW w, v.t = "obj", w.t = "obj", Rename(v) = Rename(w),
         \A k : k \notin Metadata => Get(v, k) = Get(w, k)
  PROVE  Client(v) = Client(w)
<1>1. \A fields : decode(fields, v) = decode(fields, w)
  BY DEF decode, Normalize
<1>2. Reason(v) = Reason(w)
  BY RenameReason
<1>3. \A fields : answer(fields, Envelope(v)) = answer(fields, Envelope(w))
  <2>1. ASSUME NEW x, x.t = "obj"
        PROVE  /\ Get(Envelope(x), "result") = x /\ x # Absent
               /\ Get(Envelope(x), "error") = Absent
    BY <2>1 DEF Envelope, Get, Has, Obj, Absent
  <2>2. ASSUME NEW x, x.t = "obj", NEW fields
        PROVE  answer(fields, Envelope(x)) =
                 IF Reason(x) = Absent \/ Reason(x) = Num(1) THEN decode(fields, x)
                 ELSE IF IsI64(Reason(x)) THEN ServerError(Reason(x).n) ELSE ProtocolError
    BY <2>1, <2>2 DEF answer, response, IsOk, Ok, ServerError, ProtocolError
  <2> QED BY <1>1, <1>2, <2>2
<1>4. recv(v) = recv(w)
  <2>1. decode(RecvMessage, v) = decode(RecvMessage, w)
    BY <1>1
  <2> QED BY <2>1, Zenon DEF recv
<1>5. event(v) = event(w)
  <2>1. "data" \notin Metadata
    BY DEF Metadata, Camel
  <2>2. decode(CustomEvent, v) = decode(CustomEvent, w) /\ Get(v, "data") = Get(w, "data")
    BY <1>1, <2>1
  <2> QED BY <2>2, Zenon DEF event
<1>6. /\ answer(ConnectResult, Envelope(v)) = answer(ConnectResult, Envelope(w))
      /\ answer(SendResult, Envelope(v)) = answer(SendResult, Envelope(w))
  BY <1>3
<1> QED BY <1>4, <1>5, <1>6, Zenon DEF Client

(***************************************************************************)
(* Any body in any mixture of the spellings, any of its members in the     *)
(* other one: the client makes the same of it, error or not.               *)
(***************************************************************************)
THEOREM SpellingIsIrrelevant == Spec => []SpellingIrrelevant
<1>1. ASSUME IInv, Arrived, body.t = "obj", NEW snake \in DOMAIN Camel, Has(body, Camel[snake])
      PROVE  /\ Client(Respelled(snake, body.f[Camel[snake]], FALSE)) = got
             /\ Client(Respelled(snake, Float, TRUE)) = got
  <2>1. got = Client(body)
    BY <1>1 DEF IInv, Arrived
  <2>2. ASSUME NEW value, NEW keep \in BOOLEAN, keep \/ value = body.f[Camel[snake]]
        PROVE  Client(Respelled(snake, value, keep)) = Client(body)
    BY <1>1, <2>2, RespelledRename, SameRename
  <2> QED BY <2>1, <2>2
<1>2. IInv => SpellingIrrelevant
  BY <1>1 DEF SpellingIrrelevant
<1> QED BY <1>2, Invariant, PTL

-----------------------------------------------------------------------------
(* What was sent *)

CallInv ==
  call # Nothing =>
    LET params == send(call.channel, call.kind, call.payload, call.options, Str("fresh"))
    IN /\ call \in Calls /\ IsOk(params)
       /\ \/ kind = "SendResult" /\ body = Acked(call)
          \/ kind = "RecvMessage" /\ body = Pushed(call, params.ok.f)

LEMMA CallInvariant == Spec => []CallInv
<1>1. Init => CallInv
  BY DEF Init, CallInv
<1>2. ASSUME CallInv, [Next]_vars
      PROVE  CallInv'
  <2>1. CASE Reports
    <3>1. PICK c \in Calls : Report(c)
      BY <2>1 DEF Reports
    <3> DEFINE params == send(c.channel, c.kind, c.payload, c.options, Str("fresh"))
    <3>2. /\ kind \in {"SendResult", "RecvMessage"} /\ IsOk(params)
          /\ body' = IF kind = "SendResult" THEN Acked(c) ELSE Pushed(c, params.ok.f)
          /\ call' = c /\ UNCHANGED kind
      BY <3>1 DEF Report
    <3> QED BY <3>2 DEF CallInv
  <2>2. ASSUME CanEdit, UNCHANGED call
        PROVE  CallInv'
    BY <2>2 DEF CanEdit, CallInv
  <2>3. CASE Writes \/ Omits \/ WriteArray
    <3>1. CanEdit /\ UNCHANGED call
      BY <2>3 DEF Writes, Omits, Write, Omit, WriteArray
    <3> QED BY <2>2, <3>1
  <2>4. CASE Arrive \/ UNCHANGED vars
    <3>1. UNCHANGED <<kind, body, call>>
      BY <2>4 DEF Arrive, vars
    <3> QED BY <1>2, <3>1 DEF CallInv
  <2> QED BY <1>2, <2>1, <2>3, <2>4 DEF Next
<1> QED BY <1>1, <1>2, PTL DEF Spec

\* However a server spells an object of camelCase names, normalize() restores it.
LEMMA SpelledRename ==
  ASSUME NEW spelling \in {"camel", "snake", "both"}, NEW f, DOMAIN f \cap DOMAIN Camel = {}
  PROVE  /\ Spelled(spelling, f).t = "obj"
         /\ Rename(Spelled(spelling, f)) = Obj([c \in DOMAIN f |-> f[c]])
<1> DEFINE Snake(c) == {k \in DOMAIN Camel : Camel[k] = c}
           camels == IF spelling = "snake" THEN {c \in DOMAIN f : Snake(c) = {}} ELSE DOMAIN f
           snakes == IF spelling = "camel" THEN {} ELSE UNION {Snake(c) : c \in DOMAIN f}
           b == Spelled(spelling, f)
<1>1. /\ b.t = "obj" /\ DOMAIN b.f = camels \cup snakes
      /\ \A k \in camels : b.f[k] = f[k]
      /\ \A k \in snakes \ camels : spelling = "snake" => b.f[k] = f[Camel[k]]
  BY DEF Spelled, Obj
<1>2. \A k \in camels : k \in DOMAIN f /\ k \notin DOMAIN Camel /\ Canonical(k) = k
  BY DEF Canonical
<1>3. \A k : k \in snakes =>
        spelling # "camel" /\ k \in DOMAIN Camel /\ Canonical(k) = Camel[k] /\ Camel[k] \in DOMAIN f
  BY DEF Canonical
<1>4. \A c \in DOMAIN f : c \notin camels => spelling = "snake" /\ Snake(c) # {}
  OBVIOUS
<1>5. \A c \in DOMAIN f : \A k \in Snake(c) :
        k \in DOMAIN Camel /\ Camel[k] = c /\ (spelling = "snake" => k \in snakes)
  OBVIOUS
<1> HIDE DEF b, camels, snakes, Snake
<1>6. ASSUME NEW c \in DOMAIN f
      PROVE  c \in Renamed(b) /\ Read(b, c) = f[c]
  <2>1. CASE c \in camels
    BY <1>1, <1>2, <2>1 DEF Renamed, Read
  <2>2. CASE c \notin camels
    <3>1. PICK k \in Snake(c) : k \in DOMAIN Camel /\ Camel[k] = c /\ k \in snakes
      BY <1>4, <1>5, <2>2
    <3>2. Twin(c) = k /\ k \notin camels /\ c \notin snakes
      BY <1>2, <1>3, <3>1, TwinOf
    <3> QED BY <1>1, <1>3, <1>4, <2>2, <3>1, <3>2 DEF Renamed, Read
  <2> QED BY <2>1, <2>2
<1>7. Renamed(b) = DOMAIN f
  BY <1>1, <1>2, <1>3, <1>6 DEF Renamed
<1>8. [c \in Renamed(b) |-> Read(b, c)] = [c \in DOMAIN f |-> f[c]]
  BY <1>6, <1>7
<1>9. Rename(b) = Obj([c \in DOMAIN f |-> f[c]])
  BY <1>1, <1>8, RenameIs
<1> QED BY <1>1, <1>9 DEF b

LEMMA SpelledGet ==
  ASSUME NEW spelling \in {"camel", "snake", "both"}, NEW f, DOMAIN f \cap DOMAIN Camel = {}
  PROVE  /\ Spelled(spelling, f).t = "obj"
         /\ \A c : Get(Rename(Spelled(spelling, f)), c) = IF c \in DOMAIN f THEN f[c] ELSE Absent
         /\ \A c : Has(Rename(Spelled(spelling, f)), c) <=> c \in DOMAIN f
BY SpelledRename DEF Get, Has, Obj

\* The flags of a struct, all of them given, are what is decoded.
LEMMA FlagsKept ==
  ASSUME NEW fields, \A i \in DOMAIN fields : fields[i].type = "bool",
         \A i, j \in DOMAIN fields : fields[i].name = fields[j].name => i = j,
         NEW v \in FlagsOf(fields)
  PROVE  Flags(fields, v) = v
<1> DEFINE names == {fields[i].name : i \in DOMAIN fields}
           given == Placed(fields, v)
           members == [i \in DOMAIN fields |->
                         IF given[i] = Absent THEN fields[i].default
                         ELSE Scalar(fields[i].type, given[i])]
           Index(n) == CHOOSE i \in DOMAIN fields : fields[i].name = n
<1>1. PICK f \in [names -> {Bool(b) : b \in BOOLEAN}] : v = Obj(f)
  BY DEF FlagsOf
<1>2. v.t = "obj" /\ v.f = f /\ DOMAIN f = names
  BY <1>1 DEF Obj
<1>3. ASSUME NEW i \in DOMAIN fields
      PROVE  members[i] = f[fields[i].name] /\ members[i] # Absent
  <2>1. given[i] = f[fields[i].name]
    BY <1>2 DEF Placed, Get, Has
  <2>2. PICK b \in BOOLEAN : f[fields[i].name] = Bool(b)
    BY <1>1
  <2>3. Bool(b) # Absent /\ Scalar("bool", Bool(b)) = Bool(b)
    BY DEF Bool, Absent, Scalar
  <2> QED BY <2>1, <2>2, <2>3
<1> HIDE DEF members
<1>4. Flags(fields, v) = Struct(fields, v, members)
  BY DEF Flags, members
<1>5. Struct(fields, v, members) = Obj([n \in names |-> members[Index(n)]])
  BY <1>2, <1>3 DEF Struct
<1>6. ASSUME NEW n \in names
      PROVE  members[Index(n)] = f[n]
  <2>1. PICK i \in DOMAIN fields : fields[i].name = n
    OBVIOUS
  <2>2. Index(n) = i
    BY <2>1
  <2> QED BY <1>3, <2>1, <2>2
<1> HIDE DEF Index
<1>7. [n \in names |-> members[Index(n)]] = f
  BY <1>1, <1>6
<1> QED BY <1>1, <1>4, <1>5, <1>7

LEMMA FlagsObject ==
  ASSUME NEW fields, NEW v \in FlagsOf(fields)
  PROVE  v.t = "obj"
<1> DEFINE names == {fields[i].name : i \in DOMAIN fields}
<1>1. PICK f \in [names -> {Bool(b) : b \in BOOLEAN}] : v = Obj(f)
  BY DEF FlagsOf
<1> QED BY <1>1 DEF Obj

LEMMA HeaderKept ==
  /\ \A v \in FlagsOf(Header) : Flags(Header, v) = v
  /\ \A v \in FlagsOf(MessageSetting) : Flags(MessageSetting, v) = v
<1>1. /\ \A i \in DOMAIN Header : Header[i].type = "bool"
      /\ \A i, j \in DOMAIN Header : Header[i].name = Header[j].name => i = j
  BY DEF Header, Flag, Field
<1>2. /\ \A i \in DOMAIN MessageSetting : MessageSetting[i].type = "bool"
      /\ \A i, j \in DOMAIN MessageSetting :
           MessageSetting[i].name = MessageSetting[j].name => i = j
  BY DEF MessageSetting, Flag, Field
<1> QED BY <1>1, <1>2, FlagsKept

\* Its names are neither metadata of another spelling nor an id.
LEMMA HeaderNames ==
  ASSUME NEW v \in FlagsOf(Header), NEW spelling \in {"camel", "snake", "both"}
  PROVE  TextId(Rename(Spelled(spelling, v.f))) = v
<1>1. PICK f \in [{Header[i].name : i \in DOMAIN Header} -> {Bool(b) : b \in BOOLEAN}] : v = Obj(f)
  BY DEF FlagsOf
<1>2. v.f = f /\ DOMAIN f = {Header[i].name : i \in DOMAIN Header} /\ f = [c \in DOMAIN f |-> f[c]]
  BY <1>1 DEF Obj
<1>3. {Header[i].name : i \in DOMAIN Header} = {"noPersist", "redDot", "syncOnce", "dup"}
  <2>1. /\ DOMAIN Header = 1..4 /\ Header[1].name = "noPersist" /\ Header[2].name = "redDot"
        /\ Header[3].name = "syncOnce" /\ Header[4].name = "dup"
    BY DEF Header, Flag, Field
  <2>2. \A i \in 1..4 : i = 1 \/ i = 2 \/ i = 3 \/ i = 4
    OBVIOUS
  <2>3. \A i : i = 1 \/ i = 2 \/ i = 3 \/ i = 4 => i \in 1..4
    OBVIOUS
  <2> QED BY <2>1, <2>2, <2>3
<1>4. DOMAIN f \cap DOMAIN Camel = {} /\ "messageId" \notin DOMAIN f
  BY <1>2, <1>3 DEF Camel
<1>5. Rename(Spelled(spelling, v.f)) = v
  BY <1>1, <1>2, <1>4, SpelledRename
<1>6. Get(v, "messageId") = Absent
  BY <1>2, <1>4 DEF Get, Has
<1> QED BY <1>5, <1>6 DEF TextId, IsNum, Absent

\* The id, as a number or as its digits, is read as the digits.
LEMMA IdRead ==
  ASSUME NEW c \in Calls
  PROVE  (IF IsNum(Id(c), 0, MaxU64) THEN Text(Id(c)) ELSE Id(c)) = Text(c.id)
<1>1. IsNum(c.id, 0, MaxU64)
  BY CodecAssumption DEF Sendable
<1> QED BY <1>1 DEF Id, Text, IsNum

LEMMA AckedRead ==
  ASSUME NEW c \in Calls
  PROVE  LET r == answer(SendResult, Envelope(Acked(c)))
         IN IsOk(r) /\ r.ok.messageId = Text(c.id) /\ r.ok.messageSeq = c.seq
<1> DEFINE f == [messageId |-> Id(c), messageSeq |-> c.seq, reasonCode |-> Num(1)]
           b == Acked(c)
<1>1. c.spelling \in {"camel", "snake", "both"} /\ IsNum(c.seq, 0, MaxU64)
  BY CodecAssumption DEF Sendable
<1>2. DOMAIN f = {"messageId", "messageSeq", "reasonCode"}
  OBVIOUS
<1>3. DOMAIN f \cap DOMAIN Camel = {}
  BY <1>2 DEF Camel
<1>4. b = Spelled(c.spelling, f)
  BY DEF Acked
<1>5. /\ b.t = "obj" /\ Get(Rename(b), "messageId") = Id(c)
      /\ Get(Rename(b), "messageSeq") = c.seq /\ Get(Rename(b), "reasonCode") = Num(1)
  BY <1>1, <1>2, <1>3, <1>4, SpelledGet
<1> HIDE DEF b, f
<1>6. Reason(b) = Num(1)
  BY <1>5, RenameReason
<1>7. response(Envelope(b)) = Ok(b)
  <2>1. Get(Envelope(b), "result") = b /\ b # Absent /\ Get(Envelope(b), "error") = Absent
    BY <1>5 DEF Envelope, Get, Has, Obj, Absent
  <2> QED BY <1>6, <2>1 DEF response
<1>8. answer(SendResult, Envelope(b)) = decode(SendResult, b)
  BY <1>7 DEF answer, IsOk, Ok
<1>9. /\ Get(Normalize(b), "messageId") = Text(c.id)
      /\ Get(Normalize(b), "messageSeq") = c.seq
      /\ Get(Normalize(b), "reasonCode") = Num(1)
  BY <1>5, IdRead, NormalizeGet
<1>10. /\ IsStr(Text(c.id)) /\ Text(c.id) # Absent /\ c.seq # Absent
       /\ Num(1) # Absent /\ IsI64(Num(1))
  BY <1>1, ProtocolAssumption DEF IsStr, Text, Absent, Num, IsNum, IsI64
<1>11. Decoded(SendResult, 1, b) = Text(c.id)
  <2>1. Decoded(SendResult, 1, b) = Member("string", Text(c.id))
    BY <1>5, <1>9, <1>10, SendFields, DecodedObject DEF Field, OrDefault
  <2> QED BY <1>10, <2>1, Members
<1>12. Decoded(SendResult, 2, b) = c.seq
  <2>1. Decoded(SendResult, 2, b) = Member("u64", c.seq)
    BY <1>5, <1>9, <1>10, SendFields, DecodedObject DEF Field, OrDefault
  <2> QED BY <1>1, <1>10, <2>1, Members
<1>13. Decoded(SendResult, 3, b) = Num(1)
  <2>1. Decoded(SendResult, 3, b) = Member("i64", Num(1))
    BY <1>5, <1>9, <1>10, SendFields, DecodedObject DEF Field, OrDefault
  <2> QED BY <1>10, <2>1, Members
<1>14. IsOk(decode(SendResult, b))
  <2>1. \A i \in DOMAIN SendResult : i = 1 \/ i = 2 \/ i = 3
    BY SendFields
  <2>2. \A i \in DOMAIN SendResult : Decoded(SendResult, i, b) # Absent
    BY <1>10, <1>11, <1>12, <1>13, <2>1
  <2>3. Normalize(b).t = "obj"
    BY <1>5, NormalizeGet
  <2> QED BY <2>2, <2>3, DecodeTakes
<1>15. Names(SendResult, 1, "messageId") /\ Names(SendResult, 2, "messageSeq")
  <2>1. \A i \in DOMAIN SendResult : i = 1 \/ i = 2 \/ i = 3
    BY SendFields
  <2> QED BY <2>1, SendFields DEF Names, Field
<1>16. /\ decode(SendResult, b).ok["messageId"] = Text(c.id)
       /\ decode(SendResult, b).ok["messageSeq"] = c.seq
  BY <1>11, <1>12, <1>14, <1>15, DecodeMember
<1> QED BY <1>8, <1>14, <1>16 DEF b

\* What send() makes of a call that it does not refuse.
LEMMA SendParams ==
  ASSUME NEW c \in Calls, IsOk(send(c.channel, c.kind, c.payload, c.options, Str("fresh")))
  PROVE  LET f == send(c.channel, c.kind, c.payload, c.options, Str("fresh")).ok.f
             o == c.options
         IN /\ c.payload.t \in {"obj", "arr"}
            /\ DOMAIN f = {"channelId", "channelType", "payload", "header", "clientMsgNo"}
                            \cup {k \in {"setting", "topic"} : Extras(o)[k] # Absent}
            /\ f["channelType"] = Num(c.kind) /\ f["payload"] = Base64(c.payload)
            /\ f["header"] = o.header
            /\ f["clientMsgNo"] = IF o.client_msg_no = Absent THEN Str("fresh")
                                  ELSE o.client_msg_no
            /\ o.setting # Absent => f["setting"] = o.setting
            /\ o.topic # Absent => f["topic"] = o.topic
<1> DEFINE o == c.options
           no == IF o.client_msg_no = Absent THEN Str("fresh") ELSE o.client_msg_no
           base == [channelId |-> c.channel, channelType |-> Num(c.kind),
                    payload |-> Base64(c.payload), header |-> o.header, clientMsgNo |-> no]
           extras == Extras(o)
           given == {k \in DOMAIN extras : extras[k] # Absent}
           f == [k \in DOMAIN base \cup given |-> IF k \in given THEN extras[k] ELSE base[k]]
<1>1. ~Invalid(c.channel, c.kind, c.payload, o)
  BY DEF send, IsOk, InvalidInput
<1>2. send(c.channel, c.kind, c.payload, o, Str("fresh")) = Ok(Obj(f))
  BY <1>1 DEF send
<1>3. send(c.channel, c.kind, c.payload, o, Str("fresh")).ok.f = f
  BY <1>2 DEF Ok, Obj
<1>4. c.payload.t \in {"obj", "arr"}
  BY <1>1 DEF Invalid
<1>5. /\ DOMAIN extras = {"setting", "topic"}
      /\ extras["setting"] = o.setting /\ extras["topic"] = o.topic
  BY DEF Extras
<1>6. /\ DOMAIN base = {"channelId", "channelType", "payload", "header", "clientMsgNo"}
      /\ base["channelType"] = Num(c.kind) /\ base["payload"] = Base64(c.payload)
      /\ base["header"] = o.header /\ base["clientMsgNo"] = no
  OBVIOUS
<1> HIDE DEF extras, base, no
<1>7. /\ DOMAIN f = {"channelId", "channelType", "payload", "header", "clientMsgNo"}
                      \cup {k \in {"setting", "topic"} : extras[k] # Absent}
      /\ f["channelType"] = Num(c.kind) /\ f["payload"] = Base64(c.payload)
      /\ f["header"] = o.header /\ f["clientMsgNo"] = no
      /\ o.setting # Absent => f["setting"] = o.setting
      /\ o.topic # Absent => f["topic"] = o.topic
  BY <1>5, <1>6
<1> HIDE DEF f
<1> QED BY <1>3, <1>4, <1>7 DEF extras, no

\* What normalize() makes of a report of it.
LEMMA PushedNormalized ==
  ASSUME NEW c \in Calls, IsOk(send(c.channel, c.kind, c.payload, c.options, Str("fresh")))
  PROVE  LET b == Pushed(c, send(c.channel, c.kind, c.payload, c.options, Str("fresh")).ok.f)
             v == Normalize(b)
             o == c.options
         IN /\ b.t = "obj"
            /\ Get(v, "header") = o.header /\ Get(v, "messageId") = Text(c.id)
            /\ Get(v, "messageSeq") = c.seq /\ Get(v, "timestamp") = Num(1)
            /\ Get(v, "channelId") = Str("alice") /\ Get(v, "channelType") = Num(c.kind)
            /\ Get(v, "fromUid") = Str("alice")
            /\ Get(v, "payload") \in {c.payload, Base64(c.payload)}
            /\ Get(v, "clientMsgNo") = IF o.client_msg_no = Absent THEN Str("fresh")
                                       ELSE o.client_msg_no
            /\ Get(v, "setting") = o.setting /\ Get(v, "topic") = o.topic
<1> DEFINE o == c.options
           f == send(c.channel, c.kind, c.payload, o, Str("fresh")).ok.f
           own == [messageId |-> Id(c), messageSeq |-> c.seq, timestamp |-> Num(1),
                   fromUid |-> Str("alice"), channelId |-> Str("alice"),
                   header |-> Spelled(c.spelling, f.header.f),
                   payload |-> IF c.payloadText THEN f.payload ELSE f.payload.of]
           p == [k \in DOMAIN own \cup DOMAIN f |-> IF k \in DOMAIN own THEN own[k] ELSE f[k]]
           b == Pushed(c, f)
           no == IF o.client_msg_no = Absent THEN Str("fresh") ELSE o.client_msg_no
<1>1. /\ DOMAIN f = {"channelId", "channelType", "payload", "header", "clientMsgNo"}
                      \cup {k \in {"setting", "topic"} : Extras(o)[k] # Absent}
      /\ f["channelType"] = Num(c.kind) /\ f["payload"] = Base64(c.payload)
      /\ f["header"] = o.header /\ f["clientMsgNo"] = no
      /\ o.setting # Absent => f["setting"] = o.setting
      /\ o.topic # Absent => f["topic"] = o.topic
  BY SendParams
<1>2. Extras(o)["setting"] = o.setting /\ Extras(o)["topic"] = o.topic
  BY DEF Extras
<1>3. c.spelling \in {"camel", "snake", "both"} /\ o.header \in FlagsOf(Header)
  BY CodecAssumption DEF Sendable
<1>4. b = Spelled(c.spelling, p)
  BY DEF Pushed
<1> HIDE DEF f, b, no
<1>5. /\ DOMAIN own = {"messageId", "messageSeq", "timestamp", "fromUid", "channelId",
                       "header", "payload"}
      /\ own["messageId"] = Id(c) /\ own["messageSeq"] = c.seq /\ own["timestamp"] = Num(1)
      /\ own["fromUid"] = Str("alice") /\ own["channelId"] = Str("alice")
      /\ own["header"] = Spelled(c.spelling, o.header.f)
      /\ own["payload"] \in {c.payload, Base64(c.payload)}
  BY <1>1 DEF Base64
<1> HIDE DEF own
<1>6. /\ DOMAIN p = DOMAIN own \cup DOMAIN f
      /\ \A k \in DOMAIN own : p[k] = own[k]
      /\ \A k \in DOMAIN f \ DOMAIN own : p[k] = f[k]
  OBVIOUS
<1> HIDE DEF p
<1>7. DOMAIN p \cap DOMAIN Camel = {}
  BY <1>1, <1>5, <1>6 DEF Camel
<1>8. /\ b.t = "obj" /\ \A k : Get(Rename(b), k) = IF k \in DOMAIN p THEN p[k] ELSE Absent
      /\ \A k : Has(Rename(b), k) <=> k \in DOMAIN p
  BY <1>3, <1>4, <1>7, SpelledGet
<1>9. /\ Get(Rename(b), "messageId") = Id(c) /\ Get(Rename(b), "messageSeq") = c.seq
      /\ Get(Rename(b), "timestamp") = Num(1) /\ Get(Rename(b), "fromUid") = Str("alice")
      /\ Get(Rename(b), "channelId") = Str("alice")
      /\ Get(Rename(b), "header") = Spelled(c.spelling, o.header.f) /\ Has(Rename(b), "header")
      /\ Get(Rename(b), "payload") \in {c.payload, Base64(c.payload)}
  BY <1>5, <1>6, <1>8
<1>10. /\ Get(Rename(b), "channelType") = Num(c.kind) /\ Get(Rename(b), "clientMsgNo") = no
  BY <1>1, <1>5, <1>6, <1>8
<1>11. Get(Rename(b), "setting") = o.setting
  BY <1>1, <1>2, <1>5, <1>6, <1>8
<1>12. Get(Rename(b), "topic") = o.topic
  BY <1>1, <1>2, <1>5, <1>6, <1>8
<1>13. Get(Normalize(b), "header") = o.header
  BY <1>3, <1>8, <1>9, NormalizeGet, HeaderNames
<1>14. Get(Normalize(b), "messageId") = Text(c.id)
  BY <1>8, <1>9, NormalizeGet, IdRead
<1>15. \A k : k \notin {"messageId", "header"} => Get(Normalize(b), k) = Get(Rename(b), k)
  BY <1>8, NormalizeGet
<1> QED BY <1>8, <1>9, <1>10, <1>11, <1>12, <1>13, <1>14, <1>15 DEF b, f, no

LEMMA PushedRead ==
  ASSUME NEW c \in Calls, IsOk(send(c.channel, c.kind, c.payload, c.options, Str("fresh")))
  PROVE  LET r == recv(Pushed(c, send(c.channel, c.kind, c.payload, c.options,
                                      Str("fresh")).ok.f))
             o == c.options
         IN /\ IsOk(r)
            /\ r.ok.messageId = Text(c.id) /\ r.ok.messageSeq = c.seq
            /\ r.ok.payload = c.payload /\ r.ok.channelType = Num(c.kind)
            /\ r.ok.header = o.header /\ r.ok.setting = OrNull(o.setting)
            /\ r.ok.topic = OrNull(o.topic)
            /\ r.ok.clientMsgNo = IF o.client_msg_no = Absent THEN Str("fresh")
                                  ELSE o.client_msg_no
<1> DEFINE o == c.options
           b == Pushed(c, send(c.channel, c.kind, c.payload, o, Str("fresh")).ok.f)
           v == Normalize(b)
           no == IF o.client_msg_no = Absent THEN Str("fresh") ELSE o.client_msg_no
           D(i) == Decoded(RecvMessage, i, b)
           m == decode(RecvMessage, b)
<1>1. /\ b.t = "obj"
      /\ Get(v, "header") = o.header /\ Get(v, "messageId") = Text(c.id)
      /\ Get(v, "messageSeq") = c.seq /\ Get(v, "timestamp") = Num(1)
      /\ Get(v, "channelId") = Str("alice") /\ Get(v, "channelType") = Num(c.kind)
      /\ Get(v, "fromUid") = Str("alice")
      /\ Get(v, "payload") \in {c.payload, Base64(c.payload)}
      /\ Get(v, "clientMsgNo") = no
      /\ Get(v, "setting") = o.setting /\ Get(v, "topic") = o.topic
  BY PushedNormalized
<1>2. c.payload.t \in {"obj", "arr"}
  BY SendParams
<1>3. /\ c.kind \in 0..MaxU8 /\ o.header \in FlagsOf(Header)
      /\ o.setting \in FlagsOf(MessageSetting) \cup {Absent}
      /\ IsStr(o.topic) \/ o.topic = Absent
      /\ IsStr(o.client_msg_no) \/ o.client_msg_no = Absent
      /\ IsNum(c.seq, 0, MaxU64)
  BY CodecAssumption DEF Sendable
<1>4. \A i \in 1..11 : D(i) = OrDefault(RecvMessage[i].type, RecvMessage[i].default,
                                       Get(v, RecvMessage[i].name))
  BY <1>1, DecodedObject, RecvFields
<1> HIDE DEF b, v, D, m, no
<1>6. /\ D(1) = OrDefault("header", NoFlags, Get(v, "header"))
      /\ D(2) = OrDefault("string", Absent, Get(v, "messageId"))
      /\ D(3) = OrDefault("u64", Absent, Get(v, "messageSeq"))
      /\ D(4) = OrDefault("i64", Absent, Get(v, "timestamp"))
      /\ D(5) = OrDefault("string", Absent, Get(v, "channelId"))
      /\ D(6) = OrDefault("u8", Absent, Get(v, "channelType"))
      /\ D(7) = OrDefault("string", Absent, Get(v, "fromUid"))
      /\ D(8) = OrDefault("value", Absent, Get(v, "payload"))
      /\ D(9) = OrDefault("string?", Null, Get(v, "clientMsgNo"))
      /\ D(10) = OrDefault("setting?", Null, Get(v, "setting"))
      /\ D(11) = OrDefault("string?", Null, Get(v, "topic"))
  BY <1>4, RecvFields DEF Field
<1>7. /\ o.header # Absent /\ o.header # Null /\ (o.setting # Absent => o.setting # Null)
      /\ \A s : Str(s) # Absent /\ IsStr(Str(s))
      /\ Text(c.id) # Absent /\ IsStr(Text(c.id)) /\ Text(c.id) # Str("")
      /\ c.seq # Absent /\ Str("alice") # Str("")
      /\ \A n : Num(n) # Absent
      /\ IsI64(Num(1)) /\ IsNum(Num(c.kind), 0, MaxU8)
      /\ c.payload # Absent /\ Base64(c.payload) # Absent /\ Null # Absent
  <2>1. o.header.t = "obj" /\ (o.setting # Absent => o.setting.t = "obj")
    BY <1>3, FlagsObject
  <2>2. o.header # Absent /\ o.header # Null /\ (o.setting # Absent => o.setting # Null)
    BY <2>1 DEF Absent, Null
  <2>3. IsI64(Num(1)) /\ IsNum(Num(c.kind), 0, MaxU8)
    BY <1>3, ProtocolAssumption DEF IsI64, IsNum, Num
  <2>4. /\ \A s : Str(s) # Absent /\ IsStr(Str(s))
        /\ Text(c.id) # Absent /\ IsStr(Text(c.id)) /\ Text(c.id) # Str("")
        /\ Str("alice") # Str("")
    BY DEF Str, Absent, IsStr, Text
  <2>5. c.seq # Absent /\ c.payload # Absent
    BY <1>2, <1>3 DEF IsNum, Absent
  <2>6. Base64(c.payload) # Absent /\ Null # Absent /\ \A n : Num(n) # Absent
    BY DEF Base64, Absent, Null, Num
  <2> QED BY <2>2, <2>3, <2>4, <2>5, <2>6
<1>11. D(1) = o.header
  <2>1. D(1) = Member("header", o.header)
    BY <1>1, <1>6, <1>7 DEF OrDefault
  <2> QED BY <1>3, <1>7, <2>1, Members, HeaderKept
<1>12. D(2) = Text(c.id)
  <2>1. D(2) = Member("string", Text(c.id))
    BY <1>1, <1>6, <1>7 DEF OrDefault
  <2> QED BY <1>7, <2>1, Members
<1>13. D(3) = c.seq
  <2>1. D(3) = Member("u64", c.seq)
    BY <1>1, <1>6, <1>7 DEF OrDefault
  <2> QED BY <1>3, <1>7, <2>1, Members
<1>14. D(4) = Num(1)
  <2>1. D(4) = Member("i64", Num(1))
    BY <1>1, <1>6, <1>7 DEF OrDefault
  <2> QED BY <1>7, <2>1, Members
<1>15. D(5) = Str("alice") /\ D(7) = Str("alice")
  <2>1. D(5) = Member("string", Str("alice")) /\ D(7) = Member("string", Str("alice"))
    BY <1>1, <1>6, <1>7 DEF OrDefault
  <2> QED BY <1>7, <2>1, Members
<1>16. D(6) = Num(c.kind)
  <2>1. D(6) = Member("u8", Num(c.kind))
    BY <1>1, <1>6, <1>7 DEF OrDefault
  <2> QED BY <1>7, <2>1, Members
<1>18. D(8) \in {c.payload, Base64(c.payload)}
  <2>1. D(8) = Member("value", Get(v, "payload"))
    BY <1>1, <1>6, <1>7 DEF OrDefault
  <2> QED BY <1>1, <1>7, <2>1, Members
<1>19. D(9) = no /\ no # Absent
  <2>1. IsStr(no) /\ no # Absent
    BY <1>3, <1>7 DEF no
  <2>2. D(9) = Member("string?", no)
    BY <1>1, <1>6, <2>1 DEF OrDefault
  <2> QED BY <2>1, <2>2, Members
<1>20. D(10) = OrNull(o.setting) /\ OrNull(o.setting) # Absent
  <2>1. CASE o.setting = Absent
    BY <1>1, <1>6, <1>7, <2>1 DEF OrNull, OrDefault
  <2>2. CASE o.setting # Absent
    <3>1. D(10) = Member("setting?", o.setting)
      BY <1>1, <1>6, <2>2 DEF OrDefault
    <3> QED BY <1>3, <1>7, <2>2, <3>1, Members, HeaderKept DEF OrNull
  <2> QED BY <2>1, <2>2
<1>21. D(11) = OrNull(o.topic) /\ OrNull(o.topic) # Absent
  <2>1. CASE o.topic = Absent
    BY <1>1, <1>6, <1>7, <2>1 DEF OrNull, OrDefault
  <2>2. CASE o.topic # Absent
    <3>1. D(11) = Member("string?", o.topic)
      BY <1>1, <1>6, <2>2 DEF OrDefault
    <3> QED BY <1>3, <2>2, <3>1, Members DEF OrNull
  <2> QED BY <2>1, <2>2
<1>22. IsOk(m)
  <2>1. \A i \in 1..11 : i \in {1, 2, 3, 4, 5, 6, 7, 8, 9, 10, 11}
    OBVIOUS
  <2>2. \A i \in DOMAIN RecvMessage : D(i) # Absent
    BY <1>7, <1>11, <1>12, <1>13, <1>14, <1>15, <1>16, <1>18, <1>19, <1>20, <1>21, <2>1,
       RecvFields
  <2>3. v.t = "obj"
    BY <1>1, NormalizeGet DEF v
  <2> QED BY <2>2, <2>3, DecodeTakes DEF D, v, m
<1>23. ASSUME NEW i, NEW name, Names(RecvMessage, i, name)
       PROVE  name \in DOMAIN m.ok /\ m.ok[name] = D(i)
  BY <1>22, <1>23, DecodeMember DEF m, D
<1>24. /\ m.ok["header"] = o.header /\ m.ok["messageId"] = Text(c.id)
       /\ m.ok["messageSeq"] = c.seq /\ m.ok["channelId"] = Str("alice")
       /\ m.ok["channelType"] = Num(c.kind)
       /\ m.ok["payload"] \in {c.payload, Base64(c.payload)} /\ "payload" \in DOMAIN m.ok
       /\ m.ok["clientMsgNo"] = no /\ m.ok["setting"] = OrNull(o.setting)
       /\ m.ok["topic"] = OrNull(o.topic)
  BY <1>11, <1>12, <1>13, <1>15, <1>16, <1>18, <1>19, <1>20, <1>21, <1>23, RecvNames
<1>25. recv(b) = Ok([m.ok EXCEPT !["payload"] = IF @.t = "base64" THEN @.of ELSE @])
  BY <1>7, <1>22, <1>24 DEF recv, m
<1> DEFINE x == [m.ok EXCEPT !["payload"] = IF @.t = "base64" THEN @.of ELSE @]
<1>26. /\ x["payload"] = IF m.ok["payload"].t = "base64" THEN m.ok["payload"].of
                         ELSE m.ok["payload"]
       /\ \A k : k # "payload" => x[k] = m.ok[k]
  BY <1>24
<1>27. x["payload"] = c.payload
  BY <1>2, <1>24, <1>26 DEF Base64
<1> HIDE DEF x
<1>28. IsOk(recv(b)) /\ recv(b).ok = x
  BY <1>25 DEF IsOk, Ok, x
<1> QED BY <1>24, <1>26, <1>27, <1>28 DEF b, no

(***************************************************************************)
(* Whatever is given to send(), as long as it is not refused, is what the  *)
(* receiver's subscribers see and what the SENDACK names, in any spelling  *)
(* and whether the payload comes back as text or as JSON.                  *)
(***************************************************************************)
THEOREM SentIsReceived == Spec => []ReceivedAsSent
<1>1. ASSUME IInv, CallInv, Arrived, call # Nothing
      PROVE  /\ IsOk(got)
             /\ Result.messageId = Text(call.id) /\ Result.messageSeq = call.seq
             /\ kind = "RecvMessage" =>
                  LET o == call.options
                  IN /\ Result.payload = call.payload
                     /\ Result.channelType = Num(call.kind)
                     /\ Result.header = o.header
                     /\ Result.setting = OrNull(o.setting)
                     /\ Result.topic = OrNull(o.topic)
                     /\ Result.clientMsgNo =
                          IF o.client_msg_no = Absent THEN Str("fresh") ELSE o.client_msg_no
  <2> DEFINE params == send(call.channel, call.kind, call.payload, call.options, Str("fresh"))
  <2>1. got = Client(body)
    BY <1>1 DEF IInv, Arrived
  <2>2. call \in Calls /\ IsOk(params)
    BY <1>1 DEF CallInv
  <2>3. CASE kind = "SendResult" /\ body = Acked(call)
    <3>1. got = answer(SendResult, Envelope(Acked(call)))
      BY <2>1, <2>3 DEF Client
    <3> QED BY <2>2, <2>3, <3>1, AckedRead DEF Result
  <2>4. CASE kind = "RecvMessage" /\ body = Pushed(call, params.ok.f)
    <3>1. got = recv(Pushed(call, params.ok.f))
      BY <2>1, <2>4 DEF Client
    <3> QED BY <2>2, <3>1, PushedRead DEF Result
  <2> QED BY <1>1, <2>3, <2>4 DEF CallInv
<1>2. IInv /\ CallInv => ReceivedAsSent
  BY <1>1 DEF ReceivedAsSent
<1> QED BY <1>2, Invariant, CallInvariant, PTL
===============================================================================
