------------------------------ MODULE Protocol ------------------------------
(***************************************************************************)
(* protocol.rs and the types of types.rs that it reads and writes: how the *)
(* client's requests are built, and what it makes of the answers and       *)
(* pushes of a server that spells metadata in camelCase, snake_case or     *)
(* both.                                                                   *)
(*                                                                         *)
(* A JSON value is a record with a tag t.  A string is plain (Str), the    *)
(* Base64 of the JSON text of a value, or such a text itself; no string is *)
(* two of these.  The decimal digits of an id are the text of its number.  *)
(***************************************************************************)
EXTENDS Integers, Sequences

CONSTANTS MaxU8, MaxU32, MaxI64   \* the largest values of these types

ASSUME ProtocolAssumption ==
  /\ {MaxU8, MaxU32, MaxI64} \subseteq Nat
  /\ MaxU8 < MaxU32 /\ MaxU32 < MaxI64

MaxU64 == 2 * MaxI64 + 1

Absent == [t |-> "absent"]          \* None of Value::get()
Null == [t |-> "null"]
Bool(b) == [t |-> "bool", b |-> b]
Num(n) == [t |-> "num", n |-> n]    \* an integer of i64 or u64
Float == [t |-> "float"]            \* any other number
Str(s) == [t |-> "str", s |-> s]
Base64(v) == [t |-> "base64", of |-> v]
Text(v) == [t |-> "text", of |-> v]
Arr(a) == [t |-> "arr", a |-> a]
Obj(f) == [t |-> "obj", f |-> f]

Has(v, k) == v.t = "obj" /\ k \in DOMAIN v.f
Get(v, k) == IF Has(v, k) THEN v.f[k] ELSE Absent
IsStr(v) == v.t \in {"str", "base64", "text"}
IsNum(v, least, most) == v.t = "num" /\ least <= v.n /\ v.n <= most
IsI64(v) == IsNum(v, -MaxI64 - 1, MaxI64)

\* Result: [ok |-> value], or an error, of Server with its code.
Ok(v) == [ok |-> v]
ProtocolError == [err |-> "Protocol"]
ServerError(c) == [err |-> "Server", code |-> c]
InvalidInput == [err |-> "InvalidInput"]
IsOk(r) == "ok" \in DOMAIN r

-----------------------------------------------------------------------------
(* normalize() *)

Camel ==
  [reason_code |-> "reasonCode", server_key |-> "serverKey",
   time_diff |-> "timeDiff", server_version |-> "serverVersion",
   node_id |-> "nodeId", message_id |-> "messageId",
   message_seq |-> "messageSeq", channel_id |-> "channelId",
   channel_type |-> "channelType", from_uid |-> "fromUid",
   client_msg_no |-> "clientMsgNo", no_persist |-> "noPersist",
   red_dot |-> "redDot", sync_once |-> "syncOnce"]

Canonical(k) == IF k \in DOMAIN Camel THEN Camel[k] ELSE k

\* A bug: insert() in place of entry().or_insert().
RenameSnakeWins(v) ==
  IF v.t # "obj" THEN v
  ELSE Obj([c \in {Canonical(k) : k \in DOMAIN v.f} |->
              LET snake == {k \in DOMAIN v.f \ {c} : Canonical(k) = c}
              IN IF snake # {} THEN v.f[CHOOSE k \in snake : TRUE] ELSE v.f[c]])

\* camelCase takes precedence.
Rename(v) ==
  IF v.t # "obj" THEN v
  ELSE Obj([c \in {Canonical(k) : k \in DOMAIN v.f} |->
              IF c \in DOMAIN v.f THEN v.f[c]
              ELSE v.f[CHOOSE k \in DOMAIN v.f : Canonical(k) = c]])

\* A bug: the id passes through an i64.
TextIdSigned(v) ==
  IF IsNum(Get(v, "messageId"), 0, MaxU64)
  THEN Obj([v.f EXCEPT !["messageId"] = Text(Num(@.n % (MaxI64 + 1)))])
  ELSE v

\* A numeric message id becomes a string.
TextId(v) ==
  IF IsNum(Get(v, "messageId"), 0, MaxU64)
  THEN Obj([v.f EXCEPT !["messageId"] = Text(@)])
  ELSE v

\* A bug: the application's keys are normalized like the header's.
NormalizePayloadToo(v) ==
  LET w == TextId(Rename(v))
  IN IF w.t # "obj" THEN w
     ELSE Obj([k \in DOMAIN w.f |-> IF k \in {"header", "payload", "data"}
                                    THEN TextId(Rename(w.f[k])) ELSE w.f[k]])

\* The header of a header, which the code would normalize too, is not read.
Normalize(v) ==
  LET w == TextId(Rename(v))
  IN IF Has(w, "header") THEN Obj([w.f EXCEPT !["header"] = TextId(Rename(@))]) ELSE w

-----------------------------------------------------------------------------
(* decode(): the types of types.rs, in the order of their fields, with the  *)
(* value of #[serde(default)] or Absent where the field is required.        *)

Field(name, type, default) == [name |-> name, type |-> type, default |-> default]
Flag(name) == Field(name, "bool", Bool(FALSE))

Header == <<Flag("noPersist"), Flag("redDot"), Flag("syncOnce"), Flag("dup")>>

MessageSetting == <<Flag("receipt"), Flag("signal"), Flag("stream"), Flag("topic")>>

ConnectResult ==
  <<Field("reasonCode", "i64", Absent), Field("serverKey", "string", Str("")),
    Field("salt", "string", Str("")), Field("timeDiff", "i64", Num(0)),
    Field("serverVersion", "u32", Num(0)), Field("nodeId", "u64", Num(0))>>

SendResult ==
  <<Field("messageId", "string", Absent), Field("messageSeq", "u64", Absent),
    Field("reasonCode", "i64", Absent)>>

NoFlags == Obj([noPersist |-> Bool(FALSE), redDot |-> Bool(FALSE),
                syncOnce |-> Bool(FALSE), dup |-> Bool(FALSE)])

RecvMessage ==
  <<Field("header", "header", NoFlags), Field("messageId", "string", Absent),
    Field("messageSeq", "u64", Absent), Field("timestamp", "i64", Absent),
    Field("channelId", "string", Absent), Field("channelType", "u8", Absent),
    Field("fromUid", "string", Absent), Field("payload", "value", Absent),
    Field("clientMsgNo", "string?", Null), Field("setting", "setting?", Null),
    Field("topic", "string?", Null)>>

CustomEvent ==
  <<Field("header", "header?", Null), Field("id", "string", Absent),
    Field("type", "string", Absent), Field("timestamp", "i64", Absent),
    Field("data", "value", Absent)>>

Largest(type) == CASE type = "u8" -> MaxU8 [] type = "u32" -> MaxU32 [] OTHER -> MaxU64

\* serde_json::from_value() of a scalar type: the value or Absent.
Scalar(type, v) ==
  LET fits == CASE type = "bool" -> v.t = "bool"
                [] type = "string" -> IsStr(v)
                [] type = "string?" -> IsStr(v) \/ v = Null
                [] type \in {"u8", "u32", "u64"} -> IsNum(v, 0, Largest(type))
                [] type = "i64" -> IsI64(v)
                [] OTHER -> TRUE
  IN IF fits THEN v ELSE Absent

\* What v gives for each field of a struct: an object by the names, an array,
\* which serde takes as well, by the order.
Placed(fields, v) ==
  [i \in DOMAIN fields |->
     IF v.t = "arr" THEN (IF i <= Len(v.a) THEN v.a[i] ELSE Absent)
     ELSE Get(v, fields[i].name)]

\* The struct, if v has the shape of one and all its members could be read.
Struct(fields, v, members) ==
  LET Index(name) == CHOOSE i \in DOMAIN fields : fields[i].name = name
  IN IF \/ v.t \notin {"obj", "arr"}
        \/ v.t = "arr" /\ Len(v.a) > Len(fields)
        \/ \E i \in DOMAIN fields : members[i] = Absent
     THEN Absent
     ELSE Obj([name \in {fields[i].name : i \in DOMAIN fields} |-> members[Index(name)]])

Flags(fields, v) ==
  LET given == Placed(fields, v)
  IN Struct(fields, v, [i \in DOMAIN fields |->
       IF given[i] = Absent THEN fields[i].default
       ELSE Scalar(fields[i].type, given[i])])

Member(type, v) ==
  CASE type \in {"header?", "setting?"} /\ v = Null -> Null
    [] type \in {"header", "header?"} -> Flags(Header, v)
    [] type = "setting?" -> Flags(MessageSetting, v)
    [] OTHER -> Scalar(type, v)

decode(fields, value) ==
  LET v == Normalize(value)
      given == Placed(fields, v)
      s == Struct(fields, v, [i \in DOMAIN fields |->
             IF given[i] = Absent THEN fields[i].default
             ELSE Member(fields[i].type, given[i])])
  IN IF s = Absent THEN ProtocolError ELSE Ok(s.f)

-----------------------------------------------------------------------------
(* What the client reads *)

\* A bug: the reason is looked for in camelCase only.
ReasonCamelOnly(v) == Get(v, "reasonCode")

Reason(v) == IF Has(v, "reasonCode") THEN Get(v, "reasonCode") ELSE Get(v, "reason_code")

\* The result of an answer, or its error.
response(v) ==
  LET result == Get(v, "result")
      error == Get(v, "error")
  IN CASE result # Absent /\ error = Absent ->
            LET code == Reason(result)
            IN IF code = Absent \/ code = Num(1) THEN Ok(result)
               ELSE IF IsI64(code) THEN ServerError(code.n) ELSE ProtocolError
       [] result = Absent /\ error # Absent ->
            LET code == Get(error, "code")
            IN IF IsI64(code) THEN ServerError(code.n) ELSE ProtocolError
       [] OTHER -> ProtocolError

\* protocol::response(&value).and_then(protocol::decode)
answer(fields, v) ==
  LET r == response(v) IN IF IsOk(r) THEN decode(fields, r.ok) ELSE r

recv(v) ==
  LET m == decode(RecvMessage, v)
  IN IF ~IsOk(m) THEN m
     ELSE IF m.ok.messageId = Str("") \/ m.ok.channelId = Str("") THEN ProtocolError
     ELSE Ok([m.ok EXCEPT !["payload"] = IF @.t = "base64" THEN @.of ELSE @])

event(v) ==
  LET e == decode(CustomEvent, v)
  IN IF Get(v, "data") = Absent THEN ProtocolError
     ELSE IF ~IsOk(e) THEN e
     ELSE IF e.ok.id = Str("") \/ e.ok.type = Str("") THEN ProtocolError
     ELSE Ok([e.ok EXCEPT !["data"] = IF @.t = "text" THEN @.of ELSE @])

\* Of a text that is no JSON there is no value; it is Absent here.
parse(v) ==
  IF v.t # "obj" \/ Get(v, "jsonrpc") \notin {Absent, Str("2.0")}
  THEN ProtocolError ELSE Ok(v)

\* The code of a "disconnect" push; 0 when it has none that can be read.
DisconnectCode(params) ==
  LET code == Reason(params) IN IF IsI64(code) THEN code.n ELSE 0

-----------------------------------------------------------------------------
(* What the client writes *)

request(method, params, id) ==
  Obj([jsonrpc |-> Str("2.0"), method |-> Str(method), params |-> params, id |-> id])

DeviceFlag == [App |-> 0, Web |-> 1, Desktop |-> 2]

\* The clock of the client is left out.
connect(auth, id) ==
  request("connect",
          Obj([uid |-> auth.uid, token |-> auth.token, deviceId |-> auth.device_id,
               deviceFlag |-> Num(DeviceFlag[auth.device_flag])]), id)

Blank == {Str(""), Str(" ")}

Invalid(channel, kind, payload, options) ==
  \/ channel \in Blank
  \/ kind = 0
  \/ payload.t \notin {"obj", "arr"}
  \/ options.client_msg_no \in Blank

\* A bug: the topic is written only with a setting.
ExtrasNested(options) ==
  IF options.setting = Absent THEN [k \in {} |-> Absent]
  ELSE [setting |-> options.setting, topic |-> options.topic]

Extras(options) == [setting |-> options.setting, topic |-> options.topic]

\* fresh is the number generated for a message that has none.
send(channel, kind, payload, options, fresh) ==
  LET base == [channelId |-> channel, channelType |-> Num(kind),
               payload |-> Base64(payload), header |-> options.header,
               clientMsgNo |-> IF options.client_msg_no = Absent THEN fresh
                               ELSE options.client_msg_no]
      extras == Extras(options)
      given == {k \in DOMAIN extras : extras[k] # Absent}
  IN IF Invalid(channel, kind, payload, options) THEN InvalidInput
     ELSE Ok(Obj([k \in DOMAIN base \cup given |->
                    IF k \in given THEN extras[k] ELSE base[k]]))

\* The acknowledgement of a push, in session().
recvack(message) ==
  Obj([jsonrpc |-> Str("2.0"), method |-> Str("recvack"),
       params |-> Obj([header |-> message.header, messageId |-> message.messageId,
                       messageSeq |-> message.messageSeq])])
===============================================================================
