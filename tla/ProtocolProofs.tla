---------------------------- MODULE ProtocolProofs ----------------------------
(***************************************************************************)
(* What protocol.rs makes of an answer, whatever its JSON: lemmas for the  *)
(* modules that decode with it.                                            *)
(***************************************************************************)
EXTENDS Protocol, TLAPS

\* Every error of an answer is one of the two that are not retried.
LEMMA AnswerErrors ==
  ASSUME NEW fields, NEW v, ~IsOk(answer(fields, v))
  PROVE  answer(fields, v).err \in {"Protocol", "Server"}
BY DEF answer, response, decode, IsOk, Ok, ProtocolError, ServerError

LEMMA AnswerIsResult ==
  ASSUME NEW fields, NEW v
  PROVE  answer(fields, v) # Absent
BY DEF answer, response, decode, IsOk, Ok, ProtocolError, ServerError, Absent

LEMMA ResponseOk ==
  ASSUME NEW v, IsOk(response(v))
  PROVE  /\ response(v) = Ok(Get(v, "result"))
         /\ Get(v, "result") # Absent
         /\ Reason(Get(v, "result")) \in {Absent, Num(1)}
BY DEF response, IsOk, Ok, ProtocolError, ServerError

-----------------------------------------------------------------------------
(* normalize() keeps the reason that response() has read. *)

LEMMA CanonicalReason ==
  ASSUME NEW k
  PROVE  Canonical(k) = "reasonCode" <=> k \in {"reasonCode", "reason_code"}
BY DEF Canonical, Camel

LEMMA RenameReason ==
  ASSUME NEW v, v.t = "obj"
  PROVE  /\ Rename(v).t = "obj"
         /\ Get(Rename(v), "reasonCode") = Reason(v)
<1> DEFINE names == {Canonical(k) : k \in DOMAIN v.f}
           member(c) == IF c \in DOMAIN v.f THEN v.f[c]
                        ELSE v.f[CHOOSE k \in DOMAIN v.f : Canonical(k) = c]
<1>1. Rename(v) = Obj([c \in names |-> member(c)])
  BY DEF Rename
<1>2. /\ Rename(v).t = "obj" /\ DOMAIN Rename(v).f = names
      /\ \A c \in names : Rename(v).f[c] = member(c)
  BY <1>1 DEF Obj
<1>3. CASE "reasonCode" \in DOMAIN v.f
  <2>1. "reasonCode" \in names
    BY <1>3, CanonicalReason
  <2> QED BY <1>2, <1>3, <2>1 DEF Get, Has, Reason
<1>4. CASE "reasonCode" \notin DOMAIN v.f /\ "reason_code" \in DOMAIN v.f
  <2>1. "reasonCode" \in names
    BY <1>4, CanonicalReason
  <2>2. (CHOOSE k \in DOMAIN v.f : Canonical(k) = "reasonCode") = "reason_code"
    BY <1>4, CanonicalReason
  <2> QED BY <1>2, <1>4, <2>1, <2>2 DEF Get, Has, Reason
<1>5. CASE "reasonCode" \notin DOMAIN v.f /\ "reason_code" \notin DOMAIN v.f
  <2>1. "reasonCode" \notin names
    BY <1>5, CanonicalReason
  <2> QED BY <1>2, <1>5, <2>1 DEF Get, Has, Reason
<1> QED BY <1>2, <1>3, <1>4, <1>5

LEMMA TextIdReason ==
  ASSUME NEW v, v.t = "obj"
  PROVE  TextId(v).t = "obj" /\ Get(TextId(v), "reasonCode") = Get(v, "reasonCode")
BY DEF TextId, Get, Has, Obj

LEMMA NormalizeReason ==
  ASSUME NEW v, v.t = "obj"
  PROVE  Normalize(v).t = "obj" /\ Get(Normalize(v), "reasonCode") = Reason(v)
<1> DEFINE w == TextId(Rename(v))
<1>1. w.t = "obj" /\ Get(w, "reasonCode") = Reason(v)
  BY RenameReason, TextIdReason
<1>2. CASE Has(w, "header")
  BY <1>1, <1>2 DEF Normalize, Get, Has, Obj
<1>3. CASE ~Has(w, "header")
  BY <1>1, <1>3 DEF Normalize
<1> QED BY <1>2, <1>3

LEMMA NormalizeOther ==
  ASSUME NEW v, v.t # "obj"
  PROVE  Normalize(v) = v
<1>1. Rename(v) = v
  BY DEF Rename
<1>2. Get(v, "messageId") = Absent /\ ~Has(v, "header")
  BY DEF Get, Has
<1>3. TextId(v) = v
  BY <1>2 DEF TextId, IsNum, Absent
<1> QED BY <1>1, <1>2, <1>3 DEF Normalize

-----------------------------------------------------------------------------
(* A reason is required, and is read as it is. *)

HasReason(fields) ==
  /\ \E i \in DOMAIN fields : fields[i].name = "reasonCode"
  /\ \A i \in DOMAIN fields :
       fields[i].name = "reasonCode" => fields[i].type = "i64" /\ fields[i].default = Absent

LEMMA AnswersHaveReason == HasReason(ConnectResult) /\ HasReason(SendResult)
<1>1. HasReason(ConnectResult)
  <2>1. /\ DOMAIN ConnectResult = 1..6
        /\ ConnectResult[1] = Field("reasonCode", "i64", Absent)
    BY DEF ConnectResult
  <2>2. /\ ConnectResult[2].name # "reasonCode" /\ ConnectResult[3].name # "reasonCode"
        /\ ConnectResult[4].name # "reasonCode" /\ ConnectResult[5].name # "reasonCode"
        /\ ConnectResult[6].name # "reasonCode"
    BY DEF ConnectResult, Field
  <2>3. \A i \in 1..6 : i = 1 \/ i = 2 \/ i = 3 \/ i = 4 \/ i = 5 \/ i = 6
    OBVIOUS
  <2> QED BY <2>1, <2>2, <2>3 DEF HasReason, Field
<1>2. HasReason(SendResult)
  <2>1. /\ DOMAIN SendResult = 1..3
        /\ SendResult[3] = Field("reasonCode", "i64", Absent)
        /\ \A i \in 1..2 : SendResult[i].name # "reasonCode"
    BY DEF SendResult, Field
  <2> QED BY <2>1 DEF HasReason, Field
<1> QED BY <1>1, <1>2

LEMMA DecodeReason ==
  ASSUME NEW fields, HasReason(fields), NEW v, v.t = "obj", IsOk(decode(fields, v))
  PROVE  /\ Reason(v) # Absent
         /\ decode(fields, v).ok.reasonCode = Reason(v)
<1> DEFINE w == Normalize(v)
           given == Placed(fields, w)
           members == [i \in DOMAIN fields |->
                         IF given[i] = Absent THEN fields[i].default
                         ELSE Member(fields[i].type, given[i])]
           Index(name) == CHOOSE i \in DOMAIN fields : fields[i].name = name
           names == {fields[i].name : i \in DOMAIN fields}
           s == Struct(fields, w, members)
<1>1. w.t = "obj" /\ Get(w, "reasonCode") = Reason(v)
  BY NormalizeReason
<1>2. s # Absent /\ decode(fields, v) = Ok(s.f)
  BY DEF decode, IsOk, Ok, ProtocolError
<1> HIDE DEF members
<1>3. /\ s = Obj([name \in names |-> members[Index(name)]])
      /\ \A i \in DOMAIN fields : members[i] # Absent
  BY <1>2 DEF Struct
<1>4. PICK i \in DOMAIN fields : i = Index("reasonCode") /\ fields[i].name = "reasonCode"
  BY DEF HasReason
<1>5. "reasonCode" \in names
  BY <1>4
<1>6. s.f["reasonCode"] = members[i]
  BY <1>3, <1>4, <1>5 DEF Obj
<1>7. given[i] = Reason(v) /\ fields[i].type = "i64" /\ fields[i].default = Absent
  BY <1>1, <1>4 DEF HasReason, Placed
<1>8. Reason(v) # Absent
  BY <1>3, <1>4, <1>7 DEF members
<1>9. members[i] = Member("i64", Reason(v))
  BY <1>4, <1>7, <1>8 DEF members
<1>10. Member("i64", Reason(v)) \in {Reason(v), Absent}
  <2>1. Member("i64", Reason(v)) = Scalar("i64", Reason(v))
    BY DEF Member
  <2> QED BY <2>1 DEF Scalar
<1>11. members[i] = Reason(v)
  BY <1>3, <1>4, <1>9, <1>10
<1>12. decode(fields, v).ok = s.f
  BY <1>2 DEF Ok
<1> QED BY <1>6, <1>8, <1>11, <1>12

(* An answer that is taken says Success, unless its result is an array. *)
LEMMA TakenSaysSuccess ==
  ASSUME NEW fields, HasReason(fields), NEW v, Get(v, "result").t = "obj",
         IsOk(answer(fields, v))
  PROVE  /\ Reason(Get(v, "result")) = Num(1)
         /\ answer(fields, v).ok.reasonCode = Num(1)
<1> DEFINE b == Get(v, "result")
<1>1. IsOk(response(v)) /\ answer(fields, v) = decode(fields, response(v).ok)
  BY DEF answer
<1>2. response(v).ok = b /\ Reason(b) \in {Absent, Num(1)}
  BY <1>1, ResponseOk DEF Ok
<1>3. Reason(b) # Absent /\ decode(fields, b).ok.reasonCode = Reason(b)
  BY <1>1, <1>2, DecodeReason
<1> QED BY <1>1, <1>2, <1>3

\* Nothing but an object or an array is taken for a result.
LEMMA AnswerIsStruct ==
  ASSUME NEW fields, NEW v, IsOk(answer(fields, v))
  PROVE  Get(v, "result").t \in {"obj", "arr"}
<1> DEFINE b == Get(v, "result")
<1>1. IsOk(decode(fields, b))
  BY ResponseOk DEF answer, Ok
<1>2. Normalize(b).t \in {"obj", "arr"}
  BY <1>1 DEF decode, IsOk, Ok, ProtocolError, Struct
<1> QED BY <1>2, NormalizeOther

-----------------------------------------------------------------------------
(* normalize(), key by key: no key is a name of both spellings, and no two  *)
(* snake_case keys are one in camelCase, so what is read under a name comes *)
(* from it or from its one twin.                                            *)

Twin(c) == CHOOSE k \in DOMAIN Camel : Camel[k] = c

Renamed(v) == {Canonical(k) : k \in DOMAIN v.f}
Read(v, c) == IF c \in DOMAIN v.f THEN v.f[c] ELSE v.f[Twin(c)]

LEMMA CanonicalIsCamel ==
  ASSUME NEW k
  PROVE  Canonical(k) \notin DOMAIN Camel
BY DEF Canonical, Camel

LEMMA CamelDistinct ==
  ASSUME NEW k \in DOMAIN Camel, NEW l \in DOMAIN Camel, Camel[k] = Camel[l]
  PROVE  k = l
BY DEF Camel

LEMMA TwinOf ==
  ASSUME NEW k \in DOMAIN Camel
  PROVE  Twin(Camel[k]) = k
BY CamelDistinct DEF Twin

LEMMA RenameIs ==
  ASSUME NEW v, v.t = "obj"
  PROVE  Rename(v) = Obj([c \in Renamed(v) |-> Read(v, c)])
<1> DEFINE first(c) == CHOOSE k \in DOMAIN v.f : Canonical(k) = c
           member(c) == IF c \in DOMAIN v.f THEN v.f[c] ELSE v.f[first(c)]
<1>1. Rename(v) = Obj([c \in Renamed(v) |-> member(c)])
  BY DEF Rename, Renamed
<1>2. ASSUME NEW c \in Renamed(v)
      PROVE  member(c) = Read(v, c)
  <2>1. CASE c \in DOMAIN v.f
    BY <2>1 DEF Read
  <2>2. CASE c \notin DOMAIN v.f
    <3>1. PICK j \in DOMAIN v.f : Canonical(j) = c
      BY DEF Renamed
    <3>2. j \in DOMAIN Camel /\ Camel[j] = c
      BY <2>2, <3>1 DEF Canonical
    <3>3. \A k \in DOMAIN v.f : Canonical(k) = c => k = j
      BY <2>2, <3>2, CamelDistinct DEF Canonical
    <3>4. first(c) = j
      BY <3>1, <3>3
    <3> HIDE DEF first
    <3>5. Twin(c) = j
      BY <3>2, TwinOf
    <3> QED BY <2>2, <3>4, <3>5 DEF Read
  <2> QED BY <2>1, <2>2
<1> HIDE DEF member
<1> QED BY <1>1, <1>2

\* A key that is not metadata, in either spelling, is left alone.
Metadata == DOMAIN Camel \cup {Camel[k] : k \in DOMAIN Camel}

LEMMA RenameGet ==
  ASSUME NEW v, v.t = "obj"
  PROVE  /\ Rename(v).t = "obj"
         /\ \A c : Has(Rename(v), c) <=> c \in Renamed(v)
         /\ \A c : Get(Rename(v), c) = IF c \in Renamed(v) THEN Read(v, c) ELSE Absent
BY RenameIs DEF Get, Has, Obj

LEMMA RenameLeaves ==
  ASSUME NEW v, v.t = "obj", NEW k, k \notin Metadata
  PROVE  /\ k \in Renamed(v) <=> Has(v, k)
         /\ Has(v, k) => Read(v, k) = v.f[k]
         /\ Get(Rename(v), k) = Get(v, k)
<1>1. \A l : Canonical(l) = k <=> l = k
  BY DEF Canonical, Metadata
<1> QED BY <1>1, RenameGet DEF Renamed, Read, Get, Has

LEMMA TextIdGet ==
  ASSUME NEW v, v.t = "obj"
  PROVE  /\ TextId(v).t = "obj"
         /\ \A k : k # "messageId" => Has(TextId(v), k) = Has(v, k) /\ Get(TextId(v), k) = Get(v, k)
         /\ Get(TextId(v), "messageId") =
              IF IsNum(Get(v, "messageId"), 0, MaxU64) THEN Text(Get(v, "messageId"))
              ELSE Get(v, "messageId")
<1>1. CASE IsNum(Get(v, "messageId"), 0, MaxU64)
  <2>1. Has(v, "messageId")
    BY <1>1 DEF Get, IsNum, Absent
  <2>2. TextId(v) = Obj([v.f EXCEPT !["messageId"] = Text(@)])
    BY <1>1 DEF TextId
  <2> QED BY <1>1, <2>1, <2>2 DEF Has, Get, Obj
<1>2. CASE ~IsNum(Get(v, "messageId"), 0, MaxU64)
  BY <1>2 DEF TextId
<1> QED BY <1>1, <1>2

\* What normalize() makes of an object, name by name.
LEMMA NormalizeGet ==
  ASSUME NEW v, v.t = "obj"
  PROVE  /\ Normalize(v).t = "obj"
         /\ \A k : k \notin {"messageId", "header"} =>
              Get(Normalize(v), k) = Get(Rename(v), k)
         /\ Get(Normalize(v), "messageId") =
              IF IsNum(Get(Rename(v), "messageId"), 0, MaxU64)
              THEN Text(Get(Rename(v), "messageId")) ELSE Get(Rename(v), "messageId")
         /\ Get(Normalize(v), "header") =
              IF Has(Rename(v), "header") THEN TextId(Rename(Get(Rename(v), "header")))
              ELSE Absent
<1> DEFINE w == TextId(Rename(v))
<1>1. /\ w.t = "obj"
      /\ \A k : k # "messageId" =>
           Has(w, k) = Has(Rename(v), k) /\ Get(w, k) = Get(Rename(v), k)
      /\ Get(w, "messageId") =
              IF IsNum(Get(Rename(v), "messageId"), 0, MaxU64)
              THEN Text(Get(Rename(v), "messageId")) ELSE Get(Rename(v), "messageId")
  BY RenameGet, TextIdGet
<1> HIDE DEF w
<1>2. CASE Has(w, "header")
  <2>1. Normalize(v) = Obj([w.f EXCEPT !["header"] = TextId(Rename(@))])
    BY <1>2 DEF Normalize, w
  <2>2. /\ Normalize(v).t = "obj"
        /\ Get(Normalize(v), "header") = TextId(Rename(Get(w, "header")))
        /\ \A k : k # "header" => Get(Normalize(v), k) = Get(w, k)
    BY <1>2, <2>1 DEF Has, Get, Obj
  <2> QED BY <1>1, <1>2, <2>2
<1>3. CASE ~Has(w, "header")
  <2>1. Normalize(v) = w
    BY <1>3 DEF Normalize, w
  <2> QED BY <1>1, <1>3, <2>1 DEF Get
<1> QED BY <1>2, <1>3

-----------------------------------------------------------------------------
(* What decode() takes, and what it makes of each field.                    *)

\* The one that holds the name, and no other, is the i-th.
Names(fields, i, name) ==
  /\ i \in DOMAIN fields /\ fields[i].name = name
  /\ \A j \in DOMAIN fields : fields[j].name = name => j = i

OrDefault(type, default, given) == IF given = Absent THEN default ELSE Member(type, given)

Decoded(fields, i, v) ==
  OrDefault(fields[i].type, fields[i].default, Placed(fields, Normalize(v))[i])

LEMMA DecodeTakes ==
  ASSUME NEW fields, NEW v
  PROVE  IsOk(decode(fields, v)) <=>
           /\ Normalize(v).t \in {"obj", "arr"}
           /\ Normalize(v).t = "arr" => ~(Len(Normalize(v).a) > Len(fields))
           /\ \A i \in DOMAIN fields : Decoded(fields, i, v) # Absent
<1> DEFINE w == Normalize(v)
           given == Placed(fields, w)
           members == [i \in DOMAIN fields |->
                         IF given[i] = Absent THEN fields[i].default
                         ELSE Member(fields[i].type, given[i])]
           s == Struct(fields, w, members)
<1>1. decode(fields, v) = IF s = Absent THEN ProtocolError ELSE Ok(s.f)
  BY DEF decode
<1>2. IsOk(decode(fields, v)) <=> s # Absent
  BY <1>1 DEF IsOk, Ok, ProtocolError
<1>3. \A i \in DOMAIN fields : members[i] = Decoded(fields, i, v)
  BY DEF Decoded, OrDefault
<1> HIDE DEF members
<1>4. s # Absent <=> /\ w.t \in {"obj", "arr"}
                     /\ w.t = "arr" => ~(Len(w.a) > Len(fields))
                     /\ \A i \in DOMAIN fields : members[i] # Absent
  BY DEF Struct, Obj, Absent
<1> QED BY <1>2, <1>3, <1>4

LEMMA DecodeMember ==
  ASSUME NEW fields, NEW v, IsOk(decode(fields, v)), NEW i, NEW name, Names(fields, i, name)
  PROVE  /\ name \in DOMAIN decode(fields, v).ok
         /\ decode(fields, v).ok[name] = Decoded(fields, i, v)
         /\ Decoded(fields, i, v) # Absent
<1> DEFINE w == Normalize(v)
           given == Placed(fields, w)
           members == [j \in DOMAIN fields |->
                         IF given[j] = Absent THEN fields[j].default
                         ELSE Member(fields[j].type, given[j])]
           Index(n) == CHOOSE j \in DOMAIN fields : fields[j].name = n
           names == {fields[j].name : j \in DOMAIN fields}
           s == Struct(fields, w, members)
<1>1. s # Absent /\ decode(fields, v) = Ok(s.f)
  BY DEF decode, IsOk, Ok, ProtocolError
<1>2. members[i] = Decoded(fields, i, v)
  BY DEF Decoded, OrDefault, Names
<1> HIDE DEF members
<1>3. s = Obj([n \in names |-> members[Index(n)]])
  BY <1>1 DEF Struct
<1>4. Index(name) = i
  BY DEF Names
<1>5. name \in names
  BY DEF Names
<1>6. decode(fields, v).ok = s.f
  BY <1>1 DEF Ok
<1> HIDE DEF s, Index
<1>7. name \in DOMAIN s.f /\ s.f[name] = members[i]
  BY <1>3, <1>4, <1>5 DEF Obj
<1> QED BY <1>2, <1>6, <1>7, DecodeTakes DEF Names

LEMMA RecvFields ==
  /\ DOMAIN RecvMessage = 1..11
  /\ RecvMessage[1] = Field("header", "header", NoFlags)
  /\ RecvMessage[2] = Field("messageId", "string", Absent)
  /\ RecvMessage[3] = Field("messageSeq", "u64", Absent)
  /\ RecvMessage[4] = Field("timestamp", "i64", Absent)
  /\ RecvMessage[5] = Field("channelId", "string", Absent)
  /\ RecvMessage[6] = Field("channelType", "u8", Absent)
  /\ RecvMessage[7] = Field("fromUid", "string", Absent)
  /\ RecvMessage[8] = Field("payload", "value", Absent)
  /\ RecvMessage[9] = Field("clientMsgNo", "string?", Null)
  /\ RecvMessage[10] = Field("setting", "setting?", Null)
  /\ RecvMessage[11] = Field("topic", "string?", Null)
BY DEF RecvMessage

LEMMA RecvNames ==
  /\ Names(RecvMessage, 1, "header") /\ Names(RecvMessage, 2, "messageId")
  /\ Names(RecvMessage, 3, "messageSeq") /\ Names(RecvMessage, 5, "channelId")
  /\ Names(RecvMessage, 6, "channelType") /\ Names(RecvMessage, 8, "payload")
  /\ Names(RecvMessage, 9, "clientMsgNo") /\ Names(RecvMessage, 10, "setting")
  /\ Names(RecvMessage, 11, "topic")
<1>1. DOMAIN RecvMessage = 1..11
  BY RecvFields
<1>2. \A i \in 1..11 : RecvMessage[i].name =
        CASE i = 1 -> "header" [] i = 2 -> "messageId" [] i = 3 -> "messageSeq"
          [] i = 4 -> "timestamp" [] i = 5 -> "channelId" [] i = 6 -> "channelType"
          [] i = 7 -> "fromUid" [] i = 8 -> "payload" [] i = 9 -> "clientMsgNo"
          [] i = 10 -> "setting" [] OTHER -> "topic"
  BY DEF RecvMessage, Field
<1> QED BY <1>1, <1>2 DEF Names

LEMMA EventFields ==
  /\ DOMAIN CustomEvent = 1..5
  /\ CustomEvent[5] = Field("data", "value", Absent)
  /\ Names(CustomEvent, 5, "data")
<1>1. DOMAIN CustomEvent = 1..5 /\ CustomEvent[5] = Field("data", "value", Absent)
  BY DEF CustomEvent
<1>2. \A i \in 1..4 : CustomEvent[i].name # "data"
  BY DEF CustomEvent, Field
<1>3. \A i \in 1..5 : i \in 1..4 \/ i = 5
  OBVIOUS
<1> QED BY <1>1, <1>2, <1>3 DEF Names, Field

LEMMA SendFields ==
  /\ DOMAIN SendResult = 1..3
  /\ SendResult[1] = Field("messageId", "string", Absent)
  /\ SendResult[2] = Field("messageSeq", "u64", Absent)
  /\ SendResult[3] = Field("reasonCode", "i64", Absent)
BY DEF SendResult

\* A field is filled from the member of its name.
LEMMA DecodedObject ==
  ASSUME NEW fields, NEW v, v.t = "obj", NEW i \in DOMAIN fields
  PROVE  Decoded(fields, i, v) =
           OrDefault(fields[i].type, fields[i].default, Get(Normalize(v), fields[i].name))
BY NormalizeGet DEF Decoded, OrDefault, Placed

\* The scalar members that occur.
LEMMA Members ==
  ASSUME NEW v, v # Absent
  PROVE  /\ IsStr(v) => Member("string", v) = v /\ Member("string?", v) = v
         /\ IsNum(v, 0, MaxU64) => Member("u64", v) = v
         /\ IsNum(v, 0, MaxU8) => Member("u8", v) = v
         /\ IsI64(v) => Member("i64", v) = v
         /\ Member("value", v) = v
         /\ Member("header", v) = Flags(Header, v)
         /\ v # Null => Member("setting?", v) = Flags(MessageSetting, v)
<1>1. /\ Member("string", v) = Scalar("string", v) /\ Member("string?", v) = Scalar("string?", v)
      /\ Member("u64", v) = Scalar("u64", v) /\ Member("u8", v) = Scalar("u8", v)
      /\ Member("i64", v) = Scalar("i64", v) /\ Member("value", v) = Scalar("value", v)
      /\ Member("header", v) = Flags(Header, v)
      /\ v # Null => Member("setting?", v) = Flags(MessageSetting, v)
  BY DEF Member
<1>2. Largest("u64") = MaxU64 /\ Largest("u8") = MaxU8
  BY DEF Largest
<1>3. /\ IsStr(v) => Scalar("string", v) = v /\ Scalar("string?", v) = v
      /\ IsI64(v) => Scalar("i64", v) = v
      /\ Scalar("value", v) = v
  BY DEF Scalar
<1>4. /\ IsNum(v, 0, MaxU64) => Scalar("u64", v) = v
      /\ IsNum(v, 0, MaxU8) => Scalar("u8", v) = v
  BY <1>2 DEF Scalar
<1> QED BY <1>1, <1>3, <1>4
===============================================================================
