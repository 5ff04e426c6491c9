------------------------------ MODULE MCCodec ------------------------------
(* Codec with 2-bit bytes, and values on both sides of every limit. *)
EXTENDS Codec

Business == Obj([message_id |-> Num(1), messageId |-> Num(9), red_dot |-> Null])

FirstBodies ==
  [ConnectResult |-> Obj([reasonCode |-> Num(1), nodeId |-> Num(9)]),
   SendResult |-> Obj([messageId |-> Str("m"), messageSeq |-> Num(1),
                       reasonCode |-> Num(1)]),
   RecvMessage |-> Obj([messageId |-> Str("m"), messageSeq |-> Num(1),
                        timestamp |-> Num(1), channelId |-> Str("c"),
                        channelType |-> Num(1), fromUid |-> Str("u"),
                        payload |-> Base64(Business)]),
   CustomEvent |-> Obj([id |-> Str("e"), type |-> Str("x"), timestamp |-> Num(1),
                        data |-> Text(Business)])]

Spellings(fields) ==
  LET names == {fields[i].name : i \in DOMAIN fields}
  IN names \cup {k \in DOMAIN Camel : Camel[k] \in names}
AllKeys == [k \in DOMAIN FirstBodies |-> Spellings(Fields[k])]

Written ==
  {Null, Bool(TRUE), Num(-1), Num(1), Num(MaxU8 + 1), Num(MaxU64),
   Str(""), Str("s"), Base64(Business), Text(Business), Arr(<<Bool(TRUE)>>),
   Obj([red_dot |-> Bool(TRUE), redDot |-> Bool(FALSE), header |-> Null])}

Tricky == Obj([message_id |-> Num(7), header |-> Obj([red_dot |-> Null])])
HeaderOf(np, rd) == Obj([noPersist |-> Bool(np), redDot |-> Bool(rd),
                         syncOnce |-> Bool(FALSE), dup |-> Bool(FALSE)])
SettingOf(b) == Obj([receipt |-> Bool(b), signal |-> Bool(~b),
                     stream |-> Bool(FALSE), topic |-> Bool(b)])
SomeOptions ==
  [client_msg_no : {Absent, Str("no"), Str(" ")},
   header : {HeaderOf(b, ~b) : b \in BOOLEAN},
   setting : {Absent, SettingOf(TRUE)}, topic : {Absent, Str(""), Str("t")}]

SomeCalls ==
  [channel : {Str("bob"), Str("")}, kind : {0, MaxU8},
   payload : {Tricky, Arr(<<Tricky>>), Str("text")}, options : SomeOptions,
   id : {Num(1), Num(MaxU64)}, seq : {Num(MaxU64)},
   spelling : {"camel", "snake", "both"}, idText : BOOLEAN, payloadText : BOOLEAN]
===============================================================================
