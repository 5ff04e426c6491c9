---------------------------- MODULE MCHandshake ----------------------------
(* Handshake with a peer that accepts, rejects, or says something else. *)
EXTENDS Handshake

Answer(to, body) == Obj([id |-> to, result |-> body])
Success == Obj([reason_code |-> Num(1), nodeId |-> Num(2)])

Said ==
  {Answer(id, Success), Answer(Str("other"), Success), Answer(Num(1), Success),
   Answer(id, Obj([reasonCode |-> Num(2), reason_code |-> Num(1)])),
   Answer(id, Null), Answer(id, Arr(<<Num(2)>>)), Answer(id, Obj([reasonCode |-> Num(1), nodeId |-> Num(-1)])),
   Obj([id |-> id, error |-> Obj([code |-> Num(3)])]),
   Obj([id |-> id, result |-> Success, error |-> Null]),
   Obj([jsonrpc |-> Str("1.0"), id |-> id, result |-> Success]),
   Obj([method |-> Str("recv"), params |-> Null]), Arr(<<>>), Absent}
===============================================================================
