------------------------------ MODULE Delivery ------------------------------
(***************************************************************************)
(* What a session promises for the messages pushed to it: subscribers see  *)
(* them in the order of arrival, each at most once, and each is            *)
(* acknowledged right after it was shown to them, before the next is shown.*)
(* "RECVACK is automatic transport receipt" (README 130): none is sent for *)
(* what subscribers were not shown.                                        *)
(***************************************************************************)
EXTENDS Naturals, Sequences

CONSTANT Pushes   \* numbers, in the order of arrival

VARIABLES
  shown,   \* the pushes emitted as Event::Message, in the order shown
  acked,   \* those whose RECVACK is written
  over     \* the session has ended

vars == <<shown, acked, over>>

Init == shown = <<>> /\ acked = <<>> /\ over = FALSE

Show(p) ==
  /\ ~over
  /\ shown = acked
  /\ \A i \in DOMAIN shown : shown[i] < p
  /\ shown' = Append(shown, p)
  /\ UNCHANGED <<acked, over>>

Acknowledge ==
  /\ ~over
  /\ Len(acked) < Len(shown)
  /\ acked' = shown
  /\ UNCHANGED <<shown, over>>

End == over' = TRUE /\ UNCHANGED <<shown, acked>>

Next == (\E p \in Pushes : Show(p)) \/ Acknowledge \/ End

Spec == Init /\ [][Next]_vars
===============================================================================
