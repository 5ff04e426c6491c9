----------------------------- MODULE MCSession -----------------------------
(* Session with a peer that may send every kind of frame. *)
EXTENDS Session

AllFrames == PlainKinds \cup {"pong", "pongError", "answer"}
===============================================================================
