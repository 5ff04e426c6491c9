------------------------------- MODULE MCChat -------------------------------
(* Chat with a channel that is soon full. *)
EXTENDS Chat
===============================================================================
