------------------------------ MODULE Connection ------------------------------
(***************************************************************************)
(* What the connection of one Client promises to everybody who shares it:  *)
(* at most one worker lives at a time; the connected flag is raised only   *)
(* by a live worker, once per session, and each time under a generation    *)
(* never used before; it is lowered before the worker is gone.  This is    *)
(* the fence that send() relies on when it compares generations.           *)
(***************************************************************************)
EXTENDS Naturals

VARIABLES
  live,       \* a worker task exists
  fresh,      \* its latest session has a generation but is not announced yet
  connected,  \* Inner.connected
  generation  \* Inner.generation

vars == <<live, fresh, connected, generation>>

Init ==
  /\ live = FALSE
  /\ fresh = FALSE
  /\ connected = FALSE
  /\ generation = 0

\* connect() spawns a worker.
Start ==
  /\ ~live
  /\ live' = TRUE
  /\ UNCHANGED <<fresh, connected, generation>>

\* A session is authenticated: it gets a generation of its own.
Authenticate ==
  /\ live
  /\ ~fresh
  /\ ~connected
  /\ fresh' = TRUE
  /\ generation' = generation + 1
  /\ UNCHANGED <<live, connected>>

\* The session is opened to senders.
Up ==
  /\ live
  /\ fresh
  /\ fresh' = FALSE
  /\ connected' = TRUE
  /\ UNCHANGED <<live, generation>>

\* The session is over.
Down ==
  /\ live
  /\ connected
  /\ connected' = FALSE
  /\ UNCHANGED <<live, fresh, generation>>

\* The worker is gone, and leaves no session behind.
Stop ==
  /\ live
  /\ ~fresh
  /\ ~connected
  /\ live' = FALSE
  /\ UNCHANGED <<fresh, connected, generation>>

Next == Start \/ Authenticate \/ Up \/ Down \/ Stop

Spec == Init /\ [][Next]_vars
===============================================================================
