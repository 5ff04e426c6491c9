---------------------------- MODULE SendPathProofs ----------------------------
(***************************************************************************)
(* What the runs of SendPath check for two calls, for any number of calls, *)
(* permits and sessions.                                                   *)
(***************************************************************************)
EXTENDS SendPath, FiniteSetTheorems, TLAPS

USE SendPathAssumption

-----------------------------------------------------------------------------
(* The queue *)

Distinct(q) == \A i, j \in 1..Len(q) : q[i] = q[j] => i = j

LEMMA QueuedIs ==
  ASSUME queue \in Seq(Sends)
  PROVE  Queued = {queue[i] : i \in 1..Len(queue)} /\ Queued \subseteq Sends
<1>1. DOMAIN queue = 1..Len(queue)
  OBVIOUS
<1> QED BY <1>1 DEF Queued, Range

LEMMA QueueAppend ==
  ASSUME queue \in Seq(Sends), Distinct(queue), NEW s \in Sends, s \notin Queued,
         queue' = Append(queue, s)
  PROVE  queue' \in Seq(Sends) /\ Distinct(queue') /\ Queued' = Queued \cup {s}
<1>1. /\ queue' \in Seq(Sends) /\ Len(queue') = Len(queue) + 1 /\ Len(queue) \in Nat
      /\ \A i \in 1..Len(queue) : queue'[i] = queue[i]
      /\ queue'[Len(queue) + 1] = s
  OBVIOUS
<1>2. \A i \in 1..Len(queue) : queue[i] # s
  BY QueuedIs
<1>3. Distinct(queue')
  BY <1>1, <1>2 DEF Distinct
<1>4. Queued' = {queue'[i] : i \in 1..Len(queue')}
  <2>1. DOMAIN queue' = 1..Len(queue')
    BY <1>1
  <2> QED BY <2>1 DEF Queued, Range
<1>5. Queued' = Queued \cup {s}
  BY <1>1, <1>4, QueuedIs
<1> QED BY <1>1, <1>3, <1>5

LEMMA QueueTail ==
  ASSUME queue \in Seq(Sends), Distinct(queue), queue # <<>>, queue' = Tail(queue)
  PROVE  /\ queue' \in Seq(Sends) /\ Distinct(queue')
         /\ Head(queue) \in Sends /\ Head(queue) \in Queued
         /\ Queued' = Queued \ {Head(queue)}
<1>1. /\ queue' \in Seq(Sends) /\ Len(queue') = Len(queue) - 1
      /\ Len(queue) \in Nat /\ Len(queue) > 0
      /\ \A i \in 1..Len(queue') : queue'[i] = queue[i + 1]
      /\ Head(queue) = queue[1] /\ Head(queue) \in Sends
  OBVIOUS
<1>2. Distinct(queue')
  <2>1. SUFFICES ASSUME NEW i \in 1..Len(queue'), NEW j \in 1..Len(queue'), queue'[i] = queue'[j]
                 PROVE  i = j
    BY DEF Distinct
  <2>2. i + 1 \in 1..Len(queue) /\ j + 1 \in 1..Len(queue) /\ queue[i + 1] = queue[j + 1]
    BY <1>1, <2>1
  <2>3. i + 1 = j + 1
    BY <2>2 DEF Distinct
  <2> QED BY <2>3
<1>3. Queued' = {queue'[i] : i \in 1..Len(queue')}
  <2>1. DOMAIN queue' = 1..Len(queue')
    BY <1>1
  <2> QED BY <2>1 DEF Queued, Range
<1>4. ASSUME NEW s \in Queued'
      PROVE  s \in Queued /\ s # Head(queue)
  <2>1. PICK i \in 1..Len(queue') : s = queue'[i]
    BY <1>3
  <2>2. i + 1 \in 1..Len(queue) /\ s = queue[i + 1] /\ i + 1 # 1 /\ 1 \in 1..Len(queue)
    BY <1>1, <2>1
  <2>3. s # queue[1]
    BY <2>2 DEF Distinct
  <2> QED BY <1>1, <2>2, <2>3, QueuedIs
<1>5. ASSUME NEW s \in Queued, s # Head(queue)
      PROVE  s \in Queued'
  <2>1. PICK i \in 1..Len(queue) : s = queue[i]
    BY QueuedIs
  <2>2. i # 1
    BY <1>1, <1>5, <2>1
  <2>3. i - 1 \in 1..Len(queue') /\ queue'[i - 1] = s
    BY <1>1, <2>1, <2>2
  <2> QED BY <1>3, <2>3
<1>6. Head(queue) \in Queued
  <2>1. 1 \in 1..Len(queue)
    BY <1>1
  <2> QED BY <1>1, <2>1, QueuedIs
<1> QED BY <1>1, <1>2, <1>4, <1>5, <1>6

LEMMA QueueLength ==
  ASSUME queue \in Seq(Sends), Distinct(queue)
  PROVE  IsFiniteSet(Queued) /\ Len(queue) \in Nat /\ Len(queue) <= Cardinality(Queued)
<1>1. IsFiniteSet(Queued)
  BY QueuedIs, FS_Subset
<1>2. queue \in Injection(1..Len(queue), Queued)
  <2>1. queue \in [1..Len(queue) -> Queued]
    BY QueuedIs
  <2> QED BY <2>1 DEF Injection, Distinct, IsInjective
<1>3. Cardinality(1..Len(queue)) <= Cardinality(Queued)
  BY <1>1, <1>2, FS_Injection
<1>4. Len(queue) \in Nat
  OBVIOUS
<1>5. Cardinality(1..Len(queue)) = Len(queue)
  <2>1. \A n \in Nat : Cardinality(1..n) = n
    BY FS_Interval
  <2> QED BY <1>4, <2>1
<1> QED BY <1>1, <1>3, <1>4, <1>5

-----------------------------------------------------------------------------
(* The invariant *)

Stages == {"start", "load", "acquire", "lock", "enqueue", "wait"} \cup Returned

Types ==
  /\ destroyed \in BOOLEAN /\ connected \in BOOLEAN /\ teardown \in BOOLEAN
  /\ generation \in 0..MaxSessions
  /\ slots \in Nat
  /\ phase \in Phases
  /\ cancel \in {"no", "racing", "set"}
  /\ queue \in Seq(Sends) /\ Distinct(queue)
  /\ pending \subseteq Sends /\ releasing \subseteq Sends /\ wire \subseteq Sends
  /\ pc \in [Sends -> Stages]
  /\ admitted \in [Sends -> 0..MaxSessions]
  /\ expired \in [Sends -> BOOLEAN]
  /\ reply \in [Sends -> {"none", "Response", "Error"}]
  /\ sent \in [Sends -> Seq(1..MaxSessions)]

\* A command is in one place, of the worker's or the call's.
Places ==
  /\ \A s \in Queued \cup pending \cup releasing :
       pc[s] \in {"wait", "unknown", "answered", "dropped"}
  /\ Queued \cap pending = {} /\ (Queued \cup pending) \cap releasing = {}

Early == {"start", "load", "acquire", "lock", "enqueue", "refused"}

\* What was written, and what became of it.
Outcomes ==
  \A s \in Sends :
    /\ pc[s] \in Early \/ s \in Queued => sent[s] = <<>>
    /\ s \in pending \/ reply[s] = "Response" \/ pc[s] = "answered"
         => sent[s] = <<admitted[s]>>
    /\ sent[s] \in {<<>>, <<admitted[s]>>}
    /\ pc[s] = "wait" /\ reply[s] = "none" => s \in Queued \cup pending

\* Where the worker is, and what it has then.
Worker ==
  /\ pending # {} => phase \in {"top", "select", "writing"}
  /\ phase \in {"fresh", "top", "select", "writing"} => generation >= 1
  /\ connected => phase \in {"top", "select", "writing", "lost", "ending"}
  /\ phase \in {"none", "over"} => queue = <<>>
  /\ \A s \in Sends : HoldsLock(s) => ~teardown /\ phase # "none"

Inv == Types /\ Places /\ Outcomes /\ Worker

\* What a step does to the permits.
Keeps == slots' = slots /\ Holders' = Holders
Takes1(s) == slots > 0 /\ slots' = slots - 1 /\ s \notin Holders /\ Holders' = Holders \cup {s}
Returns1(s) == slots' = slots + 1 /\ s \in Holders /\ Holders' = Holders \ {s}

Permitted == Keeps \/ \E s \in Sends : Takes1(s) \/ Returns1(s)

-----------------------------------------------------------------------------
(* Steps of the calls *)

\* A call goes on, or returns, and nothing else happens but to its permit.
LEMMA CallMoves ==
  ASSUME Inv, NEW s \in Sends, NEW to \in Stages, pc' = [pc EXCEPT ![s] = to],
         UNCHANGED <<expired, sent, workerVars, queueVars, sharedVars, reply>>,
         UNCHANGED admitted \/ (pc[s] \in Early /\ \E g \in 0..MaxSessions :
                                                     admitted' = [admitted EXCEPT ![s] = g]),
         slots' \in Nat,
         pc[s] \notin Early => to \notin Early /\ to # "wait",
         pc[s] \in Early => to \in Early \/ (to \in {"unknown", "dropped"}),
         to = "answered" => sent[s] = <<admitted[s]>>,
         to = "enqueue" => ~teardown /\ phase # "none"
  PROVE  Inv'
<1>1. Types'
  BY DEF Inv, Types, workerVars, queueVars, sharedVars
<1>2. Queued' = Queued
  BY DEF Queued, queueVars
<1>3. Places'
  BY <1>2 DEF Inv, Types, Places, Early, queueVars, Stages, Returned
<1>4. ASSUME NEW t \in Sends
      PROVE  (/\ pc[t] \in Early \/ t \in Queued => sent[t] = <<>>
              /\ t \in pending \/ reply[t] = "Response" \/ pc[t] = "answered"
                   => sent[t] = <<admitted[t]>>
              /\ sent[t] \in {<<>>, <<admitted[t]>>}
              /\ pc[t] = "wait" /\ reply[t] = "none" => t \in Queued \cup pending)'
  <2>1. CASE t # s
    <3>1. pc'[t] = pc[t] /\ admitted'[t] = admitted[t] /\ UNCHANGED <<sent, reply, pending>>
      BY <2>1 DEF Inv, Types, queueVars
    <3> QED BY <1>2, <3>1 DEF Inv, Outcomes
  <2>2. CASE t = s /\ pc[s] \in Early
    <3>1. pc'[s] = to /\ sent[s] = <<>> /\ UNCHANGED <<sent, reply, pending>>
          /\ s \notin pending /\ s \notin Queued
      BY <2>2 DEF Inv, Types, Outcomes, Places, Early, queueVars
    <3>2. reply[s] # "Response"
      <4>1. sent[s] # <<admitted[s]>>
        BY <3>1
      <4> QED BY <4>1 DEF Inv, Outcomes
    <3>3. to # "answered" /\ to # "wait"
      BY <2>2 DEF Early
    <3> QED BY <1>2, <2>2, <3>1, <3>2, <3>3
  <2>3. CASE t = s /\ pc[s] \notin Early
    <3>1. pc'[s] = to /\ to \notin Early /\ to # "wait" /\ UNCHANGED <<sent, reply, pending, admitted>>
      BY <2>3 DEF Inv, Types, queueVars
    <3> QED BY <1>2, <2>3, <3>1 DEF Inv, Outcomes
  <2> QED BY <2>1, <2>2, <2>3
<1>5. Outcomes'
  BY <1>4 DEF Outcomes
<1>6. Worker'
  BY DEF Inv, Types, Worker, HoldsLock, workerVars, queueVars, sharedVars
<1> QED BY <1>1, <1>3, <1>5, <1>6 DEF Inv

LEMMA HoldersOf ==
  ASSUME Inv
  PROVE  /\ Holders \subseteq Sends
         /\ \A s \in Sends : s \in Holders <=>
              pc[s] \in {"lock", "enqueue"} \/ s \in Queued \cup pending \cup releasing
BY QueuedIs DEF Inv, Types, Holders, InCall

\* The effect of the same on the permits.
LEMMA CallHolds ==
  ASSUME Inv, Inv', NEW s \in Sends, NEW to \in Stages, pc' = [pc EXCEPT ![s] = to],
         UNCHANGED queueVars,
         \/ (pc[s] \in {"lock", "enqueue"} <=> to \in {"lock", "enqueue"}) /\ slots' = slots
         \/ pc[s] \in {"lock", "enqueue"} /\ to \notin {"lock", "enqueue"} /\ slots' = slots + 1
         \/ pc[s] = "acquire" /\ to \in {"lock", "enqueue"} /\ slots > 0 /\ slots' = slots - 1
  PROVE  Permitted
<1>1. UNCHANGED <<queue, pending, releasing>> /\ Queued' = Queued
  BY DEF queueVars, Queued
<1>2. \A t \in Sends : pc'[t] = IF t = s THEN to ELSE pc[t]
  BY DEF Inv, Types
<1>3. /\ Holders \subseteq Sends /\ Holders' \subseteq Sends
      /\ \A t \in Sends \ {s} : t \in Holders' <=> t \in Holders
  BY <1>1, <1>2, HoldersOf DEF Holders, InCall
<1>4. s \in Queued \cup pending \cup releasing => pc[s] \notin {"lock", "enqueue", "acquire"}
  BY DEF Inv, Places
<1>5. /\ s \in Holders <=> pc[s] \in {"lock", "enqueue"} \/ s \in Queued \cup pending \cup releasing
      /\ s \in Holders' <=> to \in {"lock", "enqueue"} \/ s \in Queued \cup pending \cup releasing
  BY <1>1, <1>2, HoldersOf DEF Holders, InCall
<1>6. CASE (pc[s] \in {"lock", "enqueue"} <=> to \in {"lock", "enqueue"}) /\ slots' = slots
  <2>1. s \in Holders' <=> s \in Holders
    BY <1>5, <1>6
  <2>2. Holders' = Holders
    BY <1>3, <2>1
  <2> QED BY <1>6, <2>2 DEF Permitted, Keeps
<1>7. CASE pc[s] \in {"lock", "enqueue"} /\ to \notin {"lock", "enqueue"} /\ slots' = slots + 1
  BY <1>3, <1>4, <1>5, <1>7 DEF Permitted, Returns1
<1>8. CASE pc[s] = "acquire" /\ to \in {"lock", "enqueue"} /\ slots > 0 /\ slots' = slots - 1
  BY <1>3, <1>4, <1>5, <1>8 DEF Permitted, Takes1
<1> QED BY <1>6, <1>7, <1>8

LEMMA CallStep ==
  ASSUME Inv, NEW s \in Sends, Call(s)
  PROVE  Inv' /\ Permitted
<1> DEFINE others == <<expired, sent, workerVars, queueVars, sharedVars, reply>>
<1>0. pc \in [Sends -> Stages] /\ slots \in Nat /\ generation \in 0..MaxSessions
  BY DEF Inv, Types
<1>1. ASSUME NEW to \in Stages, pc' = [pc EXCEPT ![s] = to], UNCHANGED others,
             UNCHANGED <<admitted, slots>>, to \notin {"lock", "enqueue"},
             pc[s] \notin {"lock", "enqueue"},
             to = "answered" => sent[s] = <<admitted[s]>>,
             IF pc[s] \in Early THEN to \in Early ELSE to \notin Early /\ to # "wait"
      PROVE  Inv' /\ Permitted
  <2>1. Inv'
    BY <1>0, <1>1, CallMoves
  <2> QED BY <1>1, <2>1, CallHolds
<1>2. ASSUME NEW from \in {"lock", "enqueue"}, NEW to \in {"refused", "unknown", "dropped"},
             GivesUp(s, from, to), UNCHANGED others, UNCHANGED admitted
      PROVE  Inv' /\ Permitted
  <2>1. pc[s] = from /\ pc' = [pc EXCEPT ![s] = to] /\ slots' = slots + 1 /\ to \in Stages
    BY <1>2 DEF GivesUp, Goto, Stages, Returned
  <2>2. pc[s] \in Early /\ (to \in Early \/ to \in {"unknown", "dropped"})
    BY <2>1 DEF Early
  <2>3. to # "answered" /\ to # "enqueue" /\ to \notin {"lock", "enqueue"} /\ slots' \in Nat
    BY <1>0, <2>1
  <2>4. Inv'
    BY <1>2, <2>1, <2>2, <2>3, CallMoves
  <2> QED BY <1>2, <2>1, <2>3, <2>4, CallHolds
<1>3. CASE SendChecks(s)
  <2>1. PICK to \in {"load", "refused"} : Goto(s, "start", to)
    BY <1>3 DEF SendChecks
  <2>2. to \in Stages /\ to \in Early /\ "start" \in Early
    BY DEF Stages, Returned, Early
  <2> QED BY <1>1, <1>3, <2>1, <2>2 DEF SendChecks, Goto
<1>4. CASE SendLoadsGeneration(s)
  <2>1. /\ pc[s] = "load" /\ pc' = [pc EXCEPT ![s] = "acquire"] /\ UNCHANGED others
        /\ admitted' = [admitted EXCEPT ![s] = generation] /\ UNCHANGED slots
    BY <1>4 DEF SendLoadsGeneration, Goto
  <2>2. "acquire" \in Stages /\ "acquire" \in Early /\ "load" \in Early
    BY DEF Stages, Early
  <2>3. Inv'
    BY <1>0, <2>1, <2>2, CallMoves
  <2> QED BY <2>1, <2>2, <2>3, CallHolds
<1>5. CASE SendAcquires(s)
  <2>1. CASE slots > 0 /\ Goto(s, "acquire", "lock") /\ slots' = slots - 1
    <3>1. /\ pc[s] = "acquire" /\ pc' = [pc EXCEPT ![s] = "lock"] /\ UNCHANGED others
          /\ UNCHANGED admitted /\ slots' \in Nat
      BY <1>0, <1>5, <2>1 DEF SendAcquires, Goto
    <3>2. "lock" \in Stages /\ "lock" \in Early /\ "acquire" \in Early
      BY DEF Stages, Early
    <3>3. Inv'
      BY <3>1, <3>2, CallMoves
    <3> QED BY <2>1, <3>1, <3>2, <3>3, CallHolds
  <2>2. CASE Goto(s, "acquire", "refused") /\ UNCHANGED slots
    <3>1. "refused" \in Stages /\ "refused" \in Early /\ "acquire" \in Early
      BY DEF Stages, Returned, Early
    <3> QED BY <1>1, <1>5, <2>2, <3>1 DEF SendAcquires, Goto
  <2> QED BY <1>5, <2>1, <2>2 DEF SendAcquires
<1>6. CASE SendInvalid(s)
  BY <1>2, <1>6 DEF SendInvalid
<1>7. CASE SendLocks(s)
  <2>1. CASE connected /\ phase # "none" /\ Goto(s, "lock", "enqueue") /\ UNCHANGED slots
    <3>1. /\ pc[s] = "lock" /\ pc' = [pc EXCEPT ![s] = "enqueue"] /\ UNCHANGED others
          /\ UNCHANGED admitted /\ ~teardown
      BY <1>7, <2>1 DEF SendLocks, Goto, LockFree
    <3>2. "enqueue" \in Stages /\ "enqueue" \in Early /\ "lock" \in Early
      BY DEF Stages, Early
    <3>3. Inv'
      BY <1>0, <2>1, <3>1, <3>2, CallMoves
    <3> QED BY <2>1, <3>1, <3>2, <3>3, CallHolds
  <2>2. CASE GivesUp(s, "lock", "refused")
    BY <1>2, <1>7, <2>2 DEF SendLocks
  <2> QED BY <1>7, <2>1, <2>2 DEF SendLocks
<1>8. CASE SendEnqueues(s)
  <2>1. CASE UNCHANGED queue /\ \E to \in {"refused", "unknown"} : GivesUp(s, "enqueue", to)
    BY <1>2, <1>8, <2>1 DEF SendEnqueues, queueVars
  <2>2. CASE Goto(s, "enqueue", "wait") /\ queue' = Append(queue, s) /\ UNCHANGED slots
             /\ phase \notin {"closing", "over"}
    <3>1. /\ pc[s] = "enqueue" /\ pc' = [pc EXCEPT ![s] = "wait"]
          /\ UNCHANGED <<admitted, expired, sent, workerVars, pending, releasing, wire,
                         sharedVars, reply, slots>>
      BY <1>8, <2>2 DEF SendEnqueues, Goto
    <3>2. s \notin Queued \cup pending \cup releasing /\ sent[s] = <<>>
      BY <3>1 DEF Inv, Places, Outcomes, Early
    <3>3. queue' \in Seq(Sends) /\ Distinct(queue') /\ Queued' = Queued \cup {s}
      BY <2>2, <3>2, QueueAppend DEF Inv, Types
    <3>4. /\ \A t \in Sends : pc'[t] = IF t = s THEN "wait" ELSE pc[t]
          /\ pc' \in [Sends -> Stages]
      BY <1>0, <3>1 DEF Stages
    <3>5. Types'
      BY <3>1, <3>3, <3>4 DEF Inv, Types, workerVars, sharedVars
    <3>6. Queued' \subseteq Sends /\ pending' \subseteq Sends /\ releasing' \subseteq Sends
      BY <3>3, <3>5, QueuedIs DEF Inv, Types
    <3>7. Places'
      BY <3>1, <3>2, <3>3, <3>4, <3>6 DEF Inv, Places
    <3>8. Outcomes'
      <4>1. reply[s] # "Response"
        <5>1. sent[s] # <<admitted[s]>>
          BY <3>2
        <5> QED BY <5>1 DEF Inv, Outcomes
      <4> QED BY <3>1, <3>2, <3>3, <3>4, <4>1 DEF Inv, Outcomes, Early
    <3>9. Worker'
      <4>1. phase # "none"
        BY <3>1 DEF Inv, Worker, HoldsLock
      <4> QED BY <2>2, <3>1, <3>4, <4>1 DEF Inv, Worker, HoldsLock, workerVars, sharedVars
    <3>10. Keeps
      <4>1. \A t \in Sends : t \in InCall' <=> t \in InCall /\ t # s
        BY <3>1, <3>4 DEF InCall
      <4>2. s \in InCall
        BY <3>1 DEF InCall
      <4> QED BY <3>1, <3>3, <4>1, <4>2 DEF Keeps, Holders, InCall
    <3> QED BY <3>5, <3>7, <3>8, <3>9, <3>10 DEF Inv, Permitted
  <2> QED BY <1>8, <2>1, <2>2 DEF SendEnqueues
<1>9. CASE SendReturns(s)
  <2>1. PICK to \in {"answered", "unknown"} : Goto(s, "wait", to)
                                              /\ (to = "answered" => reply[s] = "Response")
    BY <1>9 DEF SendReturns
  <2>2. to \in Stages /\ to \notin Early /\ "wait" \notin Early
    BY DEF Stages, Returned, Early
  <2>3. to = "answered" => sent[s] = <<admitted[s]>>
    BY <2>1 DEF Inv, Outcomes
  <2> QED BY <1>1, <1>9, <2>1, <2>2, <2>3 DEF SendReturns, Goto
<1>10. CASE SendTimesOut(s)
  <2>1. "unknown" \in Stages /\ "unknown" \notin Early /\ "wait" \notin Early
    BY DEF Stages, Returned, Early
  <2> QED BY <1>1, <1>10, <2>1 DEF SendTimesOut, Goto
<1>11. CASE SendDropped(s)
  <2>1. CASE GivesUp(s, "lock", "dropped")
    BY <1>2, <1>11, <2>1 DEF SendDropped
  <2>2. CASE Goto(s, "wait", "dropped") /\ UNCHANGED slots
    <3>1. "dropped" \in Stages /\ "dropped" \notin Early /\ "wait" \notin Early
      BY DEF Stages, Returned, Early
    <3> QED BY <1>1, <1>11, <2>2, <3>1 DEF SendDropped, Goto
  <2> QED BY <1>11, <2>1, <2>2 DEF SendDropped
<1>12. CASE Expire(s)
  <2>1. /\ expired' = [expired EXCEPT ![s] = TRUE]
        /\ UNCHANGED <<pc, admitted, sent, phase, cancel, queue, pending, releasing, wire,
                       destroyed, connected, generation, teardown, slots, reply>>
    BY <1>12 DEF Expire, workerVars, queueVars, sharedVars
  <2>2. Queued' = Queued
    BY <2>1 DEF Queued
  <2>3. Inv'
    BY <2>1, <2>2 DEF Inv, Types, Places, Outcomes, Worker, HoldsLock
  <2> QED BY <2>1, <2>2, <2>3 DEF Permitted, Keeps, Holders, InCall
<1> QED BY <1>3, <1>4, <1>5, <1>6, <1>7, <1>8, <1>9, <1>10, <1>11, <1>12 DEF Call, SendStep

-----------------------------------------------------------------------------
(* Steps of the worker *)

LEMMA Replied ==
  ASSUME Inv, NEW T, NEW what \in {"Response", "Error"}, RepliesTo(T, what)
  PROVE  /\ reply' \in [Sends -> {"none", "Response", "Error"}]
         /\ \A s \in Sends : reply'[s] = IF s \in T /\ pc[s] = "wait" THEN what ELSE reply[s]
BY DEF Inv, Types, RepliesTo

\* No command moves.
LEMMA WorkerOnly ==
  ASSUME Inv, UNCHANGED <<callVars, queueVars, slots, reply>>,
         destroyed' \in BOOLEAN, connected' \in BOOLEAN, teardown' \in BOOLEAN,
         generation' \in 0..MaxSessions, phase' \in Phases,
         cancel' \in {"no", "racing", "set"}, Worker'
  PROVE  Inv' /\ Permitted
<1>1. UNCHANGED <<pc, admitted, expired, sent, queue, pending, releasing, wire, slots, reply>>
  BY DEF callVars, queueVars
<1>2. Queued' = Queued /\ InCall' = InCall
  BY <1>1 DEF Queued, InCall
<1>3. Types' /\ Places' /\ Outcomes'
  BY <1>1, <1>2 DEF Inv, Types, Places, Outcomes
<1>4. Keeps
  BY <1>1, <1>2 DEF Keeps, Holders
<1> QED BY <1>3, <1>4 DEF Inv, Permitted

\* The commands in R leave the queue and the pending map.  Those in T get a reply.
LEMMA Frees ==
  ASSUME Inv, releasing = {}, NEW R \in SUBSET (Queued \cup pending), NEW T \in SUBSET R,
         NEW what \in {"Response", "Error"}, RepliesTo(T, what),
         what = "Response" => T \subseteq pending,
         \A s \in R \ T : pc[s] # "wait",
         queue' \in Seq(Sends), Distinct(queue'), Queued' = Queued \ R,
         pending' = pending \ R, releasing' = R, wire' \subseteq Sends,
         UNCHANGED <<callVars, sharedVars, slots, cancel>>,
         phase' \in Phases \ {"none", "over", "fresh"},
         phase' \in {"top", "select", "writing"} => phase \in {"top", "select", "writing"},
         pending' # {} => phase' \in {"top", "select", "writing"},
         connected => phase' \in {"top", "select", "writing", "lost", "ending"}
  PROVE  Inv' /\ Permitted
<1>1. UNCHANGED <<pc, admitted, expired, sent, destroyed, connected, generation, teardown,
                  slots, cancel>>
  BY DEF callVars, sharedVars
<1>2. Queued \subseteq Sends /\ pending \subseteq Sends /\ R \subseteq Sends
  BY QueuedIs DEF Inv, Types
<1>3. Types'
  BY <1>1, <1>2, Replied DEF Inv, Types
<1>4. Places'
  BY <1>1 DEF Inv, Places
<1>5. Outcomes'
  <2>1. SUFFICES ASSUME NEW s \in Sends
                 PROVE  (/\ pc[s] \in Early \/ s \in Queued => sent[s] = <<>>
                         /\ s \in pending \/ reply[s] = "Response" \/ pc[s] = "answered"
                              => sent[s] = <<admitted[s]>>
                         /\ sent[s] \in {<<>>, <<admitted[s]>>}
                         /\ pc[s] = "wait" /\ reply[s] = "none" => s \in Queued \cup pending)'
    BY DEF Outcomes
  <2>2. reply'[s] = IF s \in T /\ pc[s] = "wait" THEN what ELSE reply[s]
    BY Replied
  <2>3. reply'[s] = "Response" => s \in pending \/ reply[s] = "Response"
    BY <2>2
  <2>4. pc[s] = "wait" /\ reply'[s] = "none" => reply[s] = "none" /\ s \notin R
    BY <2>2
  <2> QED BY <1>1, <2>3, <2>4 DEF Inv, Outcomes
<1>6. Worker'
  BY <1>1 DEF Inv, Worker, HoldsLock
<1>7. Keeps
  BY <1>1 DEF Keeps, Holders, InCall
<1> QED BY <1>3, <1>4, <1>5, <1>6, <1>7 DEF Inv, Permitted

LEMMA HeadFreed ==
  ASSUME Inv, releasing = {}, FailsHead, phase \in {"draining", "closing"}
  PROVE  Inv' /\ Permitted
<1>1. queue # <<>> /\ queue' = Tail(queue) /\ releasing' = {Head(queue)}
      /\ RepliesTo({Head(queue)}, "Error")
      /\ UNCHANGED <<callVars, sharedVars, slots, cancel, phase, pending, wire>>
  BY DEF FailsHead, workerVars
<1>2. /\ queue' \in Seq(Sends) /\ Distinct(queue') /\ Head(queue) \in Queued
      /\ Queued' = Queued \ {Head(queue)}
  BY <1>1, QueueTail DEF Inv, Types
<1>3. pending = {} /\ ~connected /\ wire' \subseteq Sends
  BY <1>1 DEF Inv, Types, Worker
<1>4. phase' \in Phases \ {"none", "over", "fresh"}
  BY <1>1 DEF Phases
<1> DEFINE H == {Head(queue)}
<1>5. H \in SUBSET (Queued \cup pending) /\ H \in SUBSET H /\ H \ H = {}
      /\ pending' = pending \ H
  BY <1>1, <1>2, <1>3
<1> HIDE DEF H
<1>6. RepliesTo(H, "Error") /\ releasing' = H /\ Queued' = Queued \ H
  BY <1>1, <1>2 DEF H
<1>7. \A s \in H \ H : pc[s] # "wait"
  BY <1>5
<1> QED BY <1>1, <1>2, <1>3, <1>4, <1>5, <1>6, <1>7, Frees

LEMMA SessionDropped ==
  ASSUME Inv, releasing = {}, DropsSession, UNCHANGED <<callVars, sharedVars, cancel>>,
         phase' \in {"lost", "ending"}
  PROVE  Inv' /\ Permitted
<1>1. /\ RepliesTo(pending, "Error") /\ releasing' = pending /\ pending' = {} /\ wire' = {}
      /\ UNCHANGED <<queue, slots>>
  BY DEF DropsSession
<1>2. queue' \in Seq(Sends) /\ Distinct(queue') /\ Queued' = Queued
  BY <1>1 DEF Inv, Types, Queued
<1>3. Queued' = Queued \ pending
  BY <1>2 DEF Inv, Places
<1>4. phase' \in Phases \ {"none", "over", "fresh"}
  BY DEF Phases
<1>5. pending \in SUBSET (Queued \cup pending) /\ pending' = pending \ pending
      /\ \A s \in pending \ pending : pc[s] # "wait"
  BY <1>1
<1> QED BY <1>1, <1>2, <1>3, <1>4, <1>5, Frees

LEMMA ProceedsStep ==
  ASSUME Inv, releasing = {}, Prompt \/ DelayEnds
  PROVE  Inv' /\ Permitted
<1> USE DEF Phase
<1>0. generation \in 0..MaxSessions /\ cancel \in {"no", "racing", "set"} /\ phase \in Phases
      /\ destroyed \in BOOLEAN /\ connected \in BOOLEAN /\ teardown \in BOOLEAN
  BY DEF Inv, Types
<1>1. CASE CancelObserved
  BY <1>1, SessionDropped DEF CancelObserved
<1>2. CASE DialOk
  <2>1. /\ phase \in Dialing /\ phase' = "fresh" /\ generation' = generation + 1
        /\ generation < MaxSessions
        /\ UNCHANGED <<callVars, queueVars, slots, reply, cancel, destroyed, connected, teardown>>
    BY <1>2 DEF DialOk
  <2>2. Worker'
    BY <1>0, <2>1 DEF Inv, Worker, HoldsLock, callVars, queueVars, Dialing
  <2>3. generation' \in 0..MaxSessions /\ phase' \in Phases
    BY <1>0, <2>1 DEF Phases
  <2> QED BY <1>0, <2>1, <2>2, <2>3, WorkerOnly
<1>3. CASE DialGivesUp \/ DialFails \/ SleepOver
  <2>1. /\ phase \in {"dialing", "redialing", "asleep"}
        /\ phase' \in {"ending", "asleep", "redialing"}
        /\ UNCHANGED <<callVars, queueVars, slots, reply, cancel, sharedVars>>
    BY <1>3 DEF DialGivesUp, DialFails, SleepOver, Dialing
  <2>2. Worker'
    BY <2>1 DEF Inv, Worker, HoldsLock, callVars, queueVars, sharedVars
  <2>3. phase' \in Phases
    BY <2>1 DEF Phases, Awaiting, Dialing
  <2> QED BY <1>0, <2>1, <2>2, <2>3, WorkerOnly DEF sharedVars
<1>4. CASE SetConnected
  <2>1. /\ phase = "fresh" /\ phase' = "top" /\ connected' = TRUE
        /\ UNCHANGED <<callVars, queueVars, slots, reply, cancel, destroyed, generation, teardown>>
    BY <1>4 DEF SetConnected
  <2>2. Worker'
    BY <2>1 DEF Inv, Worker, HoldsLock, callVars, queueVars
  <2>3. phase' \in Phases
    BY <2>1 DEF Phases
  <2> QED BY <1>0, <2>1, <2>2, <2>3, WorkerOnly
<1>5. CASE Reap
  <2> DEFINE closed == {s \in pending : HasReturned(s)}
             late == {s \in pending \ closed : expired[s]}
  <2>1. /\ phase = "top" /\ phase' = "select" /\ RepliesTo(late, "Error")
        /\ pending' = pending \ (closed \cup late) /\ releasing' = closed \cup late
        /\ UNCHANGED <<callVars, cancel, queue, wire, sharedVars, slots>>
    BY <1>5 DEF Reap
  <2>2. \A s \in (closed \cup late) \ late : pc[s] # "wait"
    BY DEF HasReturned, Returned
  <2>3. closed \cup late \subseteq pending /\ late \subseteq closed \cup late
    OBVIOUS
  <2> HIDE DEF closed, late
  <2>4. queue' \in Seq(Sends) /\ Distinct(queue') /\ Queued' = Queued \ (closed \cup late)
        /\ wire' \subseteq Sends
    BY <2>1, <2>3 DEF Inv, Types, Queued, Places
  <2>5. phase' \in Phases \ {"none", "over", "fresh"}
    BY <2>1 DEF Phases, Awaiting, Dialing
  <2>6. closed \cup late \in SUBSET (Queued \cup pending) /\ late \in SUBSET (closed \cup late)
    BY <2>3
  <2> QED BY <2>1, <2>2, <2>4, <2>5, <2>6, Frees
<1>6. CASE TimerFires
  <2>1. /\ phase = "select" /\ phase' = "top"
        /\ UNCHANGED <<callVars, queueVars, slots, reply, cancel, sharedVars>>
    BY <1>6 DEF TimerFires
  <2>2. Worker'
    BY <2>1 DEF Inv, Worker, HoldsLock, callVars, queueVars, sharedVars
  <2>3. phase' \in Phases
    BY <2>1 DEF Phases
  <2> QED BY <1>0, <2>1, <2>2, <2>3, WorkerOnly DEF sharedVars
<1>7. CASE WriteDone
  <2>1. /\ phase = "writing" /\ phase' = "top" /\ wire' = wire \cup pending
        /\ UNCHANGED <<pc, admitted, expired, sent, queue, pending, releasing, slots, reply,
                       cancel, destroyed, connected, generation, teardown>>
    BY <1>7 DEF WriteDone, callVars, sharedVars
  <2>2. Queued' = Queued /\ phase' \in Phases
    BY <2>1 DEF Queued, Phases
  <2>3. Types' /\ Places' /\ Outcomes'
    BY <2>1, <2>2 DEF Inv, Types, Places, Outcomes
  <2>4. Worker'
    BY <2>1 DEF Inv, Worker, HoldsLock
  <2>5. Keeps
    BY <2>1, <2>2 DEF Keeps, Holders, InCall
  <2> QED BY <2>3, <2>4, <2>5 DEF Inv, Permitted
<1>8. CASE ClearConnected
  <2>1. /\ phase = "lost" /\ phase' = "draining" /\ connected' = FALSE
        /\ UNCHANGED <<callVars, queueVars, slots, reply, cancel, destroyed, generation, teardown>>
    BY <1>8 DEF ClearConnected
  <2>2. Worker'
    BY <2>1 DEF Inv, Worker, HoldsLock, callVars, queueVars
  <2>3. phase' \in Phases
    BY <2>1 DEF Phases
  <2> QED BY <1>0, <2>1, <2>2, <2>3, WorkerOnly
<1>9. CASE Drain
  BY <1>9, HeadFreed DEF Drain
<1>10. CASE Drained
  <2>1. /\ phase = "draining" /\ phase' \in {"asleep", "ending"}
        /\ UNCHANGED <<callVars, queueVars, slots, reply, cancel, sharedVars>>
    BY <1>10 DEF Drained
  <2>2. Worker'
    BY <2>1 DEF Inv, Worker, HoldsLock, callVars, queueVars, sharedVars
  <2>3. phase' \in Phases
    BY <2>1 DEF Phases, Awaiting, Dialing
  <2> QED BY <1>0, <2>1, <2>2, <2>3, WorkerOnly DEF sharedVars
<1>11. CASE EndClears
  <2>1. /\ phase = "ending" /\ phase' = "closing" /\ connected' = FALSE
        /\ UNCHANGED <<callVars, queueVars, slots, reply, cancel, destroyed, generation, teardown>>
    BY <1>11 DEF EndClears
  <2>2. Worker'
    BY <2>1 DEF Inv, Worker, HoldsLock, callVars, queueVars
  <2>3. phase' \in Phases
    BY <2>1 DEF Phases
  <2> QED BY <1>0, <2>1, <2>2, <2>3, WorkerOnly
<1>12. CASE CloseDrains
  BY <1>12, HeadFreed DEF CloseDrains
<1>13. CASE Finish
  <2>1. /\ phase = "closing" /\ phase' = "over" /\ queue = <<>>
        /\ UNCHANGED <<callVars, queueVars, slots, reply, cancel, sharedVars>>
    BY <1>13 DEF Finish
  <2>2. Worker'
    BY <2>1 DEF Inv, Worker, HoldsLock, callVars, queueVars, sharedVars
  <2>3. phase' \in Phases
    BY <2>1 DEF Phases
  <2> QED BY <1>0, <2>1, <2>2, <2>3, WorkerOnly DEF sharedVars
<1> QED BY <1>1, <1>2, <1>3, <1>4, <1>5, <1>6, <1>7, <1>8, <1>9, <1>10, <1>11, <1>12, <1>13
        DEF Prompt, DelayEnds, DialEnds

LEMMA CommandStep ==
  ASSUME Inv, releasing = {}, NEW s \in Sends, TakesCommand(s)
  PROVE  Inv' /\ Permitted
<1>1. /\ phase = "select" /\ queue # <<>> /\ s = Head(queue) /\ queue' = Tail(queue)
      /\ UNCHANGED cancel
  BY DEF TakesCommand, WritesCommand, RejectsCommand, Takes
<1>2. /\ queue' \in Seq(Sends) /\ Distinct(queue') /\ s \in Queued /\ Queued' = Queued \ {s}
  BY <1>1, QueueTail DEF Inv, Types
<1>3. CASE WritesCommand(s)
  <2>1. /\ pc[s] \notin Returned /\ admitted[s] = generation
        /\ pending' = pending \cup {s} /\ phase' = "writing"
        /\ sent' = [sent EXCEPT ![s] = Append(sent[s], generation)]
        /\ UNCHANGED <<pc, admitted, expired, cancel, releasing, wire, destroyed, connected,
                       generation, teardown, slots, reply>>
    BY <1>1, <1>3 DEF WritesCommand, IsCurrent, HasReturned, sharedVars
  <2>2. generation \in 1..MaxSessions /\ sent[s] = <<>> /\ s \notin pending
    BY <1>1, <1>2 DEF Inv, Types, Worker, Outcomes, Places
  <2>3. Append(sent[s], generation) = <<generation>> /\ <<generation>> \in Seq(1..MaxSessions)
    BY <2>2
  <2>4. /\ sent' \in [Sends -> Seq(1..MaxSessions)]
        /\ \A t \in Sends : sent'[t] = IF t = s THEN <<admitted[s]>> ELSE sent[t]
    BY <2>1, <2>3 DEF Inv, Types
  <2>5. Types'
    BY <1>2, <2>1, <2>4 DEF Inv, Types, Phases, Awaiting, Dialing
  <2>6. Places'
    BY <1>2, <2>1, <2>2 DEF Inv, Places
  <2>7. Outcomes'
    <3>1. pc[s] \notin Early
      BY <1>2 DEF Inv, Places, Early
    <3>2. SUFFICES ASSUME NEW t \in Sends
                   PROVE  (/\ pc[t] \in Early \/ t \in Queued => sent[t] = <<>>
                           /\ t \in pending \/ reply[t] = "Response" \/ pc[t] = "answered"
                                => sent[t] = <<admitted[t]>>
                           /\ sent[t] \in {<<>>, <<admitted[t]>>}
                           /\ pc[t] = "wait" /\ reply[t] = "none" => t \in Queued \cup pending)'
      BY DEF Outcomes
    <3>3. CASE t = s
      BY <1>2, <2>1, <2>4, <3>1, <3>3
    <3>4. CASE t # s
      BY <1>2, <2>1, <2>4, <3>4 DEF Inv, Outcomes
    <3> QED BY <3>3, <3>4
  <2>8. Worker'
    BY <1>1, <2>1, <2>2 DEF Inv, Types, Worker, HoldsLock
  <2>9. Keeps
    BY <1>2, <2>1 DEF Keeps, Holders, InCall
  <2> QED BY <2>5, <2>6, <2>7, <2>8, <2>9 DEF Inv, Permitted
<1>4. CASE RejectsCommand(s)
  <2>1. /\ phase' = "top" /\ RepliesTo({s}, "Error") /\ releasing' = {s}
        /\ UNCHANGED <<callVars, cancel, pending, wire, sharedVars, slots>>
    BY <1>1, <1>4 DEF RejectsCommand
  <2>2. wire' \subseteq Sends /\ pending' = pending \ {s}
    BY <1>2, <2>1 DEF Inv, Types, Places
  <2>3. phase' \in Phases \ {"none", "over", "fresh"}
    BY <2>1 DEF Phases
  <2> DEFINE R == {s}
  <2>4. R \in SUBSET (Queued \cup pending) /\ R \in SUBSET R /\ (\A t \in R \ R : pc[t] # "wait")
    BY <1>2
  <2>5. RepliesTo(R, "Error") /\ releasing' = R /\ pending' = pending \ R /\ Queued' = Queued \ R
    BY <1>2, <2>1, <2>2
  <2> HIDE DEF R
  <2> QED BY <1>1, <1>2, <2>1, <2>2, <2>3, <2>4, <2>5, Frees
<1> QED BY <1>3, <1>4 DEF TakesCommand

LEMMA PeerStep ==
  ASSUME Inv, releasing = {}, Peer
  PROVE  Inv' /\ Permitted
<1> USE DEF Phase
<1>1. ASSUME phase = "select", phase' = "top",
             UNCHANGED <<callVars, queueVars, slots, reply, cancel, sharedVars>>
      PROVE  Inv' /\ Permitted
  <2>1. Worker'
    BY <1>1 DEF Inv, Worker, HoldsLock, callVars, queueVars, sharedVars
  <2>2. phase' \in Phases
    BY <1>1 DEF Phases
  <2> QED BY <1>1, <2>1, <2>2, WorkerOnly DEF sharedVars, Inv, Types
<1>2. CASE OtherTraffic
  BY <1>1, <1>2 DEF OtherTraffic
<1>3. CASE SessionEnds
  BY <1>3, SessionDropped DEF SessionEnds
<1>4. ASSUME NEW s \in Sends, Response(s)
      PROVE  Inv' /\ Permitted
  <2>1. /\ phase = "select" /\ phase' = "top" /\ wire' = wire \ {s}
        /\ UNCHANGED <<callVars, cancel, queue, sharedVars, slots>>
    BY <1>4 DEF Response
  <2>2. phase' \in Phases \ {"none", "over", "fresh"} /\ wire' \subseteq Sends
    BY <2>1 DEF Phases, Inv, Types
  <2>3. queue' \in Seq(Sends) /\ Distinct(queue') /\ Queued' = Queued
    BY <2>1 DEF Inv, Types, Queued
  <2>4. CASE s \in pending
    <3>1. pending' = pending \ {s} /\ releasing' = {s} /\ RepliesTo({s}, "Response")
      BY <1>4, <2>4 DEF Response
    <3>2. Queued' = Queued \ {s}
      BY <2>3, <2>4 DEF Inv, Places
    <3> DEFINE R == {s}
    <3>3. R \in SUBSET (Queued \cup pending) /\ R \in SUBSET R /\ R \subseteq pending
          /\ (\A t \in R \ R : pc[t] # "wait")
      BY <2>4
    <3>4. RepliesTo(R, "Response") /\ releasing' = R /\ pending' = pending \ R
          /\ Queued' = Queued \ R
      BY <3>1, <3>2
    <3> HIDE DEF R
    <3> QED BY <2>1, <2>2, <2>3, <3>3, <3>4, Frees
  <2>5. CASE s \notin pending
    <3>1. UNCHANGED <<pc, admitted, expired, sent, queue, pending, releasing, slots, reply,
                      cancel, destroyed, connected, generation, teardown>>
      BY <1>4, <2>1, <2>5 DEF Response, callVars, sharedVars
    <3>2. Types' /\ Places' /\ Outcomes'
      BY <2>2, <2>3, <3>1 DEF Inv, Types, Places, Outcomes
    <3>3. Worker'
      BY <2>1, <3>1 DEF Inv, Worker, HoldsLock
    <3>4. Keeps
      BY <2>3, <3>1 DEF Keeps, Holders, InCall
    <3> QED BY <3>2, <3>3, <3>4 DEF Inv, Permitted
  <2> QED BY <2>4, <2>5
<1> QED BY <1>2, <1>3, <1>4 DEF Peer

LEMMA ReleaseStep ==
  ASSUME Inv, Release
  PROVE  Inv' /\ Permitted
<1>1. PICK s \in releasing : releasing' = releasing \ {s} /\ slots' = slots + 1
  BY DEF Release
<1>2. UNCHANGED <<pc, admitted, expired, sent, phase, cancel, queue, pending, wire,
                  destroyed, connected, generation, teardown, reply>>
  BY DEF Release, callVars, workerVars, sharedVars
<1>3. Queued' = Queued /\ s \in Sends
  BY <1>1, <1>2 DEF Queued, Inv, Types
<1>4. Types' /\ Places' /\ Outcomes' /\ Worker'
  BY <1>1, <1>2, <1>3 DEF Inv, Types, Places, Outcomes, Worker, HoldsLock
<1>5. s \notin Queued /\ s \notin pending /\ s \notin InCall
  BY <1>1 DEF Inv, Places, InCall
<1>6. Returns1(s)
  BY <1>1, <1>2, <1>3, <1>5 DEF Returns1, Holders, InCall
<1> QED BY <1>3, <1>4, <1>6 DEF Inv, Permitted

-----------------------------------------------------------------------------
(* Steps of connect(), disconnect() and destroy() *)

LEMMA ControlStep ==
  ASSUME Inv, Control \/ CancelLands
  PROVE  Inv' /\ Permitted
<1>0. generation \in 0..MaxSessions /\ cancel \in {"no", "racing", "set"} /\ phase \in Phases
      /\ destroyed \in BOOLEAN /\ connected \in BOOLEAN /\ teardown \in BOOLEAN
  BY DEF Inv, Types
<1>1. UNCHANGED <<callVars, queueVars, slots, reply, connected, generation>>
  BY DEF Control, Connect, Destroy, Disconnect, DisconnectJoined, DisconnectDropped,
         CancelLands, sharedVars
<1>2. CASE Connect
  <2>1. /\ phase \in {"none", "over"} /\ phase' = "dialing" /\ cancel' = "no"
        /\ UNCHANGED <<destroyed, teardown>>
    BY <1>2 DEF Connect, sharedVars
  <2>2. Worker'
    BY <1>1, <2>1 DEF Inv, Worker, HoldsLock, callVars, queueVars
  <2>3. phase' \in Phases
    BY <2>1 DEF Phases, Awaiting, Dialing
  <2> QED BY <1>0, <1>1, <2>1, <2>2, <2>3, WorkerOnly
<1>3. CASE Destroy
  <2>1. destroyed' = TRUE /\ UNCHANGED <<phase, cancel, teardown>>
    BY <1>3 DEF Destroy, workerVars
  <2>2. Worker'
    BY <1>1, <2>1 DEF Inv, Worker, HoldsLock, callVars, queueVars
  <2> QED BY <1>0, <1>1, <2>1, <2>2, WorkerOnly
<1>4. CASE Disconnect
  <2>1. /\ phase # "none" /\ teardown' = TRUE /\ (\A s \in Sends : ~HoldsLock(s))
        /\ cancel' \in {"no", "racing", "set"} /\ UNCHANGED <<phase, destroyed>>
    BY <1>0, <1>4 DEF Disconnect, LockFree
  <2>2. Worker'
    BY <1>1, <2>1 DEF Inv, Worker, HoldsLock, callVars, queueVars
  <2> QED BY <1>0, <1>1, <2>1, <2>2, WorkerOnly
<1>5. CASE DisconnectJoined
  <2>1. /\ teardown /\ phase = "over" /\ phase' = "none" /\ cancel' = "no" /\ teardown' = FALSE
        /\ UNCHANGED destroyed
    BY <1>5 DEF DisconnectJoined
  <2>2. Worker'
    BY <1>1, <2>1 DEF Inv, Worker, HoldsLock, callVars, queueVars
  <2>3. phase' \in Phases
    BY <2>1 DEF Phases
  <2> QED BY <1>0, <1>1, <2>1, <2>2, <2>3, WorkerOnly
<1>6. CASE DisconnectDropped
  <2>1. teardown /\ teardown' = FALSE /\ UNCHANGED <<phase, cancel, destroyed>>
    BY <1>6 DEF DisconnectDropped, workerVars
  <2>2. Worker'
    BY <1>1, <2>1 DEF Inv, Worker, HoldsLock, callVars, queueVars
  <2> QED BY <1>0, <1>1, <2>1, <2>2, WorkerOnly
<1>7. CASE CancelLands
  <2>1. cancel' = "set" /\ UNCHANGED <<phase, destroyed, teardown>>
    BY <1>7 DEF CancelLands, sharedVars
  <2>2. Worker'
    BY <1>1, <2>1 DEF Inv, Worker, HoldsLock, callVars, queueVars
  <2> QED BY <1>0, <1>1, <2>1, <2>2, WorkerOnly
<1> QED BY <1>2, <1>3, <1>4, <1>5, <1>6, <1>7 DEF Control

-----------------------------------------------------------------------------
(* The theorems *)

IInv == Inv /\ PermitsConserved

LEMMA HoldersFinite ==
  ASSUME Inv
  PROVE  IsFiniteSet(Holders) /\ Cardinality(Holders) \in Nat
BY HoldersOf, FS_Subset, FS_CardinalityType

LEMMA Conserved ==
  ASSUME IInv, Inv', Permitted
  PROVE  PermitsConserved'
<1>1. IsFiniteSet(Holders) /\ Cardinality(Holders) \in Nat /\ slots \in Nat
  BY HoldersFinite DEF IInv, Inv, Types
<1>2. CASE Keeps
  BY <1>2 DEF Keeps, IInv, PermitsConserved
<1>3. ASSUME NEW s \in Sends, Takes1(s)
      PROVE  PermitsConserved'
  <2>1. Cardinality(Holders \cup {s}) = Cardinality(Holders) + 1
    BY <1>1, <1>3, FS_AddElement DEF Takes1
  <2>2. Cardinality(Holders') = Cardinality(Holders) + 1 /\ slots' = slots - 1
    BY <1>3, <2>1 DEF Takes1
  <2> QED BY <1>1, <2>2 DEF IInv, PermitsConserved
<1>4. ASSUME NEW s \in Sends, Returns1(s)
      PROVE  PermitsConserved'
  <2>1. Cardinality(Holders \ {s}) = Cardinality(Holders) - 1
    BY <1>1, <1>4, FS_RemoveElement DEF Returns1
  <2>2. Cardinality(Holders') = Cardinality(Holders) - 1 /\ slots' = slots + 1
    BY <1>4, <2>1 DEF Returns1
  <2> QED BY <1>1, <2>2 DEF IInv, PermitsConserved
<1> QED BY <1>2, <1>3, <1>4 DEF Permitted

LEMMA InitInv == Init => IInv
<1> SUFFICES ASSUME Init
             PROVE  IInv
  OBVIOUS
<1>1. Queued = {} /\ queue \in Seq(Sends) /\ Distinct(queue)
  BY DEF Init, Queued, Range, Distinct
<1>2. <<>> \in Seq(1..MaxSessions) /\ 0 \in 0..MaxSessions
  OBVIOUS
<1>3. Types
  BY <1>1, <1>2 DEF Init, Types, Stages, Phases
<1>4. Places /\ Outcomes /\ Worker
  BY <1>1 DEF Init, Places, Outcomes, Worker, HoldsLock
<1>5. Holders = {}
  BY <1>1 DEF Init, Holders, InCall
<1>6. PermitsConserved
  BY <1>5, FS_EmptySet DEF Init, PermitsConserved
<1> QED BY <1>3, <1>4, <1>6 DEF IInv, Inv

LEMMA StepInv == IInv /\ [Next]_vars => IInv'
<1> SUFFICES ASSUME IInv, [Next]_vars
             PROVE  IInv'
  OBVIOUS
<1>1. Inv
  BY DEF IInv
<1>2. CASE Next
  <2>1. Inv' /\ Permitted
    BY <1>1, <1>2, CallStep, ControlStep, ReleaseStep, ProceedsStep, CommandStep, PeerStep
       DEF Next, WorkerStep
  <2> QED BY <2>1, Conserved DEF IInv
<1>3. CASE UNCHANGED vars
  <2>1. UNCHANGED <<pc, admitted, expired, sent, phase, cancel, queue, pending, releasing, wire,
                    destroyed, connected, generation, teardown, slots, reply>>
    BY <1>3 DEF vars, callVars, workerVars, queueVars, sharedVars
  <2>2. Queued' = Queued
    BY <2>1 DEF Queued
  <2>3. Inv'
    BY <1>1, <2>1, <2>2 DEF Inv, Types, Places, Outcomes, Worker, HoldsLock
  <2>4. Keeps
    BY <2>1, <2>2 DEF Keeps, Holders, InCall
  <2> QED BY <2>3, <2>4, Conserved DEF IInv, Permitted
<1> QED BY <1>2, <1>3

LEMMA Invariant == Spec => []IInv
BY InitInv, StepInv, PTL DEF Spec

(***************************************************************************)
(* TypeOK holds in every state: of any number of calls none is in two      *)
(* stages, no permit count leaves 0..MaxInFlight.                          *)
(***************************************************************************)
THEOREM TypeCorrect == Spec => []TypeOK
<1>1. IInv => TypeOK
  <2> SUFFICES ASSUME IInv
               PROVE  TypeOK
    OBVIOUS
  <2>1. slots \in 0..MaxInFlight
    BY HoldersFinite DEF IInv, Inv, Types, PermitsConserved
  <2> QED BY <2>1 DEF IInv, Inv, Types, Stages, TypeOK
<1> QED BY <1>1, Invariant, PTL

(***************************************************************************)
(* PermitsConserved: no path of send(), of the worker, of disconnect()     *)
(* leaks a permit of the semaphore or returns one twice.                   *)
(***************************************************************************)
THEOREM PermitsAreConserved == Spec => []PermitsConserved
BY Invariant, PTL DEF IInv

(***************************************************************************)
(* QueueHasRoom: the channel of max_in_flight commands is never Full for a *)
(* call that has a permit, so try_send() fails only on a worker that ends. *)
(***************************************************************************)
THEOREM QueueAlwaysHasRoom == Spec => []QueueHasRoom
<1>1. IInv => QueueHasRoom
  <2> SUFFICES ASSUME IInv, NEW s \in Sends, pc[s] = "enqueue"
               PROVE  Len(queue) < MaxInFlight
    BY DEF QueueHasRoom
  <2>1. s \in Holders /\ s \notin Queued /\ Queued \subseteq Holders
    BY DEF IInv, Inv, Places, Holders, InCall
  <2>2. IsFiniteSet(Queued) /\ Len(queue) \in Nat /\ Len(queue) <= Cardinality(Queued)
    BY QueueLength DEF IInv, Inv, Types
  <2>3. Cardinality(Queued \cup {s}) = Cardinality(Queued) + 1 /\ Cardinality(Queued) \in Nat
    BY <2>1, <2>2, FS_AddElement, FS_CardinalityType
  <2>4. Queued \cup {s} \subseteq Holders /\ IsFiniteSet(Holders)
    BY <2>1, HoldersFinite DEF IInv
  <2>5. Cardinality(Queued \cup {s}) <= Cardinality(Holders)
    BY <2>4, FS_Subset
  <2>6. Cardinality(Holders) \in Nat /\ slots \in Nat /\ slots + Cardinality(Holders) = MaxInFlight
    BY HoldersFinite DEF IInv, Inv, Types, PermitsConserved
  <2> QED BY <2>2, <2>3, <2>5, <2>6
<1> QED BY <1>1, Invariant, PTL

(***************************************************************************)
(* NeverReplayed: whatever sessions come and go while a command is queued, *)
(* it is written at most once and on the session it was admitted to.       *)
(***************************************************************************)
THEOREM RequestsAreNotReplayed == Spec => []NeverReplayed
<1>1. IInv => NeverReplayed
  BY DEF IInv, Inv, Outcomes, NeverReplayed
<1> QED BY <1>1, Invariant, PTL

(***************************************************************************)
(* HonestOutcome: an error of send() that may be retried after means that  *)
(* nothing was written, an answer that its request was.                    *)
(***************************************************************************)
THEOREM OutcomesAreHonest == Spec => []HonestOutcome
<1>1. IInv => HonestOutcome
  <2> SUFFICES ASSUME IInv, NEW s \in Sends
               PROVE  /\ pc[s] = "refused" => sent[s] = <<>> /\ s \notin Holders
                      /\ pc[s] = "answered" => sent[s] = <<admitted[s]>>
    BY DEF HonestOutcome
  <2>1. pc[s] = "refused" => s \notin Holders
    BY DEF IInv, Inv, Places, Holders, InCall
  <2> QED BY <2>1 DEF IInv, Inv, Outcomes, Early
<1> QED BY <1>1, Invariant, PTL

(***************************************************************************)
(* NoOrphan: a call that waits has its command or its request with a live  *)
(* worker, and a request in pending has the session it was written on.     *)
(***************************************************************************)
THEOREM NobodyIsOrphaned == Spec => []NoOrphan
<1>1. IInv => NoOrphan
  BY DEF IInv, Inv, Outcomes, Worker, NoOrphan
<1> QED BY <1>1, Invariant, PTL

(***************************************************************************)
(* The connection the sends talk to implements Connection, as Lifecycle's  *)
(* does: one worker, a generation per session, no flag left behind.        *)
(***************************************************************************)
THEOREM SendPathImplementsConnection == Spec => ImplementsConnection
<1>1. Init => C!Init
  BY DEF Init, C!Init
<1>2. IInv /\ [Next]_vars => [C!Next]_C!vars
  <2> SUFFICES ASSUME IInv, [Next]_vars
               PROVE  [C!Next]_C!vars
    OBVIOUS
  <2> USE DEF C!vars, C!Next
  <2>1. Worker /\ generation \in Nat /\ connected \in BOOLEAN
    BY DEF IInv, Inv, Types
  <2>2. ASSUME UNCHANGED <<phase, connected, generation>>
        PROVE  [C!Next]_C!vars
    BY <2>2
  <2>3. CASE \E s \in Sends : Call(s)
    <3>1. UNCHANGED <<phase, connected, generation>>
      BY <2>3 DEF Call, SendStep, SendChecks, SendLoadsGeneration, SendAcquires, SendInvalid,
                  SendLocks, SendEnqueues, SendReturns, SendTimesOut, SendDropped, Expire,
                  workerVars, sharedVars
    <3> QED BY <2>2, <3>1
  <2>4. CASE Control \/ CancelLands
    <3>1. UNCHANGED <<connected, generation>>
      BY <2>4 DEF Control, Connect, Destroy, Disconnect, DisconnectJoined, DisconnectDropped,
                  CancelLands, sharedVars
    <3>2. \/ UNCHANGED phase
          \/ phase \in {"none", "over"} /\ phase' = "dialing"
          \/ phase = "over" /\ phase' = "none"
      BY <2>4 DEF Control, Connect, Destroy, Disconnect, DisconnectJoined, DisconnectDropped,
                  CancelLands, workerVars
    <3>3. CASE UNCHANGED phase
      BY <2>2, <3>1, <3>3
    <3>4. CASE phase \in {"none", "over"} /\ phase' = "dialing"
      BY <3>1, <3>4 DEF C!Start
    <3>5. CASE phase = "over" /\ phase' = "none"
      BY <3>1, <3>5
    <3> QED BY <3>2, <3>3, <3>4, <3>5
  <2>5. CASE Release \/ \E s \in Sends : TakesCommand(s) \/ Response(s)
    <3>1. UNCHANGED <<connected, generation>>
      BY <2>5 DEF Release, TakesCommand, WritesCommand, RejectsCommand, Response, sharedVars
    <3>2. UNCHANGED phase \/ (phase = "select" /\ phase' \in {"top", "writing"})
      BY <2>5 DEF Release, TakesCommand, WritesCommand, RejectsCommand, Response, Takes, Phase,
                  workerVars
    <3> QED BY <3>1, <3>2
  <2>6. CASE CancelObserved \/ SessionEnds \/ Drained \/ Reap \/ TimerFires \/ WriteDone
             \/ OtherTraffic \/ DialGivesUp \/ DialFails \/ SleepOver \/ Drain \/ CloseDrains
    <3>1. UNCHANGED <<connected, generation>>
      BY <2>6 DEF CancelObserved, SessionEnds, Drained, Reap, TimerFires, WriteDone,
                  OtherTraffic, DialGivesUp, DialFails, SleepOver, Drain, CloseDrains, FailsHead,
                  sharedVars
    <3>2. phase \notin {"none", "over", "fresh"} /\ phase' \notin {"none", "over", "fresh"}
      BY <2>6 DEF CancelObserved, SessionEnds, Drained, Reap, TimerFires, WriteDone,
                  OtherTraffic, DialGivesUp, DialFails, SleepOver, Drain, CloseDrains, FailsHead,
                  workerVars, Phase, Awaiting, Dialing
    <3> QED BY <3>1, <3>2
  <2>7. CASE DialOk
    BY <2>1, <2>7 DEF DialOk, Phase, Worker, C!Authenticate, Dialing
  <2>8. CASE SetConnected
    BY <2>8 DEF SetConnected, Phase, C!Up
  <2>9. CASE ClearConnected
    <3>1. phase = "lost" /\ phase' = "draining" /\ connected' = FALSE /\ UNCHANGED generation
      BY <2>9 DEF ClearConnected, Phase
    <3>2. CASE connected
      BY <3>1, <3>2 DEF C!Down
    <3>3. CASE ~connected
      BY <2>1, <3>1, <3>3
    <3> QED BY <3>2, <3>3
  <2>10. CASE EndClears
    <3>1. phase = "ending" /\ phase' = "closing" /\ connected' = FALSE /\ UNCHANGED generation
      BY <2>10 DEF EndClears, Phase
    <3>2. CASE connected
      BY <3>1, <3>2 DEF C!Down
    <3>3. CASE ~connected
      BY <2>1, <3>1, <3>3
    <3> QED BY <3>2, <3>3
  <2>11. CASE Finish
    <3>1. phase = "closing" /\ phase' = "over" /\ UNCHANGED <<connected, generation>>
      BY <2>11 DEF Finish, Phase, sharedVars
    <3>2. ~connected
      BY <2>1, <3>1 DEF Worker
    <3> QED BY <3>1, <3>2 DEF C!Stop
  <2>12. CASE UNCHANGED vars
    <3>1. UNCHANGED <<phase, connected, generation>>
      BY <2>12 DEF vars, workerVars, sharedVars
    <3> QED BY <2>2, <3>1
  <2>13. Prompt \/ DelayEnds =>
           \/ CancelObserved \/ Drained \/ Reap \/ TimerFires \/ WriteDone \/ DialGivesUp
           \/ DialFails \/ SleepOver \/ Drain \/ CloseDrains \/ DialOk \/ SetConnected
           \/ ClearConnected \/ EndClears \/ Finish
    BY DEF Prompt, DelayEnds, DialEnds
  <2> QED BY <2>3, <2>4, <2>5, <2>6, <2>7, <2>8, <2>9, <2>10, <2>11, <2>12, <2>13
          DEF Next, WorkerStep, Peer
<1> QED BY <1>1, <1>2, Invariant, PTL DEF Spec, ImplementsConnection, C!Spec
===============================================================================
