--------------------------- MODULE ReconnectProofs ---------------------------
(***************************************************************************)
(* What Reconnect's run checks on small numbers, for durations, limits and *)
(* a jitter granularity of any size.                                       *)
(***************************************************************************)
EXTENDS Reconnect, TLAPS

-----------------------------------------------------------------------------
(* The arithmetic of reconnect_delay() *)

LEMMA QuarterInUnits ==
  ASSUME NEW b \in Nat, NEW u \in Nat \ {0}, NEW j \in 0..((b \div u) \div 4)
  PROVE  j * u \in Nat /\ 4 * (j * u) <= b
<1> DEFINE q == b \div u
<1>1. q \in Nat /\ q * u <= b
  BY SMTT(30)
<1>2. j \in Nat /\ 4 * j <= q
  BY <1>1, SMTT(30)
<1>3. (4 * j) * u <= q * u
  BY <1>1, <1>2, SMTT(30)
<1>4. (4 * j) * u = 4 * (j * u) /\ j * u \in Nat
  BY <1>2, SMTT(30)
<1> QED BY <1>1, <1>3, <1>4

LEMMA PowerType ==
  ASSUME NEW n \in 1..MostRetries
  PROVE  /\ Power2[n - 1] \in Nat \ {0} /\ Factor(n) \in Nat \ {0}
         /\ Factor(n) <= Power2[n - 1] /\ Factor(n) <= MaxFactor
         /\ Factor(n) = Power2[n - 1] \/ Factor(n) = MaxFactor
<1>1. Power2[n - 1] \in Nat \ {0}
  BY ReconnectAssumption
<1> QED BY <1>1, ReconnectAssumption DEF Factor, AtMost

\* All that is used of the length of a sleep.
LEMMA DelayBounds ==
  ASSUME NEW o \in OptionSets, NEW n \in 1..MostRetries, NEW d \in Delays(o, n)
  PROVE  /\ d \in Nat /\ Base(o, n) \in Nat
         /\ d <= o.max_reconnect_delay
         /\ Base(o, n) <= d
         /\ 4 * d <= 5 * Base(o, n)
<1>1. o.reconnect_delay \in Nat /\ o.max_reconnect_delay \in Nat
  BY ReconnectAssumption DEF Options
<1>2. Factor(n) \in Nat
  BY PowerType
<1>3. o.reconnect_delay * Factor(n) \in Nat
  BY <1>1, <1>2, SMTT(30)
<1>4. Base(o, n) \in Nat /\ Base(o, n) <= o.max_reconnect_delay
  BY <1>1, <1>3 DEF Base, AtMost
<1>5. PICK j \in Jitters(Base(o, n)) :
        d = AtMost(Base(o, n) + j * UnitsPerMilli, o.max_reconnect_delay)
  BY DEF Delays, DelaysFrom
<1>6. j * UnitsPerMilli \in Nat /\ 4 * (j * UnitsPerMilli) <= Base(o, n)
  BY <1>4, <1>5, QuarterInUnits, ReconnectAssumption DEF Jitters
<1> QED BY <1>1, <1>4, <1>5, <1>6 DEF AtMost

\* The next base has doubled, or is the cap.
LEMMA BaseDoubles ==
  ASSUME NEW o \in OptionSets, NEW n \in 1..MostRetries, n + 1 \in 1..MostRetries,
         Doubles(o)
  PROVE  Base(o, n + 1) >= AtMost(2 * Base(o, n), o.max_reconnect_delay)
<1> DEFINE rd == o.reconnect_delay
           cap == o.max_reconnect_delay
<1>1. rd \in Nat /\ cap \in Nat
  BY ReconnectAssumption DEF Options
<1>2. Power2[n] = 2 * Power2[n - 1] /\ Power2[n - 1] \in Nat
  BY ReconnectAssumption
<1>3. rd * Factor(n) \in Nat /\ rd * MaxFactor \in Nat
  <2>1. Factor(n) \in Nat /\ MaxFactor \in Nat
    BY PowerType, ReconnectAssumption
  <2> QED BY <1>1, <2>1, SMTT(30)
<1>4. CASE Factor(n + 1) = MaxFactor
  <2>1. rd * Factor(n + 1) >= cap
    BY <1>4 DEF Doubles
  <2>2. Base(o, n + 1) = cap
    BY <1>1, <1>3, <1>4, <2>1 DEF Base, AtMost
  <2>3. Base(o, n) \in Nat
    BY <1>1, <1>3 DEF Base, AtMost
  <2> QED BY <1>1, <2>2, <2>3 DEF AtMost
<1>5. CASE Factor(n + 1) # MaxFactor
  <2>1. Factor(n + 1) = Power2[n]
    BY <1>5, PowerType, (n + 1) - 1 = n
  <2>2. Factor(n) = Power2[n - 1]
    BY <1>2, <1>5, <2>1, PowerType, ReconnectAssumption DEF Factor, AtMost
  <2>3. rd * Factor(n + 1) = 2 * (rd * Factor(n))
    BY <1>1, <1>2, <2>1, <2>2, SMTT(30)
  <2> QED BY <1>1, <1>3, <2>3 DEF Base, AtMost
<1> QED BY <1>4, <1>5

-----------------------------------------------------------------------------
(* The invariant *)

Cap == options.max_reconnect_delay

\* The clock shows no more than the attempts made so far may have taken.
WithinAttempts ==
  \/ phase = "new"
  \/ attempt = 0 /\ elapsed <= options.connect_timeout
  \/ attempt > 0 /\ elapsed <= attempt * Attempt(options)

\* Only options that were accepted are used, the sleep is that of this attempt,
\* and the clock shows no more than the attempts before it, and its own sleep,
\* may have taken.
IInv ==
  /\ TypeOK
  /\ phase \notin {"new", "over"} => Accepts(options)
  /\ phase \in {"new", "online"} => attempt = 0
  /\ phase = "dialing" /\ attempt = 0 => elapsed = 0
  /\ attempt = 0 => phase # "sleeping"
  /\ phase \in {"new", "online"} => elapsed = 0
  /\ phase \in {"sleeping", "dialing"} /\ attempt > 0 => delay \in Delays(options, attempt)
  /\ phase = "sleeping" => elapsed <= (attempt - 1) * Attempt(options)
  /\ phase = "dialing" /\ attempt > 0 => elapsed <= (attempt - 1) * Attempt(options) + Cap
  /\ WithinAttempts

LEMMA OptionsType ==
  ASSUME NEW o \in OptionSets
  PROVE  /\ o.connect_timeout \in Nat /\ o.max_reconnect_delay \in Nat
         /\ o.reconnect_delay \in Nat /\ o.max_reconnect_attempts \in Nat
         /\ Attempt(o) \in Nat
BY ReconnectAssumption DEF Options, Attempt

LEMMA RetriesType ==
  ASSUME NEW o \in OptionSets, Accepts(o)
  PROVE  o.max_reconnect_attempts \in 0..MostRetries /\ MostRetries \in Nat
BY ReconnectAssumption DEF Accepts

LEMMA Product ==
  ASSUME NEW n \in Nat, NEW a \in Nat
  PROVE  n * a \in Nat /\ (n + 1) * a = n * a + a
BY SMTT(30)

LEMMA MoreAttempts ==
  ASSUME NEW n \in Nat, NEW m \in Nat, NEW a \in Nat, n <= m
  PROVE  n * a <= m * a
BY SMTT(30)

\* One attempt more: what NextAttempt() needs of the clock.
LEMMA NextAttemptInv ==
  ASSUME TypeOK, Accepts(options), UNCHANGED options, NextAttempt, elapsed' \in Nat,
         elapsed' <= attempt * Attempt(options), attempt = 0 => elapsed' = 0
  PROVE  IInv'
<1>1. options \in OptionSets /\ attempt \in Nat
  BY DEF TypeOK
<1>2. options.max_reconnect_attempts \in 0..MostRetries
  BY DEF Accepts
<1>3. attempt * Attempt(options) \in Nat
      /\ (attempt + 1) * Attempt(options) = attempt * Attempt(options) + Attempt(options)
  BY <1>1, OptionsType, Product
<1>4. CASE phase' = "over"
  <2>1. attempt' = attempt /\ attempt' >= options.max_reconnect_attempts
        /\ delay' = delay
    BY <1>4 DEF NextAttempt
  <2>2. WithinAttempts'
    BY <1>1, <1>3, <2>1, OptionsType DEF WithinAttempts, Attempt
  <2> QED BY <1>4, <2>1, <2>2 DEF IInv, TypeOK, Phases
<1>5. CASE phase' = "sleeping"
  <2>1. attempt' = attempt + 1 /\ attempt < options.max_reconnect_attempts
        /\ delay' \in Delays(options, attempt + 1)
    BY <1>5 DEF NextAttempt
  <2>2. attempt + 1 \in 1..MostRetries
    BY <1>1, <1>2, <2>1, ReconnectAssumption
  <2>3. delay' \in Nat
    BY <1>1, <2>1, <2>2, DelayBounds
  <2>4. elapsed' <= (attempt' - 1) * Attempt(options)
    BY <1>1, <2>1, (attempt + 1) - 1 = attempt
  <2>5. WithinAttempts'
    BY <1>1, <1>3, <2>1, OptionsType DEF WithinAttempts, Attempt
  <2>6. TypeOK'
    BY <1>1, <1>2, <1>5, <2>1, <2>3 DEF TypeOK, Phases
  <2>7. Attempt(options)' = Attempt(options) /\ Delays(options, attempt)' = Delays(options, attempt')
    BY DEF Attempt, Delays, DelaysFrom, Base, Jitters, Factor, AtMost
  <2> QED BY <1>1, <1>5, <2>1, <2>4, <2>5, <2>6, <2>7 DEF IInv, Accepts
<1> QED BY <1>4, <1>5 DEF NextAttempt

LEMMA Invariant == Spec => []IInv
<1>1. Init => IInv
  BY OptionsType DEF Init, IInv, TypeOK, Phases, WithinAttempts
<1>2. ASSUME IInv, [Next]_vars
      PROVE  IInv'
  <2>1. /\ options \in OptionSets /\ attempt \in Nat /\ elapsed \in Nat /\ delay \in Nat
        /\ attempt # 0 => attempt <= options.max_reconnect_attempts
        /\ phase \notin {"new", "over"} => options.max_reconnect_attempts \in 0..MostRetries
    BY <1>2 DEF IInv, TypeOK, Accepts
  <2>2. /\ options.connect_timeout \in Nat /\ Cap \in Nat /\ Attempt(options) \in Nat
        /\ Attempt(options) = Cap + options.connect_timeout
    BY <2>1, OptionsType DEF Attempt, Cap
  <2>3. attempt > 0 => /\ (attempt - 1) * Attempt(options) \in Nat
                       /\ attempt * Attempt(options)
                            = (attempt - 1) * Attempt(options) + Attempt(options)
    <3>1. CASE attempt > 0
      <4>1. attempt - 1 \in Nat /\ (attempt - 1) + 1 = attempt
        BY <2>1, <3>1
      <4> QED BY <2>2, <4>1, Product
    <3> QED BY <3>1
  <2>4. ASSUME UNCHANGED options
        PROVE  /\ Attempt(options)' = Attempt(options) /\ Cap' = Cap
               /\ Accepts(options)' = Accepts(options)
    BY <2>4 DEF Attempt, Cap, Accepts
  <2>5. ASSUME UNCHANGED <<options, attempt>>
        PROVE  Delays(options, attempt)' = Delays(options, attempt)
    BY <2>5 DEF Delays, DelaysFrom, Base, Jitters, Factor, AtMost
  <2>6. CASE Rejected
    BY <1>2, <2>1, <2>2, <2>6 DEF Rejected, IInv, TypeOK, Phases, WithinAttempts, Attempt
  <2>7. CASE Connect
    BY <1>2, <2>1, <2>2, <2>4, <2>7 DEF Connect, IInv, TypeOK, Phases, WithinAttempts
  <2>8. CASE DialOk
    <3>1. UNCHANGED options /\ phase = "dialing" /\ phase' = "online" /\ attempt' = 0
          /\ delay' = 0 /\ elapsed' = 0
      BY <2>8 DEF DialOk
    <3> QED BY <1>2, <2>1, <2>2, <2>4, <3>1 DEF IInv, TypeOK, Phases, WithinAttempts
  <2>9. CASE DialRejected
    <3>1. PICK d \in 0..options.connect_timeout : elapsed' = elapsed + d
      BY <2>9 DEF DialRejected
    <3>2. UNCHANGED <<options, attempt, delay>> /\ phase = "dialing" /\ phase' = "over"
      BY <2>9 DEF DialRejected
    <3>3. WithinAttempts'
      BY <1>2, <2>1, <2>2, <2>3, <2>4, <3>1, <3>2 DEF IInv, WithinAttempts
    <3> QED BY <1>2, <2>1, <2>2, <3>1, <3>2, <3>3 DEF IInv, TypeOK, Phases
  <2>10. CASE SessionLost
    <3>1. TypeOK /\ Accepts(options) /\ UNCHANGED options /\ NextAttempt
          /\ attempt = 0 /\ elapsed' = 0
      BY <1>2, <2>10 DEF SessionLost, IInv
    <3>2. elapsed' <= attempt * Attempt(options)
      BY <2>2, <3>1, Product
    <3> QED BY <3>1, <3>2, NextAttemptInv
  <2>11. CASE DialFails
    <3>1. PICK d \in 0..options.connect_timeout : elapsed' = elapsed + d
      BY <2>11 DEF DialFails
    <3>2. TypeOK /\ Accepts(options) /\ UNCHANGED options /\ NextAttempt
          /\ attempt > 0 /\ elapsed <= (attempt - 1) * Attempt(options) + Cap
      BY <1>2, <2>11 DEF DialFails, IInv
    <3>3. elapsed' \in Nat /\ elapsed' <= attempt * Attempt(options)
      BY <2>1, <2>2, <2>3, <3>1, <3>2
    <3> QED BY <2>1, <3>2, <3>3, NextAttemptInv
  <2>12. CASE SleepOver
    <3>1. UNCHANGED <<options, attempt, delay>> /\ phase = "sleeping" /\ phase' = "dialing"
          /\ elapsed' = elapsed + delay
      BY <2>12 DEF SleepOver
    <3>2. attempt > 0 /\ delay \in Delays(options, attempt)
          /\ elapsed <= (attempt - 1) * Attempt(options) /\ Accepts(options)
      BY <1>2, <2>1, <3>1 DEF IInv
    <3>3. delay <= Cap
      <4>1. attempt \in 1..MostRetries
        BY <2>1, <3>1, <3>2, RetriesType
      <4> QED BY <2>1, <3>2, <4>1, DelayBounds DEF Cap
    <3>4. elapsed' \in Nat /\ elapsed' <= (attempt - 1) * Attempt(options) + Cap
      BY <2>1, <2>2, <2>3, <3>1, <3>2, <3>3
    <3>5. WithinAttempts'
      BY <2>1, <2>2, <2>3, <2>4, <3>1, <3>2, <3>4 DEF WithinAttempts
    <3> QED BY <1>2, <2>1, <2>2, <2>4, <2>5, <3>1, <3>2, <3>4, <3>5 DEF IInv, TypeOK, Phases
  <2>13. CASE UNCHANGED vars
    BY <1>2, <2>4, <2>5, <2>13 DEF vars, IInv, TypeOK, WithinAttempts
  <2> QED BY <1>2, <2>6, <2>7, <2>8, <2>9, <2>10, <2>11, <2>12, <2>13 DEF Next
<1> QED BY <1>1, <1>2, PTL DEF Spec

-----------------------------------------------------------------------------
(* The theorems *)

(***************************************************************************)
(* The retry counter of supervise() never passes max_reconnect_attempts,   *)
(* and the clock never leaves the numbers, for any options.                *)
(***************************************************************************)
THEOREM TypeCorrect == Spec => []TypeOK
<1>1. IInv => TypeOK
  BY DEF IInv
<1> QED BY <1>1, Invariant, PTL

(***************************************************************************)
(* supervise() makes at most max_reconnect_attempts attempts for an outage *)
(* and is through with them, one way or the other, within that many times  *)
(* the longest sleep and dial, whatever the durations.                     *)
(***************************************************************************)
THEOREM OutageIsBounded == Spec => []OutageBounded
<1>1. ASSUME IInv
      PROVE  OutageBounded
  <2>1. /\ options \in OptionSets /\ attempt \in Nat /\ elapsed \in Nat
        /\ attempt # 0 => attempt <= options.max_reconnect_attempts
    BY <1>1 DEF IInv, TypeOK
  <2>2. /\ options.max_reconnect_attempts \in Nat /\ options.connect_timeout \in Nat
        /\ Attempt(options) \in Nat
    BY <2>1, OptionsType
  <2>3. attempt <= options.max_reconnect_attempts
    BY <2>1, <2>2
  <2>4. CASE attempt = 0
    <3>1. elapsed <= options.connect_timeout
      BY <1>1, <2>2, <2>4 DEF IInv, WithinAttempts
    <3> QED BY <2>3, <2>4, <3>1 DEF OutageBounded
  <2>5. CASE attempt # 0
    <3>1. elapsed <= attempt * Attempt(options)
      BY <1>1, <2>5 DEF IInv, WithinAttempts
    <3>2. /\ attempt * Attempt(options) \in Nat
          /\ options.max_reconnect_attempts * Attempt(options) \in Nat
      BY <2>1, <2>2, Product
    <3>3. attempt * Attempt(options) <= options.max_reconnect_attempts * Attempt(options)
      BY <2>1, <2>2, <2>3, MoreAttempts
    <3> QED BY <2>1, <2>3, <2>5, <3>1, <3>2, <3>3 DEF OutageBounded
  <2> QED BY <2>4, <2>5
<1> QED BY <1>1, Invariant, PTL

(***************************************************************************)
(* reconnect_delay() keeps the README's promise, and is never zero, for    *)
(* every duration and every attempt that Options::validate() accepts.      *)
(***************************************************************************)
THEOREM DelayIsDocumented == Spec => []DelayAsDocumented
<1>1. ASSUME IInv, phase = "sleeping"
      PROVE  DelayAsDocumented
  <2>1. /\ options \in OptionSets /\ Accepts(options) /\ attempt \in 1..MostRetries
        /\ delay \in Delays(options, attempt)
    <3>1. /\ options \in OptionSets /\ Accepts(options) /\ attempt \in Nat /\ attempt # 0
          /\ attempt <= options.max_reconnect_attempts /\ delay \in Delays(options, attempt)
      BY <1>1 DEF IInv, TypeOK
    <3> QED BY <3>1, RetriesType
  <2> DEFINE rd == options.reconnect_delay
             cap == options.max_reconnect_delay
             doubled == rd * Power2[attempt - 1]
             base == Base(options, attempt)
  <2>2. rd \in Nat /\ cap \in Nat /\ rd > 0 /\ cap > 0
    BY <2>1, OptionsType DEF Accepts
  <2>3. /\ delay \in Nat /\ base \in Nat /\ delay <= cap /\ base <= delay
        /\ 4 * delay <= 5 * base
    BY <2>1, DelayBounds
  <2>4. /\ Factor(attempt) \in Nat \ {0} /\ Power2[attempt - 1] \in Nat
        /\ Factor(attempt) <= Power2[attempt - 1]
        /\ Factor(attempt) = Power2[attempt - 1] \/ Factor(attempt) = MaxFactor
    BY <2>1, PowerType
  <2>5. /\ rd * Factor(attempt) \in Nat \ {0} /\ doubled \in Nat
        /\ rd * Factor(attempt) <= doubled
    BY <2>2, <2>4, SMTT(30)
  <2>6. base = AtMost(rd * Factor(attempt), cap)
    BY DEF Base
  <2>7. delay > 0
    BY <2>2, <2>3, <2>5, <2>6 DEF AtMost
  <2>8. delay <= doubled + doubled \div 4
    <3>1. 4 * delay <= 5 * doubled
      BY <2>2, <2>3, <2>5, <2>6 DEF AtMost
    <3> QED BY <2>3, <2>5, <3>1, SMTT(30)
  <2>9. ASSUME Doubles(options)
        PROVE  delay >= AtMost(doubled, cap)
    <3>1. CASE Factor(attempt) = Power2[attempt - 1]
      BY <2>2, <2>3, <2>5, <2>6, <3>1 DEF AtMost
    <3>2. CASE Factor(attempt) = MaxFactor
      <4>1. rd * Factor(attempt) >= cap
        BY <2>9, <3>2 DEF Doubles
      <4> QED BY <2>2, <2>3, <2>5, <2>6, <4>1 DEF AtMost
    <3> QED BY <2>4, <3>1, <3>2
  <2> QED BY <2>3, <2>7, <2>8, <2>9 DEF DelayAsDocumented
<1>2. IInv => DelayAsDocumented
  BY <1>1 DEF DelayAsDocumented
<1> QED BY <1>2, Invariant, PTL

(***************************************************************************)
(* No sleep is shorter than the one before it in the same outage, whatever *)
(* the two jitters: the jitter is at most a quarter, the base doubles.     *)
(***************************************************************************)
THEOREM BackoffIsMonotonic == Spec => BackoffGrows
<1> DEFINE Grows == phase' = "sleeping" /\ attempt' > 1 /\ Doubles(options) => delay' >= delay
<1>1. ASSUME IInv, DialFails, phase' = "sleeping"
      PROVE  Grows
  <2>1. /\ attempt > 0 /\ phase = "dialing" /\ attempt < options.max_reconnect_attempts
        /\ attempt' = attempt + 1 /\ delay' \in Delays(options, attempt + 1)
    BY <1>1 DEF DialFails, NextAttempt
  <2>2. /\ options \in OptionSets /\ Accepts(options) /\ attempt \in Nat
        /\ delay \in Delays(options, attempt)
    BY <1>1, <2>1 DEF IInv, TypeOK
  <2>3. attempt \in 1..MostRetries /\ attempt + 1 \in 1..MostRetries
    BY <2>1, <2>2, RetriesType
  <2>4. /\ delay \in Nat /\ Base(options, attempt) \in Nat
        /\ delay <= options.max_reconnect_delay /\ 4 * delay <= 5 * Base(options, attempt)
        /\ delay' \in Nat /\ Base(options, attempt + 1) <= delay'
        /\ Base(options, attempt + 1) \in Nat
    BY <2>1, <2>2, <2>3, DelayBounds
  <2>5. Doubles(options) =>
          Base(options, attempt + 1) >= AtMost(2 * Base(options, attempt),
                                               options.max_reconnect_delay)
    BY <2>2, <2>3, BaseDoubles
  <2>6. options.max_reconnect_delay \in Nat
    BY <2>2, OptionsType
  <2> QED BY <2>4, <2>5, <2>6 DEF AtMost
<1>2. ASSUME IInv, [Next]_vars
      PROVE  [Grows]_vars
  <2>1. CASE DialFails
    BY <1>1, <1>2, <2>1
  <2>2. CASE SessionLost
    <3>1. attempt = 0
      BY <1>2, <2>2 DEF SessionLost, IInv
    <3>2. phase' = "sleeping" => attempt' = 1
      BY <2>2, <3>1 DEF SessionLost, NextAttempt
    <3> QED BY <3>2
  <2> QED BY <1>2, <2>1, <2>2 DEF Next, Rejected, Connect, DialOk, DialRejected, SleepOver
<1>3. IInv /\ [Next]_vars => [Grows]_vars
  BY <1>2
<1> QED BY <1>3, Invariant, PTL DEF Spec, BackoffGrows
===============================================================================
