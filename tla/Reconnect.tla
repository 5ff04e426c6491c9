------------------------------ MODULE Reconnect ------------------------------
(***************************************************************************)
(* The time a lost connection takes to come back or to be given up: the    *)
(* options that Client::new() accepts, reconnect_delay(), and supervise()'s*)
(* loop over backoff sleeps and dials, on a clock that counts from the     *)
(* loss of the session.                                                    *)
(*                                                                         *)
(* A Duration is a natural number of units (nanoseconds in the code), so   *)
(* that sub-millisecond parts, which the jitter does not see, are kept.    *)
(***************************************************************************)
EXTENDS Integers

CONSTANTS
  OptionSets,      \* bound: the Options that applications try
  Power2,          \* the powers of two, as far as there are retries
  MaxFactor,       \* u32::MAX, where saturating_pow() stops
  UnitsPerMilli,   \* units in a millisecond
  OneDay,          \* the longest duration validate() accepts
  MostRetries,     \* the most retries it accepts
  Counts, Sizes    \* the queue counts and message sizes it accepts

Options ==
  [connect_timeout : Nat, request_timeout : Nat, write_timeout : Nat,
   ping_interval : Nat, pong_timeout : Nat, reconnect_delay : Nat,
   max_reconnect_delay : Nat, max_reconnect_attempts : Nat,
   max_in_flight : Nat, event_capacity : Nat, max_message_size : Nat]

ASSUME ReconnectAssumption ==
  /\ OptionSets \subseteq Options
  /\ MostRetries \in Nat
  /\ Power2 \in [0..MostRetries -> Nat \ {0}]
  /\ Power2[0] = 1
  /\ \A n \in 1..MostRetries : Power2[n] = 2 * Power2[n - 1]
  /\ MaxFactor \in Nat \ {0}
  /\ UnitsPerMilli \in Nat \ {0}
  /\ OneDay \in Nat
  /\ Counts \subseteq Nat /\ Sizes \subseteq Nat

VARIABLES
  options,  \* what the application configures
  phase,    \* of supervise(); "new" before Client::new(), "over" at the end
  attempt,  \* its retry counter
  delay,    \* of the latest Reconnecting event
  elapsed   \* since the session was lost

vars == <<options, phase, attempt, delay, elapsed>>

AtMost(a, b) == IF a <= b THEN a ELSE b

-----------------------------------------------------------------------------
(* Options::validate() *)

\* A bug: only the upper limit of the durations is checked.
AcceptsZero(o) ==
  /\ \A d \in {o.connect_timeout, o.request_timeout, o.write_timeout, o.ping_interval,
               o.pong_timeout, o.reconnect_delay, o.max_reconnect_delay} :
       d \in 0..OneDay
  /\ o.reconnect_delay <= o.max_reconnect_delay
  /\ o.max_reconnect_attempts \in 0..MostRetries
  /\ o.max_in_flight \in Counts /\ o.event_capacity \in Counts
  /\ o.max_message_size \in Sizes

Accepts(o) ==
  /\ \A d \in {o.connect_timeout, o.request_timeout, o.write_timeout, o.ping_interval,
               o.pong_timeout, o.reconnect_delay, o.max_reconnect_delay} :
       d \in 1..OneDay
  /\ o.reconnect_delay <= o.max_reconnect_delay
  /\ o.max_reconnect_attempts \in 0..MostRetries
  /\ o.max_in_flight \in Counts /\ o.event_capacity \in Counts
  /\ o.max_message_size \in Sizes

-----------------------------------------------------------------------------
(* reconnect_delay(): the base doubles with saturation up to the cap, and a *)
(* random number of whole milliseconds is added, again up to the cap.      *)

\* A bug: wrapping_pow() in place of saturating_pow().
FactorWraps(n) == Power2[n - 1] % (MaxFactor + 1)

Factor(n) == AtMost(Power2[n - 1], MaxFactor)

Base(o, n) == AtMost(o.reconnect_delay * Factor(n), o.max_reconnect_delay)

Jitters(base) == 0..((base \div UnitsPerMilli) \div 4)

DelaysFrom(base, cap) ==
  {AtMost(base + j * UnitsPerMilli, cap) : j \in Jitters(base)}

Delays(o, n) == DelaysFrom(Base(o, n), o.max_reconnect_delay)

-----------------------------------------------------------------------------
(* Client::new(), connect() and supervise() *)

Init ==
  /\ options \in OptionSets
  /\ phase = "new"
  /\ attempt = 0
  /\ delay = 0
  /\ elapsed = 0

Rejected ==
  /\ phase = "new"
  /\ ~Accepts(options)
  /\ phase' = "over"
  /\ UNCHANGED <<options, attempt, delay, elapsed>>

Connect ==
  /\ phase = "new"
  /\ Accepts(options)
  /\ phase' = "dialing"
  /\ UNCHANGED <<options, attempt, delay, elapsed>>

DialOk ==
  /\ phase = "dialing"
  /\ phase' = "online"
  /\ attempt' = 0
  /\ delay' = 0
  /\ elapsed' = 0
  /\ UNCHANGED options

\* A first dial that fails, or a rejection, ends the run.
DialRejected ==
  /\ phase = "dialing"
  /\ phase' = "over"
  /\ \E d \in 0..options.connect_timeout : elapsed' = elapsed + d
  /\ UNCHANGED <<options, attempt, delay>>

\* A bug: the limit is compared as if the counter were ahead of the attempt.
NextAttemptOnceMore ==
  \/ /\ attempt > options.max_reconnect_attempts
     /\ phase' = "over"
     /\ UNCHANGED <<attempt, delay>>
  \/ /\ attempt <= options.max_reconnect_attempts
     /\ phase' = "sleeping"
     /\ attempt' = attempt + 1
     /\ delay' \in Delays(options, attempt + 1)

\* The end of the loop's body: no attempt is left, or one more is counted and
\* the sleep before it begins.
NextAttempt ==
  \/ /\ attempt >= options.max_reconnect_attempts
     /\ phase' = "over"
     /\ UNCHANGED <<attempt, delay>>
  \/ /\ attempt < options.max_reconnect_attempts
     /\ phase' = "sleeping"
     /\ attempt' = attempt + 1
     /\ delay' \in Delays(options, attempt + 1)

SessionLost ==
  /\ phase = "online"
  /\ NextAttempt
  /\ UNCHANGED <<options, elapsed>>

\* Only after a session: attempt is 0 in the first dial of a run.
DialFails ==
  /\ phase = "dialing"
  /\ attempt > 0
  /\ \E d \in 0..options.connect_timeout : elapsed' = elapsed + d
  /\ NextAttempt
  /\ UNCHANGED options

SleepOver ==
  /\ phase = "sleeping"
  /\ phase' = "dialing"
  /\ elapsed' = elapsed + delay
  /\ UNCHANGED <<options, attempt, delay>>

Next ==
  \/ Rejected \/ Connect \/ DialOk \/ DialRejected
  \/ SessionLost \/ DialFails \/ SleepOver

Spec == Init /\ [][Next]_vars

-----------------------------------------------------------------------------
(* Properties *)

Phases == {"new", "dialing", "online", "sleeping", "over"}

TypeOK ==
  /\ options \in OptionSets
  /\ phase \in Phases
  /\ attempt \in Nat
  /\ attempt # 0 => attempt <= options.max_reconnect_attempts
  /\ delay \in Nat
  /\ elapsed \in Nat

\* The factor does not saturate before the delay has reached its cap.
Doubles(o) == o.reconnect_delay * MaxFactor >= o.max_reconnect_delay

(***************************************************************************)
(* The delays the README promises: reconnect_delay, doubled for every      *)
(* further attempt, "plus up to 25% jitter, capped"; and whatever the      *)
(* options that were accepted, a retry is never immediate.                 *)
(***************************************************************************)
DelayAsDocumented ==
  LET doubled == options.reconnect_delay * Power2[attempt - 1]
      cap == options.max_reconnect_delay
  IN phase = "sleeping" =>
       /\ delay > 0
       /\ delay <= cap
       /\ delay <= doubled + doubled \div 4
       /\ Doubles(options) => delay >= AtMost(doubled, cap)

(***************************************************************************)
(* Backoff never goes back: within one outage each sleep is at least as    *)
(* long as the one before, although each has a jitter of its own, if the   *)
(* factor does not saturate before the delay reaches its cap (Doubles).  A *)
(* jitter larger than the doubling would break it, as would a factor that  *)
(* wraps.                                                                  *)
(***************************************************************************)
BackoffGrows ==
  [][phase' = "sleeping" /\ attempt' > 1 /\ Doubles(options) => delay' >= delay]_vars

(***************************************************************************)
(* An outage is over, one way or the other, within max_reconnect_attempts  *)
(* times the longest sleep and the longest dial, because supervise() makes *)
(* no more attempts than that and each starts from what the one before     *)
(* took; and the first dial of a run takes no longer than its timeout.     *)
(***************************************************************************)
Attempt(o) == o.max_reconnect_delay + o.connect_timeout

OutageBounded ==
  /\ attempt <= options.max_reconnect_attempts
  /\ elapsed <= IF attempt = 0 THEN options.connect_timeout
                ELSE options.max_reconnect_attempts * Attempt(options)
===============================================================================
