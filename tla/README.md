# Verification of WuKongEasySDK-Rust

TLA+ models of the SDK: its connection lifecycle, send path, sessions, handshake,
backoff, codec and events, checked with TLC and, where it matters most, proved with
TLAPS. Line numbers refer to `src/client.rs` unless a file is named.

## The system

A `Client` is a cloneable handle. Its clones share `Inner`; one worker task owns
every socket. They interact through

* the `running` mutex (46-47), which holds the current run (49-55),
* the atomics `connected`, `generation`, `destroyed`,
* two watch channels per run, `status` and `first_result`,
* a bounded command queue per run (157) and one reply channel per command,
* the admission semaphore `slots` (45),
* a cancellation token per run and the join handle of its task,
* the broadcast channel of events.

| Component | State | Operations | Hard because | Correct means |
| --- | --- | --- | --- | --- |
| connection lifecycle (89-202, 273-377) | `running`, `connected`, `generation`, `destroyed`, watch channels, attempt counter | `connect`, `disconnect`, `destroy`, drop, `run`, `supervise` | calls overlap, their futures are dropped at any await, cancellation is seen late, a runtime may be shut down | one worker at a time; flag exact; teardown complete and final; events well-formed; calls return |
| send path (217-271, 343-346, 438-495) | `slots`, queue, `pending`, reply channels, deadlines | `send`, drains, expiry, responses | four parties race for one command: the caller's timeout or drop, the queue, the session, its loss | permits conserved; nothing replayed or carried over to another session; nobody left waiting |
| session I/O (438-525) | heartbeat deadlines, `pending`, socket | ping, pong, pushes, RECVACK, answers | a write blocks the reader while deadlines run; ready branches race | a dead peer is noticed, a live one kept; each message shown and acknowledged once, in order; events and callers agree |
| handshake (379-415) | socket | CONNECT and its answer | timeouts within a timeout, a peer that says anything | ends in time; authenticated only by its answer; terminal only if the peer said so |
| reconnect backoff (528-537, 320-377) | attempt counter | delay of an attempt | saturation, jitter, extreme options | as documented, not decreasing, an outage bounded |
| protocol codec (`src/protocol.rs`) | none | encode, decode | two spellings, foreign input, u64 | Success is said; spelling irrelevant; payload untouched; ids survive |
| configuration, TLS (99-134, 540-556, `src/types.rs`) | constant | validate, build | - | limits respected |
| event stream (137-139, 294-296) | Tokio broadcast | emit, subscribe | bounded, slow subscribers, flag and event are two steps | a subscriber is not left with a wrong belief |
| `examples/chat.rs` | its loop | connect, send, events, leave | loses events, leaves while the client reconnects | leaves nothing behind |
| other examples, acceptance harness, tests | - | use the library | - | not part of it |

## Modules

| Module | What it is |
| --- | --- |
| `Connection` | abstract: one worker at a time, a fresh generation per session, the flag raised and lowered inside the worker's life |
| `Lifecycle` | the callers' connect/disconnect/destroy/drop and the worker's run/supervise; implements `Connection` |
| `SendPath` | send() against the semaphore, queue, session loop and teardown; its worker implements `Connection` too |
| `Delivery` | abstract: what a session promises for pushed messages |
| `Session` | session() on a clock, one authenticated socket and its peer; implements `Delivery` |
| `Handshake` | establish() on a clock; reads frames with `Protocol` |
| `Reconnect` | options, reconnect_delay() and the loop of sleeps and dials, on a clock |
| `Protocol` | protocol.rs and the wire types as operators on JSON values |
| `Codec` | a server edits a frame, or reports a send(); the client decodes it |
| `EventStream` | the bounded event channel and a subscriber, on top of `Lifecycle` |
| `Chat` | `EventStream` with `examples/chat.rs` as its only caller and subscriber |
| `MC...` | model-checking instances: constants, symmetry |
| `...Proofs` | theorems about the module of that name (`ProtocolProofs`: lemmas for `CodecProofs` and `HandshakeProofs`; `ChatProofs`: about `EventStream` and `Chat`) |

`Connection` is where `Lifecycle` and `SendPath` meet: it is what the lifecycle
guarantees to senders, and all that `SendPath` uses of it is a worker that follows
it. `Session` and `SendPath` model the same loop from two sides: `SendPath` has its
threads, permits and generations and no clock, `Session` the clock and every frame
and one thread. `Lifecycle` abstracts `establish` and `session` to their errors,
which `Handshake` and `Session` produce (`DialErrors`, `SessionErrors`).

### Lifecycle

A caller's `pc` names the await or the locked section it is in; the mutex is held
exactly at the values in `Holding`, so it has no variable of its own. `run[r]`
holds what belongs to the r-th spawned worker: where it is (`phase`, one value
between any two accesses to shared state), its token, `attempt`, `established` and
`outcome` (locals of `supervise`), `first` and `status` (its watch channels).

* `ConnectCall/Locked/Starts/Spawn/NoRuntime/Join/Watch/First/Status/Orphaned`: 147-202.
  The watch channels keep only the latest value, so `ConnectStatus` may miss a
  `Ready` that is over.
* `DisconnectCall/Locked/Joined`, `DestroyCall`, `CallDropped`, `LastHandleDropped`:
  275-290 and 89-96. A dropped future releases the mutex with the run still in it.
* `CancelRun`: the token is either seen by the next poll ("set"), or the worker is
  inside a poll that has already looked at it ("racing") and may go on until its
  next pending await.
* `FirstPoll ... Finish`: 297-377 in program order, one action per shared access; the
  branch of a cancellation has two, `CancelObserved` (301) and `ReportManual` (302).
* `RuntimeStop`: the task is dropped at an await, with no cleanup, because its
  runtime is shut down. Only with `RuntimeStops = TRUE`.

Errors are reduced to the kinds the code tells apart: `Server` and `Protocol`
(terminal when dialing), `Server` (terminal in a session), `Timeout` (reported as
a heartbeat timeout), the rest (transport). `Disconnected` occurs when the command
sender is gone (473). Application events and `Event::Error` other than
`ReconnectExhausted` are left out here; `EventStream` has them.

### SendPath

A call is an element of `Sends` and is made once. `pc` runs `start`, `load`
(230), `acquire` (231), `lock` (248), `enqueue` (inside the mutex), `wait` (267) and
ends in how the call returned: `refused` (certainly not sent), `unknown` (Timeout
or Disconnected), `answered`, `dropped`. `expired` says that its deadline is over;
deadlines are independent of each other in the model, which allows more than the
code does. `sent[s]` lists the generations under which the request was written.

A permit has no variable of its own: it is with the call, its command, its
pending entry, or in `releasing`, which is the short time between `reply.send` and
the end of the scope that drops the permit. `Release` is a step of its own because
other threads can see the difference; the worker does nothing else before it.

After a loss the worker is `asleep` (327) and then `redialing`; `DialFails` leads back
to sleep and `DialGivesUp` stands for every way in which the run ends there. How many
attempts there are is counted in `Lifecycle` and `Reconnect` only, as are watch channels
and events. `cancel = "racing"` until `CancelLands` is the poll in
progress, as in `Lifecycle`. `wire` is what the peer of the session has and may
answer, in any order, late or never. A second answer to the same request is ignored
by the code (491) and is `OtherTraffic`.

### Session

`phase` is `top` (442-454), `select` (461-483), `writing` (inside `write` or
`flush`, with what is written and until when in `writing`) or `ended`. Branches of
`select!` are the actions `PongMissing`/`SendPing`/`OnlyExpiry` (the timer),
`OnCommand` and one action per kind of frame; any that is enabled may be taken,
because `select!` without `biased` picks at random. `Ends` stands for the return of
the function together with what 341-346 do at once: `pending` is dropped, the queue
drained. Pings are numbered in place of their uuids.

`Tick` is enabled only while the worker waits: in `select` with nothing ready, or in
a write that the transport does not take. So the worker is assumed to be scheduled
without delay; what is shown about time is up to the scheduling delay of the real
program. The peer may answer each of the last two pings once or more, well or with an
error, answer any request it has, push, stall writes, or die. A dead peer's transport may
still take a write at once, or never. `pongAt` and `stalled` are history for the
properties. Commands that arrive with a deadline are `CallSend` (the queue's
bound is `SendPath`'s); a generation other than the session's does not occur here.

### Handshake

`dialing` is everything up to the WebSocket upgrade; then CONNECT is `writing`, and
frames are read until one is neither ping nor pong. `Texts` are JSON values;
`Authenticated` is 398-403 on them. `armed` is the stack of the deadlines that stand
around the await the worker is in: that of 380, which goes when `establish()` returns
(`Returns`), and that of a write or flush (`Writes`, `Written`). `Tick` stops only at a
deadline in `armed`: an await that no timeout encloses would let the clock run on. The
timeout of 380 is polled after its body, so at the deadline either may win.

### Reconnect

A duration is a number of units, `UnitsPerMilli` of which are a millisecond, because
the jitter is drawn in whole milliseconds of a base that need not be. `Delays` is the
set over all jitters. `elapsed` is the time since a session was lost. `Candidates` has
every limit of `Options::validate` on both sides.

### Protocol, Codec

A JSON value is a tagged record. Strings are plain, or the Base64 or the JSON text of
a value, since the code tells these apart and nothing else. `Struct` and `Scalar` are
what serde does with the types of `types.rs`, and external: required and defaulted
fields, integer ranges, unknown members ignored, arrays taken by position. `Codec`
lets a server change `MaxEdits` members of a correct body to values of every type, and
then write it as an array. Instead it may report a call of `send` (`Report`), in the
SENDACK or in the push to the receiver, in one of 12 styles: camelCase, snake_case or
both, ids as text or numbers, the payload as text or as JSON. Integer widths are kept as
`MaxU8`, `MaxU32`, `MaxI64`.

### EventStream and Chat

Each step of `Lifecycle` that sets `lastEvent` also broadcasts it (`Follows`). The
`Event::Error` that `supervise()` emits after a Disconnect (358) or a dial that failed
(364) is `owed` until `EmitError`, and the worker does nothing before; what sessions emit
besides is `EmitOther`. `belief` is what a subscriber concludes from the
events it reads. `Chat` restricts the callers to one task that runs `chat.rs`: its
`chat` variable names the await of `run()` it is in; while it is in `sending`, it reads
no events.

## Runs

| Run | Instance | Shows |
| --- | --- | --- |
| `lifecycle_safety` | 2 callers, 2 workers, 3 sessions, 2 reconnects | `OneWorker`, `ConnectedIffSession`, `ReadyIsRecent`, `DisconnectAwaitsCleanup`, `DestroyIsFinal`, `EventOrder`, refinement of `Connection` |
| `lifecycle_liveness` | 2 callers, 1 worker, 2 sessions, 1 reconnect, runtime shutdown | `DisconnectReturns`, `FirstConnectReturns`, `DropEndsWorker` |
| `lifecycle_retry` | violated | a retry can join the attempt that failed |
| `lifecycle_orphan` | violated | the flag stays up after its runtime is gone |
| `send_safety` | 2 sends, 1 permit, 2 sessions | permits, fence, outcomes, no orphan, refinement of `Connection` |
| `send_liveness` | 1 send, 1 permit, 3 sessions | the send returns, its permit comes back; it fails at once when its session or worker ends, and when the connection is down as soon as sleeps and dials are over |
| `send_queued_down` | violated | a command can be queued while disconnected |
| `session` | every kind of frame, 3 of them, 1 send, interval 2, pong 1, write 1, clock to 7 | a dead peer is noticed in time, a live one kept; SendAck events and callers agree; refinement of `Delivery` |
| `handshake` | 3 frames, timeout 4, write 2, clock to 6 | one timeout around all; who authenticates; what is terminal |
| `reconnect` | 1080 sets of options, 5 retries, factor up to 7 | delays as documented; no more attempts, and no longer an outage, than the options say |
| `codec_frames` | 4 frames, 2 edits, 12 values; 576 calls of send() | Success is said (by objects), spelling is irrelevant, data untouched, acks name pushes, received as sent |
| `chat` | 3 sessions, 2 retries, 2 events retained, 3 others | beliefs are right, losses learnt, lost events end it, nothing left behind |

Bounds. Two callers are enough for every overlap of two calls, a third would wait
for the same mutex; two workers give one that is going and its successor; three
sessions and two reconnects give a loss, a retry that fails, one that succeeds and
a second loss, so that a missing reset of the counter shows. One permit and two
sends make every race for a permit possible (three sends for two permits were
explored as well and show nothing else); two sessions are needed for a command of
the first to meet the second. `send_liveness` has three: a command that is queued after
the drain of the first sleeps and dials with the worker, meets the second, which may be
lost before it is taken, and then the third. One permit lets one call at a time past
`acquire`, so a second call would only come before or after it; the mutex and the
cancellation of `disconnect()` and `connect()` are there besides.

`session` runs through a full heartbeat (interval, ping, deadline, write) after a peer has
died at 0, 1 or 2; its three frames are enough for a pong, one of an earlier ping and a
push to block a write, or for two pushes and what comes between. The one send has its
deadline within the clock, an answer and a second one. Shorter clocks make a property about a
deadline true for lack of time, so they are beyond the longest sum of timeouts
(`handshake`: 6 > 4). In `reconnect` the factor saturates at 7 before the last retry,
the cap lies above, below and between the doubled delays, and bases are not
whole milliseconds. In `codec_frames` two edits give every pair of wrong members, with
both spellings of one. A channel that keeps two events loses some in every order with
one event of the session beside those of the connection.

Deadlock checking is off because the systems really stop: all calls made, the handle
dropped, the worker gone, the session ended, the frame decoded; and because the bounds
stop them.

Each property is paired with a variant of one operation, defined just before it and
marked `A bug:`, that breaks it; it shows that the property speaks of the code.

## Fairness

`Lifecycle!Fairness`: a worker that can go on is polled (Tokio schedules woken
tasks); dials end because of `connect_timeout`, sleeps because delays are finite;
sessions need not end. Callers that are not dropped are polled; the mutex is
FIFO, hence strong fairness for taking it. `SendPath!Fairness`: the same, and
strong fairness for taking a command, because `select!` without `biased` picks among
ready branches at random. Nothing is assumed of the peer, nor that any time passes. That is in
the properties where it is needed. `DelaysEnd`: sleeps, dials and writes end
(`reconnect_delay`, `connect_timeout`, `write_timeout`), and so do the attempts of one
outage (`max_reconnect_attempts`; the dialing succeeds or gives up in the end). The second
part of `DisconnectedSendsFail` has it as hypothesis, since a command queued after the
drain waits through them; the first part, of sends whose session or worker is
going, has none. `TimePasses`, that the deadlines of calls pass as well, is
the hypothesis of `SendsReturn` and `PermitsReturn`.

`ChatFairness`: the worker as in `Lifecycle`; the task is polled and `send()` returns
(`SendsReturn`); strong fairness for reading an event, because its `select!` is random
too; the user need never type or quit.

`Session`, `Handshake` and `Reconnect` state their bounds in time as invariants on the
clock, which needs no fairness.

## Proofs

Every safety property of a passing run is also a theorem. The theorems hold for every
value of the constants under the module's named assumption, which says only that bounds
and timeouts are naturals (and positive where `validate()` demands it), and in `Codec`
that the calls of `send` have the types of its arguments (`Sendable`: a `u8` kind, flags
that are given, optional strings, `u64` numbers from the server); channels and payloads
are any JSON. Where a theorem has a further hypothesis it is said below.

`LifecycleProofs`:

* `TypeCorrect`: `Spec => []TypeOK`, one case per action.
* `OneWorkerAlways`: `OneWorker` alone is not inductive: a spawn relies on the check
  of `is_finished()` made a step earlier. `WorkerInv` adds that at most one caller is
  in `Holding`, that while one is about to spawn the run in the mutex is finished
  (`SpawnIsSafe`; it stays so since nobody else may write `running` and a finished
  worker does not move), and that no call is in progress once the last handle is
  gone.
* `DestroyIsFinalAlways`, assuming `~RuntimeStops`: a teardown that is about to return
  leaves the client closed (`TeardownCloses`), because it alone holds the mutex, so no
  `connect()` is past its check, and the worker it joined was the only one; and no step
  opens a closed client again (`ClosedStays`), because whoever takes the mutex later
  sees `destroyed`.
* `ConnectedAlways`, `DisconnectAwaitsCleanupAlways`, `LifecycleImplementsConnection`,
  assuming `~RuntimeStops`: since only one worker is alive, the flag and the
  refinement mapping depend on that worker's phase alone. `WorkerEffect` sums up each
  worker action as a row of a table (phase before, phase after, what happens to
  the flag and the generation), and the three results follow row by row. Without
  the assumption they are false, see `lifecycle_orphan`.
* `ReadyIsAlwaysRecent`, assuming `~RuntimeStops`, which would leave `status` as it is:
  `WorkerMoves` is a second table, of what a
  worker's step does to its phase, its `status` channel and the last event; the phases
  at which `status` may be `Ready` are closed under it, because a session that is lost
  sets it back to `Connecting` before the worker sleeps. `Blank` says that a run not yet
  spawned is as `Init` left it, which a spawn relies on.
* `EventsAreInOrder`, assuming `~RuntimeStops`: `EventOrder` compares each event with
  the one before, and a new worker follows one it knows nothing of. `EventInv` says
  what the last event says of the one worker that is alive (`HeardAs`), and that if the
  last event is not its own then it ends a run. A runtime that is shut down
  leaves a run without its last event, and then the next worker's first event is out
  of order.

`SendPathProofs` proves every invariant of `send_safety` and its refinement.
`Inv` has four parts: `Types`; `Places`, a command is in one of queue, `pending` and
`releasing`, and then its call is past enqueueing; `Outcomes`, what was written
against the call's stage and reply; `Worker`, what the worker's phase implies for
`pending`, the flag and the generation. Permits are counted step by step: `Permitted`
says that a step keeps the holders and the count, takes one permit for one new holder
or returns one for one that goes; `Conserved` turns that into `PermitsConserved` by
the cardinality theorems. `CallMoves`, `WorkerOnly` and `Frees` are the three shapes
a step can have: a call moves, the worker moves alone, commands leave the queue or
`pending`. `QueueAlwaysHasRoom` follows from conservation: whoever is about to
enqueue holds a permit and so does everything queued.

`SessionProofs`: `DeadPeer` strengthens `DeadPeerNoticed` by where the worker is (an
outstanding ping bounds its deadline, a write its end, no ping the next one);
`LivePeer` relates `pongAt`, the frames in the inbox and the outstanding ping;
`Calls` and `Arrivals` carry the types; `DInv` says that `acked` is `shown`, or `shown`
without its last while a RECVACK is written, which makes each step one of `Delivery`.
`AckInv` is behind `SendAcksAgree`: the worker knows a call at most once, in the queue
or in `pending` (`Distinct`), a call it knows has been told nothing but a timeout, and one
whose SendAck is out is no longer known. That the event is never later than the deadline
is `Punctual`: `select!` is entered with nothing pending expired (442-454), and the clock
stops there at the first deadline. So a caller is told Timeout and a SendAck is
emitted for the same call only at the deadline itself.

`ChatProofs`: `ChatIsLifecycle` makes every theorem about `Lifecycle` one about `Chat`.
`NothingIsLeft` needs that the handle is not dropped and that `disconnect()` has emptied
`running` when the task is over (`LeaveInv`); `OneWorker` then leaves no worker.
`BeliefIsRight` needs `StreamInv`, for every capacity: the last event in the ring that
tells of the connection agrees with `Up`, that the last event of the worker is a Connect;
and so does a belief, when all such events have been read. `SettledUp` says that `Up` is
the flag, once no step between the two is left to take. Both assume `~RuntimeStops`, as
the flag is wrong otherwise.

`HandshakeProofs`: the clock never passes `connect_timeout` because its deadline is the
outermost in `armed` until `establish()` has returned (`Guarded`): each write adds one
timeout and takes one away, and nothing else touches them. The frames read are pings
and pongs until the last. An accepted CONNECT and an
accepted SENDACK rest on the same lemma of `ProtocolProofs`, `TakenSaysSuccess`: an object
that passes `response()` and `decode()` has a reason code of 1. The point is that `Reason`
reads the raw object and `decode` the renamed one (`RenameReason`, `CanonicalReason`),
and that no step in between touches it.

`CodecProofs` goes on from what `normalize` does to one key. `Twin` pairs the two
spellings; a renamed object has at `k` what the original has at `k` or else at its twin
(`RenameIs`, `RenameGet`), ids become text (`TextIdGet`) and nothing else is
touched (`NormalizeOther`). `DecodeMember` says what a decoded member is, for objects
and arrays alike. `SpellingIsIrrelevant` then is that renaming undoes any way of
spelling an object (`SpelledRename`), `DataIsUntouched` and `AcksNameTheirPush` follow one
member through. `SentIsReceived` chains `send`, `Report` and `decode`: `CallInv` says that
the body is what the server makes of the call it reports, `PushedNormalized`,
`PushedRead`, `AckedRead` and `FlagsKept` compute what the client makes of it.

`ReconnectProofs`: bounds on `Delays` by arithmetic; monotonicity because the jitter is
at most a quarter while the base doubles (`Doubles`), or both are at the cap. An outage is
bounded because the counter is compared before it is increased (`WithinAttempts`) and each
attempt adds one sleep and one dial at most to what the attempts before it took.

The type invariants of `Session`, `Handshake` and `Reconnect` are proved and in no run;
`Session`'s says that every waiting call is queued or pending, and none when it has ended.

Model-checked only: liveness (`DisconnectReturns`, `FirstConnectReturns`,
`DropEndsWorker`, `SendsReturn`, `PermitsReturn`, `DisconnectedSendsFail`, `LossIsLearnt`,
`LostEventsEndChat`), since it rests on fairness and the prover does not reason about
ENABLED; and the runs that expect a violation.

## Findings

1. `lifecycle_retry`: `connect()` may answer an explicit retry with the error of the
   attempt before, because the error is published (310, 312) before the task is
   finished (152).
2. `lifecycle_orphan`: a runtime shutdown leaves `connected` true for good; `connect()`
   and `disconnect()` do not repair it (the former only by a session of its own).
3. `send_queued_down`: check (249) and enqueue (254) are not atomic with the
   worker's clear and drain (341-346). The command is never sent (`NeverReplayed`)
   and fails at the next session or the end of the run (`DisconnectedSendsFail`), but
   its caller and its permit wait through the backoff.

Seen in the code while modelling it, without a run of their own:

* Line 444 frees the permit of a dropped send at once, while its request is on the
  wire, against the comment at line 68.
* The answer (494) is visible before its permit is free: the next send of the same
  caller may be told Backpressure although nothing is under way.
* A SENDACK whose result is a JSON array is accepted without a look at its reason
  code (`src/protocol.rs` 96-99); the same holds of the answer to CONNECT. No document
  of the repository speaks of arrays. `ObjectAcceptedIfSuccess` and
  `AuthenticatedByAnswer` say what holds: they exempt arrays by name.
* A heartbeat deadline can pass while a write blocks the reader; the pong that is
  waiting to be read is not looked at. `LivePeerKept` is what holds: with writes that
  take no time a live peer is never dropped.
* An error answer to a ping (488) is as terminal as a disconnect, though README 123
  names only authentication rejection and server disconnect.

## Not modelled

* TLS construction, root certificates, URL and credential checks (99-118, 540-556):
  stateless, about strings and library calls.
* The text of JSON, Base64 and uuids: libraries. Ids are assumed to be fresh.
* `Lifecycle`, `SendPath` and `Session` are not composed in one module; they meet in
  `Connection` and in the sets of errors. A composition would show that each
  assumes of the others only what they do, on a state space that TLC cannot finish.
* Runtime shutdown in `SendPath` and `Session`; it is in `Lifecycle`.
* The acceptance probes among the examples, the Python harness and the tests: they
  drive real servers, and were read as documentation of what is intended.
