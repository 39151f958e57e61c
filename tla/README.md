# Verification of siphon-smpp

TLA+ models of siphon-smpp, its concurrent parts and its conversions, the TLC configurations that
check them, and TLAPS proofs. siphon-smpp is an add-on to the siphon server: it
speaks SMPP 3.4 (through the `smpp34` crate) to ESMEs that bind to it and to the
SMSCs it binds to, and hands every event to a Python script, which answers and
sends messages of its own.

Line numbers below refer to the files of `src/src/` in the repository, `docs/` and `examples/` to
those of `src/`.

## The system

| Part | State | Operations | What is hard |
|---|---|---|---|
| Rate limiter (`runtime.rs` 139-217) | `tokens`, `last` | `acquire`, `try_acquire` | lazy refill, fractions, tasks that sleep and compete again |
| Registries (`runtime.rs` 56-130, 733-771, 981-1020) | `State.binds`, `State.esmes`: a `Vec` of sessions behind a lock each | bound and unbound hooks, lookups | sessions come and go under tasks that hold a handle; successive sessions share a bind name |
| Send helpers (`sends.rs`) | none of their own | `submit_via`, `submit_multi_via`, `data_via`, `cancel_via`, `query_via`, `replace_via`, `deliver_to`, `data_to`, `alert_to` | an await between every two steps |
| Failure inference (`outcome.rs`) | none | `settle`, `classify` | one error code for four different failures |
| Bind supervisor (`runtime.rs` 298-440) | backoff, `connect_failed` flag, client | one task per configured bind | polling, deadlines, stale flags, a peer that flaps |
| Inbound listeners (`runtime.rs` 460-1115) | the registries, metrics | one hook per command | throttling, early exits, sessions ending mid-way |
| Dispatch (`dispatch.rs`) | queue of executor jobs, pending coroutines | `pdu`, `alert`, `bind`, `session` | three schedulers (tokio, Python workers, asyncio), two timeouts, hot reload |
| Configuration (`config.rs`) | none after start-up | `from_yaml`, `from_file`, `binds_from_env`, `expand_env_vars` | defaults in three places, what does not deserialize, narrowing, two sources of binds |
| Script classes (`pyclasses.rs`) | values | `Pdu.from_*`, `body`, `receipt`, `reply`, `reply_query` | a body in one of two places, a receipt in one of two forms, a text format nobody specified |
| TLVs (`tlv.rs`) | values | `tlvs_from_py`, `tlvs_to_py` | a width per tag, two names for one parameter |
| Start-up (`install.rs`, `lib.rs`, `runtime.rs` 221-296) | none | run once | none |
| Gateway script (`examples/gateway.py`) | keys in a cache | session tracking, receipt correlation, MO routing | every await lets other handlers in; receipts overtake, ESMEs rebind, handlers time out |

How they interact. The supervisor starts a client; `smpp34` calls the bind
listener, which registers the session with a fresh limiter and dispatches a
session event. A PDU from a peer is a task that passes the limiter (inbound
messages only), looks its session up, has the script's handler run by Dispatch
and answers. A handler calls a send helper, which looks a session up, passes that
bind's limiter, writes and awaits the response; a failure is explained from the
clock and the registry. The registries, the limiters and the metrics are all the
state that is shared.

## Modules

### `TokenBucket`, `RateLimiter`, `RateLimiterProofs`

`TokenBucket` is the promise: an allowance that fills continuously, grants only
whole tokens, and refuses only when there is no whole token. `RateLimiter` is the
code: a stored, stale level that is refilled when somebody asks. `acquire` is split
at its only await into `AcquireFree`, `AcquireSleep`, `AcquirePaced`,
`AcquireAgain` (whether there is a token, and whether it is the first turn of the
loop); `try_acquire` is `TryAcquire`. The critical section has no await and is one
step. Tokens are counted in units of 1/`TicksPerSec` so that refills are exact;
the rounding of `f64` is left out. `winTicks`/`winGrants` measure an arbitrary window.

### `Sends`

A send helper's life: `Lookup`/`LookupFails` (`bind_handle`, `esme_handle`),
`Pace`, `Settle` (the clock is read before the send is polled), `Write`, the answer
or failure, `SettleOk`/`SettleErr`, and `Classify` (after waiting for the registry's
lock). `Bound` and `Unbound` are the listener hooks. `ResponseTimer` fails the request and
calls the listener's `on_timeout`, which is a step of its own (`OnTimeout`): it waits for the
registry's lock and looks its session up by id, when the session may be gone and a successor
registered. What the codec does is modelled from how the code relies on
it: the response timer cannot fire early, the unbound hook runs before the session's
outstanding requests are failed (`outcome.rs` states this), and a write on a dying session
may fail or seem to succeed. `cause` and `taken` are history: what really happened
to the request, and whether the peer took the message. With `NameOf` constant the
registry is that of a bind, with `NameOf` injective that of the ESMEs; the runs have the
former, where names do not tell sessions apart, and the proofs are for both. The
`can_receive` branch of `deliver_to` cannot be taken, since only transceivers are accepted, and
is left out; so is `alert_to`, which looks its session up and writes, awaits no answer and changes
nothing that is modelled here.

### `BindSupervisor`

`run_bind_loop` with one action per stretch between awaits, and the client's callbacks
and the peer beside it. Time is in ticks, several to a poll, so that things happen
between polls. The supervisor is assumed to be scheduled in time (a tick cannot pass
while it has a step to take); that is what lets `FailureSeenPromptly` and `AttemptBounded`
be stated in time. Dropping the client aborts its tasks, and an aborted task ends at its next
await: a session that came up at the last moment is gone, but an `on_connection_failed` that has begun
runs to its end (`straggler`) and raises the flag although its attempt is over. Like the
supervisor's steps it takes less than a tick; the sleep of the backoff, at least `Base` ticks,
is what keeps it out of the next attempt. `streak` is history: the attempts in a row that were no
healthy session, counted up to `Streaks`.

### `Dispatch`

A tokio task per event (`Submit`, `Settle`, `BackstopFires`), its jobs on `Workers`
Python workers (`JobStarts` ... `JobEnds`), and its coroutines on the asyncio loop
(`CoroStarts` ... `CoroDropped`), which may stall. `Converted` is what the four entry points make of
what a handler returned or raised. A session event keeps the handlers it found in its
first job (`remaining`); other events run the first match. `Matching` takes the handlers of an event
out of the registry with `Filter`, a module of its own because `Config` filters lists too.

### `Inbound`

A task per PDU: `FindLimiter`, `TakeToken`/`Wait`/`Turned` (`admit_inbound`),
`NameSession` (`esme_session`), `Answer` (dispatch has returned; the rest of the hook has
no await). `Answer` has a step for each exit: `Replied` (a handler accepts, refuses, or says
`ESME_RTHROTTLED` itself, as `gateway.py` 235 does), `Unhandled`, `HandlerRaised` and `Alerted`. PDUs
on an outbound bind skip the first three. `StatusOf` is the status of a handler's reply and
`FailStatus` that of a PDU without one; the metrics are counted where the code counts them. The limiter is `TokenBucket` in whole tokens, which is what
`ImplementsEagerBucket` justifies; dispatch is reduced to what it returns, which `EveryDispatchReturns`
justifies. The lock between two steps is always free; the variable is there because
`OthersNotStalled` is about what would happen if it were not.

### `Tlv`, `Receipt`, `Messages`, `Answers`, `Config`, `Conversions`

The conversions, as operators; `Conversions` calls them one at a time and keeps the call
and its result, so that each property follows a value from one end to the other.

- `Tlv`: `tlvs_from_py` (`TagFromPy`, `ValueToBytes`, `Raises`, `PushItem`) and `tlvs_to_py`. The
  loop over the dict stops at the first item that raises and has no other effect, so it is written
  as a condition on the items and not as a loop. The tables are constants; the run has one parameter
  of each width and one that is no integer. An octet has `OctetBase` values; with 16 a four-octet
  maximum is within TLC's integers.
- `Receipt`: `Receipt::parse` on bodies of tokens (a key, a word, a blank), `Pdu.receipt`, and
  the body and TLVs the gateway rebuilds. Letter case is left out. The loop over `KEYS` is a
  recursive function (`Found`), `sort_by_key` puts each hit at its rank (`Sorted`), and the merge of
  text and parameters is `FillIn`. `Octets` is the length of a body on the wire; `Relayed` raises
  where `deliver_to` does, for a rebuilt body that is `TooLong`. `ReferenceParse` says field by field
  what the parser is to find.
- `Messages`: what the eight helpers check and hand to the codec (`Refuses`, `Build`), the
  `Pdu` made of each command (`PduOf`), `Pdu.body`, and the gateway's relay. Fields are
  uninterpreted; of bodies and TLVs only the length matters.
- `Answers`: `Pdu.reply` and `reply_query`, the response the listener makes of them, and the
  `SmppResp` or `QueryResp` the sender gets. The status table is cut down to the codes somebody
  treats differently and two that nobody does.
- `Config`: `from_file` on the keys of the YAML document and on the environment. A document that
  lacks a key without default, or has a value that is not of its type, does not deserialize
  (`Deserializes`) and fails the load. What the script is shown is `ConfigDict`; what is started
  is `Spawn`, and for each bind `Client`. Names and texts are uninterpreted, but an
  `SMPP_BIND_` variable is split at its underscores as the code splits it.

### `Gateway`

The gateway example's handlers as tasks that give way at every await. `esmeSession` and
`dlr` are the two keys of the cache that a handler reads; a handler's progress is a variable
of its own. `Submit`, `SubmitRaises`, `SubmitReturns`, `StoreCorrelation` and `Accept` are `on_submit`
between its awaits (the effect of `cache.set` and the reply are two steps, and a receipt may be
routed between them); `LookUp`, `Deliver` and `Clear` are `_route_dlr`; `SetSession` and
`DeleteSession` are the session handlers, which nothing orders between a session and its
successor; `LookUpOwner` is `_route_mo_reply`. `SubmitCancelled` and `ReceiptCancelled` are
what the time-out of Dispatch does to a handler: it ends at the await it is in, and the cache call
it was waiting for may or may not have happened. The upstream decides when it likes, also
after `submit_via` has given up, and may take a message without giving it an id (`gateway.py` 245).
`wiped` is history: the sessions whose entry in the map another session's `on_unbound` deleted.

`MC_*` modules instantiate these for TLC.

## Runs

| Run | Instance | Properties |
|---|---|---|
| `limiter` | 2 callers of `acquire` and one of `try_acquire`, 2 msg/s, 3 ticks/s, 3 requests each, windows of up to 4 ticks | `TypeOK`, `RateCap`, `SleepSuffices`, `SleepIsTight`, `EagerBucket`, `PacedCallerServed` |
| `sends` | a paced and a direct send, two sessions of one name, fair | `TypeOK`, `SafeRetry`, `FailureExplained`, `OnlyTimedOutUnbound`, `NeverBackToOlder`, `EveryCallReturns`, `TimeoutEndsSession` |
| `supervisor` | one supervisor and its peer, fair | `TypeOK`, `FailureIsThisAttempts`, `FailureSeenPromptly`, `AttemptBounded`, `ResetEarned`, `BackoffGrows`, `BindComesBack` |
| `dispatch` | a session event and a bind, one worker, a reload, a loop that stalls, fair | `TypeOK`, `SessionRunsOneScript`, `BindClosedByDefault`, `NothingLeftRunning`, `BackstopMeansStuck`, `EveryDispatchReturns` |
| `inbound` | two messages racing for one token, an operation and an alert on other sessions, fair | `TypeOK`, `MetricsMatchWire`, `TurnedAwayUnseen`, `OthersNotStalled` |
| `conversions` | 22,500 calls: values on both sides of every limit; all receipts of up to three pieces out of thirteen, and two whose rebuilt body has 254 and 255 octets; every helper with bodies of 0, 1, 254 and 255 octets in either place; files, some of which do not deserialize, crossed with environments | `TlvsArrive`, `ParseMatchesReference`, `ReceiptSurvivesRelay`, `MessageArrives`, `AnswerArrives`, `RunsAsDeclared` |
| `gateway` | two sessions of an ESME; three messages of theirs: two over two binds whose upstreams use the same id, and one without a route; two receipts; a mobile-originated message for the ESME | `ReceiptToItsSubmitter`, `CorrelationCleared`, `LostReceiptExplained`, `LostMoExplained` |
| `sends_closed` | as `sends` | `ClosedMeansNoAnswer`, violated |
| `supervisor_drops` | as `supervisor` | `EveryDropCounted`, violated |
| `dispatch_order` | as `dispatch` | `EachFinishesFirst`, violated |
| `receipt_text` | as `conversions` | `TextRunsToTheEnd`, violated |
| `gateway_map` | the two sessions of `gateway` alone | `BoundIsInMap`, violated |

What they show. The limiter keeps its rate over every window, sleeps exactly long
enough, and serves every caller of a finite load. After `nack`, `unanswered` or
`KeyError` the message has not been taken by the peer, so that a script may send it
again, whatever sessions did meanwhile. Sends move from a session to its successor and not
back, and a timeout takes down the session it happened on and no other. A bind comes back with
its peer; its backoff doubles with every attempt that was no healthy session, up to the cap, and is
reset by a healthy session only. A session event runs the handlers of one version
of the script; a bind is accepted only on a handler's word; every dispatch returns
although neither the loop nor a coroutine is assumed to make progress. Metrics agree
with what went out, a message the limiter turned away is seen by no handler, and a throttled
session stalls no other. TLVs, messages and answers say at the far end what they said at the near end,
and so do receipts that fit a `short_message`; no helper hands the codec a PDU it would panic on. A
load fails exactly if the file does not fit its schema or a bind of the environment is incomplete;
otherwise every bind, the inbound limit and the timers of a `server:` section run as they were
declared, and the script is shown what runs, with the exceptions listed below. The
gateway hands a receipt to nobody but the submitter of its message, and loses one only in the
ways named in `LostReceiptExplained`; a receipt that found its correlation removes it for good.

Five runs show where the code does less than a comment or a page of the docs says:

- `sends_closed`: a refusal (a `generic_nack` with `ESME_RSYSERR`, a response of the
  wrong type) is reported as `closed` if the session leaves the registry before
  `classify` looks (`outcome.rs` 282 against 61).
- `supervisor_drops`: a session that was seen alive by the read that ends the wait
  (`runtime.rs` 393) and is lost before the second read (402), with no poll between the two, is
  taken for one that never came up and not counted as a reconnect (429 against `metrics.rs` 105).
  One that comes up and goes down within the second between two polls of the wait is left out alike.
- `dispatch_order`: when the backstop fires on a coroutine that is still unwinding, or
  on a stalled loop, the next session handler runs beside it (`dispatch.rs` 587 against
  561; 55 has the backstop fire only on a loop that does not turn).
- `receipt_text`: the text of a receipt ends at the first occurrence of any key that has not
  occurred before it (`pyclasses.rs` 657 against 580). The gateway's rebuilt receipt has all
  other keys first, which is what `ReceiptSurvivesRelay` rests on.
- `gateway_map`: two sessions of an ESME overlap, as when it reconnects, and the `on_unbound` of one
  deletes the entry of the other, which is still bound (`gateway.py` 83 against 67): messages for the
  ESME are dropped as "not bound" until it binds again. `LostMoExplained` shows that this is the only way.

Observations that no run is about. The models have the code's behaviour, and the
properties are stated so as to allow it:

- A file with no `server:` section gets timers of 0 (`config.rs` 61), not the defaults of
  `docs/configuration.md` 57-60.
- Nothing reads `server.tls`; the listener is started without TLS (`runtime.rs` 257), where
  `docs/configuration.md` 63 says that it speaks TLS.
- `docs/configuration.md` 100-107 declares a bind `aggregator-eu` as `SMPP_BIND_AGGREGATOR_EU_HOST`; the first
  underscore ends the name (`config.rs` 491), so this is a field `EU_HOST` of a bind `aggregator`, and
  no bind is discovered.
- A `bind_address` that is no address is what `smpp.bind_address()` shows the script; the listener is
  on 0.0.0.0 (`runtime.rs` 244, `docs/script-api.md` 273).
- A number from the environment that is too large keeps its low bits (`config.rs` 526, 527); a
  `MAX_MPS` that wraps to 0 turns pacing off.
- A bind of the environment with the name of one of the file gets a second supervisor.
- The example of `docs/configuration.md` 82, a bind with `tls: { ca_path: ... }`, does not deserialize:
  `cert_path` and `key_path` have no default (`config.rs` 297-301).
- The rebuilt receipt is sent in `short_message` whatever its length (`gateway.py` 283-303): one
  over 254 octets raises in `deliver_to` and is lost with a log line. `ReceiptSurvivesRelay` is about
  those that fit.
- `gateway.py` 187 says that a body passed twice would be rejected; that is so for `data_sm` only. A
  `submit_sm` or `deliver_sm` with a body in both places is sent, and `body` shows the payload.
- The gateway relays neither `service_type`, nor priority, schedule or validity.
- `PduReply(tlvs=...)` attaches TLVs that `reply(tlvs=...)` would refuse for the command; the
  response drops them.
- The gateway loses a receipt that overtakes the store of its correlation (`gateway.py` 253), every
  receipt for a message but the first (318), and receipts of a message that was given no id (245). One that
  overtook the store leaves behind an entry that nothing deletes.
- A receipt may reach the ESME before the `submit_sm_resp` that tells it the id, and, when
  `on_submit` times out while it stores the correlation, although it was told `ESME_RSYSERR`.

### Bounds

Two sessions are a session and its successor or rival; with two requests one can be
anywhere while the other settles. A `Timer` of one tick is enough for `settle`'s clock to be late
while the codec's is not. Three callers of the limiter are a sleeper, one
that competes with it and one that takes tokens without waiting. In `gateway` two messages with one
upstream id show whether keys are exact, two receipts for one message race for its correlation, and
two sessions of one ESME are what its map can confuse. The conversions have no state; their inputs
are the values on both sides of each comparison the code makes, and pairs where two inputs meet. `Timer`, `Deadline`, `Healthy`, `Timeout` and `Backstop`
keep the order of the real values and are long enough for something to happen between
any two polls; neither `Deadline` nor `MaxBackoff` is a multiple of what it is compared
with, so that a poll can overshoot one and doubling the other. Named bounds: `Quota`
(requests of a caller) and `Window` (measured ticks) in `RateLimiter`; `Streaks` in `BindSupervisor`, past the
attempt at which the cap is reached (`StreaksAssumption`); clocks elsewhere saturate
at the value from which on the code no longer tells them apart. `CHECK_DEADLOCK FALSE`
is set where a finite set of calls, events or PDUs is processed to the end.

### Fairness

`RateLimiter`: timers fire and a woken task is polled. `Sends`: the helper's task is
polled and its limiter grants a token (`PacedCallerServed`), the codec writes, its timer fires,
`on_timeout` gets the lock, a lost session gets its hook and release, an
unbind that was sent ends the session; the peer need do nothing. `BindSupervisor`: the
supervisor, its callbacks and time move; strong fairness of the bind completing, since each attempt is
given up at its deadline and a peer that is slower than that on every attempt cannot be
bound to. `Dispatch`: workers run jobs, a sync handler returns, tokio polls; strong
fairness of `Tick` (a loop that stalls and resumes for ever takes time) and of a queued job
getting a worker that is free again and again. `Inbound`: a task is polled and dispatch
returns, for the PDUs of the `Flowing` sessions, whose limiters are assumed to fill; of the others
nothing is assumed.

## Proofs

`RateLimiterProofs` proves, for every rate, clock resolution, quota, window and set of
callers (assumption `RateAssumption`: they are naturals, rate and resolution positive):

- `TypeCorrect`: `Spec => []TypeOK`. The level stays within 0..max.
- `RateCapHolds`: `Spec => []RateCap`. `RateCap` is not inductive: it says nothing of the
  tokens still in the bucket. `Conserved` adds them (what could be granted now plus
  what was granted is at most the burst plus the window's refill); each grant moves a
  token from one term to the other, each tick adds at most `Rate` to both sides. It is an upper bound;
  that no token is withheld is `ImplementsEagerBucket`.
- `SleepIsTightHolds`: `Spec => SleepIsTight`, an action property; with `SleepSufficesHolds` the
  sleep is exactly the smallest that does.
- `SleepSufficesHolds`: `Spec => []SleepSuffices`, inductive given `TypeOK`: a tick moves
  `Rate` units from the remaining sleep into the bucket, and only a grant, which sets
  `robbed`, takes any out.
- `ImplementsEagerBucket`: `Spec => EagerBucket`, the refinement of `TokenBucket` under
  `level <- Refilled`; `LevelAfter` says what each step does to `Refilled`.

`SendsProofs` proves, for any sessions, names, kinds of request and response timer
(`SendsAssumption`), `TypeCorrect`, `SafeRetryHolds`, `FailureExplainedHolds`,
`OnlyTimedOutUnboundHolds` and `NeverBackToOlderHolds`. None is inductive: each is about the end of a call and depends on
everything before it. `IInv` adds that the registry holds only sessions whose unbound hook
has yet to run (`RegistryLive`), that `settle`'s clock is never behind the codec's
(`Undecided`), and what a completed request's cause implies (`Completed`): a timer means that
`settle` will find itself late, a release that the session is out of the registry for good,
and a message the peer took was not refused. `Classify` then follows by cases. `OnlyTimedOutUnbound` needs that
the sessions an `on_timeout` is still waiting for had a timer run out too (`TimedOut`).
`NeverBackToOlder` needs `Ordered`: no session that is registered and older than one a send
went to has its name, because the lookup takes the oldest and positions are given out in order.

`BindSupervisorProofs` proves, for every poll interval, deadline, threshold and backoff range
(`SupervisorAssumption`), `TypeCorrect`, `FailureIsThisAttemptsHolds`,
`FailureSeenPromptlyHolds`, `AttemptBoundedHolds`, `ResetEarnedHolds` and
`BackoffGrowsHolds`. `FlagInv` says when a dropped client's callback can still be running: only
while the backoff's sleep lasts. `BackoffInv` relates the backoff to the streak, in and
between the sleeps; `Doublings` (by induction, from `DataProofs`) has what doubling does. The invariants bound what is true at a poll; `WaitInv` and
`HeldInv` restate them between polls by adding the rest of the nap, and `HeldInv` relates how long the
session was up to how long it was held.

`InboundProofs` proves, for any sessions, limits and finite set of PDUs (`InboundAssumption`),
`TypeCorrect`, `TurnedAwayAreUnseen` and `MetricsAreTrue`. `AnsweredLast` (a task has an answer only
at its end), `TurnedLast` (one that was turned away is at its end) and `LimitedAreInbound` make the
first two inductive. A counter is the cardinality of
the set of PDUs that ended that way; each step adds at most one PDU to each set, and the
cardinality theorems do the rest. `WaitsAtLimiter` is needed because a delay is
counted when the task leaves the limiter.

`GatewayProofs` proves, for any sessions, messages, binds and receipts, `ReceiptsReachSubmitters`,
`LostReceipts`, `LostMos` and `Cleared` (`GatewayAssumption`: an SMSC gives no id twice; this is what makes
keys exact). The inductive invariant: only messages with a route get anywhere (`Routed`), what is stored
was taken under an id (`Taken`), a receipt comes after its message (`AfterMessage`), and nothing is
answered twice (`AnsweredOnce`); an entry of the cache is about the message its key names, whose
`on_submit` has stored it and has not failed it (`Keyed`, `FoundStored`); the correlation of a message that was
stored, or accepted with an id, is there until a receipt for it has been through (`Kept`); the
system of a tracked session is in the map unless the session's entry was wiped (`Tracked`). `Cleared`
adds that what a receipt has found was stored before (`Found`), and nothing is stored twice.

`DispatchProofs` proves, for any scripts, handlers, events, reloads, number of workers, timeout and
backstop (`DispatchAssumption`), `TypeCorrect`, `SessionsRunOneScript`,
`BindsAreClosedByDefault`, `NoneIsLeftRunning` and `BackstopIsForTheStuck`. The inductive invariant
`IInv` ties the three actors of a dispatch together: where the tokio task is and what its
job holds (`StageInv`, `LookedInv`); the awaited coroutine has ended exactly if the oneshot is full,
and unless the backstop has fired it is the event's only one on the loop (`CoroInv`); what a session event has called
and has yet to call are together the handlers of one version of the script, which no reload
between its jobs can change (`SnapshotInv`); an event with one handler is over once the backstop has
fired (`OneHandlerInv`); and the task's clock is ahead of the coroutine's own timeout by at most
the ticks the coroutine was stuck (`ClockInv`), so a backstop that fires has seen it stuck for
the whole margin.

`ConversionsProofs` proves the six properties of the conversions for every input, not only the
ones around the limits that TLC tries. `Conversions` states what an input is: `DictsAssumption`,
`ReceiptsAssumption`, `MessagesAssumption`, `AnswersAssumption`, `InputsAssumption` (a helper is called
with arguments it has, a variable's name splits into words, an id the gateway gives out is a word
and no key, and the like; TLC evaluates them on the run's inputs).

- `TlvsReachPeer`: `Spec => []TlvsArrive`, for every table of tags and widths and every octet size.
  The core is that an integer that fits comes back from its big-endian octets: after k octets the
  decoder holds the number divided by the power of the octets to come.
- `AnswersArrive`: `Spec => []AnswerArrives`.
- `MessagesArrive`: `Spec => []MessageArrives`.
- `DeclaredIsRun`: `Spec => []RunsAsDeclared`, for every file and environment, those that fail the load
  included. What is not so (the first five of the observations above) is no part of
  `RunsAsDeclared`. The environment's binds are the names that have a HOST, each
  once: what `Filter` returns.
- `ReceiptsParse`: `Spec => []ParseMatchesReference`, for a body of any tokens. No key begins inside
  another (`NeedlesApart`, `KeysApart`), so the test for a claimed place never drops a field, and after
  n turns of the loop the hits are the first n keys that occur (`FoundTurn`, `FoundAll`). Places differ,
  so ranks do, and sorting keeps the hits (`SortedSorts`); the hit after a field's is then the nearest
  later first occurrence (`NextHit`), where the reference ends the value (`ParseParts`).
- `ReceiptsSurviveRelay`: `Spec => []ReceiptSurvivesRelay`, for every measure `Octets` of bodies and every
  receipt whose values other than the text hold no key and whose rebuilt body fits a `short_message`. A field starts with a key and ends in a blank, so no key lies across the
  border of two pieces and the occurrences of the whole are those of the pieces (`CutOccurrences`). Hence a
  field followed by another key is read back (`ValueIs`); the text, after all other
  keys, whatever it holds (`LastValueIs`); `RebuiltReads` goes through the rebuilt body field by field.
  What `Pdu.receipt` returns is trimmed already (`ReadParts`), so trimming it again is harmless.

`DataProofs` has what these two and `BindSupervisorProofs` need about data. The provers cannot instantiate the library's
induction schemes, whose parameter is an operator, so a property is given as the set of numbers that
have it: `LeastNatural` and `BoundedInduction` are then first-order and follow from the well-foundedness of the
naturals. `RecursionExists` says that a loop over a list has a result; from it follow the
unfoldings of the recursive functions (`FilterUnfolds`, `Powers`, `NumberUnfolds`). The rest are facts about
division and lists.

Every invariant and every action property of the passing runs is proved. Only model-checked: the
liveness properties (`PacedCallerServed`, `EveryCallReturns`, `TimeoutEndsSession`, `BindComesBack`,
`EveryDispatchReturns`, `OthersNotStalled`), since fairness and `ENABLED` are out of the prover's reach.

## Not modelled

Of the configuration: `${VAR}` expansion (`expand_env_vars`), a rule's options and the wording of
errors. Of the script classes: reprs and the one-line TLV getters. Of start-up: the registration
of the namespace, a second `spawn`, and `on_listen_failed`, which logs or exits. Of the gateway:
`on_bind`'s credentials, the routing table behind `_pick_bind` (a constant), `on_alert` and
`on_cancel`, which share nothing; `echo.py` has no state. Of the metrics: their registration and the
sampled gauges. Python's stub for testing scripts (no concurrency), the harness, benches and
deployment files. `smpp34` and siphon's executor and cache are external and appear as the
actions the code relies on. `PROJECT.json` lists the hazards that no property covers, with
the reason.

## Plan

1. Done: the limiter and its specification, send helpers, supervisor, dispatch, inbound.
2. Done: proofs of the safety properties of the limiter, of `Sends` and of `BindSupervisor`.
3. Done: `Gateway` with its proofs; the conversions against reference definitions.
4. Done: proofs of `Inbound`.
5. Done: proofs of `Dispatch` and of the conversions.
