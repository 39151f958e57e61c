---------------------------- MODULE RateLimiter ----------------------------
(***************************************************************************)
(* The token bucket behind every `max_msg_per_sec` (runtime.rs): one per    *)
(* outbound bind, whose senders call `acquire`, and one per inbound ESME    *)
(* session, whose PDU handlers call `acquire` or `try_acquire` depending on *)
(* `server.throttle_action`.                                                *)
(*                                                                          *)
(* Time is a clock of TicksPerSec ticks a second, and tokens are counted in *)
(* units of 1/TicksPerSec of a token: a tick then refills exactly Rate      *)
(* units, a token costs TicksPerSec units and the bucket holds Rate tokens, *)
(* with no rounding.  (The code's f64 arithmetic is exact to far below a    *)
(* nanosecond's worth of tokens; its rounding is not modelled.)  The code   *)
(* stores `last`, the instant of the last refill; only now - last matters,  *)
(* so the model keeps that as `elapsed`, saturating at one second because   *)
(* by then the bucket is full whatever it held.                             *)
(***************************************************************************)
EXTENDS Integers

CONSTANTS
  Pacers,       \* tasks that call acquire
  Gaters,       \* tasks that call try_acquire
  Rate,         \* max_msg_per_sec
  TicksPerSec,  \* resolution of the clock
  Quota,        \* bound: how many times each task asks
  Window        \* bound: ticks for which a measuring window stays open

ASSUME RateAssumption ==
  /\ Rate \in Nat \ {0}
  /\ TicksPerSec \in Nat \ {0}
  /\ Quota \in Nat
  /\ Window \in Nat
  /\ Pacers \cap Gaters = {}

Callers == Pacers \cup Gaters

VARIABLES
  tokens,    \* Bucket.tokens, as of the last refill
  elapsed,   \* ticks since Bucket.last, saturating at TicksPerSec
  pc,        \* "idle", or "asleep" inside acquire's loop
  sleep,     \* ticks left of the task's tokio::time::sleep
  quota,     \* requests the task has yet to make
  verdict,   \* what the task's last call returned
  robbed,    \* history: somebody took a token while this task slept
  winTicks,  \* history: ticks since the measuring window was opened
  winGrants  \* history: tokens handed out since then

bucket == <<tokens, elapsed>>
window == <<winTicks, winGrants>>
vars == <<tokens, elapsed, pc, sleep, quota, verdict, robbed, winTicks, winGrants>>

\* RateLimiter::new: capacity is one second's worth of tokens.
Max == Rate * TicksPerSec

\* One token, in units.
Token == TicksPerSec

\* Mutant: the burst is not limited to one second's worth.
Refilled_NoMin == tokens + elapsed * Rate

\* The refill both calls begin with:
\* tokens = (tokens + elapsed * refill_per_sec).min(max).
Refilled ==
  IF tokens + elapsed * Rate <= Max THEN tokens + elapsed * Rate ELSE Max

\* Mutants: the wait rounded down, and a wait for a whole token rather than
\* for what is missing of one.
SleepFor_RoundDown(have) == (Token - have) \div Rate
SleepFor_WholeToken(have) == (Token + Rate - 1) \div Rate

\* deficit / refill_per_sec, in whole ticks.  tokio never wakes a sleeper
\* early, so a fraction of a tick is a tick.
SleepFor(have) == (Token - have + Rate - 1) \div Rate

Init ==
  /\ tokens = Max
  /\ elapsed = 0
  /\ pc = [c \in Callers |-> "idle"]
  /\ sleep = [c \in Callers |-> 0]
  /\ quota = [c \in Callers |-> Quota]
  /\ verdict = [c \in Callers |-> "none"]
  /\ robbed = [c \in Callers |-> FALSE]
  /\ winTicks = 0
  /\ winGrants = 0

(***************************************************************************)
(* The critical section of both calls runs under `inner`'s lock without an  *)
(* await, so it is one step: refill, stamp `last`, take a token if there    *)
(* is one.                                                                  *)
(***************************************************************************)
Take_KeepsLast(c, result) ==  \* mutant: `last` not stamped
  /\ Refilled >= Token
  /\ tokens' = Refilled - Token
  /\ verdict' = [verdict EXCEPT ![c] = result]
  /\ robbed' = [d \in Callers |-> d # c /\ (robbed[d] \/ pc[d] = "asleep")]
  /\ winGrants' = winGrants + 1
  /\ UNCHANGED <<elapsed, winTicks>>

Take(c, result) ==
  /\ Refilled >= Token
  /\ tokens' = Refilled - Token
  /\ elapsed' = 0
  /\ verdict' = [verdict EXCEPT ![c] = result]
  /\ robbed' = [d \in Callers |-> d # c /\ (robbed[d] \/ pc[d] = "asleep")]
  /\ winGrants' = winGrants + 1
  /\ UNCHANGED winTicks

Miss_NoCredit ==  \* mutant: `last` stamped, the refill not stored
  /\ Refilled < Token
  /\ elapsed' = 0
  /\ UNCHANGED <<tokens, winTicks, winGrants>>

Miss ==
  /\ Refilled < Token
  /\ tokens' = Refilled
  /\ elapsed' = 0
  /\ UNCHANGED window

\* acquire, first turn of the loop, with a token free: returns false.
AcquireFree(c) ==
  /\ pc[c] = "idle" /\ quota[c] > 0
  /\ Take(c, "free")
  /\ quota' = [quota EXCEPT ![c] = @ - 1]
  /\ UNCHANGED <<pc, sleep>>

\* acquire, first turn of the loop, bucket empty: sleep off the deficit.
AcquireSleep(c) ==
  /\ pc[c] = "idle" /\ quota[c] > 0
  /\ Miss
  /\ quota' = [quota EXCEPT ![c] = @ - 1]
  /\ pc' = [pc EXCEPT ![c] = "asleep"]
  /\ sleep' = [sleep EXCEPT ![c] = SleepFor(Refilled)]
  /\ robbed' = [robbed EXCEPT ![c] = FALSE]
  /\ UNCHANGED verdict

\* acquire, a later turn, the sleep over and a token free: returns true.
AcquirePaced(c) ==
  /\ pc[c] = "asleep" /\ sleep[c] = 0
  /\ Take(c, "paced")
  /\ pc' = [pc EXCEPT ![c] = "idle"]
  /\ UNCHANGED <<sleep, quota>>

\* acquire, a later turn, the token gone: back to sleep.
AcquireAgain(c) ==
  /\ pc[c] = "asleep" /\ sleep[c] = 0
  /\ Miss
  /\ sleep' = [sleep EXCEPT ![c] = SleepFor(Refilled)]
  /\ robbed' = [robbed EXCEPT ![c] = FALSE]
  /\ UNCHANGED <<pc, quota, verdict>>

TryAcquire_NoRefill(c) ==  \* mutant: gated on the stored, stale count
  /\ quota[c] > 0
  /\ quota' = [quota EXCEPT ![c] = @ - 1]
  /\ \/ tokens >= Token /\ Take(c, "free")
     \/ /\ tokens < Token
        /\ verdict' = [verdict EXCEPT ![c] = "denied"]
        /\ UNCHANGED <<tokens, elapsed, winTicks, winGrants, robbed>>
  /\ UNCHANGED <<pc, sleep>>

\* try_acquire: take a token or say there is none.
TryAcquire(c) ==
  /\ quota[c] > 0
  /\ quota' = [quota EXCEPT ![c] = @ - 1]
  /\ \/ Take(c, "free")
     \/ Miss /\ verdict' = [verdict EXCEPT ![c] = "denied"] /\ UNCHANGED robbed
  /\ UNCHANGED <<pc, sleep>>

\* Time passes: for the bucket, for every sleeper and for the open window,
\* which gives way to the next one when it has run its length.
Tick ==
  /\ elapsed' = IF elapsed < TicksPerSec THEN elapsed + 1 ELSE elapsed
  /\ sleep' = [c \in Callers |-> IF sleep[c] > 0 THEN sleep[c] - 1 ELSE 0]
  /\ \/ winTicks < Window /\ winTicks' = winTicks + 1 /\ UNCHANGED winGrants
     \/ winTicks = Window /\ winTicks' = 0 /\ winGrants' = 0
  /\ UNCHANGED <<tokens, pc, quota, verdict, robbed>>

\* Start measuring afresh, at any moment.
OpenWindow ==
  /\ winTicks' = 0
  /\ winGrants' = 0
  /\ UNCHANGED <<tokens, elapsed, pc, sleep, quota, verdict, robbed>>

Acquire(c) == AcquireFree(c) \/ AcquireSleep(c) \/ AcquirePaced(c) \/ AcquireAgain(c)

Next ==
  \/ \E c \in Pacers : Acquire(c)
  \/ \E c \in Gaters : TryAcquire(c)
  \/ Tick
  \/ OpenWindow

Spec == Init /\ [][Next]_vars

(***************************************************************************)
(* Timers fire and tokio polls a woken task: nothing more is assumed.       *)
(***************************************************************************)
Fairness ==
  /\ WF_vars(Tick)
  /\ \A c \in Pacers : WF_vars(AcquirePaced(c) \/ AcquireAgain(c))

FairSpec == Spec /\ Fairness

-----------------------------------------------------------------------------
\* Every variable keeps its type; tokens never leave 0..Max, which the code
\* relies on when it computes the deficit (runtime.rs 179-198).
TypeOK ==
  /\ tokens \in 0 .. Max
  /\ elapsed \in 0 .. TicksPerSec
  /\ pc \in [Callers -> {"idle", "asleep"}]
  /\ sleep \in [Callers -> Nat]
  /\ quota \in [Callers -> 0 .. Quota]
  /\ verdict \in [Callers -> {"none", "free", "paced", "denied"}]
  /\ robbed \in [Callers -> BOOLEAN]
  /\ winTicks \in 0 .. Window
  /\ winGrants \in Nat

\* The throughput cap: whenever measuring starts, w ticks later no more than
\* one second's worth of tokens (the burst) plus Rate per second has been
\* handed out, however the callers interleave.  "Capacity is one second's
\* worth of tokens, so short bursts pass through and sustained load settles
\* at the configured rate" (RateLimiter's doc).
RateCap == winGrants * Token <= Max + winTicks * Rate

\* acquire sleeps long enough: when its sleep ends there is a token, unless
\* another task has taken one in the meantime.  So the loop goes round again
\* only because of a competitor, never because it slept too short.
SleepSuffices ==
  \A c \in Pacers :
    pc[c] = "asleep" /\ ~robbed[c] => Refilled + sleep[c] * Rate >= Token

\* acquire does not sleep longer than the deficit needs: one tick less and
\* there would have been no token at the moment it went to sleep.
SleepIsTight ==
  [][\A c \in Pacers :
       (AcquireSleep(c) \/ AcquireAgain(c)) => tokens' + (sleep'[c] - 1) * Rate < Token]_vars

\* Pacing is a delay, not a loss: when the load is finite every caller that
\* was put to sleep gets its token.
PacedCallerServed == \A c \in Pacers : pc[c] = "asleep" ~> pc[c] = "idle"

\* The lazily refilled bucket behaves as one that fills all the time: no
\* token is granted that it would not have had, and try_acquire says no only
\* when it would have been short of a whole token.
Eager == INSTANCE TokenBucket WITH level <- Refilled
EagerBucket == Eager!TBSpec
=============================================================================
