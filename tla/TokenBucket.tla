---------------------------- MODULE TokenBucket ----------------------------
(***************************************************************************)
(* What `max_msg_per_sec` promises, with no implementation in sight: an     *)
(* allowance that fills continuously, a grant that needs a whole token, and *)
(* a refusal that is only ever given when there is no whole token.          *)
(* RateLimiter, which stores a stale allowance and refills it only when     *)
(* somebody asks, is shown to implement this.                               *)
(***************************************************************************)
EXTENDS Integers

CONSTANTS
  Callers,      \* whoever asks for tokens
  Rate,         \* tokens per second
  TicksPerSec   \* resolution of the clock

VARIABLES
  level,    \* the allowance, in units of 1/TicksPerSec token
  verdict   \* the last answer each caller was given

tbvars == <<level, verdict>>

Verdicts == {"none", "free", "paced", "denied"}

TBInit ==
  /\ level = Rate * TicksPerSec
  /\ verdict = [c \in Callers |-> "none"]

\* A tick's worth of allowance comes in; one second's worth is all it holds.
Fill ==
  /\ level' = IF level + Rate <= Rate * TicksPerSec
              THEN level + Rate ELSE Rate * TicksPerSec
  /\ UNCHANGED verdict

Grant(c) ==
  /\ level >= TicksPerSec
  /\ level' = level - TicksPerSec
  /\ \E v \in {"free", "paced"} : verdict' = [verdict EXCEPT ![c] = v]

Deny(c) ==
  /\ level < TicksPerSec
  /\ verdict' = [verdict EXCEPT ![c] = "denied"]
  /\ UNCHANGED level

TBNext ==
  \/ Fill
  \/ \E c \in Callers : Grant(c) \/ Deny(c)

TBSpec == TBInit /\ [][TBNext]_tbvars
=============================================================================
