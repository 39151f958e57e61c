\* Two paced senders and a gating handler on one limiter.
SPECIFICATION FairSpec
CONSTANTS
  Pacers = {p1, p2}
  Gaters = {g1}
  Rate = 2
  TicksPerSec = 3
  Quota = 3
  Window = 4
INVARIANTS TypeOK RateCap SleepSuffices
PROPERTIES SleepIsTight EagerBucket PacedCallerServed
