\* What the reconnect counter is documented to count.
SPECIFICATION Spec
CONSTANTS
  Poll = 2
  Deadline = 5
  Healthy = 5
  Base = 2
  MaxBackoff = 7
  Streaks = 3
INVARIANT EveryDropCounted
