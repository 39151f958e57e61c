\* Attempts, flaps, refusals and outages of a scaled-down supervisor.
SPECIFICATION FairSpec
CONSTANTS
  Poll = 2
  Deadline = 5
  Healthy = 5
  Base = 2
  MaxBackoff = 7
  Streaks = 3
INVARIANTS TypeOK FailureIsThisAttempts FailureSeenPromptly AttemptBounded ResetEarned BackoffGrows
PROPERTY BindComesBack
