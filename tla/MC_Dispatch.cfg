\* A session event and a bind on one worker, with a reload and a loop that stalls.
SPECIFICATION FairSpec
CONSTANTS
  Events = {"up", "bind"}
  Kind <- KindOf
  Scripts = {"old", "new"}
  Reloads <- OldToNew
  Registered <- Versions
  Handles <- HandlesOf
  IsAsync <- AsyncOf
  Workers = 1
  Timeout = 2
  Backstop = 1
  NoHandler = "nohandler"
INVARIANTS TypeOK SessionRunsOneScript BindClosedByDefault NothingLeftRunning
PROPERTIES BackstopMeansStuck EveryDispatchReturns
CHECK_DEADLOCK FALSE
