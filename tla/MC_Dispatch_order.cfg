\* What run_session's doc comment says of the order of session handlers.
SPECIFICATION Spec
CONSTANTS
  Events = {"up", "bind"}
  Kind <- KindOf
  Scripts = {"old", "new"}
  Reloads <- OldToNew
  Registered <- Versions
  Handles <- HandlesOf
  IsAsync <- AsyncOf
  Workers = 1
  Timeout = 2
  Backstop = 1
  NoHandler = "nohandler"
INVARIANT EachFinishesFirst
CHECK_DEADLOCK FALSE
