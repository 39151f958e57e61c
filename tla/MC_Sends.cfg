\* submit_via and cancel_via on a bind that reconnects under them.
SPECIFICATION FairSpec
CONSTANTS
  s1 = s1
  s2 = s2
  r1 = r1
  r2 = r2
  eu = eu
  Sessions = {s1, s2}
  Names = {eu}
  NameOf <- BindName
  Requests = {r1, r2}
  Kind <- BindKinds
  Timer = 1
  NoSession = NoSession
INVARIANTS TypeOK SafeRetry FailureExplained OnlyTimedOutUnbound
PROPERTIES NeverBackToOlder EveryCallReturns TimeoutEndsSession
CHECK_DEADLOCK FALSE
