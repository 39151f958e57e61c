\* Messages of an ESME that reconnects, receipts for them, and a message for it.
SPECIFICATION Spec
CONSTANTS
  Sessions = {"s1", "s2"}
  SystemOf <- Reconnecting
  Msgs = {"m1", "m2", "m3"}
  From <- MCFrom
  Route <- MCRoute
  UpstreamId <- MCUpstreamId
  Registered = {"m1", "m2"}
  Receipts = {"r1", "r2"}
  About <- MCAbout
  Replies = {"x1"}
  Owner <- MCOwner
  NoRoute = "noroute"
  Nobody = "nobody"
INVARIANTS ReceiptToItsSubmitter CorrelationCleared
PROPERTIES LostReceiptExplained LostMoExplained
CHECK_DEADLOCK FALSE
