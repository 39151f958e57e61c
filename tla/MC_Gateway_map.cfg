\* A reconnecting ESME, and the map that is to find it.
SPECIFICATION Spec
CONSTANTS
  Sessions = {"s1", "s2"}
  SystemOf <- Reconnecting
  Msgs = {}
  From <- Nothing
  Route <- Nothing
  UpstreamId <- Nothing
  Registered = {}
  Receipts = {}
  About <- Nothing
  Replies = {}
  Owner <- Nothing
  NoRoute = "noroute"
  Nobody = "nobody"
INVARIANT BoundIsInMap
CHECK_DEADLOCK FALSE
