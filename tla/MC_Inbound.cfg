\* Two inbound sessions and a bind; the limiter of s1 may stop handing out tokens.
SPECIFICATION FairSpec
CONSTANTS
  Sessions = {"s1", "s2"}
  Pdus = {"m1", "m2", "op", "alert"}
  From <- Origins
  Command <- CommandsOf
  Burst = 1
  Flowing = {"s2"}
  OnBind = "onbind"
  Free = "free"
INVARIANTS TypeOK MetricsMatchWire TurnedAwayUnseen
PROPERTY OthersNotStalled
CHECK_DEADLOCK FALSE
