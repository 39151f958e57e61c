\* What "closed" is documented to mean.
SPECIFICATION Spec
CONSTANTS
  s1 = s1
  s2 = s2
  r1 = r1
  r2 = r2
  eu = eu
  Sessions = {s1, s2}
  Names = {eu}
  NameOf <- BindName
  Requests = {r1, r2}
  Kind <- BindKinds
  Timer = 1
  NoSession = NoSession
INVARIANT ClosedMeansNoAnswer
CHECK_DEADLOCK FALSE
