------------------------- MODULE BindSupervisorProofs -------------------------
(***************************************************************************)
(* The supervisor's timing and backoff, for every poll interval, deadline,  *)
(* healthy threshold and backoff range.                                     *)
(***************************************************************************)
EXTENDS BindSupervisor, DataProofs

-----------------------------------------------------------------------------
(* The inductive invariant.  What the properties say at the moment of a     *)
(* poll holds between polls with the rest of the nap added.                 *)

\* A callback of a dropped client ends before the sleep does; a flag that is
\* up while the supervisor looks at it was raised in the attempt that is running.
FlagInv ==
  /\ straggler => sup = "backoff" /\ nap > 0
  /\ sup \in {"wait", "decide"} /\ connectFailed => failedIn = "this"
  /\ sup \in {"start", "backoff"} => client = "none"
  /\ sup = "held" => client \in {"alive", "dead"}

\* The backoff, capped.
Capped(n) == IF Doubled[n] <= MaxBackoff THEN Doubled[n] ELSE MaxBackoff

\* While it sleeps the backoff is that of the attempts so far, and from then on
\* that of the next.
BackoffInv ==
  /\ sup = "backoff" => streak > 0 /\ backoff = Capped(streak - 1)
  /\ sup # "backoff" => backoff = Capped(streak)

\* Phase 1: the next look is at most a poll away, and neither the deadline
\* nor a refused connect is behind it by more than that.
WaitInv ==
  sup = "wait" =>
    /\ nap <= Poll
    /\ waited + nap < Deadline + Poll
    /\ connectFailed => failedFor + nap <= Poll

\* Phase 2: the session has been up for as long as it was held, but for the
\* time since it went down, which the next look ends.
HeldInv ==
  sup = "held" =>
    /\ nap <= Poll
    /\ client = "alive" => heldFor <= upFor
    /\ client = "dead" => heldFor <= upFor + deadFor /\ deadFor + nap <= Poll

IInv == TypeOK /\ FlagInv /\ BackoffInv /\ WaitInv /\ HeldInv

-----------------------------------------------------------------------------
\* Doubling, step by step.
LEMMA Doublings ==
  /\ Doubled[0] = Base
  /\ \A n \in 1 .. Streaks : Doubled[n] = 2 * Doubled[n - 1]
  /\ \A n \in 0 .. Streaks : Doubled[n] \in Nat \ {0}
<1> DEFINE Turns(g) == [n \in 0 .. Streaks |-> IF n = 0 THEN Base ELSE 2 * g[n - 1]]
           Pos == Nat \ {0}
           step == [n \in 1 .. Streaks |-> [x \in Pos |-> 2 * x]]
<1>0. \A x \in Pos : 2 * x \in Pos
  OBVIOUS
<1>1. PICK g : g \in [0 .. Streaks -> Pos] /\ g[0] = Base /\ \A n \in 1 .. Streaks : g[n] = step[n][g[n - 1]]
  <2>1. step \in [1 .. Streaks -> [Pos -> Pos]]
    BY <1>0
  <2>2. Streaks \in Nat /\ Base \in Pos
    BY SupervisorAssumption
  <2>3. PICK g : g \in Runs(Streaks, Pos, Base, step)
    <3> HIDE DEF step, Pos
    <3> QED BY <2>1, <2>2, RecursionExists
  <2>4. QED
    <3> HIDE DEF step, Pos
    <3> QED BY <2>3, Zenon DEF Runs
<1>2. \A n \in 1 .. Streaks : n \in 0 .. Streaks /\ n # 0 /\ n - 1 \in 0 .. Streaks
  BY SupervisorAssumption
<1>3. \A n \in 0 .. Streaks : n = 0 \/ n \in 1 .. Streaks
  BY SupervisorAssumption
<1>4. g = Turns(g)
  <2>1. \A n \in 1 .. Streaks : g[n] = 2 * g[n - 1]
    <3> HIDE DEF Pos
    <3> QED BY <1>1, <1>2, Zenon
  <2>2. QED
    BY <1>1, <1>3, <2>1, Zenon
<1>5. Doubled = Turns(Doubled)
  <2>1. Doubled = CHOOSE h : h = Turns(h)
    BY Zenon DEF Doubled
  <2> HIDE DEF Turns
  <2>2. QED
    BY <1>4, <2>1, Zenon
<1>6. 0 \in 0 .. Streaks /\ Streaks \in Nat
  BY SupervisorAssumption
<1>7. Doubled[0] = Base
  BY <1>5, <1>6, Zenon
<1>8. \A n \in 1 .. Streaks : Doubled[n] = 2 * Doubled[n - 1]
  BY <1>2, <1>5, Zenon
<1>9. \A n \in 0 .. Streaks : Doubled[n] \in Pos
  <2> DEFINE T == {v \in 0 .. Streaks : Doubled[v] \in Pos}
  <2>1. 0 \in T
    BY <1>6, <1>7, SupervisorAssumption
  <2>2. \A n \in 1 .. Streaks : n - 1 \in T => n \in T
    <3> HIDE DEF Pos
    <3> QED BY <1>0, <1>2, <1>8, Zenon
  <2> HIDE DEF T
  <2>3. \A n \in 0 .. Streaks : n \in T
    BY <1>6, <2>1, <2>2, BoundedInduction, Zenon
  <2>4. QED
    BY <2>3 DEF T
<1>10. QED
  BY <1>7, <1>8, <1>9

\* The next backoff is the next of the doublings, capped, also where the count
\* of attempts no longer grows.
LEMMA NextCapped ==
  ASSUME NEW n \in 1 .. Streaks
  PROVE  (IF 2 * Capped(n - 1) <= MaxBackoff THEN 2 * Capped(n - 1) ELSE MaxBackoff) = Capped(n)
<1>1. n - 1 \in 0 .. Streaks /\ n \in 0 .. Streaks /\ MaxBackoff \in Nat
  BY SupervisorAssumption
<1>2. Doubled[n] = 2 * Doubled[n - 1] /\ Doubled[n - 1] \in Nat \ {0} /\ MaxBackoff > 0
  BY <1>1, Doublings, SupervisorAssumption
<1>3. QED
  BY <1>1, <1>2 DEF Capped

\* At the bound the cap has been reached.
LEMMA LastCapped == Capped(Streaks) = MaxBackoff /\ Capped(Streaks - 1) = MaxBackoff
<1>1. Streaks \in 1 .. Streaks /\ Streaks - 1 \in 0 .. Streaks /\ MaxBackoff \in Nat
  BY SupervisorAssumption
<1>2. Doubled[Streaks] = 2 * Doubled[Streaks - 1] /\ Doubled[Streaks - 1] \in Nat
  BY <1>1, Doublings
<1>3. QED
  BY <1>1, <1>2, StreaksAssumption DEF Capped

-----------------------------------------------------------------------------
\* The invariant holds before anything has happened.
LEMMA InitIInv == Init => IInv
<1> SUFFICES ASSUME Init PROVE IInv
  OBVIOUS
<1>1. /\ ~connectFailed /\ connectFailed \in BOOLEAN /\ uncounted \in BOOLEAN
      /\ ~straggler /\ straggler \in BOOLEAN
  BY DEF Init
<1>2. TypeOK
  <2>1. heldFor \in 0 .. Healthy /\ upFor \in 0 .. Healthy /\ backoff \in Base .. MaxBackoff
    BY SupervisorAssumption DEF Init
  <2>6. streak \in 0 .. Streaks
    BY SupervisorAssumption DEF Init
  <2>2. nap \in Nat /\ waited \in Nat /\ failedFor \in Nat /\ deadFor \in Nat
    BY DEF Init
  <2>3. sup \in Stages /\ peerUp \in BOOLEAN
    BY DEF Init, Stages
  <2>4. client \in {"none", "connecting", "failing", "alive", "dead"} /\ failedIn \in {"none", "this", "older"}
    BY DEF Init
  <2>5. QED BY <1>1, <2>1, <2>2, <2>3, <2>4, <2>6, Zenon DEF TypeOK
<1>3. FlagInv /\ WaitInv /\ HeldInv
  BY <1>1 DEF Init, FlagInv, WaitInv, HeldInv
<1>4. BackoffInv
  <2>1. Doubled[0] = Base /\ Base <= MaxBackoff
    BY Doublings, SupervisorAssumption
  <2>2. QED BY <2>1 DEF Init, BackoffInv, Capped
<1>5. QED BY <1>2, <1>3, <1>4 DEF IInv

\* Every step preserves the types.
LEMMA TypeStep == TypeOK /\ [Next]_vars => TypeOK'
<1> SUFFICES ASSUME TypeOK, [Next]_vars PROVE TypeOK'
  OBVIOUS
<1> USE SupervisorAssumption DEF TypeOK
<1>1. CASE Start
  <2>1. /\ connectFailed' \in BOOLEAN /\ uncounted' \in BOOLEAN /\ peerUp' \in BOOLEAN
        /\ straggler' \in BOOLEAN
    BY <1>1 DEF Start
  <2>2. sup' \in Stages /\ client' \in {"none", "connecting", "failing", "alive", "dead"}
        /\ failedIn' \in {"none", "this", "older"}
    BY <1>1 DEF Start, Stages
  <2>3. /\ nap' \in Nat /\ waited' \in Nat /\ failedFor' \in Nat /\ deadFor' \in Nat
        /\ upFor' \in 0 .. Healthy /\ heldFor' \in 0 .. Healthy /\ backoff' \in Base .. MaxBackoff
        /\ streak' \in 0 .. Streaks
    BY <1>1 DEF Start
  <2>4. QED BY <2>1, <2>2, <2>3, Zenon
<1>2. CASE PollWait
  BY <1>2 DEF PollWait, AwaitingBind, IsAlive, Stages, supvars, history
<1>3. CASE Hold
  BY <1>3 DEF Hold, IsAlive, Stages, supvars, history
<1>4. CASE PollHeld
  BY <1>4 DEF PollHeld, IsAlive, Stages, supvars, history
<1>5. CASE NotBound
  BY <1>5 DEF NotBound, AttemptOver, Unbroken, IsAlive, Stages, supvars, history
<1>6. CASE BindDown
  BY <1>6 DEF BindDown, AttemptOver, Unbroken, IsAlive, Stages, supvars, history
<1>7. CASE BackoffOver
  BY <1>7 DEF BackoffOver, NextBackoff, Stages, supvars, history
<1>8. CASE OnConnectionFailed
  BY <1>8 DEF OnConnectionFailed, Stages, supvars, history
<1>9. CASE BindRejected
  BY <1>9 DEF BindRejected, Stages, supvars, history
<1>10. CASE OnSmscBound
  BY <1>10 DEF OnSmscBound, Stages, supvars, history
<1>11. CASE OnSmscUnbound
  BY <1>11 DEF OnSmscUnbound, Stages, supvars, history
<1>12. CASE PeerChanges
  BY <1>12 DEF PeerChanges, Stages, supvars, history
<1>13. CASE Tick
  BY <1>13 DEF Tick, Due, Stages, supvars, history
<1>14. CASE UNCHANGED vars
  BY <1>14 DEF vars
<1>15. CASE ConnectFails
  BY <1>15 DEF ConnectFails, supvars, history
<1>16. CASE OnConnectionFailedLate
  BY <1>16 DEF OnConnectionFailedLate, supvars, history
<1>17. QED
  BY <1>1, <1>2, <1>3, <1>4, <1>5, <1>6, <1>7, <1>8, <1>9, <1>10, <1>11, <1>12, <1>13, <1>14,
     <1>15, <1>16
     DEF Next, Supervisor, Client, Callback

\* Every step preserves the relation of the backoff to the attempts.
LEMMA BackoffStep == TypeOK /\ BackoffInv /\ [Next]_vars => BackoffInv'
<1> SUFFICES ASSUME TypeOK, BackoffInv, [Next]_vars PROVE BackoffInv'
  OBVIOUS
<1>1. streak \in 0 .. Streaks /\ Streaks \in Nat /\ Streaks > 0
  BY SupervisorAssumption DEF TypeOK
<1>2. ASSUME NEW wasHeld \in BOOLEAN, AttemptOver(wasHeld), sup # "backoff"
      PROVE  BackoffInv'
  <2>1. sup' = "backoff" /\ backoff = Capped(streak)
    BY <1>2 DEF AttemptOver, BackoffInv
  <2>2. CASE wasHeld /\ heldFor >= Healthy
    <3>1. backoff' = Base /\ streak' = 1
      BY <1>2, <2>2 DEF AttemptOver, Unbroken
    <3>2. Capped(0) = Base
      BY Doublings, SupervisorAssumption DEF Capped
    <3>3. QED BY <2>1, <3>1, <3>2 DEF BackoffInv
  <2>3. CASE ~(wasHeld /\ heldFor >= Healthy)
    <3>1. backoff' = backoff
      BY <1>2, <2>3 DEF AttemptOver
    <3>2. CASE streak < Streaks
      <4>1. streak' = streak + 1
        BY <1>2, <2>3, <3>2 DEF AttemptOver, Unbroken
      <4>2. streak' > 0 /\ streak' - 1 = streak
        BY <1>1, <4>1
      <4>3. QED BY <2>1, <3>1, <4>2 DEF BackoffInv
    <3>3. CASE streak = Streaks
      <4>1. streak' = streak
        BY <1>1, <1>2, <2>3, <3>3 DEF AttemptOver, Unbroken
      <4>2. backoff' = Capped(streak' - 1)
        BY <2>1, <3>1, <3>3, <4>1, LastCapped
      <4>3. QED BY <1>1, <2>1, <3>3, <4>1, <4>2 DEF BackoffInv
    <3>4. QED BY <1>1, <3>2, <3>3
  <2>4. QED BY <2>2, <2>3
<1>3. CASE NotBound \/ BindDown
  BY <1>2, <1>3 DEF NotBound, BindDown
<1>4. CASE BackoffOver
  <2>1. streak \in 1 .. Streaks /\ backoff = Capped(streak - 1) /\ sup' = "start" /\ streak' = streak
    BY <1>1, <1>4 DEF BackoffOver, BackoffInv, history
  <2>2. backoff' = Capped(streak)
    BY <1>4, <2>1, NextCapped DEF BackoffOver, NextBackoff
  <2>3. QED BY <2>1, <2>2 DEF BackoffInv
<1>5. CASE ~(NotBound \/ BindDown \/ BackoffOver)
  <2>1. backoff' = backoff /\ streak' = streak /\ (sup' = "backoff" <=> sup = "backoff")
    BY <1>5
       DEF Next, Supervisor, Client, Callback, Start, PollWait, Hold, PollHeld, ConnectFails,
           OnConnectionFailed, OnConnectionFailedLate, BindRejected, OnSmscBound, OnSmscUnbound,
           PeerChanges, Tick, supvars, history, vars
  <2>2. QED BY <2>1 DEF BackoffInv
<1>6. QED BY <1>3, <1>4, <1>5

\* Every step preserves the invariant.
LEMMA InvStep == IInv /\ [Next]_vars => IInv'
<1> SUFFICES ASSUME IInv, [Next]_vars PROVE (FlagInv /\ WaitInv /\ HeldInv)'
  BY TypeStep, BackoffStep DEF IInv
<1> USE SupervisorAssumption DEF IInv, TypeOK, FlagInv, WaitInv, HeldInv
<1>1. CASE Start
  BY <1>1 DEF Start, supvars, history
<1>2. CASE PollWait
  BY <1>2 DEF PollWait, AwaitingBind, IsAlive, supvars, history
<1>3. CASE Hold
  BY <1>3 DEF Hold, IsAlive, supvars, history
<1>4. CASE PollHeld
  BY <1>4 DEF PollHeld, IsAlive, supvars, history
<1>5. CASE NotBound
  BY <1>5 DEF NotBound, AttemptOver, IsAlive, supvars, history
<1>6. CASE BindDown
  BY <1>6 DEF BindDown, AttemptOver, IsAlive, supvars, history
<1>7. CASE BackoffOver
  BY <1>7 DEF BackoffOver, NextBackoff, supvars, history
<1>8. CASE OnConnectionFailed
  BY <1>8 DEF OnConnectionFailed, supvars, history
<1>9. CASE BindRejected
  BY <1>9 DEF BindRejected, supvars, history
<1>10. CASE OnSmscBound
  BY <1>10 DEF OnSmscBound, supvars, history
<1>11. CASE OnSmscUnbound
  BY <1>11 DEF OnSmscUnbound, supvars, history
<1>12. CASE PeerChanges
  BY <1>12 DEF PeerChanges, supvars, history
<1>13. CASE Tick
  BY <1>13 DEF Tick, Due, supvars, history
<1>14. CASE UNCHANGED vars
  BY <1>14 DEF vars
<1>15. CASE ConnectFails
  BY <1>15 DEF ConnectFails, supvars, history
<1>16. CASE OnConnectionFailedLate
  BY <1>16 DEF OnConnectionFailedLate, supvars, history
<1>17. QED
  BY <1>1, <1>2, <1>3, <1>4, <1>5, <1>6, <1>7, <1>8, <1>9, <1>10, <1>11, <1>12, <1>13, <1>14,
     <1>15, <1>16
     DEF Next, Supervisor, Client, Callback

\* The invariant holds throughout.
LEMMA Inductive == Spec => []IInv
  BY InitIInv, InvStep, PTL DEF Spec

-----------------------------------------------------------------------------
\* Every variable keeps its type; backoff_ms stays between 1 s and 60 s.
THEOREM TypeCorrect == Spec => []TypeOK
<1>1. IInv => TypeOK BY DEF IInv
<1>2. QED BY <1>1, Inductive, PTL

\* A connect_failed the supervisor acts on was raised in this attempt.
THEOREM FailureIsThisAttemptsHolds == Spec => []FailureIsThisAttempts
<1>1. IInv => FailureIsThisAttempts BY DEF IInv, FlagInv, FailureIsThisAttempts
<1>2. QED BY <1>1, Inductive, PTL

\* A refused connect is acted on at the next poll of run_bind_loop.
THEOREM FailureSeenPromptlyHolds == Spec => []FailureSeenPromptly
<1>1. IInv => FailureSeenPromptly
  BY SupervisorAssumption DEF IInv, TypeOK, WaitInv, FailureSeenPromptly
<1>2. QED BY <1>1, Inductive, PTL

\* Phase 1 of run_bind_loop ends within a poll of the deadline.
THEOREM AttemptBoundedHolds == Spec => []AttemptBounded
<1>1. IInv => AttemptBounded
  BY SupervisorAssumption DEF IInv, TypeOK, WaitInv, AttemptBounded
<1>2. QED BY <1>1, Inductive, PTL

\* Only a session that was up for the healthy threshold, less a poll at most,
\* resets the backoff.
THEOREM ResetEarnedHolds == Spec => []ResetEarned
<1>1. IInv => ResetEarned
  BY SupervisorAssumption DEF IInv, TypeOK, FlagInv, HeldInv, ResetEarned, IsAlive
<1>2. QED BY <1>1, Inductive, PTL

\* The backoff doubles with every attempt in a row that was no healthy session,
\* up to the cap.
THEOREM BackoffGrowsHolds == Spec => []BackoffGrows
<1>1. IInv => BackoffGrows
  BY DEF IInv, BackoffInv, Capped, BackoffGrows
<1>2. QED BY <1>1, Inductive, PTL
===============================================================================
