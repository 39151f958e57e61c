----------------------------- MODULE SendsProofs -----------------------------
(***************************************************************************)
(* Sends never misleads the script about a failed request, for any sets of  *)
(* sessions, names and requests and any response timer.                     *)
(***************************************************************************)
EXTENDS Sends, TLAPS

-----------------------------------------------------------------------------
(* The inductive invariant.                                                 *)

\* The registry holds only sessions whose unbound hook has yet to run.
RegistryLive == \A s \in registered : sess[s] \in {"up", "ending"}

Early == {"idle", "pacing", "starting", "writing"}
Holding == {"pacing", "starting", "writing", "outstanding", "completed", "classifying"}

\* Before the codec completes a request nothing has been decided about it,
\* and settle's clock is never behind the codec's.
Undecided(r) ==
  /\ phase[r] \in Holding => target[r] \in Sessions
  /\ phase[r] \in Early => codecAge[r] = 0 /\ ~taken[r]
  /\ phase[r] \in Early \cup {"outstanding"} => cause[r] = "none"
  /\ phase[r] = "outstanding" => codecAge[r] <= age[r]
  /\ phase[r] # "done" => outcome[r] = "none"

\* What the codec completed it with is consistent with the clocks, with the
\* session and with what the peer did.
Completed(r) ==
  /\ phase[r] \in {"completed", "classifying"} =>
       /\ cause[r] # "none"
       /\ taken[r] => cause[r] \in {"response", "timer", "released"}
       /\ cause[r] = "released" => sess[target[r]] = "released"
  /\ phase[r] = "completed" => (cause[r] = "timer" => age[r] >= Timer)
  /\ phase[r] = "classifying" => cause[r] # "response" /\ (cause[r] = "timer" => late[r])

\* What the script was told is right.
Explained(r) ==
  phase[r] = "done" =>
    /\ taken[r] => outcome[r] \in {"response", "timeout", "closed"}
    /\ cause[r] = "timer" => outcome[r] = "timeout"
    /\ cause[r] = "released" => outcome[r] = IF late[r] THEN "timeout" ELSE "closed"
    /\ cause[r] = "nack" <=> outcome[r] = "nack"
    /\ outcome[r] = "unanswered" => cause[r] \in {"nackSysErr", "wrongType", "writeFailed"}

ReqInv(r) == Undecided(r) /\ Completed(r) /\ Explained(r)

\* A session that was timed out, or unbound for it, had its timer run out.
TimedOut == \A s \in timedOut \cup unbinding : \E r \in Requests : target[r] = s /\ cause[r] = "timer"

\* Positions are given out in order; a session that was handed out has been
\* pushed, and of its name only later ones and itself can still be there.
Ordered ==
  /\ \A s \in Sessions : position[s] <= pushes
  /\ \A q \in Requests : target[q] \in Sessions =>
       /\ sess[target[q]] # "new"
       /\ \A t \in registered : NameOf[t] = NameOf[target[q]] => position[target[q]] <= position[t]

IInv == TypeOK /\ RegistryLive /\ \A r \in Requests : ReqInv(r)

-----------------------------------------------------------------------------
\* The invariant holds before anything has happened.
LEMMA InitIInv == Init => IInv
  BY SendsAssumption
     DEF Init, IInv, TypeOK, Lives, Phases, Causes, Outcomes, RegistryLive, ReqInv,
         Undecided, Completed, Explained, Early, Holding

\* A hook or the codec changes a session: no request notices, but those that
\* Release fails.
LEMMA SessionStep ==
  ASSUME IInv, NEW s \in Sessions,
         Bound(s) \/ SessionEnds(s) \/ Unbound(s) \/ Release(s) \/ OnTimeout(s)
  PROVE  IInv'
<1>1. CASE Bound(s)
  <2>1. TypeOK'
    BY <1>1 DEF IInv, TypeOK, Lives, Bound, calls
  <2>2. RegistryLive'
    BY <1>1 DEF IInv, TypeOK, Bound, RegistryLive
  <2>3. ASSUME NEW r \in Requests PROVE ReqInv(r)'
    BY <1>1, <2>3 DEF IInv, TypeOK, Bound, calls, ReqInv, Undecided, Completed, Explained
  <2>4. QED BY <2>1, <2>2, <2>3 DEF IInv
<1>2. CASE SessionEnds(s)
  <2>1. TypeOK'
    BY <1>2 DEF IInv, TypeOK, Lives, SessionEnds, calls
  <2>2. RegistryLive'
    BY <1>2 DEF IInv, TypeOK, SessionEnds, RegistryLive
  <2>3. ASSUME NEW r \in Requests PROVE ReqInv(r)'
    BY <1>2, <2>3 DEF IInv, TypeOK, SessionEnds, calls, ReqInv, Undecided, Completed, Explained
  <2>4. QED BY <2>1, <2>2, <2>3 DEF IInv
<1>3. CASE Unbound(s)
  <2>1. TypeOK'
    BY <1>3 DEF IInv, TypeOK, Lives, Unbound, calls
  <2>2. RegistryLive'
    BY <1>3 DEF IInv, TypeOK, Unbound, RegistryLive
  <2>3. ASSUME NEW r \in Requests PROVE ReqInv(r)'
    BY <1>3, <2>3 DEF IInv, TypeOK, Unbound, calls, ReqInv, Undecided, Completed, Explained
  <2>4. QED BY <2>1, <2>2, <2>3 DEF IInv
<1>4. CASE Release(s)
  <2>1. TypeOK'
    BY <1>4 DEF IInv, TypeOK, Lives, Phases, Causes, Release
  <2>2. RegistryLive'
    BY <1>4 DEF IInv, TypeOK, Release, RegistryLive
  <2>3. ASSUME NEW r \in Requests PROVE ReqInv(r)'
    <3>1. CASE phase[r] = "outstanding" /\ target[r] = s
      BY <1>4, <2>3, <3>1
         DEF IInv, TypeOK, Release, ReqInv, Undecided, Completed, Explained, Early, Holding
    <3>2. CASE ~(phase[r] = "outstanding" /\ target[r] = s)
      <4>1. /\ phase'[r] = phase[r] /\ cause'[r] = cause[r]
            /\ target' = target /\ age' = age /\ codecAge' = codecAge
            /\ late' = late /\ outcome' = outcome /\ taken' = taken
        BY <1>4, <3>2 DEF Release
      <4>2. sess[target[r]] = "released" /\ target[r] \in Sessions => sess'[target[r]] = "released"
        BY <1>4 DEF Release, IInv, TypeOK
      <4>3. QED
        BY <4>1, <4>2 DEF IInv, ReqInv, Undecided, Completed, Explained, Holding
    <3>3. QED BY <3>1, <3>2
  <2>4. QED BY <2>1, <2>2, <2>3 DEF IInv
<1>5. CASE OnTimeout(s)
  <2>1. TypeOK'
    BY <1>5 DEF IInv, TypeOK, OnTimeout, calls
  <2>2. RegistryLive'
    BY <1>5 DEF IInv, OnTimeout, RegistryLive
  <2>3. ASSUME NEW r \in Requests PROVE ReqInv(r)'
    BY <1>5, <2>3 DEF IInv, OnTimeout, calls, ReqInv, Undecided, Completed, Explained
  <2>4. QED BY <2>1, <2>2, <2>3 DEF IInv
<1>6. QED BY <1>1, <1>2, <1>3, <1>4, <1>5

\* A step that changes request q alone leaves every other request as it was.
LEMMA OtherRequest ==
  ASSUME NEW r \in Requests, ReqInv(r),
         phase'[r] = phase[r], target'[r] = target[r], age'[r] = age[r],
         codecAge'[r] = codecAge[r], cause'[r] = cause[r], late'[r] = late[r],
         outcome'[r] = outcome[r], taken'[r] = taken[r], sess' = sess
  PROVE  ReqInv(r)'
  BY DEF ReqInv, Undecided, Completed, Explained

\* A request and its lookup.
LEMMA LookupStep ==
  ASSUME IInv, NEW q \in Requests, NEW n \in Names, Lookup(q, n) \/ LookupFails(q, n)
  PROVE  IInv'
<1>1. CASE Lookup(q, n)
  <2>1. TypeOK'
    BY <1>1 DEF IInv, TypeOK, Lookup, registry, Phases, Paces
  <2>2. RegistryLive'
    BY <1>1 DEF IInv, RegistryLive, Lookup, registry
  <2>3. ASSUME NEW r \in Requests PROVE ReqInv(r)'
    <3>1. CASE r = q
      BY <1>1, <3>1, SendsAssumption
         DEF IInv, TypeOK, RegistryLive, Lookup, registry, IsFirstMatch, Matches, Phases, Causes, Outcomes,
             ReqInv, Undecided, Completed, Explained, Early, Holding
    <3>2. CASE r # q
      BY <1>1, <2>3, <3>2, OtherRequest DEF IInv, TypeOK, Lookup, registry
    <3>3. QED BY <3>1, <3>2
  <2>4. QED BY <2>1, <2>2, <2>3 DEF IInv
<1>2. CASE LookupFails(q, n)
  <2>1. TypeOK'
    BY <1>2 DEF IInv, TypeOK, LookupFails, registry, Phases, Outcomes
  <2>2. RegistryLive'
    BY <1>2 DEF IInv, RegistryLive, LookupFails, registry
  <2>3. ASSUME NEW r \in Requests PROVE ReqInv(r)'
    <3>1. CASE r = q
      BY <1>2, <3>1, SendsAssumption
         DEF IInv, TypeOK, RegistryLive, LookupFails, registry, Phases, Causes, Outcomes,
             ReqInv, Undecided, Completed, Explained, Early, Holding
    <3>2. CASE r # q
      BY <1>2, <2>3, <3>2, OtherRequest DEF IInv, TypeOK, LookupFails, registry
    <3>3. QED BY <3>1, <3>2
  <2>4. QED BY <2>1, <2>2, <2>3 DEF IInv
<1>3. QED BY <1>1, <1>2

\* The steps of the helper's own task.
LEMMA HelperStepInv ==
  ASSUME IInv, NEW q \in Requests, HelperStep(q)
  PROVE  IInv'
<1>1. CASE Pace(q)
  <2>1. TypeOK'
    BY <1>1 DEF IInv, TypeOK, Pace, registry, Phases
  <2>2. RegistryLive'
    BY <1>1 DEF IInv, RegistryLive, Pace, registry
  <2>3. ASSUME NEW r \in Requests PROVE ReqInv(r)'
    <3>1. CASE r = q
      BY <1>1, <3>1, SendsAssumption
         DEF IInv, TypeOK, RegistryLive, Pace, registry, Phases, Causes, Outcomes,
             ReqInv, Undecided, Completed, Explained, Early, Holding
    <3>2. CASE r # q
      BY <1>1, <2>3, <3>2, OtherRequest DEF IInv, TypeOK, Pace, registry
    <3>3. QED BY <3>1, <3>2
  <2>4. QED BY <2>1, <2>2, <2>3 DEF IInv
<1>2. CASE Settle(q)
  <2>1. TypeOK'
    BY <1>2, SendsAssumption DEF IInv, TypeOK, Settle, registry, Phases
  <2>2. RegistryLive'
    BY <1>2 DEF IInv, RegistryLive, Settle, registry
  <2>3. ASSUME NEW r \in Requests PROVE ReqInv(r)'
    <3>1. CASE r = q
      BY <1>2, <3>1, SendsAssumption
         DEF IInv, TypeOK, RegistryLive, Settle, registry, Phases, Causes, Outcomes,
             ReqInv, Undecided, Completed, Explained, Early, Holding
    <3>2. CASE r # q
      BY <1>2, <2>3, <3>2, OtherRequest DEF IInv, TypeOK, Settle, registry
    <3>3. QED BY <3>1, <3>2
  <2>4. QED BY <2>1, <2>2, <2>3 DEF IInv
<1>3. CASE SettleOk(q)
  <2>1. TypeOK'
    BY <1>3 DEF IInv, TypeOK, SettleOk, registry, Phases, Outcomes
  <2>2. RegistryLive'
    BY <1>3 DEF IInv, RegistryLive, SettleOk, registry
  <2>3. ASSUME NEW r \in Requests PROVE ReqInv(r)'
    <3>1. CASE r = q
      BY <1>3, <3>1, SendsAssumption
         DEF IInv, TypeOK, RegistryLive, SettleOk, registry, Phases, Causes, Outcomes,
             ReqInv, Undecided, Completed, Explained, Early, Holding
    <3>2. CASE r # q
      BY <1>3, <2>3, <3>2, OtherRequest DEF IInv, TypeOK, SettleOk, registry
    <3>3. QED BY <3>1, <3>2
  <2>4. QED BY <2>1, <2>2, <2>3 DEF IInv
<1>4. CASE SettleErr(q)
  <2>1. TypeOK'
    BY <1>4 DEF IInv, TypeOK, SettleErr, registry, Phases
  <2>2. RegistryLive'
    BY <1>4 DEF IInv, RegistryLive, SettleErr, registry
  <2>3. ASSUME NEW r \in Requests PROVE ReqInv(r)'
    <3>1. CASE r = q
      <4>1. cause[q] # "response" /\ phase[q] = "completed" /\ ReqInv(q)
        BY <1>4 DEF SettleErr, IInv
      <4>2. /\ phase'[q] = "classifying" /\ sess' = sess
            /\ target' = target /\ age' = age /\ codecAge' = codecAge
            /\ cause' = cause /\ outcome' = outcome /\ taken' = taken
        BY <1>4 DEF SettleErr, registry, IInv, TypeOK
      <4>3. age[q] >= Timer => late'[q]
        BY <1>4 DEF SettleErr, IInv, TypeOK
      <4>4. cause[q] = "timer" => late'[q]
        BY <4>1, <4>3 DEF ReqInv, Completed
      <4>5. QED
        BY <3>1, <4>1, <4>2, <4>4
           DEF ReqInv, Undecided, Completed, Explained, Early, Holding
    <3>2. CASE r # q
      BY <1>4, <2>3, <3>2, OtherRequest DEF IInv, TypeOK, SettleErr, registry
    <3>3. QED BY <3>1, <3>2
  <2>4. QED BY <2>1, <2>2, <2>3 DEF IInv
<1>5. CASE Classify(q)
  <2>1. TypeOK'
    BY <1>5 DEF IInv, TypeOK, Classify, registry, Phases, Outcomes, Verdict
  <2>2. RegistryLive'
    BY <1>5 DEF IInv, RegistryLive, Classify, registry
  <2>3. ASSUME NEW r \in Requests PROVE ReqInv(r)'
    <3>1. CASE r = q
      BY <1>5, <3>1, SendsAssumption
         DEF IInv, TypeOK, RegistryLive, Classify, registry, Verdict, Gone, Phases, Causes, Outcomes,
             ReqInv, Undecided, Completed, Explained, Early, Holding
    <3>2. CASE r # q
      BY <1>5, <2>3, <3>2, OtherRequest DEF IInv, TypeOK, Classify, registry
    <3>3. QED BY <3>1, <3>2
  <2>4. QED BY <2>1, <2>2, <2>3 DEF IInv
<1>6. QED BY <1>1, <1>2, <1>3, <1>4, <1>5 DEF HelperStep

\* What the codec and the peer do to a request.
LEMMA CodecStep ==
  ASSUME IInv, NEW q \in Requests,
         Write(q) \/ PeerTakes(q) \/ ResponseTimer(q) \/ \E c \in Answers : Answer(q, c)
  PROVE  IInv'
<1>1. CASE Write(q)
  <2>1. TypeOK'
    BY <1>1 DEF IInv, TypeOK, Write, registry, Phases, Causes
  <2>2. RegistryLive'
    BY <1>1 DEF IInv, RegistryLive, Write, registry
  <2>3. ASSUME NEW r \in Requests PROVE ReqInv(r)'
    <3>1. CASE r = q
      BY <1>1, <3>1, SendsAssumption
         DEF IInv, TypeOK, RegistryLive, Write, registry, Phases, Causes, Outcomes,
             ReqInv, Undecided, Completed, Explained, Early, Holding
    <3>2. CASE r # q
      BY <1>1, <2>3, <3>2, OtherRequest DEF IInv, TypeOK, Write, registry
    <3>3. QED BY <3>1, <3>2
  <2>4. QED BY <2>1, <2>2, <2>3 DEF IInv
<1>2. CASE PeerTakes(q)
  <2>1. TypeOK'
    BY <1>2 DEF IInv, TypeOK, PeerTakes, registry
  <2>2. RegistryLive'
    BY <1>2 DEF IInv, RegistryLive, PeerTakes, registry
  <2>3. ASSUME NEW r \in Requests PROVE ReqInv(r)'
    <3>1. CASE r = q
      BY <1>2, <3>1, SendsAssumption
         DEF IInv, TypeOK, RegistryLive, PeerTakes, registry, Phases, Causes, Outcomes,
             ReqInv, Undecided, Completed, Explained, Early, Holding
    <3>2. CASE r # q
      BY <1>2, <2>3, <3>2, OtherRequest DEF IInv, TypeOK, PeerTakes, registry
    <3>3. QED BY <3>1, <3>2
  <2>4. QED BY <2>1, <2>2, <2>3 DEF IInv
<1>3. CASE ResponseTimer(q)
  <2>1. TypeOK'
    <3>1. target[q] \in Sessions
      BY <1>3 DEF ResponseTimer, IInv, ReqInv, Undecided, Holding
    <3>2. QED BY <1>3, <3>1 DEF IInv, TypeOK, ResponseTimer, registry, Phases, Causes
  <2>2. RegistryLive'
    BY <1>3 DEF IInv, RegistryLive, ResponseTimer, registry
  <2>3. ASSUME NEW r \in Requests PROVE ReqInv(r)'
    <3>1. CASE r = q
      BY <1>3, <3>1, SendsAssumption
         DEF IInv, TypeOK, RegistryLive, ResponseTimer, registry, Phases, Causes, Outcomes,
             ReqInv, Undecided, Completed, Explained, Early, Holding
    <3>2. CASE r # q
      BY <1>3, <2>3, <3>2, OtherRequest DEF IInv, TypeOK, ResponseTimer, registry
    <3>3. QED BY <3>1, <3>2
  <2>4. QED BY <2>1, <2>2, <2>3 DEF IInv
<1>4. CASE \E c \in Answers : Answer(q, c)
  <2>1. TypeOK'
    BY <1>4 DEF IInv, TypeOK, Answer, Answers, registry, Phases, Causes
  <2>2. RegistryLive'
    BY <1>4 DEF IInv, RegistryLive, Answer, Answers, registry, Phases, Causes
  <2>3. ASSUME NEW r \in Requests PROVE ReqInv(r)'
    <3>1. CASE r = q
      BY <1>4, <3>1, SendsAssumption
         DEF IInv, TypeOK, RegistryLive, Answer, Answers, registry, Phases, Causes, Phases, Causes, Outcomes,
             ReqInv, Undecided, Completed, Explained, Early, Holding
    <3>2. CASE r # q
      BY <1>4, <2>3, <3>2, OtherRequest DEF IInv, TypeOK, Answer, Answers, registry, Phases, Causes
    <3>3. QED BY <3>1, <3>2
  <2>4. QED BY <2>1, <2>2, <2>3 DEF IInv
<1>5. QED BY <1>1, <1>2, <1>3, <1>4

\* Time passes: the two clocks of a request that is outstanding run together.
LEMMA TickStep == IInv /\ Tick => IInv'
<1> SUFFICES ASSUME IInv, Tick PROVE IInv'
  OBVIOUS
<1>1. TypeOK'
  BY SendsAssumption DEF IInv, TypeOK, Tick, registry
<1>2. RegistryLive'
  BY DEF IInv, RegistryLive, Tick, registry
<1>3. ASSUME NEW r \in Requests PROVE ReqInv(r)'
  BY <1>3, SendsAssumption
     DEF IInv, TypeOK, Tick, registry, Running, CodecRunning, ReqInv, Undecided, Completed, Explained, Early, Holding
<1>4. QED BY <1>1, <1>2, <1>3 DEF IInv

\* Every step preserves the invariant.
LEMMA NextIInv == IInv /\ [Next]_vars => IInv'
<1> SUFFICES ASSUME IInv, [Next]_vars PROVE IInv'
  OBVIOUS
<1>1. CASE UNCHANGED vars
  BY <1>1 DEF vars, IInv, TypeOK, RegistryLive, ReqInv, Undecided, Completed, Explained
<1>2. CASE Next
  BY <1>2, SessionStep, LookupStep, HelperStepInv, CodecStep, TickStep DEF Next
<1>3. QED BY <1>1, <1>2

\* The invariant holds throughout.
LEMMA Inductive == Spec => []IInv
  BY InitIInv, NextIInv, PTL DEF Spec

-----------------------------------------------------------------------------
\* Every variable of the registries and of the calls keeps its type.
THEOREM TypeCorrect == Spec => []TypeOK
<1>1. IInv => TypeOK BY DEF IInv
<1>2. QED BY <1>1, Inductive, PTL

\* After "nack", "unanswered" or KeyError the peer has not taken the message
\* (settle and classify of outcome.rs): sending it again is safe.
THEOREM SafeRetryHolds == Spec => []SafeRetry
<1>1. IInv => SafeRetry
  BY DEF IInv, ReqInv, Undecided, Explained, SafeRetry
<1>2. QED BY <1>1, Inductive, PTL

\* The reason a script is given for a failed request is the right one.
THEOREM FailureExplainedHolds == Spec => []FailureExplained
<1>1. IInv => FailureExplained
  BY DEF IInv, ReqInv, Undecided, Explained, FailureExplained
<1>2. QED BY <1>1, Inductive, PTL

\* What a step does to the target and to the cause of a request: a target is
\* found once, for a request that has no cause yet, and a timer's expiry is final.
LEMMA TargetsStay ==
  ASSUME IInv, [Next]_vars, NEW r \in Requests, cause[r] = "timer"
  PROVE  target'[r] = target[r] /\ cause'[r] = "timer"
<1>1. phase[r] \notin Early \cup {"outstanding"}
  BY DEF IInv, ReqInv, Undecided
<1>2. CASE UNCHANGED vars
  BY <1>2 DEF vars
<1>3. CASE \E s \in Sessions : Bound(s) \/ SessionEnds(s) \/ Unbound(s) \/ Release(s) \/ OnTimeout(s)
  BY <1>1, <1>3 DEF Bound, SessionEnds, Unbound, Release, OnTimeout, calls
<1>4. CASE \E q \in Requests, n \in Names : Lookup(q, n) \/ LookupFails(q, n)
  BY <1>1, <1>4 DEF Lookup, LookupFails, IInv, TypeOK, Early
<1>5. CASE \E q \in Requests : HelperStep(q)
  BY <1>5 DEF HelperStep, Pace, Settle, SettleOk, SettleErr, Classify
<1>6. CASE \E q \in Requests : Write(q)
  BY <1>1, <1>6 DEF Write, IInv, TypeOK, Early
<1>7. CASE \E q \in Requests : PeerTakes(q) \/ ResponseTimer(q)
  BY <1>7 DEF PeerTakes, ResponseTimer, IInv, TypeOK
<1>8. CASE \E q \in Requests, c \in Answers : Answer(q, c)
  BY <1>1, <1>8 DEF Answer, IInv, TypeOK
<1>9. CASE Tick
  BY <1>9 DEF Tick
<1>10. QED BY <1>2, <1>3, <1>4, <1>5, <1>6, <1>7, <1>8, <1>9 DEF Next

\* Only a timer that ran out puts a session into timedOut, and only that
\* session's on_timeout moves it to unbinding.
LEMMA TimedOutStep == IInv /\ TimedOut /\ [Next]_vars => TimedOut'
<1> SUFFICES ASSUME IInv, TimedOut, [Next]_vars, NEW s \in timedOut' \cup unbinding'
             PROVE  \E r \in Requests : target'[r] = s /\ cause'[r] = "timer"
  BY DEF TimedOut
<1>1. CASE s \in timedOut \cup unbinding
  <2>1. PICK r \in Requests : target[r] = s /\ cause[r] = "timer"
    BY <1>1 DEF TimedOut
  <2>2. QED BY <2>1, TargetsStay
<1>2. CASE s \notin timedOut \cup unbinding
  <2>1. \E q \in Requests : ResponseTimer(q)
    BY <1>2 DEF Next, vars, Bound, SessionEnds, Unbound, Release, OnTimeout, Lookup, LookupFails,
         HelperStep, Pace, Settle, SettleOk, SettleErr, Classify, Write, PeerTakes, Answer,
         Tick, registry
  <2>2. PICK q \in Requests : ResponseTimer(q)
    BY <2>1
  <2>3. s = target[q] /\ target' = target /\ cause'[q] = "timer"
    BY <1>2, <2>2 DEF ResponseTimer, IInv, TypeOK
  <2>4. QED BY <2>3
<1>3. QED BY <1>1, <1>2

\* on_timeout takes down only sessions on which a response timer ran out, and
\* never the successor registered under the same name meanwhile.
THEOREM OnlyTimedOutUnboundHolds == Spec => []OnlyTimedOutUnbound
<1>1. Init => TimedOut
  BY DEF Init, TimedOut
<1>2. TimedOut => OnlyTimedOutUnbound
  BY DEF TimedOut, OnlyTimedOutUnbound
<1>3. QED BY <1>1, <1>2, TimedOutStep, Inductive, PTL DEF Spec

\* A step that is neither a hook's nor a lookup leaves the order alone.
LEMMA OrderedStep == IInv /\ Ordered /\ [Next]_vars => Ordered'
<1> SUFFICES ASSUME IInv, Ordered, [Next]_vars PROVE Ordered'
  OBVIOUS
<1>1. CASE \E s \in Sessions : Bound(s)
  <2>1. PICK s \in Sessions : Bound(s)
    BY <1>1
  <2>2. /\ sess[s] = "new" /\ sess' = [sess EXCEPT ![s] = "up"]
        /\ registered' = registered \cup {s} /\ target' = target
        /\ position' = [position EXCEPT ![s] = pushes + 1] /\ pushes' = pushes + 1
    BY <2>1 DEF Bound, calls
  <2>3. \A t \in Sessions : position'[t] <= pushes'
    BY <2>2 DEF IInv, TypeOK, Ordered
  <2>4. ASSUME NEW q \in Requests, target[q] \in Sessions
        PROVE  /\ sess'[target[q]] # "new"
               /\ \A t \in registered' : NameOf[t] = NameOf[target[q]] => position'[target[q]] <= position'[t]
    BY <2>2, <2>4 DEF IInv, TypeOK, Ordered
  <2>5. QED BY <2>2, <2>3, <2>4 DEF Ordered
<1>2. CASE \E s \in Sessions : SessionEnds(s) \/ Unbound(s) \/ Release(s)
  <2>1. /\ \A s \in Sessions : sess[s] # "new" => sess'[s] # "new"
        /\ registered' \subseteq registered
        /\ position' = position /\ pushes' = pushes /\ target' = target
    BY <1>2 DEF SessionEnds, Unbound, Release, calls, IInv, TypeOK
  <2>2. QED BY <2>1 DEF Ordered
<1>3. CASE \E r \in Requests, n \in Names : Lookup(r, n)
  <2>1. PICK r \in Requests, n \in Names : Lookup(r, n)
    BY <1>3
  <2>2. PICK s \in Sessions : IsFirstMatch(s, n) /\ target' = [target EXCEPT ![r] = s]
    BY <2>1 DEF Lookup
  <2>3. sess' = sess /\ registered' = registered /\ position' = position /\ pushes' = pushes
    BY <2>1 DEF Lookup, registry
  <2>4. sess[s] # "new" /\ \A t \in registered : NameOf[t] = NameOf[s] => position[s] <= position[t]
    BY <2>2 DEF IsFirstMatch, Matches, IInv, RegistryLive
  <2>5. QED BY <2>2, <2>3, <2>4 DEF Ordered, IInv, TypeOK
<1>4. CASE ~\E s \in Sessions : Bound(s) \/ SessionEnds(s) \/ Unbound(s) \/ Release(s)
  <2>1. CASE ~\E r \in Requests, n \in Names : Lookup(r, n)
    <3>1. /\ sess' = sess /\ registered' = registered /\ position' = position /\ pushes' = pushes
          /\ target' = target
      BY <1>4, <2>1
         DEF Next, vars, OnTimeout, LookupFails, HelperStep, Pace, Settle, SettleOk, SettleErr,
             Classify, Write, PeerTakes, ResponseTimer, Answer, Tick, calls, registry
    <3>2. QED BY <3>1 DEF Ordered
  <2>2. QED BY <1>3, <2>1
<1>5. QED BY <1>1, <1>2, <1>3, <1>4

\* bind_handle never goes back to a session older than one it has handed out
\* under the same name.
THEOREM NeverBackToOlderHolds == Spec => NeverBackToOlder
<1> DEFINE Forward == \A r, q \in Requests :
             /\ target'[r] # target[r] /\ target[q] # NoSession
             /\ NameOf[target[q]] = NameOf[target'[r]]
             => position[target[q]] <= position[target'[r]]
<1>1. ASSUME IInv, Ordered, Next PROVE Forward
  <2>1. CASE \E q \in Requests, n \in Names : Lookup(q, n)
    <3>1. PICK q \in Requests, n \in Names : Lookup(q, n)
      BY <2>1
    <3>2. PICK s \in Sessions : s \in registered /\ target' = [target EXCEPT ![q] = s]
      BY <3>1 DEF Lookup, IsFirstMatch, Matches
    <3>3. ASSUME NEW r \in Requests, target'[r] # target[r] PROVE target'[r] = s
      BY <1>1, <3>2, <3>3 DEF IInv, TypeOK
    <3>4. ASSUME NEW p \in Requests, target[p] # NoSession, NameOf[target[p]] = NameOf[s]
          PROVE  position[target[p]] <= position[s]
      BY <1>1, <3>2, <3>4 DEF IInv, TypeOK, Ordered
    <3>5. QED BY <3>3, <3>4
  <2>2. CASE ~\E q \in Requests, n \in Names : Lookup(q, n)
    <3>1. target' = target
      BY <1>1, <2>2
         DEF Next, Bound, SessionEnds, Unbound, Release, OnTimeout, LookupFails, HelperStep, Pace,
             Settle, SettleOk, SettleErr, Classify, Write, PeerTakes, ResponseTimer, Answer,
             Tick, calls
    <3>2. QED BY <3>1
  <2>3. QED BY <2>1, <2>2
<1>2. IInv /\ Ordered /\ [Next]_vars => [Forward]_vars
  BY <1>1
<1>3. Init => Ordered
  BY SendsAssumption DEF Init, Ordered
<1>4. QED BY <1>2, <1>3, OrderedStep, Inductive, PTL DEF Spec, NeverBackToOlder
=============================================================================
