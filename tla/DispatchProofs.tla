--------------------------- MODULE DispatchProofs ---------------------------
(***************************************************************************)
(* Proofs about Dispatch, for any events, scripts and handlers, any number  *)
(* of workers and any two timeouts.                                         *)
(***************************************************************************)
EXTENDS Dispatch, DataProofs

\* What each stage of an event fixes: a handler is waited for only inside a
\* job or while a coroutine is out, an answer is the last thing that happens,
\* and the oneshot and the clock of a wait are gone when the wait is.
StageInv ==
  \A e \in Events :
    /\ current[e] # NoHandler => stage[e] \in {"calling", "pending"} /\ called[e] # <<>>
    /\ stage[e] = "pending" => current[e] # NoHandler
    /\ outcome[e] # "none" => stage[e] = "done"
    /\ stage[e] # "pending" => box[e] = "empty" /\ settleAge[e] = 0 /\ stuck[e] = 0

\* The snapshot has been taken before a handler is called.
LookedInv ==
  \A e \in Events : stage[e] \in {"ready", "calling", "pending"} => looked[e]

\* The coroutine waited for has ended exactly if the oneshot is full, and
\* unless the backstop has fired it is the only one of the event's on the loop.
CoroInv ==
  \A e \in Events :
    /\ stage[e] = "pending" =>
         coro[e][current[e]] # "none" /\ (box[e] = "empty" <=> coro[e][current[e]] # "ended")
    /\ ~gaveUp[e] => \A h \in Handlers :
         coro[e][h] \in {"submitted", "running", "unwinding"} =>
           stage[e] = "pending" /\ current[e] = h

\* What a session event has called and has yet to call are, together, the
\* handlers of one version of the script.
OneScript(e, taken, before, after, result) ==
  /\ ~taken => before = <<>>
  /\ taken => \E s \in Scripts : before \o after = Matching(s, e)
  /\ result = "done" => taken /\ after = <<>>

SnapshotInv ==
  \A e \in Events : Kind[e] = "session" =>
    OneScript(e, looked[e], called[e], remaining[e], outcome[e])

\* An event with one handler is over once the backstop has fired for it.
OneHandlerInv ==
  \A e \in Events : Kind[e] # "session" /\ gaveUp[e] => stage[e] = "done"

\* How far the tokio task's clock can be ahead of the wrapper's: by the ticks
\* the coroutine was stuck.
Ahead(state, age, waited, held) ==
  /\ state = "submitted" => waited <= held
  /\ state = "running" => waited <= age + held
  /\ state = "unwinding" => waited <= Timeout + held

ClockInv ==
  \A e \in Events : stage[e] = "pending" /\ box[e] = "empty" /\ stuck[e] < Backstop =>
    Ahead(coro[e][current[e]], coroAge[e][current[e]], settleAge[e], stuck[e])

IInv == /\ TypeOK /\ StageInv /\ LookedInv /\ CoroInv /\ SnapshotInv /\ OneHandlerInv
        /\ BindClosedByDefault /\ ClockInv

-----------------------------------------------------------------------------
\* Looking handlers up gives a list of handlers.
LEMMA MatchingType ==
  ASSUME NEW s \in Scripts, NEW e \in Events
  PROVE  Matching(s, e) \in Seq(Handlers)
<1>1. Registered[s] \in Seq(Handlers)
  BY DispatchAssumption
<1>2. QED
  BY <1>1, FilterType DEF Matching

\* What a job looks up is a list of handlers, the first match alone or all.
LEMMA LookupType ==
  ASSUME TypeOK, NEW e \in Events
  PROVE  Lookup(e) \in Seq(Handlers)
<1>1. Matching(script, e) \in Seq(Handlers)
  BY MatchingType DEF TypeOK
<1>2. QED
  <2> HIDE DEF Matching
  <2> QED BY <1>1 DEF Lookup

\* Moving the head of what is left to the end of what was called leaves the
\* whole list as it is.
LEMMA MoveHead ==
  ASSUME NEW X, NEW c \in Seq(X), NEW r \in Seq(X), r # <<>>
  PROVE  Append(c, Head(r)) \o Tail(r) = c \o r /\ Append(c, Head(r)) # <<>>
OBVIOUS

-----------------------------------------------------------------------------
\* A dispatcher that has not begun satisfies the inductive invariant.
LEMMA InitIInv == Init => IInv
<1> SUFFICES ASSUME Init PROVE IInv
  OBVIOUS
<1> USE DispatchAssumption DEF Init
<1>1. TypeOK
  <2>1. looked \in [Events -> BOOLEAN] /\ gaveUp \in [Events -> BOOLEAN] /\ loopUp \in BOOLEAN
    BY Zenon
  <2>2. QED
    BY <2>1 DEF TypeOK, Stages, CoroStates, Outcomes
<1>2. StageInv /\ LookedInv
  BY DEF StageInv, LookedInv
<1>3. CoroInv /\ ClockInv
  BY DEF CoroInv, ClockInv, Ahead
<1>4. SnapshotInv
  BY DEF SnapshotInv, OneScript
<1>5. OneHandlerInv /\ BindClosedByDefault
  BY DEF OneHandlerInv, BindClosedByDefault
<1>6. QED
  BY <1>1, <1>2, <1>3, <1>4, <1>5 DEF IInv

\* pdu_reply and bind_outcome give the listener an answer it knows.
LEMMA ConvertedType ==
  ASSUME NEW e \in Events, NEW r
  PROVE  Converted(e, r) \in {"accept", "refuse", "error"}
BY DEF Converted

\* Settling a handler keeps the tokio task's state well typed.
LEMMA SettledType ==
  ASSUME TypeOK, NEW e \in Events, NEW r, NEW next \in Stages, Settled(e, r, next)
  PROVE  /\ stage' \in [Events -> Stages]
         /\ current' \in [Events -> Handlers \cup {NoHandler}]
         /\ outcome' \in [Events -> Outcomes]
<1>1. CASE /\ stage' = [stage EXCEPT ![e] = next]
           /\ current' = [current EXCEPT ![e] = NoHandler]
           /\ UNCHANGED outcome
  BY <1>1 DEF TypeOK
<1>2. CASE Kind[e] # "session" /\ Return(e, Converted(e, r))
  <2>1. Converted(e, r) \in Outcomes
    BY ConvertedType DEF Outcomes
  <2>2. QED
    BY <1>2, <2>1 DEF Return, TypeOK, Stages
<1>3. QED
  BY <1>1, <1>2 DEF Settled

\* The recorded return value is one a handler can give.
LEMMA SeenType ==
  ASSUME TypeOK, NEW e \in Events, NEW r \in Results, Seen(e, r)
  PROVE  value' \in [Events -> Results \cup {"none"}]
BY DEF Seen, TypeOK

\* Every step preserves the types: neither clock runs past the time at which
\* its timeout is due.
LEMMA TypeStep == IInv /\ [Next]_vars => TypeOK'
<1> SUFFICES ASSUME IInv, [Next]_vars PROVE TypeOK'
  OBVIOUS
<1>0. TypeOK /\ StageInv
  BY DEF IInv
<1> USE <1>0, DispatchAssumption DEF TypeOK, tokio, loop, history
<1>1. ASSUME NEW e \in Events, Submit(e) PROVE TypeOK'
  <2>1. JobFailed(e) \in Outcomes
    BY DEF JobFailed, Outcomes
  <2>2. CASE stage' = [stage EXCEPT ![e] = "queued"] /\ UNCHANGED <<current, outcome>>
    BY <1>1, <2>2 DEF Submit, Stages
  <2>3. CASE Return(e, JobFailed(e))
    BY <1>1, <2>1, <2>3 DEF Submit, Return, Stages
  <2>4. QED
    BY <1>1, <2>2, <2>3 DEF Submit
<1>2. ASSUME NEW e \in Events, JobStarts(e) PROVE TypeOK'
  <2>1. looked' \in [Events -> BOOLEAN]
    BY <1>2, Zenon DEF JobStarts
  <2>2. remaining' \in [Events -> Seq(Handlers)]
    <3>1. Lookup(e) \in Seq(Handlers)
      BY LookupType
    <3>2. QED
      <4> HIDE DEF Lookup
      <4> QED BY <1>2, <3>1 DEF JobStarts
  <2>3. QED
    BY <1>2, <2>1, <2>2 DEF JobStarts, Stages
<1>3. ASSUME NEW e \in Events, JobEnds(e) PROVE TypeOK'
  <2>1. Unhandled(e) \in Outcomes
    BY DEF Unhandled, Outcomes
  <2>2. QED
    BY <1>3, <2>1 DEF JobEnds, Return, Stages
<1>4. ASSUME NEW e \in Events, CallSync(e) PROVE TypeOK'
  <2>1. remaining' \in [Events -> Seq(Handlers)] /\ called' \in [Events -> Seq(Handlers)]
    BY <1>4 DEF CallSync
  <2>2. current' \in [Events -> Handlers \cup {NoHandler}]
    BY <1>4 DEF CallSync
  <2>3. QED
    BY <1>4, <2>1, <2>2 DEF CallSync
<1>5. ASSUME NEW e \in Events, NEW r \in ResultsOf(e), SyncReturns(e, r) PROVE TypeOK'
  <2>1. value' \in [Events -> Results \cup {"none"}]
    BY <1>5, SeenType DEF SyncReturns, ResultsOf, Results, Values
  <2>2. QED
    <3>1. "calling" \in Stages /\ Settled(e, r, "calling")
      BY <1>5 DEF SyncReturns, Stages
    <3>2. /\ stage' \in [Events -> Stages]
          /\ current' \in [Events -> Handlers \cup {NoHandler}]
          /\ outcome' \in [Events -> Outcomes]
      BY <3>1, SettledType
    <3>3. QED
      BY <1>5, <2>1, <3>2 DEF SyncReturns
<1>6. ASSUME NEW e \in Events, CallAsync(e) PROVE TypeOK'
  <2>1. Head(remaining[e]) \in Handlers /\ Tail(remaining[e]) \in Seq(Handlers)
    BY <1>6 DEF CallAsync
  <2>2. remaining' \in [Events -> Seq(Handlers)] /\ called' \in [Events -> Seq(Handlers)]
    BY <1>6, <2>1 DEF CallAsync
  <2>3. current' \in [Events -> Handlers \cup {NoHandler}]
    BY <1>6, <2>1 DEF CallAsync
  <2>4. coro' \in [Events -> [Handlers -> CoroStates]]
    BY <1>6, <2>1 DEF CallAsync, CoroStates
  <2>5. stage' \in [Events -> Stages]
    BY <1>6 DEF CallAsync, Stages
  <2>6. UNCHANGED <<script, looked, settleAge, box, outcome, loopUp, coroAge, value, gaveUp, stuck>>
    BY <1>6 DEF CallAsync
  <2>7. QED
    BY <2>2, <2>3, <2>4, <2>5, <2>6
<1>7. ASSUME NEW e \in Events, CallAsyncFails(e) PROVE TypeOK'
  <2>1. value' \in [Events -> Results \cup {"none"}]
    BY <1>7, SeenType DEF CallAsyncFails, Results
  <2>2. QED
    <3>1. "calling" \in Stages /\ Settled(e, "raised", "calling")
      BY <1>7 DEF CallAsyncFails, Stages
    <3>2. /\ stage' \in [Events -> Stages]
          /\ current' \in [Events -> Handlers \cup {NoHandler}]
          /\ outcome' \in [Events -> Outcomes]
      BY <3>1, SettledType
    <3>3. remaining' \in [Events -> Seq(Handlers)] /\ called' \in [Events -> Seq(Handlers)]
      BY <1>7 DEF CallAsyncFails
    <3>4. UNCHANGED <<script, looked, settleAge, box, loop, gaveUp, stuck>>
      BY <1>7 DEF CallAsyncFails
    <3>5. QED
      BY <2>1, <3>2, <3>3, <3>4
<1>8. ASSUME NEW e \in Events, JobPanics(e) PROVE TypeOK'
  <2>1. JobFailed(e) \in Outcomes
    BY DEF JobFailed, Outcomes
  <2>2. QED
    BY <1>8, <2>1 DEF JobPanics, Return, Stages
<1>9. ASSUME NEW e \in Events, Settle(e) PROVE TypeOK'
  <2>1. box[e] \in Results
    BY <1>9 DEF Settle
  <2>2. value' \in [Events -> Results \cup {"none"}]
    BY <1>9, <2>1, SeenType DEF Settle
  <2>3. QED
    <3>1. "ready" \in Stages /\ Settled(e, box[e], "ready")
      BY <1>9 DEF Settle, Stages
    <3>2. /\ stage' \in [Events -> Stages]
          /\ current' \in [Events -> Handlers \cup {NoHandler}]
          /\ outcome' \in [Events -> Outcomes]
      BY <3>1, SettledType
    <3>3. /\ box' \in [Events -> Results \cup {"empty"}]
          /\ settleAge' \in [Events -> 0 .. Timeout + Backstop] /\ stuck' \in [Events -> 0 .. Backstop]
      BY <1>9 DEF Settle, StopWaiting
    <3>4. UNCHANGED <<script, remaining, looked, loop, called, gaveUp>>
      BY <1>9 DEF Settle
    <3>5. QED
      BY <2>2, <3>2, <3>3, <3>4
<1>10. ASSUME NEW e \in Events, BackstopFires(e) PROVE TypeOK'
  <2>1. value' \in [Events -> Results \cup {"none"}]
    BY <1>10, SeenType DEF BackstopFires, Results
  <2>2. gaveUp' \in [Events -> BOOLEAN]
    BY <1>10, Zenon DEF BackstopFires
  <2>3. QED
    <3>1. "ready" \in Stages /\ Settled(e, "raised", "ready")
      BY <1>10 DEF BackstopFires, Stages
    <3>2. /\ stage' \in [Events -> Stages]
          /\ current' \in [Events -> Handlers \cup {NoHandler}]
          /\ outcome' \in [Events -> Outcomes]
      BY <3>1, SettledType
    <3>3. QED
      BY <1>10, <2>1, <2>2, <3>2 DEF BackstopFires, StopWaiting
<1>11. ASSUME NEW e \in Events, NEW h \in Handlers, CoroStarts(e, h) PROVE TypeOK'
  BY <1>11 DEF CoroStarts, CoroStates
<1>12. ASSUME NEW e \in Events, NEW h \in Handlers, NEW r \in ResultsOf(e), CoroEnds(e, h, r)
       PROVE  TypeOK'
  <2>1. r \in Results
    BY DEF ResultsOf, Results, Values
  <2>2. box' \in [Events -> Results \cup {"empty"}]
    BY <1>12, <2>1 DEF CoroEnds, Report
  <2>3. /\ coro' \in [Events -> [Handlers -> CoroStates]]
        /\ coroAge' \in [Events -> [Handlers -> 0 .. Timeout]]
    BY <1>12 DEF CoroEnds, CoroStates
  <2>4. UNCHANGED <<script, tokio, loopUp, history>>
    BY <1>12 DEF CoroEnds
  <2>5. QED
    BY <2>2, <2>3, <2>4
<1>13. ASSUME NEW e \in Events, NEW h \in Handlers, CoroExpires(e, h) PROVE TypeOK'
  BY <1>13 DEF CoroExpires, CoroStates
<1>14. ASSUME NEW e \in Events, NEW h \in Handlers, CoroDropped(e, h) PROVE TypeOK'
  <2>1. box' \in [Events -> Results \cup {"empty"}]
    BY <1>14 DEF CoroDropped, Report, Results
  <2>2. /\ coro' \in [Events -> [Handlers -> CoroStates]]
        /\ coroAge' \in [Events -> [Handlers -> 0 .. Timeout]]
    BY <1>14 DEF CoroDropped, CoroStates
  <2>3. UNCHANGED <<script, tokio, loopUp, history>>
    BY <1>14 DEF CoroDropped
  <2>4. QED
    BY <2>1, <2>2, <2>3
<1>15. CASE LoopStallsOrResumes
  <2>1. loopUp' \in BOOLEAN
    BY <1>15, Zenon DEF LoopStallsOrResumes
  <2>2. QED
    BY <1>15, <2>1 DEF LoopStallsOrResumes
<1>16. ASSUME NEW s \in Scripts, HotReload(s) PROVE TypeOK'
  BY <1>16 DEF HotReload
<1>17. CASE Tick
  <2>1. settleAge' \in [Events -> 0 .. Timeout + Backstop]
    BY <1>17 DEF Tick
  <2>2. coroAge' \in [Events -> [Handlers -> 0 .. Timeout]]
    <3>1. coroAge' = [e \in Events |-> [h \in Handlers |->
                        IF coro[e][h] = "running" /\ coroAge[e][h] < Timeout
                        THEN coroAge[e][h] + 1 ELSE coroAge[e][h]]]
      BY <1>17 DEF Tick
    <3>2. ASSUME NEW e \in Events, NEW h \in Handlers
          PROVE  (IF coro[e][h] = "running" /\ coroAge[e][h] < Timeout
                  THEN coroAge[e][h] + 1 ELSE coroAge[e][h]) \in 0 .. Timeout
      <4>1. coroAge[e][h] \in 0 .. Timeout /\ Timeout \in Nat
        OBVIOUS
      <4>2. QED
        BY <4>1
    <3>3. QED
      BY <3>1, <3>2, Zenon
  <2>3. stuck' \in [Events -> 0 .. Backstop]
    BY <1>17 DEF Tick
  <2>4. QED
    BY <1>17, <2>1, <2>2, <2>3 DEF Tick
<1>18. CASE UNCHANGED vars
  BY <1>18 DEF vars
<1> QED
  BY <1>1, <1>2, <1>3, <1>4, <1>5, <1>6, <1>7, <1>8, <1>9, <1>10, <1>11, <1>12, <1>13, <1>14,
     <1>15, <1>16, <1>17, <1>18
  DEF Next, Job, Await, Coroutine

\* A handler that is over goes back to the event: a session event goes on,
\* any other is answered.
LEMMA SettledEffect ==
  ASSUME outcome \in [Events -> Outcomes], NEW e \in Events, NEW r, NEW next, Settled(e, r, next)
  PROVE  /\ current' = [current EXCEPT ![e] = NoHandler]
         /\ stage' = [stage EXCEPT ![e] = IF Kind[e] = "session" THEN next ELSE "done"]
         /\ outcome' = [outcome EXCEPT ![e] = IF Kind[e] = "session" THEN @ ELSE Converted(e, r)]
<1>1. CASE /\ Kind[e] = "session"
           /\ stage' = [stage EXCEPT ![e] = next]
           /\ current' = [current EXCEPT ![e] = NoHandler]
           /\ UNCHANGED outcome
  BY <1>1
<1>2. CASE Kind[e] # "session" /\ Return(e, Converted(e, r))
  BY <1>2 DEF Return
<1>3. QED
  BY <1>1, <1>2 DEF Settled

\* What calling the next handler does to an event's lists.
LEMMA NextHandler ==
  ASSUME TypeOK, NEW e \in Events, remaining[e] # <<>>
  PROVE  /\ Head(remaining[e]) \in Handlers /\ Head(remaining[e]) # NoHandler
         /\ Append(called[e], Head(remaining[e])) # <<>>
         /\ Append(called[e], Head(remaining[e])) \o Tail(remaining[e]) = called[e] \o remaining[e]
<1>1. called[e] \in Seq(Handlers) /\ remaining[e] \in Seq(Handlers)
  BY DEF TypeOK
<1>2. Head(remaining[e]) \in Handlers
  BY <1>1
<1>3. Head(remaining[e]) # NoHandler
  BY <1>2, DispatchAssumption
<1>4. QED
  BY <1>1, <1>2, <1>3, MoveHead

\* Every step keeps the stage of an event in agreement with the handler it
\* waits for, its answer and its two clocks.
LEMMA StageStep == IInv /\ [Next]_vars => StageInv'
<1> SUFFICES ASSUME IInv, [Next]_vars, NEW f \in Events
             PROVE  StageInv!(f)'
  BY DEF StageInv
<1>0. TypeOK /\ StageInv
  BY DEF IInv
<1> USE <1>0 DEF TypeOK, StageInv, tokio, loop, history
<1>1. ASSUME NEW e \in Events, Submit(e) PROVE StageInv!(f)'
  <2>1. CASE stage' = [stage EXCEPT ![e] = "queued"] /\ UNCHANGED <<current, outcome>>
    BY <1>1, <2>1 DEF Submit
  <2>2. CASE Return(e, JobFailed(e))
    BY <1>1, <2>2 DEF Submit, Return
  <2>3. QED
    BY <1>1, <2>1, <2>2 DEF Submit
<1>2. ASSUME NEW e \in Events, JobStarts(e) PROVE StageInv!(f)'
  <2>1. /\ stage[e] = "queued" /\ stage' = [stage EXCEPT ![e] = "calling"]
        /\ UNCHANGED <<current, called, outcome, box, settleAge, stuck>>
    BY <1>2 DEF JobStarts
  <2>2. QED
    BY <2>1
<1>3. ASSUME NEW e \in Events, JobEnds(e) PROVE StageInv!(f)'
  BY <1>3 DEF JobEnds, Return
<1>4. ASSUME NEW e \in Events, CallSync(e) PROVE StageInv!(f)'
  <2>1. Head(remaining[e]) # NoHandler /\ Append(called[e], Head(remaining[e])) # <<>>
    BY <1>4, NextHandler DEF CallSync
  <2>2. QED
    BY <1>4, <2>1 DEF CallSync
<1>5. ASSUME NEW e \in Events, NEW r \in ResultsOf(e), SyncReturns(e, r) PROVE StageInv!(f)'
  <2>1. Settled(e, r, "calling")
    BY <1>5 DEF SyncReturns
  <2>2. /\ current' = [current EXCEPT ![e] = NoHandler]
        /\ stage' = [stage EXCEPT ![e] = IF Kind[e] = "session" THEN "calling" ELSE "done"]
        /\ outcome' = [outcome EXCEPT ![e] = IF Kind[e] = "session" THEN @ ELSE Converted(e, r)]
    BY <2>1, SettledEffect
  <2>3. QED
    BY <1>5, <2>2 DEF SyncReturns
<1>6. ASSUME NEW e \in Events, CallAsync(e) PROVE StageInv!(f)'
  <2>1. Head(remaining[e]) # NoHandler /\ Append(called[e], Head(remaining[e])) # <<>>
    BY <1>6, NextHandler DEF CallAsync
  <2>2. QED
    BY <1>6, <2>1 DEF CallAsync
<1>7. ASSUME NEW e \in Events, CallAsyncFails(e) PROVE StageInv!(f)'
  <2>1. Settled(e, "raised", "calling")
    BY <1>7 DEF CallAsyncFails
  <2>2. /\ current' = [current EXCEPT ![e] = NoHandler]
        /\ stage' = [stage EXCEPT ![e] = IF Kind[e] = "session" THEN "calling" ELSE "done"]
        /\ outcome' = [outcome EXCEPT ![e] = IF Kind[e] = "session" THEN @ ELSE Converted(e, "raised")]
    BY <2>1, SettledEffect
  <2>3. QED
    BY <1>7, <2>2 DEF CallAsyncFails
<1>8. ASSUME NEW e \in Events, JobPanics(e) PROVE StageInv!(f)'
  BY <1>8 DEF JobPanics, Return
<1>9. ASSUME NEW e \in Events, Settle(e) PROVE StageInv!(f)'
  <2>1. Settled(e, box[e], "ready")
    BY <1>9 DEF Settle
  <2>2. /\ current' = [current EXCEPT ![e] = NoHandler]
        /\ stage' = [stage EXCEPT ![e] = IF Kind[e] = "session" THEN "ready" ELSE "done"]
        /\ outcome' = [outcome EXCEPT ![e] = IF Kind[e] = "session" THEN @ ELSE Converted(e, box[e])]
    BY <2>1, SettledEffect
  <2>3. QED
    BY <1>9, <2>2 DEF Settle, StopWaiting
<1>10. ASSUME NEW e \in Events, BackstopFires(e) PROVE StageInv!(f)'
  <2>1. Settled(e, "raised", "ready")
    BY <1>10 DEF BackstopFires
  <2>2. /\ current' = [current EXCEPT ![e] = NoHandler]
        /\ stage' = [stage EXCEPT ![e] = IF Kind[e] = "session" THEN "ready" ELSE "done"]
        /\ outcome' = [outcome EXCEPT ![e] = IF Kind[e] = "session" THEN @ ELSE Converted(e, "raised")]
    BY <2>1, SettledEffect
  <2>3. QED
    BY <1>10, <2>2 DEF BackstopFires, StopWaiting
<1>11. ASSUME NEW e \in Events, NEW h \in Handlers, CoroStarts(e, h) \/ CoroExpires(e, h)
       PROVE  StageInv!(f)'
  BY <1>11 DEF CoroStarts, CoroExpires
<1>12. ASSUME NEW e \in Events, NEW h \in Handlers, NEW r \in ResultsOf(e), CoroEnds(e, h, r)
       PROVE  StageInv!(f)'
  BY <1>12 DEF CoroEnds, Report
<1>13. ASSUME NEW e \in Events, NEW h \in Handlers, CoroDropped(e, h) PROVE StageInv!(f)'
  BY <1>13 DEF CoroDropped, Report
<1>14. CASE LoopStallsOrResumes \/ UNCHANGED vars \/ \E s \in Scripts : HotReload(s)
  BY <1>14 DEF LoopStallsOrResumes, HotReload, vars
<1>15. CASE Tick
  BY <1>15 DEF Tick
<1> QED
  BY <1>1, <1>2, <1>3, <1>4, <1>5, <1>6, <1>7, <1>8, <1>9, <1>10, <1>11, <1>12, <1>13, <1>14, <1>15
  DEF Next, Job, Await, Coroutine

\* Every step keeps the snapshot of an event taken from its first job on.
LEMMA LookedStep == IInv /\ [Next]_vars => LookedInv'
<1> SUFFICES ASSUME IInv, [Next]_vars, NEW f \in Events
             PROVE  LookedInv!(f)'
  BY DEF LookedInv
<1>0. TypeOK /\ LookedInv
  BY DEF IInv
<1> USE <1>0 DEF TypeOK, LookedInv, tokio, loop, history
<1>1. ASSUME NEW e \in Events, Submit(e) PROVE LookedInv!(f)'
  <2>1. CASE stage' = [stage EXCEPT ![e] = "queued"]
    BY <1>1, <2>1 DEF Submit
  <2>2. CASE Return(e, JobFailed(e))
    BY <1>1, <2>2 DEF Submit, Return
  <2>3. QED
    BY <1>1, <2>1, <2>2 DEF Submit
<1>2. ASSUME NEW e \in Events, JobStarts(e) PROVE LookedInv!(f)'
  BY <1>2 DEF JobStarts
<1>3. ASSUME NEW e \in Events, JobEnds(e) PROVE LookedInv!(f)'
  BY <1>3 DEF JobEnds, Return
<1>4. ASSUME NEW e \in Events, CallSync(e) PROVE LookedInv!(f)'
  BY <1>4 DEF CallSync
<1>5. ASSUME NEW e \in Events, NEW r \in ResultsOf(e), SyncReturns(e, r) PROVE LookedInv!(f)'
  <2>1. Settled(e, r, "calling")
    BY <1>5 DEF SyncReturns
  <2>2. stage' = [stage EXCEPT ![e] = IF Kind[e] = "session" THEN "calling" ELSE "done"]
    BY <2>1, SettledEffect
  <2>3. QED
    BY <1>5, <2>2 DEF SyncReturns
<1>6. ASSUME NEW e \in Events, CallAsync(e) PROVE LookedInv!(f)'
  BY <1>6 DEF CallAsync
<1>7. ASSUME NEW e \in Events, CallAsyncFails(e) PROVE LookedInv!(f)'
  <2>1. Settled(e, "raised", "calling")
    BY <1>7 DEF CallAsyncFails
  <2>2. stage' = [stage EXCEPT ![e] = IF Kind[e] = "session" THEN "calling" ELSE "done"]
    BY <2>1, SettledEffect
  <2>3. QED
    BY <1>7, <2>2 DEF CallAsyncFails
<1>8. ASSUME NEW e \in Events, JobPanics(e) PROVE LookedInv!(f)'
  BY <1>8 DEF JobPanics, Return
<1>9. ASSUME NEW e \in Events, Settle(e) PROVE LookedInv!(f)'
  <2>1. Settled(e, box[e], "ready")
    BY <1>9 DEF Settle
  <2>2. stage' = [stage EXCEPT ![e] = IF Kind[e] = "session" THEN "ready" ELSE "done"]
    BY <2>1, SettledEffect
  <2>3. QED
    BY <1>9, <2>2 DEF Settle
<1>10. ASSUME NEW e \in Events, BackstopFires(e) PROVE LookedInv!(f)'
  <2>1. Settled(e, "raised", "ready")
    BY <1>10 DEF BackstopFires
  <2>2. stage' = [stage EXCEPT ![e] = IF Kind[e] = "session" THEN "ready" ELSE "done"]
    BY <2>1, SettledEffect
  <2>3. QED
    BY <1>10, <2>2 DEF BackstopFires
<1>11. ASSUME NEW e \in Events, NEW h \in Handlers, Coroutine(e, h) PROVE LookedInv!(f)'
  BY <1>11 DEF Coroutine, CoroStarts, CoroExpires, CoroEnds, CoroDropped
<1>12. CASE LoopStallsOrResumes \/ UNCHANGED vars \/ (\E s \in Scripts : HotReload(s)) \/ Tick
  BY <1>12 DEF LoopStallsOrResumes, HotReload, Tick, vars
<1> QED
  BY <1>1, <1>2, <1>3, <1>4, <1>5, <1>6, <1>7, <1>8, <1>9, <1>10, <1>11, <1>12
  DEF Next, Job, Await

\* Every step keeps an event with one handler answered once the backstop
\* has fired for it.
LEMMA OneHandlerStep == IInv /\ [Next]_vars => OneHandlerInv'
<1> SUFFICES ASSUME IInv, [Next]_vars, NEW f \in Events
             PROVE  OneHandlerInv!(f)'
  BY DEF OneHandlerInv
<1>0. TypeOK /\ OneHandlerInv
  BY DEF IInv
<1> USE <1>0 DEF TypeOK, OneHandlerInv, tokio, loop, history
<1>1. ASSUME NEW e \in Events, Submit(e) PROVE OneHandlerInv!(f)'
  <2>1. CASE stage' = [stage EXCEPT ![e] = "queued"]
    BY <1>1, <2>1 DEF Submit
  <2>2. CASE Return(e, JobFailed(e))
    BY <1>1, <2>2 DEF Submit, Return
  <2>3. QED
    BY <1>1, <2>1, <2>2 DEF Submit
<1>2. ASSUME NEW e \in Events, JobStarts(e) PROVE OneHandlerInv!(f)'
  BY <1>2 DEF JobStarts
<1>3. ASSUME NEW e \in Events, JobEnds(e) PROVE OneHandlerInv!(f)'
  BY <1>3 DEF JobEnds, Return
<1>4. ASSUME NEW e \in Events, CallSync(e) PROVE OneHandlerInv!(f)'
  BY <1>4 DEF CallSync
<1>5. ASSUME NEW e \in Events, NEW r \in ResultsOf(e), SyncReturns(e, r) PROVE OneHandlerInv!(f)'
  <2>1. Settled(e, r, "calling")
    BY <1>5 DEF SyncReturns
  <2>2. stage' = [stage EXCEPT ![e] = IF Kind[e] = "session" THEN "calling" ELSE "done"]
    BY <2>1, SettledEffect
  <2>3. QED
    BY <1>5, <2>2 DEF SyncReturns
<1>6. ASSUME NEW e \in Events, CallAsync(e) PROVE OneHandlerInv!(f)'
  BY <1>6 DEF CallAsync
<1>7. ASSUME NEW e \in Events, CallAsyncFails(e) PROVE OneHandlerInv!(f)'
  <2>1. Settled(e, "raised", "calling")
    BY <1>7 DEF CallAsyncFails
  <2>2. stage' = [stage EXCEPT ![e] = IF Kind[e] = "session" THEN "calling" ELSE "done"]
    BY <2>1, SettledEffect
  <2>3. QED
    BY <1>7, <2>2 DEF CallAsyncFails
<1>8. ASSUME NEW e \in Events, JobPanics(e) PROVE OneHandlerInv!(f)'
  BY <1>8 DEF JobPanics, Return
<1>9. ASSUME NEW e \in Events, Settle(e) PROVE OneHandlerInv!(f)'
  <2>1. Settled(e, box[e], "ready")
    BY <1>9 DEF Settle
  <2>2. stage' = [stage EXCEPT ![e] = IF Kind[e] = "session" THEN "ready" ELSE "done"]
    BY <2>1, SettledEffect
  <2>3. QED
    BY <1>9, <2>2 DEF Settle
<1>10. ASSUME NEW e \in Events, BackstopFires(e) PROVE OneHandlerInv!(f)'
  <2>1. Settled(e, "raised", "ready")
    BY <1>10 DEF BackstopFires
  <2>2. stage' = [stage EXCEPT ![e] = IF Kind[e] = "session" THEN "ready" ELSE "done"]
    BY <2>1, SettledEffect
  <2>3. QED
    BY <1>10, <2>2 DEF BackstopFires
<1>11. ASSUME NEW e \in Events, NEW h \in Handlers, Coroutine(e, h) PROVE OneHandlerInv!(f)'
  BY <1>11 DEF Coroutine, CoroStarts, CoroExpires, CoroEnds, CoroDropped
<1>12. CASE LoopStallsOrResumes \/ UNCHANGED vars \/ (\E s \in Scripts : HotReload(s)) \/ Tick
  BY <1>12 DEF LoopStallsOrResumes, HotReload, Tick, vars
<1> QED
  BY <1>1, <1>2, <1>3, <1>4, <1>5, <1>6, <1>7, <1>8, <1>9, <1>10, <1>11, <1>12
  DEF Next, Job, Await

\* bind_outcome: only a handler that says so lets a bind in.
LEMMA BindConverted ==
  ASSUME NEW e \in Events, Kind[e] = "bind", NEW r, Converted(e, r) = "accept"
  PROVE  r \in {"yes", "other"}
BY DEF Converted

\* No step lets a bind in without the word of its handler.
LEMMA BindStep == IInv /\ [Next]_vars => BindClosedByDefault'
<1> SUFFICES ASSUME IInv, [Next]_vars, NEW f \in Events
             PROVE  BindClosedByDefault!(f)'
  BY DEF BindClosedByDefault
<1>0. TypeOK /\ StageInv /\ OneHandlerInv /\ BindClosedByDefault
  BY DEF IInv
<1> USE <1>0 DEF TypeOK, StageInv, OneHandlerInv, BindClosedByDefault, tokio, loop, history
<1>1. ASSUME NEW e \in Events, Submit(e) PROVE BindClosedByDefault!(f)'
  <2>1. CASE UNCHANGED outcome
    BY <1>1, <2>1 DEF Submit
  <2>2. CASE Return(e, JobFailed(e))
    <3>1. Kind[e] = "bind" => JobFailed(e) = "refuse"
      BY DEF JobFailed
    <3>2. QED
      BY <1>1, <2>2, <3>1 DEF Submit, Return
  <2>3. QED
    BY <1>1, <2>1, <2>2 DEF Submit
<1>2. ASSUME NEW e \in Events, JobStarts(e) PROVE BindClosedByDefault!(f)'
  BY <1>2 DEF JobStarts
<1>3. ASSUME NEW e \in Events, JobEnds(e) PROVE BindClosedByDefault!(f)'
  <2>1. Kind[e] = "bind" => Unhandled(e) = "refuse"
    BY DEF Unhandled
  <2>2. QED
    BY <1>3, <2>1 DEF JobEnds, Return
<1>4. ASSUME NEW e \in Events, CallSync(e) PROVE BindClosedByDefault!(f)'
  <2>1. outcome[e] = "none"
    BY <1>4 DEF CallSync
  <2>2. QED
    BY <1>4, <2>1 DEF CallSync
<1>5. ASSUME NEW e \in Events, NEW r \in ResultsOf(e), SyncReturns(e, r) PROVE BindClosedByDefault!(f)'
  <2>1. Settled(e, r, "calling")
    BY <1>5 DEF SyncReturns
  <2>2. outcome' = [outcome EXCEPT ![e] = IF Kind[e] = "session" THEN @ ELSE Converted(e, r)]
    BY <2>1, SettledEffect
  <2>3. Kind[e] = "bind" /\ outcome'[e] = "accept" => r \in {"yes", "other"}
    BY <2>2, BindConverted
  <2>4. Kind[e] = "bind" => called[e] # <<>> /\ ~gaveUp[e] /\ value'[e] = r
    BY <1>5 DEF SyncReturns, Seen
  <2>5. f # e => outcome'[f] = outcome[f] /\ value'[f] = value[f]
    BY <1>5, <2>2 DEF SyncReturns, Seen
  <2>6. UNCHANGED <<called, gaveUp>>
    BY <1>5 DEF SyncReturns
  <2>7. QED
    BY <2>3, <2>4, <2>5, <2>6
<1>6. ASSUME NEW e \in Events, CallAsync(e) PROVE BindClosedByDefault!(f)'
  <2>1. outcome[e] = "none"
    BY <1>6 DEF CallAsync
  <2>2. QED
    BY <1>6, <2>1 DEF CallAsync
<1>7. ASSUME NEW e \in Events, CallAsyncFails(e) PROVE BindClosedByDefault!(f)'
  <2>1. Settled(e, "raised", "calling")
    BY <1>7 DEF CallAsyncFails
  <2>2. outcome' = [outcome EXCEPT ![e] = IF Kind[e] = "session" THEN @ ELSE Converted(e, "raised")]
    BY <2>1, SettledEffect
  <2>3. Kind[e] = "bind" /\ outcome'[e] = "accept" => "raised" \in {"yes", "other"}
    BY <2>2, BindConverted
  <2>4. f # e => outcome'[f] = outcome[f] /\ value'[f] = value[f] /\ called'[f] = called[f]
    BY <1>7, <2>2 DEF CallAsyncFails, Seen
  <2>5. UNCHANGED gaveUp
    BY <1>7 DEF CallAsyncFails
  <2>6. QED
    BY <2>3, <2>4, <2>5
<1>8. ASSUME NEW e \in Events, JobPanics(e) PROVE BindClosedByDefault!(f)'
  <2>1. Kind[e] = "bind" => JobFailed(e) = "refuse"
    BY DEF JobFailed
  <2>2. QED
    BY <1>8, <2>1 DEF JobPanics, Return
<1>9. ASSUME NEW e \in Events, Settle(e) PROVE BindClosedByDefault!(f)'
  <2>1. Settled(e, box[e], "ready")
    BY <1>9 DEF Settle
  <2>2. outcome' = [outcome EXCEPT ![e] = IF Kind[e] = "session" THEN @ ELSE Converted(e, box[e])]
    BY <2>1, SettledEffect
  <2>3. Kind[e] = "bind" /\ outcome'[e] = "accept" => box[e] \in {"yes", "other"}
    BY <2>2, BindConverted
  <2>4. Kind[e] = "bind" => called[e] # <<>> /\ ~gaveUp[e] /\ value'[e] = box[e]
    BY <1>9 DEF Settle, Seen
  <2>5. f # e => outcome'[f] = outcome[f] /\ value'[f] = value[f]
    BY <1>9, <2>2 DEF Settle, Seen
  <2>6. UNCHANGED <<called, gaveUp>>
    BY <1>9 DEF Settle
  <2>7. QED
    BY <2>3, <2>4, <2>5, <2>6
<1>10. ASSUME NEW e \in Events, BackstopFires(e) PROVE BindClosedByDefault!(f)'
  <2>1. Settled(e, "raised", "ready")
    BY <1>10 DEF BackstopFires
  <2>2. outcome' = [outcome EXCEPT ![e] = IF Kind[e] = "session" THEN @ ELSE Converted(e, "raised")]
    BY <2>1, SettledEffect
  <2>3. Kind[e] = "bind" /\ outcome'[e] = "accept" => "raised" \in {"yes", "other"}
    BY <2>2, BindConverted
  <2>4. f # e => outcome'[f] = outcome[f] /\ value'[f] = value[f] /\ gaveUp'[f] = gaveUp[f]
    BY <1>10, <2>2 DEF BackstopFires, Seen
  <2>5. UNCHANGED called
    BY <1>10 DEF BackstopFires
  <2>6. QED
    BY <2>3, <2>4, <2>5
<1>11. ASSUME NEW e \in Events, NEW h \in Handlers, Coroutine(e, h)
       PROVE  BindClosedByDefault!(f)'
  BY <1>11 DEF Coroutine, CoroStarts, CoroExpires, CoroEnds, CoroDropped
<1>12. CASE LoopStallsOrResumes \/ UNCHANGED vars \/ (\E s \in Scripts : HotReload(s)) \/ Tick
  BY <1>12 DEF LoopStallsOrResumes, HotReload, Tick, vars
<1> QED
  BY <1>1, <1>2, <1>3, <1>4, <1>5, <1>6, <1>7, <1>8, <1>9, <1>10, <1>11, <1>12
  DEF Next, Job, Await

\* Every step, a hot reload included, keeps what a session event has called
\* and is still to call the handlers of one version of the script.
LEMMA SnapshotStep == IInv /\ [Next]_vars => SnapshotInv'
<1> SUFFICES ASSUME IInv, [Next]_vars, NEW f \in Events, Kind[f] = "session"
             PROVE  OneScript(f, looked'[f], called'[f], remaining'[f], outcome'[f])
  BY DEF SnapshotInv, OneScript, Matching
<1> DEFINE Goal == OneScript(f, looked'[f], called'[f], remaining'[f], outcome'[f])
<1>0. TypeOK /\ OneScript(f, looked[f], called[f], remaining[f], outcome[f])
  BY DEF IInv, SnapshotInv
<1>t. /\ outcome \in [Events -> Outcomes] /\ looked \in [Events -> BOOLEAN]
      /\ remaining \in [Events -> Seq(Handlers)] /\ called \in [Events -> Seq(Handlers)]
      /\ script \in Scripts
  BY <1>0 DEF TypeOK
<1>c. ASSUME NEW e \in Events, stage[e] = "calling"
      PROVE  looked[e] /\ outcome[e] = "none"
  BY <1>c DEF IInv, StageInv, LookedInv
\* Steps that leave the lists alone and do not end the event with "done".
<1>1. ASSUME UNCHANGED <<looked, called, remaining>>, outcome'[f] = "done" => outcome[f] = "done"
      PROVE  Goal
  BY <1>0, <1>1 DEF OneScript
<1>2. ASSUME NEW e \in Events, Submit(e) \/ JobPanics(e) PROVE Goal
  <2>1. UNCHANGED <<looked, called, remaining>>
    BY <1>2 DEF Submit, JobPanics, history
  <2>2. UNCHANGED outcome \/ outcome' = [outcome EXCEPT ![e] = JobFailed(e)]
    BY <1>2 DEF Submit, JobPanics, Return
  <2>3. JobFailed(e) # "done"
    BY DEF JobFailed
  <2>4. QED
    BY <1>1, <1>t, <2>1, <2>2, <2>3
<1>3. ASSUME NEW e \in Events, JobStarts(e) PROVE Goal
  <2>1. UNCHANGED <<called, outcome>>
    BY <1>3 DEF JobStarts, history
  <2>2. CASE e # f \/ looked[e]
    <3>1. remaining'[f] = remaining[f]
      BY <1>3, <1>t, <2>2 DEF JobStarts
    <3>2. looked'[f] <=> looked[f]
      BY <1>3, <1>t, <2>2, Zenon DEF JobStarts
    <3>3. QED
      BY <1>0, <2>1, <3>1, <3>2 DEF OneScript
  <2>3. CASE e = f /\ ~looked[e]
    <3>1. remaining'[f] = Matching(script, f)
      BY <1>3, <1>t, <2>3 DEF JobStarts, Lookup
    <3>2. called[f] = <<>> /\ outcome[f] # "done"
      BY <1>0, <2>3 DEF OneScript
    <3>3. Matching(script, f) \in Seq(Handlers)
      BY <1>t, MatchingType
    <3>4. called'[f] \o remaining'[f] = Matching(script, f)
      BY <2>1, <3>1, <3>2, <3>3
    <3>5. looked'[f]
      BY <1>3, <1>t, <2>3, Zenon DEF JobStarts
    <3>6. QED
      BY <1>t, <2>1, <3>2, <3>4, <3>5 DEF OneScript
  <2>4. QED
    BY <2>2, <2>3
<1>4. ASSUME NEW e \in Events, JobEnds(e) PROVE Goal
  <2>1. /\ UNCHANGED <<looked, called, remaining>> /\ looked[e] /\ remaining[e] = <<>>
        /\ outcome' = [outcome EXCEPT ![e] = Unhandled(e)]
    BY <1>4, <1>c DEF JobEnds, Return, history
  <2>2. CASE e = f
    BY <1>0, <2>1, <2>2 DEF OneScript
  <2>3. CASE e # f
    <3>1. outcome'[f] = outcome[f]
      BY <1>t, <2>1, <2>3
    <3>2. QED
      BY <1>1, <2>1, <3>1
  <2>4. QED
    BY <2>2, <2>3
<1>5. ASSUME NEW e \in Events, CallSync(e) \/ CallAsync(e) \/ CallAsyncFails(e) PROVE Goal
  <2>1. /\ stage[e] = "calling" /\ remaining[e] # <<>>
        /\ remaining' = [remaining EXCEPT ![e] = Tail(@)]
        /\ called' = [called EXCEPT ![e] = Append(@, Head(remaining[e]))]
        /\ UNCHANGED looked
    BY <1>5 DEF CallSync, CallAsync, CallAsyncFails
  <2>2. outcome'[f] = outcome[f]
    <3>1. CASE CallSync(e) \/ CallAsync(e)
      BY <3>1 DEF CallSync, CallAsync
    <3>2. CASE CallAsyncFails(e)
      <4>1. Settled(e, "raised", "calling")
        BY <3>2 DEF CallAsyncFails
      <4>2. outcome' = [outcome EXCEPT ![e] =
                          IF Kind[e] = "session" THEN @ ELSE Converted(e, "raised")]
        BY <1>t, <4>1, SettledEffect
      <4>3. QED
        BY <1>t, <4>2
    <3>3. QED
      BY <1>5, <3>1, <3>2
  <2>3. CASE e # f
    <3>1. called'[f] = called[f] /\ remaining'[f] = remaining[f]
      BY <1>t, <2>1, <2>3
    <3>2. QED
      BY <1>0, <2>1, <2>2, <3>1
  <2>4. CASE e = f
    <3>1. called'[f] = Append(called[f], Head(remaining[f])) /\ remaining'[f] = Tail(remaining[f])
      BY <1>t, <2>1, <2>4
    <3>2. called'[f] \o remaining'[f] = called[f] \o remaining[f]
      BY <1>0, <2>1, <2>4, <3>1, NextHandler
    <3>3. looked[f] /\ outcome[f] = "none"
      BY <1>c, <2>1, <2>4
    <3>4. QED
      BY <1>0, <2>1, <2>2, <3>2, <3>3 DEF OneScript
  <2>5. QED
    BY <2>3, <2>4
<1>6. ASSUME NEW e \in Events, Await(e) \/ \E r \in ResultsOf(e) : SyncReturns(e, r) PROVE Goal
  <2>1. PICK r, next : Settled(e, r, next)
    BY <1>6 DEF Await, Settle, BackstopFires, SyncReturns
  <2>2. UNCHANGED <<looked, called, remaining>>
    BY <1>6 DEF Await, Settle, BackstopFires, SyncReturns
  <2>3. outcome' = [outcome EXCEPT ![e] = IF Kind[e] = "session" THEN @ ELSE Converted(e, r)]
    BY <1>t, <2>1, SettledEffect
  <2>4. outcome'[f] = outcome[f]
    BY <1>t, <2>3
  <2>5. QED
    BY <1>1, <2>2, <2>4
<1>7. ASSUME NEW e \in Events, NEW h \in Handlers, Coroutine(e, h) PROVE Goal
  BY <1>1, <1>7 DEF Coroutine, CoroStarts, CoroExpires, CoroEnds, CoroDropped, tokio, history
<1>8. CASE LoopStallsOrResumes \/ UNCHANGED vars \/ (\E s \in Scripts : HotReload(s)) \/ Tick
  BY <1>1, <1>8 DEF LoopStallsOrResumes, HotReload, Tick, vars, tokio, history
<1> QED
  BY <1>2, <1>3, <1>4, <1>5, <1>6, <1>7, <1>8 DEF Next, Job

\* The steps of an event in a job, or on its way to one, that no coroutine has
\* to do with.
LEMMA JobOnly ==
  ASSUME TypeOK, NEW e \in Events, NEW f \in Events,
         Submit(e) \/ JobStarts(e) \/ JobEnds(e) \/ JobPanics(e) \/ CallSync(e)
  PROVE  /\ UNCHANGED <<coro, coroAge, box, settleAge, gaveUp, stuck>>
         /\ stage[e] # "pending" /\ stage'[e] # "pending"
         /\ f # e => stage'[f] = stage[f] /\ current'[f] = current[f]
<1>0. stage \in [Events -> Stages]
  BY DEF TypeOK
<1> USE <1>0 DEF loop, history
<1>1. CASE Submit(e)
  <2>1. \E q \in {"queued", "done"} : stage' = [stage EXCEPT ![e] = q]
    BY <1>1 DEF Submit, Return
  <2>2. current' = current \/ current' = [current EXCEPT ![e] = NoHandler]
    BY <1>1 DEF Submit, Return
  <2>3. current \in [Events -> Handlers \cup {NoHandler}]
    BY DEF TypeOK
  <2>4. UNCHANGED <<coro, coroAge, box, settleAge, gaveUp, stuck>> /\ stage[e] # "pending"
    BY <1>1 DEF Submit
  <2>5. QED
    BY <2>1, <2>2, <2>3, <2>4
<1>2. CASE JobStarts(e)
  BY <1>2 DEF JobStarts
<1>3. CASE JobEnds(e)
  BY <1>3 DEF JobEnds, Return
<1>4. CASE JobPanics(e)
  BY <1>4 DEF JobPanics, Return
<1>5. CASE CallSync(e)
  BY <1>5 DEF CallSync
<1>6. QED
  BY <1>1, <1>2, <1>3, <1>4, <1>5

\* Every step keeps an event's coroutines over but the one it waits for,
\* unless the backstop has fired.
LEMMA CoroStep == IInv /\ [Next]_vars => CoroInv'
<1> SUFFICES ASSUME IInv, [Next]_vars, NEW f \in Events
             PROVE  CoroInv!(f)'
  BY DEF CoroInv
<1>0. TypeOK /\ StageInv /\ CoroInv
  BY DEF IInv
<1> USE <1>0 DEF TypeOK, StageInv, CoroInv, tokio, loop, history
\* Steps of the tokio task that neither start nor end a wait.
<1>1. ASSUME UNCHANGED <<coro, box, gaveUp>>, stage[f] # "pending", stage'[f] # "pending"
      PROVE  CoroInv!(f)'
  BY <1>1
<1>2. ASSUME UNCHANGED <<coro, box, gaveUp>>, stage'[f] = stage[f], current'[f] = current[f]
      PROVE  CoroInv!(f)'
  BY <1>2
<1>3. ASSUME NEW e \in Events, Submit(e) \/ JobStarts(e) \/ JobEnds(e) \/ JobPanics(e) \/ CallSync(e)
      PROVE  CoroInv!(f)'
  <2>1. /\ UNCHANGED <<coro, box, gaveUp>> /\ stage[e] # "pending" /\ stage'[e] # "pending"
        /\ f # e => stage'[f] = stage[f] /\ current'[f] = current[f]
    BY <1>3, JobOnly
  <2>2. QED
    BY <1>1, <1>2, <2>1
<1>4. ASSUME NEW e \in Events, CallAsyncFails(e) \/ \E r \in ResultsOf(e) : SyncReturns(e, r)
      PROVE  CoroInv!(f)'
  <2>1. PICK r : Settled(e, r, "calling")
    BY <1>4 DEF CallAsyncFails, SyncReturns
  <2>2. /\ current' = [current EXCEPT ![e] = NoHandler]
        /\ stage' = [stage EXCEPT ![e] = IF Kind[e] = "session" THEN "calling" ELSE "done"]
    BY <2>1, SettledEffect
  <2>3. UNCHANGED <<coro, box, gaveUp>> /\ stage[e] # "pending"
    BY <1>4 DEF CallAsyncFails, SyncReturns
  <2>4. QED
    BY <1>1, <1>2, <2>2, <2>3
<1>5. ASSUME NEW e \in Events, CallAsync(e) PROVE CoroInv!(f)'
  <2>1. CASE e # f
    BY <1>5, <2>1 DEF CallAsync
  <2>2. CASE e = f
    <3>1. Head(remaining[e]) \in Handlers
      BY <1>5, NextHandler DEF CallAsync
    <3>2. /\ stage'[e] = "pending" /\ current'[e] = Head(remaining[e]) /\ box'[e] = "empty"
          /\ coro'[e] = [coro[e] EXCEPT ![Head(remaining[e])] = "submitted"]
          /\ stage[e] # "pending" /\ UNCHANGED gaveUp
      BY <1>5, <3>1 DEF CallAsync
    <3>3. QED
      BY <2>2, <3>1, <3>2
  <2>3. QED
    BY <2>1, <2>2
<1>6. ASSUME NEW e \in Events, Settle(e) PROVE CoroInv!(f)'
  <2>1. /\ current' = [current EXCEPT ![e] = NoHandler]
        /\ stage' = [stage EXCEPT ![e] = IF Kind[e] = "session" THEN "ready" ELSE "done"]
    BY <1>6, SettledEffect DEF Settle
  <2>2. /\ UNCHANGED <<coro, gaveUp>> /\ box' = [box EXCEPT ![e] = "empty"]
        /\ stage[e] = "pending" /\ coro[e][current[e]] = "ended"
    BY <1>6 DEF Settle, StopWaiting
  <2>3. QED
    BY <2>1, <2>2
<1>7. ASSUME NEW e \in Events, BackstopFires(e) PROVE CoroInv!(f)'
  <2>1. /\ current' = [current EXCEPT ![e] = NoHandler]
        /\ stage' = [stage EXCEPT ![e] = IF Kind[e] = "session" THEN "ready" ELSE "done"]
    BY <1>7, SettledEffect DEF BackstopFires
  <2>2. /\ UNCHANGED coro /\ box' = [box EXCEPT ![e] = "empty"]
    BY <1>7 DEF BackstopFires, StopWaiting
  <2>3. gaveUp'[e] /\ (f # e => gaveUp'[f] = gaveUp[f])
    <3>1. gaveUp' = [gaveUp EXCEPT ![e] = TRUE]
      BY <1>7 DEF BackstopFires
    <3>2. gaveUp \in [Events -> BOOLEAN]
      OBVIOUS
    <3>3. gaveUp'[e]
      BY <3>1, <3>2, Zenon
    <3>4. f # e => gaveUp'[f] = gaveUp[f]
      BY <3>1, <3>2, Zenon
    <3>5. QED
      BY <3>3, <3>4
  <2>4. QED
    BY <2>1, <2>2, <2>3
<1>8. ASSUME NEW e \in Events, NEW h \in Handlers, CoroStarts(e, h) \/ CoroExpires(e, h)
      PROVE  CoroInv!(f)'
  <2>1. PICK q \in {"running", "unwinding"} : coro' = [coro EXCEPT ![e][h] = q]
    BY <1>8 DEF CoroStarts, CoroExpires
  <2>2. /\ UNCHANGED <<stage, current, box, gaveUp>>
        /\ coro[e][h] \in {"submitted", "running"}
    BY <1>8 DEF CoroStarts, CoroExpires
  <2>3. CASE f # e
    BY <2>1, <2>2, <2>3
  <2>4. CASE f = e
    <3>1. \A k \in Handlers : coro'[f][k] = IF k = h THEN q ELSE coro[f][k]
      BY <2>1, <2>4
    <3>2. QED
      BY <2>2, <2>4, <3>1
  <2>5. QED
    BY <2>3, <2>4
<1>9. ASSUME NEW e \in Events, NEW h \in Handlers, NEW r \in Results,
             Report(e, h, r), coro' = [coro EXCEPT ![e][h] = "ended"],
             coro[e][h] \in {"submitted", "running", "unwinding"}, UNCHANGED <<tokio, history>>
      PROVE  CoroInv!(f)'
  <2>1. r # "empty"
    BY DEF Results, Values
  <2>2. CASE f # e
    BY <1>9, <2>2 DEF Report
  <2>3. CASE f = e
    <3>1. \A k \in Handlers : coro'[f][k] = IF k = h THEN "ended" ELSE coro[f][k]
      BY <1>9, <2>3
    <3>2. box'[f] = IF stage[f] = "pending" /\ current[f] = h THEN r ELSE box[f]
      BY <1>9, <2>3 DEF Report
    <3>3. QED
      BY <1>9, <2>1, <2>3, <3>1, <3>2
  <2>4. QED
    BY <2>2, <2>3
<1>10. ASSUME NEW e \in Events, NEW h \in Handlers,
              CoroDropped(e, h) \/ \E r \in ResultsOf(e) : CoroEnds(e, h, r)
       PROVE  CoroInv!(f)'
  <2>1. PICK r \in Results : /\ Report(e, h, r) /\ coro' = [coro EXCEPT ![e][h] = "ended"]
                             /\ coro[e][h] \in {"submitted", "running", "unwinding"}
                             /\ UNCHANGED <<tokio, history>>
    <3>1. CASE CoroDropped(e, h)
      BY <3>1 DEF CoroDropped, Results
    <3>2. ASSUME NEW r \in ResultsOf(e), CoroEnds(e, h, r)
          PROVE  /\ r \in Results /\ Report(e, h, r) /\ coro' = [coro EXCEPT ![e][h] = "ended"]
                 /\ coro[e][h] \in {"submitted", "running", "unwinding"}
                 /\ UNCHANGED <<tokio, history>>
      BY <3>2 DEF CoroEnds, ResultsOf, Results, Values
    <3>3. QED
      BY <1>10, <3>1, <3>2
  <2>2. QED
    BY <1>9, <2>1
<1>11. CASE LoopStallsOrResumes \/ UNCHANGED vars \/ (\E s \in Scripts : HotReload(s)) \/ Tick
  BY <1>2, <1>11 DEF LoopStallsOrResumes, HotReload, Tick, vars
<1> QED
  BY <1>3, <1>4, <1>5, <1>6, <1>7, <1>8, <1>10, <1>11 DEF Next, Job, Await, Coroutine

\* A tick in which the coroutine is stuck moves the tokio task's clock and
\* the count of stuck ticks together; one in which it runs moves both clocks.
LEMMA AheadTicks ==
  ASSUME NEW state, NEW age \in Int, NEW later \in Int, NEW waited \in Int, NEW held \in Int,
         Ahead(state, age, waited, held), later >= age
  PROVE  /\ Ahead(state, later, waited + 1, held + 1)
         /\ state # "submitted" /\ state # "unwinding" /\ (state = "running" => later = age + 1)
              => Ahead(state, later, waited + 1, held)
BY DispatchAssumption DEF Ahead

\* Every step keeps the tokio task's clock ahead of the wrapper's by no more
\* than the ticks the coroutine was stuck.
LEMMA ClockStep == IInv /\ [Next]_vars => ClockInv'
<1> SUFFICES ASSUME IInv, [Next]_vars, NEW f \in Events
             PROVE  ClockInv!(f)'
  BY DEF ClockInv
<1>0. TypeOK /\ StageInv /\ CoroInv /\ ClockInv
  BY DEF IInv
<1> USE <1>0, DispatchAssumption DEF TypeOK, StageInv, ClockInv, tokio, loop, history
\* An event that does not wait, and one a step leaves alone.
<1>1. ASSUME stage'[f] # "pending" PROVE ClockInv!(f)'
  BY <1>1
<1>2. ASSUME stage'[f] = stage[f], box'[f] = box[f], stuck'[f] = stuck[f],
             settleAge'[f] = settleAge[f],
             stage[f] = "pending" =>
               /\ coro'[f][current'[f]] = coro[f][current[f]]
               /\ coroAge'[f][current'[f]] = coroAge[f][current[f]]
      PROVE  ClockInv!(f)'
  BY <1>2
<1>3. ASSUME NEW e \in Events, Submit(e) \/ JobStarts(e) \/ JobEnds(e) \/ JobPanics(e) \/ CallSync(e)
      PROVE  ClockInv!(f)'
  <2>1. /\ UNCHANGED <<coro, coroAge, box, settleAge, stuck>> /\ stage'[e] # "pending"
        /\ f # e => stage'[f] = stage[f] /\ current'[f] = current[f]
    BY <1>3, JobOnly
  <2>2. QED
    BY <1>1, <1>2, <2>1
<1>4. ASSUME NEW e \in Events, NEW r, NEW next \in {"calling", "ready"}, Settled(e, r, next),
             UNCHANGED <<coro, coroAge>>,
             f # e => box'[f] = box[f] /\ stuck'[f] = stuck[f] /\ settleAge'[f] = settleAge[f]
      PROVE  ClockInv!(f)'
  <2>1. /\ current' = [current EXCEPT ![e] = NoHandler]
        /\ stage' = [stage EXCEPT ![e] = IF Kind[e] = "session" THEN next ELSE "done"]
    BY <1>4, SettledEffect
  <2>2. QED
    BY <1>1, <1>2, <1>4, <2>1
<1>5. ASSUME NEW e \in Events, CallAsyncFails(e) \/ \E r \in ResultsOf(e) : SyncReturns(e, r)
      PROVE  ClockInv!(f)'
  BY <1>4, <1>5 DEF CallAsyncFails, SyncReturns
<1>6. ASSUME NEW e \in Events, Await(e) PROVE ClockInv!(f)'
  <2>1. PICK r : Settled(e, r, "ready")
    BY <1>6 DEF Await, Settle, BackstopFires
  <2>2. /\ UNCHANGED <<coro, coroAge>>
        /\ f # e => box'[f] = box[f] /\ stuck'[f] = stuck[f] /\ settleAge'[f] = settleAge[f]
    <3>1. StopWaiting(e) /\ UNCHANGED loop
      BY <1>6 DEF Await, Settle, BackstopFires
    <3>2. QED
      BY <3>1 DEF StopWaiting
  <2>3. QED
    BY <1>4, <2>1, <2>2
<1>7. ASSUME NEW e \in Events, CallAsync(e) PROVE ClockInv!(f)'
  <2>1. CASE e # f
    <3>1. /\ coro'[f] = coro[f] /\ current'[f] = current[f] /\ stage'[f] = stage[f]
          /\ UNCHANGED <<box, stuck, settleAge, coroAge>>
      BY <1>7, <2>1 DEF CallAsync
    <3>2. QED
      BY <1>2, <3>1
  <2>2. CASE e = f
    <3>1. Head(remaining[e]) \in Handlers
      BY <1>7, NextHandler DEF CallAsync
    <3>2. coro'[f][current'[f]] = "submitted" /\ settleAge'[f] = 0 /\ stuck'[f] = 0
      BY <1>7, <2>2, <3>1 DEF CallAsync
    <3>3. QED
      BY <3>2 DEF Ahead
  <2>3. QED
    BY <2>1, <2>2
\* A step of the coroutine that is waited for, or of another one.
<1>8. ASSUME NEW e \in Events, NEW h \in Handlers, NEW q \in CoroStates, NEW a,
             coro' = [coro EXCEPT ![e][h] = q],
             coroAge' = [coroAge EXCEPT ![e][h] = a],
             UNCHANGED <<stage, current, settleAge, stuck>>,
             f # e \/ current[f] # h => box'[f] = box[f],
             f = e /\ current[f] = h /\ stage[f] = "pending" /\ box'[f] = "empty"
               /\ stuck[f] < Backstop => Ahead(q, a, settleAge[f], stuck[f])
      PROVE  ClockInv!(f)'
  <2>1. CASE stage[f] = "pending" /\ f = e /\ current[f] = h
    <3>1. coro'[f][current'[f]] = q /\ coroAge'[f][current'[f]] = a
      BY <1>8, <2>1
    <3>2. QED
      BY <1>8, <2>1, <3>1
  <2>2. CASE stage[f] = "pending" /\ ~(f = e /\ current[f] = h)
    <3>1. coro'[f][current'[f]] = coro[f][current[f]]
      BY <1>8, <2>2
    <3>2. coroAge'[f][current'[f]] = coroAge[f][current[f]]
      BY <1>8, <2>2
    <3>3. QED
      BY <1>2, <1>8, <2>2, <3>1, <3>2
  <2>3. QED
    BY <1>1, <1>8, <2>1, <2>2
<1>9. ASSUME NEW e \in Events, NEW h \in Handlers, CoroStarts(e, h) PROVE ClockInv!(f)'
  <2>1. /\ coro' = [coro EXCEPT ![e][h] = "running"]
        /\ coroAge' = [coroAge EXCEPT ![e][h] = coroAge[e][h]]
        /\ UNCHANGED <<stage, current, settleAge, stuck, box>> /\ coro[e][h] = "submitted"
    BY <1>9 DEF CoroStarts
  <2>2. f = e /\ current[f] = h /\ stage[f] = "pending" /\ box'[f] = "empty"
          /\ stuck[f] < Backstop => Ahead("running", coroAge[e][h], settleAge[f], stuck[f])
    BY <2>1 DEF Ahead
  <2>3. QED
    BY <1>8, <2>1, <2>2 DEF CoroStates
<1>10. ASSUME NEW e \in Events, NEW h \in Handlers, CoroExpires(e, h) PROVE ClockInv!(f)'
  <2>1. /\ coro' = [coro EXCEPT ![e][h] = "unwinding"]
        /\ coroAge' = [coroAge EXCEPT ![e][h] = coroAge[e][h]]
        /\ UNCHANGED <<stage, current, settleAge, stuck, box>> /\ coro[e][h] = "running"
    BY <1>10 DEF CoroExpires
  <2>2. f = e /\ current[f] = h /\ stage[f] = "pending" /\ box'[f] = "empty"
          /\ stuck[f] < Backstop => Ahead("unwinding", coroAge[e][h], settleAge[f], stuck[f])
    BY <2>1 DEF Ahead
  <2>3. QED
    BY <1>8, <2>1, <2>2 DEF CoroStates
<1>11. ASSUME NEW e \in Events, NEW h \in Handlers,
              CoroDropped(e, h) \/ \E r \in ResultsOf(e) : CoroEnds(e, h, r)
       PROVE  ClockInv!(f)'
  <2>1. /\ coro' = [coro EXCEPT ![e][h] = "ended"]
        /\ coroAge' = [coroAge EXCEPT ![e][h] = 0]
        /\ UNCHANGED <<stage, current, settleAge, stuck>>
        /\ f # e \/ current[f] # h => box'[f] = box[f]
    <3>1. CASE CoroDropped(e, h)
      BY <3>1 DEF CoroDropped, Report
    <3>2. ASSUME NEW r \in ResultsOf(e), CoroEnds(e, h, r)
          PROVE  /\ coro' = [coro EXCEPT ![e][h] = "ended"]
                 /\ coroAge' = [coroAge EXCEPT ![e][h] = 0]
                 /\ UNCHANGED <<stage, current, settleAge, stuck>>
                 /\ f # e \/ current[f] # h => box'[f] = box[f]
      BY <3>2 DEF CoroEnds, Report
    <3>3. QED
      BY <1>11, <3>1, <3>2
  <2>2. Ahead("ended", 0, settleAge[f], stuck[f])
    BY DEF Ahead
  <2>3. QED
    BY <1>8, <2>1, <2>2 DEF CoroStates
<1>12. CASE LoopStallsOrResumes \/ UNCHANGED vars \/ \E s \in Scripts : HotReload(s)
  BY <1>2, <1>12 DEF LoopStallsOrResumes, HotReload, vars
<1>13. CASE Tick
  <2>1. SUFFICES ASSUME stage[f] = "pending", box[f] = "empty", stuck'[f] < Backstop
                 PROVE  Ahead(coro[f][current[f]], coroAge'[f][current[f]], settleAge'[f], stuck'[f])
    BY <1>13 DEF Tick
  <2>2. current[f] \in Handlers /\ ~Due(f)
    BY <1>13, <2>1 DEF Tick
  <2>3. settleAge'[f] = settleAge[f] + 1
    <3>1. ~Overdue(f)
      BY <2>1, <2>2 DEF Due
    <3>2. settleAge[f] < Timeout + Backstop
      BY <3>1 DEF Overdue
    <3>3. settleAge' = [e \in Events |->
                          IF stage[e] = "pending" /\ settleAge[e] < Timeout + Backstop
                          THEN settleAge[e] + 1 ELSE settleAge[e]]
      BY <1>13 DEF Tick
    <3>4. QED
      BY <2>1, <3>2, <3>3, Zenon
  <2>4. stuck'[f] = IF ~loopUp \/ coro[f][current[f]] = "unwinding" THEN stuck[f] + 1 ELSE stuck[f]
    BY <1>13, <2>1 DEF Tick
  <2>5. coro[f][current[f]] = "submitted" => ~loopUp
    BY <2>2 DEF Due
  <2>a. coroAge'[f][current[f]] =
          IF coro[f][current[f]] = "running" /\ coroAge[f][current[f]] < Timeout
          THEN coroAge[f][current[f]] + 1 ELSE coroAge[f][current[f]]
    <3>1. coroAge'[f] = [h \in Handlers |->
                           IF coro[f][h] = "running" /\ coroAge[f][h] < Timeout
                           THEN coroAge[f][h] + 1 ELSE coroAge[f][h]]
      BY <1>13, Zenon DEF Tick
    <3>2. QED
      BY <2>2, <3>1, Zenon
  <2>6. coro[f][current[f]] = "running" /\ loopUp =>
          coroAge'[f][current[f]] = coroAge[f][current[f]] + 1
    <3>1. coro[f][current[f]] = "running" /\ loopUp => coroAge[f][current[f]] < Timeout
      BY <2>2 DEF Due
    <3>2. QED
      BY <2>a, <3>1, Zenon
  <2>7. coroAge'[f][current[f]] \in Int /\ coroAge'[f][current[f]] >= coroAge[f][current[f]]
    BY <2>2, <2>a
  <2>8. Ahead(coro[f][current[f]], coroAge[f][current[f]], settleAge[f], stuck[f])
    BY <2>1, <2>4
  <2>9. coroAge[f][current[f]] \in Int /\ settleAge[f] \in Int /\ stuck[f] \in Int
    BY <2>2
  <2>10. CASE ~loopUp \/ coro[f][current[f]] = "unwinding"
    <3>1. stuck'[f] = stuck[f] + 1
      BY <2>4, <2>10
    <3>2. Ahead(coro[f][current[f]], coroAge'[f][current[f]], settleAge[f] + 1, stuck[f] + 1)
      BY <2>7, <2>8, <2>9, AheadTicks, Zenon
    <3>3. QED
      BY <2>3, <3>1, <3>2, Zenon
  <2>11. CASE loopUp /\ coro[f][current[f]] # "unwinding"
    <3>1. stuck'[f] = stuck[f]
      BY <2>4, <2>11, Zenon
    <3>2. Ahead(coro[f][current[f]], coroAge'[f][current[f]], settleAge[f] + 1, stuck[f])
      BY <2>5, <2>6, <2>7, <2>8, <2>9, <2>11, AheadTicks, Zenon
    <3>3. QED
      BY <2>3, <3>1, <3>2, Zenon
  <2>12. QED
    BY <2>10, <2>11
<1> QED
  BY <1>3, <1>5, <1>6, <1>7, <1>9, <1>10, <1>11, <1>12, <1>13 DEF Next, Job, Coroutine

-----------------------------------------------------------------------------
\* In every behaviour of the dispatcher, the stage of each event, the
\* coroutine it waits for, its list of handlers and its two clocks agree.
THEOREM Inductive == Spec => []IInv
<1>1. IInv /\ [Next]_vars => IInv'
  <2> SUFFICES ASSUME IInv, [Next]_vars PROVE IInv'
    OBVIOUS
  <2> QED
    BY TypeStep, StageStep, LookedStep, CoroStep, SnapshotStep, OneHandlerStep, BindStep, ClockStep
    DEF IInv
<1>2. QED
  BY InitIInv, <1>1, PTL DEF Spec

\* The variables keep their types: in particular neither the tokio task's
\* clock nor the wrapper's runs past the time its timeout is due.
THEOREM TypeCorrect == Spec => []TypeOK
<1>1. IInv => TypeOK
  BY DEF IInv
<1>2. QED
  BY Inductive, <1>1, PTL

\* A prefix of a list is the list's first elements.
LEMMA PrefixOf ==
  ASSUME NEW X, NEW c \in Seq(X), NEW r \in Seq(X)
  PROVE  /\ Len(c) <= Len(c \o r) /\ c = SubSeq(c \o r, 1, Len(c))
         /\ r = <<>> => c = c \o r
<1>1. Len(c) <= Len(c \o r)
  OBVIOUS
<1>2. c = SubSeq(c \o r, 1, Len(c))
  <2>1. SubSeq(c \o r, 1, Len(c)) = [i \in 1 .. Len(c) |-> (c \o r)[i]]
    OBVIOUS
  <2>2. \A i \in 1 .. Len(c) : (c \o r)[i] = c[i]
    OBVIOUS
  <2>3. QED
    BY <2>1, <2>2
<1>3. r = <<>> => c = c \o r
  OBVIOUS
<1>4. QED
  BY <1>1, <1>2, <1>3

\* Whatever the handlers return, however often the script is reloaded and
\* whichever waits run into a timeout, a session event runs the handlers of
\* one version of the script, in order, and all of them if it ends with "done".
THEOREM SessionsRunOneScript == Spec => []SessionRunsOneScript
<1>1. IInv => SessionRunsOneScript
  <2> SUFFICES ASSUME IInv, NEW e \in Events, Kind[e] = "session", looked[e]
               PROVE  \E s \in Scripts : /\ Len(called[e]) <= Len(Matching(s, e))
                                         /\ called[e] = SubSeq(Matching(s, e), 1, Len(called[e]))
                                         /\ outcome[e] = "done" => called[e] = Matching(s, e)
    BY DEF SessionRunsOneScript
  <2>1. /\ called[e] \in Seq(Handlers) /\ remaining[e] \in Seq(Handlers)
        /\ outcome[e] = "done" => remaining[e] = <<>>
    BY DEF IInv, TypeOK, SnapshotInv, OneScript
  <2>2. PICK s \in Scripts : called[e] \o remaining[e] = Matching(s, e)
    BY DEF IInv, SnapshotInv, OneScript
  <2>3. /\ Len(called[e]) <= Len(called[e] \o remaining[e])
        /\ called[e] = SubSeq(called[e] \o remaining[e], 1, Len(called[e]))
        /\ remaining[e] = <<>> => called[e] = called[e] \o remaining[e]
    BY <2>1, PrefixOf
  <2>4. QED
    BY <2>1, <2>2, <2>3
<1>2. QED
  BY Inductive, <1>1, PTL

\* A bind is let in only by a handler that ran for it and said so in time.
THEOREM BindsAreClosedByDefault == Spec => []BindClosedByDefault
<1>1. IInv => BindClosedByDefault
  BY DEF IInv
<1>2. QED
  BY Inductive, <1>1, PTL

\* Until the backstop fires for an event, the coroutine it waits for is the
\* only one of its coroutines that can be running, and none is once the
\* listener has its answer.
THEOREM NoneIsLeftRunning == Spec => []NothingLeftRunning
<1>1. IInv => NothingLeftRunning
  BY DEF IInv, CoroInv, NothingLeftRunning, Alive
<1>2. QED
  BY Inductive, <1>1, PTL

\* The two clocks do not race, for any two timeouts: when the tokio task gives
\* up, the coroutine was stuck for at least the whole margin.
THEOREM BackstopIsForTheStuck == Spec => BackstopMeansStuck
<1>1. ASSUME IInv, NEW e \in Events, BackstopFires(e)
      PROVE  stuck[e] >= Backstop
  <2>1. /\ stage[e] = "pending" /\ box[e] = "empty" /\ settleAge[e] >= Timeout + Backstop
        /\ current[e] \in Handlers
    BY <1>1, DispatchAssumption DEF BackstopFires, Overdue, IInv, StageInv, TypeOK
  <2>2. coro[e][current[e]] \in {"submitted", "running", "unwinding"}
    BY <1>1, <2>1 DEF IInv, CoroInv, TypeOK, CoroStates
  <2>3. /\ coroAge[e][current[e]] \in 0 .. Timeout /\ stuck[e] \in 0 .. Backstop
        /\ settleAge[e] \in 0 .. Timeout + Backstop
    BY <1>1, <2>1 DEF IInv, TypeOK
  <2>4. stuck[e] < Backstop =>
          Ahead(coro[e][current[e]], coroAge[e][current[e]], settleAge[e], stuck[e])
    BY <1>1, <2>1 DEF IInv, ClockInv
  <2>5. QED
    BY <2>1, <2>2, <2>3, <2>4, DispatchAssumption DEF Ahead
<1>2. IInv /\ [Next]_vars => [\A e \in Events : BackstopFires(e) => stuck[e] >= Backstop]_vars
  BY <1>1
<1>3. QED
  BY Inductive, <1>2, PTL DEF Spec, BackstopMeansStuck
=============================================================================
