------------------------------ MODULE Dispatch ------------------------------
(***************************************************************************)
(* Running script handlers for SMPP events (dispatch.rs).  An event (a PDU,  *)
(* an alert, a bind request, a session going up or down) is a tokio task    *)
(* that has one job run on siphon's Python executor and awaits it.  The job *)
(* looks the handler up, calls it and converts what it returned.  A         *)
(* coroutine is handed to the asyncio pool and the job ends: no worker is   *)
(* held while it waits.  Two clocks bound it: the wrapper on the asyncio    *)
(* loop cancels it after Timeout, and the tokio task stops waiting Backstop *)
(* later.  A session event runs all its handlers in turn, in as many jobs   *)
(* as it takes.                                                             *)
(*                                                                          *)
(* External, modelled from its use here: the executor (Workers threads; it  *)
(* may refuse a job when all are busy), the asyncio pool (one loop, which   *)
(* can stall) and the scripts' handlers, which return what they like, when  *)
(* they like, and may be slow to give in to a cancellation.  No tick passes *)
(* while the tokio task, or the loop unless it is stalled, has a step due.  *)
(***************************************************************************)
EXTENDS Integers, Sequences, FiniteSets, Filter

CONSTANTS
  Events,      \* events to be dispatched
  Kind,        \* "pdu", "alert", "bind" or "session", of each event
  Scripts,     \* versions of the script
  Reloads,     \* bound: the hot reloads that can happen, as pairs of versions
  Registered,  \* each version's handlers, in registration order
  Handles,     \* the events each handler is registered for (kind and key)
  IsAsync,     \* RegisteredHandler.is_async
  Workers,     \* executor threads
  Timeout,     \* AsyncPool::coroutine_timeout, in ticks
  Backstop,    \* SETTLE_BACKSTOP, in ticks
  NoHandler

Handlers == DOMAIN IsAsync

ASSUME DispatchAssumption ==
  /\ Kind \in [Events -> {"pdu", "alert", "bind", "session"}]
  /\ Registered \in [Scripts -> Seq(Handlers)]
  /\ Reloads \subseteq Scripts \X Scripts
  /\ Handles \in [Handlers -> SUBSET Events]
  /\ IsAsync \in [Handlers -> BOOLEAN]
  /\ Workers \in Nat \ {0}
  /\ Timeout \in Nat \ {0}
  /\ Backstop \in Nat \ {0}
  /\ NoHandler \notin Handlers

VARIABLES
  script,     \* the version the registry holds
  stage,      \* where each event is; see Stages
  remaining,  \* the handlers of its snapshot that have yet to be called
  looked,     \* whether the snapshot has been taken
  current,    \* the handler it is waiting for
  settleAge,  \* ticks the tokio task has waited for current's coroutine
  box,        \* the oneshot: "empty" or the result
  outcome,    \* what dispatch returned to the listener
  loopUp,     \* the asyncio loop turns
  coro,       \* each event's coroutines, by handler; see CoroStates
  coroAge,    \* ticks since the wrapper's timeout scope was entered
  called,     \* history: the handlers called for an event, in order
  value,      \* history: what the event's (one) handler returned; not kept
              \* for session events, which run several and do not look
  gaveUp,     \* history: the backstop has fired for the event
  stuck       \* history: ticks for which current's coroutine could not move
              \* or was holding out against its cancellation, saturating

tokio == <<stage, remaining, looked, current, settleAge, outcome>>
loop == <<loopUp, coro, coroAge>>
history == <<called, value, gaveUp, stuck>>
vars == <<script, stage, remaining, looked, current, settleAge, box, outcome,
          loopUp, coro, coroAge, called, value, gaveUp, stuck>>

\* "ready": about to ask the executor for the next job of a session event;
\* "calling": inside a job, on a worker.
Stages == {"new", "ready", "queued", "calling", "pending", "done"}

\* "unwinding": cancelled by the timeout, its except/finally blocks running.
CoroStates == {"none", "submitted", "running", "unwinding", "ended"}

\* What a handler gives back: a positive or negative PduReply / BindResult,
\* None, or something else (taken to be truthy); or it raised.
Values == {"yes", "no", "None", "other"}
Results == Values \cup {"raised"}
ResultsOf(e) == IF Kind[e] = "session" THEN {"None", "raised"} ELSE Results

\* "unhandled": dispatch::pdu's None; "done": a session event ran to its end.
Outcomes == {"none", "accept", "refuse", "unhandled", "error", "done"}

Init ==
  /\ script \in Scripts
  /\ stage = [e \in Events |-> "new"]
  /\ remaining = [e \in Events |-> <<>>]
  /\ looked = [e \in Events |-> FALSE]
  /\ current = [e \in Events |-> NoHandler]
  /\ settleAge = [e \in Events |-> 0]
  /\ box = [e \in Events |-> "empty"]
  /\ outcome = [e \in Events |-> "none"]
  /\ loopUp = TRUE
  /\ coro = [e \in Events |-> [h \in Handlers |-> "none"]]
  /\ coroAge = [e \in Events |-> [h \in Handlers |-> 0]]
  /\ called = [e \in Events |-> <<>>]
  /\ value = [e \in Events |-> "none"]
  /\ gaveUp = [e \in Events |-> FALSE]
  /\ stuck = [e \in Events |-> 0]

Busy == Cardinality({e \in Events : stage[e] = "calling"})

-----------------------------------------------------------------------------
(* What a handler's return value means.                                     *)

Converted_OpenBind(e, r) ==  \* mutant: a bind takes None as a PDU does
  CASE r = "raised" -> IF Kind[e] = "bind" THEN "refuse" ELSE "error"
    [] r = "no" -> "refuse"
    [] OTHER -> "accept"

Converted_Raw(e, r) == r  \* mutant: the value handed on as it is

\* pdu_reply and bind_outcome, with what pdu, alert and bind make of an
\* error.  For a PDU, None and what is no PduReply mean ESME_ROK; a bind is
\* refused unless the handler says otherwise.  alert's value is ignored.
Converted(e, r) ==
  CASE Kind[e] = "bind" -> IF r \in {"yes", "other"} THEN "accept" ELSE "refuse"
    [] Kind[e] # "bind" /\ r = "raised" -> "error"
    [] Kind[e] = "pdu" /\ r = "no" -> "refuse"
    [] OTHER -> "accept"

\* What pdu, alert, bind and session answer when there is no handler.
Unhandled(e) ==
  CASE Kind[e] = "pdu" -> "unhandled"
    [] Kind[e] = "bind" -> "refuse"
    [] Kind[e] = "alert" -> "accept"
    [] OTHER -> "done"

\* The same when the executor refused the job or the job panicked: for a
\* session event the handlers that are left are dropped.
JobFailed(e) == IF Kind[e] = "bind" THEN "refuse" ELSE "error"

Seen(e, r) == value' = [value EXCEPT ![e] = IF Kind[e] = "session" THEN @ ELSE r]

Return(e, o) ==
  /\ stage' = [stage EXCEPT ![e] = "done"]
  /\ outcome' = [outcome EXCEPT ![e] = o]
  /\ current' = [current EXCEPT ![e] = NoHandler]

\* A session event does not care how a handler ended, it goes on (to `next`).
Settled(e, r, next) ==
  \/ /\ Kind[e] = "session"
     /\ stage' = [stage EXCEPT ![e] = next]
     /\ current' = [current EXCEPT ![e] = NoHandler]
     /\ UNCHANGED outcome
  \/ Kind[e] # "session" /\ Return(e, Converted(e, r))

-----------------------------------------------------------------------------
(* The tokio task and its executor jobs.                                    *)

\* on_executor: the job is queued, or refused when every worker is busy.
Submit(e) ==
  /\ stage[e] \in {"new", "ready"}
  /\ \/ stage' = [stage EXCEPT ![e] = "queued"] /\ UNCHANGED <<current, outcome>>
     \/ Busy = Workers /\ Return(e, JobFailed(e))
  /\ UNCHANGED <<script, remaining, looked, settleAge, box, loop, history>>

\* The handlers of a version of the script for an event.
Matching(s, e) == Filter(Registered[s], {h \in Handlers : e \in Handles[h]})

\* first_matching, or all of them for a session event.
Lookup(e) ==
  LET matching == Matching(script, e)
  IN  IF Kind[e] = "session" \/ matching = <<>> THEN matching ELSE <<Head(matching)>>

\* Mutant: a resumed session event skips as many handlers as it has called,
\* in the script as it now is.
JobStarts_Rereads(e) ==
  /\ stage[e] = "queued" /\ Busy < Workers
  /\ stage' = [stage EXCEPT ![e] = "calling"]
  /\ remaining' = [remaining EXCEPT ![e] =
                     SubSeq(Lookup(e), Len(called[e]) + 1, Len(Lookup(e)))]
  /\ looked' = [looked EXCEPT ![e] = TRUE]
  /\ UNCHANGED <<script, current, settleAge, box, outcome, loop, history>>

\* A worker takes the job.  The handlers are looked up here, in the job, and
\* by a session event only in its first one.
JobStarts(e) ==
  /\ stage[e] = "queued" /\ Busy < Workers
  /\ stage' = [stage EXCEPT ![e] = "calling"]
  /\ remaining' = [remaining EXCEPT ![e] = IF looked[e] THEN @ ELSE Lookup(e)]
  /\ looked' = [looked EXCEPT ![e] = TRUE]
  /\ UNCHANGED <<script, current, settleAge, box, outcome, loop, history>>

\* Nothing (more) to call.
JobEnds(e) ==
  /\ stage[e] = "calling" /\ current[e] = NoHandler /\ remaining[e] = <<>>
  /\ Return(e, Unhandled(e))
  /\ UNCHANGED <<script, remaining, looked, settleAge, box, loop, history>>

\* invoke, a sync handler: it runs on the worker.
CallSync(e) ==
  /\ stage[e] = "calling" /\ current[e] = NoHandler /\ remaining[e] # <<>>
  /\ ~IsAsync[Head(remaining[e])]
  /\ current' = [current EXCEPT ![e] = Head(remaining[e])]
  /\ remaining' = [remaining EXCEPT ![e] = Tail(@)]
  /\ called' = [called EXCEPT ![e] = Append(@, Head(remaining[e]))]
  /\ UNCHANGED <<script, stage, looked, settleAge, box, outcome, loop, value, gaveUp, stuck>>

SyncReturns(e, r) ==
  /\ stage[e] = "calling" /\ current[e] # NoHandler
  /\ Settled(e, r, "calling")
  /\ Seen(e, r)
  /\ UNCHANGED <<script, remaining, looked, settleAge, box, loop, called, gaveUp, stuck>>

\* invoke, an async handler: the coroutine goes to the pool (with the wrapper
\* around it), the worker goes free and the tokio task waits.
CallAsync(e) ==
  /\ stage[e] = "calling" /\ current[e] = NoHandler /\ remaining[e] # <<>>
  /\ LET h == Head(remaining[e])
     IN  /\ IsAsync[h]
         /\ current' = [current EXCEPT ![e] = h]
         /\ called' = [called EXCEPT ![e] = Append(@, h)]
         /\ coro' = [coro EXCEPT ![e][h] = "submitted"]
  /\ remaining' = [remaining EXCEPT ![e] = Tail(@)]
  /\ stage' = [stage EXCEPT ![e] = "pending"]
  /\ UNCHANGED <<script, looked, settleAge, box, outcome, loopUp, coroAge, value, gaveUp, stuck>>

\* submit_coroutine fails (no pool, or it will not take the coroutine, which
\* is then closed): an error of the handler's, still in the job.
CallAsyncFails(e) ==
  /\ stage[e] = "calling" /\ current[e] = NoHandler /\ remaining[e] # <<>>
  /\ IsAsync[Head(remaining[e])]
  /\ remaining' = [remaining EXCEPT ![e] = Tail(@)]
  /\ called' = [called EXCEPT ![e] = Append(@, Head(remaining[e]))]
  /\ Seen(e, "raised")
  /\ Settled(e, "raised", "calling")
  /\ UNCHANGED <<script, looked, settleAge, box, loop, gaveUp, stuck>>

\* The job panics; the worker survives.
JobPanics(e) ==
  /\ stage[e] = "calling"
  /\ Return(e, JobFailed(e))
  /\ UNCHANGED <<script, remaining, looked, settleAge, box, loop, history>>

\* The oneshot and the timer of a wait are dropped with it.
StopWaiting(e) ==
  /\ box' = [box EXCEPT ![e] = "empty"]
  /\ settleAge' = [settleAge EXCEPT ![e] = 0]
  /\ stuck' = [stuck EXCEPT ![e] = 0]

\* settle: the oneshot has the result.
Settle(e) ==
  /\ stage[e] = "pending" /\ box[e] # "empty"
  /\ Settled(e, box[e], "ready")
  /\ Seen(e, box[e])
  /\ StopWaiting(e)
  /\ UNCHANGED <<script, remaining, looked, loop, called, gaveUp>>

\* Mutants: the two clocks set to the same time, and the tokio one left out.
Overdue_NoMargin(e) == settleAge[e] >= Timeout
Overdue_Never(e) == FALSE

Overdue(e) == settleAge[e] >= Timeout + Backstop

\* settle: timeout + SETTLE_BACKSTOP has passed with nothing in the oneshot
\* (tokio::time::timeout looks there first).
BackstopFires(e) ==
  /\ stage[e] = "pending" /\ box[e] = "empty" /\ Overdue(e)
  /\ Settled(e, "raised", "ready")
  /\ Seen(e, "raised")
  /\ gaveUp' = [gaveUp EXCEPT ![e] = TRUE]
  /\ StopWaiting(e)
  /\ UNCHANGED <<script, remaining, looked, loop, called>>

-----------------------------------------------------------------------------
(* The asyncio loop: await_handler and Completion.                          *)

\* Completion's finish: a send into the oneshot, lost on one that has been
\* given up or belongs to an earlier handler.
Report(e, h, r) ==
  box' = [box EXCEPT ![e] = IF stage[e] = "pending" /\ current[e] = h THEN r ELSE @]

CoroStarts(e, h) ==
  /\ loopUp /\ coro[e][h] = "submitted"
  /\ coro' = [coro EXCEPT ![e][h] = "running"]
  /\ UNCHANGED <<script, tokio, box, loopUp, coroAge, history>>

\* The coroutine ends: completion.done, or completion.fail.  One that was
\* cancelled ends with the TimeoutError, or swallows the cancellation.
CoroEnds(e, h, r) ==
  /\ loopUp /\ coro[e][h] \in {"running", "unwinding"}
  /\ coro' = [coro EXCEPT ![e][h] = "ended"]
  /\ coroAge' = [coroAge EXCEPT ![e][h] = 0]
  /\ Report(e, h, r)
  /\ UNCHANGED <<script, tokio, loopUp, history>>

CoroExpires_ReportsFirst(e, h) ==  \* mutant: fail() on expiry, then cancel
  /\ loopUp /\ coro[e][h] = "running" /\ coroAge[e][h] >= Timeout
  /\ coro' = [coro EXCEPT ![e][h] = "unwinding"]
  /\ Report(e, h, "raised")
  /\ UNCHANGED <<script, tokio, loopUp, coroAge, history>>

\* asyncio.timeout: cancel it.  Nothing is reported before it has ended.
CoroExpires(e, h) ==
  /\ loopUp /\ coro[e][h] = "running" /\ coroAge[e][h] >= Timeout
  /\ coro' = [coro EXCEPT ![e][h] = "unwinding"]
  /\ UNCHANGED <<script, tokio, box, loopUp, coroAge, history>>

\* The loop is torn down with the coroutine on it: the sender is dropped
\* unused, which settle reads as an error.
CoroDropped(e, h) ==
  /\ coro[e][h] \in {"submitted", "running", "unwinding"}
  /\ coro' = [coro EXCEPT ![e][h] = "ended"]
  /\ coroAge' = [coroAge EXCEPT ![e][h] = 0]
  /\ Report(e, h, "raised")
  /\ UNCHANGED <<script, tokio, loopUp, history>>

\* Something on the loop blocks it, or it is free again.
LoopStallsOrResumes ==
  /\ loopUp' = ~loopUp
  /\ UNCHANGED <<script, tokio, box, coro, coroAge, history>>

HotReload(s) ==
  /\ <<script, s>> \in Reloads
  /\ script' = s
  /\ UNCHANGED <<tokio, box, loop, history>>

Due(e) ==
  \/ stage[e] = "pending" /\ (box[e] # "empty" \/ Overdue(e))
  \/ loopUp /\ \E h \in Handlers :
       \/ coro[e][h] = "submitted"
       \/ coro[e][h] = "running" /\ coroAge[e][h] >= Timeout

Tick ==
  /\ \E e \in Events : stage[e] = "pending"
  /\ \A e \in Events : ~Due(e)
  /\ settleAge' = [e \in Events |->
                     IF stage[e] = "pending" /\ settleAge[e] < Timeout + Backstop
                     THEN settleAge[e] + 1 ELSE settleAge[e]]
  /\ coroAge' = [e \in Events |-> [h \in Handlers |->
                   IF coro[e][h] = "running" /\ coroAge[e][h] < Timeout
                   THEN coroAge[e][h] + 1 ELSE coroAge[e][h]]]
  /\ stuck' = [e \in Events |->
                 IF /\ stage[e] = "pending" /\ stuck[e] < Backstop
                    /\ ~loopUp \/ coro[e][current[e]] = "unwinding"
                 THEN stuck[e] + 1 ELSE stuck[e]]
  /\ UNCHANGED <<script, stage, remaining, looked, current, box, outcome,
                 loopUp, coro, called, value, gaveUp>>

Job(e) ==
  \/ JobStarts(e) \/ JobEnds(e) \/ CallSync(e) \/ CallAsync(e) \/ CallAsyncFails(e) \/ JobPanics(e)
  \/ \E r \in ResultsOf(e) : SyncReturns(e, r)

Await(e) == Settle(e) \/ BackstopFires(e)

Coroutine(e, h) ==
  \/ CoroStarts(e, h) \/ CoroExpires(e, h) \/ CoroDropped(e, h)
  \/ \E r \in ResultsOf(e) : CoroEnds(e, h, r)

Next ==
  \/ \E e \in Events : Submit(e) \/ Job(e) \/ Await(e)
  \/ \E e \in Events, h \in Handlers : Coroutine(e, h)
  \/ LoopStallsOrResumes
  \/ \E s \in Scripts : HotReload(s)
  \/ Tick

Spec == Init /\ [][Next]_vars

(***************************************************************************)
(* The executor runs its jobs, a sync handler returns, the tokio task is    *)
(* polled and time passes (strongly: stalling and resuming the loop for     *)
(* ever takes time).  A loop that turns starts what it is given and cancels *)
(* what has expired; that it does turn, or that a coroutine ever ends, is   *)
(* not assumed.                                                             *)
(***************************************************************************)
Fairness ==
  /\ SF_vars(Tick)
  /\ \A e \in Events, h \in Handlers : WF_vars(CoroStarts(e, h) \/ CoroExpires(e, h))
  /\ \A e \in Events :
       SF_vars(JobStarts(e)) /\ WF_vars(Job(e)) /\ WF_vars(Await(e))
       /\ WF_vars(stage[e] = "ready" /\ Submit(e))

FairSpec == Spec /\ Fairness

-----------------------------------------------------------------------------
TypeOK ==
  /\ script \in Scripts
  /\ stage \in [Events -> Stages]
  /\ remaining \in [Events -> Seq(Handlers)] /\ called \in [Events -> Seq(Handlers)]
  /\ looked \in [Events -> BOOLEAN]
  /\ current \in [Events -> Handlers \cup {NoHandler}]
  /\ settleAge \in [Events -> 0 .. Timeout + Backstop]
  /\ box \in [Events -> Results \cup {"empty"}]
  /\ outcome \in [Events -> Outcomes]
  /\ loopUp \in BOOLEAN
  /\ coro \in [Events -> [Handlers -> CoroStates]]
  /\ coroAge \in [Events -> [Handlers -> 0 .. Timeout]]
  /\ value \in [Events -> Results \cup {"none"}]
  /\ gaveUp \in [Events -> BOOLEAN]
  /\ stuck \in [Events -> 0 .. Backstop]

Alive(e) == {h \in Handlers : coro[e][h] \in {"running", "unwinding"}}

\* A session event runs the handlers of one version of the script, in
\* registration order, and all of them unless the executor failed it: not
\* fewer because one raised or timed out, and no mixture when the script is
\* reloaded while it waits for a coroutine.
SessionRunsOneScript ==
  \A e \in Events : Kind[e] = "session" /\ looked[e] =>
    \E s \in Scripts :
      LET all == Matching(s, e)
      IN  /\ Len(called[e]) <= Len(all)
          /\ called[e] = SubSeq(all, 1, Len(called[e]))
          /\ outcome[e] = "done" => called[e] = all

\* "closed by default": a bind is accepted only on the word of a handler that
\* was run for it and gave it before the bind was answered.
BindClosedByDefault ==
  \A e \in Events : Kind[e] = "bind" /\ outcome[e] = "accept" =>
    called[e] # <<>> /\ value[e] \in {"yes", "other"} /\ ~gaveUp[e]

\* Unless the backstop fired, the handler is over by the time the listener
\* gets its answer: a PDU refused because its handler raised or timed out is
\* not still being worked on, and a session handler is not overtaken.
NothingLeftRunning ==
  \A e \in Events : ~gaveUp[e] =>
    Alive(e) \subseteq (IF stage[e] = "pending" THEN {current[e]} ELSE {})

\* The backstop is not a second timeout racing the first: it fires only on a
\* coroutine that, for all of the margin, could not run or would not stop.
BackstopMeansStuck ==
  [][\A e \in Events : BackstopFires(e) => stuck[e] >= Backstop]_vars

\* Whatever the loop and the coroutines do, the listener gets its answer.
EveryDispatchReturns == \A e \in Events : stage[e] = "queued" ~> stage[e] = "done"

\* dispatch.rs 561: "Run every @smpp.on_session(event) handler, in
\* registration order, each finishing before the next starts."
EachFinishesFirst == \A e \in Events : Cardinality(Alive(e)) <= 1
=============================================================================
