-------------------------------- MODULE Sends --------------------------------
(***************************************************************************)
(* The send helpers (sends.rs), the session registries they look targets up *)
(* in (runtime.rs) and the inference of why a request got no response       *)
(* (outcome.rs).  A helper runs                                             *)
(*                                                                          *)
(*    lookup -> pace -> write -> await the answer -> classify a failure     *)
(*                                                                          *)
(* with an await between any two of them, so a session can come up, end,    *)
(* be replaced under the same name or be dropped from the registry anywhere *)
(* in between.  Both registries work alike: outbound binds are found by     *)
(* bind name, which successive sessions share, and inbound ESME sessions by *)
(* session id, which is theirs alone (NameOf injective).  alert_to, which   *)
(* awaits no answer and so has nothing to infer, ends at its write and is   *)
(* not represented.                                                         *)
(*                                                                          *)
(* The session itself is smpp34's: the actions under "the codec and the     *)
(* peer" model it from how this code uses it.  Every failure but a          *)
(* generic_nack with a status of its own reaches the helper as the same     *)
(* Err(ESME_RSYSERR); `cause` is the history variable that remembers which  *)
(* it was.                                                                  *)
(***************************************************************************)
EXTENDS Integers

CONSTANTS
  Sessions,    \* session handles (Arc<SMSC> / Arc<ESME>), each used once
  Names,       \* what a script names a target by
  NameOf,      \* the name each session is registered under
  Requests,    \* calls of a send helper
  Kind,        \* "paced": submit/submit_multi/data_via; "direct": cancel/
               \* query/replace_via, deliver/data_to
  Timer,       \* response_timer_ms, in ticks
  NoSession    \* a request that has no target (yet)

ASSUME SendsAssumption ==
  /\ NameOf \in [Sessions -> Names]
  /\ Kind \in [Requests -> {"paced", "direct"}]
  /\ Timer \in Nat \ {0}
  /\ NoSession \notin Sessions

VARIABLES
  \* the sessions and the registry (State.binds / State.esmes)
  sess,        \* life of a session; see Lives
  registered,  \* the sessions in the Vec
  position,    \* when each was pushed: the Vec's order
  pushes,      \* how many pushes there have been
  timedOut,    \* sessions whose on_timeout waits for the registry's lock
  unbinding,   \* sessions on_timeout has sent an unbind on
  \* the helpers
  phase,       \* where each call is
  target,      \* the handle it cloned out of the registry
  age,         \* ticks since settle's `started`, saturating at Timer
  codecAge,    \* ticks since the codec wrote the request, saturating
  cause,       \* what the codec completed the request with
  late,        \* `waited >= response_timer`, as settle measured it
  outcome,     \* what the script is told
  taken        \* history: the peer took the message

registry == <<sess, registered, position, pushes, timedOut, unbinding>>
calls == <<phase, target, age, codecAge, cause, late, outcome, taken>>
vars == <<sess, registered, position, pushes, timedOut, unbinding,
          phase, target, age, codecAge, cause, late, outcome, taken>>

\* "ending": the connection is lost, the unbound hook has yet to run;
\* "unhooked": the hook has run; "released": smpp34 has failed what was
\* still outstanding.
Lives == {"new", "up", "ending", "unhooked", "released"}

\* "starting": about to send; "writing": settle's clock runs, the codec has
\* yet to write; "completed": the send future has a result the task has not
\* seen yet; "classifying": waiting for the registry lock.
Phases == {"idle", "pacing", "starting", "writing", "outstanding", "completed",
           "classifying", "done"}

\* What completes a request.  All but the first two are Err(ESME_RSYSERR).
Causes == {"none", "response", "nack", "nackSysErr", "wrongType", "writeFailed",
           "timer", "released"}

Outcomes == {"none", "response", "keyError", "nack", "timeout", "closed", "unanswered"}

Init ==
  /\ sess = [s \in Sessions |-> "new"]
  /\ registered = {}
  /\ position = [s \in Sessions |-> 0]
  /\ pushes = 0
  /\ timedOut = {}
  /\ unbinding = {}
  /\ phase = [r \in Requests |-> "idle"]
  /\ target = [r \in Requests |-> NoSession]
  /\ age = [r \in Requests |-> 0]
  /\ codecAge = [r \in Requests |-> 0]
  /\ cause = [r \in Requests |-> "none"]
  /\ late = [r \in Requests |-> FALSE]
  /\ outcome = [r \in Requests |-> "none"]
  /\ taken = [r \in Requests |-> FALSE]

-----------------------------------------------------------------------------
(* The listener hooks that keep the registry.                               *)

\* on_smsc_bound / on_esme_bound: push.  The session event the hooks go on to
\* dispatch is Dispatch's; here it is the delay before Release.
Bound(s) ==
  /\ sess[s] = "new"
  /\ sess' = [sess EXCEPT ![s] = "up"]
  /\ registered' = registered \cup {s}
  /\ position' = [position EXCEPT ![s] = pushes + 1]
  /\ pushes' = pushes + 1
  /\ UNCHANGED <<timedOut, unbinding, calls>>

\* on_smsc_unbound / on_esme_unbound: retain all but this session.
Unbound(s) ==
  /\ sess[s] = "ending"
  /\ sess' = [sess EXCEPT ![s] = "unhooked"]
  /\ registered' = registered \ {s}
  /\ UNCHANGED <<position, pushes, timedOut, unbinding, calls>>

-----------------------------------------------------------------------------
(* The helpers.                                                             *)

\* submit_via, submit_multi_via and data_via wait for the bind's limiter.
Paces(r) == Kind[r] = "paced"

Matches(n) == {s \in registered : NameOf[s] = n}

IsFirstMatch_Last(s, n) ==  \* mutant: the last match
  s \in Matches(n) /\ \A t \in Matches(n) : position[s] >= position[t]

\* bind_handle / esme_handle: iter().find(), the first match in the Vec.
IsFirstMatch(s, n) == s \in Matches(n) /\ \A t \in Matches(n) : position[s] <= position[t]

\* The handle is cloned out and the lock dropped.
Lookup(r, n) ==
  /\ phase[r] = "idle"
  /\ \E s \in Sessions : IsFirstMatch(s, n) /\ target' = [target EXCEPT ![r] = s]
  /\ phase' = [phase EXCEPT ![r] = IF Paces(r) THEN "pacing" ELSE "starting"]
  /\ UNCHANGED <<registry, age, codecAge, cause, late, outcome, taken>>

\* Nothing of that name is registered: KeyError, nothing sent.
LookupFails(r, n) ==
  /\ phase[r] = "idle"
  /\ Matches(n) = {}
  /\ phase' = [phase EXCEPT ![r] = "done"]
  /\ outcome' = [outcome EXCEPT ![r] = "keyError"]
  /\ UNCHANGED <<registry, target, age, codecAge, cause, late, taken>>

\* pace: the limiter grants a token, sooner or later (RateLimiter).
Pace(r) ==
  /\ phase[r] = "pacing"
  /\ phase' = [phase EXCEPT ![r] = "starting"]
  /\ UNCHANGED <<registry, target, age, codecAge, cause, late, outcome, taken>>

\* settle reads the clock before it first polls the send.
Settle(r) ==
  /\ phase[r] = "starting"
  /\ phase' = [phase EXCEPT ![r] = "writing"]
  /\ age' = [age EXCEPT ![r] = 0]
  /\ UNCHANGED <<registry, target, codecAge, cause, late, outcome, taken>>

\* settle, the send future having completed with a response.
SettleOk(r) ==
  /\ phase[r] = "completed" /\ cause[r] = "response"
  /\ phase' = [phase EXCEPT ![r] = "done"]
  /\ outcome' = [outcome EXCEPT ![r] = "response"]
  /\ UNCHANGED <<registry, target, age, codecAge, cause, late, taken>>

SettleErr_NeedsSession(r) ==  \* mutant: the session is looked up again first
  /\ phase[r] = "completed" /\ cause[r] # "response"
  /\ target[r] \in registered
  /\ late' = [late EXCEPT ![r] = age[r] >= Timer]
  /\ phase' = [phase EXCEPT ![r] = "classifying"]
  /\ UNCHANGED <<registry, target, age, codecAge, cause, outcome, taken>>

\* settle, the send future having failed: read the clock, then await the
\* registry lock.
SettleErr(r) ==
  /\ phase[r] = "completed" /\ cause[r] # "response"
  /\ late' = [late EXCEPT ![r] = age[r] >= Timer]
  /\ phase' = [phase EXCEPT ![r] = "classifying"]
  /\ UNCHANGED <<registry, target, age, codecAge, cause, outcome, taken>>

Gone_ByName(s) == \A t \in registered : NameOf[t] # NameOf[s]  \* mutant

\* bind_gone / esme_gone: by handle, not by name.
Gone(s) == s \notin registered

\* Mutants: the registry asked before the clock, and the codec's own word
\* for the failure passed through.
Verdict_GoneFirst(r) ==
  CASE cause[r] = "nack" -> "nack"
    [] cause[r] # "nack" /\ Gone(target[r]) -> "closed"
    [] cause[r] # "nack" /\ ~Gone(target[r]) /\ late[r] -> "timeout"
    [] OTHER -> "unanswered"

Verdict_Raw(r) == IF late[r] THEN "timeout" ELSE cause[r]

\* classify.
Verdict(r) ==
  CASE cause[r] = "nack" -> "nack"
    [] cause[r] # "nack" /\ late[r] -> "timeout"
    [] cause[r] # "nack" /\ ~late[r] /\ Gone(target[r]) -> "closed"
    [] OTHER -> "unanswered"

Classify(r) ==
  /\ phase[r] = "classifying"
  /\ phase' = [phase EXCEPT ![r] = "done"]
  /\ outcome' = [outcome EXCEPT ![r] = Verdict(r)]
  /\ UNCHANGED <<registry, target, age, codecAge, cause, late, taken>>

-----------------------------------------------------------------------------
(* The codec and the peer.                                                  *)

\* The connection is lost, or unbound: by the peer, by a failed enquire_link,
\* or because on_timeout sent an unbind.
SessionEnds(s) ==
  /\ sess[s] = "up"
  /\ sess' = [sess EXCEPT ![s] = "ending"]
  /\ UNCHANGED <<registered, position, pushes, timedOut, unbinding, calls>>

\* The codec writes the request and starts its response timer.  On a session
\* that is already on its way out the write may fail, or seem to succeed.
Write(r) ==
  /\ phase[r] = "writing"
  /\ \/ /\ sess[target[r]] # "released"
        /\ phase' = [phase EXCEPT ![r] = "outstanding"]
        /\ UNCHANGED cause
     \/ /\ sess[target[r]] # "up"
        /\ phase' = [phase EXCEPT ![r] = "completed"]
        /\ cause' = [cause EXCEPT ![r] = "writeFailed"]
  /\ UNCHANGED <<registry, target, age, codecAge, late, outcome, taken>>

\* The peer takes the message; its response is on its way or will be lost.
PeerTakes(r) ==
  /\ phase[r] = "outstanding" /\ sess[target[r]] = "up"
  /\ taken' = [taken EXCEPT ![r] = TRUE]
  /\ UNCHANGED <<registry, phase, target, age, codecAge, cause, late, outcome>>

\* Something arrives under the request's sequence number.  A peer that took
\* the message answers with the response; one that did not may refuse in the
\* response, with a generic_nack, or with a PDU of another type.
Answer(r, c) ==
  /\ phase[r] = "outstanding" /\ sess[target[r]] = "up"
  /\ c = "response" \/ ~taken[r]
  /\ phase' = [phase EXCEPT ![r] = "completed"]
  /\ cause' = [cause EXCEPT ![r] = c]
  /\ UNCHANGED <<registry, target, age, codecAge, late, outcome, taken>>

\* The codec's response timer, which cannot fire early, fails the request and
\* calls the listener's on_timeout, which awaits the registry's lock.
ResponseTimer(r) ==
  /\ phase[r] = "outstanding" /\ codecAge[r] >= Timer
  /\ phase' = [phase EXCEPT ![r] = "completed"]
  /\ cause' = [cause EXCEPT ![r] = "timer"]
  /\ timedOut' = timedOut \cup {target[r]}
  /\ UNCHANGED <<sess, registered, position, pushes, unbinding, target, age, codecAge, late,
                 outcome, taken>>

\* Mutants: the session found by its bind's name, and the newest of the name.
OnTimeout_ByName(s) ==
  /\ s \in timedOut
  /\ timedOut' = timedOut \ {s}
  /\ unbinding' = unbinding \cup {t \in Sessions : IsFirstMatch(t, NameOf[s])}
  /\ UNCHANGED <<sess, registered, position, pushes, calls>>

OnTimeout_Newest(s) ==
  /\ s \in timedOut
  /\ timedOut' = timedOut \ {s}
  /\ unbinding' = unbinding \cup {t \in Sessions : IsFirstMatch_Last(t, NameOf[s])}
  /\ UNCHANGED <<sess, registered, position, pushes, calls>>

\* on_timeout with the lock: send an unbind on the session if it is still
\* registered; otherwise nothing is left to do.
OnTimeout(s) ==
  /\ s \in timedOut
  /\ timedOut' = timedOut \ {s}
  /\ unbinding' = unbinding \cup ({s} \cap registered)
  /\ UNCHANGED <<sess, registered, position, pushes, calls>>

\* The unbound hook has returned: fail what is still outstanding.
Release(s) ==
  /\ sess[s] = "unhooked"
  /\ sess' = [sess EXCEPT ![s] = "released"]
  /\ LET left == {r \in Requests : phase[r] = "outstanding" /\ target[r] = s}
     IN  /\ phase' = [r \in Requests |-> IF r \in left THEN "completed" ELSE phase[r]]
         /\ cause' = [r \in Requests |-> IF r \in left THEN "released" ELSE cause[r]]
  /\ UNCHANGED <<registered, position, pushes, timedOut, unbinding, target, age, codecAge, late, outcome, taken>>

\* Which of the two clocks run: settle's until the result has been seen, the
\* codec's while the request is outstanding.
Running(r) == phase[r] \in {"writing", "outstanding", "completed"}

CodecRunning(r) == phase[r] = "outstanding"

Tick ==
  /\ \E r \in Requests : \/ Running(r) /\ age[r] < Timer
                         \/ CodecRunning(r) /\ codecAge[r] < Timer
  /\ age' = [r \in Requests |-> IF Running(r) /\ age[r] < Timer THEN age[r] + 1 ELSE age[r]]
  /\ codecAge' = [r \in Requests |->
                    IF CodecRunning(r) /\ codecAge[r] < Timer THEN codecAge[r] + 1 ELSE codecAge[r]]
  /\ UNCHANGED <<registry, phase, target, cause, late, outcome, taken>>

Answers == {"response", "nack", "nackSysErr", "wrongType"}

\* The steps of a call that its own task takes.
HelperStep(r) ==
  Pace(r) \/ Settle(r) \/ SettleOk(r) \/ SettleErr(r) \/ Classify(r)

Next ==
  \/ \E s \in Sessions : Bound(s) \/ SessionEnds(s) \/ Unbound(s) \/ Release(s) \/ OnTimeout(s)
  \/ \E r \in Requests, n \in Names : Lookup(r, n) \/ LookupFails(r, n)
  \/ \E r \in Requests : HelperStep(r) \/ Write(r) \/ PeerTakes(r) \/ ResponseTimer(r)
  \/ \E r \in Requests, c \in Answers : Answer(r, c)
  \/ Tick

Spec == Init /\ [][Next]_vars

(***************************************************************************)
(* The helper's task is polled, the codec writes what it is given and its   *)
(* timer fires, on_timeout gets the lock, a lost session gets its hook and  *)
(* its release, and an unbind that was sent ends the session (the peer      *)
(* answers it, or the codec's own timer does).  The peer is assumed to do   *)
(* nothing at all.                                                          *)
(***************************************************************************)
Fairness ==
  /\ WF_vars(Tick)
  /\ \A r \in Requests : WF_vars(HelperStep(r) \/ Write(r) \/ ResponseTimer(r))
  /\ \A s \in Sessions :
       /\ WF_vars(OnTimeout(s))
       /\ WF_vars((s \in unbinding /\ SessionEnds(s)) \/ Unbound(s) \/ Release(s))

FairSpec == Spec /\ Fairness

-----------------------------------------------------------------------------
TypeOK ==
  /\ sess \in [Sessions -> Lives]
  /\ registered \subseteq Sessions
  /\ position \in [Sessions -> Nat]
  /\ pushes \in Nat
  /\ timedOut \subseteq Sessions
  /\ unbinding \subseteq Sessions
  /\ phase \in [Requests -> Phases]
  /\ target \in [Requests -> Sessions \cup {NoSession}]
  /\ age \in [Requests -> 0 .. Timer]
  /\ codecAge \in [Requests -> 0 .. Timer]
  /\ cause \in [Requests -> Causes]
  /\ late \in [Requests -> BOOLEAN]
  /\ outcome \in [Requests -> Outcomes]
  /\ taken \in [Requests -> BOOLEAN]

\* What docs/script-api.md tells a script it may rely on: after anything but
\* "timeout" and "closed" the peer has not taken the message, so sending it
\* again, or by another route, cannot deliver it twice.  It rests on the
\* order hook, then release: a request failed by its session ending must
\* find the session gone from the registry whatever has been registered
\* under the same name since.
SafeRetry ==
  \A r \in Requests :
    outcome[r] \in {"nack", "unanswered", "keyError"} => ~taken[r]

\* The inference of outcome.rs is right about what it claims to know: a
\* request the codec's timer failed is a "timeout"; one failed by its session
\* ending is "closed" unless settle only saw that after the timer had run
\* out; a nack with a status of its own is that nack; "unanswered" is never
\* said of a request whose session has ended.
FailureExplained ==
  \A r \in Requests : outcome[r] # "none" =>
    /\ cause[r] = "timer" => outcome[r] = "timeout"
    /\ cause[r] = "released" => outcome[r] = IF late[r] THEN "timeout" ELSE "closed"
    /\ cause[r] = "nack" <=> outcome[r] = "nack"
    /\ outcome[r] = "unanswered" => cause[r] \in {"nackSysErr", "wrongType", "writeFailed"}

\* bind_handle's find() on overlapping sessions of one name: once a send has
\* gone to a session, no later send on that name goes to one that bound
\* before it.  A bind's traffic moves from a session to its successor and
\* never back to one that is on its way out.
NeverBackToOlder ==
  [][\A r, q \in Requests :
       /\ target'[r] # target[r] /\ target[q] # NoSession
       /\ NameOf[target[q]] = NameOf[target'[r]]
       => position[target[q]] <= position[target'[r]]]_vars

\* on_timeout looks its session up after an await, and by then the session may
\* be gone and a successor registered under its name: the only sessions it
\* takes down are those on which a response timer ran out.
OnlyTimedOutUnbound ==
  \A s \in unbinding : \E r \in Requests : target[r] = s /\ cause[r] = "timer"

\* Whatever the peer and the session do, a call comes back to the script.
EveryCallReturns ==
  \A r \in Requests : phase[r] \in {"pacing", "starting"} ~> phase[r] = "done"

\* From the moment the response timer of a request runs out: the session the
\* request went to leaves the registry, for later sends not to run into it,
\* whether on_timeout finds it there or the unbound hook came first, and
\* although on_timeout has only the session's id to go by.
TimeoutEndsSession ==
  \A r \in Requests : cause[r] = "timer" ~> target[r] \notin registered

\* What SmppSendError documents (outcome.rs 58-64): a generic_nack is
\* reported as such (or, when it carries ESME_RSYSERR, as "unanswered"); it is
\* not reported as a session that closed with the request outstanding.
ClosedMeansNoAnswer ==
  \A r \in Requests : outcome[r] = "closed" => cause[r] \in {"released", "writeFailed"}
=============================================================================
