------------------------------- MODULE Inbound -------------------------------
(***************************************************************************)
(* The PDUs peers send us (runtime.rs): the server listener on inbound ESME  *)
(* sessions (bind requests, submit_sm, data_sm, submit_sm_multi, cancel_sm,  *)
(* query_sm, replace_sm) and the bind listener on outbound ones (deliver_sm, *)
(* data_sm, alert_notification).  Every PDU is a task of its own:           *)
(*                                                                          *)
(*   admit (rate limit) -> name the session -> dispatch -> answer and count *)
(*                                                                          *)
(* with the registry lock taken and dropped in between, so that sessions    *)
(* come and go under a PDU that waits for the limiter or for its handler.   *)
(* The limiter is the bucket of TokenBucket in whole tokens (RateLimiter    *)
(* implements it); dispatch is Dispatch, seen from outside; message ids,     *)
(* TLVs and other contents of a reply do not decide anything here.          *)
(***************************************************************************)
EXTENDS Integers, FiniteSets

CONSTANTS
  Sessions,  \* inbound ESME sessions, by session id
  Pdus,      \* the PDUs peers send
  From,      \* the inbound session of each PDU; OnBind for the bind listener's
  Command,   \* the command of each PDU
  Burst,     \* tokens of a full bucket (server.max_msg_per_sec)
  Flowing,   \* sessions whose limiter is assumed to go on handing out tokens
  OnBind, Free

Messages == {"submit_sm", "data_sm", "submit_sm_multi"}
Operations == {"cancel_sm", "query_sm", "replace_sm"}
Commands == Messages \cup Operations \cup {"deliver_sm", "alert_notification"}

ASSUME InboundAssumption ==
  /\ IsFiniteSet(Pdus)
  /\ From \in [Pdus -> Sessions \cup {OnBind}]
  /\ Command \in [Pdus -> Commands]
  /\ \A p \in Pdus : From[p] # OnBind => Command[p] \notin {"deliver_sm", "alert_notification"}
  /\ \A p \in Pdus : From[p] = OnBind => Command[p] \in {"deliver_sm", "data_sm", "alert_notification"}
  /\ Burst \in Nat \ {0}
  /\ Flowing \subseteq Sessions
  /\ OnBind \notin Sessions
  /\ Free \notin Pdus

VARIABLES
  throttle,    \* "off" (inbound_max_mps = 0) or inbound_throttle_action; fixed
  life,        \* of each inbound session
  esmes,       \* the registry: sessions in State.esmes
  lock,        \* who holds esmes' lock between two steps, or Free
  tokens,      \* each session's limiter
  phase,       \* where each PDU's task is
  named,       \* the Session it built has the peer's system_id
  handled,     \* what dispatch returned: see Outcomes
  wire,        \* the status it answered with
  waited,      \* history: the limiter made it wait or turned it away
  accepted, rejected, throttled, raised,  \* the pdu metrics
  bindsAccepted, bindsRejected            \* the bind metric

sessions == <<life, esmes, tokens>>
task == <<phase, named, handled, wire, waited>>
metrics == <<accepted, rejected, throttled, raised>>
bindMetrics == <<bindsAccepted, bindsRejected>>
vars == <<throttle, life, esmes, lock, tokens, phase, named, handled,
          wire, waited, accepted, rejected, throttled, raised, bindsAccepted, bindsRejected>>

Phases == {"new", "arrived", "admitting", "admitted", "named", "answered"}

\* What Dispatch returns for a PDU.  A handler replies with ESME_ROK ("accept"),
\* with ESME_RTHROTTLED of its own accord ("busy") or with another status.
Replies == {"accept", "busy", "refuse"}
Outcomes == Replies \cup {"none", "unhandled", "error"}

\* "own": the failure status of the command (ESME_RCANCELFAIL, ...);
\* "given": another one the handler chose; "silent": an alert has no response.
Statuses == {"none", "ROK", "RTHROTTLED", "RSYSERR", "own", "given", "silent"}

Init ==
  /\ throttle \in {"off", "pace", "reject"}
  /\ life = [s \in Sessions |-> "new"]
  /\ esmes = {}
  /\ lock = Free
  /\ tokens = [s \in Sessions |-> 0]
  /\ phase = [p \in Pdus |-> "new"]
  /\ named = [p \in Pdus |-> FALSE]
  /\ handled = [p \in Pdus |-> "none"]
  /\ wire = [p \in Pdus |-> "none"]
  /\ waited = [p \in Pdus |-> FALSE]
  /\ accepted = 0 /\ rejected = 0 /\ throttled = 0 /\ raised = 0
  /\ bindsAccepted = 0 /\ bindsRejected = 0

-----------------------------------------------------------------------------
(* Sessions.                                                                *)

\* on_bind_transmitter, on_bind_receiver: only transceivers are supported.
BindOneWay(s) ==
  /\ life[s] = "new"
  /\ life' = [life EXCEPT ![s] = "refused"]
  /\ bindsRejected' = bindsRejected + 1
  /\ UNCHANGED <<throttle, esmes, lock, tokens, task, metrics, bindsAccepted>>

\* on_bind_transceiver: the script decides (Dispatch).
BindTransceiver(s) ==
  /\ life[s] = "new"
  /\ \/ /\ life' = [life EXCEPT ![s] = "refused"]
        /\ bindsRejected' = bindsRejected + 1
        /\ UNCHANGED bindsAccepted
     \/ /\ life' = [life EXCEPT ![s] = "accepted"]
        /\ bindsAccepted' = bindsAccepted + 1
        /\ UNCHANGED bindsRejected
  /\ UNCHANGED <<throttle, esmes, lock, tokens, task, metrics>>

\* on_esme_bound: into the registry, with a full limiter of its own if the
\* server has a limit.  (The "bound" event it then dispatches is Dispatch's.)
OnEsmeBound(s) ==
  /\ life[s] = "accepted" /\ lock = Free
  /\ life' = [life EXCEPT ![s] = "bound"]
  /\ esmes' = esmes \cup {s}
  /\ tokens' = [tokens EXCEPT ![s] = IF throttle # "off" THEN Burst ELSE 0]
  /\ UNCHANGED <<throttle, lock, task, metrics, bindMetrics>>

\* on_esme_unbound, up to its dispatch of the "unbound" event.
OnEsmeUnbound(s) ==
  /\ life[s] = "bound" /\ lock = Free
  /\ life' = [life EXCEPT ![s] = "gone"]
  /\ esmes' = esmes \ {s}
  /\ UNCHANGED <<throttle, lock, tokens, task, metrics, bindMetrics>>

Refill_NoCap(s) ==  \* mutant
  /\ throttle # "off" /\ life[s] \in {"bound", "gone"} /\ tokens[s] <= Burst
  /\ tokens' = [tokens EXCEPT ![s] = @ + 1]
  /\ UNCHANGED <<throttle, life, esmes, lock, task, metrics, bindMetrics>>

\* The bucket fills while anybody holds on to it.
Refill(s) ==
  /\ throttle # "off" /\ life[s] \in {"bound", "gone"} /\ tokens[s] < Burst
  /\ tokens' = [tokens EXCEPT ![s] = @ + 1]
  /\ UNCHANGED <<throttle, life, esmes, lock, task, metrics, bindMetrics>>

-----------------------------------------------------------------------------
(* The task of a PDU.                                                       *)

\* A PDU arrives on a session the peer knows to be up, which may be a moment
\* before it is registered.  Only messages are rate limited.
Arrive(p) ==
  /\ phase[p] = "new" /\ From[p] # OnBind
  /\ life[From[p]] \in {"accepted", "bound"}
  /\ phase' = [phase EXCEPT ![p] = IF Command[p] \in Messages THEN "arrived" ELSE "admitted"]
  /\ UNCHANGED <<throttle, sessions, lock, named, handled, wire, waited, metrics, bindMetrics>>

\* One arrives on an outbound bind: no limit, and the bind's name is known.
ArriveOnBind(p) ==
  /\ phase[p] = "new" /\ From[p] = OnBind
  /\ phase' = [phase EXCEPT ![p] = "named"]
  /\ named' = [named EXCEPT ![p] = TRUE]
  /\ UNCHANGED <<throttle, sessions, lock, handled, wire, waited, metrics, bindMetrics>>

FindLimiter_HoldsLock(p) ==  \* mutant: the guard lives on across the wait
  /\ phase[p] = "arrived" /\ lock = Free
  /\ LET found == throttle # "off" /\ From[p] \in esmes
     IN  /\ phase' = [phase EXCEPT ![p] = IF found THEN "admitting" ELSE "admitted"]
         /\ lock' = IF found THEN p ELSE Free
  /\ UNCHANGED <<throttle, sessions, named, handled, wire, waited, metrics, bindMetrics>>

\* admit_inbound: clone the session's limiter and drop the lock.  A session
\* that is not (yet, or any more) registered has none.
FindLimiter(p) ==
  /\ phase[p] = "arrived" /\ lock = Free
  /\ LET found == throttle # "off" /\ From[p] \in esmes
     IN  phase' = [phase EXCEPT ![p] = IF found THEN "admitting" ELSE "admitted"]
  /\ UNCHANGED <<throttle, sessions, lock, named, handled, wire, waited, metrics, bindMetrics>>

Unlock(p) == lock' = IF lock = p THEN Free ELSE lock

\* Pace or reject, a token being free.  A paced PDU that had to wait counts
\* as throttled when its wait is over.
TakeToken(p) ==
  /\ phase[p] = "admitting" /\ tokens[From[p]] > 0
  /\ tokens' = [tokens EXCEPT ![From[p]] = @ - 1]
  /\ phase' = [phase EXCEPT ![p] = "admitted"]
  /\ throttled' = IF waited[p] THEN throttled + 1 ELSE throttled
  /\ Unlock(p)
  /\ UNCHANGED <<throttle, life, esmes, named, handled, wire, waited,
                 accepted, rejected, raised, bindMetrics>>

\* Pace, no token: acquire goes to sleep.
Wait(p) ==
  /\ phase[p] = "admitting" /\ tokens[From[p]] = 0 /\ throttle = "pace" /\ ~waited[p]
  /\ waited' = [waited EXCEPT ![p] = TRUE]
  /\ UNCHANGED <<throttle, sessions, lock, phase, named, handled, wire, metrics, bindMetrics>>

\* Answer, and count the answer: ACCEPTED exactly if the status is ESME_ROK
\* (or, for an alert, if its handler did not raise).
Respond(p, status, ok) ==
  /\ phase' = [phase EXCEPT ![p] = "answered"]
  /\ wire' = [wire EXCEPT ![p] = status]
  /\ accepted' = IF ok THEN accepted + 1 ELSE accepted
  /\ rejected' = IF ok THEN rejected ELSE rejected + 1

Turned_NoReturn(p) ==  \* mutant: counted, and dispatched all the same
  /\ phase[p] = "admitting" /\ tokens[From[p]] = 0 /\ throttle = "reject"
  /\ waited' = [waited EXCEPT ![p] = TRUE]
  /\ throttled' = throttled + 1
  /\ phase' = [phase EXCEPT ![p] = "admitted"]
  /\ Unlock(p)
  /\ UNCHANGED <<throttle, sessions, named, handled, wire, accepted, rejected, raised, bindMetrics>>

\* Reject, no token: ESME_RTHROTTLED, and the handler is not run.
Turned(p) ==
  /\ phase[p] = "admitting" /\ tokens[From[p]] = 0 /\ throttle = "reject"
  /\ waited' = [waited EXCEPT ![p] = TRUE]
  /\ throttled' = throttled + 1
  /\ Respond(p, "RTHROTTLED", FALSE)
  /\ Unlock(p)
  /\ UNCHANGED <<throttle, sessions, named, handled, raised, bindMetrics>>

\* esme_session looks the peer's system_id up.
NameSession(p) ==
  /\ phase[p] = "admitted" /\ lock = Free
  /\ named' = [named EXCEPT ![p] = From[p] \in esmes]
  /\ phase' = [phase EXCEPT ![p] = "named"]
  /\ UNCHANGED <<throttle, sessions, lock, handled, wire, waited, metrics, bindMetrics>>

\* Dispatch has returned; there is no await in the rest of a hook, so each of
\* its exits is one step.  The command's status for a PDU it cannot answer for:
FailStatus(p) == IF Command[p] \in Operations THEN "own" ELSE "RSYSERR"

StatusOf(o) ==
  CASE o = "accept" -> "ROK"
    [] o = "busy" -> "RTHROTTLED"
    [] OTHER -> "given"

\* A handler replied: its status decides, and nothing else does.
Replied(p, o) ==
  /\ phase[p] = "named" /\ Command[p] # "alert_notification"
  /\ handled' = [handled EXCEPT ![p] = o]
  /\ Respond(p, StatusOf(o), o = "accept")
  /\ UNCHANGED <<throttle, sessions, lock, named, waited, throttled, raised, bindMetrics>>

\* There is no handler: submit_sm and deliver_sm are acked (dispatch_pdu), all
\* else is refused.
Unhandled(p) ==
  /\ phase[p] = "named" /\ Command[p] # "alert_notification"
  /\ handled' = [handled EXCEPT ![p] = "unhandled"]
  /\ IF Command[p] \in {"submit_sm", "deliver_sm"} THEN Respond(p, "ROK", TRUE)
                                                 ELSE Respond(p, FailStatus(p), FALSE)
  /\ UNCHANGED <<throttle, sessions, lock, named, waited, throttled, raised, bindMetrics>>

\* The handler raised or timed out, which dispatch_pdu_opt counts.
HandlerRaised(p) ==
  /\ phase[p] = "named" /\ Command[p] # "alert_notification"
  /\ handled' = [handled EXCEPT ![p] = "error"]
  /\ raised' = raised + 1
  /\ Respond(p, FailStatus(p), FALSE)
  /\ UNCHANGED <<throttle, sessions, lock, named, waited, throttled, bindMetrics>>

Alerted_Uncounted(p, o) ==  \* mutant: counted nowhere, as it bypasses dispatch_pdu_opt
  /\ phase[p] = "named" /\ Command[p] = "alert_notification"
  /\ handled' = [handled EXCEPT ![p] = o]
  /\ Respond(p, "silent", o # "error")
  /\ UNCHANGED <<throttle, sessions, lock, named, waited, throttled, raised, bindMetrics>>

\* on_alert_notification sends nothing back and counts its own failures.
Alerted(p, o) ==
  /\ phase[p] = "named" /\ Command[p] = "alert_notification"
  /\ handled' = [handled EXCEPT ![p] = o]
  /\ raised' = IF o = "error" THEN raised + 1 ELSE raised
  /\ Respond(p, "silent", o # "error")
  /\ UNCHANGED <<throttle, sessions, lock, named, waited, throttled, bindMetrics>>

Answer(p) ==
  \/ \E o \in Replies : Replied(p, o)
  \/ Unhandled(p)
  \/ HandlerRaised(p)
  \/ \E o \in {"accept", "unhandled", "error"} : Alerted(p, o)

Step(p) ==
  FindLimiter(p) \/ Wait(p) \/ TakeToken(p) \/ Turned(p) \/ NameSession(p)
    \/ Answer(p)

Next ==
  \/ \E s \in Sessions :
       BindOneWay(s) \/ BindTransceiver(s) \/ OnEsmeBound(s) \/ OnEsmeUnbound(s) \/ Refill(s)
  \/ \E p \in Pdus : Arrive(p) \/ ArriveOnBind(p) \/ Step(p)

Spec == Init /\ [][Next]_vars

\* The PDUs of sessions whose limiter hands out tokens.
Unhindered == {p \in Pdus : From[p] \in Flowing}

(***************************************************************************)
(* A PDU's task is polled and its dispatch returns (EveryDispatchReturns of *)
(* Dispatch).  Only the Flowing sessions' limiters are sure to fill, and of *)
(* the other sessions' PDUs nothing is assumed at all.                      *)
(***************************************************************************)
Fairness ==
  /\ \A p \in Unhindered : WF_vars(Step(p))
  /\ \A s \in Flowing : WF_vars(Refill(s))

FairSpec == Spec /\ Fairness

-----------------------------------------------------------------------------
TypeOK ==
  /\ throttle \in {"off", "pace", "reject"}
  /\ life \in [Sessions -> {"new", "refused", "accepted", "bound", "gone"}]
  /\ esmes \subseteq Sessions
  /\ lock \in Pdus \cup {Free}
  /\ tokens \in [Sessions -> 0 .. Burst]
  /\ phase \in [Pdus -> Phases]
  /\ named \in [Pdus -> BOOLEAN] /\ waited \in [Pdus -> BOOLEAN]
  /\ handled \in [Pdus -> Outcomes]
  /\ wire \in [Pdus -> Statuses]
  /\ {accepted, rejected, throttled, raised, bindsAccepted, bindsRejected} \subseteq Nat

Count(P(_)) == Cardinality({p \in Pdus : P(p)})

\* The pdu metrics say what went out on the wire: each PDU that has been
\* answered is counted once, under the result the peer was given, and each
\* wait, refusal and raised handler once.
MetricsMatchWire ==
  LET Acked(p) == wire[p] = "ROK" \/ (wire[p] = "silent" /\ handled[p] # "error")
      Answered(p) == wire[p] # "none"
      Delayed(p) == waited[p] /\ phase[p] # "admitting"
      Raised(p) == handled[p] = "error"
  IN  /\ accepted = Count(Acked)
      /\ accepted + rejected = Count(Answered)
      /\ throttled = Count(Delayed)
      /\ raised = Count(Raised)

\* Under reject "the runtime answers ESME_RTHROTTLED itself - your handler
\* doesn't run for that PDU" (docs/operations.md 32-33): a message the limiter
\* turned away is never handed to a handler, before or after its answer, so
\* the peer may send it again; and an ESME_RTHROTTLED that is not the
\* limiter's is the handler's own word (which says nothing of what the handler
\* did before).  Only messages are turned away, and only under reject.
TurnedAwayUnseen ==
  \A p \in Pdus :
    /\ waited[p] /\ throttle = "reject" => handled[p] = "none" /\ Command[p] \in Messages
    /\ wire[p] = "RTHROTTLED" => handled[p] = "busy" \/ (waited[p] /\ throttle = "reject")

\* "throttling must not hold the lock and stall other sessions": the PDUs of
\* a session whose limiter hands out tokens are answered even if the PDUs of
\* another wait for ever.
OthersNotStalled ==
  \A p \in Unhindered : phase[p] \in {"arrived", "admitted", "named"} ~> phase[p] = "answered"
=============================================================================
