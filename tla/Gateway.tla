------------------------------- MODULE Gateway -------------------------------
(***************************************************************************)
(* The store-and-forward gateway (examples/gateway.py): a script whose      *)
(* handlers share siphon's cache.  Each handler is a task of its own and    *)
(* gives way at every await, so the cache is read and written between the   *)
(* steps of other handlers.                                                 *)
(*                                                                          *)
(*   esme_session:{system_id}   esmeSession   the session to deliver to     *)
(*   dlr:{bind}:{upstream id}   dlr           who submitted that message    *)
(*                                                                          *)
(* Upstream SMSCs number messages independently of each other and may send  *)
(* a receipt as soon as they have taken the message, and more than one.  A  *)
(* handler that takes too long is cancelled at the await it is in, and its  *)
(* PDU answered ESME_RSYSERR (Dispatch); the call it was waiting for may or *)
(* may not have had its effect.                                             *)
(* Message bodies are Receipt's and Messages' concern.  esme_system:..., an  *)
(* inverse of esme_session that no handler reads, and on_data, on_alert and *)
(* on_cancel, which touch no shared state, are not represented.             *)
(***************************************************************************)
EXTENDS Integers, FiniteSets

CONSTANTS
  Sessions, SystemOf,     \* ESME sessions and the system_id of each
  Msgs, From,             \* submit_sm PDUs and their sessions
  Route,                  \* _pick_bind: the bind of each, or NoRoute
  UpstreamId,             \* the id its upstream gives it, if it takes it
  Registered,             \* messages that ask for a receipt
  Receipts, About,        \* deliver_sm PDUs with a receipt; the message each is about
  Replies, Owner,         \* mobile-originated deliver_sm PDUs; msisdn_owner of each
  NoRoute, Nobody

Systems == {SystemOf[s] : s \in Sessions}
Binds == {Route[m] : m \in Msgs} \ {NoRoute}
UpstreamIds == {UpstreamId[m] : m \in Msgs}

ASSUME GatewayAssumption ==
  /\ From \in [Msgs -> Sessions]
  /\ About \in [Receipts -> Registered] /\ Registered \subseteq Msgs
  /\ Owner \in [Replies -> Systems]
  /\ Nobody \notin Sessions \cup Msgs
  \* an SMSC gives no id twice
  /\ \A m, n \in Msgs : Route[m] = Route[n] /\ UpstreamId[m] = UpstreamId[n] => m = n

VARIABLES
  bound,        \* progress of each ESME session's on_bound handler
  unbound,      \* ... and of its on_unbound handler
  esmeSession, dlr,  \* the cache
  upstream,     \* what the upstream made of each message
  submit,       \* progress of each on_submit
  reply,        \* the status it answered with; ESME_ROK carries our_id
  route,        \* progress of each _route_dlr
  correlation,  \* the message each _route_dlr found in the cache
  mo,           \* progress of each _route_mo_reply
  wiped         \* history: the sessions whose entry another's on_unbound deleted

sessionVars == <<bound, unbound, esmeSession, wiped>>
submitVars == <<upstream, submit, reply>>
receiptVars == <<route, correlation>>
vars == <<bound, unbound, esmeSession, dlr, upstream, submit, reply, route, correlation, mo, wiped>>

\* The session is in the registry: its "bound" event has been dispatched and
\* its "unbound" event has not.
Up(s) == bound[s] # "no" /\ unbound[s] = "no"

Init ==
  /\ bound = [s \in Sessions |-> "no"]
  /\ unbound = [s \in Sessions |-> "no"]
  /\ esmeSession = [y \in Systems |-> Nobody]
  /\ dlr = [k \in Binds \X UpstreamIds |-> Nobody]
  /\ upstream = [m \in Msgs |-> "none"]
  /\ submit = [m \in Msgs |-> "new"]
  /\ reply = [m \in Msgs |-> "none"]
  /\ route = [r \in Receipts |-> "new"]
  /\ correlation = [r \in Receipts |-> Nobody]
  /\ mo = [x \in Replies |-> "new"]
  /\ wiped = {}

-----------------------------------------------------------------------------
(* on_bound and on_unbound.  One that is cancelled stays "running" if its    *)
(* cache call had no effect and is "done" if it had.                        *)

\* The session is registered and its event is dispatched ...
Bind(s) ==
  /\ bound[s] = "no"
  /\ bound' = [bound EXCEPT ![s] = "running"]
  /\ UNCHANGED <<unbound, esmeSession, wiped, dlr, submitVars, receiptVars, mo>>

SetSession_NotAwaited(s) ==  \* mutant: the coroutine of cache.set never runs
  /\ bound[s] = "running"
  /\ bound' = [bound EXCEPT ![s] = "done"]
  /\ UNCHANGED <<unbound, esmeSession, wiped, dlr, submitVars, receiptVars, mo>>

\* ... to an awaited cache.set (a second one writes esme_system).
SetSession(s) ==
  /\ bound[s] = "running"
  /\ esmeSession' = [esmeSession EXCEPT ![SystemOf[s]] = s]
  /\ bound' = [bound EXCEPT ![s] = "done"]
  /\ UNCHANGED <<unbound, wiped, dlr, submitVars, receiptVars, mo>>

\* The session has left the registry; nothing makes its second event wait for
\* the handler of its first.
Unbind(s) ==
  /\ Up(s)
  /\ unbound' = [unbound EXCEPT ![s] = "running"]
  /\ UNCHANGED <<bound, esmeSession, wiped, dlr, submitVars, receiptVars, mo>>

\* on_unbound deletes the entry of the system, whichever session is in it.
DeleteSession(s) ==
  /\ unbound[s] = "running"
  /\ esmeSession' = [esmeSession EXCEPT ![SystemOf[s]] = Nobody]
  /\ unbound' = [unbound EXCEPT ![s] = "done"]
  /\ wiped' = wiped \cup {t \in Sessions \ {s} : SystemOf[t] = SystemOf[s] /\ bound[t] = "done"}
  /\ UNCHANGED <<bound, dlr, submitVars, receiptVars, mo>>

-----------------------------------------------------------------------------
(* on_submit.                                                               *)

Key_NoBind(m) ==  \* mutant: one key space for all binds
  <<CHOOSE b \in Binds : TRUE, UpstreamId[m]>>

\* f"dlr:{bind}:{upstream_id}", of the message and of a receipt about it.
Key(m) == <<Route[m], UpstreamId[m]>>

Answer(m, status) ==
  /\ submit' = [submit EXCEPT ![m] = "answered"]
  /\ reply' = [reply EXCEPT ![m] = status]

\* The handler runs up to submit_via.
Submit(m) ==
  /\ submit[m] = "new" /\ Up(From[m])
  /\ IF Route[m] = NoRoute THEN Answer(m, "ESME_RINVDSTADR")
     ELSE submit' = [submit EXCEPT ![m] = "sending"] /\ UNCHANGED reply
  /\ UNCHANGED <<sessionVars, dlr, upstream, receiptVars, mo>>

\* The upstream takes or refuses what submit_via sent it, now or after
\* submit_via has given up waiting.  It may take it and not say under which id.
UpstreamDecides(m) ==
  /\ submit[m] # "new" /\ Route[m] # NoRoute /\ upstream[m] = "none"
  /\ \E decision \in {"taken", "taken_no_id", "refused", "throttled"} :
       upstream' = [upstream EXCEPT ![m] = decision]
  /\ UNCHANGED <<sessionVars, dlr, submit, reply, receiptVars, mo>>

\* submit_via raises: no session, no answer in time, connection lost.
SubmitRaises(m) ==
  /\ submit[m] = "sending"
  /\ Answer(m, "ESME_RSUBMITFAIL")
  /\ UNCHANGED <<sessionVars, dlr, upstream, receiptVars, mo>>

\* submit_via returns the upstream's answer.
SubmitReturns(m) ==
  /\ submit[m] = "sending" /\ upstream[m] # "none"
  /\ CASE upstream[m] = "refused" -> Answer(m, "ESME_RSUBMITFAIL")
       [] upstream[m] = "throttled" -> Answer(m, "ESME_RTHROTTLED")
       [] upstream[m] = "taken" /\ m \in Registered ->
            submit' = [submit EXCEPT ![m] = "storing"] /\ UNCHANGED reply
       [] OTHER -> Answer(m, "ESME_ROK")
  /\ UNCHANGED <<sessionVars, dlr, upstream, receiptVars, mo>>

StoreCorrelation_NotAwaited(m) ==  \* mutant: the coroutine of cache.set never runs
  /\ submit[m] = "storing"
  /\ submit' = [submit EXCEPT ![m] = "stored"]
  /\ UNCHANGED <<sessionVars, dlr, upstream, reply, receiptVars, mo>>

\* The awaited cache.set of the correlation has its effect ...
StoreCorrelation(m) ==
  /\ submit[m] = "storing"
  /\ dlr' = [dlr EXCEPT ![Key(m)] = m]
  /\ submit' = [submit EXCEPT ![m] = "stored"]
  /\ UNCHANGED <<sessionVars, upstream, reply, receiptVars, mo>>

\* ... and when it has returned, the reply is made.
Accept(m) ==
  /\ submit[m] = "stored"
  /\ Answer(m, "ESME_ROK")
  /\ UNCHANGED <<sessionVars, dlr, upstream, receiptVars, mo>>

\* on_submit times out in submit_via or in cache.set.
SubmitCancelled(m) ==
  /\ submit[m] \in {"sending", "storing", "stored"}
  /\ Answer(m, "ESME_RSYSERR")
  /\ UNCHANGED <<sessionVars, dlr, upstream, receiptVars, mo>>

-----------------------------------------------------------------------------
(* on_deliver: _route_dlr.  Unless it is cancelled, the upstream's PDU is    *)
(* acked on every path.                                                     *)

ReceiptArrives(r) ==
  /\ route[r] = "new" /\ upstream[About[r]] \in {"taken", "taken_no_id"}
  /\ route' = [route EXCEPT ![r] = "looking"]
  /\ UNCHANGED <<sessionVars, dlr, submitVars, correlation, mo>>

\* cache.get; a receipt for an id the cache does not know is dropped.
LookUp(r) ==
  LET raw == dlr[Key(About[r])]
  IN  /\ route[r] = "looking"
      /\ correlation' = [correlation EXCEPT ![r] = raw]
      /\ route' = [route EXCEPT ![r] = IF raw = Nobody THEN "acked" ELSE "delivering"]
      /\ UNCHANGED <<sessionVars, dlr, submitVars, mo>>

Deliver_NoFinally(r) ==  \* mutant: an exception skips the delete
  /\ route[r] = "delivering"
  /\ \E next \in {"clearing", "acked"} : route' = [route EXCEPT ![r] = next]
  /\ UNCHANGED <<sessionVars, dlr, submitVars, correlation, mo>>

\* deliver_to to the session that submitted returns or raises, or is
\* cancelled.  A receipt that session refuses, or is not there to take, is
\* logged and lost.
Deliver(r) ==
  /\ route[r] = "delivering"
  /\ route' = [route EXCEPT ![r] = "clearing"]
  /\ UNCHANGED <<sessionVars, dlr, submitVars, correlation, mo>>

\* finally: cache.delete, and on_deliver acks (or ends, if it was cancelled).
Clear(r) ==
  /\ route[r] = "clearing"
  /\ dlr' = [dlr EXCEPT ![Key(About[r])] = Nobody]
  /\ route' = [route EXCEPT ![r] = "acked"]
  /\ UNCHANGED <<sessionVars, submitVars, correlation, mo>>

\* on_deliver times out in one of its cache calls.
ReceiptCancelled(r) ==
  /\ route[r] \in {"looking", "clearing"}
  /\ route' = [route EXCEPT ![r] = "cancelled"]
  /\ \/ UNCHANGED dlr
     \/ route[r] = "clearing" /\ dlr' = [dlr EXCEPT ![Key(About[r])] = Nobody]
  /\ UNCHANGED <<sessionVars, submitVars, correlation, mo>>

-----------------------------------------------------------------------------
(* on_deliver: _route_mo_reply.                                             *)

\* The second cache.get, of the owner's session; what deliver_to then makes
\* of it is only logged.
LookUpOwner(x) ==
  /\ mo[x] = "new"
  /\ mo' = [mo EXCEPT ![x] = IF esmeSession[Owner[x]] = Nobody THEN "dropped" ELSE "sent"]
  /\ UNCHANGED <<sessionVars, dlr, submitVars, receiptVars>>

-----------------------------------------------------------------------------
SessionStep(s) == SetSession(s) \/ DeleteSession(s)
SubmitStep(m) == SubmitRaises(m) \/ SubmitReturns(m) \/ StoreCorrelation(m) \/ Accept(m)
ReceiptStep(r) == LookUp(r) \/ Deliver(r) \/ Clear(r)

Next ==
  \/ \E s \in Sessions : Bind(s) \/ Unbind(s) \/ SessionStep(s)
  \/ \E m \in Msgs : Submit(m) \/ UpstreamDecides(m) \/ SubmitStep(m) \/ SubmitCancelled(m)
  \/ \E r \in Receipts : ReceiptArrives(r) \/ ReceiptStep(r) \/ ReceiptCancelled(r)
  \/ \E x \in Replies : LookUpOwner(x)

Spec == Init /\ [][Next]_vars

-----------------------------------------------------------------------------
TypeOK ==
  /\ bound \in [Sessions -> {"no", "running", "done"}]
  /\ unbound \in [Sessions -> {"no", "running", "done"}]
  /\ esmeSession \in [Systems -> Sessions \cup {Nobody}]
  /\ dlr \in [Binds \X UpstreamIds -> Msgs \cup {Nobody}]
  /\ upstream \in [Msgs -> {"none", "taken", "taken_no_id", "refused", "throttled"}]
  /\ submit \in [Msgs -> {"new", "sending", "storing", "stored", "answered"}]
  /\ reply \in [Msgs -> {"none", "ESME_ROK", "ESME_RINVDSTADR", "ESME_RSUBMITFAIL", "ESME_RTHROTTLED",
                       "ESME_RSYSERR"}]
  /\ route \in [Receipts -> {"new", "looking", "delivering", "clearing", "acked", "cancelled"}]
  /\ correlation \in [Receipts -> Msgs \cup {Nobody}]
  /\ mo \in [Replies -> {"new", "dropped", "sent"}]
  /\ wiped \subseteq Sessions

\* What _route_dlr hands to deliver_to goes to the session that submitted
\* the message the receipt is about, and to none that on_submit told the
\* message had failed: though two upstreams use the same ids, and an upstream
\* may have taken a message submit_via raised for.  The submitter may not have
\* been answered yet, the correlation being stored before the reply is made; and
\* the dispatcher may have answered ESME_RSYSERR for an on_submit that it
\* cancelled after the store.
ReceiptToItsSubmitter ==
  \A r \in Receipts : route[r] = "delivering" =>
    /\ correlation[r] = About[r]
    /\ reply[About[r]] \in {"none", "ESME_ROK", "ESME_RSYSERR"}

\* A receipt is dropped as unknown only if it overtook the store of its
\* correlation (gateway.py:253, the upstream being faster than the cache), if
\* its submitter was told the message had failed, if the upstream gave the
\* message no id (gateway.py:245), or if another receipt for the same message
\* has been through _route_dlr.
LostReceiptExplained ==
  [][\A r \in Receipts : route[r] = "looking" /\ route'[r] = "acked" =>
       \/ submit[About[r]] \in {"sending", "storing"}
       \/ submit[About[r]] = "answered" /\ reply[About[r]] # "ESME_ROK"
       \/ upstream[About[r]] = "taken_no_id"
       \/ \E q \in Receipts :
            q # r /\ About[q] = About[r] /\ route[q] \in {"acked", "cancelled"}]_vars

\* A mobile-originated message is dropped for want of a session, although a
\* session of the owner is up and its on_bound has written its entry, only if
\* the on_unbound of another session of that owner deleted the entry after it
\* was written (gateway.py:83); that the owner has reconnected is no excuse.
LostMoExplained ==
  [][\A x \in Replies : mo[x] = "new" /\ mo'[x] = "dropped" =>
       \A s \in Sessions :
         SystemOf[s] = Owner[x] /\ bound[s] = "done" /\ unbound[s] = "no" => s \in wiped]_vars

\* "Maintain a system_id <-> session_id map so we can MT-deliver to a bound
\* ESME by its system_id" (gateway.py:67-68): while a session is up that on_bound
\* has put into the map, the map has a session for its system_id.
BoundIsInMap ==
  \A s \in Sessions :
    bound[s] = "done" /\ unbound[s] = "no" => esmeSession[SystemOf[s]] # Nobody

\* A receipt that found its correlation has removed it for good when its
\* handler ends, whether or not the ESME was there to take the receipt and
\* whatever other receipts and the on_submit of the message were doing, unless
\* the handler was cancelled (gateway.py, the finally of _route_dlr).
CorrelationCleared ==
  \A r \in Receipts :
    correlation[r] # Nobody /\ route[r] = "acked" => dlr[Key(About[r])] = Nobody
=============================================================================
