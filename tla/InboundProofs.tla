---------------------------- MODULE InboundProofs ----------------------------
(***************************************************************************)
(* Proofs about Inbound, for any number of sessions and PDUs.               *)
(***************************************************************************)
EXTENDS Inbound, FiniteSetTheorems, TLAPS

\* Only messages of inbound sessions go through the limiter.
LimitedAreInbound ==
  \A p \in Pdus : phase[p] \in {"arrived", "admitting"} => From[p] # OnBind /\ Command[p] \in Messages

\* Under reject, what the limiter did not let pass has been answered.
TurnedLast == \A p \in Pdus : waited[p] /\ throttle = "reject" => phase[p] = "answered"

\* The counting of an answer: ESME_ROK, or an alert whose handler did not raise.
Ok(o, status) == status = "ROK" \/ (status = "silent" /\ o # "error")

\* A task has an answer, and the result of its dispatch, only at its end.
AnsweredLast ==
  \A p \in Pdus : phase[p] # "answered" => wire[p] = "none" /\ handled[p] = "none"

\* The first state, without tasks, has the types and nothing answered.
LEMMA InitTypes ==
  Init => TypeOK /\ LimitedAreInbound /\ AnsweredLast /\ TurnedLast /\ TurnedAwayUnseen
<1> SUFFICES ASSUME Init
             PROVE  TypeOK /\ LimitedAreInbound /\ AnsweredLast /\ TurnedLast /\ TurnedAwayUnseen
  OBVIOUS
<1>1. named \in [Pdus -> BOOLEAN] /\ waited \in [Pdus -> BOOLEAN]
  BY Zenon DEF Init
<1>2. 0 \in 0 .. Burst /\ 0 \in Nat
  BY InboundAssumption
<1>3. TypeOK
  BY <1>1, <1>2 DEF Init, TypeOK, Phases, Outcomes, Replies, Statuses
<1>4. \A p \in Pdus : ~waited[p]
  BY Zenon DEF Init
<1> QED
  BY <1>3, <1>4 DEF Init, LimitedAreInbound, AnsweredLast, TurnedLast, TurnedAwayUnseen

\* What every exit of a hook has in common.
LEMMA AnswerShape ==
  ASSUME NEW p \in Pdus, Answer(p)
  PROVE  \E o \in Outcomes \ {"none"}, status \in Statuses \ {"none"} :
           /\ phase[p] = "named" /\ phase' = [phase EXCEPT ![p] = "answered"]
           /\ wire' = [wire EXCEPT ![p] = status]
           /\ handled' = [handled EXCEPT ![p] = o]
           /\ raised' = IF o = "error" THEN raised + 1 ELSE raised
           /\ accepted' = IF Ok(o, status) THEN accepted + 1 ELSE accepted
           /\ rejected' = IF Ok(o, status) THEN rejected ELSE rejected + 1
           /\ status = "RTHROTTLED" => o = "busy"
           /\ UNCHANGED <<throttle, sessions, lock, named, waited, throttled, bindMetrics>>
<1>1. ASSUME NEW o \in Replies, Replied(p, o)
      PROVE  /\ o \in Outcomes \ {"none"} /\ StatusOf(o) \in Statuses \ {"none"}
             /\ phase[p] = "named" /\ phase' = [phase EXCEPT ![p] = "answered"]
             /\ wire' = [wire EXCEPT ![p] = StatusOf(o)]
             /\ handled' = [handled EXCEPT ![p] = o]
             /\ raised' = IF o = "error" THEN raised + 1 ELSE raised
             /\ accepted' = IF Ok(o, StatusOf(o)) THEN accepted + 1 ELSE accepted
             /\ rejected' = IF Ok(o, StatusOf(o)) THEN rejected ELSE rejected + 1
             /\ StatusOf(o) = "RTHROTTLED" => o = "busy"
             /\ UNCHANGED <<throttle, sessions, lock, named, waited, throttled, bindMetrics>>
  BY <1>1 DEF Replied, Respond, StatusOf, Replies, Outcomes, Statuses, Ok
<1>2. ASSUME NEW status, NEW o,
             \/ Unhandled(p) /\ o = "unhandled"
                /\ status = IF Command[p] \in {"submit_sm", "deliver_sm"} THEN "ROK" ELSE FailStatus(p)
             \/ HandlerRaised(p) /\ o = "error" /\ status = FailStatus(p)
             \/ Alerted(p, o) /\ o \in {"accept", "unhandled", "error"} /\ status = "silent"
      PROVE  /\ o \in Outcomes \ {"none"} /\ status \in Statuses \ {"none"}
             /\ phase[p] = "named" /\ phase' = [phase EXCEPT ![p] = "answered"]
             /\ wire' = [wire EXCEPT ![p] = status]
             /\ handled' = [handled EXCEPT ![p] = o]
             /\ raised' = IF o = "error" THEN raised + 1 ELSE raised
             /\ accepted' = IF Ok(o, status) THEN accepted + 1 ELSE accepted
             /\ rejected' = IF Ok(o, status) THEN rejected ELSE rejected + 1
             /\ status = "RTHROTTLED" => o = "busy"
             /\ UNCHANGED <<throttle, sessions, lock, named, waited, throttled, bindMetrics>>
  BY <1>2 DEF Unhandled, HandlerRaised, Alerted, Respond, FailStatus, Replies, Outcomes, Statuses, Ok
<1>3. CASE \E o \in Replies : Replied(p, o)
  BY <1>1, <1>3, Zenon
<1>4. CASE Unhandled(p)
  BY <1>2, <1>4, Zenon
<1>5. CASE HandlerRaised(p)
  BY <1>2, <1>5, Zenon
<1>6. CASE \E o \in {"accept", "unhandled", "error"} : Alerted(p, o)
  BY <1>2, <1>6, Zenon
<1> QED BY <1>3, <1>4, <1>5, <1>6 DEF Answer

\* Every step preserves the types; a limiter never holds more than Burst.
LEMMA TypeStep == TypeOK /\ LimitedAreInbound /\ [Next]_vars => TypeOK'
<1> SUFFICES ASSUME TypeOK, LimitedAreInbound, [Next]_vars PROVE TypeOK'
  OBVIOUS
<1> USE InboundAssumption DEF TypeOK, sessions, task, metrics, bindMetrics, Phases, Outcomes, Replies, Statuses
<1>1. ASSUME NEW s \in Sessions, BindOneWay(s) \/ BindTransceiver(s) PROVE TypeOK'
  BY <1>1 DEF BindOneWay, BindTransceiver
<1>2. ASSUME NEW s \in Sessions, OnEsmeBound(s) PROVE TypeOK'
  BY <1>2 DEF OnEsmeBound
<1>3. ASSUME NEW s \in Sessions, OnEsmeUnbound(s) PROVE TypeOK'
  BY <1>3 DEF OnEsmeUnbound
<1>4. ASSUME NEW s \in Sessions, Refill(s) PROVE TypeOK'
  BY <1>4 DEF Refill
<1>5. ASSUME NEW p \in Pdus, Arrive(p) PROVE TypeOK'
  <2>1. phase' \in [Pdus -> Phases]
    BY <1>5 DEF Arrive
  <2> QED BY <1>5, <2>1 DEF Arrive
<1>6. ASSUME NEW p \in Pdus, ArriveOnBind(p) PROVE TypeOK'
  <2>1. named' \in [Pdus -> BOOLEAN]
    BY <1>6, Zenon DEF ArriveOnBind
  <2>2. phase' \in [Pdus -> Phases]
    BY <1>6 DEF ArriveOnBind
  <2> QED BY <1>6, <2>1, <2>2 DEF ArriveOnBind
<1>7. ASSUME NEW p \in Pdus, FindLimiter(p) PROVE TypeOK'
  <2>1. phase' \in [Pdus -> Phases]
    BY <1>7 DEF FindLimiter
  <2> QED BY <1>7, <2>1 DEF FindLimiter
<1>8. ASSUME NEW p \in Pdus, Wait(p) PROVE TypeOK'
  <2>1. waited' \in [Pdus -> BOOLEAN]
    BY <1>8, Zenon DEF Wait
  <2> QED BY <1>8, <2>1 DEF Wait
<1>9. ASSUME NEW p \in Pdus, TakeToken(p) PROVE TypeOK'
  <2>1. From[p] \in Sessions
    BY <1>9 DEF TakeToken, LimitedAreInbound
  <2>2. tokens' \in [Sessions -> 0 .. Burst]
    BY <1>9, <2>1 DEF TakeToken
  <2>3. phase' \in [Pdus -> Phases] /\ throttled' \in Nat /\ lock' \in Pdus \cup {Free}
    BY <1>9 DEF TakeToken, Unlock
  <2> QED BY <1>9, <2>2, <2>3 DEF TakeToken
<1>10. ASSUME NEW p \in Pdus, Turned(p) PROVE TypeOK'
  <2>1. waited' \in [Pdus -> BOOLEAN]
    BY <1>10, Zenon DEF Turned
  <2> QED BY <1>10, <2>1 DEF Turned, Unlock, Respond
<1>11. ASSUME NEW p \in Pdus, NameSession(p) PROVE TypeOK'
  <2>1. (From[p] \in esmes) \in BOOLEAN
    OBVIOUS
  <2>2. named' \in [Pdus -> BOOLEAN]
    BY <1>11, <2>1, Zenon DEF NameSession
  <2> QED BY <1>11, <2>2 DEF NameSession
<1>12. ASSUME NEW p \in Pdus, Answer(p) PROVE TypeOK'
  BY <1>12, AnswerShape
<1>13. CASE UNCHANGED vars
  BY <1>13 DEF vars
<1> QED
  BY <1>1, <1>2, <1>3, <1>4, <1>5, <1>6, <1>7, <1>8, <1>9, <1>10, <1>11, <1>12, <1>13
  DEF Next, Step

\* What the steps do to one task: the other tasks are left as they are.
LEMMA AnswerStep ==
  TypeOK /\ LimitedAreInbound /\ AnsweredLast /\ TurnedLast /\ TurnedAwayUnseen /\ [Next]_vars
    => LimitedAreInbound' /\ AnsweredLast' /\ TurnedLast' /\ TurnedAwayUnseen'
<1> SUFFICES ASSUME TypeOK, LimitedAreInbound, AnsweredLast, TurnedLast, TurnedAwayUnseen, [Next]_vars
             PROVE  LimitedAreInbound' /\ AnsweredLast' /\ TurnedLast' /\ TurnedAwayUnseen'
  OBVIOUS
<1> USE DEF LimitedAreInbound, AnsweredLast, TurnedLast, TurnedAwayUnseen, TypeOK, sessions, task,
            metrics, bindMetrics
<1>1. CASE UNCHANGED <<throttle, phase, wire, handled, waited>>
  BY <1>1
<1>2. ASSUME NEW p \in Pdus,
             Arrive(p) \/ ArriveOnBind(p) \/ FindLimiter(p) \/ TakeToken(p) \/ NameSession(p)
      PROVE  LimitedAreInbound' /\ AnsweredLast' /\ TurnedLast' /\ TurnedAwayUnseen'
  <2>1. wire' = wire /\ handled' = handled /\ waited' = waited /\ throttle' = throttle
    BY <1>2 DEF Arrive, ArriveOnBind, FindLimiter, TakeToken, NameSession
  <2>2. PICK q \in Phases \ {"answered"} : phase' = [phase EXCEPT ![p] = q]
    BY <1>2 DEF Arrive, ArriveOnBind, FindLimiter, TakeToken, NameSession, Phases
  <2>3. phase[p] # "answered"
    BY <1>2 DEF Arrive, ArriveOnBind, FindLimiter, TakeToken, NameSession
  <2>4. q \in {"arrived", "admitting"} => From[p] # OnBind /\ Command[p] \in Messages
    <3>1. CASE Arrive(p)
      BY <2>2, <3>1 DEF Arrive
    <3>2. CASE FindLimiter(p)
      BY <3>2 DEF FindLimiter
    <3>3. CASE ArriveOnBind(p) \/ TakeToken(p) \/ NameSession(p)
      <4>1. phase'[p] \in {"named", "admitted"}
        BY <3>3 DEF ArriveOnBind, TakeToken, NameSession
      <4> QED BY <4>1, <2>2
    <3> QED BY <1>2, <3>1, <3>2, <3>3
  <2> QED BY <2>1, <2>2, <2>3, <2>4
<1>3. ASSUME NEW p \in Pdus, Turned(p)
      PROVE  LimitedAreInbound' /\ AnsweredLast' /\ TurnedLast' /\ TurnedAwayUnseen'
  <2>1. /\ phase' = [phase EXCEPT ![p] = "answered"] /\ wire' = [wire EXCEPT ![p] = "RTHROTTLED"]
        /\ waited' = [waited EXCEPT ![p] = TRUE] /\ handled' = handled /\ throttle' = throttle
        /\ throttle = "reject" /\ phase[p] = "admitting"
    BY <1>3 DEF Turned, Respond
  <2>2. handled[p] = "none" /\ Command[p] \in Messages
    BY <2>1
  <2>3. waited'[p] /\ \A r \in Pdus : r # p => waited'[r] = waited[r]
    BY <2>1, Zenon
  <2> QED BY <2>1, <2>2, <2>3
<1>4. ASSUME NEW p \in Pdus, Answer(p)
      PROVE  LimitedAreInbound' /\ AnsweredLast' /\ TurnedLast' /\ TurnedAwayUnseen'
  <2>1. PICK o \in Outcomes \ {"none"}, status \in Statuses \ {"none"} :
          /\ phase[p] = "named" /\ phase' = [phase EXCEPT ![p] = "answered"]
          /\ wire' = [wire EXCEPT ![p] = status]
          /\ handled' = [handled EXCEPT ![p] = o]
          /\ status = "RTHROTTLED" => o = "busy"
          /\ waited' = waited /\ throttle' = throttle
    BY <1>4, AnswerShape
  <2>2. ~(waited[p] /\ throttle = "reject")
    BY <2>1
  <2> QED BY <2>1, <2>2
<1>5. ASSUME NEW s \in Sessions,
             BindOneWay(s) \/ BindTransceiver(s) \/ OnEsmeBound(s) \/ OnEsmeUnbound(s) \/ Refill(s)
      PROVE  UNCHANGED <<throttle, phase, wire, handled, waited>>
  BY <1>5 DEF BindOneWay, BindTransceiver, OnEsmeBound, OnEsmeUnbound, Refill
<1>6. ASSUME NEW p \in Pdus, Wait(p)
      PROVE  LimitedAreInbound' /\ AnsweredLast' /\ TurnedLast' /\ TurnedAwayUnseen'
  <2>1. throttle = "pace" /\ throttle' = throttle /\ UNCHANGED <<phase, wire, handled>>
    BY <1>6 DEF Wait
  <2> QED BY <2>1
<1>7. ASSUME UNCHANGED vars PROVE UNCHANGED <<throttle, phase, wire, handled, waited>>
  BY <1>7 DEF vars
<1> QED
  BY <1>1, <1>2, <1>3, <1>4, <1>5, <1>6, <1>7 DEF Next, Step

\* Every state has the shape the variables' comments describe; in particular
\* no session's limiter ever holds more than the Burst it was created with.
THEOREM TypeCorrect == Spec => []TypeOK
<1> QED
  BY InitTypes, TypeStep, AnswerStep, PTL DEF Spec

\* However sessions come and go around it, a message that admit_inbound turned
\* away is never dispatched, and an ESME_RTHROTTLED for a PDU that was not
\* turned away is its handler's own.
THEOREM TurnedAwayAreUnseen == Spec => []TurnedAwayUnseen
<1> QED
  BY InitTypes, TypeStep, AnswerStep, PTL DEF Spec

-----------------------------------------------------------------------------
(* The metrics.  Each of the four counters is the size of a set of PDUs, and *)
(* each step puts at most one PDU into each set and takes none out.         *)

AckedPdus == {p \in Pdus : wire[p] = "ROK" \/ (wire[p] = "silent" /\ handled[p] # "error")}
AnsweredPdus == {p \in Pdus : wire[p] # "none"}
DelayedPdus == {p \in Pdus : waited[p] /\ phase[p] # "admitting"}
RaisedPdus == {p \in Pdus : handled[p] = "error"}

\* A task can have been made to wait only once it has found its limiter.
WaitsAtLimiter == \A p \in Pdus : phase[p] \in {"new", "arrived"} => ~waited[p]

\* The counters are the sizes of sets of PDUs.
LEMMA MetricsSets ==
  MetricsMatchWire <=> /\ accepted = Cardinality(AckedPdus)
                       /\ accepted + rejected = Cardinality(AnsweredPdus)
                       /\ throttled = Cardinality(DelayedPdus)
                       /\ raised = Cardinality(RaisedPdus)
  BY DEF MetricsMatchWire, Count, AckedPdus, AnsweredPdus, DelayedPdus, RaisedPdus

\* One more PDU in a set of PDUs is one more.
LEMMA OneMore ==
  ASSUME NEW S \in SUBSET Pdus, NEW p \in Pdus, p \notin S
  PROVE  Cardinality(S \cup {p}) = Cardinality(S) + 1 /\ Cardinality(S) \in Nat
<1>1. IsFiniteSet(S)
  BY InboundAssumption, FS_Subset
<1> QED
  BY <1>1, FS_AddElement, FS_CardinalityType

\* The first state has nothing counted and nobody waiting.
LEMMA MetricsInit == Init => MetricsMatchWire /\ WaitsAtLimiter
<1> SUFFICES ASSUME Init PROVE MetricsMatchWire /\ WaitsAtLimiter
  OBVIOUS
<1>1. AckedPdus = {} /\ AnsweredPdus = {} /\ RaisedPdus = {}
  BY DEF Init, AckedPdus, AnsweredPdus, RaisedPdus
<1>2. DelayedPdus = {} /\ WaitsAtLimiter
  BY DEF Init, DelayedPdus, WaitsAtLimiter
<1>3. Cardinality({}) = 0
  BY FS_EmptySet
<1> QED
  BY <1>1, <1>2, <1>3, MetricsSets DEF Init

\* Each step moves a PDU and the counters that count it together.
LEMMA MetricsStep ==
  /\ TypeOK /\ AnsweredLast /\ WaitsAtLimiter /\ MetricsMatchWire
  /\ [Next]_vars
  => MetricsMatchWire' /\ WaitsAtLimiter'
<1> SUFFICES ASSUME TypeOK, AnsweredLast, WaitsAtLimiter, MetricsMatchWire, [Next]_vars
             PROVE  MetricsMatchWire' /\ WaitsAtLimiter'
  OBVIOUS
<1> USE DEF AnsweredLast, WaitsAtLimiter, TypeOK, sessions, task, metrics, bindMetrics
<1>0. MetricsMatchWire' <=> /\ accepted' = Cardinality(AckedPdus')
                           /\ accepted' + rejected' = Cardinality(AnsweredPdus')
                           /\ throttled' = Cardinality(DelayedPdus')
                           /\ raised' = Cardinality(RaisedPdus')
  BY DEF MetricsMatchWire, Count, AckedPdus, AnsweredPdus, DelayedPdus, RaisedPdus
<1>s. /\ AckedPdus \in SUBSET Pdus /\ AnsweredPdus \in SUBSET Pdus
      /\ DelayedPdus \in SUBSET Pdus /\ RaisedPdus \in SUBSET Pdus
  BY DEF AckedPdus, AnsweredPdus, DelayedPdus, RaisedPdus
<1>1. ASSUME UNCHANGED <<metrics, phase, wire, handled, waited>>
      PROVE  MetricsMatchWire' /\ WaitsAtLimiter'
  <2>1. /\ AckedPdus' = AckedPdus /\ AnsweredPdus' = AnsweredPdus
        /\ DelayedPdus' = DelayedPdus /\ RaisedPdus' = RaisedPdus
    BY <1>1 DEF AckedPdus, AnsweredPdus, DelayedPdus, RaisedPdus
  <2> QED BY <1>0, <1>1, <2>1, MetricsSets
<1>2. ASSUME NEW p \in Pdus, Arrive(p) \/ ArriveOnBind(p) \/ FindLimiter(p) \/ NameSession(p)
      PROVE  MetricsMatchWire' /\ WaitsAtLimiter'
  <2>1. UNCHANGED <<metrics, wire, handled, waited>>
    BY <1>2 DEF Arrive, ArriveOnBind, FindLimiter, NameSession
  <2>2. PICK q \in Phases : /\ phase' = [phase EXCEPT ![p] = q]
                            /\ q = "arrived" => phase[p] = "new"
                            /\ q # "new"
                            /\ q = "admitting" => phase[p] = "arrived"
                            /\ phase[p] \in {"new", "arrived", "admitted"}
    <3>1. CASE Arrive(p)
      BY <3>1 DEF Arrive, Phases
    <3>2. CASE ArriveOnBind(p)
      BY <3>2 DEF ArriveOnBind, Phases
    <3>3. CASE FindLimiter(p)
      BY <3>3 DEF FindLimiter, Phases
    <3>4. CASE NameSession(p)
      BY <3>4 DEF NameSession, Phases
    <3> QED BY <1>2, <3>1, <3>2, <3>3, <3>4
  <2>3. AckedPdus' = AckedPdus /\ AnsweredPdus' = AnsweredPdus /\ RaisedPdus' = RaisedPdus
    BY <2>1 DEF AckedPdus, AnsweredPdus, RaisedPdus
  <2>4. WaitsAtLimiter'
    BY <2>1, <2>2
  <2>5. ASSUME NEW r \in Pdus
        PROVE  (waited[r] /\ phase'[r] # "admitting") <=> (waited[r] /\ phase[r] # "admitting")
    BY <2>2
  <2>6. DelayedPdus' = DelayedPdus
    BY <2>1, <2>5 DEF DelayedPdus
  <2> QED BY <1>0, <2>1, <2>3, <2>4, <2>6, MetricsSets
<1>3. ASSUME NEW p \in Pdus, Wait(p) PROVE MetricsMatchWire' /\ WaitsAtLimiter'
  <2>1. /\ UNCHANGED <<metrics, phase, wire, handled>>
        /\ phase[p] = "admitting" /\ waited' = [waited EXCEPT ![p] = TRUE]
    BY <1>3 DEF Wait
  <2>2. AckedPdus' = AckedPdus /\ AnsweredPdus' = AnsweredPdus /\ RaisedPdus' = RaisedPdus
    BY <2>1 DEF AckedPdus, AnsweredPdus, RaisedPdus
  <2>3. \A r \in Pdus : phase[r] # "admitting" => waited'[r] = waited[r]
    BY <2>1
  <2>4. DelayedPdus' = DelayedPdus
    BY <2>1, <2>3 DEF DelayedPdus
  <2>5. WaitsAtLimiter'
    BY <2>1, <2>3
  <2> QED BY <1>0, <2>1, <2>2, <2>4, <2>5, MetricsSets
<1>4. ASSUME NEW p \in Pdus, TakeToken(p) PROVE MetricsMatchWire' /\ WaitsAtLimiter'
  <2>1. /\ UNCHANGED <<accepted, rejected, raised, wire, handled, waited>>
        /\ phase[p] = "admitting" /\ phase' = [phase EXCEPT ![p] = "admitted"]
        /\ throttled' = IF waited[p] THEN throttled + 1 ELSE throttled
    BY <1>4 DEF TakeToken
  <2>2. AckedPdus' = AckedPdus /\ AnsweredPdus' = AnsweredPdus /\ RaisedPdus' = RaisedPdus
    BY <2>1 DEF AckedPdus, AnsweredPdus, RaisedPdus
  <2>3. WaitsAtLimiter'
    BY <2>1
  <2>4. p \notin DelayedPdus
    BY <2>1 DEF DelayedPdus
  <2>5. DelayedPdus' = IF waited[p] THEN DelayedPdus \cup {p} ELSE DelayedPdus
    BY <2>1 DEF DelayedPdus
  <2>6. throttled' = Cardinality(DelayedPdus')
    BY <1>s, <2>1, <2>4, <2>5, OneMore, MetricsSets
  <2> QED BY <1>0, <2>1, <2>2, <2>3, <2>6, MetricsSets
<1>5. ASSUME NEW p \in Pdus, Turned(p) PROVE MetricsMatchWire' /\ WaitsAtLimiter'
  <2>1. /\ UNCHANGED <<raised, handled, accepted>> /\ phase[p] = "admitting"
        /\ phase' = [phase EXCEPT ![p] = "answered"]
        /\ wire' = [wire EXCEPT ![p] = "RTHROTTLED"]
        /\ waited' = [waited EXCEPT ![p] = TRUE]
        /\ throttled' = throttled + 1 /\ rejected' = rejected + 1
    BY <1>5 DEF Turned, Respond
  <2>2. AckedPdus' = AckedPdus /\ RaisedPdus' = RaisedPdus
    BY <2>1 DEF AckedPdus, RaisedPdus
  <2>3. AnsweredPdus' = AnsweredPdus \cup {p} /\ p \notin AnsweredPdus
    BY <2>1 DEF AnsweredPdus
  <2>4. DelayedPdus' = DelayedPdus \cup {p} /\ p \notin DelayedPdus
    BY <2>1 DEF DelayedPdus
  <2>5. WaitsAtLimiter'
    BY <2>1
  <2>6. /\ Cardinality(AnsweredPdus') = Cardinality(AnsweredPdus) + 1
        /\ Cardinality(DelayedPdus') = Cardinality(DelayedPdus) + 1
    BY <1>s, <2>3, <2>4, OneMore
  <2> QED BY <1>0, <2>1, <2>2, <2>5, <2>6, MetricsSets
<1>6. ASSUME NEW p \in Pdus, Answer(p)
      PROVE  MetricsMatchWire' /\ WaitsAtLimiter'
  <2>0. PICK o \in Outcomes \ {"none"}, status \in Statuses \ {"none"} :
          /\ phase[p] = "named" /\ phase' = [phase EXCEPT ![p] = "answered"]
          /\ wire' = [wire EXCEPT ![p] = status]
          /\ handled' = [handled EXCEPT ![p] = o]
          /\ raised' = IF o = "error" THEN raised + 1 ELSE raised
          /\ accepted' = IF Ok(o, status) THEN accepted + 1 ELSE accepted
          /\ rejected' = IF Ok(o, status) THEN rejected ELSE rejected + 1
          /\ waited' = waited /\ throttled' = throttled
    BY <1>6, AnswerShape
  <2> DEFINE ok == status = "ROK" \/ (status = "silent" /\ o # "error")
  <2>1. /\ UNCHANGED <<waited, throttled>> /\ phase[p] = "named"
        /\ phase' = [phase EXCEPT ![p] = "answered"]
        /\ wire' = [wire EXCEPT ![p] = status]
        /\ handled' = [handled EXCEPT ![p] = o]
        /\ raised' = IF o = "error" THEN raised + 1 ELSE raised
        /\ accepted' = IF ok THEN accepted + 1 ELSE accepted
        /\ rejected' = IF ok THEN rejected ELSE rejected + 1
    BY <2>0 DEF Ok
  <2>2. status # "none"
    OBVIOUS
  <2>3. WaitsAtLimiter' /\ DelayedPdus' = DelayedPdus
    BY <2>1 DEF DelayedPdus
  <2>4. p \notin AckedPdus /\ p \notin AnsweredPdus /\ p \notin RaisedPdus
    BY <2>1 DEF AckedPdus, AnsweredPdus, RaisedPdus
  <2>5. AnsweredPdus' = AnsweredPdus \cup {p}
    BY <2>1, <2>2 DEF AnsweredPdus
  <2>6. AckedPdus' = IF ok THEN AckedPdus \cup {p} ELSE AckedPdus
    BY <2>1, <2>4 DEF AckedPdus
  <2>7. RaisedPdus' = IF o = "error" THEN RaisedPdus \cup {p} ELSE RaisedPdus
    BY <2>1, <2>4 DEF RaisedPdus
  <2>8. /\ accepted' = Cardinality(AckedPdus') /\ raised' = Cardinality(RaisedPdus')
        /\ accepted' + rejected' = Cardinality(AnsweredPdus')
    <3>1. Cardinality(AnsweredPdus') = Cardinality(AnsweredPdus) + 1
      BY <1>s, <2>4, <2>5, OneMore
    <3>2. accepted' + rejected' = accepted + rejected + 1
      BY <2>1
    <3>3. accepted' = Cardinality(AckedPdus')
      BY <1>s, <2>1, <2>4, <2>6, OneMore, MetricsSets
    <3>4. raised' = Cardinality(RaisedPdus')
      BY <1>s, <2>1, <2>4, <2>7, OneMore, MetricsSets
    <3> QED BY <3>1, <3>2, <3>3, <3>4, MetricsSets
  <2> QED BY <1>0, <2>1, <2>3, <2>8, MetricsSets
<1>7. ASSUME NEW s \in Sessions,
             BindOneWay(s) \/ BindTransceiver(s) \/ OnEsmeBound(s) \/ OnEsmeUnbound(s) \/ Refill(s)
      PROVE  UNCHANGED <<metrics, phase, wire, handled, waited>>
  BY <1>7 DEF BindOneWay, BindTransceiver, OnEsmeBound, OnEsmeUnbound, Refill
<1>8. ASSUME UNCHANGED vars PROVE UNCHANGED <<metrics, phase, wire, handled, waited>>
  BY <1>8 DEF vars
<1> QED
  BY <1>1, <1>2, <1>3, <1>4, <1>5, <1>6, <1>7, <1>8 DEF Next, Step

\* The pdu metrics agree with the wire in every reachable state, for any
\* number of PDUs on any number of sessions: no PDU is counted twice, under
\* the wrong result, or not at all.
THEOREM MetricsAreTrue == Spec => []MetricsMatchWire
<1> QED
  BY InitTypes, MetricsInit, TypeStep, AnswerStep, MetricsStep, PTL DEF Spec
=============================================================================
