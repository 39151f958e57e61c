---------------------------- MODULE GatewayProofs ----------------------------
(***************************************************************************)
(* Proofs about Gateway, for any number of sessions, messages, binds and    *)
(* receipts.                                                                *)
(***************************************************************************)
EXTENDS Gateway, TLAPS

-----------------------------------------------------------------------------
(* The inductive invariant.                                                 *)

\* Only messages with a route get anywhere, and only after their on_submit has
\* sent them.
Routed ==
  \A m \in Msgs :
    /\ submit[m] \in {"sending", "storing", "stored"} \/ upstream[m] # "none" => Route[m] # NoRoute
    /\ upstream[m] # "none" => submit[m] # "new"

\* What is stored was taken, under an id; what is accepted was taken.
Taken ==
  \A m \in Msgs :
    /\ submit[m] \in {"storing", "stored"} => upstream[m] = "taken"
    /\ reply[m] = "ESME_ROK" => upstream[m] # "none"

\* A receipt comes after its message.
AfterMessage == \A r \in Receipts : route[r] # "new" => upstream[About[r]] \in {"taken", "taken_no_id"}

\* An entry of the cache is about the message its key names, which on_submit
\* has taken, and is about to accept if it has not ended.
Keyed ==
  \A m \in Msgs : Route[m] # NoRoute /\ dlr[Key(m)] # Nobody =>
    /\ dlr[Key(m)] = m /\ submit[m] \in {"stored", "answered"}
    /\ reply[m] \in {"none", "ESME_ROK", "ESME_RSYSERR"}

\* The correlation of a message that was given an id, and is stored or
\* accepted, stays until a receipt for it has been through.
Kept ==
  \A m \in Registered :
    submit[m] = "stored" \/ (reply[m] = "ESME_ROK" /\ upstream[m] = "taken") =>
      /\ Route[m] # NoRoute
      /\ \/ dlr[Key(m)] = m
         \/ \E q \in Receipts : About[q] = m /\ route[q] \in {"acked", "cancelled"}

\* Nothing is answered twice.
AnsweredOnce == \A m \in Msgs : submit[m] # "answered" => reply[m] = "none"

\* A tracked session's system has an entry, or the session's was wiped.
Tracked ==
  \A s \in Sessions : bound[s] = "done" /\ unbound[s] = "no" =>
    esmeSession[SystemOf[s]] # Nobody \/ s \in wiped

\* What a receipt found was stored before its on_submit ended.
FoundStored ==
  \A r \in Receipts : route[r] = "delivering" => submit[About[r]] \in {"stored", "answered"}

IInv ==
  /\ TypeOK /\ Routed /\ AfterMessage /\ Keyed /\ Kept /\ AnsweredOnce /\ Tracked /\ Taken
  /\ ReceiptToItsSubmitter /\ FoundStored

-----------------------------------------------------------------------------
\* A routed message has a place in the cache, and no other message shares it.
LEMMA KeyLemma ==
  ASSUME NEW m \in Msgs, Route[m] # NoRoute
  PROVE  /\ Key(m) \in Binds \X UpstreamIds
         /\ \A n \in Msgs : Key(n) = Key(m) => n = m
BY GatewayAssumption DEF Key, Binds, UpstreamIds

\* The first state, with nothing stored and nothing routed.
LEMMA InitIInv == Init => IInv
<1> SUFFICES ASSUME Init PROVE IInv
  OBVIOUS
<1>1. TypeOK
  BY DEF Init, TypeOK
<1>2. Keyed
  <2> SUFFICES ASSUME NEW m \in Msgs, Route[m] # NoRoute PROVE dlr[Key(m)] = Nobody
    BY DEF Keyed
  <2> QED
    BY KeyLemma DEF Init
<1>3. Routed /\ AfterMessage /\ AnsweredOnce /\ Tracked /\ Taken
  BY DEF Init, Routed, AfterMessage, AnsweredOnce, Tracked, Taken
<1>4. Kept /\ ReceiptToItsSubmitter /\ FoundStored
  BY GatewayAssumption DEF Init, Kept, ReceiptToItsSubmitter, FoundStored
<1> QED
  BY <1>1, <1>2, <1>3, <1>4 DEF IInv

\* Every state is of the shape the variables' comments describe.
LEMMA TypeStep == IInv /\ [Next]_vars => TypeOK'
<1> SUFFICES ASSUME IInv, [Next]_vars PROVE TypeOK'
  OBVIOUS
<1> USE GatewayAssumption DEF IInv, TypeOK, sessionVars, submitVars, receiptVars
<1>1. ASSUME NEW s \in Sessions, Bind(s) \/ Unbind(s) PROVE TypeOK'
  BY <1>1 DEF Bind, Unbind
<1>11. ASSUME NEW s \in Sessions, SetSession(s) \/ DeleteSession(s) PROVE TypeOK'
  <2>1. esmeSession' \in [Systems -> Sessions \cup {Nobody}]
    BY <1>11 DEF SetSession, DeleteSession
  <2> QED
    BY <1>11, <2>1 DEF SetSession, DeleteSession
<1>2. ASSUME NEW m \in Msgs, Submit(m) PROVE TypeOK'
  <2>1. UNCHANGED <<sessionVars, dlr, upstream, receiptVars, mo>>
    BY <1>2 DEF Submit
  <2>2. CASE Route[m] = NoRoute
    <3>1. Answer(m, "ESME_RINVDSTADR")
      BY <1>2, <2>2 DEF Submit
    <3> QED
      BY <2>1, <3>1 DEF Answer
  <2>3. CASE Route[m] # NoRoute
    BY <1>2, <2>1, <2>3 DEF Submit
  <2> QED
    BY <2>2, <2>3
<1>3. ASSUME NEW m \in Msgs, UpstreamDecides(m) PROVE TypeOK'
  BY <1>3 DEF UpstreamDecides
<1>4. ASSUME NEW m \in Msgs, SubmitRaises(m) \/ SubmitReturns(m) PROVE TypeOK'
  <2>1. CASE SubmitRaises(m)
    BY <2>1 DEF SubmitRaises, Answer
  <2>2. CASE SubmitReturns(m)
    <3>1. UNCHANGED <<sessionVars, dlr, upstream, receiptVars, mo>>
      BY <2>2 DEF SubmitReturns
    <3>2. \/ \E a \in {"ESME_RSUBMITFAIL", "ESME_RTHROTTLED", "ESME_ROK"} : Answer(m, a)
          \/ submit' = [submit EXCEPT ![m] = "storing"] /\ UNCHANGED reply
      BY <2>2 DEF SubmitReturns
    <3>3. CASE submit' = [submit EXCEPT ![m] = "storing"] /\ UNCHANGED reply
      BY <3>1, <3>3
    <3>4. ASSUME NEW a \in {"ESME_RSUBMITFAIL", "ESME_RTHROTTLED", "ESME_ROK"}, Answer(m, a)
          PROVE  TypeOK'
      BY <3>1, <3>4 DEF Answer
    <3> QED
      BY <3>2, <3>3, <3>4
  <2> QED
    BY <1>4, <2>1, <2>2
<1>5. ASSUME NEW m \in Msgs, StoreCorrelation(m) PROVE TypeOK'
  BY <1>5 DEF StoreCorrelation
<1>12. ASSUME NEW m \in Msgs, Accept(m) \/ SubmitCancelled(m) PROVE TypeOK'
  <2>1. CASE Accept(m)
    BY <2>1 DEF Accept, Answer
  <2>2. CASE SubmitCancelled(m)
    BY <2>2 DEF SubmitCancelled, Answer
  <2> QED
    BY <1>12, <2>1, <2>2
<1>13. ASSUME NEW r \in Receipts, ReceiptCancelled(r) PROVE TypeOK'
  <2>1. dlr' \in [Binds \X UpstreamIds -> Msgs \cup {Nobody}]
    BY <1>13 DEF ReceiptCancelled
  <2> QED
    BY <1>13, <2>1 DEF ReceiptCancelled
<1>6. ASSUME NEW r \in Receipts, ReceiptArrives(r) \/ Deliver(r) PROVE TypeOK'
  BY <1>6 DEF ReceiptArrives, Deliver
<1>7. ASSUME NEW r \in Receipts, LookUp(r) PROVE TypeOK'
  <2>1. About[r] \in Msgs /\ Route[About[r]] # NoRoute
    BY <1>7 DEF LookUp, AfterMessage, Routed
  <2>2. dlr[Key(About[r])] \in Msgs \cup {Nobody}
    BY <2>1, KeyLemma
  <2> QED
    BY <1>7, <2>2 DEF LookUp
<1>8. ASSUME NEW r \in Receipts, Clear(r) PROVE TypeOK'
  BY <1>8 DEF Clear
<1>9. ASSUME NEW x \in Replies, LookUpOwner(x) PROVE TypeOK'
  BY <1>9 DEF LookUpOwner
<1>10. CASE UNCHANGED vars
  BY <1>10 DEF vars
<1> QED
  BY <1>1, <1>2, <1>3, <1>4, <1>5, <1>6, <1>7, <1>8, <1>9, <1>10, <1>11, <1>12, <1>13
     DEF Next, SessionStep, SubmitStep, ReceiptStep

\* One step per action; what an action leaves alone is not mentioned.
LEMMA RestStep ==
  IInv /\ [Next]_vars => (Routed /\ AfterMessage /\ AnsweredOnce /\ Tracked /\ Taken)'
<1> SUFFICES ASSUME IInv, [Next]_vars PROVE (Routed /\ AfterMessage /\ AnsweredOnce /\ Tracked /\ Taken)'
  OBVIOUS
<1> USE GatewayAssumption DEF IInv, TypeOK, sessionVars, submitVars, receiptVars
<1> USE DEF Routed, AfterMessage, AnsweredOnce, Tracked, Taken
<1>1. ASSUME NEW s \in Sessions, Bind(s) \/ Unbind(s) \/ SetSession(s) \/ DeleteSession(s)
      PROVE  (Routed /\ AfterMessage /\ AnsweredOnce /\ Tracked /\ Taken)'
  <2>1. (Routed /\ AfterMessage /\ AnsweredOnce /\ Taken)'
    BY <1>1 DEF Bind, Unbind, SetSession, DeleteSession
  <2>2. CASE Bind(s) \/ Unbind(s)
    BY <2>1, <2>2 DEF Bind, Unbind, Up
  <2>3. CASE SetSession(s)
    BY <2>1, <2>3 DEF SetSession, Systems
  <2>4. CASE DeleteSession(s)
    BY <2>1, <2>4 DEF DeleteSession, Systems
  <2> QED
    BY <1>1, <2>2, <2>3, <2>4
<1>2. ASSUME NEW m \in Msgs, Submit(m) \/ UpstreamDecides(m)
      PROVE  (Routed /\ AfterMessage /\ AnsweredOnce /\ Tracked /\ Taken)'
  <2>1. CASE Submit(m)
    <3>1. CASE Route[m] = NoRoute
      BY <2>1, <3>1 DEF Submit, Answer
    <3>2. CASE Route[m] # NoRoute
      BY <2>1, <3>2 DEF Submit
    <3> QED
      BY <3>1, <3>2
  <2>2. CASE UpstreamDecides(m)
    <3>1. /\ upstream[m] = "none" /\ submit[m] # "new" /\ Route[m] # NoRoute
          /\ \A n \in Msgs \ {m} : upstream'[n] = upstream[n]
          /\ UNCHANGED <<bound, unbound, esmeSession, wiped, submit, reply, route>>
      BY <2>2 DEF UpstreamDecides
    <3>2. (Routed /\ AfterMessage)'
      BY <3>1
    <3>3. (AnsweredOnce /\ Tracked /\ Taken)'
      BY <3>1
    <3> QED
      BY <3>2, <3>3
  <2> QED
    BY <1>2, <2>1, <2>2
<1>3. ASSUME NEW m \in Msgs,
             SubmitRaises(m) \/ SubmitReturns(m) \/ StoreCorrelation(m) \/ Accept(m) \/ SubmitCancelled(m)
      PROVE  (Routed /\ AfterMessage /\ AnsweredOnce /\ Tracked /\ Taken)'
  <2>1. CASE SubmitRaises(m)
    BY <2>1 DEF SubmitRaises, Answer
  <2>2. CASE SubmitReturns(m)
    <3>1. submit[m] = "sending" /\ upstream[m] # "none" /\ UNCHANGED <<sessionVars, dlr, upstream, receiptVars, mo>>
      BY <2>2 DEF SubmitReturns
    <3>2. \/ \E a \in {"ESME_RSUBMITFAIL", "ESME_RTHROTTLED", "ESME_ROK"} : Answer(m, a)
          \/ submit' = [submit EXCEPT ![m] = "storing"] /\ upstream[m] = "taken" /\ UNCHANGED reply
      BY <2>2 DEF SubmitReturns
    <3>3. CASE submit' = [submit EXCEPT ![m] = "storing"] /\ upstream[m] = "taken" /\ UNCHANGED reply
      BY <3>1, <3>3
    <3>4. ASSUME NEW a \in {"ESME_RSUBMITFAIL", "ESME_RTHROTTLED", "ESME_ROK"}, Answer(m, a)
          PROVE  (Routed /\ AfterMessage /\ AnsweredOnce /\ Tracked /\ Taken)'
      BY <3>1, <3>4 DEF Answer
    <3> QED
      BY <3>2, <3>3, <3>4
  <2>3. CASE StoreCorrelation(m)
    BY <2>3 DEF StoreCorrelation
  <2>4. CASE Accept(m)
    BY <2>4 DEF Accept, Answer
  <2>5. CASE SubmitCancelled(m)
    BY <2>5 DEF SubmitCancelled, Answer
  <2> QED
    BY <1>3, <2>1, <2>2, <2>3, <2>4, <2>5
<1>4. ASSUME NEW r \in Receipts, ReceiptArrives(r) \/ LookUp(r) \/ Deliver(r) \/ Clear(r) \/ ReceiptCancelled(r)
      PROVE  (Routed /\ AfterMessage /\ AnsweredOnce /\ Tracked /\ Taken)'
  BY <1>4 DEF ReceiptArrives, LookUp, Deliver, Clear, ReceiptCancelled
<1>5. ASSUME NEW x \in Replies, LookUpOwner(x)
      PROVE  (Routed /\ AfterMessage /\ AnsweredOnce /\ Tracked /\ Taken)'
  BY <1>5 DEF LookUpOwner
<1>6. CASE UNCHANGED vars
  BY <1>6 DEF vars
<1> QED
  BY <1>1, <1>2, <1>3, <1>4, <1>5, <1>6 DEF Next, SessionStep, SubmitStep, ReceiptStep

\* The cache and what _route_dlr has read of it.
LEMMA CacheStep ==
  IInv /\ [Next]_vars => (Keyed /\ Kept /\ ReceiptToItsSubmitter /\ FoundStored)'
<1> SUFFICES ASSUME IInv, [Next]_vars PROVE (Keyed /\ Kept /\ ReceiptToItsSubmitter /\ FoundStored)'
  OBVIOUS
<1> USE GatewayAssumption DEF IInv, TypeOK, sessionVars, submitVars, receiptVars
<1> USE DEF Keyed, Kept, ReceiptToItsSubmitter, FoundStored
<1>0. \A m \in Msgs : Key(m)' = Key(m)
  BY DEF Key
<1>1. ASSUME UNCHANGED <<dlr, submit, reply, route, correlation, upstream>>
      PROVE  (Keyed /\ Kept /\ ReceiptToItsSubmitter /\ FoundStored)'
  BY <1>0, <1>1
<1>12. ASSUME NEW m \in Msgs, UpstreamDecides(m)
      PROVE  (Keyed /\ Kept /\ ReceiptToItsSubmitter /\ FoundStored)'
  <2>1. upstream[m] = "none" /\ UNCHANGED <<dlr, submit, reply, route, correlation>>
    BY <1>12 DEF UpstreamDecides
  <2>2. \A n \in Msgs \ {m} : upstream'[n] = upstream[n]
    BY <1>12 DEF UpstreamDecides
  <2>3. submit[m] # "stored" /\ reply[m] # "ESME_ROK"
    BY <2>1 DEF Taken
  <2> QED
    BY <1>0, <2>1, <2>2, <2>3
<1>2. ASSUME NEW m \in Msgs, Submit(m)
      PROVE  (Keyed /\ Kept /\ ReceiptToItsSubmitter /\ FoundStored)'
  <2>1. submit[m] = "new" /\ reply[m] = "none" /\ UNCHANGED <<dlr, upstream, route, correlation>>
    BY <1>2 DEF Submit, AnsweredOnce
  <2>2. \A n \in Msgs \ {m} : submit'[n] = submit[n] /\ reply'[n] = reply[n]
    BY <1>2 DEF Submit, Answer
  <2>3. reply'[m] # "ESME_ROK" /\ submit'[m] # "stored"
    BY <1>2, <2>1 DEF Submit, Answer
  <2>4. Keyed' /\ Kept'
    BY <1>0, <2>1, <2>2, <2>3
  <2>5. \A r \in Receipts : route[r] = "delivering" => About[r] # m
    BY <2>1
  <2> QED
    BY <2>1, <2>2, <2>4, <2>5
<1>3. ASSUME NEW m \in Msgs, SubmitRaises(m) \/ SubmitReturns(m)
      PROVE  (Keyed /\ Kept /\ ReceiptToItsSubmitter /\ FoundStored)'
  <2>1. submit[m] = "sending" /\ UNCHANGED <<dlr, upstream, route, correlation>>
    BY <1>3 DEF SubmitRaises, SubmitReturns
  <2>2. \/ \E a \in {"ESME_RSUBMITFAIL", "ESME_RTHROTTLED", "ESME_ROK"} :
             Answer(m, a) /\ (a = "ESME_ROK" => m \notin Registered \/ upstream[m] # "taken")
        \/ submit' = [submit EXCEPT ![m] = "storing"] /\ UNCHANGED reply
    <3>1. CASE SubmitRaises(m)
      BY <3>1 DEF SubmitRaises
    <3>2. CASE SubmitReturns(m)
      BY <3>2 DEF SubmitReturns
    <3> QED
      BY <1>3, <3>1, <3>2
  <2>3. CASE submit' = [submit EXCEPT ![m] = "storing"] /\ UNCHANGED reply
    BY <1>0, <2>1, <2>3
  <2>4. ASSUME NEW a \in {"ESME_RSUBMITFAIL", "ESME_RTHROTTLED", "ESME_ROK"}, Answer(m, a),
               a = "ESME_ROK" => m \notin Registered \/ upstream[m] # "taken"
        PROVE  (Keyed /\ Kept /\ ReceiptToItsSubmitter /\ FoundStored)'
    BY <1>0, <2>1, <2>4 DEF Answer
  <2> QED
    BY <2>2, <2>3, <2>4
<1>4. ASSUME NEW m \in Msgs, StoreCorrelation(m)
      PROVE  (Keyed /\ Kept /\ ReceiptToItsSubmitter /\ FoundStored)'
  <2>0. /\ submit[m] = "storing" /\ reply[m] = "none"
        /\ dlr' = [dlr EXCEPT ![Key(m)] = m] /\ submit' = [submit EXCEPT ![m] = "stored"]
        /\ UNCHANGED <<upstream, reply, route, correlation>>
    BY <1>4 DEF StoreCorrelation, AnsweredOnce
  <2>1. Route[m] # NoRoute
    BY <2>0 DEF Routed
  <2>2. Key(m) \in DOMAIN dlr /\ \A n \in Msgs : Key(n) = Key(m) => n = m
    BY <2>1, KeyLemma
  <2>3. \A n \in Msgs : Route[n] # NoRoute => Key(n) \in DOMAIN dlr
    BY KeyLemma
  <2>4. dlr'[Key(m)] = m /\ \A n \in Msgs : n # m /\ Route[n] # NoRoute => dlr'[Key(n)] = dlr[Key(n)]
    BY <2>0, <2>2, <2>3
  <2>5. submit'[m] = "stored" /\ \A n \in Msgs : n # m => submit'[n] = submit[n]
    BY <2>0
  <2>6. Keyed'
    BY <1>0, <2>0, <2>4, <2>5
  <2>7. Kept'
    BY <1>0, <2>0, <2>1, <2>4, <2>5
  <2>8. (ReceiptToItsSubmitter /\ FoundStored)'
    BY <2>0, <2>5
  <2> QED
    BY <2>6, <2>7, <2>8
<1>8. ASSUME NEW m \in Msgs, Accept(m)
      PROVE  (Keyed /\ Kept /\ ReceiptToItsSubmitter /\ FoundStored)'
  BY <1>0, <1>8 DEF Accept, Answer
<1>9. ASSUME NEW m \in Msgs, SubmitCancelled(m)
      PROVE  (Keyed /\ Kept /\ ReceiptToItsSubmitter /\ FoundStored)'
  BY <1>0, <1>9 DEF SubmitCancelled, Answer, AnsweredOnce
<1>5. ASSUME NEW r \in Receipts, ReceiptArrives(r) \/ Deliver(r)
      PROVE  (Keyed /\ Kept /\ ReceiptToItsSubmitter /\ FoundStored)'
  <2>1. /\ UNCHANGED <<dlr, submit, reply, upstream, correlation>>
        /\ \A q \in Receipts : route'[q] = "delivering" => route[q] = "delivering"
        /\ \A q \in Receipts : route[q] \in {"acked", "cancelled"} => route'[q] = route[q]
    BY <1>5 DEF ReceiptArrives, Deliver
  <2>2. Keyed' /\ Kept'
    BY <1>0, <2>1
  <2> QED
    BY <2>1, <2>2
<1>6. ASSUME NEW r \in Receipts, LookUp(r)
      PROVE  (Keyed /\ Kept /\ ReceiptToItsSubmitter /\ FoundStored)'
  <2> DEFINE m == About[r]
  <2>1. m \in Msgs /\ route[r] = "looking" /\ UNCHANGED <<dlr, submit, reply, upstream>>
    BY <1>6 DEF LookUp
  <2>2. Route[m] # NoRoute
    BY <2>1 DEF AfterMessage, Routed
  <2>3. /\ correlation'[r] = dlr[Key(m)] /\ route'[r] = (IF dlr[Key(m)] = Nobody THEN "acked" ELSE "delivering")
        /\ \A q \in Receipts \ {r} : route'[q] = route[q] /\ correlation'[q] = correlation[q]
    BY <1>6 DEF LookUp
  <2>4. Keyed' /\ Kept'
    BY <1>0, <2>1, <2>3
  <2>5. (ReceiptToItsSubmitter /\ FoundStored)'
    BY <2>1, <2>2, <2>3
  <2> QED
    BY <2>4, <2>5
<1>7. ASSUME NEW r \in Receipts, route[r] = "clearing",
             dlr' = [dlr EXCEPT ![Key(About[r])] = Nobody],
             NEW last \in {"acked", "cancelled"}, route' = [route EXCEPT ![r] = last],
             UNCHANGED <<submit, reply, correlation, upstream>>
      PROVE  (Keyed /\ Kept /\ ReceiptToItsSubmitter /\ FoundStored)'
  <2> DEFINE m == About[r]
  <2>1. m \in Msgs /\ Route[m] # NoRoute
    BY <1>7 DEF AfterMessage, Routed
  <2>2. Key(m) \in DOMAIN dlr /\ \A n \in Msgs : Key(n) = Key(m) => n = m
    BY <2>1, KeyLemma
  <2>3. \A n \in Msgs : Route[n] # NoRoute => Key(n) \in DOMAIN dlr
    BY KeyLemma
  <2>4. dlr'[Key(m)] = Nobody /\ \A n \in Msgs : n # m /\ Route[n] # NoRoute => dlr'[Key(n)] = dlr[Key(n)]
    BY <1>7, <2>2, <2>3
  <2>5. route'[r] = last /\ \A q \in Receipts : q # r => route'[q] = route[q]
    BY <1>7
  <2>6. UNCHANGED <<submit, reply, correlation, upstream>>
    BY <1>7
  <2>7. Keyed'
    BY <1>0, <2>4, <2>6
  <2>8. Kept'
    <3> SUFFICES ASSUME NEW n \in Registered,
                        submit[n] = "stored" \/ (reply[n] = "ESME_ROK" /\ upstream[n] = "taken")
                 PROVE  /\ Route[n] # NoRoute
                        /\ \/ dlr'[Key(n)] = n
                           \/ \E q \in Receipts : About[q] = n /\ route'[q] \in {"acked", "cancelled"}
      BY <1>0, <2>6
    <3>1. CASE n = m
      BY <1>7, <2>1, <2>5, <3>1
    <3>2. CASE n # m
      <4>1. Route[n] # NoRoute /\ dlr'[Key(n)] = dlr[Key(n)]
        BY <2>4, <3>2
      <4>2. \A q \in Receipts : route[q] \in {"acked", "cancelled"} => route'[q] \in {"acked", "cancelled"}
        BY <1>7, <2>5
      <4> QED
        BY <4>1, <4>2
    <3> QED
      BY <3>1, <3>2
  <2>9. ReceiptToItsSubmitter' /\ FoundStored'
    BY <1>7, <2>5, <2>6
  <2> QED
    BY <2>7, <2>8, <2>9
<1>10. ASSUME NEW r \in Receipts, Clear(r)
      PROVE  (Keyed /\ Kept /\ ReceiptToItsSubmitter /\ FoundStored)'
  BY <1>7, <1>10 DEF Clear
<1>11. ASSUME NEW r \in Receipts, ReceiptCancelled(r)
      PROVE  (Keyed /\ Kept /\ ReceiptToItsSubmitter /\ FoundStored)'
  <2>1. CASE UNCHANGED dlr
    BY <1>0, <1>11, <2>1 DEF ReceiptCancelled
  <2>2. CASE route[r] = "clearing" /\ dlr' = [dlr EXCEPT ![Key(About[r])] = Nobody]
    BY <1>7, <1>11, <2>2 DEF ReceiptCancelled
  <2> QED
    BY <1>11, <2>1, <2>2 DEF ReceiptCancelled
<1> QED
  BY <1>1, <1>2, <1>3, <1>4, <1>5, <1>6, <1>8, <1>9, <1>10, <1>11, <1>12
     DEF Next, SessionStep, SubmitStep, ReceiptStep, vars, Bind, Unbind, SetSession, DeleteSession,
         LookUpOwner

\* IInv holds in every reachable state.
THEOREM Inductive == Spec => []IInv
<1>1. IInv /\ [Next]_vars => IInv'
  BY TypeStep, RestStep, CacheStep DEF IInv
<1> QED
  BY InitIInv, <1>1, PTL DEF Spec

\* A receipt that is handed on goes to the session that submitted its message,
\* which on_submit has accepted, is about to accept, or was cancelled after
\* storing: for any number of sessions, messages, upstreams and receipts, as
\* long as no upstream gives an id twice.
THEOREM ReceiptsReachSubmitters == Spec => []ReceiptToItsSubmitter
<1>1. IInv => ReceiptToItsSubmitter
  BY DEF IInv
<1> QED
  BY Inductive, <1>1, PTL

\* Only _route_dlr's lookup drops a receipt, and only _route_mo_reply's a message.
LEMMA OnlyLookUps ==
  ASSUME TypeOK, [Next]_vars
  PROVE  /\ \A r \in Receipts : route[r] = "looking" /\ route'[r] = "acked" => LookUp(r)
         /\ \A x \in Replies : mo[x] = "new" /\ mo'[x] = "dropped" => LookUpOwner(x)
BY DEF Next, SessionStep, SubmitStep, ReceiptStep, vars, sessionVars, submitVars, receiptVars,
       Bind, Unbind, SetSession, DeleteSession, Submit, UpstreamDecides, SubmitRaises,
       SubmitReturns, StoreCorrelation, Accept, ReceiptArrives, LookUp, Deliver, Clear, LookUpOwner,
       SubmitCancelled, ReceiptCancelled, TypeOK

\* A receipt the gateway drops as unknown overtook the store of its correlation,
\* is about a message that failed or was given no id, or is not the first.
THEOREM LostReceipts == Spec => LostReceiptExplained
<1>1. IInv /\ [Next]_vars =>
        [\A r \in Receipts : route[r] = "looking" /\ route'[r] = "acked" =>
           \/ submit[About[r]] \in {"sending", "storing"}
           \/ submit[About[r]] = "answered" /\ reply[About[r]] # "ESME_ROK"
           \/ upstream[About[r]] = "taken_no_id"
           \/ \E q \in Receipts :
                q # r /\ About[q] = About[r] /\ route[q] \in {"acked", "cancelled"}]_vars
  <2> SUFFICES ASSUME IInv, [Next]_vars, NEW r \in Receipts, route[r] = "looking",
                      route'[r] = "acked",
                      submit[About[r]] \notin {"sending", "storing"},
                      submit[About[r]] = "answered" => reply[About[r]] = "ESME_ROK",
                      upstream[About[r]] # "taken_no_id"
               PROVE  \E q \in Receipts :
                        q # r /\ About[q] = About[r] /\ route[q] \in {"acked", "cancelled"}
    OBVIOUS
  <2>1. LookUp(r)
    BY OnlyLookUps DEF IInv
  <2>2. dlr[Key(About[r])] = Nobody
    BY <2>1 DEF LookUp, IInv, TypeOK
  <2>3. About[r] \in Registered /\ About[r] \in Msgs /\ About[r] # Nobody
    BY GatewayAssumption
  <2>4. upstream[About[r]] = "taken" /\ submit[About[r]] \in {"stored", "answered"}
    BY <2>3 DEF IInv, AfterMessage, Routed, TypeOK
  <2> QED
    BY <2>2, <2>3, <2>4 DEF IInv, Kept
<1> QED
  BY Inductive, <1>1, PTL DEF Spec, LostReceiptExplained

\* A mobile-originated message is dropped although a session of its owner is up
\* and in the map only if another session's on_unbound has deleted the entry
\* since.
THEOREM LostMos == Spec => LostMoExplained
<1>1. IInv /\ [Next]_vars =>
        [\A x \in Replies : mo[x] = "new" /\ mo'[x] = "dropped" =>
           \A s \in Sessions :
             SystemOf[s] = Owner[x] /\ bound[s] = "done" /\ unbound[s] = "no" => s \in wiped]_vars
  <2> SUFFICES ASSUME IInv, [Next]_vars, NEW x \in Replies, mo[x] = "new", mo'[x] = "dropped",
                      NEW s \in Sessions, SystemOf[s] = Owner[x], bound[s] = "done", unbound[s] = "no"
               PROVE  s \in wiped
    OBVIOUS
  <2>1. LookUpOwner(x)
    BY OnlyLookUps DEF IInv
  <2>2. esmeSession[SystemOf[s]] = Nobody
    BY <2>1 DEF LookUpOwner, IInv, TypeOK
  <2> QED
    BY <2>2 DEF IInv, Tracked
<1> QED
  BY Inductive, <1>1, PTL DEF Spec, LostMoExplained

\* What has found its correlation did so after it was stored, so that nothing
\* stores it again.
Found ==
  \A r \in Receipts : correlation[r] # Nobody =>
    route[r] \notin {"new", "looking"} /\ submit[About[r]] \in {"stored", "answered"}

\* The delete of _route_dlr's finally is for good.
LEMMA ClearedStep == IInv /\ Found /\ CorrelationCleared /\ [Next]_vars => (Found /\ CorrelationCleared)'
<1> SUFFICES ASSUME IInv, Found, CorrelationCleared, [Next]_vars PROVE (Found /\ CorrelationCleared)'
  OBVIOUS
<1> USE GatewayAssumption DEF IInv, TypeOK, sessionVars, submitVars, receiptVars, Found, CorrelationCleared
<1>0. \A m \in Msgs : Key(m)' = Key(m)
  BY DEF Key
<1>1. ASSUME UNCHANGED <<dlr, submit, route, correlation>> PROVE (Found /\ CorrelationCleared)'
  BY <1>0, <1>1
<1>2. ASSUME NEW m \in Msgs,
             submit[m] \in {"new", "sending"} \/ submit'[m] \in {"stored", "answered"},
             \A n \in Msgs \ {m} : submit'[n] = submit[n],
             UNCHANGED <<dlr, route, correlation>>
      PROVE  (Found /\ CorrelationCleared)'
  BY <1>0, <1>2
<1>3. ASSUME NEW m \in Msgs, Submit(m) \/ SubmitRaises(m) \/ SubmitReturns(m) \/ Accept(m) \/ SubmitCancelled(m)
      PROVE  (Found /\ CorrelationCleared)'
  BY <1>2, <1>3 DEF Submit, SubmitRaises, SubmitReturns, Accept, SubmitCancelled, Answer
<1>4. ASSUME NEW m \in Msgs, StoreCorrelation(m) PROVE (Found /\ CorrelationCleared)'
  <2>1. /\ submit[m] = "storing" /\ UNCHANGED <<route, correlation>>
        /\ dlr' = [dlr EXCEPT ![Key(m)] = m] /\ submit' = [submit EXCEPT ![m] = "stored"]
    BY <1>4 DEF StoreCorrelation
  <2>2. Route[m] # NoRoute
    BY <2>1 DEF Routed
  <2>3. Found'
    BY <2>1
  <2>4. ASSUME NEW r \in Receipts, correlation[r] # Nobody, route[r] = "acked"
        PROVE  dlr'[Key(About[r])] = Nobody
    <3>1. About[r] \in Msgs /\ About[r] # m
      BY <2>1, <2>4
    <3>2. Key(About[r]) # Key(m)
      BY <2>2, <3>1, KeyLemma
    <3> QED
      BY <2>1, <2>4, <3>2
  <2> QED
    BY <1>0, <2>1, <2>3, <2>4
<1>5. ASSUME NEW r \in Receipts, ReceiptArrives(r) \/ Deliver(r) PROVE (Found /\ CorrelationCleared)'
  BY <1>0, <1>5 DEF ReceiptArrives, Deliver
<1>6. ASSUME NEW r \in Receipts, LookUp(r) PROVE (Found /\ CorrelationCleared)'
  <2>1. About[r] \in Msgs /\ route[r] = "looking" /\ UNCHANGED <<dlr, submit>>
    BY <1>6 DEF LookUp
  <2>2. Route[About[r]] # NoRoute
    BY <2>1 DEF AfterMessage, Routed
  <2>3. /\ correlation'[r] = dlr[Key(About[r])]
        /\ route'[r] = (IF dlr[Key(About[r])] = Nobody THEN "acked" ELSE "delivering")
        /\ \A q \in Receipts \ {r} : route'[q] = route[q] /\ correlation'[q] = correlation[q]
    BY <1>6 DEF LookUp
  <2>4. dlr[Key(About[r])] # Nobody => submit[About[r]] \in {"stored", "answered"}
    BY <2>1, <2>2 DEF Keyed
  <2>5. Found'
    BY <2>1, <2>3, <2>4
  <2>6. ASSUME NEW q \in Receipts, correlation'[q] # Nobody, route'[q] = "acked"
        PROVE  q # r /\ dlr[Key(About[q])] = Nobody
    <3>1. q # r
      BY <2>3, <2>6
    <3> QED
      BY <2>3, <2>6, <3>1
  <2> QED
    BY <1>0, <2>1, <2>5, <2>6
<1>7. ASSUME NEW r \in Receipts, route[r] = "clearing",
             dlr' = [dlr EXCEPT ![Key(About[r])] = Nobody],
             NEW last \in {"acked", "cancelled"}, route' = [route EXCEPT ![r] = last],
             UNCHANGED <<submit, correlation>>
      PROVE  (Found /\ CorrelationCleared)'
  <2>1. About[r] \in Msgs /\ Route[About[r]] # NoRoute
    BY <1>7 DEF AfterMessage, Routed
  <2>2. dlr'[Key(About[r])] = Nobody
    BY <1>7, <2>1, KeyLemma
  <2>3. ASSUME NEW q \in Receipts, q # r, correlation[q] # Nobody, route[q] = "acked"
        PROVE  dlr'[Key(About[q])] = Nobody
    BY <1>7, <2>2, <2>3
  <2> QED
    BY <1>0, <1>7, <2>2, <2>3
<1>8. ASSUME NEW r \in Receipts, Clear(r) \/ ReceiptCancelled(r) PROVE (Found /\ CorrelationCleared)'
  <2>1. CASE Clear(r)
    BY <1>7, <2>1 DEF Clear
  <2>2. CASE ReceiptCancelled(r) /\ UNCHANGED dlr
    BY <1>0, <2>2 DEF ReceiptCancelled
  <2>3. CASE ReceiptCancelled(r) /\ route[r] = "clearing" /\ dlr' = [dlr EXCEPT ![Key(About[r])] = Nobody]
    BY <1>7, <2>3 DEF ReceiptCancelled
  <2> QED
    BY <1>8, <2>1, <2>2, <2>3 DEF ReceiptCancelled
<1> QED
  BY <1>1, <1>3, <1>4, <1>5, <1>6, <1>8
     DEF Next, SessionStep, SubmitStep, ReceiptStep, vars, Bind, Unbind, SetSession, DeleteSession,
         UpstreamDecides, LookUpOwner

\* A correlation that a receipt has found is gone when that receipt's handler
\* has ended without being cancelled, and stays gone: for any number of receipts
\* for one message, in any order with each other and with its on_submit.
THEOREM Cleared == Spec => []CorrelationCleared
<1>1. Init => Found /\ CorrelationCleared
  BY DEF Init, Found, CorrelationCleared
<1> QED
  BY Inductive, ClearedStep, <1>1, PTL DEF Spec
=============================================================================
