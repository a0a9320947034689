-------------------------- MODULE StripeWebhookProofs --------------------------
(***************************************************************************)
(* Proofs about StripeWebhook, for every set of deliveries and events and   *)
(* any number of crashes and stale claims.                                  *)
(***************************************************************************)
EXTENDS StripeWebhook, TLAPS

\* A processed checkout is saved, and a delivery about to mark its event
\* processed has saved its plan.
SavedInv ==
  /\ TypeOK
  /\ ProcessedIsSaved
  /\ \A d \in Deliveries :
       pc[d] = "mark" /\ EventOf[d] \in Checkouts => EventOf[d] \in saved
  /\ \A d \in Deliveries : pc[d] = "save" => EventOf[d] \in Checkouts

\* The claim of an event at work on is neither free to take nor shared, unless
\* it got old under a delivery.
HeldInv ==
  \A d \in Deliveries :
    pc[d] \in Steps /\ EventOf[d] \notin overtaken =>
      /\ status[EventOf[d]] \in {"received", "processed"}
      /\ status[EventOf[d]] = "received" => ~stale[EventOf[d]]
      /\ \A c \in Deliveries : AtWork(c, EventOf[d]) => c = d

\* No claim is held and nothing is saved at the start.
LEMMA InitSaved == Init => SavedInv /\ HeldInv
BY DeliveryAssumption
   DEF Init, ClaimsInit, SavedInv, HeldInv, TypeOK, ClaimsType, ClaimStatus, Steps,
       ProcessedIsSaved

\* The statements on the table keep it well-typed.
LEMMA TableType ==
  ASSUME ClaimsType, NEW p \in Payments,
         \/ \E answer \in ClaimAnswer : Claim(p, answer)
         \/ MarkProcessed(p) \/ MarkFailed(p) \/ GrowStale(p)
  PROVE  ClaimsType'
BY DEF ClaimsType, ClaimStatus, ClaimAnswer, Claim, claims, TakeRow, Claimable,
       MarkProcessed, MarkFailed, GrowStale

\* A claim never makes an event processed and never touches a processed one.
LEMMA ClaimKeeps ==
  ASSUME ClaimsType, NEW p \in Payments, NEW answer \in ClaimAnswer, Claim(p, answer)
  PROVE  /\ \A q \in Payments : status'[q] = "processed" <=> status[q] = "processed"
         /\ \A q \in Payments \ {p} : status'[q] = status[q] /\ stale'[q] = stale[q]
BY DEF ClaimsType, Claim, claims, TakeRow, Claimable

\* Only the step that has just marked it makes an event processed; saved only
\* grows; a delivery reaches "mark" with its plan saved.
LEMMA SavedStep == SavedInv /\ [Next]_vars => SavedInv'
<1> SUFFICES ASSUME SavedInv, [Next]_vars PROVE SavedInv'
  OBVIOUS
<1> USE DeliveryAssumption DEF SavedInv, TypeOK, ProcessedIsSaved
<1>1. ASSUME NEW d \in Deliveries, Receive(d) PROVE SavedInv'
  <2>1. PICK answer \in ClaimAnswer : Claim(EventOf[d], answer)
    BY <1>1 DEF Receive, ClaimAnswer
  <2>2. ClaimsType'
    BY <2>1, TableType
  <2>3. \A q \in Payments : status'[q] = "processed" <=> status[q] = "processed"
    BY <2>1, ClaimKeeps
  <2>4. PICK step \in {"save", "mark", "ok", "refused"} :
          /\ Goto(d, step)
          /\ step = "save" => EventOf[d] \in Checkouts
          /\ step = "mark" => EventOf[d] \notin Checkouts
    BY <1>1 DEF Receive, Acknowledge
  <2>5. saved' = saved /\ UNCHANGED <<overtaken, crashes>> /\ acked' \subseteq Payments
    BY <1>1 DEF Receive, Acknowledge
  <2> QED BY <2>2, <2>3, <2>4, <2>5 DEF Goto, Steps, Answers
<1>2. ASSUME NEW d \in Deliveries, SavePlan(d) PROVE SavedInv'
  <2>1. PICK step \in {"mark", "unmark"} :
          /\ Goto(d, step)
          /\ step = "mark" => saved' = saved \cup {EventOf[d]}
    BY <1>2 DEF SavePlan
  <2>2. /\ saved' \in {saved, saved \cup {EventOf[d]}}
        /\ pc[d] = "save" /\ UNCHANGED <<claims, acked, overtaken, crashes>>
    BY <1>2 DEF SavePlan
  <2> QED BY <2>1, <2>2 DEF Goto, Steps, Answers, claims, ClaimsType
<1>3. ASSUME NEW d \in Deliveries, Mark(d) PROVE SavedInv'
  <2>1. PICK step \in {"ok", "unmark"} : Goto(d, step)
    BY <1>3 DEF Mark, Acknowledge
  <2>2. pc[d] = "mark" /\ saved' = saved /\ UNCHANGED <<overtaken, crashes>> /\ acked' \subseteq Payments
    BY <1>3 DEF Mark, Acknowledge
  <2>3. MarkProcessed(EventOf[d]) \/ UNCHANGED claims
    BY <1>3 DEF Mark
  <2>4. ClaimsType'
    BY <2>3, TableType DEF claims, ClaimsType
  <2>5. \A q \in Payments : status'[q] = status[q] \/ q = EventOf[d]
    BY <2>3 DEF MarkProcessed, claims, ClaimsType
  <2> QED BY <2>1, <2>2, <2>4, <2>5 DEF Goto, Steps, Answers
<1>4. ASSUME NEW d \in Deliveries, Unmark(d) PROVE SavedInv'
  <2>1. ClaimsType'
    BY <1>4, TableType DEF Unmark, claims, ClaimsType
  <2>2. \A q \in Payments : status'[q] = "processed" => status[q] = "processed"
    BY <1>4 DEF Unmark, MarkFailed, claims, ClaimsType
  <2> QED BY <1>4, <2>1, <2>2 DEF Unmark, Goto, Steps, Answers
<1>5. CASE Crash
  BY <1>5 DEF Crash, claims, ClaimsType, Answers, Steps
<1>6. ASSUME NEW p \in Payments, TimePasses(p) PROVE SavedInv'
  BY <1>6 DEF TimePasses, GrowStale, ClaimsType
<1>7. CASE UNCHANGED vars
  BY <1>7 DEF vars, ClaimsType
<1> QED BY <1>1, <1>2, <1>3, <1>4, <1>5, <1>6, <1>7 DEF Next

\* Every variable keeps the shape of what it stands for.
THEOREM TypeCorrect == Spec => []TypeOK
<1>1. SavedInv => TypeOK
  BY DEF SavedInv
<1> QED BY <1>1, InitSaved, SavedStep, PTL DEF Spec

\* A processed checkout has its plan: markWebhookProcessed() follows the save.
THEOREM ProcessedSaved == Spec => []ProcessedIsSaved
<1>1. SavedInv => ProcessedIsSaved
  BY DEF SavedInv
<1> QED BY <1>1, InitSaved, SavedStep, PTL DEF Spec

\* No statement of the handler or of another delivery undoes a processed row.
THEOREM ProcessedFinal == Spec => ProcessedIsFinal
<1>1. SavedInv /\ [Next]_vars
        => [\A p \in Payments : status[p] = "processed" => status'[p] = "processed"]_vars
  <2> SUFFICES ASSUME SavedInv, [Next]_vars, NEW p \in Payments, status[p] = "processed"
               PROVE status'[p] = "processed"
    OBVIOUS
  <2> USE DeliveryAssumption DEF SavedInv, TypeOK
  <2>1. ASSUME NEW d \in Deliveries, Receive(d) PROVE status'[p] = "processed"
    <3>1. PICK answer \in ClaimAnswer : Claim(EventOf[d], answer)
      BY <2>1 DEF Receive, ClaimAnswer
    <3> QED BY <3>1, ClaimKeeps
  <2>2. ASSUME NEW d \in Deliveries, SavePlan(d) \/ Mark(d) \/ Unmark(d)
        PROVE status'[p] = "processed"
    BY <2>2 DEF SavePlan, Mark, Unmark, MarkProcessed, MarkFailed, claims, ClaimsType
  <2>3. CASE Crash \/ \E q \in Payments : TimePasses(q)
    BY <2>3 DEF Crash, TimePasses, GrowStale, claims
  <2>4. CASE UNCHANGED vars
    BY <2>4 DEF vars
  <2> QED BY <2>1, <2>2, <2>3, <2>4 DEF Next
<1> QED BY <1>1, InitSaved, SavedStep, PTL DEF Spec, ProcessedIsFinal

\* A delivery that takes a row finds it free, so nobody else is at work on it.
LEMMA HeldStep == SavedInv /\ HeldInv /\ [Next]_vars => HeldInv'
<1> SUFFICES ASSUME SavedInv, HeldInv, [Next]_vars,
                    NEW d \in Deliveries, pc'[d] \in Steps, EventOf[d] \notin overtaken'
             PROVE /\ status'[EventOf[d]] \in {"received", "processed"}
                   /\ status'[EventOf[d]] = "received" => ~stale'[EventOf[d]]
                   /\ \A c \in Deliveries :
                        pc'[c] \in Steps /\ EventOf[c] = EventOf[d] => c = d
  BY DEF HeldInv, AtWork
<1> DEFINE p == EventOf[d]
           Goal == /\ status'[p] \in {"received", "processed"}
                   /\ status'[p] = "received" => ~stale'[p]
                   /\ \A c \in Deliveries : pc'[c] \in Steps /\ EventOf[c] = p => c = d
<1> USE DeliveryAssumption DEF SavedInv, TypeOK
<1>0. p \notin overtaken
  BY DEF Next, vars, Receive, SavePlan, Mark, Unmark, Crash, TimePasses
<1>1. ASSUME NEW e \in Deliveries, Receive(e) PROVE Goal
  <2>1. PICK answer \in ClaimAnswer :
          /\ Claim(EventOf[e], answer)
          /\ answer # "claimed" => pc'[e] \notin Steps
    BY <1>1 DEF Receive, ClaimAnswer, Acknowledge, Goto, Steps
  <2>2. \A c \in Deliveries : c # e => pc'[c] = pc[c]
    BY <1>1 DEF Receive, Acknowledge, Goto
  <2>3. pc[e] \notin Steps
    BY <1>1 DEF Receive, Steps
  <2>4. CASE EventOf[e] = p /\ \E c \in Deliveries : pc[c] \in Steps /\ EventOf[c] = p
    <3>1. /\ status[p] \in {"received", "processed"}
          /\ status[p] = "received" => ~stale[p]
      BY <1>0, <2>4 DEF HeldInv
    <3>2. UNCHANGED claims /\ answer # "claimed"
      BY <2>1, <2>4, <3>1 DEF Claim, TakeRow, Claimable
    <3> QED BY <1>0, <2>1, <2>2, <3>1, <3>2 DEF HeldInv, AtWork, claims
  <2>5. CASE EventOf[e] = p /\ \A c \in Deliveries : pc[c] \in Steps => EventOf[c] # p
    <3>1. d = e /\ answer = "claimed"
      BY <2>1, <2>2, <2>5
    <3>2. TakeRow(p)
      BY <2>1, <2>5, <3>1 DEF Claim
    <3> QED BY <2>2, <2>5, <3>1, <3>2 DEF TakeRow, ClaimsType
  <2>6. CASE EventOf[e] # p
    <3>1. status'[p] = status[p] /\ stale'[p] = stale[p]
      BY <2>1, <2>6, ClaimKeeps
    <3> QED BY <1>0, <2>2, <2>6, <3>1 DEF HeldInv, AtWork
  <2> QED BY <2>4, <2>5, <2>6
<1>2. ASSUME NEW e \in Deliveries, SavePlan(e) PROVE Goal
  BY <1>0, <1>2 DEF SavePlan, Goto, claims, HeldInv, AtWork, Steps
<1>3. ASSUME NEW e \in Deliveries, Mark(e) PROVE Goal
  <2>1. \A c \in Deliveries : pc'[c] \in Steps => pc[c] \in Steps
    BY <1>3 DEF Mark, Acknowledge, Goto, Steps
  <2>2. (status'[p] = status[p] \/ status'[p] = "processed") /\ stale' = stale
    BY <1>3 DEF Mark, MarkProcessed, claims, ClaimsType
  <2> QED BY <1>0, <2>1, <2>2 DEF HeldInv, AtWork
<1>4. ASSUME NEW e \in Deliveries, Unmark(e) PROVE Goal
  <2>1. \A c \in Deliveries : pc'[c] \in Steps => pc[c] \in Steps /\ c # e
    BY <1>4 DEF Unmark, Goto, Steps
  <2>2. EventOf[e] # p
    BY <1>0, <1>4, <2>1 DEF Unmark, HeldInv, AtWork, Steps
  <2>3. status'[p] = status[p] /\ stale' = stale
    BY <1>4, <2>2 DEF Unmark, MarkFailed, claims, ClaimsType
  <2> QED BY <1>0, <2>1, <2>3 DEF HeldInv, AtWork
<1>5. CASE Crash
  BY <1>5 DEF Crash, Steps
<1>6. ASSUME NEW q \in Payments, TimePasses(q) PROVE Goal
  BY <1>0, <1>6 DEF TimePasses, GrowStale, HeldInv, AtWork, ClaimsType
<1>7. CASE UNCHANGED vars
  BY <1>0, <1>7 DEF vars, HeldInv, AtWork
<1> QED BY <1>1, <1>2, <1>3, <1>4, <1>5, <1>6, <1>7 DEF Next

\* Until a claim gets old under a delivery, one at a time works on its event:
\* the claim is a mutual exclusion.
THEOREM SingleWorker == Spec => []OneWorker
<1>1. HeldInv => OneWorker
  BY DEF HeldInv, OneWorker, AtWork
<1> QED BY <1>1, InitSaved, SavedStep, HeldStep, PTL DEF Spec
=============================================================================
