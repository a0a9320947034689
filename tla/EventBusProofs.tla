---------------------------- MODULE EventBusProofs ----------------------------
(* Type correctness and durability of EventBus, the bound on deliveries by   *)
(* the attempts counter, and that no row is left untried, for every number   *)
(* of events, handlers, replays and restarts.                                *)
EXTENDS EventBus, FiniteSetTheorems, SequenceTheorems, WellFoundedInduction, TLAPS

\* Cutting an array at its head yields an array of the same elements.
LEMMA TrimType ==
  ASSUME NEW S, NEW seq \in Seq(S), NEW max \in Nat \ {0}
  PROVE  Trim(seq, max) \in Seq(S)
<1>1. CASE Len(seq) > max
  <2>1. Len(seq) - max + 1 \in 1 .. Len(seq)
    BY <1>1
  <2>2. SubSeq(seq, Len(seq) - max + 1, Len(seq)) \in Seq(S)
    BY <2>1, SubSeqProperties
  <2>3. QED BY <1>1, <2>2 DEF Trim
<1>2. CASE ~(Len(seq) > max)
  BY <1>2 DEF Trim
<1>3. QED BY <1>1, <1>2

\* A push keeps the positions of an array and adds one.
LEMMA AppendDomain ==
  ASSUME NEW S, NEW seq \in Seq(S), NEW x \in S
  PROVE  DOMAIN seq \subseteq DOMAIN Append(seq, x)
<1>1. DOMAIN seq = 1 .. Len(seq) /\ Len(seq) \in Nat
  BY LenProperties
<1>2. DOMAIN Append(seq, x) = 1 .. Len(seq) + 1
  BY <1>1, AppendProperties, LenProperties
<1>3. QED BY <1>1, <1>2

\* Changing a field of a row leaves a table of rows.
LEMMA CountAttemptType ==
  ASSUME NEW rs \in [Events -> Row], NEW e \in Events
  PROVE  [rs EXCEPT ![e].attempts = @ + 1] \in [Events -> Row]
<1>1. rs[e] \in Row
  OBVIOUS
<1>2. rs[e].attempts + 1 \in Nat
  BY <1>1 DEF Row
<1>3. [rs[e] EXCEPT !.attempts = @ + 1] \in Row
  BY <1>1, <1>2 DEF Row
<1>4. [rs EXCEPT ![e] = [rs[e] EXCEPT !.attempts = @ + 1]] \in [Events -> Row]
  BY <1>3
<1>5. QED BY <1>4

LEMMA SetStatusType ==
  ASSUME NEW rs \in [Events -> Row], NEW e \in Events,
         NEW s \in {"absent", "pending", "published", "dlq"}
  PROVE  [rs EXCEPT ![e].status = s] \in [Events -> Row]
<1>1. rs[e] \in Row
  OBVIOUS
<1>2. [rs[e] EXCEPT !.status = s] \in Row
  BY <1>1 DEF Row
<1>3. [rs EXCEPT ![e] = [rs[e] EXCEPT !.status = s]] \in [Events -> Row]
  BY <1>2
<1>4. QED BY <1>3

\* A suspended delivery waits for a handler that is still subscribed.
AwaitsSubscriber ==
  \A t \in Tasks : pc[t] = "await" => hnd[t] \in DOMAIN Subscribers(t)

TypeInv == TypeOK /\ AwaitsSubscriber

LEMMA TypeInit == Init => TypeInv
<1> SUFFICES ASSUME Init PROVE TypeInv
  OBVIOUS
<1>1. \E e \in Events : TRUE
  BY TaskAssumption
<1>2. cur \in [Tasks -> Events]
  BY <1>1 DEF Init
<1>3. NoRow \in Row
  BY DEF NoRow, Row
<1>4. TypeOK
  BY <1>2, <1>3 DEF Init, TypeOK, Points
<1>5. AwaitsSubscriber
  BY DEF Init, AwaitsSubscriber
<1>6. QED BY <1>4, <1>5 DEF TypeInv

\* Each action preserves the type invariant.
LEMMA TypeStep == TypeInv /\ [Next]_vars => TypeInv'
<1> SUFFICES ASSUME TypeOK, AwaitsSubscriber, [Next]_vars
             PROVE  TypeOK' /\ AwaitsSubscriber'
  BY DEF TypeInv
<1> USE DEF TypeOK
<1>1. ASSUME NEW e \in Events, Publish(e) PROVE TypeOK' /\ AwaitsSubscriber'
  <2>1. outbox' \in Seq(Events)
    BY <1>1, TrimType, AppendProperties, BoundAssumption DEF Publish
  <2>2. clock' \in Nat /\ NewRow(clock') \in Row
    BY <1>1 DEF Publish, NewRow, Row
  <2>3. rows' \in [Events -> Row]
    BY <1>1, <2>2 DEF Publish
  <2>4. disk' \in [order : Seq(Events), rows : [Events -> Row],
                   processed : SUBSET ProcessedRow, dlq : Seq(Events)]
    BY <1>1, <2>1, <2>3 DEF Publish, SavedOutbox
  <2>5. pc' \in [Tasks -> Points] /\ turn' \in Tasks \cup {NoTask}
    BY <1>1 DEF Publish, Points, Tasks
  <2>6. pos' \in [Tasks -> Nat]
    BY <1>1 DEF Publish
  <2>7. TypeOK'
    BY <1>1, <2>1, <2>2, <2>3, <2>4, <2>5, <2>6 DEF Publish
  <2>8. AwaitsSubscriber'
    BY <1>1 DEF Publish, AwaitsSubscriber, Subscribers
  <2>9. QED BY <2>7, <2>8
<1>2. ASSUME NEW h \in Handlers, Subscribe(h) PROVE TypeOK' /\ AwaitsSubscriber'
  <2>1. SubTopic[h] \in Topics /\ handlers[SubTopic[h]] \in Seq(Handlers)
    BY MapAssumption
  <2>2. handlers' \in [Topics -> Seq(Handlers)]
    BY <1>2, <2>1, AppendProperties DEF Subscribe
  <2>3. TypeOK'
    BY <1>2, <2>2 DEF Subscribe, arrays, task
  <2>4. ASSUME NEW t \in Tasks, pc'[t] = "await"
        PROVE  hnd'[t] \in DOMAIN Subscribers(t)'
    <3>1. TopicOf[cur[t]] \in Topics /\ hnd[t] \in DOMAIN handlers[TopicOf[cur[t]]]
      BY <1>2, <2>4, MapAssumption DEF Subscribe, task, AwaitsSubscriber, Subscribers
    <3>2. hnd' = hnd /\ cur' = cur
      BY <1>2 DEF Subscribe, task
    <3>3. DOMAIN handlers[TopicOf[cur[t]]] \subseteq DOMAIN handlers'[TopicOf[cur[t]]]
      <4>1. CASE TopicOf[cur[t]] = SubTopic[h]
        <5>1. handlers'[SubTopic[h]] = Append(handlers[SubTopic[h]], h)
          BY <1>2, <2>1 DEF Subscribe
        <5>2. DOMAIN handlers[SubTopic[h]] \subseteq DOMAIN Append(handlers[SubTopic[h]], h)
          BY <2>1, AppendDomain
        <5>3. QED BY <4>1, <5>1, <5>2
      <4>2. CASE TopicOf[cur[t]] # SubTopic[h]
        BY <1>2, <4>2, <3>1 DEF Subscribe
      <4>3. QED BY <4>1, <4>2
    <3>4. QED BY <3>1, <3>2, <3>3 DEF Subscribers
  <2>5. QED BY <2>3, <2>4 DEF AwaitsSubscriber
<1>3. ASSUME NEW d \in Events, DrainRow(d) PROVE TypeOK' /\ AwaitsSubscriber'
  <2>1. PICK j \in DOMAIN outbox :
          /\ pos' = [pos EXCEPT ![d] = j]
          /\ cur' = [cur EXCEPT ![d] = outbox[j]]
          /\ rows' = CountAttempt(outbox[j])
    BY <1>3 DEF DrainRow
  <2>2. outbox[j] \in Events /\ j \in Nat
    BY ElementOfSeq
  <2>3. rows' \in [Events -> Row]
    BY <2>1, <2>2, CountAttemptType DEF CountAttempt
  <2>4. cur' \in [Tasks -> Events] /\ pos' \in [Tasks -> Nat]
    BY <2>1, <2>2
  <2>5. pc' \in [Tasks -> Points] /\ hnd' \in [Tasks -> Nat]
    BY <1>3 DEF DrainRow, Points
  <2>6. TypeOK'
    BY <1>3, <2>3, <2>4, <2>5 DEF DrainRow
  <2>7. ASSUME NEW t \in Tasks, pc'[t] = "await"
        PROVE  hnd'[t] \in DOMAIN Subscribers(t)'
    <3>1. t # d /\ pc[t] = "await"
      BY <1>3, <2>7 DEF DrainRow
    <3>2. hnd'[t] = hnd[t] /\ cur'[t] = cur[t] /\ handlers' = handlers
      BY <1>3, <2>1, <3>1 DEF DrainRow
    <3>3. QED BY <3>1, <3>2 DEF AwaitsSubscriber, Subscribers
  <2>8. QED BY <2>6, <2>7 DEF AwaitsSubscriber
<1>4. ASSUME NEW d \in Events, DrainEnd(d) \/ RecordAudit(d)
      PROVE  TypeOK' /\ AwaitsSubscriber'
  <2>1. pc' \in [Tasks -> Points] /\ turn' \in Tasks \cup {NoTask} /\ audited' \subseteq Events
    BY <1>4 DEF DrainEnd, RecordAudit, Points
  <2>2. TypeOK'
    BY <1>4, <2>1 DEF DrainEnd, RecordAudit, arrays
  <2>3. AwaitsSubscriber'
    BY <1>4 DEF DrainEnd, RecordAudit, AwaitsSubscriber, Subscribers
  <2>4. QED BY <2>2, <2>3
<1>5. ASSUME NEW d \in Events, MarkPublished(d) PROVE TypeOK' /\ AwaitsSubscriber'
  <2>0. cur[d] \in Events
    BY DEF Tasks
  <2>1. rows' \in [Events -> Row]
    BY <1>5, <2>0, SetStatusType DEF MarkPublished
  <2>2. disk' \in [order : Seq(Events), rows : [Events -> Row],
                   processed : SUBSET ProcessedRow, dlq : Seq(Events)]
    BY <1>5, <2>1 DEF MarkPublished, SavedOutbox
  <2>3. pc' \in [Tasks -> Points] /\ turn' \in Tasks \cup {NoTask}
    BY <1>5 DEF MarkPublished, Points, Tasks
  <2>4. TypeOK'
    BY <1>5, <2>1, <2>2, <2>3 DEF MarkPublished
  <2>5. AwaitsSubscriber'
    BY <1>5 DEF MarkPublished, AwaitsSubscriber, Subscribers
  <2>6. QED BY <2>4, <2>5
<1>6. ASSUME NEW d \in Events, ParkOrKeep(d) PROVE TypeOK' /\ AwaitsSubscriber'
  <2>1. pc' \in [Tasks -> Points] /\ turn' \in Tasks \cup {NoTask}
    BY <1>6 DEF ParkOrKeep, Points, Tasks
  <2>2. rows' \in [Events -> Row] /\ dlq' \in Seq(Events)
        /\ disk' \in [order : Seq(Events), rows : [Events -> Row],
                      processed : SUBSET ProcessedRow, dlq : Seq(Events)]
    <3>1. CASE Exhausted(cur[d])
      <4>1. cur[d] \in Events
        BY DEF Tasks
      <4>2. rows' \in [Events -> Row]
        <5>1. rows' = [rows EXCEPT ![cur[d]].status = "dlq"]
          BY <1>6, <3>1 DEF ParkOrKeep
        <5>2. QED BY <4>1, <5>1, SetStatusType
      <4>3. dlq' \in Seq(Events)
        <5>1. Append(dlq, cur[d]) \in Seq(Events)
          BY <4>1, AppendProperties
        <5>2. dlq' = Trim(Append(dlq, cur[d]), MaxDlq)
          BY <1>6, <3>1 DEF ParkOrKeep
        <5>3. QED BY <5>1, <5>2, TrimType, BoundAssumption
      <4>4. disk' = [disk EXCEPT !.dlq = dlq']
        BY <1>6, <3>1 DEF ParkOrKeep
      <4>5. QED BY <4>2, <4>3, <4>4
    <3>2. CASE ~Exhausted(cur[d])
      BY <1>6, <3>2 DEF ParkOrKeep
    <3>3. QED BY <3>1, <3>2
  <2>3. TypeOK'
    BY <1>6, <2>1, <2>2 DEF ParkOrKeep
  <2>4. AwaitsSubscriber'
    BY <1>6 DEF ParkOrKeep, AwaitsSubscriber, Subscribers
  <2>5. QED BY <2>3, <2>4
<1>7. ASSUME NEW t \in Tasks, Invoke(t) PROVE TypeOK' /\ AwaitsSubscriber'
  <2>1. PICK k \in DOMAIN Subscribers(t) :
          /\ hnd' = [hnd EXCEPT ![t] = k]
          /\ invoked' = IF t \in Events
               THEN [invoked EXCEPT ![cur[t]][Subscribers(t)[k]] = @ + 1]
               ELSE invoked
    BY <1>7 DEF Invoke
  <2>2. cur[t] \in Events /\ Subscribers(t) \in Seq(Handlers)
    BY MapAssumption DEF Subscribers
  <2>3. k \in Nat /\ Subscribers(t)[k] \in Handlers
    BY <2>2, ElementOfSeq
  <2>4. invoked' \in [Events -> [Handlers -> Nat]]
    <3> DEFINE h == Subscribers(t)[k]
    <3>1. [invoked[cur[t]] EXCEPT ![h] = @ + 1] \in [Handlers -> Nat]
      BY <2>2, <2>3
    <3>2. [invoked EXCEPT ![cur[t]] = [invoked[cur[t]] EXCEPT ![h] = @ + 1]]
            \in [Events -> [Handlers -> Nat]]
      BY <2>2, <3>1
    <3>3. QED BY <2>1, <3>2
  <2>5. pc' \in [Tasks -> Points] /\ turn' \in Tasks \cup {NoTask} /\ hnd' \in [Tasks -> Nat]
    BY <1>7, <2>1, <2>3 DEF Invoke, Points
  <2>6. TypeOK'
    BY <1>7, <2>4, <2>5 DEF Invoke, arrays
  <2>7. AwaitsSubscriber'
    BY <1>7, <2>1 DEF Invoke, AwaitsSubscriber, Subscribers
  <2>8. QED BY <2>6, <2>7
<1>8. ASSUME NEW t \in Tasks, DeliverEnd(t) PROVE TypeOK' /\ AwaitsSubscriber'
  <2>1. processed' \subseteq ProcessedRow
    BY <1>8 DEF DeliverEnd, TrimProcessed
  <2>2. disk' \in [order : Seq(Events), rows : [Events -> Row],
                   processed : SUBSET ProcessedRow, dlq : Seq(Events)]
    BY <1>8, <2>1 DEF DeliverEnd
  <2>3. pc' \in [Tasks -> Points] /\ turn' \in Tasks \cup {NoTask}
    BY <1>8 DEF DeliverEnd, Points
  <2>4. TypeOK'
    BY <1>8, <2>1, <2>2, <2>3 DEF DeliverEnd
  <2>5. AwaitsSubscriber'
    BY <1>8 DEF DeliverEnd, AwaitsSubscriber, Subscribers
  <2>6. QED BY <2>4, <2>5
<1>9. ASSUME NEW t \in Tasks, HandlerOk(t) \/ HandlerThrows(t)
      PROVE  TypeOK' /\ AwaitsSubscriber'
  <2>1. cur[t] \in Events /\ NameOf[Subscribers(t)[hnd[t]]] \in Services
    <3>1. hnd[t] \in DOMAIN Subscribers(t)
      BY <1>9 DEF HandlerOk, HandlerThrows, AwaitsSubscriber
    <3>2. Subscribers(t) \in Seq(Handlers)
      BY MapAssumption DEF Subscribers
    <3>3. Subscribers(t)[hnd[t]] \in Handlers
      BY <3>1, <3>2, ElementOfSeq
    <3>4. QED BY <3>3, MapAssumption
  <2>2. ASSUME NEW s \in {"ok", "error"}, PushProcessed(t, s)
        PROVE  processed' \subseteq ProcessedRow /\ pushes' \in Nat
    BY <2>1, <2>2 DEF PushProcessed, ProcessedRow
  <2>3. processed' \subseteq ProcessedRow /\ pushes' \in Nat
    BY <1>9, <2>2 DEF HandlerOk, HandlerThrows
  <2>4. pc' \in [Tasks -> Points] /\ turn' \in Tasks \cup {NoTask}
    BY <1>9 DEF HandlerOk, HandlerThrows, Points
  <2>5. TypeOK'
    BY <1>9, <2>3, <2>4 DEF HandlerOk, HandlerThrows
  <2>6. AwaitsSubscriber'
    BY <1>9 DEF HandlerOk, HandlerThrows, AwaitsSubscriber, Subscribers
  <2>7. QED BY <2>5, <2>6
<1>10. ASSUME NEW r \in Replayers, ReplayRow(r) PROVE TypeOK' /\ AwaitsSubscriber'
  <2>1. PICK e \in slice[r] :
          /\ cur' = [cur EXCEPT ![r] = e]
          /\ slice' = [slice EXCEPT ![r] = @ \ {e}]
          /\ processed' = {p \in processed : p.event # e}
    BY <1>10 DEF ReplayRow
  <2>2. r \in Tasks /\ e \in Events
    BY DEF Tasks
  <2>3. cur' \in [Tasks -> Events] /\ slice' \in [Tasks -> SUBSET Events]
        /\ processed' \subseteq ProcessedRow
    BY <2>1, <2>2
  <2>4. pc' \in [Tasks -> Points] /\ hnd' \in [Tasks -> Nat]
    BY <1>10 DEF ReplayRow, Points
  <2>5. TypeOK'
    BY <1>10, <2>3, <2>4 DEF ReplayRow
  <2>6. ASSUME NEW t \in Tasks, pc'[t] = "await"
        PROVE  hnd'[t] \in DOMAIN Subscribers(t)'
    <3>1. t # r /\ pc[t] = "await"
      BY <1>10, <2>6, <2>2 DEF ReplayRow
    <3>2. hnd'[t] = hnd[t] /\ cur'[t] = cur[t] /\ handlers' = handlers
      BY <1>10, <2>1, <3>1 DEF ReplayRow
    <3>3. QED BY <3>1, <3>2 DEF AwaitsSubscriber, Subscribers
  <2>7. QED BY <2>5, <2>6 DEF AwaitsSubscriber
<1>11. ASSUME NEW r \in Replayers, ReplayResume(r) \/ ReplayEnd(r)
       PROVE  TypeOK' /\ AwaitsSubscriber'
  <2>0. "replay" \in Points /\ "done" \in Points /\ r \in Tasks
    BY DEF Points, Tasks
  <2>1. pc' \in [Tasks -> Points] /\ turn' \in Tasks \cup {NoTask}
    BY <1>11, <2>0 DEF ReplayResume, ReplayEnd
  <2>2. TypeOK'
    BY <1>11, <2>1 DEF ReplayResume, ReplayEnd, arrays
  <2>3. AwaitsSubscriber'
    BY <1>11 DEF ReplayResume, ReplayEnd, AwaitsSubscriber, Subscribers
  <2>4. QED BY <2>2, <2>3
<1>12. ASSUME NEW r \in Replayers, NEW since, NEW topics, Replay(r, since, topics)
       PROVE  TypeOK' /\ AwaitsSubscriber'
  <2>1. Replayable(since, topics) \subseteq Events
    BY ElementOfSeq DEF Replayable, Ids
  <2>2. slice' \in [Tasks -> SUBSET Events]
    BY <1>12, <2>1 DEF Replay
  <2>3. pc' \in [Tasks -> Points] /\ turn' \in Tasks \cup {NoTask}
    BY <1>12 DEF Replay, Points, Tasks
  <2>4. TypeOK'
    BY <1>12, <2>2, <2>3 DEF Replay, arrays
  <2>5. AwaitsSubscriber'
    BY <1>12 DEF Replay, AwaitsSubscriber, Subscribers
  <2>6. QED BY <2>4, <2>5
<1>13. ASSUME Restart PROVE TypeOK' /\ AwaitsSubscriber'
  <2>1. NoRow \in Row
    BY DEF NoRow, Row
  <2>2. rows' \in [Events -> Row]
    BY <1>13, <2>1 DEF Restart
  <2>3. outbox' \in Seq(Events) /\ dlq' \in Seq(Events) /\ processed' \subseteq ProcessedRow
    BY <1>13 DEF Restart
  <2>4. pc' \in [Tasks -> Points] /\ turn' \in Tasks \cup {NoTask}
    BY <1>13 DEF Restart, Points
  <2>5. handlers' \in [Topics -> Seq(Handlers)]
    BY <1>13 DEF Restart
  <2>6. TypeOK'
    BY <1>13, <2>2, <2>3, <2>4, <2>5 DEF Restart
  <2>7. AwaitsSubscriber'
    BY <1>13 DEF Restart, AwaitsSubscriber
  <2>8. QED BY <2>6, <2>7
<1>14. CASE UNCHANGED vars
  <2>1. TypeOK'
    BY <1>14 DEF vars
  <2>2. AwaitsSubscriber'
    BY <1>14 DEF vars, AwaitsSubscriber, Subscribers
  <2>3. QED BY <2>1, <2>2
<1>15. QED
  BY <1>1, <1>2, <1>3, <1>4, <1>5, <1>6, <1>7, <1>8, <1>9, <1>10, <1>11, <1>12,
     <1>13, <1>14 DEF Next, DrainStep, DeliverStep, ReplayStep

\* Every variable keeps the shape of the structure it stands for.
THEOREM TypeCorrect == Spec => []TypeOK
<1>1. Spec => []TypeInv
  BY TypeInit, TypeStep, PTL DEF Spec
<1>2. TypeInv => TypeOK
  BY DEF TypeInv
<1>3. QED BY <1>1, <1>2, PTL

-----------------------------------------------------------------------------
\* The two conjuncts of durability as a formula over the state.
LEMMA DurableStep ==
  TypeOK /\ PublishedIsDurable /\ [Next]_vars => PublishedIsDurable'
<1> SUFFICES ASSUME TypeOK, PublishedIsDurable, [Next]_vars
             PROVE  PublishedIsDurable'
  OBVIOUS
<1> USE DEF PublishedIsDurable
<1>1. ASSUME NEW e \in Events, Publish(e) PROVE PublishedIsDurable'
  BY <1>1 DEF Publish, SavedOutbox, TypeOK
<1>2. ASSUME NEW d \in Events, DrainRow(d) PROVE PublishedIsDurable'
  <2>1. PICK j \in DOMAIN outbox : rows' = CountAttempt(outbox[j])
    BY <1>2 DEF DrainRow
  <2>2. outbox[j] \in Events
    BY ElementOfSeq DEF TypeOK
  <2>3. \A e \in Events : rows'[e].status = rows[e].status
    <3>1. ASSUME NEW e \in Events PROVE rows'[e].status = rows[e].status
      <4>1. rows[e] \in Row
        BY DEF TypeOK
      <4>2. rows'[e] = IF e = outbox[j] THEN [rows[e] EXCEPT !.attempts = @ + 1] ELSE rows[e]
        BY <2>1, <2>2 DEF CountAttempt, TypeOK
      <4>3. QED BY <4>1, <4>2 DEF Row
    <3>2. QED BY <3>1
  <2>4. outbox' = outbox /\ disk' = disk /\ Ids(outbox) \subseteq Events
    BY <1>2, ElementOfSeq DEF DrainRow, Ids, TypeOK
  <2>5. QED BY <2>3, <2>4
<1>3. ASSUME NEW d \in Events, MarkPublished(d) PROVE PublishedIsDurable'
  BY <1>3 DEF MarkPublished, SavedOutbox, TypeOK
<1>4. ASSUME NEW d \in Events, ParkOrKeep(d) PROVE PublishedIsDurable'
  <2>1. CASE Exhausted(cur[d])
    <3>1. cur[d] \in Events
      BY DEF TypeOK, Tasks
    <3>2. rows' = [rows EXCEPT ![cur[d]].status = "dlq"] /\ outbox' = outbox
          /\ disk' = [disk EXCEPT !.dlq = dlq']
      BY <1>4, <2>1 DEF ParkOrKeep
    <3>3. disk'.order = disk.order /\ disk'.rows = disk.rows
      BY <3>2 DEF TypeOK
    <3>4. ASSUME NEW e \in Events, rows'[e].status = "published"
          PROVE  rows[e].status = "published"
      <4>1. rows[cur[d]] \in Row
        BY <3>1 DEF TypeOK
      <4>2. rows'[cur[d]].status = "dlq"
        BY <3>1, <3>2, <4>1 DEF TypeOK, Row
      <4>3. e # cur[d]
        BY <4>2, <3>4
      <4>4. QED BY <3>1, <3>2, <3>4, <4>3 DEF TypeOK
    <3>5. Ids(outbox) \subseteq Events
      BY ElementOfSeq DEF Ids, TypeOK
    <3>6. QED BY <3>2, <3>3, <3>4, <3>5
  <2>2. CASE ~Exhausted(cur[d])
    BY <1>4, <2>2 DEF ParkOrKeep
  <2>3. QED BY <2>1, <2>2
<1>5. ASSUME NEW t \in Tasks, DeliverStep(t) PROVE PublishedIsDurable'
  BY <1>5 DEF DeliverStep, Invoke, DeliverEnd, HandlerOk, HandlerThrows, arrays, TypeOK
<1>6. ASSUME NEW r \in Replayers, ReplayStep(r) PROVE PublishedIsDurable'
  BY <1>6 DEF ReplayStep, ReplayRow, ReplayResume, ReplayEnd, arrays
<1>7. ASSUME NEW h \in Handlers, Subscribe(h) PROVE PublishedIsDurable'
  BY <1>7 DEF Subscribe, arrays
<1>8. ASSUME NEW d \in Events, DrainEnd(d) \/ RecordAudit(d) PROVE PublishedIsDurable'
  BY <1>8 DEF DrainEnd, RecordAudit, arrays
<1>9. ASSUME NEW r \in Replayers, NEW since, NEW topics, Replay(r, since, topics)
      PROVE  PublishedIsDurable'
  BY <1>9 DEF Replay, arrays
<1>10. ASSUME Restart PROVE PublishedIsDurable'
  <2>1. Ids(disk.order) \subseteq Events
    BY ElementOfSeq DEF Ids, TypeOK
  <2>2. \A e \in Ids(disk.order) : rows'[e] = disk.rows[e]
    BY <1>10, <2>1 DEF Restart
  <2>3. outbox' = disk.order /\ disk' = disk
    BY <1>10 DEF Restart
  <2>4. QED BY <2>2, <2>3
<1>11. CASE UNCHANGED vars
  BY <1>11 DEF vars
<1>12. QED
  BY <1>1, <1>2, <1>3, <1>4, <1>5, <1>6, <1>7, <1>8, <1>9, <1>10, <1>11
     DEF Next, DrainStep

\* However many crashes, failures and overlapping drains: the outbox file lists
\* the rows of the array, and no published row can come back as pending.
THEOREM Durable == Spec => []PublishedIsDurable
<1>1. Init => PublishedIsDurable
  BY DEF Init, PublishedIsDurable, Ids
<1>2. QED BY <1>1, DurableStep, TypeCorrect, PTL DEF Spec

-----------------------------------------------------------------------------
\* A drain that has counted an attempt on event e and whose loop in deliver()
\* has not come to handler h: it may still call h once.
Passed(d, h) == \E k \in DOMAIN Subscribers(d) : k <= hnd[d] /\ Subscribers(d)[k] = h
Unspent(e, h) ==
  {d \in Events : pc[d] \in {"deliver", "await"} /\ cur[d] = e /\ ~Passed(d, h)}

\* The strengthening: calls made and calls still possible are covered by the
\* attempts, no function is twice in a list, rows not yet published count none.
Covered ==
  /\ \A e \in Events, h \in Handlers :
       invoked[e][h] + Cardinality(Unspent(e, h)) <= rows[e].attempts
  /\ \A t \in Topics : \A i, j \in DOMAIN handlers[t] :
       handlers[t][i] = handlers[t][j] => i = j
  /\ \A e \in Events : /\ rows[e].status = "absent" => rows[e].attempts = 0
                       /\ disk.rows[e].status = "absent" => disk.rows[e].attempts = 0

LEMMA UnspentFinite ==
  ASSUME NEW e, NEW h
  PROVE  IsFiniteSet(Unspent(e, h)) /\ Cardinality(Unspent(e, h)) \in Nat
BY FS_Subset, FS_CardinalityType, TaskAssumption DEF Unspent

\* A step that neither calls handlers nor lets a drain start on a row keeps the
\* budget when the attempts do not shrink.
LEMMA BudgetKept ==
  ASSUME TypeOK, TypeOK', Covered,
         NEW e \in Events, NEW h \in Handlers,
         Unspent(e, h)' \subseteq Unspent(e, h),
         invoked'[e][h] = invoked[e][h],
         rows'[e].attempts = rows[e].attempts
  PROVE  invoked'[e][h] + Cardinality(Unspent(e, h)') <= rows'[e].attempts
<1>1. IsFiniteSet(Unspent(e, h)) /\ Cardinality(Unspent(e, h)) \in Nat
  BY UnspentFinite
<1>2. Cardinality(Unspent(e, h)') <= Cardinality(Unspent(e, h))
      /\ Cardinality(Unspent(e, h)') \in Nat
  BY <1>1, FS_Subset, FS_CardinalityType
<1>3. invoked[e][h] \in Nat /\ rows[e].attempts \in Nat
  BY DEF TypeOK, Row
<1>4. invoked[e][h] + Cardinality(Unspent(e, h)) <= rows[e].attempts
  BY DEF Covered
<1>5. QED BY <1>1, <1>2, <1>3, <1>4

\* Updating a row changes the fields named and nothing else.
LEMMA SetStatusUpdate ==
  ASSUME NEW rs \in [Events -> Row], NEW e \in Events,
         NEW s \in {"absent", "pending", "published", "dlq"}
  PROVE  \A f \in Events :
           /\ [rs EXCEPT ![e].status = s][f].attempts = rs[f].attempts
           /\ [rs EXCEPT ![e].status = s][f].status = IF f = e THEN s ELSE rs[f].status
<1> TAKE f \in Events
<1>1. rs[f] \in Row /\ rs[e] \in Row
  OBVIOUS
<1>2. CASE f = e
  <2>1. [rs EXCEPT ![e].status = s][f] = [rs[e] EXCEPT !.status = s]
    BY <1>2
  <2>2. QED BY <1>1, <1>2, <2>1 DEF Row
<1>3. CASE f # e
  <2>1. [rs EXCEPT ![e].status = s][f] = rs[f]
    BY <1>3
  <2>2. QED BY <1>3, <2>1
<1>4. QED BY <1>2, <1>3

LEMMA CountAttemptUpdate ==
  ASSUME NEW rs \in [Events -> Row], NEW e \in Events
  PROVE  \A f \in Events :
           /\ [rs EXCEPT ![e].attempts = @ + 1][f].status = rs[f].status
           /\ [rs EXCEPT ![e].attempts = @ + 1][f].attempts
                = IF f = e THEN rs[f].attempts + 1 ELSE rs[f].attempts
<1> TAKE f \in Events
<1>1. rs[f] \in Row /\ rs[e] \in Row
  OBVIOUS
<1>2. CASE f = e
  <2>1. [rs EXCEPT ![e].attempts = @ + 1][f] = [rs[e] EXCEPT !.attempts = @ + 1]
    BY <1>2
  <2>2. QED BY <1>1, <1>2, <2>1 DEF Row
<1>3. CASE f # e
  <2>1. [rs EXCEPT ![e].attempts = @ + 1][f] = rs[f]
    BY <1>3
  <2>2. QED BY <1>3, <2>1
<1>4. QED BY <1>2, <1>3

\* Steps that leave handlers, rows, disk rows and calls alone and in which
\* every delivery under way was under way before, no further behind.
LEMMA QuietStep ==
  ASSUME TypeOK, TypeOK', Covered, invoked' = invoked, handlers' = handlers,
         \A e \in Events : /\ rows'[e].attempts = rows[e].attempts
                           /\ rows'[e].status = "absent" => rows[e].status = "absent"
                           /\ disk'.rows[e] \in {disk.rows[e], rows'[e]},
         \A d \in Events : pc'[d] \in {"deliver", "await"} =>
           pc[d] \in {"deliver", "await"} /\ cur'[d] = cur[d] /\ hnd'[d] = hnd[d]
  PROVE  Covered'
<1>1. ASSUME NEW e \in Events, NEW h \in Handlers
      PROVE  invoked'[e][h] + Cardinality(Unspent(e, h)') <= rows'[e].attempts
  <2>1. Unspent(e, h)' \subseteq Unspent(e, h)
    BY DEF Unspent, Passed, Subscribers
  <2>2. QED BY <2>1, BudgetKept
<1>2. \A e \in Events : /\ rows'[e].status = "absent" => rows'[e].attempts = 0
                        /\ disk'.rows[e].status = "absent" => disk'.rows[e].attempts = 0
  BY DEF Covered
<1>3. QED BY <1>1, <1>2 DEF Covered

LEMMA CoveredStep ==
  TypeInv /\ Covered /\ [Next]_vars => Covered'
<1> SUFFICES ASSUME TypeInv, Covered, [Next]_vars PROVE Covered'
  OBVIOUS
<1>0. TypeOK /\ TypeOK'
  BY TypeStep DEF TypeInv
<1>1. ASSUME NEW e \in Events, Publish(e) PROVE Covered'
  <2>1. rows'[e] = NewRow(clock') /\ \A f \in Events \ {e} : rows'[f] = rows[f]
    BY <1>0, <1>1 DEF Publish, TypeOK
  <2>2. rows[e].attempts = 0 /\ rows'[e].attempts = 0 /\ rows'[e].status = "pending"
    BY <1>1, <2>1 DEF Publish, NewRow, Covered
  <2>3. disk'.rows = rows'
    BY <1>0, <1>1 DEF Publish, SavedOutbox, TypeOK
  <2>4. \A d \in Events : pc'[d] \in {"deliver", "await"} => pc[d] \in {"deliver", "await"}
    BY <1>0, <1>1 DEF Publish, TypeOK
  <2>5. QED BY <1>0, <1>1, <2>1, <2>2, <2>3, <2>4, QuietStep DEF Publish
<1>2. ASSUME NEW h \in Handlers, Subscribe(h) PROVE Covered'
  <2>1. rows' = rows /\ invoked' = invoked /\ disk' = disk /\ pc' = pc /\ cur' = cur
        /\ hnd' = hnd
    BY <1>2 DEF Subscribe, arrays, task
  <2>2. SubTopic[h] \in Topics /\ handlers[SubTopic[h]] \in Seq(Handlers)
    BY <1>0, MapAssumption DEF TypeOK
  <2>3. \A t \in Topics :
          /\ DOMAIN handlers[t] \subseteq DOMAIN handlers'[t]
          /\ \A k \in DOMAIN handlers[t] : handlers'[t][k] = handlers[t][k]
    <3>1. ASSUME NEW t \in Topics, t # SubTopic[h] PROVE handlers'[t] = handlers[t]
      BY <1>0, <1>2, <3>1 DEF Subscribe, TypeOK
    <3>2. handlers'[SubTopic[h]] = Append(handlers[SubTopic[h]], h)
      BY <1>0, <1>2, <2>2 DEF Subscribe, TypeOK
    <3>3. QED BY <2>2, <3>1, <3>2
  <2>4. ASSUME NEW e \in Events, NEW g \in Handlers
        PROVE  invoked'[e][g] + Cardinality(Unspent(e, g)') <= rows'[e].attempts
    <3>1. ASSUME NEW d \in Events, Passed(d, g) PROVE Passed(d, g)'
      <4>1. TopicOf[cur[d]] \in Topics
        BY <1>0, MapAssumption DEF TypeOK, Tasks
      <4>2. QED BY <2>1, <2>3, <3>1, <4>1 DEF Passed, Subscribers
    <3>2. Unspent(e, g)' \subseteq Unspent(e, g)
      BY <2>1, <3>1 DEF Unspent
    <3>3. QED BY <1>0, <2>1, <3>2, BudgetKept
  <2>5. ASSUME NEW t \in Topics, NEW i \in DOMAIN handlers'[t], NEW j \in DOMAIN handlers'[t],
               handlers'[t][i] = handlers'[t][j]
        PROVE  i = j
    <3>1. CASE t # SubTopic[h]
      BY <1>0, <1>2, <2>5, <3>1 DEF Subscribe, TypeOK, Covered
    <3>2. CASE t = SubTopic[h]
      <4>1. handlers'[t] = Append(handlers[t], h) /\ h \notin Ids(handlers[t])
        BY <1>0, <1>2, <2>2, <3>2 DEF Subscribe, TypeOK
      <4>2. i \in 1 .. Len(handlers[t]) + 1 /\ j \in 1 .. Len(handlers[t]) + 1
        BY <2>2, <3>2, <4>1
      <4>3. \A k \in 1 .. Len(handlers[t]) :
              handlers'[t][k] = handlers[t][k] /\ handlers[t][k] # h
        BY <2>2, <3>2, <4>1 DEF Ids
      <4>4. handlers'[t][Len(handlers[t]) + 1] = h
        BY <2>2, <3>2, <4>1
      <4>5. \A k, m \in 1 .. Len(handlers[t]) : handlers[t][k] = handlers[t][m] => k = m
        BY <2>2, <3>2 DEF Covered
      <4>6. QED BY <2>2, <2>5, <3>2, <4>2, <4>3, <4>4, <4>5
    <3>3. QED BY <3>1, <3>2
  <2>6. QED BY <2>1, <2>4, <2>5 DEF Covered
<1>3. ASSUME NEW d \in Events, DrainRow(d) PROVE Covered'
  <2>1. PICK j \in DOMAIN outbox :
          NextPending(pos[d], j) /\ cur' = [cur EXCEPT ![d] = outbox[j]] /\ rows' = CountAttempt(outbox[j])
    BY <1>3 DEF DrainRow
  <2> DEFINE f == outbox[j]
  <2>2. f \in Events
    BY <1>0, ElementOfSeq DEF TypeOK
  <2>3. \A e \in Events : /\ rows'[e].status = rows[e].status
                          /\ rows'[e].attempts = IF e = f THEN rows[e].attempts + 1
                                                 ELSE rows[e].attempts
    <3>1. rows \in [Events -> Row]
      BY <1>0 DEF TypeOK
    <3>2. rows' = [rows EXCEPT ![f].attempts = @ + 1]
      BY <2>1 DEF CountAttempt
    <3>3. QED BY <2>2, <3>1, <3>2, CountAttemptUpdate
  <2>4. ASSUME NEW e \in Events, NEW h \in Handlers
        PROVE  invoked'[e][h] + Cardinality(Unspent(e, h)') <= rows'[e].attempts
    <3>1. \A x \in Events \ {d} : /\ pc'[x] = pc[x] /\ cur'[x] = cur[x]
                                  /\ hnd'[x] = hnd[x] /\ handlers' = handlers
      BY <1>0, <1>3, <2>1 DEF DrainRow, TypeOK
    <3>2. invoked' = invoked /\ d \in Tasks /\ cur'[d] = f
      BY <1>0, <1>3, <2>1 DEF DrainRow, TypeOK, Tasks
    <3>3. CASE e # f
      <4>1. Unspent(e, h)' \subseteq Unspent(e, h)
        BY <3>1, <3>2, <3>3 DEF Unspent, Passed, Subscribers
      <4>2. QED BY <1>0, <2>3, <3>2, <3>3, <4>1, BudgetKept
    <3>4. CASE e = f
      <4>1. Unspent(e, h)' \subseteq Unspent(e, h) \cup {d}
        BY <3>1, <3>2 DEF Unspent, Passed, Subscribers
      <4>2. IsFiniteSet(Unspent(e, h)) /\ Cardinality(Unspent(e, h)) \in Nat
        BY UnspentFinite
      <4>3. IsFiniteSet(Unspent(e, h) \cup {d})
            /\ Cardinality(Unspent(e, h) \cup {d}) <= Cardinality(Unspent(e, h)) + 1
            /\ Cardinality(Unspent(e, h) \cup {d}) \in Nat
        <5>1. IsFiniteSet(Unspent(e, h) \cup {d})
              /\ Cardinality(Unspent(e, h) \cup {d})
                   = IF d \in Unspent(e, h) THEN Cardinality(Unspent(e, h))
                     ELSE Cardinality(Unspent(e, h)) + 1
          BY <4>2, FS_AddElement
        <5>2. QED BY <4>2, <5>1
      <4>4. Cardinality(Unspent(e, h)') <= Cardinality(Unspent(e, h)) + 1
            /\ Cardinality(Unspent(e, h)') \in Nat
        BY <4>1, <4>2, <4>3, FS_Subset, FS_CardinalityType
      <4>5. invoked[e][h] \in Nat /\ rows[e].attempts \in Nat
        BY <1>0 DEF TypeOK, Row
      <4>6. invoked[e][h] + Cardinality(Unspent(e, h)) <= rows[e].attempts
        BY DEF Covered
      <4>7. QED BY <2>3, <3>2, <3>4, <4>2, <4>4, <4>5, <4>6
    <3>5. QED BY <3>3, <3>4
  <2>5. \A e \in Events : rows'[e].status = "absent" => rows'[e].attempts = 0
    <3>1. rows[f].status # "absent"
      BY <2>1 DEF NextPending, Pending
    <3>2. QED BY <2>3, <3>1 DEF Covered
  <2>6. QED BY <1>3, <2>4, <2>5 DEF DrainRow, Covered
<1>4. ASSUME NEW t \in Tasks, Invoke(t) PROVE Covered'
  <2>1. PICK k \in DOMAIN Subscribers(t) :
          /\ NextOwed(t, k)
          /\ hnd' = [hnd EXCEPT ![t] = k]
          /\ invoked' = IF t \in Events
               THEN [invoked EXCEPT ![cur[t]][Subscribers(t)[k]] = @ + 1]
               ELSE invoked
    BY <1>4 DEF Invoke
  <2>2. cur[t] \in Events /\ TopicOf[cur[t]] \in Topics /\ Subscribers(t) \in Seq(Handlers)
    BY <1>0, MapAssumption DEF Subscribers, TypeOK
  <2>3. k \in Nat /\ Subscribers(t)[k] \in Handlers /\ hnd[t] \in Nat /\ k > hnd[t]
    BY <1>0, <2>1, <2>2, ElementOfSeq DEF TypeOK, NextOwed
  <2>4. /\ rows' = rows /\ disk' = disk /\ handlers' = handlers /\ cur' = cur
        /\ pc[t] = "deliver" /\ pc'[t] = "await" /\ hnd'[t] = k
        /\ \A x \in Tasks \ {t} : pc'[x] = pc[x] /\ hnd'[x] = hnd[x]
    BY <1>0, <1>4, <2>1 DEF Invoke, arrays, TypeOK
  <2> DEFINE g == Subscribers(t)[k]
  <2>5. ASSUME NEW e \in Events, NEW h \in Handlers
        PROVE  invoked'[e][h] + Cardinality(Unspent(e, h)') <= rows'[e].attempts
    <3>1. Unspent(e, h)' \subseteq Unspent(e, h)
      <4>1. ASSUME NEW d \in Events, d \in Unspent(e, h)' PROVE d \in Unspent(e, h)
        <5>1. pc[d] \in {"deliver", "await"} /\ cur[d] = e
          BY <2>4, <4>1 DEF Unspent, Tasks
        <5>2. hnd[d] <= hnd'[d] /\ hnd[d] \in Nat /\ hnd'[d] \in Nat
          <6>1. hnd[d] \in Nat /\ hnd'[d] \in Nat
            BY <1>0 DEF TypeOK, Tasks
          <6>2. CASE d = t
            BY <2>3, <2>4, <6>1, <6>2
          <6>3. CASE d # t
            <7>1. d \in Tasks \ {t}
              BY <6>3 DEF Tasks
            <7>2. QED BY <2>4, <6>1, <7>1
          <6>4. QED BY <6>1, <6>2, <6>3
        <5>3. ~Passed(d, h)
          <6>1. ~(\E m \in DOMAIN handlers[TopicOf[cur[d]]] :
                    m <= hnd'[d] /\ handlers[TopicOf[cur[d]]][m] = h)
            BY <2>4, <4>1 DEF Unspent, Passed, Subscribers
          <6>2. handlers[TopicOf[cur[d]]] \in Seq(Handlers)
            BY <1>0, MapAssumption DEF TypeOK, Tasks
          <6>3. DOMAIN handlers[TopicOf[cur[d]]] \subseteq Nat
            BY <6>2
          <6>4. QED BY <5>2, <6>1, <6>3 DEF Passed, Subscribers
        <5>4. QED BY <5>1, <5>3 DEF Unspent
      <4>2. QED BY <4>1 DEF Unspent
    <3>2. CASE ~(t \in Events /\ e = cur[t] /\ h = g)
      <4>1. invoked'[e][h] = invoked[e][h]
        BY <1>0, <2>1, <2>2, <2>3, <3>2 DEF TypeOK
      <4>2. QED BY <1>0, <2>4, <3>1, <4>1, BudgetKept
    <3>3. CASE t \in Events /\ e = cur[t] /\ h = g
      <4>1. invoked'[e][h] = invoked[e][h] + 1
        BY <1>0, <2>1, <2>2, <2>3, <3>3 DEF TypeOK
      <4>2. t \in Unspent(e, h)
        <5>1. ASSUME NEW m \in DOMAIN Subscribers(t), m <= hnd[t], Subscribers(t)[m] = g
              PROVE  FALSE
          <6>1. m = k
            BY <2>1, <2>2, <5>1 DEF Covered, Subscribers
          <6>2. QED BY <2>3, <5>1, <6>1
        <5>2. QED BY <2>4, <3>3, <5>1 DEF Unspent, Passed
      <4>3. t \notin Unspent(e, h)'
        <5>1. Subscribers(t)' = Subscribers(t)
          BY <2>4 DEF Subscribers
        <5>2. Passed(t, h)'
          BY <2>3, <2>4, <3>3, <5>1 DEF Passed
        <5>3. QED BY <5>2 DEF Unspent
      <4>4. Unspent(e, h)' \subseteq Unspent(e, h) \ {t}
        BY <3>1, <4>3
      <4>5. IsFiniteSet(Unspent(e, h)) /\ Cardinality(Unspent(e, h)) \in Nat
        BY UnspentFinite
      <4>6. IsFiniteSet(Unspent(e, h) \ {t})
            /\ Cardinality(Unspent(e, h) \ {t}) = Cardinality(Unspent(e, h)) - 1
        BY <4>2, <4>5, FS_RemoveElement
      <4>7. Cardinality(Unspent(e, h)') <= Cardinality(Unspent(e, h)) - 1
            /\ Cardinality(Unspent(e, h)') \in Nat
        BY <4>4, <4>6, FS_Subset, FS_CardinalityType
      <4>8. invoked[e][h] \in Nat /\ rows[e].attempts \in Nat
        BY <1>0 DEF TypeOK, Row
      <4>9. invoked[e][h] + Cardinality(Unspent(e, h)) <= rows[e].attempts
        BY DEF Covered
      <4>10. QED BY <2>4, <4>1, <4>5, <4>7, <4>8, <4>9
    <3>4. QED BY <3>2, <3>3
  <2>6. QED BY <2>4, <2>5 DEF Covered
<1>5. ASSUME NEW d \in Events, MarkPublished(d) PROVE Covered'
  <2>1. cur[d] \in Events
    BY <1>0 DEF TypeOK, Tasks
  <2>2. \A e \in Events : /\ rows'[e].attempts = rows[e].attempts
                          /\ rows'[e].status = "absent" => rows[e].status = "absent"
    BY <1>0, <1>5, <2>1, SetStatusUpdate DEF MarkPublished, TypeOK
  <2>3. disk'.rows = rows'
    BY <1>0, <1>5 DEF MarkPublished, SavedOutbox, TypeOK
  <2>4. \A x \in Events : pc'[x] \in {"deliver", "await"} => pc[x] \in {"deliver", "await"}
    BY <1>0, <1>5 DEF MarkPublished, TypeOK
  <2>5. QED BY <1>0, <1>5, <2>2, <2>3, <2>4, QuietStep DEF MarkPublished
<1>6. ASSUME NEW d \in Events, ParkOrKeep(d) PROVE Covered'
  <2>1. cur[d] \in Events
    BY <1>0 DEF TypeOK, Tasks
  <2>2. /\ \A e \in Events : /\ rows'[e].attempts = rows[e].attempts
                             /\ rows'[e].status = "absent" => rows[e].status = "absent"
        /\ disk'.rows = disk.rows
    <3>1. CASE Exhausted(cur[d])
      <4>1. rows' = [rows EXCEPT ![cur[d]].status = "dlq"] /\ disk' = [disk EXCEPT !.dlq = dlq']
        BY <1>6, <3>1 DEF ParkOrKeep
      <4>2. \A e \in Events : /\ rows'[e].attempts = rows[e].attempts
                              /\ rows'[e].status = "absent" => rows[e].status = "absent"
        <5>1. rows \in [Events -> Row]
          BY <1>0 DEF TypeOK
        <5>2. rows' = [rows EXCEPT ![cur[d]].status = "dlq"]
          BY <4>1
        <5>3. \A e \in Events :
                /\ rows'[e].attempts = rows[e].attempts
                /\ rows'[e].status = IF e = cur[d] THEN "dlq" ELSE rows[e].status
          BY <2>1, <5>1, <5>2, SetStatusUpdate
        <5>4. QED BY <5>3
      <4>3. disk'.rows = disk.rows
        BY <1>0, <4>1 DEF TypeOK
      <4>4. QED BY <4>2, <4>3
    <3>2. CASE ~Exhausted(cur[d])
      BY <1>6, <3>2 DEF ParkOrKeep
    <3>3. QED BY <3>1, <3>2
  <2>3. \A x \in Events : pc'[x] \in {"deliver", "await"} => pc[x] \in {"deliver", "await"}
    BY <1>0, <1>6 DEF ParkOrKeep, TypeOK
  <2>4. QED BY <1>0, <1>6, <2>2, <2>3, QuietStep DEF ParkOrKeep
<1>7. ASSUME NEW t \in Tasks, DeliverEnd(t) \/ HandlerOk(t) \/ HandlerThrows(t)
      PROVE  Covered'
  <2>1. disk'.rows = disk.rows
    BY <1>0, <1>7 DEF DeliverEnd, HandlerOk, HandlerThrows, TypeOK
  <2>2. \A x \in Events : pc'[x] \in {"deliver", "await"} => pc[x] \in {"deliver", "await"}
    <3>1. pc \in [Tasks -> Points] /\ \A x \in Events : x \in Tasks
      BY <1>0 DEF TypeOK, Tasks
    <3>2. CASE DeliverEnd(t)
      BY <3>1, <3>2 DEF DeliverEnd
    <3>3. CASE HandlerOk(t)
      BY <3>1, <3>3 DEF HandlerOk
    <3>4. CASE HandlerThrows(t)
      BY <3>1, <3>4 DEF HandlerThrows
    <3>5. QED BY <1>7, <3>2, <3>3, <3>4
  <2>3. rows' = rows /\ invoked' = invoked /\ handlers' = handlers /\ cur' = cur /\ hnd' = hnd
    BY <1>7 DEF DeliverEnd, HandlerOk, HandlerThrows
  <2>4. QED BY <1>0, <2>1, <2>2, <2>3, QuietStep
<1>8. ASSUME NEW r \in Replayers, ReplayStep(r) PROVE Covered'
  <2>1. \A x \in Events : x # r
    BY TaskAssumption
  <2>2. /\ rows' = rows /\ disk' = disk /\ invoked' = invoked /\ handlers' = handlers
        /\ \A x \in Events : pc'[x] = pc[x] /\ cur'[x] = cur[x] /\ hnd'[x] = hnd[x]
    BY <1>0, <1>8, <2>1 DEF ReplayStep, ReplayRow, ReplayResume, ReplayEnd, arrays, TypeOK, Tasks
  <2>3. QED BY <1>0, <2>2, QuietStep
<1>9. ASSUME NEW d \in Events, DrainEnd(d) \/ RecordAudit(d) PROVE Covered'
  <2>1. \A x \in Events : pc'[x] \in {"deliver", "await"} => pc[x] \in {"deliver", "await"}
    <3>1. pc \in [Tasks -> Points] /\ d \in Tasks /\ \A x \in Events : x \in Tasks
      BY <1>0 DEF TypeOK, Tasks
    <3>2. CASE DrainEnd(d)
      BY <3>1, <3>2 DEF DrainEnd
    <3>3. CASE RecordAudit(d)
      BY <3>1, <3>3 DEF RecordAudit
    <3>4. QED BY <1>9, <3>2, <3>3
  <2>2. QED BY <1>0, <1>9, <2>1, QuietStep DEF DrainEnd, RecordAudit, arrays
<1>10. ASSUME NEW r \in Replayers, NEW since, NEW topics, Replay(r, since, topics)
       PROVE  Covered'
  <2>1. \A x \in Events : pc'[x] \in {"deliver", "await"} => pc[x] \in {"deliver", "await"}
    BY <1>0, <1>10 DEF Replay, TypeOK
  <2>2. QED BY <1>0, <1>10, <2>1, QuietStep DEF Replay, arrays
<1>11. ASSUME Restart PROVE Covered'
  <2>1. ASSUME NEW e \in Events, NEW h \in Handlers
        PROVE  invoked'[e][h] + Cardinality(Unspent(e, h)') <= rows'[e].attempts
    <3>1. invoked'[e][h] = 0
      BY <1>11 DEF Restart
    <3>2. \A d \in Events : pc'[d] \notin {"deliver", "await"}
      BY <1>11 DEF Restart, Tasks
    <3>3. Unspent(e, h)' = {}
      BY <3>2 DEF Unspent
    <3>4. rows'[e].attempts \in Nat
      BY <1>0 DEF TypeOK, Row
    <3>5. QED BY <3>1, <3>3, <3>4, FS_EmptySet
  <2>2. \A e \in Events : rows'[e].status = "absent" => rows'[e].attempts = 0
    BY <1>11 DEF Restart, Covered, NoRow
  <2>3. QED BY <1>11, <2>1, <2>2 DEF Restart, Covered
<1>12. CASE UNCHANGED vars
  BY <1>0, <1>12, QuietStep DEF vars
<1>13. QED
  BY <1>1, <1>2, <1>3, <1>4, <1>5, <1>6, <1>7, <1>8, <1>9, <1>10, <1>11, <1>12
     DEF Next, DrainStep, DeliverStep

\* A counted attempt pays for at most one call of each handler, in every
\* interleaving of any number of drains, replays, subscriptions and restarts.
THEOREM CallsBounded == Spec => []CallsWithinAttempts
<1>1. Init => Covered
  <2> SUFFICES ASSUME Init PROVE Covered
    OBVIOUS
  <2>1. ASSUME NEW e \in Events, NEW h \in Handlers
        PROVE  invoked[e][h] + Cardinality(Unspent(e, h)) <= rows[e].attempts
    <3>1. Unspent(e, h) = {}
      BY DEF Init, Unspent, Tasks
    <3>2. invoked[e][h] = 0 /\ rows[e].attempts = 0
      BY DEF Init, NoRow
    <3>3. QED BY <3>1, <3>2, FS_EmptySet
  <2>2. \A e \in Events : rows[e].attempts = 0 /\ disk.rows[e].attempts = 0
    BY DEF Init, NoRow
  <2>3. \A t \in Topics : DOMAIN handlers[t] = {}
    BY DEF Init
  <2>4. QED BY <2>1, <2>2, <2>3 DEF Covered
<1>2. TypeInv /\ Covered => CallsWithinAttempts
  <2> SUFFICES ASSUME TypeInv, Covered, NEW e \in Events, NEW h \in Handlers
               PROVE  invoked[e][h] <= rows[e].attempts
    BY DEF CallsWithinAttempts
  <2>1. Cardinality(Unspent(e, h)) \in Nat
    BY UnspentFinite
  <2>2. invoked[e][h] \in Nat /\ rows[e].attempts \in Nat
    BY DEF TypeInv, TypeOK, Row
  <2>3. invoked[e][h] + Cardinality(Unspent(e, h)) <= rows[e].attempts
    BY DEF Covered
  <2>4. QED BY <2>1, <2>2, <2>3
<1>3. QED BY <1>1, <1>2, TypeInit, TypeStep, CoveredStep, PTL DEF Spec

-----------------------------------------------------------------------------
\* The drain of a publish that has not gone through the array yet, and one that
\* has counted the attempt of the row it delivers.
Draining(d)   == pc[d] \in {"scan", "deliver", "await", "delivered", "failed"}
Delivering(d) == pc[d] \in {"deliver", "await", "delivered", "failed"}

\* In a process that was not restarted, a row no drain has tried is pending and
\* lies ahead of the loop index of some drain.
Ahead ==
  restarts = 0 =>
    /\ \A e \in Events : rows[e].status = "absent" => rows[e].attempts = 0
    /\ \A e \in Events : rows[e].attempts = 0 => rows[e].status \in {"absent", "pending"}
    /\ \A j \in DOMAIN outbox : rows[outbox[j]].status # "absent"
    /\ \A d \in Events : Delivering(d) => rows[cur[d]].attempts > 0
    /\ \A j \in DOMAIN outbox :
         rows[outbox[j]].attempts = 0 => \E d \in Events : Draining(d) /\ pos[d] < j

\* A trimmed array holds only elements it held before.
LEMMA TrimElements ==
  ASSUME NEW S, NEW seq \in Seq(S), NEW max \in Nat \ {0}, NEW i \in DOMAIN Trim(seq, max)
  PROVE  i \in Nat /\ i > 0 /\ \E k \in DOMAIN seq : Trim(seq, max)[i] = seq[k]
<1>1. DOMAIN seq = 1 .. Len(seq) /\ Len(seq) \in Nat
  BY LenProperties
<1>2. CASE Len(seq) > max
  <2>1. Trim(seq, max) = SubSeq(seq, Len(seq) - max + 1, Len(seq))
    BY <1>2 DEF Trim
  <2>2. Len(seq) - max + 1 \in 1 .. Len(seq)
    BY <1>1, <1>2
  <2>3. /\ Len(SubSeq(seq, Len(seq) - max + 1, Len(seq))) = max
        /\ \A k \in 1 .. max : SubSeq(seq, Len(seq) - max + 1, Len(seq))[k] = seq[Len(seq) - max + k]
    BY <1>1, <2>2, SubSeqProperties
  <2>4. DOMAIN SubSeq(seq, Len(seq) - max + 1, Len(seq)) = 1 .. max
    BY <1>1, <2>2, <2>3, SubSeqProperties, LenProperties
  <2>5. i \in 1 .. max /\ Len(seq) - max + i \in DOMAIN seq
    BY <1>1, <1>2, <2>1, <2>4
  <2>6. QED BY <2>1, <2>3, <2>5
<1>3. CASE ~(Len(seq) > max)
  BY <1>1, <1>3 DEF Trim
<1>4. QED BY <1>2, <1>3

\* A set of positions has a first one.
LEMMA FirstPosition ==
  ASSUME NEW S \in SUBSET Nat, NEW n \in S
  PROVE  \E k \in S : \A m \in S : k <= m
<1> DEFINE Less == OpToRel(<, Nat)
<1>1. \A m, k \in Nat : m < k => <<m, k>> \in Less
  BY DEF OpToRel
<1>2. IsWellFoundedOn(Less, Nat)
  BY NatLessThanWellFounded
<1> HIDE DEF Less
<1>3. PICK k \in S : \A m \in S : ~(<<m, k>> \in Less)
  BY <1>2, WFMin
<1>4. ASSUME NEW m \in S PROVE k <= m
  <2>1. m \in Nat /\ k \in Nat
    OBVIOUS
  <2>2. ~(m < k)
    BY <1>1, <1>3, <2>1
  <2>3. QED BY <2>1, <2>2
<1>5. QED BY <1>4

\* A step that leaves the array, the indexes and the attempts alone, and the
\* status of every untried row, keeps Ahead if no drain ends or begins to deliver.
LEMMA AheadKept ==
  ASSUME TypeInv, Ahead,
         outbox' = outbox, restarts' = restarts,
         \A e \in Events : /\ rows'[e].attempts = rows[e].attempts
                           /\ rows[e].attempts = 0 => rows'[e].status = rows[e].status
                           /\ rows'[e].status = "absent" => rows[e].status = "absent",
         \A d \in Events : /\ Draining(d) => Draining(d)'
                           /\ Delivering(d)' => Delivering(d)
                           /\ pos'[d] = pos[d] /\ cur'[d] = cur[d]
  PROVE  Ahead'
<1> SUFFICES ASSUME restarts = 0 PROVE Ahead'
  BY DEF Ahead
<1>1. \A j \in DOMAIN outbox : outbox[j] \in Events
  BY ElementOfSeq DEF TypeInv, TypeOK
<1>2. \A d \in Events : cur[d] \in Events
  BY DEF TypeInv, TypeOK, Tasks
<1>3. /\ \A e \in Events : rows'[e].status = "absent" => rows'[e].attempts = 0
      /\ \A e \in Events : rows'[e].attempts = 0 => rows'[e].status \in {"absent", "pending"}
  BY DEF Ahead
<1>4. \A j \in DOMAIN outbox' : rows'[outbox'[j]].status # "absent"
  BY <1>1 DEF Ahead
<1>5. \A d \in Events : Delivering(d)' => rows'[cur'[d]].attempts > 0
  BY <1>2 DEF Ahead
<1>6. \A j \in DOMAIN outbox' :
        rows'[outbox'[j]].attempts = 0 => \E d \in Events : Draining(d)' /\ pos'[d] < j
  BY <1>1 DEF Ahead
<1>7. QED BY <1>3, <1>4, <1>5, <1>6 DEF Ahead

\* Each action preserves Ahead: the drain of a new row starts before every row,
\* and a drain passes or ends at no pending row it has not counted.
LEMMA AheadStep == TypeInv /\ Ahead /\ [Next]_vars => Ahead'
<1> SUFFICES ASSUME TypeInv, Ahead, [Next]_vars PROVE Ahead'
  OBVIOUS
<1>0. TypeOK
  BY DEF TypeInv
<1>1. ASSUME NEW e \in Events, Publish(e) PROVE Ahead'
  <2> SUFFICES ASSUME restarts = 0 PROVE Ahead'
    BY <1>1 DEF Publish, Ahead
  <2>1. rows' = [rows EXCEPT ![e] = NewRow(clock')] /\ rows[e].status = "absent"
    BY <1>1 DEF Publish
  <2>2. rows'[e].status = "pending" /\ rows'[e].attempts = 0 /\ \A f \in Events \ {e} : rows'[f] = rows[f]
    BY <1>0, <2>1 DEF NewRow, TypeOK
  <2>3. pos'[e] = 0 /\ Draining(e)'
    BY <1>0, <1>1 DEF Publish, Draining, TypeOK, Tasks
  <2>4. Append(outbox, e) \in Seq(Events) /\ \A k \in DOMAIN Append(outbox, e) :
           Append(outbox, e)[k] = e \/ \E m \in DOMAIN outbox : Append(outbox, e)[k] = outbox[m]
    BY <1>0, AppendProperties, LenProperties DEF TypeOK
  <2>5. \A j \in DOMAIN outbox' :
           /\ j \in Nat /\ j > 0
           /\ outbox'[j] = e \/ \E m \in DOMAIN outbox : outbox'[j] = outbox[m]
    <3> SUFFICES ASSUME NEW j \in DOMAIN outbox'
                 PROVE  /\ j \in Nat /\ j > 0
                        /\ outbox'[j] = e \/ \E m \in DOMAIN outbox : outbox'[j] = outbox[m]
      OBVIOUS
    <3>1. outbox' = Trim(Append(outbox, e), MaxOutbox)
      BY <1>1 DEF Publish
    <3>2. /\ j \in Nat /\ j > 0
          /\ \E k \in DOMAIN Append(outbox, e) : Trim(Append(outbox, e), MaxOutbox)[j] = Append(outbox, e)[k]
      <4> DEFINE longer == Append(outbox, e)
      <4>1. longer \in Seq(Events) /\ MaxOutbox \in Nat \ {0} /\ j \in DOMAIN Trim(longer, MaxOutbox)
        BY <2>4, <3>1, BoundAssumption
      <4> HIDE DEF longer
      <4>2. j \in Nat /\ j > 0 /\ \E k \in DOMAIN longer : Trim(longer, MaxOutbox)[j] = longer[k]
        BY <4>1, TrimElements
      <4>3. QED BY <4>2 DEF longer
    <3>3. QED BY <2>4, <3>1, <3>2
  <2>6. \A m \in DOMAIN outbox : outbox[m] \in Events
    BY <1>0, ElementOfSeq DEF TypeOK
  <2>7. /\ \A f \in Events : rows'[f].status = "absent" => rows'[f].attempts = 0
        /\ \A f \in Events : rows'[f].attempts = 0 => rows'[f].status \in {"absent", "pending"}
        /\ \A j \in DOMAIN outbox' : rows'[outbox'[j]].status # "absent"
    BY <2>2, <2>5, <2>6 DEF Ahead
  <2>8. \A d \in Events : Delivering(d)' => rows'[cur'[d]].attempts > 0
    <3> SUFFICES ASSUME NEW d \in Events, Delivering(d)' PROVE rows'[cur'[d]].attempts > 0
      OBVIOUS
    <3>1. Delivering(d) /\ cur'[d] = cur[d] /\ cur[d] \in Events
      BY <1>0, <1>1 DEF Publish, Delivering, TypeOK, Tasks
    <3>2. rows[cur[d]].attempts > 0 /\ rows[e].attempts = 0
      BY <2>1, <3>1 DEF Ahead
    <3>3. cur[d] # e
      BY <3>2
    <3>4. QED BY <2>2, <3>1, <3>2, <3>3
  <2>9. \A j \in DOMAIN outbox' : Draining(e)' /\ pos'[e] < j
    BY <2>3, <2>5
  <2>10. QED BY <2>7, <2>8, <2>9 DEF Ahead
<1>2. ASSUME NEW d \in Events, DrainRow(d) PROVE Ahead'
  <2> SUFFICES ASSUME restarts = 0 PROVE Ahead'
    BY <1>2 DEF DrainRow, Ahead
  <2>1. PICK i \in DOMAIN outbox :
          /\ NextPending(pos[d], i)
          /\ pos' = [pos EXCEPT ![d] = i]
          /\ cur' = [cur EXCEPT ![d] = outbox[i]]
          /\ rows' = [rows EXCEPT ![outbox[i]].attempts = @ + 1]
    BY <1>2 DEF DrainRow, CountAttempt
  <2>2. /\ \A j \in DOMAIN outbox : outbox[j] \in Events /\ j \in Nat
        /\ d \in Tasks /\ pos[d] \in Nat /\ \A x \in Events : x \in Tasks /\ pos[x] \in Nat
    BY <1>0, ElementOfSeq DEF TypeOK, Tasks
  <2>3. /\ \A e \in Events : rows'[e].status = rows[e].status
        /\ \A e \in Events : e # outbox[i] => rows'[e].attempts = rows[e].attempts
        /\ rows'[outbox[i]].attempts > 0
        /\ \A e \in Events : rows[e].attempts > 0 => rows'[e].attempts > 0
    <3>1. rows \in [Events -> Row] /\ outbox[i] \in Events
      BY <1>0, <2>2 DEF TypeOK
    <3>2. \A e \in Events :
            /\ rows'[e].status = rows[e].status
            /\ rows'[e].attempts = IF e = outbox[i] THEN rows[e].attempts + 1 ELSE rows[e].attempts
      BY <2>1, <3>1, CountAttemptUpdate
    <3>3. \A e \in Events : rows[e].attempts \in Nat
      BY <3>1 DEF Row
    <3>4. QED BY <3>1, <3>2, <3>3
  <2>4. \A e \in Events : rows'[e].attempts = 0 => rows[e].attempts = 0
    <3>1. \A e \in Events : rows[e].attempts \in Nat
      BY <1>0 DEF TypeOK, Row
    <3>2. QED BY <2>3, <3>1
  <2>5. rows[outbox[i]].status = "pending"
    BY <2>1 DEF NextPending, Pending
  <2>6. /\ \A e \in Events : rows'[e].status = "absent" => rows'[e].attempts = 0
        /\ \A e \in Events : rows'[e].attempts = 0 => rows'[e].status \in {"absent", "pending"}
    BY <2>2, <2>3, <2>4, <2>5 DEF Ahead
  <2>7. outbox' = outbox /\ \A j \in DOMAIN outbox' : rows'[outbox'[j]].status # "absent"
    BY <1>2, <2>2, <2>3 DEF DrainRow, Ahead
  <2>8. \A x \in Events : Delivering(x)' => rows'[cur'[x]].attempts > 0
    <3> SUFFICES ASSUME NEW x \in Events, Delivering(x)' PROVE rows'[cur'[x]].attempts > 0
      OBVIOUS
    <3>1. CASE x = d
      BY <1>0, <2>1, <2>2, <2>3, <3>1 DEF TypeOK
    <3>2. CASE x # d
      <4>1. Delivering(x) /\ cur'[x] = cur[x] /\ cur[x] \in Events
        BY <1>0, <1>2, <2>1, <2>2, <3>2 DEF DrainRow, Delivering, TypeOK
      <4>2. QED BY <2>3, <4>1 DEF Ahead
    <3>3. QED BY <3>1, <3>2
  <2>9. ASSUME NEW j \in DOMAIN outbox, rows'[outbox[j]].attempts = 0
        PROVE  \E x \in Events : Draining(x)' /\ pos'[x] < j
    <3>1. rows[outbox[j]].attempts = 0 /\ outbox[j] # outbox[i]
      BY <2>2, <2>3, <2>4, <2>9
    <3>2. PICK x \in Events : Draining(x) /\ pos[x] < j
      BY <3>1 DEF Ahead
    <3>3. CASE x # d
      BY <1>0, <1>2, <2>1, <2>2, <3>2, <3>3 DEF DrainRow, Draining, TypeOK
    <3>4. CASE x = d
      <4>1. Pending(j)
        BY <2>2, <3>1 DEF Pending, Ahead
      <4>2. ~(j \in pos[d] + 1 .. i - 1) /\ j # i
        BY <2>1, <3>1, <4>1 DEF NextPending
      <4>3. j > i
        BY <2>2, <3>2, <3>4, <4>2
      <4>4. Draining(d)' /\ pos'[d] = i
        BY <1>0, <1>2, <2>1, <2>2 DEF DrainRow, Draining, TypeOK
      <4>5. QED BY <2>2, <4>3, <4>4
    <3>5. QED BY <3>3, <3>4
  <2>10. QED BY <2>6, <2>7, <2>8, <2>9 DEF Ahead
<1>3. ASSUME NEW d \in Events, DrainEnd(d) PROVE Ahead'
  <2> SUFFICES ASSUME restarts = 0 PROVE Ahead'
    BY <1>3 DEF DrainEnd, Ahead
  <2>1. /\ outbox' = outbox /\ rows' = rows /\ pos' = pos /\ cur' = cur
        /\ \A x \in Events : /\ Delivering(x)' => Delivering(x)
                             /\ x # d /\ Draining(x) => Draining(x)'
    BY <1>0, <1>3 DEF DrainEnd, arrays, Delivering, Draining, TypeOK, Tasks
  <2>2. ASSUME NEW j \in DOMAIN outbox, rows[outbox[j]].attempts = 0
        PROVE  \E x \in Events : Draining(x)' /\ pos[x] < j
    <3>1. PICK x \in Events : Draining(x) /\ pos[x] < j
      BY <2>2 DEF Ahead
    <3>2. CASE x # d
      BY <2>1, <3>1, <3>2
    <3>3. CASE x = d
      <4>1. \A k \in DOMAIN outbox : ~NextPending(pos[d], k)
        BY <1>3 DEF DrainEnd, LoopEnds
      <4>2. outbox[j] \in Events /\ DOMAIN outbox = 1 .. Len(outbox) /\ Len(outbox) \in Nat /\ pos[d] \in Nat
        BY <1>0, ElementOfSeq, LenProperties DEF TypeOK, Tasks
      <4>3. Pending(j)
        BY <2>2, <4>2 DEF Pending, Ahead
      <4>4. DEFINE Late == {k \in DOMAIN outbox : k > pos[d] /\ Pending(k)}
      <4>5. j \in Late /\ Late \subseteq Nat
        BY <3>1, <3>3, <4>2, <4>3
      <4> HIDE DEF Late
      <4>6. PICK k \in Late : \A m \in Late : k <= m
        BY <4>5, FirstPosition
      <4>7. NextPending(pos[d], k)
        <5>1. k \in DOMAIN outbox /\ k > pos[d] /\ Pending(k)
          BY <4>6 DEF Late
        <5>2. \A m \in pos[d] + 1 .. k - 1 : m \in DOMAIN outbox /\ m \notin Late /\ m > pos[d]
          BY <4>2, <4>5, <4>6, <5>1
        <5>3. \A m \in pos[d] + 1 .. k - 1 : ~Pending(m)
          BY <5>2 DEF Late
        <5>4. QED BY <5>1, <5>3 DEF NextPending
      <4>8. QED BY <4>1, <4>6, <4>7 DEF Late
    <3>4. QED BY <3>2, <3>3
  <2>3. QED BY <2>1, <2>2 DEF Ahead
<1>4. ASSUME NEW d \in Events, MarkPublished(d) \/ ParkOrKeep(d) PROVE Ahead'
  <2> SUFFICES ASSUME restarts = 0 PROVE Ahead'
    BY <1>4 DEF MarkPublished, ParkOrKeep, Ahead
  <2>1. cur[d] \in Events /\ rows \in [Events -> Row]
    BY <1>0 DEF TypeOK, Tasks
  <2>2. rows[cur[d]].attempts > 0
    BY <1>4 DEF MarkPublished, ParkOrKeep, Delivering, Ahead
  <2>3. \E s \in {"published", "dlq"} : rows' = [rows EXCEPT ![cur[d]].status = s] \/ rows' = rows
    BY <1>4 DEF MarkPublished, ParkOrKeep
  <2>4. \A e \in Events : /\ rows'[e].attempts = rows[e].attempts
                          /\ rows[e].attempts = 0 => rows'[e].status = rows[e].status
                          /\ rows'[e].status = "absent" => rows[e].status = "absent"
    <3>1. PICK s \in {"published", "dlq"} : rows' = [rows EXCEPT ![cur[d]].status = s] \/ rows' = rows
      BY <2>3
    <3>2. CASE rows' = [rows EXCEPT ![cur[d]].status = s]
      <4>1. \A e \in Events :
              /\ rows'[e].attempts = rows[e].attempts
              /\ rows'[e].status = IF e = cur[d] THEN s ELSE rows[e].status
        BY <2>1, <3>2, SetStatusUpdate
      <4>2. QED BY <2>2, <4>1
    <3>3. CASE rows' = rows
      BY <3>3
    <3>4. QED BY <3>1, <3>2, <3>3
  <2>5. /\ outbox' = outbox /\ restarts' = restarts /\ pos' = pos /\ cur' = cur
        /\ \A x \in Events : /\ Draining(x) => Draining(x)'
                             /\ Delivering(x)' => Delivering(x)
    BY <1>0, <1>4 DEF MarkPublished, ParkOrKeep, Draining, Delivering, TypeOK, Tasks
  <2>6. QED BY <2>4, <2>5, AheadKept
<1>5. ASSUME NEW t \in Tasks, DeliverStep(t) PROVE Ahead'
  <2>1. /\ rows' = rows /\ outbox' = outbox /\ restarts' = restarts /\ pos' = pos /\ cur' = cur
        /\ \A x \in Events : /\ Draining(x) => Draining(x)'
                             /\ Delivering(x)' => Delivering(x)
    <3>1. pc \in [Tasks -> Points] /\ \A x \in Events : x \in Tasks
      BY <1>0 DEF TypeOK, Tasks
    <3>2. CASE Invoke(t)
      BY <3>1, <3>2 DEF Invoke, arrays, Draining, Delivering
    <3>3. CASE DeliverEnd(t)
      BY <3>1, <3>3 DEF DeliverEnd, Draining, Delivering
    <3>4. CASE HandlerOk(t)
      BY <3>1, <3>4 DEF HandlerOk, Draining, Delivering
    <3>5. CASE HandlerThrows(t)
      BY <3>1, <3>5 DEF HandlerThrows, Draining, Delivering
    <3>6. QED BY <1>5, <3>2, <3>3, <3>4, <3>5 DEF DeliverStep
  <2>2. QED BY <2>1, AheadKept
<1>6. ASSUME NEW r \in Replayers,
             ReplayStep(r) \/ \E since \in 1 .. clock, topics \in SUBSET Topics : Replay(r, since, topics)
      PROVE  Ahead'
  <2>1. \A x \in Events : x # r
    BY TaskAssumption
  <2>2. /\ rows' = rows /\ outbox' = outbox /\ restarts' = restarts
        /\ \A x \in Events : pc'[x] = pc[x] /\ cur'[x] = cur[x] /\ pos'[x] = pos[x]
    BY <1>0, <1>6, <2>1
       DEF ReplayStep, ReplayRow, ReplayResume, ReplayEnd, Replay, arrays, TypeOK, Tasks
  <2>3. QED BY <2>2, AheadKept DEF Draining, Delivering
<1>7. ASSUME NEW d \in Events, RecordAudit(d) PROVE Ahead'
  <2>1. /\ rows' = rows /\ outbox' = outbox /\ restarts' = restarts /\ pos' = pos /\ cur' = cur
        /\ \A x \in Events : /\ Draining(x) => Draining(x)'
                             /\ Delivering(x)' => Delivering(x)
    BY <1>0, <1>7 DEF RecordAudit, arrays, Draining, Delivering, TypeOK, Tasks
  <2>2. QED BY <2>1, AheadKept
<1>8. ASSUME NEW h \in Handlers, Subscribe(h) PROVE Ahead'
  BY <1>8, AheadKept DEF Subscribe, arrays, task, Draining, Delivering
<1>9. ASSUME Restart PROVE Ahead'
  BY <1>0, <1>9 DEF Restart, Ahead, TypeOK
<1>10. CASE UNCHANGED vars
  BY <1>10, AheadKept DEF vars, Draining, Delivering
<1>11. QED
  BY <1>1, <1>2, <1>3, <1>4, <1>5, <1>6, <1>7, <1>8, <1>9, <1>10 DEF Next, DrainStep

\* Trimming makes suspended drains skip rows, but for any number of publishes,
\* replays and subscriptions and any length of the outbox no row is left that
\* no drain has tried.
THEOREM Tried == Spec => []NothingLeftUntried
<1>1. Init => Ahead
  <2> SUFFICES ASSUME Init PROVE Ahead
    OBVIOUS
  <2>1. \A e \in Events : rows[e].status = "absent" /\ rows[e].attempts = 0
    BY DEF Init, NoRow
  <2>2. DOMAIN outbox = {} /\ \A d \in Events : ~Delivering(d)
    BY DEF Init, Delivering, Tasks
  <2>3. QED BY <2>1, <2>2 DEF Ahead
<1>2. TypeInv /\ Ahead => NothingLeftUntried
  <2> SUFFICES ASSUME TypeInv, Ahead, restarts = 0, \A t \in Tasks : pc[t] \in {"idle", "done"},
                      NEW j \in DOMAIN outbox
               PROVE  rows[outbox[j]].attempts > 0
    BY DEF NothingLeftUntried, Ids
  <2>1. \A d \in Events : ~Draining(d)
    BY DEF Draining, Tasks
  <2>2. rows[outbox[j]].attempts # 0
    BY <2>1 DEF Ahead
  <2>3. outbox[j] \in Events
    BY ElementOfSeq DEF TypeInv, TypeOK
  <2>4. QED BY <2>2, <2>3 DEF TypeInv, TypeOK, Row
<1>3. QED BY <1>1, <1>2, TypeInit, TypeStep, AheadStep, PTL DEF Spec
=============================================================================
